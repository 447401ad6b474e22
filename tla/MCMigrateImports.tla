---------------------------- MODULE MCMigrateImports ----------------------------
\* contracts/a.sol holds all the old paths at once, or a few mentions that meet;
\* the other files hold one old path each.
EXTENDS MigrateImports

A == <<"contracts", "a.sol">>
B == <<"contracts", "token", "b.sol">>
Notes == <<"contracts", "notes.md">>
MCDirectories == {<<"contracts">>, <<"contracts", "token">>}
MCSolNames == {"a.sol", "b.sol"}

SafeMath == Plain([dir |-> "math", name |-> "SafeMath"])
SafeCast == getUpgradeablePath([dir |-> "utils", name |-> "SafeCast"])
ERC20 == Plain([dir |-> "token/ERC20", name |-> "ERC20"])

Everything ==
  [i \in DOMAIN pathUpdates |-> Plain(pathUpdates[i].old)]
  \o [i \in DOMAIN pathUpdates |-> getUpgradeablePath(pathUpdates[i].old)]

MCContents ==
  (A :> {Everything, <<ERC20, SafeMath, SafeCast>>, <<SafeMath, SafeMath>>,
         <<SafeCast, SafeMath, SafeCast>>})
  @@ (B :> {<<SafeMath>>}) @@ (Notes :> {<<SafeMath>>})
MCDrafts == {<<SafeMath, ERC20>>}
MCArguments ==
  {<<>>, <<<<"contracts">>, <<"contracts", "token">>>>, <<<<"contracts", "token">>, <<"missing">>>>}
=============================================================================
