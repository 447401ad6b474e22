----------------------------- MODULE MigrateImports -----------------------------
(***************************************************************************)
(* scripts/migrate-imports.js of the vendored OpenZeppelin contracts: a    *)
(* command that rewrites the imports of every Solidity file below the      *)
(* paths it is given, in place, file by file.  Every await is a point at   *)
(* which the files may change under it, or the process be killed.          *)
(*                                                                         *)
(* A path is the sequence of its names, the content of a file the sequence *)
(* of the library paths it mentions, each of them [package, dir, name,     *)
(* suffix], where suffix is what follows the name.                         *)
(***************************************************************************)
EXTENDS Naturals, SequencesExt

CONSTANTS Directories,  \* the paths of the directories
          Contents,     \* for the path of each file, what it may hold at first
          SolNames,     \* the names that match /\.sol$/
          Arguments,    \* the arguments that the command is given
          Drafts,       \* what a user may save over a file
          MaxMishaps    \* bound: how many saves, deletions and kills there are

\* What a file can mention: the path of a Solidity file of the library.
Mentions == [package : STRING, dir : STRING, name : STRING, suffix : STRING]

\* A tree of files: whatever leads to a file is a directory.
ASSUME MigrateAssumption ==
  /\ MaxMishaps \in Nat /\ IsFiniteSet(DOMAIN Contents) /\ IsFiniteSet(Directories)
  /\ DOMAIN Contents \subseteq Seq(STRING) \ {<<>>} /\ Directories \subseteq Seq(STRING)
  /\ DOMAIN Contents \cap Directories = {}
  /\ \A f \in DOMAIN Contents :
       Contents[f] \subseteq Seq(Mentions) /\ \A n \in 1..(Len(f) - 1) : SubSeq(f, 1, n) \in Directories
  /\ Arguments \subseteq Seq(Seq(STRING)) /\ Drafts \subseteq Seq(Mentions)

VARIABLES files,          \* the files on disk
          pc,             \* what the process does next
          args, queue, found, buffer, updatedFiles,
          before,         \* history: the files when the run started
          touched,        \* history: files changed by others since
          original,       \* history: what the user last saved in each file
          torn, raced,    \* history: files truncated by a process that was
                          \* killed, and saved between its read and its write
          mishaps         \* counts towards MaxMishaps

disk == files
process == <<pc, args, queue, found, buffer, updatedFiles>>
history == <<before, touched, original, torn, raced, mishaps>>
vars == <<disk, process, history>>

MigrateInit ==
  /\ files \in [DOMAIN Contents -> UNION {Contents[f] : f \in DOMAIN Contents}]
  /\ \A f \in DOMAIN files : files[f] \in Contents[f]
  /\ pc = "idle" /\ args = <<>> /\ queue = <<>> /\ found = <<>> /\ buffer = <<>>
  /\ updatedFiles = <<>> /\ before = files /\ touched = {} /\ original = files
  /\ torn = {} /\ raced = {} /\ mishaps = 0
-----------------------------------------------------------------------------
(* The paths that moved between versions 3.4 and 4.0. *)

Renamed(from, name, to, newName) ==
  <<[old |-> [dir |-> from, name |-> name], new |-> [dir |-> to, name |-> newName]]>>

Moved(from, to, names) == FlattenSeq([i \in DOMAIN names |-> Renamed(from, names[i], to, names[i])])

pathUpdates ==
  Moved("access", "governance", <<"TimelockController">>)
  \o Moved("cryptography", "utils/cryptography", <<"ECDSA", "MerkleProof">>)
  \o Moved("drafts", "utils/cryptography", <<"EIP712">>)
  \o Renamed("drafts", "ERC20Permit", "token/ERC20/extensions", "draft-ERC20Permit")
  \o Renamed("drafts", "IERC20Permit", "token/ERC20/extensions", "draft-IERC20Permit")
  \o Moved("GSN", "utils", <<"Context">>)
  \o Moved("introspection", "utils/introspection",
       <<"ERC165Checker", "ERC165", "ERC1820Implementer",
         "IERC165", "IERC1820Implementer", "IERC1820Registry">>)
  \o Moved("math", "utils/math", <<"Math", "SafeMath", "SignedSafeMath">>)
  \o Moved("payment/escrow", "utils/escrow", <<"ConditionalEscrow", "Escrow", "RefundEscrow">>)
  \o Moved("payment", "finance", <<"PaymentSplitter">>)
  \o Moved("utils", "finance", <<"PaymentSplitter">>)
  \o Moved("payment", "security", <<"PullPayment">>)
  \o Moved("presets", "token/ERC1155/presets", <<"ERC1155PresetMinterPauser">>)
  \o Moved("presets", "token/ERC20/presets", <<"ERC20PresetFixedSupply", "ERC20PresetMinterPauser">>)
  \o Moved("presets", "token/ERC721/presets", <<"ERC721PresetMinterPauserAutoId">>)
  \o Moved("presets", "token/ERC777/presets", <<"ERC777PresetFixedSupply">>)
  \o Moved("proxy", "proxy/beacon", <<"BeaconProxy", "IBeacon">>)
  \o Moved("proxy", "proxy/utils", <<"Initializable">>)
  \o Moved("utils", "proxy/utils", <<"Initializable">>)
  \o Moved("proxy", "proxy/transparent", <<"ProxyAdmin", "TransparentUpgradeableProxy">>)
  \o Moved("proxy", "proxy/beacon", <<"UpgradeableBeacon">>)
  \o Renamed("proxy", "UpgradeableProxy", "proxy/ERC1967", "ERC1967Proxy")
  \o Moved("token/ERC1155", "token/ERC1155/extensions",
       <<"ERC1155Burnable", "ERC1155Pausable", "IERC1155MetadataURI">>)
  \o Moved("token/ERC1155", "token/ERC1155/utils", <<"ERC1155Holder", "ERC1155Receiver">>)
  \o Moved("token/ERC20", "token/ERC20/extensions",
       <<"ERC20Burnable", "ERC20Capped", "ERC20Pausable", "ERC20Snapshot">>)
  \o Moved("token/ERC20", "token/ERC20/utils", <<"SafeERC20", "TokenTimelock">>)
  \o Moved("token/ERC721", "token/ERC721/extensions",
       <<"ERC721Burnable", "ERC721Pausable", "IERC721Enumerable", "IERC721Metadata">>)
  \o Moved("token/ERC721", "token/ERC721/utils", <<"ERC721Holder">>)
  \o Moved("utils", "utils/structs", <<"EnumerableMap", "EnumerableSet">>)
  \o Moved("utils", "security", <<"Pausable", "ReentrancyGuard">>)
  \o Moved("utils", "utils/math", <<"SafeCast">>)

Plain(path) == [package |-> "contracts", dir |-> path.dir, name |-> path.name, suffix |-> ""]
getUpgradeablePath(path) ==
  [package |-> "contracts-upgradeable", dir |-> path.dir, name |-> path.name,
   suffix |-> "Upgradeable"]

OldPaths == UNION {{Plain(update.old), getUpgradeablePath(update.old)} : update \in ToSet(pathUpdates)}
UpdateOf(path) ==
  CHOOSE update \in ToSet(pathUpdates) : path \in {Plain(update.old), getUpgradeablePath(update.old)}

\* Variant with a bug: an upgradeable path becomes a plain one.
newPlainPath(path) == Plain(UpdateOf(path).new)

newPath(path) ==
  IF path.package = "contracts" THEN Plain(UpdateOf(path).new)
  ELSE getUpgradeablePath(UpdateOf(path).new)

\* No new path is an old one, so that the order of the table does not matter.
ASSUME MovedOnce == \A path \in OldPaths : newPath(path) \notin OldPaths

\* Variant with a bug: every mention is replaced.
updateEveryImport(content) ==
  [i \in DOMAIN content |-> IF content[i] \in OldPaths THEN newPath(content[i]) ELSE content[i]]

\* String.prototype.replace, given a string, replaces its first occurrence: of
\* each old path, the first mention becomes the new one.
updateImportPaths(content) ==
  [i \in DOMAIN content |->
     IF content[i] \in OldPaths /\ \A j \in 1..(i - 1) : content[j] # content[i]
     THEN newPath(content[i]) ELSE content[i]]
-----------------------------------------------------------------------------
(* The process. *)

isFile(path) == path \in DOMAIN files
isDirectory(path) == path \in Directories

\* Variant with a bug: a directory holds itself, as "." does.
readdirWithItself(path) ==
  {p \in DOMAIN files \cup Directories : p # <<>> /\ (p = path \/ Front(p) = path)}

readdir(path) == {p \in DOMAIN files \cup Directories : p # <<>> /\ Front(p) = path}

Start(arguments) ==
  /\ pc \in {"idle", "done", "failed"}
  /\ args' = IF arguments = <<>> THEN <<<<"contracts">>>> ELSE arguments
  /\ queue' = args' /\ found' = <<>> /\ updatedFiles' = <<>> /\ buffer' = <<>>
  /\ pc' = "listing" /\ before' = files /\ touched' = {}
  /\ UNCHANGED <<disk, original, torn, raced, mishaps>>

\* A promise is rejected: main stops where it is.
Fail == pc' = "failed" /\ UNCHANGED <<disk, args, queue, found, buffer, updatedFiles, history>>

\* Variant with a bug: a path that is missing is tried again.
ListRetrying ==
  /\ pc = "listing" /\ queue # <<>>
  /\ LET top == Head(queue) IN
     \/ ~isFile(top) /\ ~isDirectory(top) /\ UNCHANGED vars
     \/ /\ isFile(top) \/ isDirectory(top)
        /\ \E names \in SetToSeqs(readdir(top)) : queue' = Tail(queue) \o names
        /\ found' = IF isFile(top) /\ Last(top) \in SolNames THEN Append(found, top) ELSE found
        /\ UNCHANGED <<disk, pc, args, buffer, updatedFiles, history>>

\* Variant with a bug: what a directory holds takes the place of the queue.
ListDropping ==
  /\ pc = "listing" /\ queue # <<>>
  /\ LET top == Head(queue) IN
     \/ ~isFile(top) /\ ~isDirectory(top) /\ Fail
     \/ /\ isFile(top) \/ isDirectory(top)
        /\ \E names \in SetToSeqs(readdir(top)) :
             queue' = IF isDirectory(top) THEN names ELSE Tail(queue)
        /\ found' = IF isFile(top) /\ Last(top) \in SolNames THEN Append(found, top) ELSE found
        /\ UNCHANGED <<disk, pc, args, buffer, updatedFiles, history>>

\* The first path of the queue: a file is kept if it is Solidity, a directory
\* adds what it holds to the queue, in the order the file system has it.
ListNext ==
  /\ pc = "listing" /\ queue # <<>>
  /\ LET top == Head(queue) IN
     \/ ~isFile(top) /\ ~isDirectory(top) /\ Fail
     \/ /\ isFile(top)
        /\ queue' = Tail(queue)
        /\ found' = IF Last(top) \in SolNames THEN Append(found, top) ELSE found
        /\ UNCHANGED <<disk, pc, args, buffer, updatedFiles, history>>
     \/ /\ isDirectory(top)
        /\ \E names \in SetToSeqs(readdir(top)) : queue' = Tail(queue) \o names
        /\ UNCHANGED <<disk, pc, args, found, buffer, updatedFiles, history>>

EndList ==
  /\ pc = "listing" /\ queue = <<>> /\ pc' = "updating"
  /\ UNCHANGED <<disk, args, queue, found, buffer, updatedFiles, history>>

file == Head(found)

\* updateFile: it reads, and updates what it read,
ReadFile ==
  /\ pc = "updating" /\ found # <<>>
  /\ \/ ~isFile(file) /\ Fail
     \/ /\ isFile(file) /\ buffer' = updateImportPaths(files[file])
        /\ IF buffer' # files[file]
           THEN pc' = "writing" /\ UNCHANGED found
           ELSE found' = Tail(found) /\ UNCHANGED pc
        /\ UNCHANGED <<disk, args, queue, updatedFiles, history>>

\* and writes: fs.writeFile truncates the file, or makes it anew if it is gone,
\* before the content goes into it.
Truncate ==
  /\ pc = "writing" /\ pc' = "truncated"
  /\ files' = [f \in DOMAIN files \cup {file} |-> IF f = file THEN <<>> ELSE files[f]]
  /\ UNCHANGED <<args, queue, found, buffer, updatedFiles, history>>

WriteFile ==
  /\ pc = "truncated" /\ pc' = "updating"
  /\ files' = [f \in DOMAIN files |-> IF f = file THEN buffer ELSE files[f]]
  /\ updatedFiles' = Append(updatedFiles, file) /\ found' = Tail(found)
  /\ UNCHANGED <<args, queue, buffer, history>>

\* The files that were updated are reported.
Report ==
  /\ pc = "updating" /\ found = <<>> /\ pc' = "done"
  /\ UNCHANGED <<disk, args, queue, found, buffer, updatedFiles, history>>

Step == ListNext \/ EndList \/ ReadFile \/ Truncate \/ WriteFile \/ Report
-----------------------------------------------------------------------------
(* What happens around it. *)

Mishap == mishaps < MaxMishaps /\ mishaps' = mishaps + 1
inHand == IF pc \in {"writing", "truncated"} THEN {file} ELSE {}

Save(f, draft) ==
  /\ f \in DOMAIN files /\ Mishap
  /\ files' = [files EXCEPT ![f] = draft] /\ original' = [original EXCEPT ![f] = draft]
  /\ touched' = touched \cup {f} /\ torn' = torn \ {f}
  /\ raced' = (raced \ {f}) \cup ({f} \cap inHand)
  /\ UNCHANGED <<process, before>>

Delete(f) ==
  /\ f \in DOMAIN files /\ Mishap
  /\ files' = [g \in DOMAIN files \ {f} |-> files[g]] /\ touched' = touched \cup {f}
  /\ UNCHANGED <<process, before, original, torn, raced>>

Kill ==
  /\ pc \notin {"idle", "done", "failed"} /\ pc' = "idle" /\ Mishap
  /\ torn' = torn \cup (IF pc = "truncated" THEN {file} ELSE {})
  /\ UNCHANGED <<disk, args, queue, found, buffer, updatedFiles, before, touched, original, raced>>

MigrateNext ==
  \/ \E arguments \in Arguments : Start(arguments)
  \/ Step
  \/ \E f \in DOMAIN Contents : (\E draft \in Drafts : Save(f, draft)) \/ Delete(f)
  \/ Kill

\* A process that is neither killed nor waits for anyone goes on.
MigrateSpec == MigrateInit /\ [][MigrateNext]_vars /\ WF_vars(Step)
-----------------------------------------------------------------------------
MayBecome(new, old) ==
  \/ new = old
  \/ \E update \in ToSet(pathUpdates) :
       \/ old = Plain(update.old) /\ new = Plain(update.new)
       \/ old = getUpgradeablePath(update.old) /\ new = getUpgradeablePath(update.new)

\* Whatever runs, fails, is killed and is run again, every file but the one in
\* hand mentions what its user last saved in it, each path as it was or as it
\* is now called; only a process killed in the middle of a write can empty a
\* file, and only a save between its read and its write can be lost
\* (scripts/migrate-imports.js:133-142).
ImportsKept ==
  \A f \in DOMAIN files \ (torn \cup raced \cup inHand) :
    /\ Len(files[f]) = Len(original[f])
    /\ \A i \in DOMAIN files[f] : MayBecome(files[f][i], original[f][i])

Times(f) == IF Last(f) \in SolNames THEN Cardinality({i \in DOMAIN args : IsPrefix(args[i], f)}) ELSE 0
Count(content, path) == Cardinality({i \in DOMAIN content : content[i] = path})

\* A run that ends well has moved, in every file below its arguments that
\* nobody else changed, as many mentions of each old path as the arguments
\* lead to the file, has not changed any other file, and reports just the
\* files it changed; a run that misses a path while it lists has changed none
\* (migrate-imports.js:92-157).
RunMovesEach ==
  \A f \in DOMAIN files \ touched :
    /\ pc = "done" =>
         /\ \A path \in OldPaths : LET n == Count(before[f], path) IN
              Count(files[f], path) = IF n <= Times(f) THEN 0 ELSE n - Times(f)
         /\ Times(f) = 0 => files[f] = before[f]
         /\ f \in ToSet(updatedFiles) <=> files[f] # before[f]
    /\ pc = "failed" /\ queue # <<>> => files[f] = before[f]

\* Every run that is not killed comes to an end, whatever else happens to the
\* files meanwhile (migrate-imports.js:112-131).
RunEnds == (pc = "listing") ~> (pc \in {"done", "failed", "idle"})

\* What the process has before it: the paths that it would still look at if no
\* file were missing, each as often as the queue leads to it, and the files it
\* has found, each of which it reads, truncates and writes.
Paths == DOMAIN Contents \cup Directories
Ahead == {v \in (DOMAIN queue) \X Paths : IsPrefix(queue[v[1]], v[2])}
StepsLeft ==
  CASE pc = "listing" -> 4 * Cardinality(Ahead) + 3 * Len(found) + 2
    [] pc = "updating" -> 3 * Len(found) + 1
    [] pc = "writing" -> 3 * Len(found)
    [] pc = "truncated" -> 3 * Len(found) - 1
    [] OTHER -> 0

\* Each step of a run brings it nearer to its end, and nothing that happens to
\* the files meanwhile takes it away from there again: neither a tree that is
\* listed while it changes nor a file that comes back makes a run go on for
\* ever (migrate-imports.js:112-131 and 133-142).
RunComesNearer ==
  [][/\ Step => StepsLeft' < StepsLeft
     /\ pc \notin {"idle", "done", "failed"} => StepsLeft' <= StepsLeft]_vars
=============================================================================
