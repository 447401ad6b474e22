# TLA+ models and proofs for this repository

The repository holds two kinds of code: ten exercises, and the OpenZeppelin
repository that they import their base contracts from, vendored whole with its own
JavaScript: generators that write some of its libraries, and tools. The exercises use
neither the generated libraries modelled here nor the tools; the two parts are
modelled apart.

The exercises are independent. Each is one file of
`src/src/`: a small system of contracts with a deployment script in `src/script/`
and the records of its deployment in `src/broadcast/`. They have no tests, and the
contracts share no state. What they have in common is what is hard about them:
integer division, counters kept beside the thing they count, arithmetic that wraps in
some compiler versions and is checked in others, and calls to code one does not
control in the middle of an operation.

Every contract is a state machine whose steps are the successful external calls. A
call that reverts leaves no trace, so its `require` and its checked arithmetic are the
guard of its action. A call that hands control to other code before it has finished
is two actions, with whatever that code may call between them.

The JavaScript templates under `src/lib/openzeppelin-contracts-4.8.0/scripts/` are
the source of the libraries `EnumerableSet`, `EnumerableMap`, `Checkpoints` and
`SafeCast`: what they print is Solidity, and the models are of that, with the types that
the templates run over as parameters. `scripts/migrate-imports.js` is a command that
edits a user's files in place; its steps are the points at which it waits for the file
system.

## 1. Inventory

| component | state | operations | hard parts | what makes it correct | here |
|---|---|---|---|---|---|
| Lending (`Lending.sol` 7-58) | collateral free, collateral used and debt per user; two token balances | addCollateral, removeCollateral, borrow, repay | the price is read from a pair that may be in the middle of a swap; truncating division on partial repayment | collateral can always be given back; no debt is lost; rounding locks or frees nothing wrongly | modelled, proved |
| Pair (`Lending.sol` 60-291) | two reserves, block time, two price accumulators, lock | swap with callback, skim, sync (mint and burn never complete) | callback between paying out and the K check; skim and sync do not take the lock; a clock modulo 2^32 | product never falls; reserves are held; accumulators are the integral of the price | modelled, proved |
| Exchange (`Exchange.sol`) | pools, allowed tokens, swap state per nonce (positions, counter, saved balances) | addToken, addLiquidity, swap with callback, withdraw, initiateTransfer, finalizeTransfer, swapTokens | the client calls everything in any order in `doSwap`; a counter kept beside the positions; measured payments; int256 casts | a settled swap can end; pools are held in tokens; whatever a client takes is paid for | modelled, proved |
| Oracle (`Oracle.sol`) | listed assets with totals; deposits, debts and interest stamps per user | addAsset, setPriceOracle, deposit, borrow, liquidate, interest | interest added lazily, per asset; liquidation across two assets; two divisions in a row; prices move at any time | totals are sums; deposits are covered but for known losses; interest charged once | modelled, proved |
| Yield (`Yield.sol`) | shares, position range, last tick, protocol fees; tokens in hand; a Uniswap V3 position | deposit, withdraw, rebalance, governance calls | fees pending, owed, collected and shared; shares over wrapping arithmetic; the price leaves the range | nothing is left in the pool; the protocol's fees are held; deposits dilute nobody; a rebalance costs nobody more than a rounding | partly modelled, proved |
| Bridge (`Bridge.sol`) | registered tokens, relayed messages, nonce, current sender; bridged tokens | ethOut, ERC20Out, the three message handlers, registerRemoteBridge | ERC777 hooks and ether recipients re-enter; the nonce moves after the call; tokens are measured by balance | bridged tokens are backed; each message once; nothing vouched for that was not sent; hooks cost no more than what is paid in from them | partly modelled, proved |
| StableCoin (`StableCoin.sol`) | positions in two share tokens per collateral, each with a signal; MIM supply | manage, liquidate, addCollateralToken, updateSignal | shares times signal with rounding both ways; a liquidation rescales everyone; rate decay | nobody owes without a position or loses shares on closing it; debts follow the MIM there is, and promises what is held, within a share's worth | partly modelled, proved |
| EnumerableSet (`templates/EnumerableSet.js`) | an array of words and the index of each | add, remove, contains, length, at, values | swap and pop: a removal moves another value | array and index agree | modelled |
| EnumerableMap (`templates/EnumerableMap.js`) | a set of keys, a mapping of values | set, remove, contains, length, at, tryGet, get | a value of 0 looks like none; callers enumerate while others remove | it is a finite function; a reader misses no key that stays | modelled, proved |
| Checkpoints (`templates/Checkpoints.js`) | an array of keys and values | push in three forms, lookups by key and by block | bisections over half-open parts; several pushes in a block; a shortcut for recent blocks | keys ascend; lookups agree with what was pushed; the past is fixed | modelled, proved |
| SafeCast (`templates/SafeCast.js`) | none | casts that revert | bounds | - | the casts that Checkpoints uses |
| migrate-imports (`scripts/migrate-imports.js`) | the files of a user; a queue, a list, a buffer | list, read, update, write | it can be killed between truncating and filling a file; files change under it; paths go missing | no mention is lost or wrongly changed; a finished run has moved what it should; every run ends | modelled, proved up to the fairness of the ending |
| other OpenZeppelin scripts and Hardhat configuration | none | - | - | - | not modelled |
| Chef (`Chef.huff`) | pools, users, reward per share, allocation total, owner, dev address | add, set, deposit, withdraw, emergencyWithdraw, updatePool | EVM stack code by hand beside the Solidity it translates; lazily accrued rewards | rewards paid at most once; pending never negative; stake held in LP tokens | not modelled |
| Vault (`Vault.sol`) | balance per address; ether | deposit, withdraw | the order of payment and bookkeeping | balances are held in ether | not modelled |
| Proxy (`Proxy.sol`) | implementation slot, owner, initialized flag | delegation, initialize, execute | two contracts in one storage | the implementation is initialised once | not modelled |
| Fallout (`Fallout.sol`) | one flag | curve arithmetic, signature check | 256-bit field arithmetic | group laws | not modelled |
| ERC20 of OpenZeppelin (`src/lib`), `helpers/ERC20.sol` | balances, allowances | transfer, transferFrom | order of debit and credit | sum of balances | `Ledger.tla`, as the callers need it |
| scripts, broadcast records | none | deployment | - | - | read for how contracts are wired |

Interactions. Lending reads the reserves of its Pair (`getExchangeRate`, line 56) and
can be called from the Pair's callback. Exchange calls its client, which calls it
back. Two Bridges call each other and the tokens they created, and are called back by
hooks and recipients. Oracle reads prices it does not control. Yield calls its pool
and is called back to pay. Everything runs in one EVM: transactions do not
interleave, but calls within one do, and that is the concurrency modelled here.
EnumerableMap keeps its keys in an EnumerableSet, Checkpoints uses SafeCast and Math;
both serve many transactions, and a caller who needs several of them to enumerate a map
meets those of others in between. migrate-imports shares its files with their users.

## 2. Modules

| module | models | notes |
|---|---|---|
| `Ledger` | ERC20 payments | guard `CanPay`, update `Moved`; no allowances |
| `Sums` | sums over the accounts of a mapping | a recursive function, so that it can be proved about |
| `Lending` | contract Lending, price as an input | `Accounts` include strangers, who may pay anyone |
| `GrowingProduct` | what a constant-product pool promises | abstract specification |
| `Pair` | contract Pair | `SwapBegin`, open callback, `SwapEnd`; `frame` holds the locals of `swap` |
| `LendingMarket` | Lending and Pair in one system | refines `Lending` (with the pair's price) and `Pair` |
| `Exchange` | contract Exchange and its Token | `SwapBegin`, any calls of the client, `SwapEnd` |
| `ExchangeSwaps` | a swap as a whole | `Exchange` with a history of where the swap in progress began |
| `Oracle` | contract Oracle | mappings by asset and user, `Tick` for the block number |
| `Yield` | contract Yield on a pool position | ticks and amounts of a small pool; arithmetic modulo `Modulus` |
| `StableCoin` | Manager with its share tokens and their signals | MIM and collateral outside are only counted |
| `Bridge` | two Bridges, their messages and bridged tokens | `calls` is the stack of calls that wait for other code |
| `BridgeHooks` | what re-entering hooks may cost | `Bridge` with a count of it |
| `EnumerableSet` | the library of that name, for words and for each type | operators on a record; no state of its own |
| `FiniteMap` | what a map promises | abstract specification |
| `EnumerableMap` | the library of that name behind a contract with one map, and a reader | refines `FiniteMap` |
| `Checkpoints` | the library of that name, one History or one Trace | the sizes of keys and values are constants |
| `MigrateImports` | the command, the files, their users | one action for each wait of the process |
| `*_proofs` | theorems about the module of that name | `LendingMarket_proofs` covers `Lending` too, `Pools_proofs` covers `Pair` and `Yield`, `OpenZeppelin_proofs` covers `EnumerableMap`, `Checkpoints` and `MigrateImports` |
| `MC*` | small instances for TLC | constants and, where balances have to be fixed, an initial state |

History variables, which no action reads, record what a property compares the state
with. In `Pair`: `now`, `integral0` and `integral1` (the true integral of the price).
In `Exchange`: `orderly` (see below); in `ExchangeSwaps`: `begun`. In `Oracle`: `ceiling` (the debt compounded at
every block) and `writtenOff` (debt cancelled less what was paid for it). In `Yield`:
`overdrawn`. In `Bridge`: `reentered`; in `BridgeHooks`: `overcounted`. In `StableCoin`: `loosened`. In
`EnumerableMap`: `answer`, `due` and `disturbed`. In `Checkpoints`: `written`. In
`MigrateImports`: `before`, `touched`, `original`, `torn` and `raced`.

Definitions that begin "Variant with a bug" are not part of the model. Each is the
body of another definition with the kind of error a change to the code could make (a
dropped bound, the wrong rounding, a write too early); substituting one makes TLC
refute the property it stands for, which shows that the property depends on that line
of code.

### Lending and Pair

`Lending` has one action per function. Prices come from the set `Rates`, so what is
checked and proved holds of any price behaviour. `Borrow` takes
`amount * ONE \div rate` of collateral (line 35), `Repay` frees a truncated share of
what is in use (line 46). Between calls any account but Lending may pay tokens to any
other, so the balance can grow by donations.

`Pair.swap` pays out, calls its receiver and then checks the product. `SwapBegin` is
lines 249-262 and stores in `frame` the reserves and outputs the function has read;
`SwapEnd` is lines 263-277 and uses that frame, as the code does, though `sync` may
have rewritten the reserves meanwhile. A swap that cannot reach its end reverts with
all its callback did; in the model it stays open, a state no later transaction sees.
The inputs of `mint` and `burn` always revert (line 211 mints to the zero address,
which the ERC20 refuses, so the supply that `burn` divides by is never above zero).

`LendingMarket` puts the two on the same tokens. Each step is a step of one and
either a stutter or a payment between others for the other. The refinements
`ImplementsLending` and `ImplementsPair` carry every property of the two over.

### Exchange

A client's positions are signed amounts per token, `unsettledTokens` counts those
that are not zero, and a swap may end when the counter is zero. The counter is kept by
`UpdatePosition`, and it is exact only if the client never moves an amount of zero on
a closed position: line 151 then lowers it for nothing. A client that does not is
called *orderly* here; it also moves no amount that an int256 cannot hold, and adds
no liquidity of a token between initiateTransfer and finalizeTransfer. Properties of
the counter, of solvency and of payment are stated for orderly clients;
`CounterNeverOvercounts` (the part of `CounterCounts`) for every client.

The contract never compares what it holds at the end of a swap with what it held at the
beginning. It lets a client take tokens first, trade against pools at any time, pay in
pieces and add liquidity in between, and each call checks only itself: one price, one
measured payment. `SwapsArePaidFor`, in `ExchangeSwaps`, is what the whole comes to: an
orderly client leaves the exchange with less of one token of a pool only if he leaves
it with more of the other, unless he has also traded in other pools, where he may have
found another price.

### Oracle

`Deposit`, `Borrow` and `Liquidate` are whole functions, with the interest they add
first (`Updated`). `PriceMoves` stands for all of the price oracles: a price may be
anything in `Prices` between any two calls. Interest is simple per update and so
depends on who touches an account when; `ceiling` is the debt that one
update in each block would have led to (rounded up), and `InterestBounded` says that no order of
touches exceeds it.

### Yield

The pool is modelled from its use: liquidity on a range of ticks holds, of each token,
an amount proportional to the part of the range on its side of the price, rounded up
when liquidity is minted and down when it is burned; swaps move the tick and leave
fees, pending until a burn pokes the position and owed until a collect pays them. The
contract is modelled in full between those: `Deposit` pokes, totals, rounds and mints
shares; `Withdraw` burns shares first and divides by what is left, as lines 179-187
do; `Rebalance` retires the base range and mints the next; the arithmetic wraps.
Slippage minimums are taken as zero (they only narrow the guard).

### Bridge

Both bridges are in one EVM, so a message is a call of the remote bridge. Three calls
leave the two: the hook of an ERC777 sender, which runs before the tokens move and
after the balance was read (lines 97-98); the hook of a recipient of released tokens;
and the recipient of ether. Each is a frame on `calls`, and while it waits every
action is possible. A frame that cannot be finished stands for a transaction that
reverts. A message's hash covers its nonce and contents; the contents are a label, and
two messages of one call have consecutive nonces. Holders of tokens are one account,
since they may pay each other at any time.

The two parts of `HoldersCovered`, `Backed` and `Redeemable`, exclude a token that was sent to a bridge from within the
sender's hook of another send to it: both then measure the same tokens, and what was
minted is more than came in (`reentered`). How much more is counted in `BridgeHooks`, whose
`UncoveredBounded` excludes no token: what is bridged beyond what is held is no more than
what was paid to a bridge from within hooks of its senders, once for each hook that
waited.

### StableCoin

A position is shares of two tokens, and a share stands for the token's signal.
`SharesFor` rounds up, both when shares are minted and when they are burned, and
`Value` rounds down. `Manage` is one function with many cases in the code: a change of
collateral and a change of debt, either of which may be zero; the repayment of all of
the debt, which takes out all of the collateral, is `RepayAll`. `Liquidate` burns MIM
of the liquidator if the collateral is worth more than the debt and otherwise leaves
the debt to the other positions; either way both signals are set anew. The owner's
`updateSignal` may set them to anything.

What the two roundings do depends on whether a signal is at least `ONE`: then a value
of zero means no shares, and closing a position leaves none. Liquidations keep debt
signals there (`DebtSignalAtPar`). They need not keep a collateral's there, and the
owner need keep neither; `loosened` notes the collaterals to which that has happened,
and `PositionsMatchDebts` is about the others. `DebtFollowsMim` and `PromisesBounded` hold
always, but measure errors in shares: where a share's worth is large, so is the error
they allow.

### EnumerableSet, EnumerableMap

A set is a record of `values` and `indexes`; the position of a word is its index minus
1. `SetRemove` is swap and pop. The conversions of `conversion.js` are what Solidity
does: a value in a word, and the word modulo the size of the type. `EnumerableMap` has
the generic map of words, written as operators that name its variables, and one action
for each call through the wrappers. `answer` is what the last call returned, so that
`ImplementsFiniteMap` compares the answers, and a `get` that reverts is an answer too.
Calls are whole transactions; the one thing that spans several is a reader who asks for
`at(0)`, `at(1)` and so on, as `AccessControlEnumerable.sol:32-35` warns its callers
they might. `ReadingMissesNothing` says how far that works: a removal moves only the
last key, and only forward to where the removed one was, so that a reader can miss a key
only if one he was already past is removed.

### Checkpoints

`kind` says whether the array is a History, pushed to at the current block, or a Trace,
pushed to at any key that is not below the last. `Insert` has two disjuncts, a new
checkpoint and the overwriting of the last one; a key below the last reverts. The
bisections are recursive functions over the two bounds. `written` remembers the last
value pushed at each key, and `LookupsAgree` compares every lookup with it.
`getAtProbablyRecentBlock` needs six checkpoints before it splits the array, and nine keys
bring its square root from 2 to 3.

### MigrateImports

A path is a sequence of names, and the content of a file the sequence of the library
paths mentioned in it; the table of 56 moved paths is the code's. A replacement with
a string replaces the first occurrence, so a run moves the first mention of each old path
(plain and upgradeable): `updateImportPaths` says just that, which is right because no new
path is an old one (`MovedOnce`, evaluated in the run). `ListNext` is one round of
the loop over the queue; the order in which a directory is read is left open. `ReadFile`,
`Truncate` and `WriteFile` are the two waits of `updateFile`, the second of which the file
system takes in two steps. Around the process, users save and delete files and the
process may be killed at any wait. `ImportsKept` excludes a file that a killed process had
truncated and a file that was saved between its read and its write: both can be lost.

## 3. Runs

Nothing in the contracts is scheduled and no call has to happen: their specifications
state no fairness. `MigrateImports` does: `WF_vars(Step)`, since a process that is not
killed is run again whenever its file operation has ended, and no step of it waits for
anybody else. Nothing is assumed of users and kills. Deadlock is checked in
`enumerable_map` and `migrate_imports`; elsewhere every call can be refused once balances,
blocks or bounds are used up.

| run | instance | states | shows |
|---|---|---|---|
| `lending` | two users with two units each, a lender with four, scale 2, prices 1 and 3 | 53 thousand | solvency, no lost loans, rounding of repayments |
| `pair` | pair and one trader, 112-bit type of 0..5, clock modulo 2 up to 2 | 1.1 million | product, reserves, accumulators, over a wrap |
| `lending_market` | one borrower, both contracts | 0.7 million | both refinements |
| `exchange` | two tokens, three units of one and two of the other, one client, MaxInt 1 | 0.9 million | counter, solvency, whatever is taken is paid for |
| `oracle` | two assets, a borrower and a liquidator, prices 1 and 2, three blocks | takes about two minutes | totals, cover, interest, losses |
| `yield` | price at -1, 0 and 1, ranges up to -2..2, scale 2, fee of 0 or half, worth up to 3 | 0.7 million | nothing stranded, fees held, no dilution, rebalances keep the total |
| `bridge` | one token with hooks, supply 3, five nonces, calls three deep | 1.4 million | backing, also of what re-entering hooks leave, nonces, vouching |
| `stablecoin` | two users, one collateral, scale 2, amounts and signals 1 to 3 | 0.1 million | no dust, no debt without a position, rounding within a share's worth |
| `enumerable_map` | four words, three keys, two values of which one is 0 | 19 thousand | map and set sound, answers of a finite function, what a reader can miss |
| `checkpoints` | keys and blocks 0 to 8, ten blocks, values 0 and 1 | 0.3 million | order, all lookups, past answers final |
| `migrate_imports` | three files, one with all 112 old paths, overlapping and missing arguments, two mishaps | 94 thousand | nothing lost, runs do what they say and end, nearer with every step |
| `exchange_settlement` | as `exchange`, MaxInt 2 | violation | see Findings |

Type invariants are proved for every value of the constants (section 4); the runs of
`lending`, `pair` and `exchange`, where a type is a limit of the code (a checked
subtraction, a uint112, an int256), check them too. The others spend their time on what
relates one part of the state to another.

Why the bounds are enough to be interesting:

- scales of 2 or 3 and amounts not divisible by them make every truncation happen,
  both in the first and in the second of two divisions;
- balances pass the small stand-ins for `type(uint112).max` and `type(int256).max`: the
  Pair refuses to store them, and in `exchange` withdrawals and measured payments of more
  than an int256 holds wrap (a trade of that size would need a larger pool);
- the Pair's clock wraps within the run; Oracle's accounts stay untouched for two
  blocks, the shortest time in which simple and compound interest differ;
- Yield's price lies below, in and above a range, so positions of one token and of
  both occur; the range is moved with fees pending;
- two bridges can lock the same token at both sides, which takes the two messages of
  a first transfer each way, and three waiting calls allow a message to be sent from
  a recipient that was called from a hook; in `bridge` a third unit is sent, or
  donated, while two hooks wait. One label is enough: labels tell apart messages of one
  nonce, of which `MessagesInTurn` says that there are none;
- in `stablecoin` the healths of 2, 3 and 4 are a redistribution, a liquidation paid
  in MIM and a sound position; signals are below, at and above the scale. The second
  user is the one whose shares the signals are set for. `MaxShares` and `MaxMim` bound
  what the owner's signals could otherwise drive up without end;
- in `enumerable_map` keys are removed from the front, the middle and the end of the array
  while the reader is before and after them; in `checkpoints` a value does not fit and is
  refused; in `migrate_imports` a file is listed twice and mentions a path once, twice and
  not at all, and two mishaps are enough for a kill in a run after a save in it;
- the `oracle` run fixes who borrows and who liquidates, and who donates; the theorems
  about Oracle do not.

In `bridge` the two bridges are interchangeable, in `stablecoin`
the users, hence symmetry. `exchange` forgets, in a view, where a swap began whose client
is no longer orderly: of him `SwapsArePaidFor` says nothing, and he never is orderly again.
`yield` has a state constraint on the accrued counter, which an over-collecting
governance could otherwise drive on without end.

## 4. Proofs

All theorems hold for every value of the constants that meets the assumption named in
the module (`LendingAssumption`, `PairAssumption`, ...): finite sets of users, tokens
that are natural numbers, positive scales. Bounds such as `MaxDebt` are constants of
that kind, so the results do not depend on their size.

- `Ledger_proofs`: a sum changes by what one entry changes (`SumUpdate`), bounds each
  of its entries, is kept by a transfer, and is raised by what some entries are raised by
  times their number (`SumRaised`). The sum is a recursive function over
  subsets; the lemmas go by induction on finite sets stated as minimal
  counterexamples, since induction rules with an operator parameter are out of reach.
- `LendingMarket_proofs`, first part, about Lending alone: the inductive invariant is the type invariant, `CollateralBacked`
  and `DebtFreeIsUnlocked` together. `DebtFreeIsUnlocked` is needed for types: it
  keeps a repayment's divisor positive. The two action properties follow from one
  lemma about the truncated share (`Freed` is between 0 and what is used, and
  cross-multiplied it favours the lender).
- `Pools_proofs`, about Pair: the invariant adds to the types that outside a swap the reserves are
  held, and that until the clock wraps the accumulators plus the running block are the
  integral. `ProductNeverFalls` is a refinement of `GrowingProduct`: each step either
  keeps the settled product or, in `SwapEnd`, raises it, because the K check compares
  with the frame and `Update` stores the very balances it has checked. The K check
  subtracts 3 of 1000 of the amounts paid in, so that the check implies growth is
  shown by cancelling 1000 squared.
- `Pools_proofs`, about Yield: the invariant is the types, `NothingStranded`,
  `FeesStayCovered`, and that no fees are pending where there is no liquidity to earn
  them. Without the last a rebalance could leave fees behind, since `_burnAndCollect`
  makes pending fees collectable only where there is liquidity to burn. The protocol's fees stay
  covered because a rebalance mints liquidity rounded down from what is not due to the
  protocol, so that its cost, rounded up, is within that (`Affordable`), and
  because a withdrawal of no more shares than it leaves takes no more of a token than
  the vault's part of what it has, its fees included (`WithdrawPays`). Arithmetic that
  wraps only ever makes a payment smaller here. `DepositNeverDilutes` is shown by
  cross-multiplying: the shares are rounded down twice from the smaller of two products,
  the payments rounded up from the same one, and the fees poked only add to the total.
  That products may have wrapped before they are compared does not matter; that the totals
  have not is the assumption `MaxTokens < Modulus`: the vault is worth less than 2^256
  units of a token. `RebalanceKeepsTotal` compares the totals before and after a
  rebalance, the first with the pending fees poked. What a total counts of the fees and
  what the protocol is due of them are rounded down apart, which leaves a unit of a token
  at most (`PartsLeave`), and minting the next range costs, rounded up, a unit at most more
  than its liquidity then counts for (`MintLeaves`); that nothing wraps is again the bound
  on what the vault is worth. The other assumption, `MIN_TICK < 0 < MAX_TICK`, is the
  pool's and makes every new range one.
- `LendingMarket_proofs`, second part: step simulation for both refinements, from Lending's
  invariant and the types of the reserves; solvency of the composition then follows
  from Lending's theorem. They assume `Rates = Nat`, that Lending accepts any price.
- `Exchange_proofs`: the invariant is the three invariants of the run. Solvency needs
  the counter: a swap may end only if no position is open, which for an orderly
  client is what the counter says, and only then does resetting the positions owe
  nobody anything. `OrderlySwapsSettle` states that end by itself: it is the assertion
  that `exchange_settlement` refutes, with a hypothesis that makes it true. For
  `EverySwapIsPaidFor` each call is shown to leave an orderly client's exchange whatever
  it had to spare over what it owes, for any amount and also while a payment is
  measured (`SpareKept`), and no pool with a smaller product. When the positions are
  closed the exchange therefore holds, beyond its reserves, what it held beyond them at
  the beginning; so it has less of a token only if the one pool that traded has, and that
  pool has then more of the other.
- `Oracle_proofs`: the invariant is the types, the three invariants of the run and that
  an asset not yet listed has no debts. The interest bound rests on a lemma that simple
  interest for n+1 blocks is at most one block's interest on the debt with its
  interest for n, under truncation. The bound on losses is about the two divisions of
  a liquidation: the collateral taken is worth the debt but for less than a unit of it, the
  payment is worth the collateral but for less than a unit of its own. Only a borrower who
  has less than the debt is worth pays by another rule, and then keeps nothing.
- `OpenZeppelin_proofs`, about EnumerableMap: the invariant is `MapSound`, that every stored key is a word
  that some call can name, and that what the reader is due and has not got lies at or
  after its place, unless a key that it was past has been removed. `AddSound` and
  `RemoveSound` are about the set alone: after swap and pop, index and array still agree,
  also when the value removed is the last. The refinement of `FiniteMap` goes call by call; that the
  length is the number of keys holds because the array is a bijection onto them.
- `OpenZeppelin_proofs`, about Checkpoints: the invariant is `CheckpointsOrdered` and that
  what is stored at a key is what was last pushed at it (`Stored`). An insertion appends
  above the last key, which is the largest, or replaces the value at it, so the order and
  the set of keys follow. For the lookups, one lemma about any set of positions that is
  closed upwards: the equation of a bisection has a solution (the place where the set
  begins solves it), and whatever solves it finds that place, by least counterexample in
  the distance of the bounds. The keys above a key, and those from it on, are such sets
  because the keys ascend. The shortcut of `getAtProbablyRecentBlock` only narrows the
  bounds to a part that still holds the place. `PastIsFixed` follows since a push stores at
  a key that is not below any other.
- `OpenZeppelin_proofs`, about migrate-imports: `ImportsKept` is proved from `FilesKept`,
  which says it of every file but the one that is truncated now, and also of the buffer
  while its file is being written. It is inductive because no new path is an old one
  (`MovedOnce`, which TLC evaluates on the table of the code): updating twice changes
  a mention at most once. `RunMovesEach` is proved from `RunInv`, which counts: while a run
  lists, the arguments lead to a file as often as what is left of the queue does and
  the list names it, together; while it updates, a file has been updated as often as the
  list no longer names it (`Passed`), and each update took away one mention of each old
  path there was. That a directory leads to a file just as often as what it holds
  does is a lemma about the tree. Both assume that files and directories form a
  finite tree: whatever leads to a file is a directory (`MigrateAssumption`).
  `RunsComeNearer` is why a run ends. `StepsLeft` weighs the paths that a run has before
  it (`Ahead`: all that lies at or below each place of the queue) and the files it has
  found so that each step lowers it; it is a natural number because the tree is finite.
  Listing a directory replaces it by its entries, at or below which lies all that lay
  below it, each path once (`ChildBelow`), but not the directory. As long as the run has
  not ended, the guard of its next step holds (`CanStep`).

- `StableCoin_proofs`: the invariant is the type invariant, the two halves of
  `PositionsMatchDebts` and that no debt signal is below `ONE`. The types need the rest:
  closing a position burns the shares that its value rounds up to, and that these are
  no more than it has follows from a lemma that converting to a value and back never
  gives more shares. That it leaves none needs the signal at `ONE` or above, where a value
  converted back is the whole. The two action properties follow call by call
  from the bounds on the rounding: `SharesFor` takes less than one share too many,
  `Value` less than one unit too little, and a liquidation's new signal, a quotient, loses
  less than one unit per share.
- `Bridge_proofs`: `HoldersCovered` alone is not inductive. A send that waits in its
  sender's hook has already read a balance, and mints later by how far the balance has
  grown since; so `TokenCovered` says that a token is covered whichever balance one takes
  for each bridge, that of now or one that a waiting send has read. A second send
  of the same token at the same bridge breaks it, and such a send sets
  `reentered`. The invariant adds `MessagesInTurn` and that a token is noted as
  registered only where the remote bridge knows it (`RegistrationsKept`, an auxiliary:
  a lock registers a token only if that is not noted), and a lemma
  for each way in which the sums over bridges move: tokens locked, tokens
  minted, tokens released. `UncoveredIsBounded` drops the exclusion. Its invariant counts
  beside the bridged tokens what each waiting send would mint beyond its own amount if it
  ended now (`Excess`), and says that both together are covered by what is held and
  `overcounted`. A payment to a bridge raises the excess of every send that waits there
  (`SumRaised`), and a send that ends turns its own into bridged tokens. Calls are numbered
  from the first one on, so that each keeps its number while others come and go above it.

Only model-checked: StableCoin's `RepaymentNeverRefused`, which says that a call is
possible and so is about `ENABLED`, and `RunEnds` of migrate-imports, which is liveness
under fairness; both are beyond these tools. What lies behind the second is proved as
`RunsComeNearer`: a number that falls with every step, and a step that is possible until
the end; only the inference from there through weak fairness is TLC's. What lies
behind the first is proved as well:
`RepaymentsAccepted`, that every requirement of `manage` on the repayment is met, and
`RepaymentIs`, that beside these requirements `RepayAll` only says what the call stores.
The first takes two more facts to be inductive: positions are in collaterals that were
added, and no more of a token is held than there is. Taking out all that shares are worth
burns no more shares than there are, and what is left of them is worth nothing, at any
signal (`AllTakenOut`).

## 5. Findings

- `exchange_settlement`: `require(unsettledTokens == 0, "not settled")`
  (`Exchange.sol:139`) can pass with an open position. The run ends with a
  counterexample. For clients that are orderly in the sense of section 2 the assertion
  holds (`OrderlySwapsSettle`), so nothing but what that word excludes can break it.

Four more statements of the code about itself came up while modelling and are read off
the actions named; no run is spent on them.

- "overflow is desired" at `Lending.sol:166`, but the subtraction is checked: once the
  32-bit clock has wrapped past the last update, no update succeeds (guard of `Update`).
- `script/Lending.s.sol:40` calls `getExchangeRate` the price of the borrow token in
  collateral; `SpotPrice` is the inverse.
- "Borrow would result in undercollateralization" (`Oracle.sol:181`), but `borrow` adds the
  interest of the borrowed asset alone, and `Borrow` takes the health with the other debts
  as they were last written: with their interest it can be below the minimum at once.
- "If total supply > 0, vault can't be empty" (`Yield.sol:144`), but `Withdraw` burns the
  shares before it reads the supply, so half of them take everything.

## 6. What is abstracted or left out

- uint256 is taken as the natural numbers wherever overflow reverts: a call that would
  overflow is one of those that do not happen, and the bounds of the runs are such
  limits. Where the compiler wraps (Yield) or the code casts (Exchange, Pair), the
  width is modelled with a small modulus.
- Allowances, names, events and view functions; who owns what is decided by guards.
- Tokens that do not behave like ERC20, except ERC777 hooks at Bridge.
- Pair: `initialize` by the factory is the initial state. Exchange: the deployment.
- Yield: hand-over of governance, sweep, transfers of shares, slippage limits.
- StableCoin: the base rate, which is 0 and decays to 0, and its operation time; a
  second collateral in the run (the module has any number).
- Bridge: bridging a bridged token onward as if it were an ordinary one; registering
  other bridges; the division of tokens among holders.
- EnumerableMap: `values()` of the set serves no call of the map; gas. Checkpoints: the values
  that `push` returns.
- MigrateImports: text other than library paths, symbolic links, files that are neither
  files nor directories, a write that fails or that is cut in the middle of a large file
  (a truncated file stands for it).

### Not modelled

- Chef: Huff code over the macros of `lib/huffmate`, which is not among the repository's
  files; its storage, ownership and transfers go through them.
- Vault and Proxy: the repository states nothing about them to check; what Proxy's
  implementation delegates to is not in the repository.
- Fallout: arithmetic on 256-bit curve points is out of reach of TLC and SMT alike.
- The other OpenZeppelin scripts: computations over reports and graphs
  (`compareGasReports.js`, `inheritance-ordering.js`) and sequences of commands
  (documentation, releases) without state; the Hardhat configuration. The rest of the vendored
  Solidity is third-party code that the exercises use only as base contracts.

## 7. Plan

1. Done: Lending, Pair, their composition, Exchange, Oracle, EnumerableMap, Checkpoints,
   migrate-imports, StableCoin, Bridge and Yield, with proofs.
2. Open: the two properties that go through `ENABLED` or fairness and are only
   model-checked (section 4), and the parts listed as not modelled.
