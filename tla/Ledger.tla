------------------------------- MODULE Ledger -------------------------------
(***************************************************************************)
(* The ERC20 ledger every contract of the repository pays through: a       *)
(* function from accounts to balances.  A transfer that the token rejects  *)
(* reverts the whole transaction, so callers use CanPay as a guard.        *)
(* Allowances are left out: an account that has not approved the spender   *)
(* is one that does not call.  The zero address holds and mints nothing.   *)
(***************************************************************************)
EXTENDS Integers

CanPay(bal, from, v) == bal[from] >= v

\* transfer and transferFrom: the debit is written before the credit, so a
\* payment to oneself changes nothing.
Moved(bal, from, to, v) ==
  LET debited == [bal EXCEPT ![from] = @ - v]
  IN  [debited EXCEPT ![to] = @ + v]

\* The ledgers that one payment, or none, by one of the senders leads to.
LedgerSteps(bal, senders) ==
  {bal} \cup
  UNION {{Moved(bal, m[1], m[2], v) : v \in 0..bal[m[1]]} :
           m \in senders \X DOMAIN bal}
=============================================================================
