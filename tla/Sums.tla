-------------------------------- MODULE Sums --------------------------------
(***************************************************************************)
(* Sums of integer-valued functions over a finite set.  Every contract of  *)
(* this repository keeps per-account mappings (mapping(address => uint))   *)
(* next to a total, and what is worth saying of it relates the two.  The   *)
(* sum is a recursive function, not a RECURSIVE operator, so that it can   *)
(* be proved about as well as evaluated.                                   *)
(***************************************************************************)
EXTENDS Integers

\* The partial sums of f over the subsets of U.
SumFcn(f, U) ==
  LET s[T \in SUBSET U] ==
        IF T = {} THEN 0
        ELSE LET x == CHOOSE x \in T : TRUE IN f[x] + s[T \ {x}]
  IN  s

\* The sum of f[x] for x in U.
SumOver(f, U) == SumFcn(f, U)[U]
=============================================================================
