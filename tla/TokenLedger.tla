----------------------------- MODULE TokenLedger -----------------------------
(***************************************************************************)
(* What trading promises about ownership: tokens are neither made nor      *)
(* lost, and a step takes tokens from one owner, who has them, and gives   *)
(* the same number to another.  How an owner's tokens are split between    *)
(* free and reserved amounts is not visible here.                          *)
(***************************************************************************)
EXTENDS Integers, Sums

CONSTANTS Address, Property,
          Initial   \* holdings at the start

VARIABLE holding    \* holding[p][a]: the tokens of property p that a owns

Init == holding = Initial

HandOver(owned, from, to, n) == [owned EXCEPT ![from] = @ - n, ![to] = @ + n]

Transfer(p, from, to, n) ==
  /\ from # to
  /\ holding' = [holding EXCEPT ![p] = HandOver(@, from, to, n)]

Next == \E p \in Property : \E from, to \in Address : \E n \in 1..holding[p][from] :
          Transfer(p, from, to, n)

Spec == Init /\ [][Next]_holding

\* No trade creates or destroys tokens.
Conserved == \A p \in Property : Sum(holding[p]) = Sum(Initial[p])
=============================================================================
