--------------------------- MODULE TokenOwnership ---------------------------
(***************************************************************************)
(* What the non-fungible tokens of a property promise: tokens are numbered *)
(* in the order they are granted, every token has one owner, and a run of  *)
(* tokens that all belong to one owner goes as a whole to another.         *)
(***************************************************************************)
EXTENDS Integers, FiniteSets

CONSTANTS Address,
          MAX_INT    \* the largest token number

VARIABLE owner       \* owner[t]: the owner of token t, a function on 1..n

Init == owner = [t \in {} |-> t]

Granted == Cardinality(DOMAIN owner)

Grant(to, amount) ==
  owner' = [t \in 1..Granted + amount |-> IF t <= Granted THEN owner[t] ELSE to]

Send(to, first, last) ==
  /\ \A t \in first..last : owner[t] = owner[first]
  /\ owner' = [t \in DOMAIN owner |-> IF t \in first..last THEN to ELSE owner[t]]

Next ==
  \E to \in Address :
    \/ \E amount \in 1..MAX_INT - Granted : Grant(to, amount)
    \/ \E first \in DOMAIN owner : \E last \in first..Granted : Send(to, first, last)

Spec == Init /\ [][Next]_owner
=============================================================================
