---------------------------- MODULE MCCrowdsale -----------------------------
(***************************************************************************)
(* Two addresses.  Property 1 is divisible and bob has some of it;         *)
(* property 2 is indivisible, issued by bob and granted by alice, the      *)
(* delegate; 3 and 4 are the properties that sales create.                 *)
(***************************************************************************)
EXTENDS Crowdsale, TLC

MCProperty == 1..4
MCBase == {1, 2}
MCManager == 2 :> "bob"
MCDelegate == 2 :> "alice"
MCInitial == [k \in TallyKey |-> IF k = <<"bob", 1, BALANCE>> THEN 22 ELSE 0]

\* A sale for the managed tokens, whose bonus is rounded by more than a unit; one
\* for property 1 whose issuer gets more than the users; one that leaves no room
\* for what its issuer missed; one for the tokens of another sale.  A single
\* purchase can use up the first two exactly, and two of them the third.
MCTerms ==
  {[property_desired |-> 2, num_tokens |-> 845, early_bird |-> 25, percentage |-> 1, deadline |-> 2, divisible |-> TRUE],
   [property_desired |-> 1, num_tokens |-> 400, early_bird |-> 0, percentage |-> 18, deadline |-> 1, divisible |-> FALSE],
   [property_desired |-> 1, num_tokens |-> 295, early_bird |-> 0, percentage |-> 9, deadline |-> 1, divisible |-> FALSE],
   [property_desired |-> 3, num_tokens |-> 200, early_bird |-> 1, percentage |-> 5, deadline |-> 2, divisible |-> TRUE]}
=============================================================================
