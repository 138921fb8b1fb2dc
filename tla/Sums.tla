-------------------------------- MODULE Sums --------------------------------
(***************************************************************************)
(* Sums of the token amounts of a function with a finite domain.           *)
(*                                                                         *)
(* An amount f[x] is n indivisible token units (willets) in the hands of   *)
(* x, so the total of f is the number of units there are.  The sum is      *)
(* defined as that cardinality rather than by recursion: TLC computes it,  *)
(* and its laws (module LedgerLemmas) follow from the laws of cardinality. *)
(***************************************************************************)
EXTENDS Naturals, FiniteSets

\* The units of x, and all the units of a function of amounts.
UnitsOf(f, x) == {x} \X (1..f[x])

Units(f) == UNION {UnitsOf(f, x) : x \in DOMAIN f}

\* The total of a function of amounts.
Sum(f) == Cardinality(Units(f))
=============================================================================
