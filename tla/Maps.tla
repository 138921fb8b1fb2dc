-------------------------------- MODULE Maps --------------------------------
(***************************************************************************)
(* std::map and LevelDB keys: functions whose domain is the set of keys    *)
(* that are present.                                                       *)
(***************************************************************************)
EXTENDS Functions

\* Insertion, which overwrites an entry with the same key, and removal.
With(f, k, v) == [x \in DOMAIN f \cup {k} |-> IF x = k THEN v ELSE f[x]]

Without(f, k) == Restrict(f, DOMAIN f \ {k})

EmptyMap == [x \in {} |-> x]
=============================================================================
