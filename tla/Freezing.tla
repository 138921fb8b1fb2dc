------------------------------ MODULE Freezing ------------------------------
(***************************************************************************)
(* Freezing of addresses: setFreezingEnabledProperties, the properties     *)
(* whose issuer may freeze addresses with the block as of which, and       *)
(* setFrozenAddresses.  A value of this module is a record of both.  They  *)
(* are in memory only and part of no state file.                           *)
(***************************************************************************)
EXTENDS Integers, FiniteSetsExt

\* ClearFreezeState
NoFreezing == [enabled |-> {}, frozen |-> {}]

isFreezingEnabled(frz, p, block) == \E e \in frz.enabled : e[1] = p /\ block >= e[2]

isAddressFrozen(frz, a, p) == <<a, p>> \in frz.frozen

enableFreezing(frz, p, liveBlock) == [frz EXCEPT !.enabled = @ \cup {<<p, liveBlock>>}]

\* The loop over the ordered set ends with the last entry of the property.
LastLive(frz, p) == Max({e[2] : e \in {x \in frz.enabled : x[1] = p}})

FrozenFor(frz, p) == {x \in frz.frozen : x[2] = p}

disableFreezing(frz, p) ==
  [enabled |-> frz.enabled \ {<<p, LastLive(frz, p)>>}, frozen |-> frz.frozen \ FrozenFor(frz, p)]

\* The order of the pairs in setFrozenAddresses.
Precedes(x, y) == x[1] < y[1] \/ (x[1] = y[1] /\ x[2] < y[2])

\* After it erased an entry, disableFreezing asserts that the next entry of the
\* set is not frozen, which fails whenever there is a next entry.
NextIsFrozen(frz, p) == \E x \in FrozenFor(frz, p), y \in frz.frozen : Precedes(x, y)

\* Otherwise the only entry of the property was the last of the set, and the
\* assertion looks at what is behind the end of the set.
LooksBehindEnd(frz, p) == FrozenFor(frz, p) # {} /\ ~NextIsFrozen(frz, p)

\* The closing assertion fails if freezing was enabled more than once.
StillEnabled(frz, p) == isFreezingEnabled(disableFreezing(frz, p), p, LastLive(frz, p))

\* Whether an assertion of disableFreezing fails.  What is behind the end of
\* the set is undefined: "garbage" says whether it lets the assertion fail.
DisableAssertFails(frz, p, garbage) ==
  \/ NextIsFrozen(frz, p)
  \/ LooksBehindEnd(frz, p) /\ garbage
  \/ StillEnabled(frz, p)

freezeAddress(frz, a, p) == [frz EXCEPT !.frozen = @ \cup {<<a, p>>}]

unfreezeAddress(frz, a, p) == [frz EXCEPT !.frozen = @ \ {<<a, p>>}]
=============================================================================
