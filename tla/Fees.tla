-------------------------------- MODULE Fees --------------------------------
(***************************************************************************)
(* The arithmetic of "send to owners" (sto.cpp) and of the fee cache       *)
(* (dbfees.cpp), as operators.  The cache of a property is a history: for  *)
(* every block that changed it the amount cached after the block.  Fees    *)
(* and properties are those of the main ecosystem; the test ecosystem has  *)
(* a fee token of its own and works alike.                                 *)
(***************************************************************************)
EXTENDS Tally, Maps

CONSTANTS COUNOS_PROPERTY_MSC,    \* the property whose owners share the fees
          COUNOS_FEE_THRESHOLD,   \* part of all tokens that makes a distribution
          MAX_STATE_HISTORY,      \* blocks of history that are kept
          msc_debug_fees          \* whether fees are logged in detail

\* Addresses are ordered as strings: here as numbers.
ASSUME FeesAssumption ==
  /\ Address \subseteq Nat \ {0}
  /\ COUNOS_PROPERTY_MSC \in Property
  /\ COUNOS_FEE_THRESHOLD \in Nat \ {0}
  /\ MAX_STATE_HISTORY \in Nat
  /\ msc_debug_fees \in BOOLEAN

\* "FEEDISTRIBUTION", which is no address: a distribution excludes nobody.
NoSender == 0

-----------------------------------------------------------------------------
(* sto.cpp *)

DivideAndRoundUp(n, d) == IF n = 0 THEN 0 ELSE 1 + (n - 1) \div d

\* Owners with more tokens come first, and with as many the smaller address.
SendToOwners_compare(owned, a, b) == owned[a] > owned[b] \/ (owned[a] = owned[b] /\ a < b)

\* Variant with a fault: nobody gets more than the exact share.
PieceRoundedDown(owned, amount, a) == (owned[a] * amount) \div Sum(owned)

Piece(owned, amount, a) == DivideAndRoundUp(owned[a] * amount, Sum(owned))

\* What an owner gets once the owners before have got their pieces, as long as
\* something is left.
WillReceive(owned, amount, a) ==
  LET before == {b \in DOMAIN owned : SendToOwners_compare(owned, b, a)}
      left   == amount - Sum([b \in before |-> Piece(owned, amount, b)])
  IN  IF left < Piece(owned, amount, a) THEN IF left < 0 THEN 0 ELSE left
      ELSE Piece(owned, amount, a)

\* The receivers and their amounts.
STO_GetReceivers(tally, sender, p, amount) ==
  LET owned == [a \in {b \in Address \ {sender} : Holding(tally, b, p) > 0} |-> Holding(tally, a, p)]
      paid  == {a \in DOMAIN owned : WillReceive(owned, amount, a) > 0}
  IN  [a \in paid |-> WillReceive(owned, amount, a)]

\* Credits the receivers.
Pay(tally, p, amounts) ==
  [k \in TallyKey |-> tally[k] + IF k[1] \in DOMAIN amounts /\ k[2] = p /\ k[3] = BALANCE
                                 THEN amounts[k[1]] ELSE 0]

-----------------------------------------------------------------------------
(* dbfees.cpp *)

LastBlock(blocks) == CHOOSE b \in blocks : \A c \in blocks : c <= b

GetCachedAmount(history) == IF DOMAIN history = {} THEN 0 ELSE history[LastBlock(DOMAIN history)]

\* Entries too old for a reorganization are dropped, if they are logged.
PruneCache(history, block) ==
  IF msc_debug_fees
  THEN Restrict(history, {b \in DOMAIN history : b >= block - MAX_STATE_HISTORY})
  ELSE history

ClearCache(history, block) == PruneCache(With(history, block, 0), block)

\* Variant with a fault: keeps the entry of the block itself.
RollBackCacheAfter(history, block) == Restrict(history, {b \in DOMAIN history : b <= block})

\* Drops what was cached in this block and later.
RollBackCache(history, block) == Restrict(history, {b \in DOMAIN history : b < block})

\* Total tokens of a property that is not fixed: in the hands of addresses or cached.
getTotalTokens(tally, history, p) == TalliedTokens(tally, p) + GetCachedAmount(history)

Threshold(total) == IF total \div COUNOS_FEE_THRESHOLD = 0 THEN 1 ELSE total \div COUNOS_FEE_THRESHOLD

\* Gives what is cached to the owners of the fee token.
DistributeCache(tally, history, p, block) ==
  [tally   |-> Pay(tally, p, STO_GetReceivers(tally, NoSender, COUNOS_PROPERTY_MSC, GetCachedAmount(history))),
   history |-> ClearCache(history, block)]

EvalCache(tally, history, p, threshold, block) ==
  IF GetCachedAmount(history) >= threshold
  THEN DistributeCache(tally, history, p, block)
  ELSE [tally |-> tally, history |-> history]

AddFee(tally, history, p, threshold, block, amount) ==
  EvalCache(tally, PruneCache(With(history, block, GetCachedAmount(history) + amount), block),
            p, threshold, block)
=============================================================================
