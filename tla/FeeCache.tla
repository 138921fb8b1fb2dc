------------------------------ MODULE FeeCache ------------------------------
(***************************************************************************)
(* The fee cache over the life of a node: fees of trades and of "send to   *)
(* owners" enter it, a distribution empties it, grants and revocations     *)
(* change the threshold, blocks save the ledger.  A reorganization loads   *)
(* the ledger of an earlier block and rolls the cache back.  A restart     *)
(* loads the ledger of the last block; after a crash that is the last      *)
(* block of which the chain state was flushed to disk.  The cache itself   *)
(* is in a database, the thresholds are kept in memory only.               *)
(*                                                                         *)
(* The FEES feature is active, and the properties are managed ones but for *)
(* the fee token.  The Exodus address keeps its tokens: DistributeCache    *)
(* relies on it that "there will always be addresses holding COUNOS".      *)
(***************************************************************************)
EXTENDS Fees, Sequences

CONSTANTS Initial,      \* the ledgers it may start with
          Senders,      \* the addresses that send transactions
          Amounts,      \* amounts of transactions
          exodus,       \* the address that receives new fee tokens
          Delta,        \* amounts of them at the end of a block
          feePerOwner,  \* TRANSFER_FEE_PER_OWNER, TRANSFER_FEE_PER_OWNER_V1
          Faults,       \* what may happen: reorganizations, restarts, crashes
          MaxBlocks,    \* bound on the length of the chain
          MaxEvents     \* bound on the number of transactions and faults

ASSUME FeeCacheAssumption ==
  /\ Initial \subseteq TallyMap
  /\ Amounts \subseteq Nat \ {0}
  /\ Senders \subseteq Address
  /\ exodus \in Address \ Senders
  /\ \A t \in Initial : t[<<exodus, COUNOS_PROPERTY_MSC, BALANCE>>] > 0
  /\ Delta \subseteq Int
  /\ feePerOwner \in [{0, 1} -> Nat \ {0}]
  /\ Faults \subseteq {"reorg", "restart", "crash"}
  /\ MaxBlocks \in Nat /\ MaxEvents \in Nat

VARIABLES mp_tally,                \* the token ledger
          feecache,                \* the cache of every property
          distributionThresholds,  \* of every property
          issued,                  \* history: tokens granted less those revoked or burned
          stateFiles,              \* the ledgers saved at the blocks of the chain
          events,                  \* transactions and faults so far
          faults,                  \* history: the kinds of faults that have happened
          emptied                  \* history: properties whose cache a rollback has emptied

vars == <<mp_tally, feecache, distributionThresholds, issued, stateFiles, events, faults, emptied>>

\* The block transactions are in now.
block == Len(stateFiles)

Event == events < MaxEvents /\ events' = events + 1

Balance(a, p) == GetTokenBalance(mp_tally, a, p, BALANCE)

CurrentThreshold(p) == Threshold(getTotalTokens(mp_tally, feecache[p], p))

Init ==
  /\ mp_tally \in Initial
  /\ feecache = [p \in Property |-> EmptyMap]
  /\ distributionThresholds = [p \in Property |-> CurrentThreshold(p)]
  /\ issued = [p \in Property |-> TalliedTokens(mp_tally, p)]
  /\ stateFiles = <<[tally |-> mp_tally, issued |-> issued]>>
  /\ events = 0
  /\ faults = {}
  /\ emptied = {}

\* Takes over the result of an operation on the cache of one property.
Becomes(p, result) ==
  /\ mp_tally' = result.tally
  /\ feecache' = [feecache EXCEPT ![p] = result.history]

\* What a trade of two properties other than the fee token means for the fee
\* cache: an owner has the fee less.  Module MetaDEx has the trade itself.
TradingFee(a, p, fee) ==
  /\ Event
  /\ p # COUNOS_PROPERTY_MSC
  /\ Balance(a, p) >= fee
  /\ Becomes(p, AddFee(update_tally_map(mp_tally, a, p, -fee, BALANCE),
                       feecache[p], p, distributionThresholds[p], block, fee))
  /\ UNCHANGED <<distributionThresholds, issued, stateFiles, faults, emptied>>

\* NotifyTotalTokensChanged, for the ledger that has changed.
NotifyTotalTokensChanged(tally, p) ==
  LET threshold == Threshold(getTotalTokens(tally, feecache[p], p))
  IN  /\ distributionThresholds' = [distributionThresholds EXCEPT ![p] = threshold]
      /\ Becomes(p, EvalCache(tally, feecache[p], p, threshold, block))

logicMath_GrantTokens(a, p, amount) ==
  /\ Event
  /\ p # COUNOS_PROPERTY_MSC
  /\ amount <= MAX_INT - getTotalTokens(mp_tally, feecache[p], p)
  /\ NotifyTotalTokensChanged(update_tally_map(mp_tally, a, p, amount, BALANCE), p)
  /\ issued' = [issued EXCEPT ![p] = @ + amount]
  /\ UNCHANGED <<stateFiles, faults, emptied>>

\* Variant with a fault: the threshold stays.
RevokeTokensSilently(a, p, amount) ==
  /\ Event
  /\ p # COUNOS_PROPERTY_MSC
  /\ Balance(a, p) >= amount
  /\ mp_tally' = update_tally_map(mp_tally, a, p, -amount, BALANCE)
  /\ issued' = [issued EXCEPT ![p] = @ - amount]
  /\ UNCHANGED <<feecache, distributionThresholds, stateFiles, faults, emptied>>

logicMath_RevokeTokens(a, p, amount) ==
  /\ Event
  /\ p # COUNOS_PROPERTY_MSC
  /\ Balance(a, p) >= amount
  /\ NotifyTotalTokensChanged(update_tally_map(mp_tally, a, p, -amount, BALANCE), p)
  /\ issued' = [issued EXCEPT ![p] = @ - amount]
  /\ UNCHANGED <<stateFiles, faults, emptied>>

\* logicMath_SendToOwners.  Version 0 burns the fee, version 1 caches it and
\* may send to the owners of another property.
logicMath_SendToOwners(sender, p, distributeTo, amount, version) ==
  LET MSC       == COUNOS_PROPERTY_MSC
      receivers == STO_GetReceivers(mp_tally, sender, distributeTo, amount)
      fee       == feePerOwner[version] * Cardinality(DOMAIN receivers)
      charged   == update_tally_map(mp_tally, sender, MSC, -fee, BALANCE)
      cached    == AddFee(charged, feecache[MSC], MSC, distributionThresholds[MSC], block, fee)
      Sent(tally) == Pay(update_tally_map(tally, sender, p, -Sum(receivers), BALANCE), p, receivers)
  IN  /\ Event
      /\ version = 0 => distributeTo = p
      /\ Balance(sender, p) >= amount
      /\ DOMAIN receivers # {}
      /\ Balance(sender, MSC) >= fee + IF p = MSC THEN amount ELSE 0
      /\ \/ /\ version = 0
            /\ NotifyTotalTokensChanged(Sent(charged), MSC)
            /\ issued' = [issued EXCEPT ![MSC] = @ - fee]
         \/ /\ version = 1
            /\ Becomes(MSC, [cached EXCEPT !.tally = Sent(cached.tally)])
            /\ UNCHANGED <<distributionThresholds, issued>>
      /\ UNCHANGED <<stateFiles, faults, emptied>>

\* The end of a block: calculate_and_update_devmsc, which skips a block that is
\* older than the one before, then the ledger is saved.
BlockEnd(delta) ==
  LET MSC == COUNOS_PROPERTY_MSC
  IN  /\ block <= MaxBlocks
      /\ \/ /\ delta < 0
            /\ UNCHANGED <<mp_tally, feecache, distributionThresholds, issued>>
         \/ /\ delta >= 0
            /\ NotifyTotalTokensChanged(update_tally_map(mp_tally, exodus, MSC, delta, BALANCE), MSC)
            /\ issued' = [issued EXCEPT ![MSC] = @ + delta]
      /\ stateFiles' = Append(stateFiles, [tally |-> mp_tally', issued |-> issued'])
      /\ UNCHANGED <<events, faults, emptied>>

\* No transaction of the current block has changed anything yet.
BetweenBlocks == mp_tally = stateFiles[block].tally /\ \A p \in Property : block \notin DOMAIN feecache[p]

\* Goes on with the block "next", from the ledger saved before it.
Load(next, fault) ==
  /\ fault \in Faults
  /\ Event
  /\ faults' = faults \cup {fault}
  /\ mp_tally' = stateFiles[next].tally
  /\ issued' = stateFiles[next].issued
  /\ stateFiles' = SubSeq(stateFiles, 1, next)

\* The blocks from "next" on are replaced, as long as its ledger is kept.
RewindDBsAndState(next) ==
  /\ BetweenBlocks
  /\ block - next \in 1..MAX_STATE_HISTORY
  /\ Load(next, "reorg")
  /\ feecache' = [p \in Property |-> RollBackCache(feecache[p], next)]
  /\ emptied' = emptied \cup {p \in Property : feecache[p] # EmptyMap /\ feecache'[p] = EmptyMap}
  /\ UNCHANGED distributionThresholds

\* The node is shut down between two blocks and started again.
Restart ==
  /\ BetweenBlocks
  /\ Load(block, "restart")
  /\ distributionThresholds' = [p \in Property |-> 0]
  /\ UNCHANGED <<feecache, emptied>>

\* The node dies at any time, and the chain state it finds on disk ends before
\* the block "next".  The ledger saved there is not below the height of that
\* chain, so that mastercore_init rewinds nothing.
Crash(next) ==
  /\ Load(next, "crash")
  /\ distributionThresholds' = [p \in Property |-> 0]
  /\ UNCHANGED <<feecache, emptied>>

Next ==
  \/ \E a \in Senders, p \in Property, amount \in Amounts :
       \/ TradingFee(a, p, amount)
       \/ logicMath_GrantTokens(a, p, amount)
       \/ logicMath_RevokeTokens(a, p, amount)
       \/ \E distributeTo \in Property, version \in {0, 1} :
            logicMath_SendToOwners(a, p, distributeTo, amount, version)
  \/ \E delta \in Delta : BlockEnd(delta)
  \/ \E next \in 1..block : RewindDBsAndState(next) \/ Crash(next)
  \/ Restart

Spec == Init /\ [][Next]_vars

-----------------------------------------------------------------------------
(* Properties *)

\* Fees are neither lost nor made: what the addresses hold and what is cached
\* is what was issued, through distributions, reorganizations and restarts.
\* It is less where pruning (PruneCache, the default) has dropped the entry a
\* rollback needs: then the rollback leaves no entry at all.  After a crash it
\* may be more or less: Crash leaves fees of blocks that come again.
Conserved ==
  "crash" \notin faults =>
    \A p \in Property :
      LET total == getTotalTokens(mp_tally, feecache[p], p)
      IN  /\ total <= issued[p]
          /\ ~(msc_debug_fees /\ p \in emptied) => total = issued[p]

\* The shares of the owners add up to the amount to send, which SendToOwners
\* and DistributeCache assert after paying them.
SharesAddUp ==
  \A p \in Property, sender \in Senders \cup {NoSender}, amount \in Amounts :
    LET receivers == STO_GetReceivers(mp_tally, sender, p, amount)
    IN  (\E a \in Address \ {sender} : Holding(mp_tally, a, p) > 0) => Sum(receivers) = amount

\* Nobody waits for fees that have reached the threshold for the tokens there
\* are: whatever raises the cache or lowers the threshold distributes them, in
\* a node that has run without reorganization or restart, which leave the
\* thresholds in memory behind the ledger.
BelowThreshold ==
  faults = {} => \A p \in Property : GetCachedAmount(feecache[p]) < CurrentThreshold(p)

\* The threshold that is used is the part of all tokens the rules say.
ThresholdIsCurrent == \A p \in Property : distributionThresholds[p] = CurrentThreshold(p)

\* After an update no entry is older than a reorganization can reach.
OldEntriesPruned ==
  \A p \in Property : \A b, c \in DOMAIN feecache[p] : c - b <= MAX_STATE_HISTORY
=============================================================================
