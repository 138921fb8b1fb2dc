----------------------------- MODULE LayerNode ------------------------------
(***************************************************************************)
(* What a node does with the transactions of a block, for the transactions *)
(* whose effects are kept outside of the state files or undone in a way of *)
(* their own: freezing, activations, issuers and delegates, and sends for  *)
(* the ledger that the state files hold.                                   *)
(*                                                                         *)
(* A node is a record of its memory (tally, frz, act) and its databases    *)
(* (sp, txlist); dead says that an assertion has failed.  The operators    *)
(* take a node and return the node after a handler.                        *)
(***************************************************************************)
EXTENDS Freezing, Activation, Properties, Sequences

CONSTANTS Address,                    \* addresses, ordered as in a std::set
          Property,                   \* properties, managed and fungible
          COUNOS_FREEZE_WAIT_PERIOD,  \* the notice for enabling freezing
          Issuer,                     \* the issuer of the properties at first
          Holding                     \* what an address holds at first

FEATURE_FREEZENOTICE == "freezenotice"

\* Types of transactions.
Freezings   == {"enable", "disable", "freeze", "unfreeze"}
Activations == {"activate", "deactivate"}
Updates     == {"changeissuer", "adddelegate", "removedelegate"}

\* The node after the block that created the properties, whose hash is 1.
GenesisNode ==
  [tally  |-> [a \in Address, p \in Property |-> Holding],
   frz    |-> NoFreezing,
   act    |-> NoActivations,
   sp     |-> [entry     |-> [p \in Property |-> [issuer |-> Issuer, update_block |-> 1, creation_block |-> 1,
                                                  historicalIssuers |-> With(EmptyMap, <<1, 0>>, Issuer)]],
               prev      |-> EmptyMap,
               delegate  |-> [p \in Property |-> [delegate |-> NoDelegate, historicalDelegates |-> EmptyMap]],
               watermark |-> 1],
   txlist |-> EmptyMap,
   dead   |-> FALSE]

-----------------------------------------------------------------------------
(* Handlers of transactions: whether the transaction is valid, and the node
   after it. *)

Outcome(n, valid, after) == [valid |-> valid, node |-> IF valid THEN after ELSE n]

IsIssuer(n, tx, block) == tx.sender = getIssuer(n.sp, tx.property, block)

\* The delegate may freeze, and the issuer only where there is none.
MayFreeze(n, tx, block) ==
  LET delegate == getDelegate(n.sp, tx.property, block)
  IN  IF delegate # NoDelegate THEN tx.sender = delegate ELSE IsIssuer(n, tx, block)

Pay(tally, from, to) ==
  [k \in DOMAIN tally |-> tally[k] - (IF k = from THEN 1 ELSE 0) + (IF k = to THEN 1 ELSE 0)]

\* Of one unit.
logicMath_SimpleSend(n, tx) ==
  Outcome(n, n.tally[<<tx.sender, tx.property>>] > 0,
          [n EXCEPT !.tally = Pay(@, <<tx.sender, tx.property>>, <<tx.receiver, tx.property>>)])

logicMath_ChangeIssuer(n, tx, hash, block, idx) ==
  Outcome(n, IsIssuer(n, tx, block),
          [n EXCEPT !.sp = updateIssuer(@, tx.property, hash, block, idx, tx.receiver)])

\* As of a later block, if the feature is active that demands a notice.
logicMath_EnableFreezing(n, tx, block) ==
  LET notice == IF IsFeatureActivated(n.act, FEATURE_FREEZENOTICE, block) THEN COUNOS_FREEZE_WAIT_PERIOD ELSE 0
  IN  Outcome(n, IsIssuer(n, tx, block) /\ ~isFreezingEnabled(n.frz, tx.property, block),
              [n EXCEPT !.frz = enableFreezing(@, tx.property, block + notice)])

logicMath_DisableFreezing(n, tx, block, garbage) ==
  Outcome(n, IsIssuer(n, tx, block) /\ isFreezingEnabled(n.frz, tx.property, block),
          [n EXCEPT !.frz = disableFreezing(@, tx.property),
                    !.dead = DisableAssertFails(n.frz, tx.property, garbage)])

logicMath_FreezeTokens(n, tx, block) ==
  Outcome(n, /\ MayFreeze(n, tx, block)
             /\ isFreezingEnabled(n.frz, tx.property, block)
             /\ ~isAddressFrozen(n.frz, tx.receiver, tx.property),
          [n EXCEPT !.frz = freezeAddress(@, tx.receiver, tx.property)])

logicMath_UnfreezeTokens(n, tx, block) ==
  Outcome(n, /\ MayFreeze(n, tx, block)
             /\ isFreezingEnabled(n.frz, tx.property, block)
             /\ isAddressFrozen(n.frz, tx.receiver, tx.property),
          [n EXCEPT !.frz = unfreezeAddress(@, tx.receiver, tx.property)])

logicMath_AddDelegate(n, tx, hash, block, idx) ==
  Outcome(n, IsIssuer(n, tx, block),
          [n EXCEPT !.sp = updateDelegate(@, tx.property, hash, block, idx, tx.receiver)])

\* By the issuer, or by the delegate itself.
logicMath_RemoveDelegate(n, tx, hash, block, idx) ==
  LET delegate == getDelegate(n.sp, tx.property, block)
  IN  Outcome(n, (IsIssuer(n, tx, block) \/ tx.sender = delegate) /\ tx.receiver = delegate,
              [n EXCEPT !.sp = updateDelegate(@, tx.property, hash, block, idx, NoDelegate)])

logicMath_Activation(n, tx, block) ==
  Outcome(n, MayActivate(n.act, tx.feature, tx.block, block),
          [n EXCEPT !.act = ActivateFeature(@, tx.feature, tx.block, tx.version)])

logicMath_Deactivation(n, tx, block) ==
  Outcome(n, MayDeactivate(n.act, tx.feature, block), [n EXCEPT !.act = DeactivateFeature(@, tx.feature)])

\* Nobody uses a property for which its address is frozen.
interpretPacket(n, tx, hash, block, idx, garbage) ==
  IF tx.type \notin Activations /\ isAddressFrozen(n.frz, tx.sender, tx.property) THEN Outcome(n, FALSE, n)
  ELSE CASE tx.type = "send"           -> logicMath_SimpleSend(n, tx)
         [] tx.type = "changeissuer"   -> logicMath_ChangeIssuer(n, tx, hash, block, idx)
         [] tx.type = "enable"         -> logicMath_EnableFreezing(n, tx, block)
         [] tx.type = "disable"        -> logicMath_DisableFreezing(n, tx, block, garbage)
         [] tx.type = "freeze"         -> logicMath_FreezeTokens(n, tx, block)
         [] tx.type = "unfreeze"       -> logicMath_UnfreezeTokens(n, tx, block)
         [] tx.type = "adddelegate"    -> logicMath_AddDelegate(n, tx, hash, block, idx)
         [] tx.type = "removedelegate" -> logicMath_RemoveDelegate(n, tx, hash, block, idx)
         [] tx.type = "activate"       -> logicMath_Activation(n, tx, block)
         [] tx.type = "deactivate"     -> logicMath_Deactivation(n, tx, block)

\* Replaces the record that an earlier block may have left.
recordTX(n, tx, valid, block, idx) ==
  [n EXCEPT !.txlist = With(@, tx, [valid |-> valid, block |-> block, position |-> idx])]

mastercore_handler_tx(n, tx, hash, block, idx, garbage) ==
  LET done == interpretPacket(n, tx, hash, block, idx, garbage)
  IN  IF n.dead \/ done.node.dead THEN [n EXCEPT !.dead = TRUE]
      ELSE recordTX(done.node, tx, done.valid, block, idx)
=============================================================================
