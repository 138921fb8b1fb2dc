----------------------------- MODULE Activation -----------------------------
(***************************************************************************)
(* Activation of features by transactions of the developers: the blocks as *)
(* of which features are active, a part of the consensus parameters, and   *)
(* vecPendingActivations.  A value of this module is a record of both.     *)
(* vecCompletedActivations is only displayed and left out.                 *)
(***************************************************************************)
EXTENDS Integers

CONSTANTS Feature,                \* features that can be activated
          MIN_ACTIVATION_BLOCKS,  \* bounds of the notice
          MAX_ACTIVATION_BLOCKS,
          COUNOSCORE_VERSION,     \* the version of the client
          NEVER                   \* the block 999999 of an inactive feature

\* ResetConsensusParams and ClearActivations
NoActivations == [block |-> [f \in Feature |-> NEVER], pending |-> {}]

IsFeatureActivated(act, f, block) == block >= act.block[f]

\* What ActivateFeature and DeactivateFeature check.
MayActivate(act, f, activationBlock, block) ==
  /\ activationBlock \in block + MIN_ACTIVATION_BLOCKS .. block + MAX_ACTIVATION_BLOCKS
  /\ ~IsFeatureActivated(act, f, block)

MayDeactivate(act, f, block) == IsFeatureActivated(act, f, block)

DeletePendingActivation(act, f) == {x \in act.pending : x.feature # f}

AddPendingActivation(act, f, activationBlock, minClientVersion) ==
  DeletePendingActivation(act, f)
    \cup {[feature |-> f, block |-> activationBlock, version |-> minClientVersion]}

ActivateFeature(act, f, activationBlock, minClientVersion) ==
  [block   |-> [act.block EXCEPT ![f] = activationBlock],
   pending |-> AddPendingActivation(act, f, activationBlock, minClientVersion)]

DeactivateFeature(act, f) == [act EXCEPT !.block[f] = NEVER]

\* Variant with a fault: an activation is noticed a block late.
LiveLate(act, block) == {x \in act.pending : x.block < block}

Live(act, block) == {x \in act.pending : x.block <= block}

\* CheckLiveActivations completes what went live, and shuts the node down if it
\* is too old for one of them.
CheckLiveActivations(act, block) == [act EXCEPT !.pending = @ \ Live(act, block)]

Unsupported(act, block) == \E x \in Live(act, block) : COUNOSCORE_VERSION < x.version
=============================================================================
