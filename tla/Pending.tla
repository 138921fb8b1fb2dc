------------------------------- MODULE Pending -------------------------------
(***************************************************************************)
(* The transactions a wallet has sent and no block has confirmed           *)
(* (pending.cpp), for one non-fungible property.  PENDING is kept in the   *)
(* ledger of the node beside the amounts all nodes agree on.               *)
(*                                                                         *)
(* RPC threads check a balance, hand a transaction to the wallet, subtract *)
(* its amount and note it, without a lock from step to step.  The thread   *)
(* that connects a block holds cs_main, so nothing enters the mempool      *)
(* meanwhile, but it releases cs_tally between the steps below.            *)
(*                                                                         *)
(* Tokens have an owner here, which the ranges of module NFT implement.    *)
(***************************************************************************)
EXTENDS Integers, Sums, Maps

CONSTANTS Address,     \* addresses
          Wallet,      \* those whose keys the node's wallet has
          Elsewhere,   \* addresses whose keys are (also) used elsewhere
          Token,       \* token numbers of the property
          TxId,        \* transaction hashes
          Thread,      \* RPC threads
          Cancels,     \* whether orders of the MetaDEx are cancelled by price
          MaxReorgs    \* bound on the number of reorganizations

ASSUME PendingAssumption ==
  /\ Wallet \subseteq Address /\ Elsewhere \subseteq Address
  /\ Token \subseteq Nat /\ IsFiniteSet(Token)
  /\ IsFiniteSet(TxId)
  /\ Cancels \in BOOLEAN
  /\ MaxReorgs \in Nat

VARIABLES owner,       \* who owns a token, on this node
          others,      \* who owns it on a node that has nothing pending
          pending,     \* the PENDING amounts of the ledger, zero or negative
          my_pending,  \* the transactions noted as pending
          tx,          \* the transactions there are, by hash
          mempool,     \* those that wait for a block
          block,       \* the block that is being connected
          rpc,         \* what the RPC threads are doing
          reorgs       \* reorganizations so far

vars == <<owner, others, pending, my_pending, tx, mempool, block, rpc, reorgs>>

MSC_TYPE_SEND_NONFUNGIBLE     == "send"
MSC_TYPE_METADEX_CANCEL_PRICE == "cancel"

Transaction ==
  [type : {MSC_TYPE_SEND_NONFUNGIBLE}, src : Address, dst : Address, first : Token, last : Token]
    \cup IF Cancels THEN [type : {MSC_TYPE_METADEX_CANCEL_PRICE}, src : Wallet, amount : Token]
         ELSE {}

IsSend(t) == t.type = MSC_TYPE_SEND_NONFUNGIBLE

AmountOf(t) == IF IsSend(t) THEN t.last - t.first + 1 ELSE t.amount

NoBlock   == [stage |-> "none"]
Idle      == [stage |-> "idle"]

Balance(own, a) == Cardinality({n \in Token : own[n] = a})

GetAvailableTokenBalance(own, pend, a) ==
  Balance(own, a) + IF pend[a] < 0 THEN pend[a] ELSE 0

OwnsRange(own, a, first, last) == \A n \in first..last : own[n] = a

Init ==
  /\ owner \in [Token -> Address]
  /\ others = owner
  /\ pending = [a \in Address |-> 0]
  /\ my_pending = EmptyMap
  /\ tx = EmptyMap
  /\ mempool = {}
  /\ block = NoBlock
  /\ rpc = [t \in Thread |-> Idle]
  /\ reorgs = 0

-----------------------------------------------------------------------------
(* The RPC threads *)

RequireBalance(a, amount) ==
  /\ Balance(owner, a) >= amount
  /\ GetAvailableTokenBalance(owner, pending, a) >= amount

\* counos_sendnonfungible up to its checks.  A cancel is not checked.
RequestTransaction(t, new) ==
  /\ rpc[t] = Idle
  /\ new.src \in Wallet
  /\ IsSend(new) => /\ new.first <= new.last
                    /\ RequireBalance(new.src, AmountOf(new))
                    /\ OwnsRange(owner, new.src, new.first, new.last)
  /\ rpc' = [rpc EXCEPT ![t] = [stage |-> "checked", tx |-> new]]
  /\ UNCHANGED <<owner, others, pending, my_pending, tx, mempool, block, reorgs>>

\* The wallet signs the transaction and puts it in the mempool, or fails.
WalletTxBuilder(t, id) ==
  /\ rpc[t].stage = "checked"
  /\ \/ /\ block = NoBlock
        /\ id \notin DOMAIN tx
        /\ tx' = With(tx, id, rpc[t].tx)
        /\ mempool' = mempool \cup {id}
        /\ rpc' = [rpc EXCEPT ![t] = [stage |-> "committed", id |-> id]]
     \/ /\ rpc' = [rpc EXCEPT ![t] = Idle]
        /\ UNCHANGED <<tx, mempool>>
  /\ UNCHANGED <<owner, others, pending, my_pending, block, reorgs>>

\* The first critical section of PendingAdd, under cs_tally.  A cancel is noted
\* without subtracting its amount (fSubtract).
PendingAdd(t) ==
  /\ rpc[t].stage = "committed"
  /\ LET new == tx[rpc[t].id]
     IN  pending' = IF IsSend(new) THEN [pending EXCEPT ![new.src] = @ - AmountOf(new)] ELSE pending
  /\ rpc' = [rpc EXCEPT ![t].stage = "subtracted"]
  /\ UNCHANGED <<owner, others, my_pending, tx, mempool, block, reorgs>>

\* The second one, under cs_pending.
PendingInsert(t) ==
  /\ rpc[t].stage = "subtracted"
  /\ LET id  == rpc[t].id
         new == tx[id]
     IN  my_pending' = With(my_pending, id, [src |-> new.src, amount |-> AmountOf(new)])
  /\ rpc' = [rpc EXCEPT ![t] = Idle]
  /\ UNCHANGED <<owner, others, pending, tx, mempool, block, reorgs>>

-----------------------------------------------------------------------------
(* Transactions of others, and the mempool *)

\* A transaction that was not sent through this node's RPC.
ForeignTransaction(id, new) ==
  /\ block = NoBlock
  /\ id \notin DOMAIN tx
  /\ IsSend(new) /\ new.first <= new.last /\ new.src \in Elsewhere
  /\ tx' = With(tx, id, new)
  /\ mempool' = mempool \cup {id}
  /\ UNCHANGED <<owner, others, pending, my_pending, block, rpc, reorgs>>

\* A transaction expires, or does not fit in the mempool any more.
Evict(id) ==
  /\ block = NoBlock
  /\ id \in mempool
  /\ mempool' = mempool \ {id}
  /\ UNCHANGED <<owner, others, pending, my_pending, tx, block, rpc, reorgs>>

-----------------------------------------------------------------------------
(* Connecting a block *)

BlockBegin(ids) ==
  /\ block = NoBlock
  /\ block' = [stage |-> "next", todo |-> ids]
  /\ mempool' = mempool \ ids
  /\ UNCHANGED <<owner, others, pending, my_pending, tx, rpc, reorgs>>

\* Variant with a fault: the amount is not credited.
DebitKept(pend, entry) == pend

\* The amount goes back unless nothing is pending for the address.
Credit(pend, entry) ==
  IF pend[entry.src] = 0 THEN pend ELSE [pend EXCEPT ![entry.src] = @ + entry.amount]

\* The first step of mastercore_handler_tx, under cs_tally.
PendingDelete(id) ==
  /\ block.stage = "next"
  /\ id \in block.todo
  /\ IF id \in DOMAIN my_pending
     THEN /\ pending' = Credit(pending, my_pending[id])
          /\ my_pending' = Without(my_pending, id)
     ELSE UNCHANGED <<pending, my_pending>>
  /\ block' = [stage |-> "interpret", todo |-> block.todo \ {id}, id |-> id]
  /\ UNCHANGED <<owner, others, tx, mempool, rpc, reorgs>>

\* What a transaction does to the owners on a node with these pending amounts.
logicMath_SendNonFungible(own, pend, t) ==
  IF /\ IsSend(t)
     /\ GetAvailableTokenBalance(own, pend, t.src) >= AmountOf(t)
     /\ OwnsRange(own, t.src, t.first, t.last)
  THEN [n \in Token |-> IF n \in t.first..t.last THEN t.dst ELSE own[n]]
  ELSE own

interpretPacket ==
  /\ block.stage = "interpret"
  /\ owner' = logicMath_SendNonFungible(owner, pending, tx[block.id])
  /\ others' = logicMath_SendNonFungible(others, [a \in Address |-> 0], tx[block.id])
  /\ block' = [stage |-> "next", todo |-> block.todo]
  /\ UNCHANGED <<pending, my_pending, tx, mempool, rpc, reorgs>>

\* Variant with a fault: only discards what still has an amount subtracted.
GoneSubtracted == {id \in DOMAIN my_pending : id \notin mempool /\ pending[my_pending[id].src] # 0}

\* The pending transactions that are not in the mempool.
Gone == {id \in DOMAIN my_pending : id \notin mempool}

\* Deletes them one after the other, in the order of their hashes.
PendingCheck ==
  /\ pending' = FoldFunctionOnSet(LAMBDA entry, pend : Credit(pend, entry), pending, my_pending, Gone)
  /\ my_pending' = Restrict(my_pending, DOMAIN my_pending \ Gone)

mastercore_handler_block_end ==
  /\ block.stage = "next"
  /\ block.todo = {}
  /\ PendingCheck
  /\ block' = NoBlock
  /\ UNCHANGED <<owner, others, tx, mempool, rpc, reorgs>>

\* The first block after a reorganization that changes no token of the
\* property: the ledger comes from a state file, which holds nothing pending.
RestoreInMemoryState ==
  /\ block = NoBlock
  /\ reorgs < MaxReorgs
  /\ reorgs' = reorgs + 1
  /\ pending' = [a \in Address |-> 0]
  /\ UNCHANGED <<owner, others, my_pending, tx, mempool, block, rpc>>

Connect ==
  \/ \E id \in TxId : PendingDelete(id)
  \/ interpretPacket
  \/ mastercore_handler_block_end

Next ==
  \/ \E t \in Thread :
       \/ \E new \in Transaction : RequestTransaction(t, new)
       \/ \E id \in TxId : WalletTxBuilder(t, id)
       \/ PendingAdd(t)
       \/ PendingInsert(t)
  \/ \E id \in TxId :
       \/ \E new \in Transaction : ForeignTransaction(id, new)
       \/ Evict(id)
  \/ \E ids \in SUBSET mempool : BlockBegin(ids)
  \/ Connect
  \/ RestoreInMemoryState

Spec == Init /\ [][Next]_vars

\* Blocks keep coming and are connected to the end; a transaction that is in
\* no block leaves the mempool after a while (-mempoolexpiry).  RPC threads
\* finish or not as they like.
Fairness ==
  /\ WF_vars(\E ids \in SUBSET mempool : BlockBegin(ids))
  /\ WF_vars(Connect)
  /\ \A id \in TxId : SF_vars(Evict(id))

FairSpec == Spec /\ Fairness

-----------------------------------------------------------------------------
(* Properties *)

\* What PENDING takes off the available balance of an address is the total of
\* its pending sends and of those that a thread has subtracted and not yet
\* noted, whatever the order in which threads subtract and note them, blocks
\* confirm them and PendingCheck discards them (also if a transaction is noted
\* after its block).  A reorganization, which forgets the amounts and keeps the
\* entries (RestoreInMemoryState), breaks it, and so does a cancel, whose amount
\* is credited though it was never subtracted.
PendingMatches ==
  (reorgs = 0 /\ \A id \in DOMAIN tx : IsSend(tx[id])) =>
  \A a \in Address :
    LET unnoted == {rpc[t].id : t \in {u \in Thread : rpc[u].stage = "subtracted"}}
        sends   == {id \in DOMAIN my_pending \cup unnoted : tx[id].src = a}
    IN  -pending[a] = Sum([id \in sends |-> AmountOf(tx[id])])

\* All nodes agree on who owns a token, whatever their wallets have pending.
NodesAgree == owner = others

\* Every transaction noted as pending is discarded some time, also when it was
\* noted only after its block was connected.
EveryPendingEnds == \A id \in TxId : id \in DOMAIN my_pending ~> id \notin DOMAIN my_pending
=============================================================================
