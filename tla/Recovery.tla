------------------------------ MODULE Recovery ------------------------------
(***************************************************************************)
(* How a node keeps its state in step with the chain: blocks are connected *)
(* and disconnected, the state of every block, or of every n-th one, is    *)
(* saved in files, and the process may stop at any point and start again.  *)
(*                                                                         *)
(* The state files hold the ledger.  The other parts come back in other    *)
(* ways: properties by undoing the updates of a block (popBlock), freezing *)
(* and activations, which are in memory only, from the list of             *)
(* transactions on start, and by starting over where a freeze is undone.   *)
(* The promise is that whatever happened, the node is where a node is that *)
(* processed the active chain once: Replay.                                *)
(***************************************************************************)
EXTENDS LayerNode

CONSTANTS Contents,             \* sequences of transactions that a block may hold
          MAX_STATE_HISTORY,    \* state files older than that many blocks ...
          STORE_EVERY_N_BLOCK,  \* ... are removed, except those of every n-th block
          WarpModeHeights,      \* what GetWrapModeHeight may return
          KeyLimit,             \* the first height that does not fit the sort key of freezes
          Excluded,             \* situations the instance stays away from
          MaxHeight,            \* bounds: height of a chain,
          MaxBlocks,            \*   number of blocks, one less after every stop,
          MaxTxs,               \*   different transactions,
          MaxStops,             \*   stops of the process
          Damages               \* whether a stop may damage files

VARIABLES node,      \* memory and databases
          nWarpModeHeight,  \* up to here only every n-th block is saved on the main net; 0 elsewhere
          files,     \* state files by block: the ledger, and whether they can be read
          blocks,    \* every block: its parent, height and transactions; its hash is its number
          index,     \* the blocks that the block index knows
          chain,     \* the active chain
          step,      \* of the handlers of the last block, or 0
          reorg,     \* reorgRecoveryMaxHeight, or 0 without reorgRecoveryMode
          status,    \* of the process
          stops      \* how often it has ended

vars == <<node, nWarpModeHeight, files, blocks, index, chain, step, reorg, status, stops>>

SE == INSTANCE SequencesExt

On(c) == {c[h] : h \in 1..Len(c)}

Tip == chain[Len(chain)]

TxsOf(c) == UNION {SE!ToSet(blocks[id].txs) : id \in On(c)}

-----------------------------------------------------------------------------
(* State files *)

\* A node and its files; old says that it is to shut down as unsupported.
State(n, fs) == [node |-> n, files |-> fs, old |-> FALSE]

\* Whether the state of a block is saved: on the main net by a fixed height, on
\* the others by the height of the chain.
IsPersistenceEnabled(top, h) ==
  LET nMinHeight == IF nWarpModeHeight = 0 THEN top ELSE nWarpModeHeight
  IN  nMinHeight <= h + MAX_STATE_HISTORY \/ h % STORE_EVERY_N_BLOCK = 0

prune_state_files(fs, top) ==
  Restrict(fs, {id \in DOMAIN fs : /\ id \in index
                                   /\ \/ blocks[top].height - blocks[id].height <= MAX_STATE_HISTORY
                                      \/ blocks[id].height % STORE_EVERY_N_BLOCK = 0})

\* PersistInMemoryState up to the watermark, which is set last.
PersistInMemoryState(fs, id, tally) == prune_state_files(With(fs, id, [tally |-> tally, good |-> TRUE]), id)

\* Variant with a fault: the watermark may be off the chain.
StayAtWatermark(sp, c) == [ok |-> TRUE, sp |-> sp]

\* The properties go back from the watermark to the active chain.
RECURSIVE RollBackToChain(_, _)
RollBackToChain(sp, c) ==
  IF sp.watermark \in On(c) THEN [ok |-> TRUE, sp |-> sp]
  ELSE IF ~CanPop(sp, sp.watermark) THEN [ok |-> FALSE, sp |-> sp]
  ELSE RollBackToChain(setWatermark(popBlock(sp, sp.watermark), blocks[sp.watermark].parent), c)

\* ... and on to the last block of it whose files can be read.
RECURSIVE RollBackToFiles(_, _, _)
RollBackToFiles(sp, c, fs) ==
  LET w == sp.watermark
  IN  IF w \in DOMAIN fs /\ fs[w].good THEN [ok |-> TRUE, sp |-> sp]
      ELSE IF \/ ~\E id \in On(c) : id \in DOMAIN fs /\ fs[id].good /\ blocks[id].height < blocks[w].height
              \/ ~CanPop(sp, w) \/ Remaining(sp, w) = {}
           THEN [ok |-> FALSE, sp |-> sp]
      ELSE RollBackToFiles(setWatermark(popBlock(sp, w), blocks[w].parent), c, fs)

\* A watermark that the block index does not know is replaced by the newest of
\* the state files.
KnownWatermark(sp, fs) ==
  IF sp.watermark \in index THEN sp
  ELSE LET known == DOMAIN fs \cap index
       IN  setWatermark(sp, IF known = {} THEN 0
                            ELSE CHOOSE id \in known : \A other \in known : blocks[id].height >= blocks[other].height)

\* The height that was loaded, or -1, and the node with it.
LoadMostRelevantInMemoryState(st, c) ==
  LET failed == [height |-> -1, node |-> st.node]
      known  == IF st.node.sp.watermark = 0 THEN st.node.sp ELSE KnownWatermark(st.node.sp, st.files)
      onto   == RollBackToChain(known, c)
      loaded == RollBackToFiles(onto.sp, c, st.files)
  IN  IF known.watermark = 0 \/ ~onto.ok \/ ~loaded.ok THEN failed
      ELSE [height |-> blocks[loaded.sp.watermark].height,
            node   |-> [st.node EXCEPT !.sp = loaded.sp, !.tally = st.files[loaded.sp.watermark].tally]]

-----------------------------------------------------------------------------
(* Scanning blocks again *)

\* clear_all_state, and what block 1 does.
clear_all_state == [GenesisNode EXCEPT !.sp = setWatermark(@, 0)]

\* The handlers of the transactions of a block, the i-th and those after it.
RECURSIVE HandleTxs(_, _, _, _, _)
HandleTxs(n, id, block, i, garbage) ==
  IF i > Len(block.txs) THEN n
  ELSE HandleTxs(mastercore_handler_tx(n, block.txs[i], id, block.height, i, garbage), id, block, i + 1, garbage)

\* One iteration of msc_initial_scan, which stops when a shutdown is requested.
ScanBlock(st, id, top, garbage) ==
  LET begun == [st.node EXCEPT !.act = CheckLiveActivations(@, blocks[id].height)]
      done  == HandleTxs(begun, id, blocks[id], 1, garbage)
  IN  IF st.old THEN st
      ELSE IF Unsupported(st.node.act, blocks[id].height) THEN [State(done, EmptyMap) EXCEPT !.old = TRUE]
      ELSE IF IsPersistenceEnabled(top, blocks[id].height) /\ ~done.dead
      THEN State([done EXCEPT !.sp = setWatermark(@, id)], PersistInMemoryState(st.files, id, done.tally))
      ELSE State(done, st.files)

RECURSIVE msc_initial_scan(_, _, _, _)
msc_initial_scan(st, c, first, garbage) ==
  IF first > Len(c) THEN st
  ELSE msc_initial_scan(ScanBlock(st, c[first], Len(c), garbage), c, first + 1, garbage)

\* The node after one more block that it processes once.
Once(n, id, block) ==
  HandleTxs([n EXCEPT !.act = CheckLiveActivations(@, block.height)], id, block, 1, FALSE)

\* The node that has processed the chain once, from its first block on.
RECURSIVE Replay(_)
Replay(c) ==
  IF c = <<>> THEN GenesisNode
  ELSE Once(Replay(SE!Front(c)), SE!Last(c), blocks[SE!Last(c)])

-----------------------------------------------------------------------------
(* The list of transactions *)

Recorded(n, types) == {tx \in DOMAIN n.txlist : tx.type \in types}

ValidOnes(n, types) == {tx \in Recorded(n, types) : n.txlist[tx].valid}

\* Variant with a fault: no freeze is ever noticed.
NeverFreezes(n, height) == FALSE

CheckForFreezeTxs(n, height) == \E tx \in Recorded(n, Freezings) : n.txlist[tx].block >= height

\* isMPinBlockRange, which removes the records of disconnected blocks.
Forget(n, from, to) ==
  [n EXCEPT !.txlist = Restrict(@, {tx \in DOMAIN @ : @[tx].block \notin from..to})]

\* GetTransaction finds a transaction on the chain or off it, and it is of use
\* if the block index knows the block.
Holders(tx) == {id \in index : tx \in SE!ToSet(blocks[id].txs)}

Located(tx, c) ==
  LET on == Holders(tx) \cap On(c)
  IN  blocks[IF on # {} THEN CHOOSE id \in on : TRUE ELSE Max(Holders(tx))].height

\* Interprets a recorded transaction again.  At a height above the tip
\* interpretPacket reads the hash of no block, which ends the process.
Again(n, tx, c, garbage) ==
  LET block == Located(tx, c)
  IN  IF block > Len(c) THEN [ended |-> TRUE, valid |-> FALSE, node |-> n]
      ELSE LET done == interpretPacket(n, tx, c[block], block, 0, garbage)
           IN  [ended |-> FALSE, valid |-> done.valid, node |-> done.node]

\* Interprets them in order.  A rejected activation is skipped; other rejected
\* transactions are errors.
RECURSIVE LoadInOrder(_, _, _, _)
LoadInOrder(r, txs, c, garbage) ==
  IF txs = <<>> THEN r
  ELSE LET again == Again(r.node, Head(txs), c, garbage)
           ok    == r.ok /\ ~again.ended /\ (again.valid \/ Head(txs).type = "activate")
       IN  LoadInOrder([ok |-> ok, node |-> again.node], Tail(txs), c, garbage)

\* In the order of their blocks and hashes.
LoadActivations(n, c, height) ==
  LET txs  == {tx \in ValidOnes(n, {"activate"}) : Holders(tx) # {} /\ Located(tx, c) <= height}
      Earlier(s, t) == \/ n.txlist[s].block < n.txlist[t].block
                       \/ n.txlist[s].block = n.txlist[t].block /\ s.txid < t.txid
  IN  LoadInOrder([ok |-> TRUE, node |-> n], SE!SetToSortSeq(txs, Earlier), c, FALSE)

\* The sort key is text that begins with the height.  One more digit than there
\* is room for moves a height in front of smaller ones.
HeightBefore(g, h) ==
  IF (g < KeyLimit) = (h < KeyLimit) THEN g < h
  ELSE IF g < KeyLimit THEN g <= h \div 10 ELSE g \div 10 < h

\* Variant with a fault: in the order of their hashes.
ByHash(n, s, t) == s.txid < t.txid

\* By their blocks and their positions in them.
ByPosition(n, s, t) ==
  \/ HeightBefore(n.txlist[s].block, n.txlist[t].block)
  \/ n.txlist[s].block = n.txlist[t].block /\ n.txlist[s].position < n.txlist[t].position

\* One that is not found is an error.
LoadFreezeState(n, c, height, garbage) ==
  LET found == \A tx \in ValidOnes(n, Freezings) : Holders(tx) # {}
      txs   == {tx \in ValidOnes(n, Freezings) : Holders(tx) # {} /\ Located(tx, c) <= height}
      Earlier(s, t) == ByPosition(n, s, t)
  IN  LoadInOrder([ok |-> found, node |-> n], SE!SetToSortSeq(txs, Earlier), c, garbage)

-----------------------------------------------------------------------------
(* Situations in which the node does not end where a node does that processed
   the chain once; an instance says which of them it stays away from.  A node
   that loaded the state of a height scans the blocks after it again. *)

\* Freezing is in memory already when its transaction is processed again, which
\* rejects it, and a deactivation likewise.
Rescanned(n, types, height, last) ==
  \E tx \in ValidOnes(n, types) : n.txlist[tx].block \in height + 1 .. last

\* A block that is undone has changed an activation.
ActivationUndone(n, height) == \E tx \in ValidOnes(n, Activations) : n.txlist[tx].block > height

\* A block that is undone has changed a property twice.
UpdatedTwice(n, height) ==
  \E s, t \in ValidOnes(n, Updates) :
    s # t /\ s.property = t.property /\ n.txlist[s].block = n.txlist[t].block /\ n.txlist[s].block > height

\* A delegate of a later block.
DelegateKept(n, height) ==
  \E p \in Property : \E k \in DOMAIN n.sp.delegate[p].historicalDelegates : k[1] > height

\* Properties that a block has updated whose state was not saved.
PropertiesAhead(n, c, height) ==
  \E p \in DOMAIN n.sp.entry : n.sp.entry[p].update_block \notin {c[h] : h \in {g \in 1..Len(c) : g <= height}}

\* A record of a block that is not on the chain.
RecordOffChain(n, c) == \E tx \in ValidOnes(n, Freezings \cup Activations) : tx \notin TxsOf(c)

\* A deactivation is not loaded on start.
DeactivationForgotten(n, height) == \E tx \in ValidOnes(n, {"deactivate"}) : n.txlist[tx].block <= height

\* A change of the issuer or the delegate, later in the block of a freeze or in
\* a later block, after which the freeze looks unauthorized.
AuthorityLost(n) ==
  \E tx \in ValidOnes(n, Freezings) :
    ~ IF tx.type \in {"freeze", "unfreeze"} THEN MayFreeze(n, tx, n.txlist[tx].block)
      ELSE IsIssuer(n, tx, n.txlist[tx].block)

RewindSituations(n, c, height) ==
  {x \in {"rescan", "activation", "twice", "delegate", "ahead"} :
     CASE x = "rescan"     -> Rescanned(n, Freezings \cup {"deactivate"}, height, Len(c))
       [] x = "activation" -> ActivationUndone(n, Len(c))
       [] x = "twice"      -> UpdatedTwice(n, height)
       [] x = "delegate"   -> DelegateKept(n, height)
       [] x = "ahead"      -> PropertiesAhead(n, c, height)}

RestartSituations(n, c, height) ==
  {x \in {"rescan", "twice", "delegate", "ahead", "offchain", "deactivation", "authority"} :
     CASE x = "rescan"       -> Rescanned(n, Freezings, height, height + 1)
       [] x = "twice"        -> UpdatedTwice(n, height)
       [] x = "delegate"     -> DelegateKept(n, height)
       [] x = "ahead"        -> PropertiesAhead(n, c, height)
       [] x = "offchain"     -> RecordOffChain(n, c)
       [] x = "deactivation" -> DeactivationForgotten(n, height)
       [] x = "authority"    -> AuthorityLost(n)}

-----------------------------------------------------------------------------
(* Starting over at a fork, and on start *)

\* RewindDBsAndState for the block above the chain c, in a running node.
RewindDBsAndState(st, c, garbage) ==
  LET n      == Forget(st.node, Len(c) + 1, reorg)
      loaded == LoadMostRelevantInMemoryState(State(n, st.files), c)
      over   == CheckForFreezeTxs(st.node, Len(c) + 1) \/ loaded.height < 0
  IN  IF over
      THEN [situations |-> {}, state |-> msc_initial_scan(State(clear_all_state, st.files), c, 1, garbage)]
      ELSE [situations |-> RewindSituations([loaded.node EXCEPT !.txlist = st.node.txlist], c, loaded.height),
            state      |-> msc_initial_scan(State(loaded.node, st.files), c, loaded.height + 1, garbage)]

\* What is in memory when the process starts.
Started(n) == [n EXCEPT !.tally = [k \in DOMAIN @ |-> 0], !.frz = NoFreezing, !.act = NoActivations]

\* From the state that was loaded, if any, to the end of the scan.
Resumed(loaded, fs, c, garbage) ==
  LET first  == IF loaded.height < 0 THEN 1 ELSE loaded.height + 1
      n      == IF loaded.height < 0 THEN clear_all_state ELSE loaded.node
      active == LoadActivations(n, c, first)
      frozen == LoadFreezeState([active.node EXCEPT !.act = CheckLiveActivations(@, first)], c, first, garbage)
  IN  [situations |-> IF loaded.height < 0 THEN {} ELSE RestartSituations(loaded.node, c, loaded.height),
       supported  |-> ~Unsupported(active.node.act, first),
       ok         |-> active.ok /\ frozen.ok,
       state      |-> msc_initial_scan(State(frozen.node, fs), c, first, garbage)]

mastercore_init(st, c, garbage) ==
  Resumed(LoadMostRelevantInMemoryState(State(Started(st.node), st.files), c), st.files, c, garbage)

-----------------------------------------------------------------------------
(* Actions *)

Running == status = "running"
Idle    == Running /\ step = 0

\* ConnectTip up to mastercore_handler_block_begin, for a block that is known.
BlockBegin(id, garbage) ==
  LET st == State(node, files)
  IN  \E ready \in {IF reorg > 0 THEN RewindDBsAndState(st, chain, garbage)
                    ELSE [situations |-> {}, state |-> st]} :
        LET n   == ready.state.node
            old == ready.state.old \/ Unsupported(n.act, Len(chain) + 1)
        IN  /\ ready.situations \cap Excluded = {}
            /\ node' = [n EXCEPT !.act = CheckLiveActivations(@, Len(chain) + 1)]
            /\ files' = IF old THEN EmptyMap ELSE ready.state.files
            /\ chain' = Append(chain, id)
            /\ step' = 1
            /\ reorg' = 0
            /\ status' = IF n.dead THEN "dead" ELSE IF old THEN "unsupported" ELSE "running"
            /\ index' = index \cup {id}
            /\ UNCHANGED <<nWarpModeHeight, stops>>

\* A block with transactions that are not on the chain yet, made by a miner for
\* its own state.  A transaction is valid where it is first mined, and perhaps
\* not where it is mined again.
NewBlock(txs, garbage) ==
  LET block == [parent |-> Tip, height |-> Len(chain) + 1, txs |-> txs]
      seen  == UNION {SE!ToSet(blocks[id].txs) : id \in DOMAIN blocks}
      mined == Once(Replay(chain), Len(blocks) + 1, block)
  IN  /\ Idle
      /\ Len(blocks) + stops < MaxBlocks /\ Len(chain) < MaxHeight
      /\ SE!ToSet(txs) \cap TxsOf(chain) = {}
      /\ Cardinality(SE!ToSet(txs) \cup seen) <= MaxTxs
      /\ \A tx \in SE!ToSet(txs) \ seen : mined.txlist[tx].valid
      /\ blocks' = Append(blocks, block)
      /\ BlockBegin(Len(blocks'), garbage)

\* A block that was on the chain before a stop or a reorganization.
KnownBlock(id, garbage) ==
  /\ Idle
  /\ blocks[id].parent = Tip
  /\ UNCHANGED blocks
  /\ BlockBegin(id, garbage)

\* mastercore_handler_tx for the next transaction of the block.
HandleTx(garbage) ==
  /\ Running
  /\ step \in 1..Len(blocks[Tip].txs)
  /\ node' = mastercore_handler_tx(node, blocks[Tip].txs[step], Tip, Len(chain), step, garbage)
  /\ step' = step + 1
  /\ status' = IF node'.dead THEN "dead" ELSE "running"
  /\ UNCHANGED <<nWarpModeHeight, files, blocks, index, chain, reorg, stops>>

\* mastercore_handler_block_end: if the state is to be saved, the state files
\* and then the watermark.
WriteFiles ==
  /\ Running
  /\ step = Len(blocks[Tip].txs) + 1
  /\ IsPersistenceEnabled(Len(chain), Len(chain))
  /\ files' = PersistInMemoryState(files, Tip, node.tally)
  /\ step' = step + 1
  /\ UNCHANGED <<node, nWarpModeHeight, blocks, index, chain, reorg, status, stops>>

BlockEnd ==
  /\ Running
  /\ \/ /\ step = Len(blocks[Tip].txs) + 1
        /\ ~IsPersistenceEnabled(Len(chain), Len(chain))
        /\ UNCHANGED node
     \/ /\ step = Len(blocks[Tip].txs) + 2
        /\ node' = [node EXCEPT !.sp = setWatermark(@, Tip)]
  /\ step' = 0
  /\ UNCHANGED <<nWarpModeHeight, files, blocks, index, chain, reorg, status, stops>>

\* DisconnectTip and mastercore_handler_disc_begin.
Disconnect ==
  /\ Idle
  /\ Len(chain) > 1
  /\ reorg' = IF Len(chain) > reorg THEN Len(chain) ELSE reorg
  /\ chain' = SE!Front(chain)
  /\ UNCHANGED <<node, nWarpModeHeight, files, blocks, index, step, status, stops>>

\* The process ends, in the middle of a block or not.  The last "lost" blocks
\* were not yet written to the chain state, and perhaps not to the block index.
\* The files of a block may be damaged: one is missing or has another hash.
Stop(lost, forgotten, damaged) ==
  /\ Running
  /\ stops < MaxStops
  /\ lost < Len(chain)
  /\ chain' = SubSeq(chain, 1, Len(chain) - lost)
  /\ index' = IF forgotten THEN index \ On(SubSeq(chain, Len(chain) - lost + 1, Len(chain))) ELSE index
  /\ files' = [id \in DOMAIN files |-> [files[id] EXCEPT !.good = @ /\ id \notin damaged]]
  /\ status' = "stopped"
  /\ step' = 0 /\ reorg' = 0
  /\ stops' = stops + 1
  /\ UNCHANGED <<node, nWarpModeHeight, blocks>>

Start(garbage) ==
  /\ status = "stopped"
  /\ \E init \in {mastercore_init(State(node, files), chain, garbage)} :
       /\ init.situations \cap Excluded = {}
       /\ node' = init.state.node
       /\ files' = IF init.supported THEN init.state.files ELSE EmptyMap
       /\ status' = IF ~init.ok THEN "failed" ELSE IF node'.dead THEN "dead"
                    ELSE IF ~init.supported \/ init.state.old THEN "unsupported" ELSE "running"
  /\ UNCHANGED <<nWarpModeHeight, blocks, index, chain, step, reorg, stops>>

-----------------------------------------------------------------------------
(* Specification *)

Init ==
  /\ nWarpModeHeight \in WarpModeHeights
  /\ blocks = <<[parent |-> 0, height |-> 1, txs |-> <<>>]>>
  /\ IF IsPersistenceEnabled(1, 1)
     THEN node = GenesisNode /\ files = With(EmptyMap, 1, [tally |-> GenesisNode.tally, good |-> TRUE])
     ELSE node = clear_all_state /\ files = EmptyMap
  /\ index = {1}
  /\ chain = <<1>>
  /\ step = 0 /\ reorg = 0
  /\ status = "running"
  /\ stops = 0

\* There is a choice only where some block disables freezing.
Garbage == {g \in BOOLEAN : g => \E id \in DOMAIN blocks : \E tx \in SE!ToSet(blocks[id].txs) : tx.type = "disable"}

Next ==
  \/ \E garbage \in Garbage :
       \/ \E txs \in Contents : NewBlock(txs, garbage)
       \/ \E id \in DOMAIN blocks : KnownBlock(id, garbage)
       \/ HandleTx(garbage)
       \/ Start(garbage)
  \/ WriteFiles
  \/ BlockEnd
  \/ Disconnect
  \/ \E lost \in 0..1, forgotten \in BOOLEAN : Stop(lost, forgotten, {})
  \/ \E id \in DOMAIN files : Damages /\ Stop(0, FALSE, {id})

Spec == Init /\ [][Next]_vars

-----------------------------------------------------------------------------
(* Properties *)

\* Between blocks a running node has the balances, the frozen addresses, the
\* active features, and the issuers and delegates of a node that processed the
\* chain once, and the same validity for every transaction on it.
FollowsChain ==
  (Idle /\ reorg = 0) =>
    LET once == Replay(chain)
    IN  /\ node.tally = once.tally
        /\ node.frz = once.frz
        /\ node.act.block = once.act.block
        /\ node.sp.entry = once.sp.entry
        /\ node.sp.delegate = once.sp.delegate
        /\ \A tx \in TxsOf(chain) : node.txlist[tx] = once.txlist[tx]

\* The path from the first block to a block.
RECURSIVE PathTo(_)
PathTo(id) == IF id = 0 THEN <<>> ELSE Append(PathTo(blocks[id].parent), id)

\* The files of a block, on the chain or not, hold the ledger after that block.
FilesHoldTheirBlock ==
  \A id \in DOMAIN files : files[id].good => files[id].tally = Replay(PathTo(id)).tally

\* A node that processed the chain can load the freezing of it on start.
StartsAgain == status # "failed"

\* A node does not go on when a feature is active on the chain that needs a
\* newer version of the client than it is.
OldNodeStops ==
  Running =>
    LET once == Replay(chain)
    IN  \A tx \in DOMAIN once.txlist :
          (/\ tx.type = "activate" /\ COUNOSCORE_VERSION < tx.version
           /\ once.txlist[tx].valid /\ once.act.block[tx.feature] = tx.block) => Len(chain) < tx.block
=============================================================================
