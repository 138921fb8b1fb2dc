-------------------------------- MODULE MCDEx --------------------------------
(* Instances of DEx for TLC. *)
EXTENDS DEx, SequencesExt

CONSTANTS seller, buyer, buyer2, tokens

MCKeyOrder == [p \in Property |-> p]

\* The seller owns all the tokens.
MCSupply == [k \in TallyKey |-> IF k[1] = seller /\ k[3] = BALANCE THEN tokens ELSE 0]

Symmetry == Permutations({buyer, buyer2}) \cup Permutations(Txid)

TxidSymmetry == Permutations(Txid)

\* The loop over my_accepts in eraseExpiredAccepts, for one order of the map.
ExpiryLoop(st, order) ==
  FoldLeft(LAMBDA acc, k : DEx_acceptDestroy(acc, k[3], k[1], k[2]), st, order)

\* The accepts that expire in one block may be destroyed in any order: the
\* loop of eraseExpiredAccepts always ends with the totals moved.
ExpiryOrderIrrelevant ==
  \A order \in SetToSeqs(Expired(dex)) : ExpiryLoop(dex, order) = eraseExpiredAccepts(dex)
=============================================================================
