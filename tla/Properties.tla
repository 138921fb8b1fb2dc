----------------------------- MODULE Properties -----------------------------
(***************************************************************************)
(* The database of properties, pDbSpInfo, as far as it is changed after a  *)
(* property was created and rolled back with its blocks: the issuer and    *)
(* the delegate of a property.  A value of this module is a record of the  *)
(* entries, the entries that updates replaced, the delegates, which are    *)
(* stored under a key of their own, and the watermark, the last block      *)
(* whose state was saved.                                                  *)
(***************************************************************************)
EXTENDS Integers, FiniteSetsExt, Maps

\* A history maps the block and the position of a change to the new value.
\* There is no delegate where the code has the empty string.
NoDelegate == 0

\* The value of the last change up to a block, changes later in it included.
ValueAt(history, block, default) ==
  LET upTo == {k \in DOMAIN history : k[1] <= block}
  IN  IF upTo = {} THEN default
      ELSE history[CHOOSE k \in upTo : \A j \in upTo : j[1] < k[1] \/ (j[1] = k[1] /\ j[2] <= k[2])]

getIssuer(sp, p, block) == ValueAt(sp.entry[p].historicalIssuers, block, sp.entry[p].issuer)

\* Before the first change this is the delegate of today, not NoDelegate.
getDelegate(sp, p, block) == ValueAt(sp.delegate[p].historicalDelegates, block, sp.delegate[p].delegate)

\* Moves the entry to the key of the block of the update, where it replaces
\* what an earlier update in that block has put there.
updateSP(sp, p, info) ==
  [sp EXCEPT !.prev = With(@, <<info.update_block, p>>, sp.entry[p]), !.entry[p] = info]

updateIssuer(sp, p, hash, block, idx, newIssuer) ==
  updateSP(sp, p, [sp.entry[p] EXCEPT !.issuer = newIssuer, !.update_block = hash,
                                      !.historicalIssuers = With(@, <<block, idx>>, newIssuer)])

\* addDelegate, and removeDelegate with NoDelegate.
updateDelegate(sp, p, hash, block, idx, newDelegate) ==
  [updateSP(sp, p, [sp.entry[p] EXCEPT !.update_block = hash])
     EXCEPT !.delegate[p] = [delegate |-> newDelegate,
                             historicalDelegates |-> With(@.historicalDelegates, <<block, idx>>, newDelegate)]]

UpdatedBy(sp, hash) == {p \in DOMAIN sp.entry : sp.entry[p].update_block = hash}

CreatedBy(sp, hash) == {p \in UpdatedBy(sp, hash) : sp.entry[p].creation_block = hash}

\* popBlock fails if the entry before an update is missing, and returns the
\* number of properties that remain otherwise.
CanPop(sp, hash) ==
  \A p \in UpdatedBy(sp, hash) \ CreatedBy(sp, hash) : <<hash, p>> \in DOMAIN sp.prev

Remaining(sp, hash) == DOMAIN sp.entry \ CreatedBy(sp, hash)

\* Removes the properties that the block created and restores those it updated.
\* Delegates are not restored.
popBlock(sp, hash) ==
  [sp EXCEPT !.entry = [p \in Remaining(sp, hash) |->
                          IF p \in UpdatedBy(sp, hash) THEN sp.prev[<<hash, p>>] ELSE @[p]],
             !.prev = Restrict(@, {k \in DOMAIN @ : k[1] # hash \/ k[2] \notin UpdatedBy(sp, hash)})]

setWatermark(sp, hash) == [sp EXCEPT !.watermark = hash]
=============================================================================
