----------------------------- MODULE FeeProofs ------------------------------
(***************************************************************************)
(* Proofs about FeeCache, for all values of its constants.                 *)
(*                                                                         *)
(* The inductive invariant says of a node that has not crashed that no     *)
(* cache has an entry of a later block, and that not only the ledger but   *)
(* also every saved ledger balances, with the caches rolled back to its    *)
(* block: a reorganization takes over just these.  A rollback that finds   *)
(* no entry any more, as pruning has dropped it, can only lose; one that   *)
(* finds an entry, or a cache that never had any, is exact.  While there   *)
(* was no fault at all the thresholds are those of the tokens there are.   *)
(* The Exodus address always has fee tokens, so that a distribution finds  *)
(* somebody to pay.                                                        *)
(***************************************************************************)
EXTENDS FeeCache, FeeLemmas

\* The Exodus address has fee tokens, so that somebody gets the fees.
ExodusHolds(t) == t[<<exodus, MSC, BALANCE>>] > 0

\* Then the fee token has an owner.
LEMMA ExodusOwns ==
  ASSUME NEW t \in Tallied, ExodusHolds(t)
  PROVE  FeeTokenOwned(t)
<1>1. MSC \in Property /\ exodus \in Address
  BY FeesAssumption, FeeCacheAssumption, Zenon DEF MSC
<1>2. t[<<exodus, MSC, BALANCE>>] \in Nat /\ t[<<exodus, MSC, BALANCE>>] <= Holding(t, exodus, MSC)
      /\ Holding(t, exodus, MSC) \in Nat
  BY <1>1, HoldingType, Zenon DEF TallyType
<1> QED
  BY <1>1, <1>2 DEF FeeTokenOwned, ExodusHolds

-----------------------------------------------------------------------------
(* The inductive invariant *)

SavedFile == [tally : Tallied, issued : [Property -> Int]]

Typed(t, c, m, n, f) ==
  /\ t \in Tallied /\ ExodusHolds(t)
  /\ c = [p \in Property |-> c[p]] /\ \A p \in Property : IsHistory(c[p])
  /\ m \in [Property -> Nat]
  /\ n \in [Property -> Int]
  /\ f \in Seq(SavedFile) /\ Len(f) >= 1
  /\ \A j \in 1..Len(f) : ExodusHolds(f[j].tally)

\* Without a crash no entry is of a block that is still to come.
InOrder(c, f, x) == "crash" \notin x => \A p \in Property : NotBefore(c[p], Len(f))

\* No rollback of p may have missed an entry that was pruned.
Exact(z, p) == ~(msc_debug_fees /\ p \in z)

\* There is at most what was issued, and exactly that in the case e.
Accounted(total, issue, e) == total <= issue /\ (e => total = issue)

\* The saved ledger of block j, with the cache h of p rolled back to it.
SavedBalance(file, h, p, j, z) ==
  Accounted(TalliedTokens(file.tally, p) + CachedBefore(h, j), file.issued[p], Exact(z, p) /\ Determined(h, j))

\* The books balance, now and in every saved ledger.
Balanced(t, c, n, f, x, z) ==
  "crash" \notin x =>
    \A p \in Property :
      /\ Accounted(getTotalTokens(t, c[p], p), n[p], Exact(z, p))
      /\ \A j \in 1..Len(f) : SavedBalance(f[j], c[p], p, j, z)

UpToDate(t, c, m, x) ==
  x = {} =>
    \A p \in Property :
      /\ m[p] = Threshold(getTotalTokens(t, c[p], p))
      /\ GetCachedAmount(c[p]) < m[p]

\* Of a ledger t, caches c, thresholds m, tokens issued n, saved files f and faults x.
Correct(t, c, m, n, f, x, z) ==
  Typed(t, c, m, n, f) /\ InOrder(c, f, x) /\ Balanced(t, c, n, f, x, z) /\ UpToDate(t, c, m, x)

FeeInv == Correct(mp_tally, feecache, distributionThresholds, issued, stateFiles, faults, emptied)

\* What the invariant says of a cache at any time.
LEMMA CacheFacts ==
  ASSUME NEW t, NEW c, NEW m, NEW n, NEW f, NEW x, NEW z, Correct(t, c, m, n, f, x, z), NEW p \in Property
  PROVE  /\ IsHistory(c[p]) /\ GetCachedAmount(c[p]) \in Nat
         /\ TalliedTokens(t, p) \in Nat
         /\ getTotalTokens(t, c[p], p) \in Nat
         /\ m[p] \in Nat /\ Len(f) \in Nat /\ Len(f) >= 1
         /\ "crash" \notin x => NotBefore(c[p], Len(f))
         /\ x = {} => "crash" \notin x
<1>1. IsHistory(c[p]) /\ t \in Tallied
  BY Zenon DEF Correct, Typed
<1>2. GetCachedAmount(c[p]) \in Nat
  BY <1>1, CachedAt, Zenon
<1>3. TalliedTokens(t, p) \in Nat
  BY <1>1, TotalType, Zenon
<1>4. Len(f) \in Nat /\ Len(f) >= 1
  BY DEF Correct, Typed
<1> QED
  BY <1>1, <1>2, <1>3, <1>4 DEF Correct, Typed, InOrder, getTotalTokens

\* A threshold is at least one.
LEMMA ThresholdType ==
  ASSUME NEW n \in Nat
  PROVE  Threshold(n) \in Nat /\ Threshold(n) >= 1
<1>1. n \div COUNOS_FEE_THRESHOLD \in Nat
  BY FeesAssumption, DivFacts, Zenon
<1> QED
  BY <1>1 DEF Threshold

\* What a saved ledger says of a property.
LEMMA SavedType ==
  ASSUME NEW t, NEW c, NEW m, NEW n, NEW f, NEW x, NEW z, Correct(t, c, m, n, f, x, z),
         NEW p \in Property, NEW j \in 1..Len(f)
  PROVE  f[j].tally \in Tallied /\ f[j].issued[p] \in Int /\ TalliedTokens(f[j].tally, p) \in Nat
<1>1. f[j] \in SavedFile
  BY DEF Correct, Typed
<1>2. f[j].tally \in Tallied /\ f[j].issued \in [Property -> Int]
  BY <1>1, Zenon DEF SavedFile
<1>3. TalliedTokens(f[j].tally, p) \in Nat
  BY <1>2, TotalType, Zenon
<1> QED
  BY <1>2, <1>3, Zenon

\* A cache that knows less of the past balances no worse.
LEMMA SavedLess ==
  ASSUME NEW file, NEW p, file.issued[p] \in Int, TalliedTokens(file.tally, p) \in Nat,
         NEW g, IsHistory(g), NEW h, IsHistory(h), NEW j \in Nat, NEW z, SavedBalance(file, h, p, j, z),
         CachedBefore(g, j) <= CachedBefore(h, j),
         Determined(g, j) => Determined(h, j) /\ CachedBefore(g, j) = CachedBefore(h, j)
  PROVE  SavedBalance(file, g, p, j, z)
<1>1. CachedBefore(g, j) \in Nat /\ CachedBefore(h, j) \in Nat
  BY RollBackEffect, CachedAt, Zenon DEF CachedBefore
<1> QED
  BY <1>1 DEF SavedBalance, Accounted

\* d more tokens of p are issued.
Issue(n, p, d) == [n EXCEPT ![p] = @ + d]

\* What one operation does to the ledger and to the cache of property p: the
\* cache of p changes at the current block only, d tokens of p are created, no
\* other property is touched, and p's threshold is kept or recomputed.
CacheMove(t, c, m, f, x, p, d, t2, c2, m2) ==
  /\ t2 \in Tallied /\ ExodusHolds(t2)
  /\ c2 = [c EXCEPT ![p] = c2[p]]
  /\ IsHistory(c2[p]) /\ DOMAIN c2[p] \subseteq DOMAIN c[p] \cup {Len(f)}
  /\ SameBefore(c2[p], c[p], Len(f)) /\ NoMoreBefore(c2[p], c[p], Len(f))
  /\ \A q \in Property \ {p} : TalliedTokens(t2, q) = TalliedTokens(t, q)
  /\ "crash" \notin x => getTotalTokens(t2, c2[p], p) = getTotalTokens(t, c[p], p) + d
  /\ m2 \in [Property -> Nat]
  /\ \A q \in Property \ {p} : m2[q] = m[q]
  /\ x = {} => /\ m2[p] = Threshold(getTotalTokens(t2, c2[p], p))
               /\ GetCachedAmount(c2[p]) < m2[p]

\* A step may change the ledger, and the cache of one property of which it
\* issues d tokens.
LEMMA CacheStep ==
  ASSUME NEW t, NEW c, NEW m, NEW n, NEW f, NEW x, NEW z, Correct(t, c, m, n, f, x, z),
         NEW p \in Property, NEW d \in Int, NEW t2, NEW c2, NEW m2, NEW n2,
         CacheMove(t, c, m, f, x, p, d, t2, c2, m2), n2 = Issue(n, p, d)
  PROVE  Correct(t2, c2, m2, n2, f, x, z)
<1> USE DEF CacheMove
<1>1. \A q \in Property \ {p} : c2[q] = c[q]
  BY Zenon DEF Correct, Typed
<1>2. Len(f) \in Nat
  BY CacheFacts, Zenon
<1>3. Typed(t2, c2, m2, n2, f)
  <2>1. c2 = [q \in Property |-> c2[q]]
    BY Zenon DEF Correct, Typed
  <2>2. \A q \in Property : IsHistory(c2[q])
    BY <1>1, Zenon DEF Correct, Typed
  <2>3. n2 \in [Property -> Int]
    BY DEF Correct, Typed, Issue
  <2> QED
    BY <1>2, <2>1, <2>2, <2>3, Zenon DEF Correct, Typed
<1>4. InOrder(c2, f, x)
  <2> SUFFICES ASSUME "crash" \notin x, NEW q \in Property PROVE NotBefore(c2[q], Len(f))
    BY <1>2, Zenon DEF InOrder
  <2>1. NotBefore(c[q], Len(f)) /\ NotBefore(c[p], Len(f)) /\ Len(f) \in Nat
    BY CacheFacts, Zenon
  <2>2. CASE q = p
    BY <2>1, <2>2 DEF NotBefore
  <2>3. CASE q # p
    BY <1>1, <2>1, <2>3, Zenon
  <2> QED
    BY <2>2, <2>3, Zenon
<1>5. Balanced(t2, c2, n2, f, x, z)
  <2> SUFFICES ASSUME "crash" \notin x, NEW q \in Property
               PROVE  /\ Accounted(getTotalTokens(t2, c2[q], q), n2[q], Exact(z, q))
                      /\ \A j \in 1..Len(f) : SavedBalance(f[j], c2[q], q, j, z)
    BY <1>2, Zenon DEF Balanced
  <2>1. /\ Accounted(getTotalTokens(t, c[q], q), n[q], Exact(z, q))
        /\ \A j \in 1..Len(f) : SavedBalance(f[j], c[q], q, j, z)
    BY Zenon DEF Correct, Balanced
  <2>2. CASE q # p
    <3>1. n2[q] = n[q] /\ TalliedTokens(t2, q) = TalliedTokens(t, q)
          /\ c2[q] = c[q]
      BY <1>1, <2>2, Zenon DEF Correct, Typed, Issue
    <3> QED
      BY <2>1, <3>1, Zenon DEF getTotalTokens
  <2>3. CASE q = p
    <3>1. n2[p] = n[p] + d /\ n[p] \in Int
      BY Zenon DEF Correct, Typed, Issue
    <3>2. Accounted(getTotalTokens(t2, c2[p], p), n2[p], Exact(z, p))
      <4>1. getTotalTokens(t, c[p], p) \in Nat /\ getTotalTokens(t2, c2[p], p) = getTotalTokens(t, c[p], p) + d
        BY CacheFacts, Zenon
      <4> QED
        BY <2>1, <2>3, <3>1, <4>1 DEF Accounted
    <3>3. ASSUME NEW j \in 1..Len(f) PROVE SavedBalance(f[j], c2[p], p, j, z)
      <4>1. j \in Nat /\ j <= Len(f)
        BY <1>2
      <4>2. IsHistory(c[p]) /\ IsHistory(c2[p])
        BY CacheFacts, Zenon
      <4>3. CachedBefore(c2[p], j) <= CachedBefore(c[p], j)
        BY <4>1, Zenon DEF NoMoreBefore
      <4>4. Determined(c2[p], j) => Determined(c[p], j) /\ CachedBefore(c2[p], j) = CachedBefore(c[p], j)
        BY <4>1, Zenon DEF SameBefore
      <4>5. SavedBalance(f[j], c[p], p, j, z)
        BY <2>1, <2>3, Zenon
      <4> QED
        BY <4>1, <4>2, <4>3, <4>4, <4>5, SavedType, SavedLess
    <3> QED
      BY <2>3, <3>2, <3>3, Zenon
  <2> QED
    BY <2>2, <2>3, Zenon
<1>6. UpToDate(t2, c2, m2, x)
  <2> SUFFICES ASSUME x = {}, NEW q \in Property
               PROVE  /\ m2[q] = Threshold(getTotalTokens(t2, c2[q], q))
                      /\ GetCachedAmount(c2[q]) < m2[q]
    BY Zenon DEF UpToDate
  <2>1. CASE q # p
    <3>1. /\ m[q] = Threshold(getTotalTokens(t, c[q], q))
          /\ GetCachedAmount(c[q]) < m[q]
      BY Zenon DEF Correct, UpToDate
    <3>2. /\ m2[q] = m[q]
          /\ TalliedTokens(t2, q) = TalliedTokens(t, q)
          /\ c2[q] = c[q]
      BY <1>1, <2>1, Zenon
    <3> QED
      BY <3>1, <3>2, Zenon DEF getTotalTokens
  <2>2. CASE q = p
    BY <2>2, Zenon
  <2> QED
    BY <2>1, <2>2, Zenon
<1> QED
  BY <1>3, <1>4, <1>5, <1>6, Zenon DEF Correct

-----------------------------------------------------------------------------
(* Operations on the ledger, the cache and the saved files keep the invariant *)

\* The ledger moves between addresses only.
LEMMA TransferStep ==
  ASSUME NEW t, NEW c, NEW m, NEW n, NEW f, NEW x, NEW z, Correct(t, c, m, n, f, x, z),
         NEW t2 \in Tallied, ExodusHolds(t2),
         \A q \in Property : TalliedTokens(t2, q) = TalliedTokens(t, q)
  PROVE  Correct(t2, c, m, n, f, x, z)
<1>1. Typed(t2, c, m, n, f)
  BY Zenon DEF Correct, Typed
<1>2. Balanced(t2, c, n, f, x, z)
  BY Zenon DEF Correct, Balanced, getTotalTokens
<1>3. UpToDate(t2, c, m, x)
  BY Zenon DEF Correct, UpToDate, getTotalTokens
<1> QED
  BY <1>1, <1>2, <1>3, Zenon DEF Correct

\* Tokens are issued or burned, then NotifyTotalTokensChanged.
LEMMA NotifyStep ==
  ASSUME NEW t, NEW c, NEW m, NEW n, NEW f, NEW x, NEW z, Correct(t, c, m, n, f, x, z),
         NEW p \in Property, NEW d \in Int, NEW u \in Tallied, ExodusHolds(u),
         TalliedTokens(u, p) = TalliedTokens(t, p) + d,
         \A q \in Property \ {p} : TalliedTokens(u, q) = TalliedTokens(t, q),
         NEW threshold, threshold = Threshold(getTotalTokens(u, c[p], p)),
         NEW e, e = EvalCache(u, c[p], p, threshold, Len(f)),
         NEW n2, n2 = Issue(n, p, d)
  PROVE  Correct(e.tally, [c EXCEPT ![p] = e.history], [m EXCEPT ![p] = threshold], n2, f, x, z)
<1> DEFINE b == Len(f)
           c2 == [c EXCEPT ![p] = e.history]
           m2 == [m EXCEPT ![p] = threshold]
<1>1. /\ IsHistory(c[p]) /\ GetCachedAmount(c[p]) \in Nat /\ b \in Nat
      /\ "crash" \notin x => NotBefore(c[p], b)
      /\ x = {} => "crash" \notin x
      /\ TalliedTokens(t, p) \in Nat
  BY CacheFacts, Zenon
<1>2. TalliedTokens(u, p) \in Nat
  BY TotalType, Zenon
<1>3. threshold \in Nat /\ threshold >= 1
  <2>1. getTotalTokens(u, c[p], p) \in Nat
    BY <1>1, <1>2 DEF getTotalTokens
  <2> QED
    BY <2>1, ThresholdType, Zenon
<1>4. /\ Books(u, c[p], p, b, 0, e)
      /\ NotBefore(c[p], b) /\ threshold >= 1 => GetCachedAmount(e.history) < threshold
  BY <1>1, <1>3, ExodusOwns, EvalBooks, Zenon
<1>5. p \in DOMAIN c /\ c2[p] = e.history /\ m2[p] = threshold /\ c2 = [c EXCEPT ![p] = c2[p]]
      /\ m2 \in [Property -> Nat] /\ \A q \in Property \ {p} : m2[q] = m[q]
  BY <1>3, Zenon DEF Correct, Typed
<1>6. e.tally \in Tallied /\ ExodusHolds(e.tally)
  <2>1. <<exodus, MSC, BALANCE>> \in TallyKey
    BY FeesAssumption, FeeCacheAssumption, Zenon DEF MSC, TallyKey, TallyType
  <2>2. /\ e.tally \in Tallied /\ u[<<exodus, MSC, BALANCE>>] \in Nat
        /\ e.tally[<<exodus, MSC, BALANCE>>] \in Nat
        /\ e.tally[<<exodus, MSC, BALANCE>>] >= u[<<exodus, MSC, BALANCE>>]
    BY <1>4, <2>1, Zenon DEF Books, Tallied
  <2> QED
    BY <2>2 DEF ExodusHolds
<1>7. "crash" \notin x => getTotalTokens(e.tally, e.history, p) = getTotalTokens(u, c[p], p) + 0
  BY <1>1, <1>4, Zenon DEF Books
<1>8. "crash" \notin x => getTotalTokens(e.tally, c2[p], p) = getTotalTokens(t, c[p], p) + d
  BY <1>1, <1>2, <1>5, <1>7 DEF getTotalTokens
<1>9. x = {} => /\ m2[p] = Threshold(getTotalTokens(e.tally, c2[p], p))
                /\ GetCachedAmount(c2[p]) < m2[p]
  <2>1. getTotalTokens(u, c[p], p) + 0 = getTotalTokens(u, c[p], p)
    BY <1>1, <1>2 DEF getTotalTokens
  <2> QED
    BY <1>1, <1>3, <1>4, <1>5, <1>7, <2>1, Zenon
<1>10. /\ IsHistory(c2[p]) /\ DOMAIN c2[p] \subseteq DOMAIN c[p] \cup {Len(f)}
       /\ SameBefore(c2[p], c[p], Len(f)) /\ NoMoreBefore(c2[p], c[p], Len(f))
       /\ \A q \in Property \ {p} : TalliedTokens(e.tally, q) = TalliedTokens(t, q)
  BY <1>4, <1>5, Zenon DEF Books
<1> HIDE DEF c2, m2
<1>11. CacheMove(t, c, m, f, x, p, d, e.tally, c2, m2)
  BY <1>5, <1>6, <1>8, <1>9, <1>10, Zenon DEF CacheMove
<1>12. Correct(e.tally, c2, m2, n2, f, x, z)
  BY <1>11, CacheStep, Zenon
<1> QED
  BY <1>12, Zenon DEF c2, m2

\* A fee goes from the ledger to the cache, by AddFee.
LEMMA FeeStep ==
  ASSUME NEW t, NEW c, NEW m, NEW n, NEW f, NEW x, NEW z, Correct(t, c, m, n, f, x, z),
         NEW p \in Property, NEW fee \in Nat, NEW u \in Tallied, ExodusHolds(u),
         TalliedTokens(u, p) = TalliedTokens(t, p) - fee,
         \A q \in Property \ {p} : TalliedTokens(u, q) = TalliedTokens(t, q),
         NEW e, e = AddFee(u, c[p], p, m[p], Len(f), fee)
  PROVE  /\ Correct(e.tally, [c EXCEPT ![p] = e.history], m, n, f, x, z)
         /\ \A k \in TallyKey : e.tally[k] >= u[k]
<1> DEFINE b == Len(f)
           c2 == [c EXCEPT ![p] = e.history]
<1>1. /\ IsHistory(c[p]) /\ GetCachedAmount(c[p]) \in Nat /\ b \in Nat
      /\ "crash" \notin x => NotBefore(c[p], b)
      /\ x = {} => "crash" \notin x
      /\ TalliedTokens(t, p) \in Nat /\ m[p] \in Nat
      /\ getTotalTokens(t, c[p], p) \in Nat
  BY CacheFacts, Zenon
<1>2. TalliedTokens(u, p) \in Nat
  BY TotalType, Zenon
<1>3. /\ Books(u, c[p], p, b, fee, e)
      /\ NotBefore(c[p], b) /\ m[p] >= 1 => GetCachedAmount(e.history) < m[p]
  BY <1>1, ExodusOwns, AddFeeBooks, Zenon
<1>4. p \in DOMAIN c /\ c2[p] = e.history /\ c2 = [c EXCEPT ![p] = c2[p]]
      /\ m \in [Property -> Nat] /\ n = Issue(n, p, 0)
  BY DEF Correct, Typed, Issue
<1>5. e.tally \in Tallied /\ ExodusHolds(e.tally)
  <2>1. <<exodus, MSC, BALANCE>> \in TallyKey
    BY FeesAssumption, FeeCacheAssumption, Zenon DEF MSC, TallyKey, TallyType
  <2>2. /\ e.tally \in Tallied /\ u[<<exodus, MSC, BALANCE>>] \in Nat
        /\ e.tally[<<exodus, MSC, BALANCE>>] \in Nat
        /\ e.tally[<<exodus, MSC, BALANCE>>] >= u[<<exodus, MSC, BALANCE>>]
    BY <1>3, <2>1, Zenon DEF Books, Tallied
  <2> QED
    BY <2>2 DEF ExodusHolds
<1>6. "crash" \notin x => getTotalTokens(e.tally, e.history, p) = getTotalTokens(u, c[p], p) + fee
  BY <1>1, <1>3, Zenon DEF Books
<1>7. "crash" \notin x => getTotalTokens(e.tally, c2[p], p) = getTotalTokens(t, c[p], p) + 0
  BY <1>1, <1>2, <1>4, <1>6 DEF getTotalTokens
<1>8. x = {} => /\ m[p] = Threshold(getTotalTokens(e.tally, c2[p], p))
                /\ GetCachedAmount(c2[p]) < m[p]
  <2> SUFFICES ASSUME x = {}
               PROVE  /\ m[p] = Threshold(getTotalTokens(e.tally, c2[p], p))
                      /\ GetCachedAmount(c2[p]) < m[p]
    BY Zenon
  <2>1. m[p] = Threshold(getTotalTokens(t, c[p], p))
    BY Zenon DEF Correct, UpToDate
  <2>2. m[p] >= 1
    BY <1>1, <2>1, ThresholdType, Zenon
  <2>3. getTotalTokens(e.tally, c2[p], p) = getTotalTokens(t, c[p], p)
    BY <1>1, <1>7
  <2> QED
    BY <1>1, <1>3, <1>4, <2>1, <2>2, <2>3, Zenon
<1>9. /\ IsHistory(c2[p]) /\ DOMAIN c2[p] \subseteq DOMAIN c[p] \cup {Len(f)}
      /\ SameBefore(c2[p], c[p], Len(f)) /\ NoMoreBefore(c2[p], c[p], Len(f))
      /\ \A q \in Property \ {p} : TalliedTokens(e.tally, q) = TalliedTokens(t, q)
  BY <1>3, <1>4, Zenon DEF Books
<1> HIDE DEF c2
<1>10. CacheMove(t, c, m, f, x, p, 0, e.tally, c2, m)
  BY <1>4, <1>5, <1>7, <1>8, <1>9, Zenon DEF CacheMove
<1>11. Correct(e.tally, c2, m, n, f, x, z)
  BY <1>4, <1>10, CacheStep
<1> QED
  BY <1>3, <1>11, Zenon DEF c2, Books

\* The ledger is saved at the end of a block.
LEMMA SaveStep ==
  ASSUME NEW t, NEW c, NEW m, NEW n, NEW f, NEW x, NEW z, Correct(t, c, m, n, f, x, z),
         NEW g, g = Append(f, [tally |-> t, issued |-> n])
  PROVE  Correct(t, c, m, n, g, x, z)
<1> DEFINE file == [tally |-> t, issued |-> n]
<1>1. /\ f \in Seq(SavedFile) /\ Len(f) \in Nat /\ Len(f) >= 1 /\ file \in SavedFile
      /\ file.tally = t /\ file.issued = n
  BY DEF Correct, Typed, SavedFile
<1>2. /\ g \in Seq(SavedFile) /\ Len(g) = Len(f) + 1
      /\ g[Len(f) + 1] = file /\ \A j \in 1..Len(f) : g[j] = f[j]
  <2> HIDE DEF file
  <2>1. g = Append(f, file)
    BY Zenon DEF file
  <2> QED
    BY <1>1, <2>1
<1> HIDE DEF file
<1>3. \A j \in 1..Len(g) : j \in 1..Len(f) \/ j = Len(f) + 1
  BY <1>1, <1>2
<1>4. Typed(t, c, m, n, g)
  <2>1. \A j \in 1..Len(g) : ExodusHolds(g[j].tally)
    BY <1>1, <1>2, <1>3, Zenon DEF Correct, Typed
  <2> QED
    BY <1>1, <1>2, <2>1 DEF Correct, Typed
<1>5. InOrder(c, g, x)
  <2> SUFFICES ASSUME "crash" \notin x, NEW p \in Property PROVE NotBefore(c[p], Len(g))
    BY Zenon DEF InOrder
  <2>1. NotBefore(c[p], Len(f)) /\ IsHistory(c[p])
    BY CacheFacts, Zenon
  <2> QED
    BY <1>1, <1>2, <2>1 DEF NotBefore, IsHistory
<1>6. Balanced(t, c, n, g, x, z)
  <2> SUFFICES ASSUME "crash" \notin x, NEW p \in Property
               PROVE  /\ Accounted(getTotalTokens(t, c[p], p), n[p], Exact(z, p))
                      /\ \A j \in 1..Len(g) : SavedBalance(g[j], c[p], p, j, z)
    BY Zenon DEF Balanced
  <2>1. /\ Accounted(getTotalTokens(t, c[p], p), n[p], Exact(z, p))
        /\ \A j \in 1..Len(f) : SavedBalance(f[j], c[p], p, j, z)
    BY Zenon DEF Correct, Balanced
  <2>2. CachedBefore(c[p], Len(f) + 1) = GetCachedAmount(c[p])
    <3>1. NotBefore(c[p], Len(f)) /\ IsHistory(c[p])
      BY CacheFacts, Zenon
    <3>2. \A b \in DOMAIN c[p] : b < Len(f) + 1
      BY <1>1, <3>1 DEF NotBefore, IsHistory
    <3>3. Len(f) + 1 \in Nat
      BY <1>1
    <3>4. RollBackCache(c[p], Len(f) + 1) = c[p]
      BY <3>1, <3>2, <3>3, RollBackEffect, Zenon
    <3> QED
      BY <3>4, Zenon DEF CachedBefore
  <2>3. SavedBalance(g[Len(f) + 1], c[p], p, Len(f) + 1, z)
    BY <1>1, <1>2, <2>1, <2>2, Zenon DEF SavedBalance, Accounted, getTotalTokens
  <2> QED
    BY <1>2, <1>3, <2>1, <2>3, Zenon
<1> QED
  BY <1>4, <1>5, <1>6, Zenon DEF Correct

\* The files of the first blocks, and the ledger of the last of them.
Loaded(f, b, g) ==
  /\ b \in Nat /\ g \in Seq(SavedFile) /\ Len(g) = b /\ \A j \in 1..b : g[j] = f[j]
  /\ f[b].tally \in Tallied /\ ExodusHolds(f[b].tally) /\ f[b].issued \in [Property -> Int]
  /\ \A j \in 1..b : ExodusHolds(g[j].tally) /\ j \in 1..Len(f)

\* The saved ledger of a block and the ones before it.
LEMMA LoadFacts ==
  ASSUME NEW t, NEW c, NEW m, NEW n, NEW f, NEW x, NEW z, Correct(t, c, m, n, f, x, z),
         NEW b \in 1..Len(f), NEW g, g = SubSeq(f, 1, b)
  PROVE  Loaded(f, b, g)
<1>1. f \in Seq(SavedFile) /\ Len(f) \in Nat /\ b \in Nat /\ 1 <= b /\ b <= Len(f)
  BY DEF Correct, Typed
<1>2. g \in Seq(SavedFile) /\ Len(g) = b /\ \A j \in 1..b : g[j] = f[j]
  BY <1>1
<1>3. f[b] \in SavedFile
  BY <1>1
<1>4. \A j \in 1..b : j \in 1..Len(f)
  BY <1>1
<1>5. \A j \in 1..Len(f) : ExodusHolds(f[j].tally)
  BY Zenon DEF Correct, Typed
<1> QED
  BY <1>1, <1>2, <1>3, <1>4, <1>5, Zenon DEF Loaded, SavedFile

\* A fault has happened.
AfterFault(x, x2) == x \subseteq x2 /\ x2 # {}

RolledBack(c, b) == [p \in Property |-> RollBackCache(c[p], b)]

\* z2 has in addition to z the properties whose cache has become empty.
NowEmptied(z, c, c2, z2) ==
  \A p \in Property : p \notin z2 => p \notin z /\ (DOMAIN c2[p] = {} => DOMAIN c[p] = {})

\* A reorganization rolls the caches back to the ledger it loads.
LEMMA RewindStep ==
  ASSUME NEW t, NEW c, NEW m, NEW n, NEW f, NEW x, NEW z, Correct(t, c, m, n, f, x, z),
         NEW b \in 1..Len(f), NEW g, g = SubSeq(f, 1, b),
         NEW c2, c2 = RolledBack(c, b), NEW x2, AfterFault(x, x2), NEW z2, NowEmptied(z, c, c2, z2)
  PROVE  Correct(f[b].tally, c2, m, f[b].issued, g, x2, z2)
<1>1. /\ b \in Nat /\ g \in Seq(SavedFile) /\ Len(g) = b /\ \A j \in 1..b : g[j] = f[j]
      /\ f[b].tally \in Tallied /\ ExodusHolds(f[b].tally) /\ f[b].issued \in [Property -> Int]
      /\ \A j \in 1..b : ExodusHolds(g[j].tally) /\ j \in 1..Len(f)
  <2>1. Loaded(f, b, g)
    BY LoadFacts, Zenon
  <2> QED
    BY <2>1, Zenon DEF Loaded
<1>2. ASSUME NEW p \in Property
      PROVE  /\ c2[p] = RollBackCache(c[p], b) /\ IsHistory(c2[p])
             /\ \A d \in DOMAIN c2[p] : d < b /\ d \in DOMAIN c[p]
             /\ \A j \in Nat : j <= b => RollBackCache(c2[p], j) = RollBackCache(c[p], j)
  <2>1. IsHistory(c[p]) /\ c2[p] = RollBackCache(c[p], b)
    BY CacheFacts, Zenon DEF RolledBack
  <2> QED
    BY <1>1, <2>1, RollBackEffect
<1>3. Typed(f[b].tally, c2, m, f[b].issued, g)
  <2>1. m \in [Property -> Nat] /\ c2 = [p \in Property |-> c2[p]]
    BY Zenon DEF Correct, Typed, RolledBack
  <2> QED
    BY <1>1, <1>2, <2>1 DEF Typed
<1>4. InOrder(c2, g, x2)
  <2>1. \A p \in Property : NotBefore(c2[p], b)
    <3> SUFFICES ASSUME NEW p \in Property, NEW d \in DOMAIN c2[p] PROVE d <= b
      BY Zenon DEF NotBefore
    <3>1. d < b /\ d \in Nat
      BY <1>2, Zenon DEF IsHistory
    <3> QED
      BY <1>1, <3>1
  <2> QED
    BY <1>1, <2>1, Zenon DEF InOrder
<1>5. Balanced(f[b].tally, c2, f[b].issued, g, x2, z2)
  <2> SUFFICES ASSUME "crash" \notin x2, NEW p \in Property
               PROVE  /\ Accounted(getTotalTokens(f[b].tally, c2[p], p), f[b].issued[p], Exact(z2, p))
                      /\ \A j \in 1..b : SavedBalance(g[j], c2[p], p, j, z2)
    BY <1>1, Zenon DEF Balanced
  <2>1. \A j \in 1..Len(f) : SavedBalance(f[j], c[p], p, j, z)
    BY Zenon DEF Correct, Balanced, AfterFault
  <2>2. ASSUME NEW j \in Nat, j <= b
        PROVE  /\ CachedBefore(c2[p], j) = CachedBefore(c[p], j)
               /\ Exact(z2, p) /\ Determined(c2[p], j) => Exact(z, p) /\ Determined(c[p], j)
    <3>1. RollBackCache(c2[p], j) = RollBackCache(c[p], j)
      BY <1>2, <2>2, Zenon
    <3>2. ~msc_debug_fees \/ (p \notin z2 => p \notin z /\ (DOMAIN c2[p] = {} => DOMAIN c[p] = {}))
      BY Zenon DEF NowEmptied
    <3> QED
      BY <3>1, <3>2, Zenon DEF CachedBefore, Exact, Determined
  <2>3. ASSUME NEW j \in 1..b PROVE SavedBalance(g[j], c2[p], p, j, z2)
    <3>1. j \in Nat /\ j <= b
      BY <1>1
    <3> QED
      BY <1>1, <2>1, <2>2, <3>1, Zenon DEF SavedBalance, Accounted
  <2>4. Accounted(getTotalTokens(f[b].tally, c2[p], p), f[b].issued[p], Exact(z2, p))
    <3>1. b <= b /\ b \in Nat /\ b \in 1..b
      BY <1>1
    <3>2. SavedBalance(g[b], c2[p], p, b, z2)
      BY <2>3, <3>1, Zenon
    <3>3. CachedBefore(c2[p], b) = GetCachedAmount(c2[p])
      BY <1>2, <2>2, <3>1, Zenon DEF CachedBefore
    <3>4. Determined(c2[p], b)
      BY <1>2, <3>1, Zenon DEF Determined
    <3> QED
      BY <1>1, <3>1, <3>2, <3>3, <3>4, Zenon DEF SavedBalance, Accounted, getTotalTokens
  <2> QED
    BY <2>3, <2>4, Zenon
<1>6. UpToDate(f[b].tally, c2, m, x2)
  BY Zenon DEF UpToDate, AfterFault
<1> QED
  BY <1>3, <1>4, <1>5, <1>6, Zenon DEF Correct

\* A restart between blocks loads the ledger there is, and forgets the thresholds.
LEMMA RestartStep ==
  ASSUME NEW t, NEW c, NEW m, NEW n, NEW f, NEW x, NEW z, Correct(t, c, m, n, f, x, z), t = f[Len(f)].tally,
         \A p \in Property : Len(f) \notin DOMAIN c[p],
         NEW m2, m2 = [p \in Property |-> 0], NEW x2, AfterFault(x, x2)
  PROVE  Correct(t, c, m2, f[Len(f)].issued, SubSeq(f, 1, Len(f)), x2, z)
<1>1. f \in Seq(SavedFile) /\ Len(f) \in Nat /\ Len(f) >= 1 /\ f[Len(f)] \in SavedFile
  BY DEF Correct, Typed
<1>2. SubSeq(f, 1, Len(f)) = f
  BY <1>1
<1>3. Typed(t, c, m2, f[Len(f)].issued, f)
  BY <1>1, Zenon DEF Correct, Typed, SavedFile
<1>4. InOrder(c, f, x2)
  BY Zenon DEF Correct, InOrder, AfterFault
<1>5. Balanced(t, c, f[Len(f)].issued, f, x2, z)
  <2> SUFFICES ASSUME "crash" \notin x2, NEW p \in Property
               PROVE  /\ Accounted(getTotalTokens(t, c[p], p), f[Len(f)].issued[p], Exact(z, p))
                      /\ \A j \in 1..Len(f) : SavedBalance(f[j], c[p], p, j, z)
    BY Zenon DEF Balanced
  <2>1. \A j \in 1..Len(f) : SavedBalance(f[j], c[p], p, j, z)
    BY Zenon DEF Correct, Balanced, AfterFault
  <2>2. RollBackCache(c[p], Len(f)) = c[p]
    <3>1. IsHistory(c[p]) /\ NotBefore(c[p], Len(f))
      BY CacheFacts, Zenon DEF AfterFault
    <3>2. \A d \in DOMAIN c[p] : d < Len(f)
      BY <1>1, <3>1 DEF IsHistory, NotBefore
    <3> QED
      BY <1>1, <3>1, <3>2, RollBackEffect, Zenon
  <2>3. Len(f) \in 1..Len(f)
    BY <1>1
  <2>4. Determined(c[p], Len(f)) /\ CachedBefore(c[p], Len(f)) = GetCachedAmount(c[p])
    BY <2>2, Zenon DEF Determined, CachedBefore
  <2> QED
    BY <2>1, <2>3, <2>4, Zenon DEF getTotalTokens, SavedBalance, Accounted
<1>6. UpToDate(t, c, m2, x2)
  BY Zenon DEF UpToDate, AfterFault
<1> QED
  BY <1>2, <1>3, <1>4, <1>5, <1>6, Zenon DEF Correct

\* After a crash the caches are what they were.
LEMMA CrashStep ==
  ASSUME NEW t, NEW c, NEW m, NEW n, NEW f, NEW x, NEW z, Correct(t, c, m, n, f, x, z),
         NEW b \in 1..Len(f), NEW g, g = SubSeq(f, 1, b),
         NEW m2, m2 = [p \in Property |-> 0], NEW x2, "crash" \in x2, NEW z2
  PROVE  Correct(f[b].tally, c, m2, f[b].issued, g, x2, z2)
<1>1. /\ b \in Nat /\ g \in Seq(SavedFile) /\ Len(g) = b /\ \A j \in 1..b : g[j] = f[j]
      /\ f[b].tally \in Tallied /\ ExodusHolds(f[b].tally) /\ f[b].issued \in [Property -> Int]
      /\ \A j \in 1..b : ExodusHolds(g[j].tally) /\ j \in 1..Len(f)
  <2>1. Loaded(f, b, g)
    BY LoadFacts, Zenon
  <2> QED
    BY <2>1, Zenon DEF Loaded
<1>2. Typed(f[b].tally, c, m2, f[b].issued, g)
  BY <1>1 DEF Correct, Typed
<1> QED
  BY <1>2, Zenon DEF Correct, InOrder, Balanced, UpToDate

-----------------------------------------------------------------------------
(* Every step keeps the invariant *)

\* Debiting or crediting the balance of an address leaves the Exodus address its tokens.
LEMMA UpdateBalance ==
  ASSUME NEW t \in Tallied, ExodusHolds(t), NEW a \in Address, NEW p \in Property, NEW n \in Int,
         t[<<a, p, BALANCE>>] + n \in Nat, a = exodus => n >= 0,
         NEW u, u = update_tally_map(t, a, p, n, BALANCE)
  PROVE  /\ u \in Tallied /\ ExodusHolds(u)
         /\ u[<<a, p, BALANCE>>] = t[<<a, p, BALANCE>>] + n
         /\ \A k \in TallyKey \ {<<a, p, BALANCE>>} : u[k] = t[k]
         /\ TalliedTokens(u, p) = TalliedTokens(t, p) + n
         /\ \A q \in Property \ {p} : TalliedTokens(u, q) = TalliedTokens(t, q)
<1>1. BALANCE \in TallyType
  BY Zenon DEF TallyType
<1>2. /\ u \in Tallied
      /\ u[<<a, p, BALANCE>>] = t[<<a, p, BALANCE>>] + n
      /\ \A k \in TallyKey \ {<<a, p, BALANCE>>} : u[k] = t[k]
      /\ TalliedTokens(u, p) = TalliedTokens(t, p) + n
      /\ \A q \in Property \ {p} : TalliedTokens(u, q) = TalliedTokens(t, q)
  BY <1>1, UpdateEffect
<1>3. ExodusHolds(u)
  <2> DEFINE k == <<exodus, MSC, BALANCE>>
  <2>1. k \in TallyKey /\ t[k] \in Nat
    BY <1>1, FeesAssumption, FeeCacheAssumption, Zenon DEF MSC, TallyKey, Tallied
  <2>2. CASE k = <<a, p, BALANCE>>
    <3>1. u[k] = t[k] + n /\ a = exodus
      BY <1>2, <2>2, Zenon
    <3> QED
      BY <2>1, <3>1 DEF ExodusHolds
  <2>3. CASE k # <<a, p, BALANCE>>
    BY <1>2, <2>1, <2>3, Zenon DEF ExodusHolds
  <2> QED
    BY <2>2, <2>3, Zenon
<1> QED
  BY <1>2, <1>3, Zenon

\* What the invariant says of the ledger.
LEMMA LedgerFacts ==
  ASSUME FeeInv
  PROVE  /\ mp_tally \in Tallied /\ ExodusHolds(mp_tally)
         /\ \A a \in Address, p \in Property : Balance(a, p) = mp_tally[<<a, p, BALANCE>>] /\ Balance(a, p) \in Nat
         /\ \A a \in Senders : a \in Address /\ a # exodus
         /\ MSC \in Property
         /\ \A n \in Amounts : n \in Nat
<1>1. mp_tally \in Tallied /\ ExodusHolds(mp_tally)
  BY Zenon DEF FeeInv, Correct, Typed
<1>2. \A a \in Address, p \in Property : Balance(a, p) = mp_tally[<<a, p, BALANCE>>] /\ Balance(a, p) \in Nat
  BY <1>1, Zenon DEF Balance, GetTokenBalance, Tallied, TallyKey, TallyType
<1> QED
  BY <1>1, <1>2, FeesAssumption, FeeCacheAssumption, Zenon DEF MSC

\* Tokens granted or revoked, or fee tokens burned or issued.
LEMMA NotifyCorrect ==
  ASSUME FeeInv, NEW p \in Property, NEW d \in Int, NEW u \in Tallied, ExodusHolds(u),
         TalliedTokens(u, p) = TalliedTokens(mp_tally, p) + d,
         \A q \in Property \ {p} : TalliedTokens(u, q) = TalliedTokens(mp_tally, q),
         NotifyTotalTokensChanged(u, p), issued' = Issue(issued, p, d)
  PROVE  Correct(mp_tally', feecache', distributionThresholds', issued', stateFiles, faults, emptied)
<1> DEFINE threshold == Threshold(getTotalTokens(u, feecache[p], p))
           e == EvalCache(u, feecache[p], p, threshold, Len(stateFiles))
<1>1. /\ mp_tally' = e.tally
      /\ feecache' = [feecache EXCEPT ![p] = e.history]
      /\ distributionThresholds' = [distributionThresholds EXCEPT ![p] = threshold]
  BY Zenon DEF NotifyTotalTokensChanged, Becomes, block
<1>2. PICK i : i = issued'
  BY Zenon
<1>3. Correct(mp_tally, feecache, distributionThresholds, issued, stateFiles, faults, emptied)
  BY Zenon DEF FeeInv
<1>4. PICK h : h = threshold
  BY Zenon
<1>5. PICK r : r = e
  BY Zenon
<1>6. h = Threshold(getTotalTokens(u, feecache[p], p)) /\ r = EvalCache(u, feecache[p], p, h, Len(stateFiles))
  BY <1>4, <1>5, Zenon
<1> HIDE DEF e, threshold
<1>7. Correct(r.tally, [feecache EXCEPT ![p] = r.history], [distributionThresholds EXCEPT ![p] = h],
              i, stateFiles, faults, emptied)
  BY <1>2, <1>3, <1>6, NotifyStep, Zenon
<1> QED
  BY <1>1, <1>2, <1>4, <1>5, <1>7, Zenon

\* The fee of a trade leaves the balance and enters the cache.
LEMMA TradingFeeCorrect ==
  ASSUME FeeInv, NEW a \in Senders, NEW p \in Property, NEW fee \in Amounts, TradingFee(a, p, fee)
  PROVE  FeeInv'
<1> DEFINE u == update_tally_map(mp_tally, a, p, -fee, BALANCE)
           e == AddFee(u, feecache[p], p, distributionThresholds[p], Len(stateFiles), fee)
<1>1. /\ mp_tally' = e.tally /\ feecache' = [feecache EXCEPT ![p] = e.history]
      /\ UNCHANGED <<distributionThresholds, issued, stateFiles, faults, emptied>> /\ Balance(a, p) >= fee
  BY Zenon DEF TradingFee, Becomes, block
<1>2. /\ mp_tally \in Tallied /\ ExodusHolds(mp_tally) /\ a \in Address /\ a # exodus /\ fee \in Nat
      /\ mp_tally[<<a, p, BALANCE>>] \in Nat /\ mp_tally[<<a, p, BALANCE>>] >= fee
  BY <1>1, LedgerFacts, Zenon
<1>3. -fee \in Int /\ mp_tally[<<a, p, BALANCE>>] + (-fee) \in Nat
  BY <1>2
<1>4. /\ u \in Tallied /\ ExodusHolds(u) /\ TalliedTokens(u, p) = TalliedTokens(mp_tally, p) + (-fee)
      /\ \A q \in Property \ {p} : TalliedTokens(u, q) = TalliedTokens(mp_tally, q)
  BY <1>2, <1>3, UpdateBalance
<1>5. TalliedTokens(u, p) = TalliedTokens(mp_tally, p) - fee
  <2>1. TalliedTokens(mp_tally, p) \in Nat
    BY <1>2, TotalType, Zenon
  <2> QED
    BY <1>2, <1>4, <2>1, Zenon
<1>6. Correct(mp_tally, feecache, distributionThresholds, issued, stateFiles, faults, emptied)
  BY Zenon DEF FeeInv
<1> HIDE DEF u
<1>7. Correct(e.tally, [feecache EXCEPT ![p] = e.history], distributionThresholds, issued, stateFiles, faults, emptied)
  BY <1>2, <1>4, <1>5, <1>6, FeeStep, Zenon
<1> HIDE DEF e
<1> QED
  BY <1>1, <1>7, Zenon DEF FeeInv

\* A grant raises the tokens issued, and the threshold with them.
LEMMA GrantCorrect ==
  ASSUME FeeInv, NEW a \in Senders, NEW p \in Property, NEW amount \in Amounts,
         logicMath_GrantTokens(a, p, amount)
  PROVE  FeeInv'
<1> DEFINE u == update_tally_map(mp_tally, a, p, amount, BALANCE)
<1>1. /\ mp_tally \in Tallied /\ ExodusHolds(mp_tally) /\ a \in Address /\ amount \in Int
      /\ mp_tally[<<a, p, BALANCE>>] + amount \in Nat /\ amount >= 0
  BY LedgerFacts
<1>2. /\ u \in Tallied /\ ExodusHolds(u) /\ TalliedTokens(u, p) = TalliedTokens(mp_tally, p) + amount
      /\ \A q \in Property \ {p} : TalliedTokens(u, q) = TalliedTokens(mp_tally, q)
  BY <1>1, UpdateBalance
<1>3. /\ NotifyTotalTokensChanged(u, p) /\ issued' = Issue(issued, p, amount)
      /\ UNCHANGED <<stateFiles, faults, emptied>>
  BY Zenon DEF logicMath_GrantTokens, Issue
<1> HIDE DEF u
<1>4. Correct(mp_tally', feecache', distributionThresholds', issued', stateFiles, faults, emptied)
  BY <1>1, <1>2, <1>3, NotifyCorrect, Zenon
<1> QED
  BY <1>3, <1>4, Zenon DEF FeeInv

\* A revocation lowers both; what the cache holds too much then is distributed.
LEMMA RevokeCorrect ==
  ASSUME FeeInv, NEW a \in Senders, NEW p \in Property, NEW amount \in Amounts,
         logicMath_RevokeTokens(a, p, amount)
  PROVE  FeeInv'
<1> DEFINE u == update_tally_map(mp_tally, a, p, -amount, BALANCE)
<1>1. /\ mp_tally \in Tallied /\ ExodusHolds(mp_tally) /\ a \in Address /\ a # exodus
      /\ amount \in Nat /\ -amount \in Int /\ mp_tally[<<a, p, BALANCE>>] + (-amount) \in Nat
  BY LedgerFacts DEF logicMath_RevokeTokens
<1>2. /\ u \in Tallied /\ ExodusHolds(u) /\ TalliedTokens(u, p) = TalliedTokens(mp_tally, p) + (-amount)
      /\ \A q \in Property \ {p} : TalliedTokens(u, q) = TalliedTokens(mp_tally, q)
  BY <1>1, UpdateBalance
<1>3. /\ NotifyTotalTokensChanged(u, p) /\ issued' = [issued EXCEPT ![p] = @ - amount]
      /\ UNCHANGED <<stateFiles, faults, emptied>>
  BY Zenon DEF logicMath_RevokeTokens
<1>4. issued' = Issue(issued, p, -amount)
  BY <1>1, <1>3, Zenon DEF FeeInv, Correct, Typed, Issue
<1> HIDE DEF u
<1>5. Correct(mp_tally', feecache', distributionThresholds', issued', stateFiles, faults, emptied)
  BY <1>1, <1>2, <1>3, <1>4, NotifyCorrect, Zenon
<1> QED
  BY <1>3, <1>5, Zenon DEF FeeInv

\* The sender pays the receivers.
LEMMA SentEffect ==
  ASSUME NEW t \in Tallied, ExodusHolds(t), NEW a \in Address, a # exodus, NEW p \in Property,
         NEW r, DOMAIN r \subseteq Address, r \in [DOMAIN r -> Nat], Sum(r) \in Nat,
         t[<<a, p, BALANCE>>] >= Sum(r),
         NEW w, w = Pay(update_tally_map(t, a, p, -Sum(r), BALANCE), p, r)
  PROVE  /\ w \in Tallied /\ ExodusHolds(w)
         /\ \A q \in Property : TalliedTokens(w, q) = TalliedTokens(t, q)
<1> DEFINE n == Sum(r)
           u == update_tally_map(t, a, p, -n, BALANCE)
           k == <<exodus, MSC, BALANCE>>
<1>1. /\ n \in Nat /\ -n \in Int /\ t[<<a, p, BALANCE>>] \in Nat
      /\ t[<<a, p, BALANCE>>] + (-n) \in Nat
  <2>1. t[<<a, p, BALANCE>>] \in Nat
    BY HoldingType, Zenon DEF TallyType
  <2> HIDE DEF n
  <2>2. n \in Nat /\ t[<<a, p, BALANCE>>] >= n
    BY Zenon DEF n
  <2> QED
    BY <2>1, <2>2
<1> HIDE DEF n
<1>2. /\ u \in Tallied /\ ExodusHolds(u)
      /\ TalliedTokens(u, p) = TalliedTokens(t, p) + (-n)
      /\ \A q \in Property \ {p} : TalliedTokens(u, q) = TalliedTokens(t, q)
  BY <1>1, UpdateBalance
<1>3. w = Pay(u, p, r)
  BY Zenon DEF n
<1> HIDE DEF u
<1>4. /\ w \in Tallied /\ \A kk \in TallyKey : w[kk] >= u[kk]
      /\ TalliedTokens(w, p) = TalliedTokens(u, p) + n
      /\ \A q \in Property \ {p} : TalliedTokens(w, q) = TalliedTokens(u, q)
  BY <1>2, <1>3, PayEffect DEF n
<1>5. ExodusHolds(w)
  <2>1. k \in TallyKey /\ u[k] \in Nat /\ w[k] \in Nat
    BY <1>2, <1>4, FeesAssumption, FeeCacheAssumption, Zenon DEF MSC, TallyKey, TallyType, Tallied
  <2>2. w[k] >= u[k] /\ u[k] > 0
    BY <1>2, <1>4, <2>1, Zenon DEF ExodusHolds
  <2> QED
    BY <2>1, <2>2 DEF ExodusHolds
<1>6. TalliedTokens(w, p) = TalliedTokens(t, p)
  <2>1. TalliedTokens(t, p) \in Nat
    BY TotalType, Zenon
  <2> QED
    BY <1>1, <1>2, <1>4, <2>1
<1>7. \A q \in Property \ {p} : TalliedTokens(w, q) = TalliedTokens(t, q)
  BY <1>2, <1>4, Zenon
<1> QED
  BY <1>4, <1>5, <1>6, <1>7, Zenon

\* AddFee returns a ledger and a cache.
LEMMA AddFeeRecord ==
  ASSUME NEW t, NEW h, NEW p, NEW m, NEW b, NEW fee, NEW e, e = AddFee(t, h, p, m, b, fee), NEW w
  PROVE  [e EXCEPT !.tally = w].tally = w /\ [e EXCEPT !.tally = w].history = e.history
<1>1. PICK x, y : e = [tally |-> x, history |-> y]
  BY Zenon DEF AddFee, EvalCache, DistributeCache
<1> QED
  BY <1>1, Zenon

\* Send to owners pays its fee, and then as much as it takes from the sender.
LEMMA SendToOwnersCorrect ==
  ASSUME FeeInv, NEW a \in Senders, NEW p \in Property, NEW to \in Property, NEW amount \in Amounts,
         NEW version \in {0, 1}, logicMath_SendToOwners(a, p, to, amount, version)
  PROVE  FeeInv'
<1> DEFINE r == STO_GetReceivers(mp_tally, a, to, amount)
           fee == feePerOwner[version] * Cardinality(DOMAIN r)
           charged == update_tally_map(mp_tally, a, MSC, -fee, BALANCE)
           cached == AddFee(charged, feecache[MSC], MSC, distributionThresholds[MSC], Len(stateFiles), fee)
           Sent(t) == Pay(update_tally_map(t, a, p, -Sum(r), BALANCE), p, r)
<1>1. /\ Balance(a, p) >= amount /\ DOMAIN r # {}
      /\ Balance(a, MSC) >= fee + IF p = MSC THEN amount ELSE 0
      /\ \/ /\ NotifyTotalTokensChanged(Sent(charged), MSC)
            /\ issued' = [issued EXCEPT ![MSC] = @ - fee]
         \/ /\ Becomes(MSC, [cached EXCEPT !.tally = Sent(cached.tally)])
            /\ UNCHANGED <<distributionThresholds, issued>>
      /\ UNCHANGED <<stateFiles, faults, emptied>>
  BY Zenon DEF logicMath_SendToOwners, block, MSC
<1>2. /\ mp_tally \in Tallied /\ ExodusHolds(mp_tally) /\ a \in Address /\ a # exodus /\ MSC \in Property
      /\ amount \in Nat
      /\ Balance(a, p) = mp_tally[<<a, p, BALANCE>>] /\ Balance(a, p) \in Nat
      /\ Balance(a, MSC) = mp_tally[<<a, MSC, BALANCE>>] /\ Balance(a, MSC) \in Nat
  BY LedgerFacts, Zenon
<1>3. DOMAIN r \subseteq Address /\ r \in [DOMAIN r -> Nat] /\ Sum(r) = amount
  <2> HIDE DEF r
  <2>1. /\ DOMAIN r \subseteq Owners(mp_tally, a, to) /\ r \in [DOMAIN r -> Nat]
        /\ Owners(mp_tally, a, to) # {} => Sum(r) = amount
    BY <1>2, ReceiversShare, Zenon DEF r
  <2> QED
    BY <1>1, <2>1, Zenon DEF Owners
<1>4. fee \in Nat
  <2>1. IsFiniteSet(DOMAIN r)
    BY <1>3, AddressAssumption, FS_Subset, Zenon
  <2>2. Cardinality(DOMAIN r) \in Nat
    BY <2>1, FS_CardinalityType, Zenon
  <2>3. feePerOwner[version] \in Nat
    BY FeeCacheAssumption, Zenon
  <2> HIDE DEF r
  <2> QED
    BY <2>2, <2>3, ProductFacts, Zenon
<1> HIDE DEF r, fee
<1>5. mp_tally[<<a, MSC, BALANCE>>] + (-fee) \in Nat /\ -fee \in Int
  BY <1>1, <1>2, <1>4
<1>6. /\ charged \in Tallied /\ ExodusHolds(charged)
      /\ charged[<<a, MSC, BALANCE>>] = mp_tally[<<a, MSC, BALANCE>>] + (-fee)
      /\ \A k \in TallyKey \ {<<a, MSC, BALANCE>>} : charged[k] = mp_tally[k]
      /\ TalliedTokens(charged, MSC) = TalliedTokens(mp_tally, MSC) + (-fee)
      /\ \A q \in Property \ {MSC} : TalliedTokens(charged, q) = TalliedTokens(mp_tally, q)
  BY <1>2, <1>5, UpdateBalance
<1> HIDE DEF charged
<1>7. charged[<<a, p, BALANCE>>] \in Nat /\ charged[<<a, p, BALANCE>>] >= Sum(r)
  <2>1. <<a, p, BALANCE>> \in TallyKey
    BY <1>2, Zenon DEF TallyKey, TallyType
  <2>2. CASE p = MSC
    BY <1>1, <1>2, <1>3, <1>4, <1>6, <2>2
  <2>3. CASE p # MSC
    BY <1>1, <1>2, <1>3, <1>6, <2>1, <2>3, Zenon
  <2> QED
    BY <2>2, <2>3, Zenon
<1>8. CASE /\ NotifyTotalTokensChanged(Sent(charged), MSC)
           /\ issued' = [issued EXCEPT ![MSC] = @ - fee]
  <2>1. /\ Sent(charged) \in Tallied /\ ExodusHolds(Sent(charged))
        /\ \A q \in Property : TalliedTokens(Sent(charged), q) = TalliedTokens(charged, q)
    BY <1>2, <1>3, <1>6, <1>7, SentEffect
  <2>2. issued' = Issue(issued, MSC, -fee)
    BY <1>2, <1>4, <1>8, Zenon DEF FeeInv, Correct, Typed, Issue
  <2>3. PICK u : u = Sent(charged)
    BY Zenon
  <2> HIDE DEF Sent
  <2>4. /\ u \in Tallied /\ ExodusHolds(u) /\ NotifyTotalTokensChanged(u, MSC)
        /\ TalliedTokens(u, MSC) = TalliedTokens(mp_tally, MSC) + (-fee)
        /\ \A q \in Property \ {MSC} : TalliedTokens(u, q) = TalliedTokens(mp_tally, q)
    BY <1>2, <1>6, <1>8, <2>1, <2>3, Zenon
  <2>5. Correct(mp_tally', feecache', distributionThresholds', issued', stateFiles, faults, emptied)
    BY <1>2, <1>5, <2>2, <2>4, NotifyCorrect, Zenon
  <2> QED
    BY <1>1, <2>5, Zenon DEF FeeInv
<1>9. CASE /\ Becomes(MSC, [cached EXCEPT !.tally = Sent(cached.tally)])
           /\ UNCHANGED <<distributionThresholds, issued>>
  <2>1. Correct(mp_tally, feecache, distributionThresholds, issued, stateFiles, faults, emptied)
    BY Zenon DEF FeeInv
  <2>2. /\ charged \in Tallied /\ ExodusHolds(charged) /\ MSC \in Property /\ fee \in Nat
        /\ TalliedTokens(charged, MSC) = TalliedTokens(mp_tally, MSC) - fee
        /\ \A q \in Property \ {MSC} : TalliedTokens(charged, q) = TalliedTokens(mp_tally, q)
    <3>1. TalliedTokens(mp_tally, MSC) \in Nat
      BY <1>2, TotalType, Zenon
    <3> QED
      BY <1>2, <1>4, <1>6, <3>1, Zenon
  <2>3. PICK e : e = cached
    BY Zenon
  <2>4. /\ Correct(e.tally, [feecache EXCEPT ![MSC] = e.history], distributionThresholds, issued,
                   stateFiles, faults, emptied)
        /\ \A k \in TallyKey : e.tally[k] >= charged[k]
    BY <2>1, <2>2, <2>3, FeeStep, Zenon
  <2>5. e.tally \in Tallied /\ ExodusHolds(e.tally)
    BY <2>4, Zenon DEF Correct, Typed
  <2>6. e.tally[<<a, p, BALANCE>>] >= Sum(r) /\ Sum(r) \in Nat
    <3>1. <<a, p, BALANCE>> \in TallyKey
      BY <1>2, Zenon DEF TallyKey, TallyType
    <3>2. e.tally[<<a, p, BALANCE>>] \in Nat
      BY <2>5, <3>1, Zenon DEF Tallied
    <3> QED
      BY <1>2, <1>3, <1>7, <2>4, <3>1, <3>2
  <2>7. PICK w : w = Sent(e.tally)
    BY Zenon
  <2>8. /\ w \in Tallied /\ ExodusHolds(w)
        /\ \A q \in Property : TalliedTokens(w, q) = TalliedTokens(e.tally, q)
    BY <1>2, <1>3, <2>5, <2>6, <2>7, SentEffect
  <2>9. mp_tally' = w /\ feecache' = [feecache EXCEPT ![MSC] = e.history]
    <3>1. [e EXCEPT !.tally = w].tally = w /\ [e EXCEPT !.tally = w].history = e.history
      BY <2>3, AddFeeRecord
    <3>2. Becomes(MSC, [e EXCEPT !.tally = w])
      <4> HIDE DEF cached, Sent
      <4> QED
        BY <1>9, <2>3, <2>7, Zenon
    <3> QED
      BY <3>1, <3>2, Zenon DEF Becomes
  <2> HIDE DEF cached, Sent
  <2>10. Correct(w, [feecache EXCEPT ![MSC] = e.history], distributionThresholds, issued, stateFiles, faults, emptied)
    BY <2>4, <2>8, TransferStep, Zenon
  <2> QED
    BY <1>1, <1>9, <2>9, <2>10, Zenon DEF FeeInv
<1> QED
  BY <1>1, <1>8, <1>9, Zenon

\* The end of a block issues fee tokens and saves the ledger.
LEMMA BlockEndCorrect ==
  ASSUME FeeInv, NEW delta \in Delta, BlockEnd(delta)
  PROVE  FeeInv'
<1>1. Correct(mp_tally', feecache', distributionThresholds', issued', stateFiles, faults, emptied)
  <2>1. CASE delta < 0
    <3>1. UNCHANGED <<mp_tally, feecache, distributionThresholds, issued>>
      BY <2>1, FeeCacheAssumption DEF BlockEnd
    <3> QED
      BY <3>1, Zenon DEF FeeInv
  <2>2. CASE ~(delta < 0)
    <3> DEFINE u == update_tally_map(mp_tally, exodus, MSC, delta, BALANCE)
    <3>1. /\ mp_tally \in Tallied /\ ExodusHolds(mp_tally) /\ exodus \in Address /\ MSC \in Property
          /\ delta \in Int /\ delta >= 0 /\ mp_tally[<<exodus, MSC, BALANCE>>] + delta \in Nat
      BY <2>2, LedgerFacts, FeeCacheAssumption
    <3>2. /\ u \in Tallied /\ ExodusHolds(u) /\ TalliedTokens(u, MSC) = TalliedTokens(mp_tally, MSC) + delta
          /\ \A q \in Property \ {MSC} : TalliedTokens(u, q) = TalliedTokens(mp_tally, q)
      BY <3>1, UpdateBalance
    <3>3. NotifyTotalTokensChanged(u, MSC) /\ issued' = Issue(issued, MSC, delta)
      BY <2>2, Zenon DEF BlockEnd, MSC, Issue
    <3> HIDE DEF u
    <3> QED
      BY <3>1, <3>2, <3>3, NotifyCorrect, Zenon
  <2> QED
    BY <2>1, <2>2, Zenon
<1>2. stateFiles' = Append(stateFiles, [tally |-> mp_tally', issued |-> issued'])
      /\ UNCHANGED <<faults, emptied>>
  BY Zenon DEF BlockEnd
<1>3. Correct(mp_tally', feecache', distributionThresholds', issued', stateFiles', faults, emptied)
  BY <1>1, <1>2, SaveStep, Zenon
<1> QED
  BY <1>2, <1>3, Zenon DEF FeeInv

\* A reorganization takes over a saved ledger.
LEMMA RewindCorrect ==
  ASSUME FeeInv, NEW next \in 1..block, RewindDBsAndState(next)
  PROVE  FeeInv'
<1>1. /\ mp_tally' = stateFiles[next].tally /\ issued' = stateFiles[next].issued
      /\ stateFiles' = SubSeq(stateFiles, 1, next)
      /\ feecache' = RolledBack(feecache, next) /\ distributionThresholds' = distributionThresholds
      /\ AfterFault(faults, faults') /\ next \in 1..Len(stateFiles)
  BY Zenon DEF RewindDBsAndState, Load, RolledBack, AfterFault, block
<1>2. Correct(mp_tally, feecache, distributionThresholds, issued, stateFiles, faults, emptied)
  BY Zenon DEF FeeInv
<1>3. NowEmptied(emptied, feecache, feecache', emptied')
  <2> SUFFICES ASSUME NEW p \in Property, p \notin emptied'
               PROVE  p \notin emptied /\ (DOMAIN feecache'[p] = {} => DOMAIN feecache[p] = {})
    BY Zenon DEF NowEmptied
  <2>1. /\ p \notin emptied /\ (feecache[p] = EmptyMap \/ feecache'[p] # EmptyMap)
        /\ feecache'[p] = RollBackCache(feecache[p], next)
    BY Zenon DEF RewindDBsAndState
  <2>2. DOMAIN EmptyMap = {}
    BY Zenon DEF EmptyMap
  <2>3. DOMAIN feecache'[p] = {} => feecache'[p] = EmptyMap
    <3>1. PICK h : h = feecache'[p] /\ h = RollBackCache(feecache[p], next)
      BY <2>1, Zenon
    <3>2. h = [b \in DOMAIN h |-> h[b]]
      BY <3>1, Zenon DEF RollBackCache, Restrict
    <3>3. ASSUME DOMAIN h = {} PROVE h = EmptyMap
      BY <3>2, <3>3 DEF EmptyMap
    <3> QED
      BY <3>1, <3>3, Zenon
  <2> QED
    BY <2>1, <2>2, <2>3, Zenon
<1>4. Correct(stateFiles[next].tally, feecache', distributionThresholds, stateFiles[next].issued,
              stateFiles', faults', emptied')
  BY <1>1, <1>2, <1>3, RewindStep, Zenon
<1> QED
  BY <1>1, <1>4, Zenon DEF FeeInv

\* A restart between blocks takes over the last one.
LEMMA RestartCorrect ==
  ASSUME FeeInv, Restart
  PROVE  FeeInv'
<1> DEFINE b == Len(stateFiles)
<1>1. /\ mp_tally' = stateFiles[b].tally /\ issued' = stateFiles[b].issued
      /\ stateFiles' = SubSeq(stateFiles, 1, b) /\ feecache' = feecache
      /\ distributionThresholds' = [p \in Property |-> 0] /\ AfterFault(faults, faults')
      /\ mp_tally = stateFiles[b].tally /\ emptied' = emptied
      /\ \A p \in Property : b \notin DOMAIN feecache[p]
  BY Zenon DEF Restart, Load, BetweenBlocks, AfterFault, block
<1>2. Correct(mp_tally, feecache, distributionThresholds, issued, stateFiles, faults, emptied)
  BY Zenon DEF FeeInv
<1>3. Correct(mp_tally, feecache, distributionThresholds', stateFiles[Len(stateFiles)].issued,
              SubSeq(stateFiles, 1, Len(stateFiles)), faults', emptied)
  BY <1>1, <1>2, RestartStep, Zenon
<1> QED
  BY <1>1, <1>3, Zenon DEF FeeInv

\* A crash takes over one that was flushed.
LEMMA CrashCorrect ==
  ASSUME FeeInv, NEW next \in 1..block, Crash(next)
  PROVE  FeeInv'
<1>1. /\ mp_tally' = stateFiles[next].tally /\ issued' = stateFiles[next].issued
      /\ stateFiles' = SubSeq(stateFiles, 1, next) /\ feecache' = feecache
      /\ distributionThresholds' = [p \in Property |-> 0]
      /\ "crash" \in faults' /\ next \in 1..Len(stateFiles)
  BY Zenon DEF Crash, Load, block
<1>2. Correct(mp_tally, feecache, distributionThresholds, issued, stateFiles, faults, emptied)
  BY Zenon DEF FeeInv
<1>3. Correct(stateFiles[next].tally, feecache, distributionThresholds', stateFiles[next].issued,
              stateFiles', faults', emptied')
  BY <1>1, <1>2, CrashStep, Zenon
<1> QED
  BY <1>1, <1>3, Zenon DEF FeeInv

\* The invariant holds at the start.
LEMMA InitCorrect == Init => FeeInv
<1> SUFFICES ASSUME Init PROVE FeeInv
  BY Zenon
<1>1. mp_tally \in Tallied /\ ExodusHolds(mp_tally)
  BY FeeCacheAssumption, MaxIntAssumption DEF Init, TallyMap, Tallied, Amount, ExodusHolds, MSC
<1>2. ASSUME NEW p \in Property
      PROVE  /\ feecache[p] = EmptyMap /\ IsHistory(feecache[p]) /\ GetCachedAmount(feecache[p]) = 0
             /\ TalliedTokens(mp_tally, p) \in Nat /\ DOMAIN feecache[p] = {}
  <2>1. feecache[p] = EmptyMap /\ DOMAIN feecache[p] = {}
    BY Zenon DEF Init, EmptyMap
  <2>2. IsHistory(feecache[p])
    BY <2>1, FS_EmptySet, Zenon DEF IsHistory, EmptyMap
  <2>3. TalliedTokens(mp_tally, p) \in Nat
    BY <1>1, TotalType, Zenon
  <2> QED
    BY <2>1, <2>2, <2>3, Zenon DEF GetCachedAmount
<1>3. ASSUME NEW p \in Property
      PROVE  /\ getTotalTokens(mp_tally, feecache[p], p) = TalliedTokens(mp_tally, p)
             /\ CurrentThreshold(p) \in Nat /\ CurrentThreshold(p) >= 1
             /\ CachedBefore(feecache[p], 1) = 0
  <2>1. getTotalTokens(mp_tally, feecache[p], p) = TalliedTokens(mp_tally, p)
    BY <1>2 DEF getTotalTokens
  <2>2. CurrentThreshold(p) \in Nat /\ CurrentThreshold(p) >= 1
    BY <1>2, <2>1, ThresholdType, Zenon DEF CurrentThreshold
  <2>3. RollBackCache(feecache[p], 1) = feecache[p]
    BY <1>2, RollBackEffect, Zenon
  <2> QED
    BY <1>2, <2>1, <2>2, <2>3, Zenon DEF CachedBefore
<1>4. /\ stateFiles \in Seq(SavedFile) /\ Len(stateFiles) = 1
      /\ stateFiles[1].tally = mp_tally /\ stateFiles[1].issued = issued
      /\ issued \in [Property -> Int] /\ \A p \in Property : issued[p] = TalliedTokens(mp_tally, p)
  <2>1. issued \in [Property -> Int] /\ \A p \in Property : issued[p] = TalliedTokens(mp_tally, p)
    BY <1>2 DEF Init
  <2>2. [tally |-> mp_tally, issued |-> issued] \in SavedFile
    BY <1>1, <2>1, Zenon DEF SavedFile
  <2> QED
    BY <2>1, <2>2 DEF Init
<1>5. Typed(mp_tally, feecache, distributionThresholds, issued, stateFiles)
  <2>1. feecache = [p \in Property |-> feecache[p]]
    BY Zenon DEF Init
  <2>2. distributionThresholds \in [Property -> Nat]
    BY <1>3, Zenon DEF Init
  <2> QED
    BY <1>1, <1>2, <1>4, <2>1, <2>2 DEF Typed
<1>6. InOrder(feecache, stateFiles, faults)
  BY <1>2, Zenon DEF InOrder, NotBefore
<1>7. Balanced(mp_tally, feecache, issued, stateFiles, faults, emptied)
  <2>1. ASSUME NEW p \in Property
        PROVE  /\ Accounted(getTotalTokens(mp_tally, feecache[p], p), issued[p], Exact(emptied, p))
               /\ SavedBalance(stateFiles[1], feecache[p], p, 1, emptied)
    <3>1. TalliedTokens(mp_tally, p) \in Nat
      BY <1>2, Zenon
    <3> QED
      BY <1>3, <1>4, <3>1 DEF Accounted, SavedBalance
  <2> QED
    BY <1>4, <2>1 DEF Balanced
<1>8. UpToDate(mp_tally, feecache, distributionThresholds, faults)
  BY <1>2, <1>3 DEF Init, UpToDate, CurrentThreshold
<1> QED
  BY <1>5, <1>6, <1>7, <1>8, Zenon DEF FeeInv, Correct

\* Every step keeps it.
LEMMA NextCorrect == FeeInv /\ [Next]_vars => FeeInv'
<1> SUFFICES ASSUME FeeInv, [Next]_vars PROVE FeeInv'
  BY Zenon
<1>1. CASE UNCHANGED vars
  BY <1>1, Zenon DEF vars, FeeInv
<1>2. ASSUME NEW a \in Senders, NEW p \in Property, NEW amount \in Amounts, TradingFee(a, p, amount) PROVE FeeInv'
  BY <1>2, TradingFeeCorrect, Zenon
<1>3. ASSUME NEW a \in Senders, NEW p \in Property, NEW amount \in Amounts,
             logicMath_GrantTokens(a, p, amount)
      PROVE  FeeInv'
  BY <1>3, GrantCorrect, Zenon
<1>4. ASSUME NEW a \in Senders, NEW p \in Property, NEW amount \in Amounts,
             logicMath_RevokeTokens(a, p, amount)
      PROVE  FeeInv'
  BY <1>4, RevokeCorrect, Zenon
<1>5. ASSUME NEW a \in Senders, NEW p \in Property, NEW amount \in Amounts, NEW to \in Property,
             NEW version \in {0, 1}, logicMath_SendToOwners(a, p, to, amount, version)
      PROVE  FeeInv'
  BY <1>5, SendToOwnersCorrect, Zenon
<1>6. ASSUME NEW delta \in Delta, BlockEnd(delta) PROVE FeeInv'
  BY <1>6, BlockEndCorrect, Zenon
<1>7. ASSUME NEW next \in 1..block, RewindDBsAndState(next) PROVE FeeInv'
  BY <1>7, RewindCorrect, Zenon
<1>8. ASSUME NEW next \in 1..block, Crash(next) PROVE FeeInv'
  BY <1>8, CrashCorrect, Zenon
<1>9. CASE Restart
  BY <1>9, RestartCorrect, Zenon
<1> QED
  BY <1>1, <1>2, <1>3, <1>4, <1>5, <1>6, <1>7, <1>8, <1>9, Zenon DEF Next

-----------------------------------------------------------------------------
(* Theorems *)

\* The invariant always holds.
LEMMA AlwaysCorrect == Spec => []FeeInv
BY InitCorrect, NextCorrect, PTL DEF Spec

\* The assertions after SendToOwners and DistributeCache never fail: whatever
\* the balances, the shares of the owners add up to the amount to send.
THEOREM SharesAlwaysAddUp == Spec => []SharesAddUp
<1>1. FeeInv => SharesAddUp
  <2> SUFFICES ASSUME FeeInv, NEW p \in Property, NEW sender \in Senders \cup {NoSender}, NEW amount \in Amounts,
                      NEW a \in Address \ {sender}, Holding(mp_tally, a, p) > 0
               PROVE  Sum(STO_GetReceivers(mp_tally, sender, p, amount)) = amount
    BY Zenon DEF SharesAddUp
  <2>1. mp_tally \in Tallied /\ amount \in Nat
    BY LedgerFacts, Zenon
  <2>2. a \in Owners(mp_tally, sender, p)
    BY Zenon DEF Owners
  <2>3. PICK r : r = STO_GetReceivers(mp_tally, sender, p, amount)
    BY Zenon
  <2>4. Owners(mp_tally, sender, p) # {} => Sum(r) = amount
    BY <2>1, <2>3, ReceiversShare, Zenon
  <2> QED
    BY <2>2, <2>3, <2>4, Zenon
<1> QED
  BY <1>1, AlwaysCorrect, PTL

\* Fees that have reached the threshold are never left in the cache by a node
\* that has run without a reorganization or a restart.
THEOREM CacheStaysBelowThreshold == Spec => []BelowThreshold
<1>1. FeeInv => BelowThreshold
  BY Zenon DEF FeeInv, Correct, UpToDate, BelowThreshold, CurrentThreshold
<1> QED
  BY <1>1, AlwaysCorrect, PTL

\* Fees are neither lost nor made by a node that has not crashed, however deep
\* the reorganizations, whether it prunes the cache, as it does by default, or
\* not: but for properties of which a rollback has dropped the last entry, and
\* there nothing is made.
THEOREM FeesConserved == Spec => []Conserved
<1>1. FeeInv => Conserved
  BY Zenon DEF FeeInv, Correct, Balanced, Accounted, Exact, Conserved
<1> QED
  BY <1>1, AlwaysCorrect, PTL

=============================================================================
