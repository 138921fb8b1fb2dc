-------------------------- MODULE CrowdsaleProofs ---------------------------
(***************************************************************************)
(* Proofs about Crowdsale, for every value of its constants.               *)
(*                                                                         *)
(* Invariant, the invariant by induction, says of every running sale that  *)
(* it has counted exactly the tokens there are of its property, and that   *)
(* the data kept adds up to what was counted; of every property sold       *)
(* before, that its tokens are those in the data and the ones missed; of   *)
(* every identifier not used yet, that there are no tokens of it.  The     *)
(* totals are needed for the maximum to be kept, for the last purchase to  *)
(* leave nothing, and for the end of a sale to have room for the tokens    *)
(* missed.                                                                 *)
(*                                                                         *)
(* A purchase keeps it: what it creates fits, is counted, and closes the   *)
(* sale if nothing is left.  The end of a sale, by hand or by deadline,    *)
(* credits the issuer with what rounding has withheld and keeps the other  *)
(* sales in order.  The theorems follow from the invariant.                *)
(***************************************************************************)
EXTENDS Crowdsale, LedgerLemmas

-----------------------------------------------------------------------------
(* Arithmetic *)

\* The assertion of calculateFundraiser: what is left is divided between the user
\* and the issuer, the issuer's part is no more than all of it, and both parts
\* together are all of it.  The precision has to exceed what is left for that.
LEMMA ShareFits ==
  ASSUME NEW full \in [user : Nat, issuer : Nat], NEW M \in 1..MAX_INT,
         full.user + full.issuer > M
  PROVE  /\ Share(full, M) \in [user : 0..M, issuer : 0..M]
         /\ Share(full, M).user + Share(full, M).issuer = M
<1> DEFINE U == full.user
           I == full.issuer
           P == PRECISION * SATOSHI
           r == ((U + I) * P) \div M
           i == (I * P) \div r
<1>1. U \in Nat /\ I \in Nat /\ M \in Nat \ {0} /\ U + I >= M + 1
  BY MaxIntAssumption
<1>2. PRECISION \in Nat /\ SATOSHI \in Nat
  BY CrowdsaleAssumption, ProductFacts, Zenon DEF PRECISION
<1>3. P \in Nat /\ P > M
  BY <1>1, <1>2, CrowdsaleAssumption, MaxIntAssumption, ProductFacts
<1>4. (U + I) * PRECISION * SATOSHI = (U + I) * P /\ I * PRECISION * SATOSHI = I * P
  BY <1>1, <1>2
<1>5. Share(full, M) = [user |-> M - i, issuer |-> i]
  BY <1>4, Zenon DEF Share
<1> HIDE DEF U, I, P
<1>6. (U + I) * P \in Nat /\ I * P \in Nat /\ U * P \in Nat /\ (U + I) * P = U * P + I * P
  BY <1>1, <1>3
<1>7. P * M <= (U + I) * P
  BY <1>1, <1>3, ProductMonotone, ProductFacts
<1>8. r \in Nat /\ P <= r /\ (U + I) * P < M * r + M
  BY <1>1, <1>3, <1>6, <1>7, DivBounds, DivFacts, Zenon
<1> HIDE DEF r
<1>9. I * P < (M + 1) * r
  BY <1>1, <1>3, <1>6, <1>8
<1>10. i \in Nat /\ i <= M
  BY <1>1, <1>3, <1>6, <1>8, <1>9, DivBounds, DivFacts
<1> HIDE DEF i
<1> QED
  BY <1>1, <1>5, <1>10

-----------------------------------------------------------------------------
(* The data of purchases *)

\* The totals of the purchases of a sale.
LEMMA DataTotals ==
  ASSUME NEW d \in Seq(Data), NEW part \in {"user", "issuer"}
  PROVE  /\ Total(d, part) \in Nat
         /\ d = <<>> => Total(d, part) = 0
         /\ \A e \in Data : Total(Append(d, e), part) = Total(d, part) + e[part]
<1> DEFINE f == [i \in DOMAIN d |-> d[i][part]]
<1>1. \A e \in Data : e[part] \in Nat
  BY MaxIntAssumption DEF Data, Amount
<1>2. DOMAIN d = 1..Len(d) /\ Len(d) \in Nat /\ \A i \in 1..Len(d) : d[i] \in Data
  OBVIOUS
<1>3. f \in [1..Len(d) -> Nat]
  BY <1>1, <1>2, Zenon
<1>4. IsFiniteSet(1..Len(d))
  BY <1>2, FS_Interval
<1>5. Total(d, part) = Sum(f)
  BY Zenon DEF Total
<1>6. Sum(f) \in Nat /\ (d = <<>> => Sum(f) = 0)
  <2> HIDE DEF f
  <2>1. d = <<>> => \A i \in 1..Len(d) : f[i] = 0
    OBVIOUS
  <2> QED
    BY <1>3, <1>4, <2>1, SumType, SumZero, Zenon
<1>7. ASSUME NEW e \in Data PROVE Total(Append(d, e), part) = Sum(f) + e[part]
  <2> DEFINE b == Append(d, e)
             g == [i \in DOMAIN b |-> b[i][part]]
             n == Len(d) + 1
  <2>1. /\ DOMAIN b = (1..Len(d)) \cup {n} /\ n \notin 1..Len(d)
        /\ b[n] = e /\ \A i \in 1..Len(d) : b[i] = d[i]
    BY <1>2
  <2>2. /\ g \in [(1..Len(d)) \cup {n} -> Nat] /\ g[n] = e[part]
        /\ \A i \in 1..Len(d) : g[i] = f[i]
    <3> HIDE DEF b, n
    <3> QED
      BY <1>1, <1>2, <2>1, Zenon
  <2>3. Total(b, part) = Sum(g)
    BY Zenon DEF Total
  <2> DEFINE S == 1..Len(d)
             v == e[part]
  <2>4. /\ IsFiniteSet(S) /\ f \in [S -> Nat] /\ n \notin S /\ v \in Nat
        /\ g \in [S \cup {n} -> Nat] /\ g[n] = v /\ \A i \in S : g[i] = f[i]
    <3> HIDE DEF f, g, b, n
    <3> QED
      BY <1>1, <1>3, <1>4, <2>1, <2>2, Zenon
  <2> HIDE DEF f, g, b, n, S, v
  <2>5. Sum(g) = Sum(f) + v
    BY <2>4, SumExtend
  <2> QED
    BY <2>3, <2>5, Zenon DEF b, v
<1> HIDE DEF f
<1> QED
  BY <1>5, <1>6, <1>7, Zenon

-----------------------------------------------------------------------------
(* The inductive invariant *)

InTime(database, deadline) == \A i \in DOMAIN database : database[i].time <= deadline

\* What holds of the sale of an address, in a block with the time now.
Running(s, now, a) ==
  /\ s.crowds[a].propertyId \in DOMAIN s.sps
  /\ s.sps[s.crowds[a].propertyId].issuer = a
  /\ s.sps[s.crowds[a].propertyId].closed = "no"
  /\ s.sps[s.crowds[a].propertyId].missedTokens = 0
  /\ s.sps[s.crowds[a].propertyId].deadline = s.crowds[a].deadline
  /\ now <= s.crowds[a].deadline
  /\ InTime(s.crowds[a].database, s.crowds[a].deadline)
  /\ s.crowds[a].u_created = Total(s.crowds[a].database, "user")
  /\ s.crowds[a].i_created = Total(s.crowds[a].database, "issuer")
  /\ TalliedTokens(s.tally, s.crowds[a].propertyId) = s.crowds[a].u_created + s.crowds[a].i_created

\* What holds of a property that a sale created.
Recorded(s, p) ==
  /\ InTime(s.sps[p].historicalData, s.sps[p].deadline)
  /\ s.sps[p].closed = "no" => \E a \in DOMAIN s.crowds : s.crowds[a].propertyId = p
  /\ s.sps[p].closed # "no" =>
       TalliedTokens(s.tally, p)
         = Total(s.sps[p].historicalData, "user") + Total(s.sps[p].historicalData, "issuer")
             + s.sps[p].missedTokens
  /\ s.sps[p].closed = "maxed" => TalliedTokens(s.tally, p) = MAX_INT

MissedOf(s, p) == IF p \in DOMAIN s.sps THEN s.sps[p].missedTokens ELSE 0

\* The values that the functions of the module work on.
IsState(s) ==
  /\ s = [tally |-> s.tally, sps |-> s.sps, crowds |-> s.crowds,
          notified |-> s.notified, untold |-> s.untold, unwound |-> s.unwound]
  /\ s.tally \in Tallied
  /\ DOMAIN s.sps \subseteq Property \ Base
  /\ s.sps \in [DOMAIN s.sps -> SPEntry]
  /\ DOMAIN s.crowds \subseteq Issuers
  /\ s.crowds \in [DOMAIN s.crowds -> Sale]
  /\ s.notified \in [Property -> Nat]
  /\ s.untold \subseteq DOMAIN manager
  /\ s.unwound \in BOOLEAN

OneSaleEach(s) ==
  \A a, b \in DOMAIN s.crowds : s.crowds[a].propertyId = s.crowds[b].propertyId => a = b

\* The sales are in order, but for what the thresholds are based on.
Sound(s, now) ==
  /\ IsState(s)
  /\ \A p \in Property : TalliedTokens(s.tally, p) <= MAX_INT
  /\ \A a \in DOMAIN s.crowds : Running(s, now, a)
  /\ OneSaleEach(s)
  /\ \A p \in DOMAIN s.sps : Recorded(s, p)
  /\ \A p \in Property \ (Base \cup DOMAIN s.sps) : TalliedTokens(s.tally, p) = 0

\* The threshold of a property is based on the right total, or on a smaller one if
\* it has not been told of a grant.
Informed(s, p) ==
  /\ p \notin s.untold => s.notified[p] = TalliedTokens(s.tally, p) - MissedOf(s, p)
  /\ p \in s.untold => s.notified[p] < TalliedTokens(s.tally, p) - MissedOf(s, p)

\* The thresholds of all properties, or all but one.
InformedBut(s, except) == \A p \in Property \ except : Informed(s, p)

Invariant ==
  /\ Sound(Now, blockTime)
  /\ InformedBut(Now, {})
  /\ blockTime \in Times
  /\ unwound \in BOOLEAN
  /\ txs \in 0..MaxTxs

\* The fields of the state as a value.
LEMMA NowFields ==
  /\ Now.tally = mp_tally /\ Now.sps = sps /\ Now.crowds = my_crowds
  /\ Now.notified = notified /\ Now.untold = untold /\ Now.unwound = FALSE
BY Zenon DEF Now

\* It has no other fields.
LEMMA NowRecord ==
  Now = [tally |-> Now.tally, sps |-> Now.sps, crowds |-> Now.crowds,
         notified |-> Now.notified, untold |-> Now.untold, unwound |-> Now.unwound]
BY Zenon DEF Now

\* A change of the ledger that leaves the totals of the properties that are, or
\* may be, sold leaves the sales in order.
LEMMA LedgerChange ==
  ASSUME NEW s, NEW now, Sound(s, now), NEW t \in Tallied,
         \A p \in Property : TalliedTokens(t, p) <= MAX_INT,
         \A p \in Property \ Base : TalliedTokens(t, p) = TalliedTokens(s.tally, p)
  PROVE  LET u == [s EXCEPT !.tally = t]
         IN  /\ Sound(u, now)
             /\ u.tally = t /\ u.sps = s.sps /\ u.crowds = s.crowds
             /\ u.notified = s.notified /\ u.untold = s.untold /\ u.unwound = s.unwound
<1> DEFINE u == [s EXCEPT !.tally = t]
<1>1. /\ u = [tally |-> u.tally, sps |-> u.sps, crowds |-> u.crowds,
              notified |-> u.notified, untold |-> u.untold, unwound |-> u.unwound]
      /\ u.tally = t /\ u.sps = s.sps /\ u.crowds = s.crowds
      /\ u.notified = s.notified /\ u.untold = s.untold /\ u.unwound = s.unwound
  BY DEF Sound, IsState
<1> HIDE DEF u
<1>2. IsState(u)
  BY <1>1, Zenon DEF Sound, IsState
<1>3. OneSaleEach(u)
  BY <1>1, Zenon DEF Sound, OneSaleEach
<1>4. ASSUME NEW a \in DOMAIN u.crowds PROVE Running(u, now, a)
  <2>1. Running(s, now, a) /\ DOMAIN s.sps \subseteq Property \ Base
    BY <1>1, <1>4, Zenon DEF Sound, IsState
  <2> QED
    BY <1>1, <2>1, Zenon DEF Running
<1>5. ASSUME NEW p \in DOMAIN u.sps PROVE Recorded(u, p)
  <2>1. Recorded(s, p) /\ p \in Property \ Base
    BY <1>1, <1>5, Zenon DEF Sound, IsState
  <2> QED
    BY <1>1, <2>1, Zenon DEF Recorded
<1>6. \A p \in Property \ (Base \cup DOMAIN u.sps) : TalliedTokens(u.tally, p) = 0
  BY <1>1, Zenon DEF Sound
<1>7. Sound(u, now)
  BY <1>1, <1>2, <1>3, <1>4, <1>5, <1>6, Zenon DEF Sound
<1> QED
  BY <1>1, <1>7, Zenon DEF u

\* Whether an exception has ended the block does not matter to the sales.
LEMMA Copied ==
  ASSUME NEW u, NEW now, Sound(u, now), InformedBut(u, {}), NEW v,
         v = [tally |-> u.tally, sps |-> u.sps, crowds |-> u.crowds, notified |-> u.notified,
              untold |-> u.untold, unwound |-> FALSE]
  PROVE  Sound(v, now) /\ InformedBut(v, {})
<1>1. /\ v.tally = u.tally /\ v.sps = u.sps /\ v.crowds = u.crowds /\ v.notified = u.notified
      /\ v.untold = u.untold /\ v.unwound = FALSE
      /\ v = [tally |-> v.tally, sps |-> v.sps, crowds |-> v.crowds, notified |-> v.notified, untold |-> v.untold, unwound |-> v.unwound]
  BY Zenon
<1>2. IsState(v)
  BY <1>1, Zenon DEF Sound, IsState
<1>3. Sound(v, now)
  BY <1>1, <1>2 DEF Sound, OneSaleEach, Running, Recorded
<1>4. InformedBut(v, {})
  BY <1>1, Zenon DEF InformedBut, Informed, MissedOf
<1> QED
  BY <1>3, <1>4, Zenon

\* The initial state.
LEMMA InitInvariant == Init => Invariant
<1> SUFFICES ASSUME Init PROVE Invariant
  BY Zenon
<1> USE DEF Init
<1>1. Initial \in Tallied
  BY CrowdsaleAssumption, MaxIntAssumption DEF TallyMap, Tallied, Amount
<1>2. \A p \in Property : TalliedTokens(Initial, p) \in Nat /\ TalliedTokens(Initial, p) <= MAX_INT
  BY <1>1, TotalType, CrowdsaleAssumption, Zenon
<1>3. DOMAIN sps = {} /\ DOMAIN my_crowds = {} /\ sps \in [DOMAIN sps -> SPEntry] /\ my_crowds \in [DOMAIN my_crowds -> Sale]
  BY Zenon DEF EmptyMap
<1>4. \A p \in Property \ Base : TalliedTokens(Initial, p) = 0
  <2> SUFFICES ASSUME NEW p \in Property \ Base PROVE Sum(Holdings(Initial, p)) = 0
    BY Zenon DEF TalliedTokens
  <2>1. \A a \in Address, ty \in TallyType : Initial[<<a, p, ty>>] = 0
    BY CrowdsaleAssumption, Zenon
  <2>2. \A a \in Address : Holdings(Initial, p)[a] = 0
    BY <2>1 DEF Holdings, Holding, GetTokenBalance, TallyType
  <2>3. Holdings(Initial, p) \in [Address -> Nat]
    BY <1>1, TotalType, Zenon
  <2> QED
    BY <2>2, <2>3, SumZero, AddressAssumption, Zenon
<1>5. untold = {} /\ notified \in [Property -> Nat] /\ \A p \in Property : notified[p] = TalliedTokens(mp_tally, p)
  BY <1>2, Zenon DEF getTotalTokens
<1>6. IsState(Now)
  BY <1>1, <1>3, <1>5, NowFields, NowRecord, Zenon DEF IsState
<1>7. Sound(Now, blockTime)
  BY <1>2, <1>3, <1>4, <1>6, NowFields, Zenon DEF Sound, OneSaleEach
<1>8. InformedBut(Now, {})
  BY <1>2, <1>3, <1>5, NowFields DEF InformedBut, Informed, MissedOf
<1>9. txs \in 0..MaxTxs
  BY CrowdsaleAssumption
<1>10. blockTime \in Times /\ unwound \in BOOLEAN
  BY Zenon
<1> QED
  BY <1>7, <1>8, <1>9, <1>10, Zenon DEF Invariant

\* The units of a property that exists are whole or divisible.
LEMMA DivisibleType ==
  ASSUME Invariant, NEW p, Exists(p)
  PROVE  isPropertyDivisible(p) \in BOOLEAN
<1>1. CASE p \in Base
  BY <1>1, Zenon DEF isPropertyDivisible
<1>2. CASE p \notin Base
  <2>1. p \in DOMAIN sps /\ sps \in [DOMAIN sps -> SPEntry]
    BY <1>2, NowFields, Zenon DEF Exists, Invariant, Sound, IsState
  <2>2. sps[p] \in SPEntry
    BY <2>1, Zenon
  <2> QED
    BY <1>2, <2>2, Zenon DEF isPropertyDivisible, SPEntry
<1> QED
  BY <1>1, <1>2, Zenon

-----------------------------------------------------------------------------
(* A purchase *)

\* Sound is about the ledger, the properties and the sales.
LEMMA SoundSame ==
  ASSUME NEW s, NEW now, Sound(s, now), NEW u, IsState(u),
         u.tally = s.tally, u.sps = s.sps, u.crowds = s.crowds
  PROVE  Sound(u, now)
<1>1. ASSUME NEW a \in DOMAIN u.crowds PROVE Running(u, now, a)
  <2>1. Running(s, now, a)
    BY <1>1, Zenon DEF Sound
  <2> QED
    BY <2>1, Zenon DEF Running
<1>2. \A p \in DOMAIN u.sps : Recorded(u, p)
  BY Zenon DEF Sound, Recorded
<1>3. OneSaleEach(u)
  BY Zenon DEF Sound, OneSaleEach
<1> QED
  BY <1>1, <1>2, <1>3, Zenon DEF Sound

\* NotifyTotalTokensChanged puts the threshold of a property right.
LEMMA NotifyEffect ==
  ASSUME NEW s, NEW now, Sound(s, now), NEW p \in Property, NEW X, InformedBut(s, X \cup {p}),
         MissedOf(s, p) = 0
  PROVE  LET u == NotifyTotalTokensChanged(s, p)
         IN  /\ Sound(u, now) /\ InformedBut(u, X)
             /\ u.tally = s.tally /\ u.sps = s.sps /\ u.crowds = s.crowds /\ u.unwound = s.unwound
<1> DEFINE v == TalliedTokens(s.tally, p)
           u == NotifyTotalTokensChanged(s, p)
<1>1. v \in Nat
  BY TotalType, Zenon DEF Sound, IsState
<1>2. /\ u = [tally |-> u.tally, sps |-> u.sps, crowds |-> u.crowds,
              notified |-> u.notified, untold |-> u.untold, unwound |-> u.unwound]
      /\ u.tally = s.tally /\ u.sps = s.sps /\ u.crowds = s.crowds
      /\ u.notified = With(s.notified, p, v) /\ u.untold = s.untold \ {p} /\ u.unwound = s.unwound
  <2> HIDE DEF v
  <2>1. u = [s EXCEPT !.notified = With(s.notified, p, v), !.untold = s.untold \ {p}]
    BY Zenon DEF NotifyTotalTokensChanged, getTotalTokens, v
  <2> QED
    BY <2>1, Zenon DEF Sound, IsState
<1> HIDE DEF u, v
<1>3. /\ u.notified \in [Property -> Nat]
      /\ u.notified[p] = v /\ \A q \in Property \ {p} : u.notified[q] = s.notified[q]
  BY <1>1, <1>2 DEF Sound, IsState, With
<1>4. IsState(u)
  BY <1>2, <1>3, Zenon DEF Sound, IsState
<1>5. Sound(u, now)
  BY <1>2, <1>4, SoundSame, Zenon
<1>6. \A q \in Property : MissedOf(u, q) = MissedOf(s, q)
  BY <1>2, Zenon DEF MissedOf
<1>7. InformedBut(u, X)
  BY <1>1, <1>2, <1>3, <1>6 DEF InformedBut, Informed, v
<1> QED
  BY <1>2, <1>5, <1>7, Zenon DEF u

\* The tokens of a purchase are natural numbers, before the maximum is considered.
LEMMA FullPurchaseType ==
  ASSUME NEW sp \in SPEntry, NEW inflate \in BOOLEAN, NEW amount \in Amounts, NEW now \in Nat
  PROVE  FullPurchase(sp, inflate, amount, now) \in [user : Nat, issuer : Nat]
<1>1. /\ SATOSHI \in Nat \ {0} /\ HUNDRED \in Nat \ {0} /\ WEEK \in Nat \ {0} /\ amount \in Nat
  BY CrowdsaleAssumption, Zenon
<1>2. HUNDRED * HUNDRED \in Nat \ {0}
  BY <1>1
<1>3. PRECISION \in Nat \ {0}
  BY <1>1, <1>2 DEF PRECISION
<1>4. /\ sp.deadline \in Nat /\ sp.early_bird \in Nat /\ sp.percentage \in Nat /\ sp.num_tokens \in Nat
  BY MaxIntAssumption DEF SPEntry
<1> DEFINE sec == IF now < sp.deadline THEN sp.deadline - now ELSE 0
           wks == BonusWeeks(sp.deadline, now)
           bon == (PRECISION * HUNDRED + wks * sp.early_bird) \div HUNDRED
           pct == (sp.percentage * PRECISION) \div HUNDRED
           unit == IF inflate THEN SATOSHI ELSE 1
           crt == amount * unit * sp.num_tokens * bon
           iss == ((crt \div SATOSHI) \div PRECISION) * (pct \div HUNDRED) * PRECISION
<1>5. sec \in Nat /\ sec % WEEK \in Nat /\ sec \div WEEK \in Nat
  <2>1. sec \in Nat
    BY <1>4
  <2> HIDE DEF sec
  <2> QED
    BY <1>1, <2>1
<1>6. wks \in Nat
  <2>1. wks = (sec \div WEEK) * PRECISION + ((sec % WEEK) * PRECISION) \div WEEK
    BY Zenon DEF BonusWeeks
  <2> DEFINE x == sec \div WEEK
             y == sec % WEEK
  <2>2. x \in Nat /\ y \in Nat
    BY <1>5, Zenon
  <2> HIDE DEF x, y
  <2>3. x * PRECISION \in Nat /\ y * PRECISION \in Nat
    BY <1>3, <2>2, ProductFacts, Zenon
  <2>4. (y * PRECISION) \div WEEK \in Nat
    BY <1>1, <2>3, DivFacts, Zenon
  <2> QED
    BY <2>1, <2>3, <2>4 DEF x, y
<1> HIDE DEF wks
<1>7. bon \in Nat
  <2>1. PRECISION * HUNDRED \in Nat /\ wks * sp.early_bird \in Nat
    BY <1>1, <1>3, <1>4, <1>6, ProductFacts, Zenon
  <2> QED
    BY <1>1, <2>1, DivFacts
<1> HIDE DEF bon
<1>8. pct \in Nat /\ pct \div HUNDRED \in Nat
  <2>1. sp.percentage * PRECISION \in Nat
    BY <1>3, <1>4, ProductFacts, Zenon
  <2>2. pct \in Nat
    BY <1>1, <2>1, DivFacts, Zenon
  <2> HIDE DEF pct
  <2> QED
    BY <1>1, <2>2, DivFacts, Zenon
<1>9. unit \in Nat
  BY <1>1, Zenon
<1> HIDE DEF pct, unit
<1>10. crt \in Nat
  <2>1. amount * unit \in Nat
    BY <1>1, <1>9, ProductFacts, Zenon
  <2>2. amount * unit * sp.num_tokens \in Nat
    BY <1>4, <2>1, ProductFacts, Zenon
  <2> QED
    BY <1>7, <2>2, ProductFacts, Zenon
<1> HIDE DEF crt
<1>11. iss \in Nat
  <2>1. crt \div SATOSHI \in Nat
    BY <1>1, <1>10, DivFacts, Zenon
  <2>2. (crt \div SATOSHI) \div PRECISION \in Nat
    BY <1>3, <2>1, DivFacts, Zenon
  <2>3. ((crt \div SATOSHI) \div PRECISION) * (pct \div HUNDRED) \in Nat
    BY <1>8, <2>2, ProductFacts, Zenon
  <2> QED
    BY <1>3, <2>3, ProductFacts, Zenon
<1> HIDE DEF iss
<1>12. (crt \div PRECISION) \div SATOSHI \in Nat
  <2>1. crt \div PRECISION \in Nat
    BY <1>3, <1>10, DivFacts, Zenon
  <2> QED
    BY <1>1, <2>1, DivFacts, Zenon
<1>13. ((iss \div PRECISION) \div SATOSHI) \div HUNDRED \in Nat
  <2>1. iss \div PRECISION \in Nat
    BY <1>3, <1>11, DivFacts, Zenon
  <2>2. (iss \div PRECISION) \div SATOSHI \in Nat
    BY <1>1, <2>1, DivFacts, Zenon
  <2> QED
    BY <1>1, <2>2, DivFacts, Zenon
<1>14. FullPurchase(sp, inflate, amount, now)
         = [user |-> (crt \div PRECISION) \div SATOSHI, issuer |-> ((iss \div PRECISION) \div SATOSHI) \div HUNDRED]
  BY Zenon DEF FullPurchase, wks, bon, pct, unit, crt, iss
<1> QED
  BY <1>12, <1>13, <1>14

\* A purchase creates amounts, which fit into the maximum, and if it asks for
\* too much exactly what is left.
LEMMA FundraiserFits ==
  ASSUME NEW full \in [user : Nat, issuer : Nat], NEW total \in Amount, ~Throws(full, total)
  PROVE  LET tokens == calculateFundraiser(full, total)
         IN  /\ tokens \in [user : Amount, issuer : Amount]
             /\ total + tokens.user + tokens.issuer <= MAX_INT
             /\ Exceeds(full, total) => total + tokens.user + tokens.issuer = MAX_INT
<1>1. full.user \in Nat /\ full.issuer \in Nat /\ total \in Nat /\ total <= MAX_INT /\ MAX_INT \in Nat
  BY MaxIntAssumption DEF Amount
<1>2. CASE Exceeds(full, total)
  <2> DEFINE M == MAX_INT - total
             sh == Share(full, M)
  <2>1. M \in 1..MAX_INT /\ full.user + full.issuer > M
    BY <1>1, <1>2 DEF Exceeds, Throws
  <2>2. calculateFundraiser(full, total) = sh
    BY <1>2, Zenon DEF calculateFundraiser
  <2>3. M = MAX_INT - total
    BY Zenon
  <2> HIDE DEF M
  <2>4. sh \in [user : 0..M, issuer : 0..M] /\ sh.user + sh.issuer = M
    BY <2>1, ShareFits, Zenon
  <2> HIDE DEF sh
  <2> QED
    BY <1>1, <2>1, <2>2, <2>3, <2>4 DEF Amount
<1>3. CASE ~Exceeds(full, total)
  <2>1. calculateFundraiser(full, total) = full
    BY <1>3, Zenon DEF calculateFundraiser
  <2> QED
    BY <1>1, <1>3, <2>1 DEF Exceeds, Amount
<1> QED
  BY <1>2, <1>3, Zenon

\* A sale that counts a purchase.
LEMMA CountEffect ==
  ASSUME NEW crowd \in Sale, NEW amount \in Amounts, NEW tokens \in [user : Amount, issuer : Amount],
         blockTime \in Times, blockTime <= crowd.deadline, InTime(crowd.database, crowd.deadline),
         crowd.u_created = Total(crowd.database, "user"),
         crowd.i_created = Total(crowd.database, "issuer"),
         crowd.u_created + crowd.i_created + tokens.user + tokens.issuer <= MAX_INT
  PROVE  LET c == Count(crowd, amount, tokens)
         IN  /\ c \in Sale
             /\ c.propertyId = crowd.propertyId /\ c.property_desired = crowd.property_desired
             /\ c.deadline = crowd.deadline
             /\ c.u_created = crowd.u_created + tokens.user
             /\ c.i_created = crowd.i_created + tokens.issuer
             /\ InTime(c.database, c.deadline)
             /\ c.u_created = Total(c.database, "user")
             /\ c.i_created = Total(c.database, "issuer")
<1> DEFINE d == crowd.database
           x == [amount |-> amount, time |-> blockTime, user |-> tokens.user, issuer |-> tokens.issuer]
           c == Count(crowd, amount, tokens)
<1>1. x \in Data /\ x.time = blockTime /\ x["user"] = tokens.user /\ x["issuer"] = tokens.issuer
  BY Zenon DEF Data
<1>2. d \in Seq(Data)
  BY Zenon DEF Sale
<1>3. c = [propertyId |-> crowd.propertyId, property_desired |-> crowd.property_desired,
           deadline |-> crowd.deadline, u_created |-> crowd.u_created + tokens.user,
           i_created |-> crowd.i_created + tokens.issuer, database |-> Append(d, x)]
  <2> HIDE DEF x
  <2>1. c = [crowd EXCEPT !.u_created = crowd.u_created + tokens.user,
                          !.i_created = crowd.i_created + tokens.issuer,
                          !.database = Append(d, x)]
    BY Zenon DEF Count, x
  <2> QED
    BY <2>1, Zenon DEF Sale
<1> HIDE DEF c, x
<1>4. Append(d, x) \in Seq(Data)
  BY <1>1, <1>2
<1>5. /\ crowd.u_created \in Amount /\ crowd.i_created \in Amount
      /\ tokens.user \in Amount /\ tokens.issuer \in Amount
  BY Zenon DEF Sale
<1>6. crowd.u_created + tokens.user \in Amount /\ crowd.i_created + tokens.issuer \in Amount
  BY <1>5, MaxIntAssumption DEF Amount
<1>7. c \in Sale
  BY <1>3, <1>4, <1>6, Zenon DEF Sale
<1>8. InTime(Append(d, x), crowd.deadline)
  <2>1. /\ DOMAIN Append(d, x) = (1..Len(d)) \cup {Len(d) + 1} /\ DOMAIN d = 1..Len(d)
        /\ Append(d, x)[Len(d) + 1] = x /\ \A j \in 1..Len(d) : Append(d, x)[j] = d[j]
    BY <1>2
  <2> QED
    BY <1>1, <2>1, Zenon DEF InTime
<1>9. /\ Total(Append(d, x), "user") = Total(d, "user") + tokens.user
      /\ Total(Append(d, x), "issuer") = Total(d, "issuer") + tokens.issuer
  BY <1>1, <1>2, DataTotals, Zenon
<1> QED
  BY <1>3, <1>7, <1>8, <1>9 DEF c

\* c is s after a purchase of tokens of property p from receiver, which the
\* threshold of p does not know of yet.
Bought(s, c, p, receiver, tokens, X) ==
  /\ Sound(c, blockTime) /\ InformedBut(c, X \cup {p})
  /\ TalliedTokens(c.tally, p) = TalliedTokens(s.tally, p) + tokens.user + tokens.issuer
  /\ c.sps = s.sps /\ c.unwound = s.unwound
  /\ receiver \in DOMAIN c.crowds /\ c.crowds[receiver].propertyId = p

\* Crediting a purchase: the total grows by the tokens of the purchase, and the
\* sale counts them.
LEMMA CreditEffect ==
  ASSUME NEW s, Sound(s, blockTime), NEW X, InformedBut(s, X), blockTime \in Times,
         NEW receiver \in DOMAIN s.crowds, NEW sender \in Address, NEW amount \in Amounts,
         NEW p, p = s.crowds[receiver].propertyId,
         NEW tokens \in [user : Amount, issuer : Amount],
         TalliedTokens(s.tally, p) + tokens.user + tokens.issuer <= MAX_INT
  PROVE  Bought(s, Credit(s, p, sender, receiver, amount, tokens), p, receiver, tokens, X)
<1> DEFINE crowd == s.crowds[receiver]
           more  == Count(crowd, amount, tokens)
           t1 == update_tally_map(s.tally, sender, p, tokens.user, BALANCE)
           t2 == update_tally_map(t1, receiver, p, tokens.issuer, BALANCE)
           c  == Credit(s, p, sender, receiver, amount, tokens)
<1>1. /\ IsState(s) /\ Running(s, blockTime, receiver) /\ crowd \in Sale
      /\ p \in DOMAIN s.sps /\ p \in Property \ Base /\ receiver \in Address
      /\ tokens.user \in Nat /\ tokens.issuer \in Nat
  BY CrowdsaleAssumption, MaxIntAssumption DEF Sound, IsState, Running, Amount
<1>2. /\ t1 \in Tallied
      /\ TalliedTokens(t1, p) = TalliedTokens(s.tally, p) + tokens.user
      /\ \A q \in Property \ {p} : TalliedTokens(t1, q) = TalliedTokens(s.tally, q)
  <2>1. s.tally \in Tallied /\ <<sender, p, BALANCE>> \in TallyKey /\ BALANCE \in TallyType
    BY <1>1, Zenon DEF IsState, TallyKey, TallyType
  <2>2. s.tally[<<sender, p, BALANCE>>] + tokens.user \in Nat
    BY <1>1, <2>1 DEF Tallied
  <2> QED
    BY <1>1, <2>1, <2>2, UpdateEffect
<1> HIDE DEF t1
<1>3. /\ t2 \in Tallied
      /\ TalliedTokens(t2, p) = TalliedTokens(t1, p) + tokens.issuer
      /\ \A q \in Property \ {p} : TalliedTokens(t2, q) = TalliedTokens(t1, q)
  <2>1. <<receiver, p, BALANCE>> \in TallyKey /\ BALANCE \in TallyType
    BY <1>1, Zenon DEF TallyKey, TallyType
  <2>2. t1[<<receiver, p, BALANCE>>] + tokens.issuer \in Nat
    BY <1>1, <1>2, <2>1 DEF Tallied
  <2> QED
    BY <1>1, <1>2, <2>1, <2>2, UpdateEffect
<1>4. /\ c = [tally |-> c.tally, sps |-> c.sps, crowds |-> c.crowds,
              notified |-> c.notified, untold |-> c.untold, unwound |-> c.unwound]
      /\ c.tally = t2 /\ c.sps = s.sps /\ c.crowds = With(s.crowds, receiver, more)
      /\ c.notified = s.notified /\ c.untold = s.untold /\ c.unwound = s.unwound
  <2> HIDE DEF t2, more
  <2>1. c = [s EXCEPT !.crowds = With(s.crowds, receiver, more), !.tally = t2]
    BY Zenon DEF Credit, t1, t2, more
  <2> QED
    BY <1>1, <2>1, Zenon DEF IsState
<1> HIDE DEF t2, c
<1>5. /\ more \in Sale
      /\ more.propertyId = p /\ more.deadline = crowd.deadline
      /\ more.u_created = crowd.u_created + tokens.user
      /\ more.i_created = crowd.i_created + tokens.issuer
      /\ InTime(more.database, more.deadline)
      /\ more.u_created = Total(more.database, "user")
      /\ more.i_created = Total(more.database, "issuer")
  <2>1. TalliedTokens(s.tally, p) = crowd.u_created + crowd.i_created
    BY <1>1, Zenon DEF Running
  <2>2. crowd.u_created + crowd.i_created + tokens.user + tokens.issuer <= MAX_INT
    BY <2>1, Zenon
  <2>3. /\ blockTime <= crowd.deadline /\ InTime(crowd.database, crowd.deadline)
        /\ crowd.u_created = Total(crowd.database, "user")
        /\ crowd.i_created = Total(crowd.database, "issuer")
    BY <1>1, Zenon DEF Running
  <2> HIDE DEF crowd
  <2>4. crowd.propertyId = p
    BY Zenon DEF crowd
  <2> QED
    BY <1>1, <2>2, <2>3, <2>4, CountEffect, Zenon
<1> HIDE DEF more
<1>6. /\ DOMAIN c.crowds = DOMAIN s.crowds
      /\ c.crowds[receiver] = more
      /\ \A a \in DOMAIN s.crowds \ {receiver} : c.crowds[a] = s.crowds[a]
      /\ c.crowds \in [DOMAIN s.crowds -> Sale]
  BY <1>1, <1>4, <1>5 DEF IsState, With
<1>7. IsState(c)
  BY <1>1, <1>3, <1>4, <1>6, Zenon DEF IsState
<1>8. \A a \in DOMAIN s.crowds : c.crowds[a].propertyId = s.crowds[a].propertyId
  BY <1>5, <1>6, Zenon
<1>9. OneSaleEach(c)
  BY <1>6, <1>8, Zenon DEF Sound, OneSaleEach
<1>10. TalliedTokens(c.tally, p) = TalliedTokens(s.tally, p) + tokens.user + tokens.issuer
  <2>1. TalliedTokens(s.tally, p) \in Nat
    BY <1>1, TotalType, Zenon DEF IsState
  <2> QED
    BY <1>1, <1>2, <1>3, <1>4, <2>1, Zenon
<1>11. \A q \in Property \ {p} : TalliedTokens(c.tally, q) = TalliedTokens(s.tally, q)
  BY <1>2, <1>3, <1>4, Zenon
<1>12. ASSUME NEW a \in DOMAIN c.crowds PROVE Running(c, blockTime, a)
  <2>1. Running(s, blockTime, a)
    BY <1>6, <1>12, Zenon DEF Sound
  <2>2. CASE a = receiver
    <3>1. crowd.u_created \in Nat /\ crowd.i_created \in Nat
      BY <1>1, MaxIntAssumption DEF Sale, Amount
    <3>2. /\ TalliedTokens(s.tally, p) = crowd.u_created + crowd.i_created
          /\ tokens.user \in Nat /\ tokens.issuer \in Nat
      BY <1>1, Zenon DEF Running
    <3>3. more.u_created = crowd.u_created + tokens.user /\ more.i_created = crowd.i_created + tokens.issuer
      BY <1>5, Zenon
    <3>4. TalliedTokens(c.tally, p) = more.u_created + more.i_created
      BY <1>10, <3>1, <3>2, <3>3
    <3> QED
      <4>1. c.crowds[a] = more /\ more.propertyId = p /\ p \in DOMAIN c.sps /\ c.sps = s.sps
        BY <1>1, <1>4, <1>5, <1>6, <2>2, Zenon
      <4>2. /\ s.sps[p].issuer = a /\ s.sps[p].closed = "no" /\ s.sps[p].missedTokens = 0
            /\ s.sps[p].deadline = more.deadline /\ blockTime <= more.deadline
        BY <1>1, <1>5, <2>2, Zenon DEF Running
      <4>3. /\ InTime(more.database, more.deadline)
            /\ more.u_created = Total(more.database, "user")
            /\ more.i_created = Total(more.database, "issuer")
        BY <1>5, Zenon
      <4> QED
        BY <3>4, <4>1, <4>2, <4>3, Zenon DEF Running
  <2>3. CASE a # receiver
    <3>1. s.crowds[a].propertyId # p /\ c.crowds[a] = s.crowds[a]
      BY <1>6, <1>12, <2>3, Zenon DEF Sound, OneSaleEach
    <3>2. s.crowds[a].propertyId \in Property
      BY <1>1, <2>1, Zenon DEF Running, IsState
    <3> QED
      BY <1>4, <1>11, <2>1, <3>1, <3>2 DEF Running
  <2> QED
    BY <2>2, <2>3, Zenon
<1>13. ASSUME NEW q \in DOMAIN c.sps PROVE Recorded(c, q)
  <2>1. Recorded(s, q) /\ q \in Property
    BY <1>1, <1>4, <1>13, Zenon DEF Sound, IsState
  <2>2. q = p => s.sps[q].closed = "no"
    BY <1>1, Zenon DEF Running
  <2>3. s.sps[q].closed # "no" => TalliedTokens(c.tally, q) = TalliedTokens(s.tally, q)
    BY <1>11, <2>1, <2>2, Zenon
  <2>4. s.sps[q].closed = "no" => \E a \in DOMAIN c.crowds : c.crowds[a].propertyId = q
    BY <1>6, <1>8, <2>1, Zenon DEF Recorded
  <2> QED
    BY <1>4, <2>1, <2>3, <2>4, Zenon DEF Recorded
<1>14. \A q \in Property : TalliedTokens(c.tally, q) <= MAX_INT
  BY <1>10, <1>11, Zenon DEF Sound
<1>15. \A q \in Property \ (Base \cup DOMAIN c.sps) : TalliedTokens(c.tally, q) = 0
  BY <1>1, <1>4, <1>11, Zenon DEF Sound
<1>16. Sound(c, blockTime)
  BY <1>7, <1>9, <1>12, <1>13, <1>14, <1>15, Zenon DEF Sound
<1>17. InformedBut(c, X \cup {p})
  BY <1>4, <1>11, Zenon DEF InformedBut, Informed, MissedOf
<1> QED
  BY <1>4, <1>5, <1>6, <1>10, <1>16, <1>17, Zenon DEF c, Bought

\* eraseMaxedCrowdsale, when every token there can be has been sold.
LEMMA MaxedEffect ==
  ASSUME NEW s, NEW now, Sound(s, now), NEW X, InformedBut(s, X), NEW a \in DOMAIN s.crowds,
         TalliedTokens(s.tally, s.crowds[a].propertyId) = MAX_INT
  PROVE  LET u == eraseMaxedCrowdsale(s, a) IN Sound(u, now) /\ InformedBut(u, X) /\ u.unwound = s.unwound
<1> DEFINE p  == s.crowds[a].propertyId
           sp == Closed(s.sps[p], s.crowds[a], "maxed", 0)
           u  == eraseMaxedCrowdsale(s, a)
<1>1. IsState(s) /\ Running(s, now, a) /\ p \in DOMAIN s.sps /\ s.sps[p] \in SPEntry /\ s.crowds[a] \in Sale
  BY Zenon DEF Sound, IsState, Running
<1>2. /\ u = [tally |-> u.tally, sps |-> u.sps, crowds |-> u.crowds,
              notified |-> u.notified, untold |-> u.untold, unwound |-> u.unwound]
      /\ u.tally = s.tally /\ u.sps = With(s.sps, p, sp) /\ u.crowds = Without(s.crowds, a)
      /\ u.notified = s.notified /\ u.untold = s.untold /\ u.unwound = s.unwound
  <2> HIDE DEF sp
  <2>1. u = [s EXCEPT !.sps = With(s.sps, p, sp), !.crowds = Without(s.crowds, a)]
    BY Zenon DEF eraseMaxedCrowdsale, sp
  <2> QED
    BY <1>1, <2>1, Zenon DEF IsState
<1> HIDE DEF u
<1>3. /\ sp \in SPEntry
      /\ sp.historicalData = s.crowds[a].database /\ sp.closed = "maxed" /\ sp.missedTokens = 0
      /\ sp.deadline = s.sps[p].deadline
  <2>1. 0 \in Amount
    BY MaxIntAssumption DEF Amount
  <2> QED
    BY <1>1, <2>1, Zenon DEF Closed, SPEntry, Sale
<1> HIDE DEF sp
<1>4. /\ DOMAIN u.sps = DOMAIN s.sps /\ u.sps[p] = sp
      /\ \A q \in DOMAIN s.sps \ {p} : u.sps[q] = s.sps[q]
      /\ u.sps \in [DOMAIN s.sps -> SPEntry]
  BY <1>1, <1>2, <1>3 DEF IsState, With
<1>5. /\ DOMAIN u.crowds = DOMAIN s.crowds \ {a}
      /\ \A b \in DOMAIN u.crowds : u.crowds[b] = s.crowds[b]
      /\ u.crowds \in [DOMAIN u.crowds -> Sale]
  BY <1>1, <1>2, Zenon DEF IsState, Without, Restrict
<1>6. IsState(u)
  BY <1>1, <1>2, <1>4, <1>5, Zenon DEF IsState
<1>7. OneSaleEach(u)
  BY <1>5, Zenon DEF Sound, OneSaleEach
<1>8. ASSUME NEW b \in DOMAIN u.crowds PROVE Running(u, now, b)
  <2>1. Running(s, now, b) /\ s.crowds[b].propertyId # p
    BY <1>5, <1>8, Zenon DEF Sound, OneSaleEach
  <2>2. s.crowds[b].propertyId \in DOMAIN s.sps \ {p}
    BY <2>1, Zenon DEF Running
  <2> QED
    BY <1>2, <1>4, <1>5, <1>8, <2>1, <2>2, Zenon DEF Running
<1>9. ASSUME NEW q \in DOMAIN u.sps PROVE Recorded(u, q)
  <2>1. Recorded(s, q)
    BY <1>4, <1>9, Zenon DEF Sound
  <2>2. CASE q = p
    <3>1. TalliedTokens(u.tally, p) = Total(sp.historicalData, "user") + Total(sp.historicalData, "issuer")
      BY <1>1, <1>2, <1>3, Zenon DEF Running
    <3>2. s.crowds[a].database \in Seq(Data)
      BY <1>1, Zenon DEF Sale
    <3>3. Total(sp.historicalData, "user") \in Nat /\ Total(sp.historicalData, "issuer") \in Nat
      BY <1>3, <3>2, DataTotals, Zenon
    <3>4. InTime(sp.historicalData, sp.deadline)
      BY <1>1, <1>3, Zenon DEF Running
    <3>5. u.sps[q] = sp /\ TalliedTokens(u.tally, q) = MAX_INT
      BY <1>2, <1>4, <2>2, Zenon
    <3>6. TalliedTokens(u.tally, q)
            = Total(sp.historicalData, "user") + Total(sp.historicalData, "issuer") + sp.missedTokens
      BY <1>3, <2>2, <3>1, <3>3
    <3> QED
      BY <1>3, <3>1, <3>3, <3>4, <3>5, <3>6, Zenon DEF Recorded
  <2>3. CASE q # p
    <3>1. u.sps[q] = s.sps[q]
      BY <1>4, <1>9, <2>3, Zenon
    <3>2. s.sps[q].closed = "no" => \E b \in DOMAIN u.crowds : u.crowds[b].propertyId = q
      BY <1>5, <2>1, <2>3 DEF Recorded
    <3> QED
      BY <1>2, <2>1, <3>1, <3>2, Zenon DEF Recorded
  <2> QED
    BY <2>2, <2>3, Zenon
<1>10. Sound(u, now)
  BY <1>2, <1>4, <1>6, <1>7, <1>8, <1>9, Zenon DEF Sound
<1>11. \A q \in Property : MissedOf(u, q) = MissedOf(s, q)
  BY <1>1, <1>3, <1>4, Zenon DEF MissedOf, Running
<1>12. InformedBut(u, X)
  BY <1>2, <1>11, Zenon DEF InformedBut, Informed
<1> QED
  BY <1>2, <1>10, <1>12, Zenon DEF u

\* What a transfer to an address leaves: sales in order, and after the exception
\* the ledger and the thresholds as they were.
Participated(s, u, X) ==
  /\ Sound(u, blockTime) /\ InformedBut(u, X) /\ DOMAIN u.sps = DOMAIN s.sps
  /\ u.unwound => u.tally = s.tally /\ u.notified = s.notified /\ u.untold = s.untold

\* A transfer to an address, whether or not it is a purchase, leaves the sales in
\* order, and so does the exception of the division by zero.
LEMMA ParticipationEffect ==
  ASSUME NEW s, Sound(s, blockTime), s.unwound = FALSE, NEW X, InformedBut(s, X), blockTime \in Times,
         NEW sender \in Address, NEW receiver \in Address, NEW property, NEW amount \in Amounts,
         isPropertyDivisible(property) \in BOOLEAN
  PROVE  Participated(s, logicHelper_CrowdsaleParticipation(s, sender, receiver, property, amount), X)
<1> DEFINE u == logicHelper_CrowdsaleParticipation(s, sender, receiver, property, amount)
           p     == s.crowds[receiver].propertyId
           inflate == ~isPropertyDivisible(property)
           full  == FullPurchase(s.sps[p], inflate, amount, blockTime)
           total == getTotalTokens(s.tally, p)
           tokens == calculateFundraiser(full, total)
           c == Credit(s, p, sender, receiver, amount, tokens)
           bought == NotifyTotalTokensChanged(c, p)
<1>1. CASE receiver \notin DOMAIN s.crowds \/ s.crowds[receiver].property_desired # property
  <2>1. u = s
    BY <1>1, Zenon DEF logicHelper_CrowdsaleParticipation
  <2> HIDE DEF u
  <2> QED
    BY <2>1, Zenon DEF u, Participated
<1>2. CASE receiver \in DOMAIN s.crowds /\ s.crowds[receiver].property_desired = property
  <2>1. u = IF Throws(full, total) THEN [s EXCEPT !.unwound = TRUE]
            ELSE IF Exceeds(full, total) THEN eraseMaxedCrowdsale(bought, receiver) ELSE bought
    BY <1>2, Zenon DEF logicHelper_CrowdsaleParticipation
  <2>2. IsState(s) /\ Running(s, blockTime, receiver) /\ p \in DOMAIN s.sps /\ p \in Property /\ s.sps[p] \in SPEntry
    BY <1>2, Zenon DEF Sound, IsState, Running
  <2>3. full \in [user : Nat, issuer : Nat]
    <3>1. inflate \in BOOLEAN /\ blockTime \in Nat
      BY CrowdsaleAssumption, Zenon
    <3> HIDE DEF inflate
    <3> QED
      BY <2>2, <3>1, FullPurchaseType, Zenon
  <2>4. total = TalliedTokens(s.tally, p) /\ total \in Amount
    BY <2>2, TotalType, MaxIntAssumption DEF Sound, IsState, getTotalTokens, Amount
  <2> HIDE DEF full, total
  <2>5. CASE Throws(full, total)
    <3>1. u = [s EXCEPT !.unwound = TRUE]
      BY <2>1, <2>5, Zenon
    <3>2. /\ u = [tally |-> u.tally, sps |-> u.sps, crowds |-> u.crowds,
                  notified |-> u.notified, untold |-> u.untold, unwound |-> u.unwound]
          /\ u.tally = s.tally /\ u.sps = s.sps /\ u.crowds = s.crowds
          /\ u.notified = s.notified /\ u.untold = s.untold /\ u.unwound = TRUE
      BY <2>2, <3>1, Zenon DEF IsState
    <3> HIDE DEF u
    <3>3. IsState(u)
      BY <2>2, <3>2, Zenon DEF IsState
    <3>4. Sound(u, blockTime)
      BY <3>2, <3>3, SoundSame, Zenon
    <3>5. InformedBut(u, X)
      BY <3>2, Zenon DEF InformedBut, Informed, MissedOf
    <3> QED
      BY <3>2, <3>4, <3>5, Zenon DEF u, Participated
  <2>6. CASE ~Throws(full, total)
    <3>1. /\ tokens \in [user : Amount, issuer : Amount]
          /\ total + tokens.user + tokens.issuer <= MAX_INT
          /\ Exceeds(full, total) => total + tokens.user + tokens.issuer = MAX_INT
      BY <2>3, <2>4, <2>6, FundraiserFits, Zenon
    <3> HIDE DEF tokens, p
    <3>2. /\ p = s.crowds[receiver].propertyId /\ receiver \in DOMAIN s.crowds
          /\ TalliedTokens(s.tally, p) + tokens.user + tokens.issuer <= MAX_INT
      BY <1>2, <2>4, <3>1, Zenon DEF p
    <3>3. /\ Sound(c, blockTime) /\ InformedBut(c, X \cup {p})
          /\ TalliedTokens(c.tally, p) = TalliedTokens(s.tally, p) + tokens.user + tokens.issuer
          /\ c.sps = s.sps /\ c.unwound = s.unwound
          /\ receiver \in DOMAIN c.crowds /\ c.crowds[receiver].propertyId = p
      <4>1. Bought(s, c, p, receiver, tokens, X)
        BY <3>1, <3>2, CreditEffect, Zenon
      <4> QED
        BY <4>1, Zenon DEF Bought
    <3>4. MissedOf(c, p) = 0
      BY <2>2, <3>2, <3>3, Zenon DEF MissedOf, Running
    <3> HIDE DEF c
    <3>5. /\ Sound(bought, blockTime) /\ InformedBut(bought, X)
          /\ bought.tally = c.tally /\ bought.sps = c.sps /\ bought.crowds = c.crowds
          /\ bought.unwound = c.unwound
      BY <2>2, <3>3, <3>4, NotifyEffect, Zenon
    <3> HIDE DEF bought
    <3>6. CASE Exceeds(full, total)
      <4>1. u = eraseMaxedCrowdsale(bought, receiver)
        BY <2>1, <2>6, <3>6, Zenon
      <4>2. TalliedTokens(bought.tally, bought.crowds[receiver].propertyId) = MAX_INT
        BY <2>4, <3>1, <3>3, <3>5, <3>6, Zenon
      <4>3. receiver \in DOMAIN bought.crowds
        BY <3>3, <3>5, Zenon
      <4>4. Sound(u, blockTime) /\ InformedBut(u, X) /\ u.unwound = bought.unwound
        BY <3>5, <4>1, <4>2, <4>3, MaxedEffect, Zenon
      <4>5. DOMAIN u.sps = DOMAIN s.sps
        <5>1. u.sps = With(bought.sps, p, Closed(bought.sps[p], bought.crowds[receiver], "maxed", 0))
          BY <3>3, <3>5, <4>1, Zenon DEF eraseMaxedCrowdsale, Sound, IsState
        <5> QED
          BY <2>2, <3>3, <3>5, <5>1, Zenon DEF With
      <4> QED
        <5>1. ~u.unwound
          BY <3>3, <3>5, <4>4, Zenon
        <5> HIDE DEF u
        <5> QED
          BY <4>4, <4>5, <5>1, Zenon DEF u, Participated
    <3>7. CASE ~Exceeds(full, total)
      <4>1. u = bought
        BY <2>1, <2>6, <3>7, Zenon
      <4> HIDE DEF u
      <4>2. ~u.unwound
        BY <3>3, <3>5, <4>1, Zenon
      <4> QED
        BY <3>3, <3>5, <4>1, <4>2, Zenon DEF u, Participated
    <3> QED
      BY <3>6, <3>7, Zenon
  <2> QED
    BY <2>5, <2>6, Zenon
<1> QED
  BY <1>1, <1>2, Zenon

-----------------------------------------------------------------------------
(* The end of sales *)

MissedBy(s, a) == GetMissedIssuerBonus(s.sps[s.crowds[a].propertyId], s.crowds[a])

SoldBy(s, issuers, p) == {a \in issuers : s.crowds[a].propertyId = p}

CreditedAt(s, issuers, k) == {a \in SoldBy(s, issuers, k[2]) : k = <<s.sps[k[2]].issuer, k[2], BALANCE>>}

\* EndSales, on the state as a value.
Ended(s, issuers, how, u) ==
  /\ u = [tally |-> u.tally, sps |-> u.sps, crowds |-> u.crowds,
          notified |-> u.notified, untold |-> u.untold, unwound |-> u.unwound]
  /\ u.tally = [k \in TallyKey |-> s.tally[k] + Sum([a \in CreditedAt(s, issuers, k) |-> MissedBy(s, a)])]
  /\ u.sps = [p \in DOMAIN s.sps |->
                IF SoldBy(s, issuers, p) = {} THEN s.sps[p]
                ELSE LET a == CHOOSE x \in SoldBy(s, issuers, p) : TRUE
                     IN  Closed(s.sps[p], s.crowds[a], how, MissedBy(s, a))]
  /\ u.crowds = Restrict(s.crowds, DOMAIN s.crowds \ issuers)
  /\ u.notified = s.notified /\ u.untold = s.untold
  /\ u.unwound \in BOOLEAN

\* What the issuer missed is an amount that there is room for.
LEMMA MissedFits ==
  ASSUME NEW sp \in SPEntry, NEW crowd \in Sale, crowd.u_created + crowd.i_created <= MAX_INT
  PROVE  /\ GetMissedIssuerBonus(sp, crowd) \in Amount
         /\ crowd.u_created + crowd.i_created + GetMissedIssuerBonus(sp, crowd) <= MAX_INT
<1> DEFINE x == crowd.u_created * sp.percentage
           b == x \div HUNDRED
<1>1. /\ crowd.u_created \in Nat /\ crowd.i_created \in Nat /\ sp.percentage \in Nat
      /\ HUNDRED \in Nat \ {0} /\ MAX_INT \in Nat
  BY CrowdsaleAssumption, MaxIntAssumption DEF Sale, SPEntry, Amount
<1>2. x \in Nat
  BY <1>1, ProductFacts, Zenon
<1> HIDE DEF x
<1>3. b \in Nat
  BY <1>1, <1>2, DivFacts, Zenon
<1> HIDE DEF b
<1>4. GetMissedIssuerBonus(sp, crowd)
        = IF b <= crowd.i_created THEN 0
          ELSE Least(b - crowd.i_created, MAX_INT - (crowd.u_created + crowd.i_created))
  BY Zenon DEF GetMissedIssuerBonus, b, x
<1> QED
  BY <1>1, <1>3, <1>4 DEF Least, Amount

\* Ending sales credits the issuers and leaves the other sales as they are.
LEMMA EndEffect ==
  ASSUME NEW s, NEW before, Sound(s, before), InformedBut(s, {}),
         NEW issuers \in SUBSET DOMAIN s.crowds, NEW how \in {"closed", "expired"},
         NEW now, \A a \in DOMAIN s.crowds \ issuers : now <= s.crowds[a].deadline,
         NEW u, Ended(s, issuers, how, u)
  PROVE  Sound(u, now) /\ InformedBut(u, {})
<1> DEFINE pid(a) == s.crowds[a].propertyId
<1>1. /\ IsState(s) /\ s.tally \in Tallied /\ OneSaleEach(s)
      /\ \A a \in DOMAIN s.crowds : Running(s, before, a) /\ s.crowds[a] \in Sale /\ a \in Address
      /\ \A p \in DOMAIN s.sps : s.sps[p] \in SPEntry /\ p \in Property \ Base
  BY CrowdsaleAssumption, Zenon DEF Sound, IsState
<1>2. \A a \in DOMAIN s.crowds : pid(a) \in DOMAIN s.sps /\ s.sps[pid(a)].issuer = a /\ pid(a) \in Property
  BY <1>1, Zenon DEF Running
<1>3. \A a \in issuers : SoldBy(s, issuers, pid(a)) = {a}
  BY <1>1, Zenon DEF SoldBy, OneSaleEach
<1>4. \A a \in DOMAIN s.crowds :
        /\ MissedBy(s, a) \in Amount /\ MissedBy(s, a) \in Nat
        /\ TalliedTokens(s.tally, pid(a)) + MissedBy(s, a) <= MAX_INT
  <2> SUFFICES ASSUME NEW a \in DOMAIN s.crowds
               PROVE  /\ MissedBy(s, a) \in Amount /\ MissedBy(s, a) \in Nat
                      /\ TalliedTokens(s.tally, pid(a)) + MissedBy(s, a) <= MAX_INT
    BY Zenon
  <2>1. TalliedTokens(s.tally, pid(a)) = s.crowds[a].u_created + s.crowds[a].i_created
    BY <1>1, Zenon DEF Running
  <2>2. s.crowds[a].u_created + s.crowds[a].i_created <= MAX_INT
    BY <1>2, <2>1 DEF Sound
  <2>3. s.sps[pid(a)] \in SPEntry /\ s.crowds[a] \in Sale
    BY <1>1, <1>2, Zenon
  <2>4. /\ MissedBy(s, a) \in Amount
        /\ s.crowds[a].u_created + s.crowds[a].i_created + MissedBy(s, a) <= MAX_INT
    BY <2>2, <2>3, MissedFits, Zenon DEF MissedBy
  <2> QED
    BY <2>1, <2>4, MaxIntAssumption DEF Amount
<1>5. ASSUME NEW k \in TallyKey, NEW a \in issuers, k = <<a, pid(a), BALANCE>>
      PROVE  u.tally[k] = s.tally[k] + MissedBy(s, a)
  <2>1. CreditedAt(s, issuers, k) = {a}
    <3>1. k[2] = pid(a) /\ k = <<s.sps[k[2]].issuer, k[2], BALANCE>>
      BY <1>2, <1>5, Zenon
    <3>2. SoldBy(s, issuers, k[2]) = {a}
      BY <1>3, <3>1, Zenon
    <3> QED
      BY <3>1, <3>2, Zenon DEF CreditedAt
  <2> DEFINE f == [b \in CreditedAt(s, issuers, k) |-> MissedBy(s, b)]
  <2>2. f \in [{a} -> Nat] /\ f[a] = MissedBy(s, a)
    BY <1>4, <2>1, Zenon
  <2>3. u.tally[k] = s.tally[k] + Sum(f)
    BY Zenon DEF Ended
  <2> HIDE DEF f
  <2>4. Sum(f) = f[a]
    BY <2>2, SumSingle, Zenon
  <2> QED
    BY <2>2, <2>3, <2>4, Zenon
<1>6. ASSUME NEW k \in TallyKey, \A a \in issuers : k # <<a, pid(a), BALANCE>>
      PROVE  u.tally[k] = s.tally[k]
  <2>1. CreditedAt(s, issuers, k) = {}
    <3> SUFFICES ASSUME NEW a \in issuers, s.crowds[a].propertyId = k[2],
                        k = <<s.sps[k[2]].issuer, k[2], BALANCE>>
                 PROVE  FALSE
      BY Zenon DEF CreditedAt, SoldBy
    <3>1. s.sps[k[2]].issuer = a /\ k[2] = pid(a)
      BY <1>2, Zenon
    <3> QED
      BY <1>6, <3>1, Zenon
  <2> DEFINE f == [b \in CreditedAt(s, issuers, k) |-> MissedBy(s, b)]
  <2>2. f \in [{} -> Nat]
    BY <2>1, Zenon
  <2>3. u.tally[k] = s.tally[k] + Sum(f)
    BY Zenon DEF Ended
  <2> HIDE DEF f
  <2>4. Sum(f) = 0
    BY <2>2, SumZero, FS_EmptySet, Zenon
  <2>5. s.tally[k] \in Nat
    BY <1>1, Zenon DEF Tallied
  <2> QED
    BY <2>3, <2>4, <2>5
<1>7. u.tally \in Tallied
  <2>1. \A k \in TallyKey : u.tally[k] \in Nat
    <3> SUFFICES ASSUME NEW k \in TallyKey PROVE u.tally[k] \in Nat
      BY Zenon
    <3>1. s.tally[k] \in Nat
      BY <1>1, Zenon DEF Tallied
    <3> QED
      BY <1>4, <1>5, <1>6, <3>1
  <2> QED
    BY <2>1, Zenon DEF Ended, Tallied
<1>8. ASSUME NEW p \in Property, \A a \in issuers : pid(a) # p
      PROVE  TalliedTokens(u.tally, p) = TalliedTokens(s.tally, p)
  <2>1. \A b \in Address, ty \in TallyType : u.tally[<<b, p, ty>>] = s.tally[<<b, p, ty>>]
    <3> SUFFICES ASSUME NEW b \in Address, NEW ty \in TallyType
                 PROVE  u.tally[<<b, p, ty>>] = s.tally[<<b, p, ty>>]
      BY Zenon
    <3>1. <<b, p, ty>> \in TallyKey
      BY Zenon DEF TallyKey
    <3>2. \A a \in issuers : <<b, p, ty>> # <<a, pid(a), BALANCE>>
      BY <1>8, Zenon
    <3> QED
      BY <1>6, <3>1, <3>2, Zenon
  <2> QED
    BY <1>1, <1>7, <2>1, SameTotal, Zenon
<1>9. ASSUME NEW a \in issuers
      PROVE  TalliedTokens(u.tally, pid(a)) = TalliedTokens(s.tally, pid(a)) + MissedBy(s, a)
  <2> DEFINE p == pid(a)
             n == MissedBy(s, a)
             v == update_tally_map(s.tally, a, p, n, BALANCE)
             key == <<a, p, BALANCE>>
  <2>1. p \in Property /\ a \in Address /\ n \in Nat /\ BALANCE \in TallyType /\ key \in TallyKey
    BY <1>1, <1>2, <1>4, Zenon DEF TallyType, TallyKey
  <2>2. s.tally[key] + n \in Nat
    <3> HIDE DEF key, n
    <3> QED
      BY <1>1, <2>1 DEF Tallied
  <2>3. /\ v \in Tallied /\ v[key] = s.tally[key] + n
        /\ \A k \in TallyKey \ {key} : v[k] = s.tally[k]
        /\ TalliedTokens(v, p) = TalliedTokens(s.tally, p) + n
    <3> HIDE DEF p, n
    <3> QED
      BY <1>1, <2>1, <2>2, UpdateEffect
  <2>4. \A k \in TallyKey : k[2] = p => u.tally[k] = v[k]
    <3> SUFFICES ASSUME NEW k \in TallyKey, k[2] = p PROVE u.tally[k] = v[k]
      BY Zenon
    <3>1. CASE k = key
      BY <1>5, <2>3, <3>1, Zenon
    <3>2. CASE k # key
      <4>1. \A b \in issuers : k # <<b, pid(b), BALANCE>>
        BY <1>1, <3>2 DEF OneSaleEach
      <4> QED
        BY <1>6, <2>3, <3>2, <4>1, Zenon
    <3> QED
      BY <3>1, <3>2, Zenon
  <2>5. \A b \in Address, ty \in TallyType : u.tally[<<b, p, ty>>] = v[<<b, p, ty>>]
    <3> SUFFICES ASSUME NEW b \in Address, NEW ty \in TallyType
                 PROVE  u.tally[<<b, p, ty>>] = v[<<b, p, ty>>]
      BY Zenon
    <3>1. <<b, p, ty>> \in TallyKey /\ <<b, p, ty>>[2] = p
      BY <2>1, Zenon DEF TallyKey
    <3> QED
      BY <2>4, <3>1, Zenon
  <2>6. TalliedTokens(u.tally, p) = TalliedTokens(v, p)
    <3> HIDE DEF v, p
    <3> QED
      BY <1>7, <2>1, <2>3, <2>5, SameTotal, Zenon
  <2> QED
    BY <2>3, <2>6, Zenon
<1>10. /\ DOMAIN u.crowds = DOMAIN s.crowds \ issuers
       /\ \A a \in DOMAIN u.crowds : u.crowds[a] = s.crowds[a]
       /\ u.crowds \in [DOMAIN u.crowds -> Sale]
  BY <1>1, Zenon DEF Ended, Restrict
<1>11. ASSUME NEW p \in DOMAIN s.sps, \A a \in issuers : pid(a) # p
       PROVE  u.sps[p] = s.sps[p]
  <2>1. SoldBy(s, issuers, p) = {}
    BY <1>11, Zenon DEF SoldBy
  <2> QED
    BY <2>1, Zenon DEF Ended
<1>12. ASSUME NEW a \in issuers
       PROVE  /\ u.sps[pid(a)] \in SPEntry
              /\ u.sps[pid(a)].closed = how
              /\ u.sps[pid(a)].missedTokens = MissedBy(s, a)
              /\ u.sps[pid(a)].historicalData = s.crowds[a].database
              /\ u.sps[pid(a)].deadline = s.crowds[a].deadline
  <2>1. SoldBy(s, issuers, pid(a)) = {a} /\ SoldBy(s, issuers, pid(a)) # {}
    BY <1>3, Zenon
  <2>2. (CHOOSE x \in SoldBy(s, issuers, pid(a)) : TRUE) = a
    BY <2>1, Zenon
  <2>3. u.sps[pid(a)] = Closed(s.sps[pid(a)], s.crowds[a], how, MissedBy(s, a))
    BY <1>2, <2>1, <2>2 DEF Ended
  <2>4. s.sps[pid(a)] \in SPEntry /\ s.crowds[a] \in Sale /\ MissedBy(s, a) \in Amount
    BY <1>1, <1>2, <1>4, Zenon
  <2>5. s.sps[pid(a)].deadline = s.crowds[a].deadline
    BY <1>1, Zenon DEF Running
  <2> QED
    BY <2>3, <2>4, <2>5, Zenon DEF Closed, SPEntry, Sale
<1>13. DOMAIN u.sps = DOMAIN s.sps /\ u.sps \in [DOMAIN u.sps -> SPEntry]
  <2>1. DOMAIN u.sps = DOMAIN s.sps /\ u.sps = [p \in DOMAIN s.sps |-> u.sps[p]]
    BY Zenon DEF Ended
  <2>2. \A p \in DOMAIN s.sps : u.sps[p] \in SPEntry
    BY <1>1, <1>11, <1>12, Zenon
  <2> QED
    BY <2>1, <2>2, Zenon
<1>14. IsState(u)
  BY <1>1, <1>7, <1>10, <1>13, Zenon DEF IsState, Ended
<1>15. OneSaleEach(u)
  BY <1>1, <1>10, Zenon DEF OneSaleEach
<1>16. ASSUME NEW a \in DOMAIN u.crowds PROVE Running(u, now, a)
  <2>1. a \in DOMAIN s.crowds \ issuers /\ u.crowds[a] = s.crowds[a] /\ Running(s, before, a)
    BY <1>1, <1>10, <1>16, Zenon
  <2>2. \A b \in issuers : pid(b) # pid(a)
    BY <1>1, <2>1, Zenon DEF OneSaleEach
  <2>3. u.sps[pid(a)] = s.sps[pid(a)] /\ TalliedTokens(u.tally, pid(a)) = TalliedTokens(s.tally, pid(a))
    BY <1>2, <1>8, <1>11, <2>1, <2>2, Zenon
  <2> QED
    BY <1>2, <1>13, <2>1, <2>3, Zenon DEF Running
<1>17. ASSUME NEW p \in DOMAIN u.sps PROVE Recorded(u, p)
  <2>1. p \in DOMAIN s.sps /\ p \in Property /\ Recorded(s, p)
    BY <1>1, <1>13, <1>17, Zenon DEF Sound
  <2>2. CASE \E a \in issuers : pid(a) = p
    <3>1. PICK a \in issuers : pid(a) = p
      BY <2>2, Zenon
    <3>2. /\ InTime(s.crowds[a].database, s.crowds[a].deadline)
          /\ TalliedTokens(s.tally, p)
               = Total(s.crowds[a].database, "user") + Total(s.crowds[a].database, "issuer")
      BY <1>1, <3>1, Zenon DEF Running
    <3> QED
      BY <1>9, <1>12, <3>1, <3>2, Zenon DEF Recorded
  <2>3. CASE \A a \in issuers : pid(a) # p
    <3>1. u.sps[p] = s.sps[p] /\ TalliedTokens(u.tally, p) = TalliedTokens(s.tally, p)
      BY <1>8, <1>11, <2>1, <2>3, Zenon
    <3>2. s.sps[p].closed = "no" => \E a \in DOMAIN u.crowds : u.crowds[a].propertyId = p
      BY <1>10, <2>1, <2>3, Zenon DEF Recorded
    <3> QED
      BY <2>1, <3>1, <3>2 DEF Recorded
  <2> QED
    BY <2>2, <2>3, Zenon
<1>18. \A p \in Property : TalliedTokens(u.tally, p) <= MAX_INT
  BY <1>4, <1>8, <1>9 DEF Sound
<1>19. \A p \in Property \ (Base \cup DOMAIN u.sps) : TalliedTokens(u.tally, p) = 0
  BY <1>2, <1>8, <1>13 DEF Sound
<1>20. Sound(u, now)
  BY <1>14, <1>15, <1>16, <1>17, <1>18, <1>19, Zenon DEF Sound
<1>21. ASSUME NEW p \in Property
       PROVE  TalliedTokens(u.tally, p) - MissedOf(u, p) = TalliedTokens(s.tally, p) - MissedOf(s, p)
  <2>1. TalliedTokens(s.tally, p) \in Nat
    BY <1>1, TotalType, Zenon
  <2>2. CASE \E a \in issuers : pid(a) = p
    <3>1. PICK a \in issuers : pid(a) = p
      BY <2>2, Zenon
    <3>2. MissedOf(s, p) = 0 /\ MissedOf(u, p) = MissedBy(s, a)
      BY <1>1, <1>2, <1>12, <1>13, <3>1, Zenon DEF MissedOf, Running
    <3> QED
      BY <1>4, <1>9, <2>1, <3>1, <3>2
  <2>3. CASE \A a \in issuers : pid(a) # p
    <3>1. MissedOf(u, p) = MissedOf(s, p)
      BY <1>11, <1>13, <2>3, Zenon DEF MissedOf
    <3> QED
      BY <1>8, <2>3, <3>1, Zenon
  <2> QED
    BY <2>2, <2>3, Zenon
<1>22. InformedBut(u, {})
  BY <1>21, Zenon DEF Ended, InformedBut, Informed
<1> QED
  BY <1>20, <1>22, Zenon

-----------------------------------------------------------------------------
(* The actions *)

\* A send moves tokens, and may be a purchase (logicMath_SimpleSend).
LEMMA SendInvariant ==
  ASSUME Invariant, NEW sender \in Senders, NEW receiver \in Address,
         NEW property \in Property, NEW amount \in Amounts,
         logicMath_SimpleSend(sender, receiver, property, amount)
  PROVE  Invariant'
<1> DEFINE t1 == update_tally_map(mp_tally, sender, property, -amount, BALANCE)
           t2 == update_tally_map(t1, receiver, property, amount, BALANCE)
           m == [Now EXCEPT !.tally = t2]
           u == logicHelper_CrowdsaleParticipation(m, sender, receiver, property, amount)
<1>1. /\ Sound(Now, blockTime) /\ InformedBut(Now, {}) /\ mp_tally \in Tallied
      /\ blockTime \in Times /\ sender \in Address /\ amount \in Nat
  BY NowFields, CrowdsaleAssumption, Zenon DEF Invariant, Sound, IsState
<1>2. /\ t1 \in Tallied
      /\ TalliedTokens(t1, property) = TalliedTokens(mp_tally, property) - amount
      /\ \A q \in Property \ {property} : TalliedTokens(t1, q) = TalliedTokens(mp_tally, q)
  <2>1. BALANCE \in TallyType /\ <<sender, property, BALANCE>> \in TallyKey
    BY <1>1, Zenon DEF TallyType, TallyKey
  <2>2. mp_tally[<<sender, property, BALANCE>>] >= amount
    BY Zenon DEF logicMath_SimpleSend, GetTokenBalance
  <2>3. mp_tally[<<sender, property, BALANCE>>] \in Nat
    BY <1>1, <2>1, Zenon DEF Tallied
  <2>4. mp_tally[<<sender, property, BALANCE>>] + (-amount) \in Nat /\ -amount \in Int
    BY <1>1, <2>2, <2>3
  <2>5. /\ t1 \in Tallied
        /\ TalliedTokens(t1, property) = TalliedTokens(mp_tally, property) + (-amount)
        /\ \A q \in Property \ {property} : TalliedTokens(t1, q) = TalliedTokens(mp_tally, q)
    BY <1>1, <2>1, <2>4, UpdateEffect
  <2>6. TalliedTokens(mp_tally, property) \in Nat
    BY <1>1, TotalType, Zenon
  <2> QED
    BY <1>1, <2>5, <2>6, Zenon
<1> HIDE DEF t1
<1>3. /\ t2 \in Tallied
      /\ TalliedTokens(t2, property) = TalliedTokens(t1, property) + amount
      /\ \A q \in Property \ {property} : TalliedTokens(t2, q) = TalliedTokens(t1, q)
  <2>1. BALANCE \in TallyType /\ <<receiver, property, BALANCE>> \in TallyKey
    BY Zenon DEF TallyType, TallyKey
  <2>2. t1[<<receiver, property, BALANCE>>] + amount \in Nat
    BY <1>1, <1>2, <2>1 DEF Tallied
  <2> QED
    BY <1>1, <1>2, <2>1, <2>2, UpdateEffect
<1> HIDE DEF t2
<1>4. \A q \in Property : TalliedTokens(t2, q) = TalliedTokens(mp_tally, q)
  <2>1. TalliedTokens(mp_tally, property) \in Nat
    BY <1>1, TotalType, Zenon
  <2> QED
    BY <1>1, <1>2, <1>3, <2>1
<1>5. /\ Sound(m, blockTime)
      /\ m.tally = t2 /\ m.sps = sps /\ m.crowds = my_crowds /\ m.notified = notified
      /\ m.untold = untold /\ m.unwound = FALSE
  <2>1. \A q \in Property : TalliedTokens(t2, q) <= MAX_INT
    BY <1>1, <1>4, NowFields, Zenon DEF Sound
  <2>2. \A q \in Property \ Base : TalliedTokens(t2, q) = TalliedTokens(Now.tally, q)
    BY <1>4, NowFields, Zenon
  <2> QED
    BY <1>1, <1>3, <2>1, <2>2, LedgerChange, NowFields, Zenon
<1> HIDE DEF m
<1>6. InformedBut(m, {})
  BY <1>1, <1>4, <1>5, NowFields, Zenon DEF InformedBut, Informed, MissedOf
<1>7. Sound(u, blockTime) /\ InformedBut(u, {})
  <2>1. isPropertyDivisible(property) \in BOOLEAN
    BY DivisibleType, Zenon DEF logicMath_SimpleSend
  <2> QED
    <3>1. Participated(m, u, {})
      BY <1>1, <1>5, <1>6, <2>1, ParticipationEffect, Zenon
    <3> HIDE DEF u
    <3> QED
      BY <3>1, Zenon DEF Participated
<1>8. Becomes(u) /\ blockTime' = blockTime /\ Tx
  BY Zenon DEF logicMath_SimpleSend, Move, t1, t2, m
<1> HIDE DEF u
<1>9. Sound(Now', blockTime') /\ InformedBut(Now', {})
  <2>1. Now' = [tally |-> u.tally, sps |-> u.sps, crowds |-> u.crowds, notified |-> u.notified,
              untold |-> u.untold, unwound |-> FALSE]
    BY <1>8, Zenon DEF Now, Becomes
  <2> QED
    BY <1>7, <1>8, <2>1, Copied, Zenon
<1>10. unwound' \in BOOLEAN /\ txs' \in 0..MaxTxs
  BY <1>7, <1>8, CrowdsaleAssumption DEF Becomes, Sound, IsState, Tx, Invariant
<1> QED
  BY <1>1, <1>8, <1>9, <1>10, Zenon DEF Invariant

\* A grant creates tokens that no sale sells, and may be a purchase
\* (logicMath_GrantTokens).
LEMMA GrantInvariant ==
  ASSUME Invariant, NEW sender \in Senders, NEW receiver \in Address,
         NEW property \in Property, NEW amount \in Amounts,
         logicMath_GrantTokens(sender, receiver, property, amount)
  PROVE  Invariant'
<1> DEFINE t == update_tally_map(mp_tally, receiver, property, amount, BALANCE)
           m == [Now EXCEPT !.tally = t]
           b == logicHelper_CrowdsaleParticipation(m, sender, receiver, property, amount)
           u == IF b.unwound THEN [b EXCEPT !.untold = b.untold \cup {property}]
                ELSE NotifyTotalTokensChanged(b, property)
<1>1. /\ Sound(Now, blockTime) /\ InformedBut(Now, {}) /\ mp_tally \in Tallied
      /\ blockTime \in Times /\ sender \in Address /\ amount \in Nat /\ property \in Base
      /\ DOMAIN sps \subseteq Property \ Base
  BY NowFields, CrowdsaleAssumption, Zenon DEF Invariant, Sound, IsState, logicMath_GrantTokens
<1>2. /\ t \in Tallied
      /\ TalliedTokens(t, property) = TalliedTokens(mp_tally, property) + amount
      /\ \A q \in Property \ {property} : TalliedTokens(t, q) = TalliedTokens(mp_tally, q)
  <2>1. BALANCE \in TallyType /\ <<receiver, property, BALANCE>> \in TallyKey
    BY Zenon DEF TallyType, TallyKey
  <2>2. mp_tally[<<receiver, property, BALANCE>>] + amount \in Nat
    BY <1>1, <2>1 DEF Tallied
  <2> QED
    BY <1>1, <2>1, <2>2, UpdateEffect
<1> HIDE DEF t
<1>3. /\ Sound(m, blockTime)
      /\ m.tally = t /\ m.sps = sps /\ m.crowds = my_crowds /\ m.notified = notified
      /\ m.untold = untold /\ m.unwound = FALSE
  <2>1. TalliedTokens(mp_tally, property) + amount <= MAX_INT
    <3>1. TalliedTokens(mp_tally, property) \in Nat
      BY <1>1, TotalType, Zenon
    <3> QED
      BY <1>1, <3>1, MaxIntAssumption DEF logicMath_GrantTokens, getTotalTokens
  <2>2. \A q \in Property : TalliedTokens(t, q) <= MAX_INT
    BY <1>1, <1>2, <2>1, NowFields, Zenon DEF Sound
  <2>3. \A q \in Property \ Base : TalliedTokens(t, q) = TalliedTokens(Now.tally, q)
    BY <1>1, <1>2, NowFields, Zenon
  <2> QED
    BY <1>1, <1>2, <2>2, <2>3, LedgerChange, NowFields, Zenon
<1> HIDE DEF m
<1>4. InformedBut(m, {property})
  BY <1>1, <1>2, <1>3, NowFields, Zenon DEF InformedBut, Informed, MissedOf
<1>5. /\ Sound(b, blockTime) /\ InformedBut(b, {property}) /\ DOMAIN b.sps = DOMAIN sps
      /\ b.unwound => b.tally = m.tally /\ b.notified = m.notified /\ b.untold = m.untold
  <2>1. isPropertyDivisible(property) \in BOOLEAN
    BY <1>1, DivisibleType, Zenon DEF Exists
  <2>2. m.unwound = FALSE /\ m.sps = sps
    BY <1>3, Zenon
  <2>3. Participated(m, b, {property})
    BY <1>1, <1>3, <1>4, <2>1, <2>2, ParticipationEffect, Zenon
  <2> HIDE DEF b
  <2> QED
    BY <2>2, <2>3, Zenon DEF Participated
<1> HIDE DEF b
<1>6. Sound(u, blockTime) /\ InformedBut(u, {})
  <2>1. MissedOf(b, property) = 0
    BY <1>1, <1>5, Zenon DEF MissedOf
  <2>2. CASE ~b.unwound
    <3>1. InformedBut(b, {} \cup {property})
      BY <1>5, Zenon DEF InformedBut
    <3>2. Sound(NotifyTotalTokensChanged(b, property), blockTime)
          /\ InformedBut(NotifyTotalTokensChanged(b, property), {})
      BY <1>5, <2>1, <3>1, NotifyEffect, Zenon
    <3> QED
      BY <2>2, <3>2, Zenon
  <2>3. CASE b.unwound
    <3>1. /\ u = [tally |-> u.tally, sps |-> u.sps, crowds |-> u.crowds,
                  notified |-> u.notified, untold |-> u.untold, unwound |-> u.unwound]
          /\ u.tally = b.tally /\ u.sps = b.sps /\ u.crowds = b.crowds /\ u.notified = b.notified
          /\ u.untold = b.untold \cup {property} /\ u.unwound = b.unwound
      <4>1. u = [b EXCEPT !.untold = b.untold \cup {property}]
        BY <2>3, Zenon
      <4> QED
        BY <1>5, <4>1, Zenon DEF Sound, IsState
    <3> HIDE DEF u
    <3>2. u.untold \subseteq DOMAIN manager
      BY <1>5, <3>1, Zenon DEF Sound, IsState, logicMath_GrantTokens
    <3>3. IsState(u)
      BY <1>5, <3>1, <3>2, Zenon DEF Sound, IsState
    <3>4. Sound(u, blockTime)
      BY <1>5, <3>1, <3>3, SoundSame, Zenon
    <3>5. u.notified[property] < TalliedTokens(u.tally, property)
      <4>1. u.notified = notified /\ u.tally = t
        BY <1>3, <1>5, <2>3, <3>1, Zenon
      <4>2. Informed(Now, property) /\ MissedOf(Now, property) = 0
        BY <1>1, NowFields, Zenon DEF InformedBut, MissedOf
      <4>3. notified[property] \in Nat /\ TalliedTokens(mp_tally, property) \in Nat
        BY <1>1, TotalType, NowFields, Zenon DEF Sound, IsState
      <4>4. notified[property] <= TalliedTokens(mp_tally, property)
        BY <4>2, <4>3, NowFields DEF Informed
      <4>5. amount >= 1
        BY CrowdsaleAssumption
      <4> QED
        BY <1>1, <1>2, <4>1, <4>3, <4>4, <4>5
    <3>6. Informed(u, property)
      <4>1. MissedOf(u, property) = 0 /\ property \in u.untold
        BY <2>1, <3>1, Zenon DEF MissedOf
      <4>2. TalliedTokens(u.tally, property) \in Nat
        BY <3>3, TotalType, Zenon DEF IsState
      <4> QED
        BY <3>5, <4>1, <4>2 DEF Informed
    <3>7. ASSUME NEW q \in Property \ {property} PROVE Informed(u, q)
      <4>1. Informed(b, q)
        BY <1>5, <3>7, Zenon DEF InformedBut
      <4> QED
        BY <3>1, <3>7, <4>1, Zenon DEF Informed, MissedOf
    <3> QED
      BY <3>4, <3>6, <3>7, Zenon DEF InformedBut
  <2> QED
    BY <2>2, <2>3, Zenon
<1>7. Becomes(u) /\ blockTime' = blockTime /\ Tx
  BY Zenon DEF logicMath_GrantTokens, t, m, b
<1> HIDE DEF u
<1>8. Sound(Now', blockTime') /\ InformedBut(Now', {})
  <2>1. Now' = [tally |-> u.tally, sps |-> u.sps, crowds |-> u.crowds, notified |-> u.notified,
              untold |-> u.untold, unwound |-> FALSE]
    BY <1>7, Zenon DEF Now, Becomes
  <2> QED
    BY <1>6, <1>7, <2>1, Copied, Zenon
<1>9. unwound' \in BOOLEAN /\ txs' \in 0..MaxTxs
  BY <1>6, <1>7, CrowdsaleAssumption DEF Becomes, Sound, IsState, Tx, Invariant
<1> QED
  BY <1>1, <1>7, <1>8, <1>9, Zenon DEF Invariant

\* A new sale has a property of its own, without tokens
\* (logicMath_CreatePropertyVariable).
LEMMA CreateInvariant ==
  ASSUME Invariant, NEW sender \in Issuers, NEW terms \in Terms, NEW p \in Property,
         logicMath_CreatePropertyVariable(sender, terms, p)
  PROVE  Invariant'
<1> DEFINE sp == [issuer |-> sender, num_tokens |-> terms.num_tokens, early_bird |-> terms.early_bird,
                  percentage |-> terms.percentage, deadline |-> terms.deadline,
                  divisible |-> terms.divisible, property_desired |-> terms.property_desired,
                  historicalData |-> <<>>, closed |-> "no", missedTokens |-> 0]
           crowd == [propertyId |-> p, property_desired |-> terms.property_desired,
                     deadline |-> terms.deadline, u_created |-> 0, i_created |-> 0, database |-> <<>>]
           v == Now'
<1>1. /\ Sound(Now, blockTime) /\ InformedBut(Now, {}) /\ IsState(Now) /\ OneSaleEach(Now)
      /\ blockTime \in Times /\ sender \in Address
      /\ \A a \in DOMAIN my_crowds : Running(Now, blockTime, a)
      /\ p \in Property \ (Base \cup DOMAIN sps) /\ sender \notin DOMAIN my_crowds
      /\ terms.deadline >= blockTime
  BY NowFields, CrowdsaleAssumption, Zenon
  DEF Invariant, Sound, logicMath_CreatePropertyVariable, IsNextSPID
<1>2. /\ v = [tally |-> v.tally, sps |-> v.sps, crowds |-> v.crowds, notified |-> v.notified, untold |-> v.untold, unwound |-> v.unwound]
      /\ v.tally = mp_tally /\ v.sps = With(sps, p, sp) /\ v.crowds = With(my_crowds, sender, crowd)
      /\ v.notified = notified /\ v.untold = untold /\ v.unwound = FALSE
  BY Zenon DEF Now, logicMath_CreatePropertyVariable
<1>3. blockTime' = blockTime /\ UNCHANGED <<unwound, txs>>
  BY Zenon DEF logicMath_CreatePropertyVariable
<1>4. /\ terms \in [num_tokens : 1..MAX_INT, early_bird : Nat, percentage : Nat,
                    deadline : Nat \ {0}, divisible : BOOLEAN, property_desired : Property]
      /\ 0 \in Amount /\ <<>> \in Seq(Data)
  BY CrowdsaleAssumption, MaxIntAssumption DEF Amount
<1>5. sp \in SPEntry /\ crowd \in Sale
  BY <1>1, <1>4, Zenon DEF SPEntry, Sale
<1>6. /\ sp.issuer = sender /\ sp.closed = "no" /\ sp.missedTokens = 0 /\ sp.deadline = terms.deadline
      /\ sp.historicalData = <<>>
      /\ crowd.propertyId = p /\ crowd.deadline = terms.deadline /\ crowd.u_created = 0
      /\ crowd.i_created = 0 /\ crowd.database = <<>>
  BY Zenon
<1> HIDE DEF sp, crowd, v
<1>7. /\ DOMAIN v.sps = DOMAIN sps \cup {p} /\ v.sps[p] = sp
      /\ \A q \in DOMAIN sps : v.sps[q] = sps[q]
      /\ v.sps \in [DOMAIN v.sps -> SPEntry]
  BY <1>1, <1>2, <1>5, NowFields DEF With, IsState
<1>8. /\ DOMAIN v.crowds = DOMAIN my_crowds \cup {sender} /\ v.crowds[sender] = crowd
      /\ \A a \in DOMAIN my_crowds : v.crowds[a] = my_crowds[a]
      /\ v.crowds \in [DOMAIN v.crowds -> Sale]
  BY <1>1, <1>2, <1>5, NowFields DEF With, IsState
<1>9. IsState(v)
  BY <1>1, <1>2, <1>7, <1>8, NowFields, Zenon DEF IsState
<1>10. \A a \in DOMAIN my_crowds : my_crowds[a].propertyId \in DOMAIN sps
  BY <1>1, NowFields, Zenon DEF Running
<1>11. OneSaleEach(v)
  BY <1>1, <1>6, <1>8, <1>10, NowFields DEF OneSaleEach
<1>12. TalliedTokens(mp_tally, p) = 0
  BY <1>1, NowFields, Zenon DEF Sound
<1>13. ASSUME NEW a \in DOMAIN v.crowds PROVE Running(v, blockTime, a)
  <2>1. CASE a = sender
    <3>1. InTime(<<>>, terms.deadline)
      BY DEF InTime
    <3>2. Total(<<>>, "user") = 0 /\ Total(<<>>, "issuer") = 0
      BY <1>4, DataTotals, Zenon
    <3>3. /\ v.crowds[a] = crowd /\ crowd.propertyId = p /\ p \in DOMAIN v.sps
          /\ v.sps[p] = sp /\ TalliedTokens(v.tally, p) = 0
      BY <1>2, <1>6, <1>7, <1>8, <1>12, <2>1
    <3>4. /\ sp.issuer = a /\ sp.closed = "no" /\ sp.missedTokens = 0
          /\ sp.deadline = crowd.deadline /\ blockTime <= crowd.deadline
          /\ InTime(crowd.database, crowd.deadline)
      BY <1>1, <1>6, <2>1, <3>1, Zenon
    <3>5. crowd.u_created = 0 /\ crowd.i_created = 0 /\ crowd.database = <<>>
      BY <1>6, Zenon
    <3> QED
      BY <3>2, <3>3, <3>4, <3>5 DEF Running
  <2>2. CASE a # sender
    <3>1. a \in DOMAIN my_crowds /\ v.crowds[a] = my_crowds[a] /\ Running(Now, blockTime, a)
      BY <1>1, <1>8, <1>13, <2>2, Zenon
    <3>2. v.sps[my_crowds[a].propertyId] = sps[my_crowds[a].propertyId]
      BY <1>7, <1>10, <3>1, Zenon
    <3> QED
      BY <1>2, <1>7, <1>10, <3>1, <3>2, NowFields, Zenon DEF Running
  <2> QED
    BY <2>1, <2>2, Zenon
<1>14. ASSUME NEW q \in DOMAIN v.sps PROVE Recorded(v, q)
  <2>1. CASE q = p
    BY <1>6, <1>7, <1>8, <2>1 DEF Recorded, InTime
  <2>2. CASE q # p
    <3>1. q \in DOMAIN sps /\ v.sps[q] = sps[q] /\ Recorded(Now, q)
      BY <1>1, <1>7, <1>14, <2>2, NowFields, Zenon DEF Sound
    <3>2. sps[q].closed = "no" => \E a \in DOMAIN v.crowds : v.crowds[a].propertyId = q
      BY <1>8, <3>1, NowFields, Zenon DEF Recorded
    <3> QED
      BY <1>2, <3>1, <3>2, NowFields, Zenon DEF Recorded
  <2> QED
    BY <2>1, <2>2, Zenon
<1>15. /\ \A q \in Property : TalliedTokens(v.tally, q) <= MAX_INT
       /\ \A q \in Property \ (Base \cup DOMAIN v.sps) : TalliedTokens(v.tally, q) = 0
  BY <1>1, <1>2, <1>7, NowFields DEF Sound
<1>16. Sound(v, blockTime)
  BY <1>9, <1>11, <1>13, <1>14, <1>15, Zenon DEF Sound
<1>17. InformedBut(v, {})
  <2>1. \A q \in Property : MissedOf(v, q) = MissedOf(Now, q)
    BY <1>1, <1>6, <1>7, NowFields, Zenon DEF MissedOf
  <2> QED
    BY <1>1, <1>2, <2>1, NowFields, Zenon DEF InformedBut, Informed
<1> QED
  BY <1>3, <1>16, <1>17, Zenon DEF Invariant, v

\* EndSales does what Ended says of the state as a value.
LEMMA EndInvariant ==
  ASSUME Invariant, NEW issuers \in SUBSET DOMAIN my_crowds, NEW how \in {"closed", "expired"},
         EndSales(issuers, how), UNCHANGED <<notified, untold, txs>>, unwound' \in BOOLEAN, blockTime' \in Times,
         \A a \in DOMAIN my_crowds \ issuers : blockTime' <= my_crowds[a].deadline
  PROVE  Invariant'
<1> DEFINE v == Now'
<1>1. Ended(Now, issuers, how, v)
  BY DEF Now, EndSales, Ended, MissedBy, SoldBy, CreditedAt
<1>2. Sound(Now, blockTime) /\ InformedBut(Now, {})
  BY Zenon DEF Invariant
<1>3. /\ issuers \in SUBSET DOMAIN Now.crowds
      /\ \A a \in DOMAIN Now.crowds \ issuers : blockTime' <= Now.crowds[a].deadline
  BY NowFields, Zenon
<1> HIDE DEF v
<1>4. Sound(v, blockTime') /\ InformedBut(v, {})
  BY <1>1, <1>2, <1>3, EndEffect, Zenon
<1> QED
  BY <1>4, Zenon DEF Invariant, v

\* The issuer closes the sale (logicMath_CloseCrowdsale).
LEMMA CloseInvariant ==
  ASSUME Invariant, NEW sender \in Issuers, NEW property \in Property,
         logicMath_CloseCrowdsale(sender, property)
  PROVE  Invariant'
<1>1. {sender} \in SUBSET DOMAIN my_crowds /\ EndSales({sender}, "closed")
  BY Zenon DEF logicMath_CloseCrowdsale
<1>2. /\ UNCHANGED <<notified, untold, txs>> /\ unwound' \in BOOLEAN
      /\ blockTime' = blockTime /\ blockTime \in Times
  BY Zenon DEF logicMath_CloseCrowdsale, Invariant
<1>3. \A a \in DOMAIN my_crowds \ {sender} : blockTime' <= my_crowds[a].deadline
  BY <1>2, NowFields, Zenon DEF Invariant, Sound, Running
<1> QED
  BY <1>1, <1>2, <1>3, EndInvariant, Zenon

\* A block ends the sales whose deadline is before its time (eraseExpiredCrowdsale).
LEMMA ExpireInvariant ==
  ASSUME Invariant, NEW time \in Times, eraseExpiredCrowdsale(time)
  PROVE  Invariant'
<1>1. Expired(time) \in SUBSET DOMAIN my_crowds /\ EndSales(Expired(time), "expired")
  BY Zenon DEF eraseExpiredCrowdsale, Expired
<1>2. UNCHANGED <<notified, untold, txs>> /\ unwound' \in BOOLEAN /\ blockTime' = time
  BY Zenon DEF eraseExpiredCrowdsale
<1>3. \A a \in DOMAIN my_crowds \ Expired(time) : blockTime' <= my_crowds[a].deadline
  <2> SUFFICES ASSUME NEW a \in DOMAIN my_crowds \ Expired(time) PROVE time <= my_crowds[a].deadline
    BY <1>2, Zenon
  <2>1. my_crowds[a] \in Sale
    BY NowFields, Zenon DEF Invariant, Sound, IsState
  <2>2. my_crowds[a].deadline \in Nat /\ time \in Nat
    BY <2>1, CrowdsaleAssumption, Zenon DEF Sale
  <2> QED
    BY <2>2 DEF Expired
<1> QED
  BY <1>1, <1>2, <1>3, EndInvariant, Zenon

\* A property changes hands only if its issuer runs no sale (logicMath_ChangeIssuer).
LEMMA ChangeIssuerInvariant ==
  ASSUME Invariant, NEW sender \in Issuers, NEW receiver \in Issuers, NEW property \in Property,
         logicMath_ChangeIssuer(sender, receiver, property)
  PROVE  Invariant'
<1> DEFINE v == Now'
           sp == [sps[property] EXCEPT !.issuer = receiver]
<1>1. /\ Sound(Now, blockTime) /\ InformedBut(Now, {}) /\ IsState(Now) /\ OneSaleEach(Now)
      /\ \A a \in DOMAIN my_crowds : Running(Now, blockTime, a)
      /\ property \in DOMAIN sps /\ sender = sps[property].issuer /\ sender \notin DOMAIN my_crowds
      /\ receiver \in Address /\ sps \in [DOMAIN sps -> SPEntry]
  BY NowFields, CrowdsaleAssumption, Zenon DEF Invariant, Sound, IsState, logicMath_ChangeIssuer
<1>2. sps' = [sps EXCEPT ![property] = sp]
  BY Zenon DEF logicMath_ChangeIssuer
<1>3. sps[property] \in SPEntry
  BY <1>1, Zenon
<1>4. /\ sp \in SPEntry
      /\ sp.closed = sps[property].closed /\ sp.missedTokens = sps[property].missedTokens
      /\ sp.deadline = sps[property].deadline /\ sp.historicalData = sps[property].historicalData
  BY <1>1, <1>3, Zenon DEF SPEntry
<1> HIDE DEF sp
<1>5. /\ v = [tally |-> v.tally, sps |-> v.sps, crowds |-> v.crowds, notified |-> v.notified, untold |-> v.untold, unwound |-> v.unwound]
      /\ v.tally = mp_tally /\ v.sps = sps' /\ v.crowds = my_crowds /\ v.notified = notified
      /\ v.untold = untold /\ v.unwound = FALSE /\ UNCHANGED <<blockTime, unwound, txs>>
  BY Zenon DEF Now, logicMath_ChangeIssuer
<1> HIDE DEF v
<1>6. /\ DOMAIN v.sps = DOMAIN sps /\ v.sps[property] = sp
      /\ \A q \in DOMAIN sps \ {property} : v.sps[q] = sps[q]
      /\ v.sps \in [DOMAIN sps -> SPEntry]
  BY <1>1, <1>2, <1>4, <1>5, Zenon
<1>7. IsState(v)
  BY <1>1, <1>5, <1>6, NowFields, Zenon DEF IsState
<1>8. ASSUME NEW a \in DOMAIN v.crowds PROVE Running(v, blockTime, a)
  <2>1. Running(Now, blockTime, a) /\ my_crowds[a].propertyId \in DOMAIN sps \ {property}
    BY <1>1, <1>5, <1>8, NowFields DEF Running
  <2>2. v.sps[my_crowds[a].propertyId] = sps[my_crowds[a].propertyId]
    BY <1>6, <2>1, Zenon
  <2> QED
    BY <1>5, <1>6, <2>1, <2>2, NowFields, Zenon DEF Running
<1>9. \A q \in DOMAIN sps : /\ v.sps[q].closed = sps[q].closed
                            /\ v.sps[q].missedTokens = sps[q].missedTokens
                            /\ v.sps[q].deadline = sps[q].deadline
                            /\ v.sps[q].historicalData = sps[q].historicalData
  BY <1>4, <1>6, Zenon
<1>10. ASSUME NEW q \in DOMAIN v.sps PROVE Recorded(v, q)
  <2>1. Recorded(Now, q) /\ q \in DOMAIN sps
    BY <1>1, <1>6, <1>10, NowFields, Zenon DEF Sound
  <2> QED
    BY <1>5, <1>9, <2>1, NowFields, Zenon DEF Recorded
<1>11. Sound(v, blockTime)
  BY <1>1, <1>5, <1>6, <1>7, <1>8, <1>10, NowFields DEF Sound, OneSaleEach
<1>12. InformedBut(v, {})
  BY <1>1, <1>5, <1>6, <1>9, NowFields DEF InformedBut, Informed, MissedOf
<1> QED
  BY <1>5, <1>11, <1>12, Zenon DEF Invariant, v

\* Every step keeps the invariant.
LEMMA NextInvariant == Invariant /\ [Next]_vars => Invariant'
<1> SUFFICES ASSUME Invariant, [Next]_vars PROVE Invariant'
  BY Zenon
<1>1. CASE UNCHANGED vars
  BY <1>1, Zenon DEF Invariant, Now, vars
<1>2. CASE Next
  BY <1>2, SendInvariant, GrantInvariant, CreateInvariant, CloseInvariant, ChangeIssuerInvariant, ExpireInvariant, Zenon
  DEF Next
<1> QED
  BY <1>1, <1>2, Zenon

\* The invariant holds forever.
LEMMA InvariantHolds == Spec => []Invariant
BY InitInvariant, NextInvariant, PTL DEF Spec

-----------------------------------------------------------------------------
(* What follows from it *)

\* The invariant in terms of the variables.
LEMMA InvariantFacts ==
  ASSUME Invariant
  PROVE  /\ mp_tally \in Tallied
         /\ DOMAIN sps \subseteq Property \ Base /\ DOMAIN my_crowds \subseteq Issuers
         /\ \A p \in DOMAIN sps : sps[p] \in SPEntry /\ Recorded(Now, p)
         /\ \A a \in DOMAIN my_crowds : my_crowds[a] \in Sale /\ Running(Now, blockTime, a)
         /\ OneSaleEach(Now)
         /\ \A p \in Property : TalliedTokens(mp_tally, p) <= MAX_INT
         /\ notified \in [Property -> Nat]
         /\ untold \subseteq DOMAIN manager /\ \A p \in Property : Informed(Now, p)
BY NowFields, Zenon DEF Invariant, Sound, IsState, InformedBut

\* A property is sold by one sale, which is open, or by none.
LEMMA Seller ==
  ASSUME Invariant, NEW p \in DOMAIN sps
  PROVE  \/ sps[p].closed # "no" /\ Purchases(p) = sps[p].historicalData
         \/ \E a \in DOMAIN my_crowds : my_crowds[a].propertyId = p /\ Purchases(p) = my_crowds[a].database
<1>1. CASE SellerOf(p) = {}
  <2>1. sps[p].closed # "no"
    BY <1>1, InvariantFacts, NowFields, Zenon DEF SellerOf, Recorded
  <2> QED
    BY <1>1, <2>1, Zenon DEF Purchases
<1>2. CASE SellerOf(p) # {}
  <2> DEFINE a == CHOOSE x \in SellerOf(p) : TRUE
  <2>1. a \in SellerOf(p)
    BY <1>2, Zenon
  <2>2. Purchases(p) = my_crowds[a].database
    BY <1>2, Zenon DEF Purchases
  <2> HIDE DEF a
  <2> QED
    BY <2>1, <2>2, Zenon DEF SellerOf
<1> QED
  BY <1>1, <1>2, Zenon

\* Whatever is bought, granted and credited at the end, no property ever has more
\* than MAX_INT tokens and no call of update_tally_map fails.
THEOREM NeverTooManyTokens == Spec => []TypeOK
<1>1. ASSUME Invariant PROVE TypeOK
  <2>1. mp_tally \in TallyMap
    <3>1. \A k \in TallyKey : mp_tally[k] \in Amount
      <4> SUFFICES ASSUME NEW k \in TallyKey PROVE mp_tally[k] \in Amount
        BY Zenon
      <4>1. PICK a \in Address, p \in Property, ty \in TallyType : k = <<a, p, ty>>
        BY DEF TallyKey
      <4>2. mp_tally[k] <= TalliedTokens(mp_tally, p) /\ TalliedTokens(mp_tally, p) \in Nat
        BY <1>1, <4>1, InvariantFacts, TotalType, Zenon
      <4>3. TalliedTokens(mp_tally, p) <= MAX_INT /\ mp_tally[k] \in Nat
        BY <1>1, <4>1, InvariantFacts DEF Tallied
      <4> QED
        BY <4>2, <4>3, MaxIntAssumption DEF Amount
    <3> QED
      BY <1>1, <3>1, InvariantFacts, Zenon DEF TallyMap, Tallied
  <2>2. notified \in [Property -> Amount]
    <3>1. \A p \in Property : notified[p] \in Amount
      <4> SUFFICES ASSUME NEW p \in Property PROVE notified[p] \in Amount
        BY Zenon
      <4>1. MissedOf(Now, p) \in Nat
        BY <1>1, InvariantFacts, NowFields, MaxIntAssumption DEF MissedOf, SPEntry, Amount
      <4>2. TalliedTokens(mp_tally, p) \in Nat /\ TalliedTokens(mp_tally, p) <= MAX_INT
        BY <1>1, InvariantFacts, TotalType, Zenon
      <4>3. notified[p] \in Nat /\ Informed(Now, p)
        BY <1>1, InvariantFacts, Zenon
      <4> QED
        BY <4>1, <4>2, <4>3, NowFields, MaxIntAssumption DEF Informed, Amount
    <3> QED
      BY <1>1, <3>1, InvariantFacts, Zenon
  <2>3. blockTime \in Times /\ unwound \in BOOLEAN /\ txs \in 0..MaxTxs
    BY <1>1, Zenon DEF Invariant
  <2> QED
    BY <1>1, <2>1, <2>2, <2>3, InvariantFacts, Zenon DEF TypeOK, getTotalTokens
<1> QED
  BY <1>1, InvariantHolds, PTL

\* The consistency check of GetMissedIssuerBonus never fails, and the data kept of
\* a sale accounts for every token there is.
THEOREM SalesCountTokens == Spec => []SaleCountsTokens
<1>1. ASSUME Invariant PROVE SaleCountsTokens
  <2>1. \A a \in DOMAIN my_crowds :
          getTotalTokens(mp_tally, my_crowds[a].propertyId) = my_crowds[a].u_created + my_crowds[a].i_created
    BY <1>1, InvariantFacts, NowFields, Zenon DEF Running, getTotalTokens
  <2>2. ASSUME NEW p \in DOMAIN sps
        PROVE  getTotalTokens(mp_tally, p)
                 = Total(Purchases(p), "user") + Total(Purchases(p), "issuer") + sps[p].missedTokens
    <3>1. CASE sps[p].closed # "no" /\ Purchases(p) = sps[p].historicalData
      BY <1>1, <2>2, <3>1, InvariantFacts, NowFields, Zenon DEF Recorded, getTotalTokens
    <3>2. ASSUME NEW a \in DOMAIN my_crowds, my_crowds[a].propertyId = p, Purchases(p) = my_crowds[a].database
          PROVE  getTotalTokens(mp_tally, p)
                   = Total(Purchases(p), "user") + Total(Purchases(p), "issuer") + sps[p].missedTokens
      <4>1. /\ sps[p].missedTokens = 0
            /\ my_crowds[a].u_created = Total(Purchases(p), "user")
            /\ my_crowds[a].i_created = Total(Purchases(p), "issuer")
            /\ my_crowds[a] \in Sale
        BY <1>1, <3>2, InvariantFacts, NowFields, Zenon DEF Running
      <4>2. my_crowds[a].u_created \in Nat /\ my_crowds[a].i_created \in Nat
        BY <4>1, MaxIntAssumption DEF Sale, Amount
      <4> QED
        BY <2>1, <3>2, <4>1, <4>2
    <3> QED
      BY <1>1, <2>2, <3>1, <3>2, Seller, Zenon
  <2> QED
    BY <2>1, <2>2, Zenon DEF SaleCountsTokens
<1> QED
  BY <1>1, InvariantHolds, PTL

\* The address of a sale is the issuer of its property, and no other sale has it.
THEOREM SalesBelongToIssuers == Spec => []SaleBelongsToIssuer
<1>1. ASSUME Invariant PROVE SaleBelongsToIssuer
  BY <1>1, InvariantFacts, NowFields, Zenon DEF SaleBelongsToIssuer, Running, OneSaleEach
<1> QED
  BY <1>1, InvariantHolds, PTL

\* No sale is open in a block after its deadline, and none has ever sold in one.
THEOREM SoldBeforeDeadline == Spec => []NoSaleAfterDeadline
<1>1. ASSUME Invariant PROVE NoSaleAfterDeadline
  <2>1. \A a \in DOMAIN my_crowds : blockTime <= my_crowds[a].deadline
    BY <1>1, InvariantFacts, NowFields, Zenon DEF Running
  <2>2. ASSUME NEW p \in DOMAIN sps PROVE InTime(Purchases(p), sps[p].deadline)
    <3>1. CASE Purchases(p) = sps[p].historicalData
      BY <1>1, <2>2, <3>1, InvariantFacts, NowFields DEF Recorded
    <3>2. ASSUME NEW a \in DOMAIN my_crowds, my_crowds[a].propertyId = p, Purchases(p) = my_crowds[a].database
          PROVE  InTime(Purchases(p), sps[p].deadline)
      BY <1>1, <3>2, InvariantFacts, NowFields DEF Running
    <3> QED
      BY <1>1, <2>2, <3>1, <3>2, Seller, Zenon
  <2> QED
    BY <2>1, <2>2, Zenon DEF NoSaleAfterDeadline, InTime
<1> QED
  BY <1>1, InvariantHolds, PTL

\* A sale closed for want of tokens has sold them all: both roundings of the last
\* purchase leave exactly what there was left (calculateFundraiser).
THEOREM MaxedSalesSoldOut == Spec => []MaxedSaleIsSoldOut
<1>1. ASSUME Invariant PROVE MaxedSaleIsSoldOut
  BY <1>1, InvariantFacts, NowFields, Zenon DEF MaxedSaleIsSoldOut, Recorded, getTotalTokens
<1> QED
  BY <1>1, InvariantHolds, PTL

\* The fee thresholds are based on all tokens there are, but for those credited at
\* the end of a sale.  Where the exception of a purchase has cut a grant short, the
\* threshold of the granted property is based on fewer tokens, until the property
\* is told again.
THEOREM ThresholdsInformed == Spec => []ThresholdsKnowSales
<1>1. ASSUME Invariant PROVE ThresholdsKnowSales
  BY <1>1, InvariantFacts, NowFields, Zenon DEF ThresholdsKnowSales, Informed, MissedOf, getTotalTokens
<1> QED
  BY <1>1, InvariantHolds, PTL

=============================================================================
