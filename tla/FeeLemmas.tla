----------------------------- MODULE FeeLemmas ------------------------------
(***************************************************************************)
(* Lemmas about the operators of Fees: the shares of the owners add up to  *)
(* the amount, and an operation on the fee cache keeps the books.          *)
(*                                                                         *)
(* Owners are served in the order of SendToOwners_compare.  By induction   *)
(* over the sets of owners that come first, these get their pieces in full *)
(* or, together, all there is; and all pieces are at least the amount,     *)
(* since each is rounded up.                                               *)
(***************************************************************************)
EXTENDS Fees, LedgerLemmas

-----------------------------------------------------------------------------
(* Shares of an amount: those who come first get their pieces in full *)

\* R orders the elements of S, one after the other.
Orders(S, R) ==
  /\ \A x \in S : <<x, x>> \notin R
  /\ \A x, y, z \in S : <<x, y>> \in R /\ <<y, z>> \in R => <<x, z>> \in R
  /\ \A x, y \in S : x = y \/ <<x, y>> \in R \/ <<y, x>> \in R

Preceding(S, R, x) == {y \in S : <<y, x>> \in R}

\* What is given of a piece if this much is left.
Given(left, piece) == IF left < piece THEN IF left < 0 THEN 0 ELSE left ELSE piece

InTurn(S, R, amount, piece, share) ==
  \A x \in S : share[x] = Given(amount - Sum(Restrict(piece, Preceding(S, R, x))), piece[x])

\* With every element of B also the ones before it are in B.
ClosedBelow(S, R, B) == \A x \in B, y \in S : <<y, x>> \in R => y \in B

Least(m, n) == IF m < n THEN m ELSE n

\* A set that is ordered has a last element.
LEMMA LastExists ==
  ASSUME NEW S, NEW R, Orders(S, R), NEW B \in SUBSET S, IsFiniteSet(B), B # {}
  PROVE  \E x \in B : \A y \in B \ {x} : <<y, x>> \in R
<1> DEFINE Q == {e \in S \X S : <<e[2], e[1]>> \in R}
<1>1. /\ \A x \in B : <<x, x>> \notin Q
      /\ \A x, y, z \in B : <<x, y>> \in Q /\ <<y, z>> \in Q => <<x, z>> \in Q
  BY Zenon DEF Orders
<1>2. PICK x \in B : \A y \in B : <<y, x>> \notin Q
  <2> HIDE DEF Q
  <2> QED
    BY <1>1, FirstExists, Zenon
<1>3. ASSUME NEW y \in B \ {x} PROVE <<y, x>> \in R
  <2>1. <<y, x>> \notin Q
    BY <1>2, Zenon
  <2>2. <<x, y>> \notin R
    BY <2>1, Zenon
  <2> QED
    BY <2>2, Zenon DEF Orders
<1> QED
  BY <1>3, Zenon

\* What the first ones get together is what they would get in full, or all.
LEMMA FirstShares ==
  ASSUME NEW S, IsFiniteSet(S), NEW R, Orders(S, R), NEW amount \in Nat,
         NEW piece \in [S -> Nat], NEW share \in [S -> Nat], InTurn(S, R, amount, piece, share)
  PROVE  Sum(share) = Least(amount, Sum(piece))
<1> DEFINE P(B) == Sum(Restrict(piece, B))
           W(B) == Sum(Restrict(share, B))
           Bad  == {B \in SUBSET S : ClosedBelow(S, R, B) /\ W(B) # Least(amount, P(B))}
<1>1. SUFFICES ASSUME Bad # {} PROVE FALSE
  <2>1. S \notin Bad
    BY <1>1, Zenon
  <2>2. ClosedBelow(S, R, S)
    BY Zenon DEF ClosedBelow
  <2>3. Restrict(share, S) = share /\ Restrict(piece, S) = piece
    BY Zenon DEF Restrict
  <2> QED
    BY <2>1, <2>2, <2>3, Zenon
<1>2. IsWellFoundedOn(StrictSubsetOrdering(S), FiniteSubsetsOf(S)) /\ FiniteSubsetsOf(S) = SUBSET S
  BY FS_StrictSubsetOrderingWellFounded, FS_FiniteSubsetsOfFinite, Zenon
<1>3. PICK B \in Bad : \A E \in Bad : ~(<<E, B>> \in StrictSubsetOrdering(S))
  <2>1. Bad \subseteq SUBSET S
    BY Zenon
  <2> HIDE DEF Bad
  <2> QED
    BY <1>1, <1>2, <2>1, WFMin
<1>4. B \in SUBSET S /\ ClosedBelow(S, R, B) /\ W(B) # Least(amount, P(B))
  BY <1>3, Zenon
<1>5. IsFiniteSet(B)
  BY <1>4, FS_Subset, Zenon
<1>6. B # {}
  <2>1. Restrict(piece, {}) \in [{} -> Nat] /\ Restrict(share, {}) \in [{} -> Nat]
    BY Zenon DEF Restrict
  <2>2. P({}) = 0 /\ W({}) = 0
    BY <2>1, SumEmpty, Zenon
  <2>3. Least(amount, 0) = 0
    BY DEF Least
  <2> QED
    BY <1>4, <2>2, <2>3, Zenon
<1>7. PICK x \in B : \A y \in B \ {x} : <<y, x>> \in R
  <2> HIDE DEF Bad
  <2> QED
    BY <1>4, <1>5, <1>6, LastExists
<1> DEFINE E == B \ {x}
<1>8. x \in S /\ E \in SUBSET S
  BY <1>4, Zenon
<1>9. ClosedBelow(S, R, E)
  <2> SUFFICES ASSUME NEW a \in E, NEW b \in S, <<b, a>> \in R PROVE b \in E
    BY Zenon DEF ClosedBelow
  <2>1. b \in B
    BY <1>4, Zenon DEF ClosedBelow
  <2>2. <<x, a>> \notin R
    <3>1. <<a, x>> \in R /\ a \in S
      BY <1>7, <1>8, Zenon
    <3> QED
      BY <3>1, <1>8, Zenon DEF Orders
  <2> QED
    BY <2>1, <2>2, Zenon
<1>10. Preceding(S, R, x) = E
  BY <1>4, <1>7, <1>8, Zenon DEF Preceding, ClosedBelow, Orders
<1>11. W(E) = Least(amount, P(E))
  <2>1. <<E, B>> \in StrictSubsetOrdering(S)
    BY <1>4, <1>8, Zenon DEF StrictSubsetOrdering
  <2> QED
    BY <1>3, <1>8, <1>9, <2>1, Zenon
<1>12. P(B) = P(E) + piece[x] /\ W(B) = W(E) + share[x]
  <2>1. P(B) = P(E) + piece[x]
    BY <1>4, RestrictWithout, Zenon
  <2>2. W(B) = W(E) + share[x]
    BY <1>4, RestrictWithout, Zenon
  <2> QED
    BY <2>1, <2>2, Zenon
<1>13. share[x] = Given(amount - P(E), piece[x]) /\ piece[x] \in Nat /\ P(E) \in Nat
  BY <1>8, <1>10, RestrictAmounts, Zenon DEF InTurn
<1>14. W(B) # Least(amount, P(B))
  BY <1>4, Zenon
<1> HIDE DEF Bad, P, W, E
<1> QED
  BY <1>11, <1>12, <1>13, <1>14 DEF Least, Given

\* A rounded share is at least the exact one.
LEMMA RoundUpCovers ==
  ASSUME NEW n \in Nat, NEW d \in Nat \ {0}
  PROVE  DivideAndRoundUp(n, d) \in Nat /\ n <= DivideAndRoundUp(n, d) * d
<1>1. CASE n = 0
  BY <1>1 DEF DivideAndRoundUp
<1>2. CASE n # 0
  <2> DEFINE m == n - 1
             q == m \div d
  <2>1. m \in Nat
    BY <1>2
  <2>2. q \in Nat /\ m < d * q + d
    <3> HIDE DEF m
    <3> QED
      BY <2>1, DivFacts, Zenon
  <2>3. (1 + q) * d = d * q + d
    <3> HIDE DEF q
    <3> QED
      BY <2>2
  <2>4. DivideAndRoundUp(n, d) = 1 + q
    BY <1>2, Zenon DEF DivideAndRoundUp
  <2> HIDE DEF q
  <2> QED
    BY <2>1, <2>2, <2>3, <2>4
<1> QED
  BY <1>1, <1>2, Zenon

\* The pieces and the shares of all owners, and their order.
Pieces(owned, amount) == [a \in DOMAIN owned |-> Piece(owned, amount, a)]

Shares(owned, amount) == [a \in DOMAIN owned |-> WillReceive(owned, amount, a)]

Ranking(S, owned) == {e \in S \X S : SendToOwners_compare(owned, e[1], e[2])}

\* The pieces of all owners are at least the amount.
LEMMA PiecesCover ==
  ASSUME NEW S, IsFiniteSet(S), NEW owned \in [S -> Nat], NEW o \in S, owned[o] > 0,
         NEW amount \in Nat
  PROVE  Pieces(owned, amount) \in [S -> Nat] /\ amount <= Sum(Pieces(owned, amount))
<1> DEFINE T == Sum(owned)
           piece == Pieces(owned, amount)
<1>1. T \in Nat /\ T # 0
  BY SumType, SumZero
<1>2. ASSUME NEW a \in S
      PROVE  owned[a] * amount \in Nat /\ piece[a] \in Nat /\ owned[a] * amount <= piece[a] * T
  <2>1. owned[a] * amount \in Nat
    BY ProductFacts, Zenon
  <2>2. piece[a] = DivideAndRoundUp(owned[a] * amount, T)
    BY Zenon DEF Piece, Pieces
  <2> HIDE DEF T
  <2> QED
    BY <1>1, <2>1, <2>2, RoundUpCovers, Zenon
<1>3. piece \in [S -> Nat]
  BY <1>2, Zenon DEF Pieces
<1>4. PICK g \in [S -> Nat] : \A a \in S : g[a] = piece[a] * T
  <2> DEFINE G == [a \in S |-> piece[a] * T]
  <2>1. \A a \in S : piece[a] * T \in Nat
    BY <1>1, <1>2, ProductFacts, Zenon
  <2>2. G \in [S -> Nat] /\ \A a \in S : G[a] = piece[a] * T
    BY <2>1, Zenon
  <2> QED
    BY <2>2, Zenon
<1>5. PICK h \in [S -> Nat] : \A a \in S : h[a] = owned[a] * amount
  <2> DEFINE H == [a \in S |-> owned[a] * amount]
  <2>1. H \in [S -> Nat] /\ \A a \in S : H[a] = owned[a] * amount
    BY <1>2, Zenon
  <2> QED
    BY <2>1, Zenon
<1> HIDE DEF T, piece
<1>6. Sum(g) = Sum(piece) * T
  <2>1. Multiple(g, piece, T)
    BY <1>3, <1>4, Zenon DEF Multiple
  <2> QED
    BY <1>1, <1>3, <2>1, SumScale
<1>7. Sum(h) = T * amount
  <2>1. Multiple(h, owned, amount)
    BY <1>5, Zenon DEF Multiple
  <2> QED
    BY <2>1, SumScale, Zenon DEF T
<1>8. Sum(h) <= Sum(g)
  <2>1. \A a \in S : h[a] <= g[a]
    BY <1>2, <1>4, <1>5, Zenon
  <2> QED
    BY <2>1, SumMonotone, Zenon
<1>9. Sum(piece) \in Nat
  BY <1>3, SumType, Zenon
<1>10. ASSUME amount > Sum(piece) PROVE FALSE
  <2> DEFINE q == Sum(piece)
  <2>1. q + 1 \in Nat /\ q + 1 <= amount /\ q \in Nat
    BY <1>9, <1>10
  <2>2. (q + 1) * T <= amount * T
    <3> HIDE DEF q
    <3> QED
      BY <1>1, <2>1, ProductMonotone, Zenon
  <2>3. (q + 1) * T = q * T + T
    <3> HIDE DEF q
    <3> QED
      BY <1>1, <2>1
  <2>4. amount * T = T * amount /\ q * T \in Nat /\ T * amount \in Nat
    <3> HIDE DEF q
    <3> QED
      BY <1>1, <2>1, ProductFacts, Zenon
  <2> QED
    BY <1>1, <1>6, <1>7, <1>8, <2>2, <2>3, <2>4
<1> QED
  BY <1>3, <1>9, <1>10 DEF piece

Numbers(S) == S \subseteq Nat

\* SendToOwners_compare puts the owners one after the other.
LEMMA CompareOrders ==
  ASSUME NEW S, Numbers(S), NEW owned \in [S -> Nat]
  PROVE  /\ Orders(S, Ranking(S, owned))
         /\ \A a \in S : Preceding(S, Ranking(S, owned), a) = {b \in S : SendToOwners_compare(owned, b, a)}
<1> DEFINE R == Ranking(S, owned)
<1>1. \A x, y \in S : <<x, y>> \in R <=> SendToOwners_compare(owned, x, y)
  BY Zenon DEF Ranking
<1> HIDE DEF R
<1>2. \A x \in S : <<x, x>> \notin R
  BY <1>1 DEF SendToOwners_compare, Numbers
<1>3. \A x, y, z \in S : <<x, y>> \in R /\ <<y, z>> \in R => <<x, z>> \in R
  BY <1>1 DEF SendToOwners_compare, Numbers
<1>4. \A x, y \in S : x = y \/ <<x, y>> \in R \/ <<y, x>> \in R
  <2>1. ASSUME NEW x \in S, NEW y \in S
        PROVE  x = y \/ SendToOwners_compare(owned, x, y) \/ SendToOwners_compare(owned, y, x)
    <3>1. x \in Nat /\ y \in Nat /\ owned[x] \in Nat /\ owned[y] \in Nat
      BY Zenon DEF Numbers
    <3> QED
      BY <3>1 DEF SendToOwners_compare
  <2> QED
    BY <1>1, <2>1, Zenon
<1>5. \A a \in S : Preceding(S, R, a) = {b \in S : SendToOwners_compare(owned, b, a)}
  BY <1>1, Zenon DEF Preceding
<1>6. Orders(S, R)
  BY <1>2, <1>3, <1>4, Zenon DEF Orders
<1> QED
  BY <1>5, <1>6, Zenon DEF R

\* The shares of owners add up to the amount.
LEMMA SharesOfOwners ==
  ASSUME NEW S, Numbers(S), IsFiniteSet(S), NEW owned \in [S -> Nat], NEW o \in S, owned[o] > 0,
         NEW amount \in Nat
  PROVE  Shares(owned, amount) \in [S -> Nat] /\ Sum(Shares(owned, amount)) = amount
<1> DEFINE piece == Pieces(owned, amount)
           share == Shares(owned, amount)
           R     == Ranking(S, owned)
<1>1. \A a \in S : share[a] = WillReceive(owned, amount, a) /\ piece[a] = Piece(owned, amount, a)
  BY Zenon DEF Shares, Pieces
<1>2. piece \in [S -> Nat] /\ amount <= Sum(piece)
  BY PiecesCover, Zenon
<1>3. DOMAIN share = S /\ share = [a \in S |-> share[a]]
  BY Zenon DEF Shares
<1>4. Orders(S, R) /\ \A a \in S : Preceding(S, R, a) = {b \in S : SendToOwners_compare(owned, b, a)}
  BY CompareOrders, Zenon
<1> HIDE DEF piece, share, R
<1>5. ASSUME NEW a \in S
      PROVE  /\ share[a] = Given(amount - Sum(Restrict(piece, Preceding(S, R, a))), piece[a])
             /\ share[a] \in Nat
  <2> DEFINE B == {b \in DOMAIN owned : SendToOwners_compare(owned, b, a)}
  <2>1. Preceding(S, R, a) = B
    BY <1>4, Zenon
  <2>2. [b \in B |-> Piece(owned, amount, b)] = Restrict(piece, B)
    BY <1>1, Zenon DEF Restrict
  <2>3. piece[a] = Piece(owned, amount, a) /\ piece[a] \in Nat
    BY <1>1, <1>2, Zenon
  <2>4. share[a] = Given(amount - Sum(Restrict(piece, B)), piece[a])
    BY <1>1, <2>2, <2>3, Zenon DEF WillReceive, Given
  <2>5. B \in SUBSET S
    BY Zenon
  <2> HIDE DEF B
  <2>6. Sum(Restrict(piece, B)) \in Nat
    BY <1>2, <2>5, RestrictAmounts, Zenon
  <2> QED
    BY <2>1, <2>3, <2>4, <2>6 DEF Given
<1>6. share \in [S -> Nat] /\ InTurn(S, R, amount, piece, share)
  BY <1>3, <1>5, Zenon DEF InTurn
<1>7. Sum(share) = Least(amount, Sum(piece))
  <2>1. Orders(S, R)
    BY <1>4, Zenon
  <2>2. piece \in [S -> Nat] /\ share \in [S -> Nat]
    BY <1>2, <1>6, Zenon
  <2> QED
    BY <1>6, <2>1, <2>2, FirstShares
<1>8. Sum(piece) \in Nat
  BY <1>2, SumType, Zenon
<1> QED
  BY <1>2, <1>6, <1>7, <1>8 DEF Least, share

\* Somebody other than the sender owns tokens.
Owners(t, sender, p) == {b \in Address \ {sender} : Holding(t, b, p) > 0}

\* The receivers share what is sent, if there are any.
LEMMA ReceiversShare ==
  ASSUME NEW t \in Tallied, NEW p \in Property, NEW sender, NEW amount \in Nat, NEW r,
         r = STO_GetReceivers(t, sender, p, amount)
  PROVE  /\ DOMAIN r \subseteq Owners(t, sender, p)
         /\ r \in [DOMAIN r -> Nat]
         /\ Owners(t, sender, p) # {} => Sum(r) = amount
<1> DEFINE S == Owners(t, sender, p)
           owned == [a \in S |-> Holding(t, a, p)]
           share == Shares(owned, amount)
           paid  == {a \in S : share[a] > 0}
<1>1. Numbers(S) /\ S \subseteq Address /\ IsFiniteSet(S)
  <2>1. S \subseteq Address
    BY Zenon DEF Owners
  <2> QED
    BY <2>1, AddressAssumption, FeesAssumption, FS_Subset, Zenon DEF Numbers
<1>2. owned \in [S -> Nat] /\ \A a \in S : owned[a] > 0
  BY HoldingType, Zenon DEF Owners
<1>3. r = [a \in paid |-> share[a]]
  BY Zenon DEF STO_GetReceivers, Owners, Shares
<1>4. CASE S = {}
  BY <1>3, <1>4, Zenon
<1>5. CASE S # {}
  <2>1. PICK o \in S : owned[o] > 0
    BY <1>2, <1>5, Zenon
  <2> HIDE DEF S, owned
  <2>2. share \in [S -> Nat] /\ Sum(share) = amount
    BY <1>1, <1>2, <2>1, SharesOfOwners
  <2> HIDE DEF share
  <2>3. /\ r \in [paid -> Nat] /\ \A a \in paid : r[a] = share[a]
        /\ paid \in SUBSET S /\ \A a \in S \ paid : share[a] = 0
    BY <1>3, <2>2
  <2>4. Sum(r) = Sum(share)
    <3> HIDE DEF paid
    <3> QED
      BY <2>2, <2>3, SumSupport
  <2> QED
    BY <2>2, <2>3, <2>4, Zenon DEF S
<1> QED
  BY <1>4, <1>5, Zenon

-----------------------------------------------------------------------------
(* Paying the receivers *)

\* Pay adds what the receivers get to their balances, and to the total.
LEMMA PayEffect ==
  ASSUME NEW t \in Tallied, NEW p \in Property, NEW r, DOMAIN r \subseteq Address, r \in [DOMAIN r -> Nat]
  PROVE  /\ Pay(t, p, r) \in Tallied
         /\ \A k \in TallyKey : Pay(t, p, r)[k] >= t[k] /\ (k[3] # BALANCE => Pay(t, p, r)[k] = t[k])
         /\ TalliedTokens(Pay(t, p, r), p) = TalliedTokens(t, p) + Sum(r)
         /\ \A q \in Property \ {p} : TalliedTokens(Pay(t, p, r), q) = TalliedTokens(t, q)
<1> DEFINE u == Pay(t, p, r)
           D == DOMAIN r
           rr == [a \in Address |-> IF a \in D THEN r[a] ELSE 0]
<1>1. rr \in [Address -> Nat] /\ (\A a \in D : r[a] = rr[a]) /\ \A a \in Address \ D : rr[a] = 0
  BY Zenon
<1>2. \A a \in Address, q \in Property, ty \in TallyType :
        u[<<a, q, ty>>] = t[<<a, q, ty>>] + IF q = p /\ ty = BALANCE THEN rr[a] ELSE 0
  BY Zenon DEF Pay, TallyKey
<1>3. \A k \in TallyKey : t[k] \in Nat /\ u[k] \in Nat /\ u[k] >= t[k] /\ (k[3] # BALANCE => u[k] = t[k])
  BY DEF Tallied, Pay, TallyKey
<1>4. u \in Tallied
  BY <1>3, Zenon DEF Tallied, Pay
<1>5. ASSUME NEW q \in Property \ {p} PROVE TalliedTokens(u, q) = TalliedTokens(t, q)
  <2>1. \A a \in Address, ty \in TallyType : u[<<a, q, ty>>] = t[<<a, q, ty>>]
    <3>1. \A a \in Address, ty \in TallyType : t[<<a, q, ty>>] \in Nat
      BY HoldingType, Zenon
    <3> HIDE DEF u
    <3> QED
      BY <1>2, <3>1
  <2> HIDE DEF u
  <2> QED
    BY <1>4, <2>1, SameTotal, Zenon
<1>6. TalliedTokens(u, p) = TalliedTokens(t, p) + Sum(r)
  <2> HIDE DEF u, rr, D
  <2>1. Holdings(t, p) \in [Address -> Nat] /\ Holdings(u, p) \in [Address -> Nat]
    BY <1>4, TotalType, Zenon
  <2>2. ASSUME NEW a \in Address PROVE Holdings(u, p)[a] = Holdings(t, p)[a] + rr[a]
    <3>1. /\ Holding(u, a, p) = u[<<a, p, BALANCE>>] + u[<<a, p, SELLOFFER_RESERVE>>]
                                 + u[<<a, p, ACCEPT_RESERVE>>] + u[<<a, p, METADEX_RESERVE>>]
          /\ Holding(t, a, p) = t[<<a, p, BALANCE>>] + t[<<a, p, SELLOFFER_RESERVE>>]
                                 + t[<<a, p, ACCEPT_RESERVE>>] + t[<<a, p, METADEX_RESERVE>>]
      BY <1>4, HoldingType, Zenon
    <3>2. /\ u[<<a, p, BALANCE>>] = t[<<a, p, BALANCE>>] + rr[a]
          /\ \A ty \in {SELLOFFER_RESERVE, ACCEPT_RESERVE, METADEX_RESERVE} :
               u[<<a, p, ty>>] = t[<<a, p, ty>>] + 0
      BY <1>2, Zenon DEF TallyType, BALANCE, SELLOFFER_RESERVE, ACCEPT_RESERVE, METADEX_RESERVE
    <3>3. \A ty \in TallyType : t[<<a, p, ty>>] \in Nat
      BY HoldingType, Zenon
    <3>4. rr[a] \in Nat
      BY <1>1, Zenon
    <3>5. Holding(u, a, p) = Holding(t, a, p) + rr[a]
      BY <3>1, <3>2, <3>3, <3>4 DEF TallyType
    <3> QED
      BY <3>5, Zenon DEF Holdings
  <2>3. Sum(Holdings(u, p)) = Sum(Holdings(t, p)) + Sum(rr)
    BY <1>1, <2>1, <2>2, AddressAssumption, SumAdd
  <2>4. Sum(r) = Sum(rr)
    <3>1. D \in SUBSET Address /\ r \in [D -> Nat]
      BY Zenon DEF D
    <3> QED
      BY <1>1, <3>1, SumSupport
  <2> QED
    BY <2>3, <2>4, Zenon DEF TalliedTokens
<1> QED
  BY <1>3, <1>4, <1>5, <1>6, Zenon

-----------------------------------------------------------------------------
(* The history of a cache *)

IsHistory(h) == DOMAIN h \subseteq Nat /\ IsFiniteSet(DOMAIN h) /\ h \in [DOMAIN h -> Nat]

\* The cache as it was before a block, if no block after it was cached already.
CachedBefore(h, b) == GetCachedAmount(RollBackCache(h, b))

\* Rolled back to the block or further, g has no more cached than h.
NoMoreBefore(g, h, b) == \A j \in Nat : j <= b => CachedBefore(g, j) <= CachedBefore(h, j)

\* What was cached before block j is known from h: nothing is pruned, nothing
\* was ever cached, or an entry of an earlier block is still there.
Determined(h, j) == ~msc_debug_fees \/ DOMAIN h = {} \/ DOMAIN RollBackCache(h, j) # {}

\* What g still knows of the blocks up to b is what h knows.
SameBefore(g, h, b) ==
  \A j \in Nat : j <= b /\ Determined(g, j) => Determined(h, j) /\ CachedBefore(g, j) = CachedBefore(h, j)

\* A finite set of blocks has a last one.
LEMMA LastBlockExists ==
  ASSUME NEW B, Numbers(B), IsFiniteSet(B), B # {}
  PROVE  LastBlock(B) \in B /\ \A c \in B : c <= LastBlock(B)
<1> DEFINE R == {e \in Nat \X Nat : e[1] < e[2]}
<1>1. Orders(B, R)
  BY DEF Orders, Numbers
<1>2. PICK x \in B : \A y \in B \ {x} : <<y, x>> \in R
  <2>1. B \in SUBSET B
    BY Zenon
  <2> HIDE DEF R
  <2> QED
    BY <1>1, <2>1, LastExists
<1>3. ASSUME NEW y \in B PROVE y <= x
  <2>1. CASE y = x
    BY <2>1 DEF Numbers
  <2>2. CASE y # x
    <3>1. <<y, x>> \in R
      <4> HIDE DEF R
      <4> QED
        BY <1>2, <2>2, Zenon
    <3>2. x \in Nat /\ y \in Nat /\ y < x
      BY <3>1, Zenon
    <3> QED
      BY <3>2
  <2> QED
    BY <2>1, <2>2, Zenon
<1> QED
  BY <1>3, Zenon DEF LastBlock

\* The amount in a cache is that of its last block.
LEMMA CachedAt ==
  ASSUME NEW h, IsHistory(h)
  PROVE  /\ GetCachedAmount(h) \in Nat
         /\ \A b \in DOMAIN h : (\A c \in DOMAIN h : c <= b) => GetCachedAmount(h) = h[b]
<1>1. CASE DOMAIN h = {}
  BY <1>1, Zenon DEF GetCachedAmount
<1>2. CASE DOMAIN h # {}
  <2> DEFINE last == LastBlock(DOMAIN h)
  <2>1. last \in DOMAIN h /\ \A c \in DOMAIN h : c <= last
    BY <1>2, LastBlockExists, Zenon DEF IsHistory, Numbers
  <2>2. GetCachedAmount(h) = h[last]
    BY <1>2, Zenon DEF GetCachedAmount
  <2> HIDE DEF last
  <2>3. h[last] \in Nat
    BY <2>1, Zenon DEF IsHistory
  <2>4. ASSUME NEW b \in DOMAIN h, \A c \in DOMAIN h : c <= b PROVE b = last
    <3>1. b \in Nat /\ last \in Nat /\ b <= last /\ last <= b
      BY <2>1, <2>4, Zenon DEF IsHistory
    <3> QED
      BY <3>1
  <2> QED
    BY <2>2, <2>3, <2>4, Zenon
<1> QED
  BY <1>1, <1>2, Zenon

\* Rolling a cache back to a block.
LEMMA RollBackEffect ==
  ASSUME NEW h, IsHistory(h), NEW b \in Nat
  PROVE  /\ IsHistory(RollBackCache(h, b))
         /\ \A c \in DOMAIN RollBackCache(h, b) : c < b /\ c \in DOMAIN h
         /\ \A j \in Nat : j <= b => RollBackCache(RollBackCache(h, b), j) = RollBackCache(h, j)
         /\ (\A c \in DOMAIN h : c < b) => RollBackCache(h, b) = h
<1> DEFINE g == RollBackCache(h, b)
           D == {c \in DOMAIN h : c < b}
<1>1. DOMAIN g = D /\ (\A c \in D : g[c] = h[c]) /\ g = [c \in D |-> h[c]]
  BY Zenon DEF RollBackCache, Restrict
<1>2. IsHistory(g)
  <2>1. IsFiniteSet(D)
    BY FS_Subset, Zenon DEF IsHistory
  <2>2. g \in [D -> Nat]
    BY <1>1, Zenon DEF IsHistory
  <2> QED
    BY <1>1, <2>1, <2>2, Zenon DEF IsHistory
<1>3. ASSUME NEW j \in Nat, j <= b PROVE RollBackCache(g, j) = RollBackCache(h, j)
  <2>1. {c \in DOMAIN g : c < j} = {c \in DOMAIN h : c < j}
    BY <1>1, <1>3 DEF IsHistory
  <2>2. \A c \in {d \in DOMAIN h : d < j} : g[c] = h[c]
    BY <1>1, <1>3 DEF IsHistory
  <2> HIDE DEF g
  <2> QED
    BY <2>1, <2>2, Zenon DEF RollBackCache, Restrict
<1>4. ASSUME \A c \in DOMAIN h : c < b PROVE g = h
  <2>1. D = DOMAIN h
    BY <1>4, Zenon
  <2>2. h = [c \in DOMAIN h |-> h[c]]
    BY Zenon DEF IsHistory
  <2> QED
    BY <1>1, <2>1, <2>2, Zenon
<1> QED
  BY <1>1, <1>2, <1>3, <1>4, Zenon

\* Writing the entry of a block, as AddFee and ClearCache do.
LEMMA WriteEntry ==
  ASSUME NEW h, IsHistory(h), NEW b \in Nat, NEW v \in Nat, NEW g, g = PruneCache(With(h, b, v), b)
  PROVE  /\ IsHistory(g) /\ DOMAIN g \subseteq DOMAIN h \cup {b}
         /\ (\A c \in DOMAIN h : c <= b) => GetCachedAmount(g) = v
         /\ SameBefore(g, h, b) /\ NoMoreBefore(g, h, b)
<1> DEFINE w == With(h, b, v)
<1>1. /\ DOMAIN w = DOMAIN h \cup {b} /\ w[b] = v
      /\ \A c \in DOMAIN h : c # b => w[c] = h[c]
      /\ \A c \in DOMAIN w : w[c] \in Nat
      /\ w = [c \in DOMAIN w |-> w[c]]
  BY Zenon DEF With, IsHistory
<1>2. IsHistory(w)
  <2>1. IsFiniteSet(DOMAIN h \cup {b})
    BY FS_AddElement, Zenon DEF IsHistory
  <2>2. DOMAIN w \subseteq Nat
    BY <1>1, Zenon DEF IsHistory
  <2>3. w \in [DOMAIN w -> Nat]
    <3> HIDE DEF w
    <3> QED
      BY <1>1, Zenon
  <2> QED
    BY <1>1, <2>1, <2>2, <2>3, Zenon DEF IsHistory
<1>3. PICK D : /\ D \subseteq DOMAIN w /\ b \in D /\ g = Restrict(w, D)
               /\ ~msc_debug_fees => D = DOMAIN w
               /\ \A c \in DOMAIN w, d \in D : d <= c => c \in D
  <2>1. CASE msc_debug_fees
    <3> DEFINE D == {c \in DOMAIN w : c >= b - MAX_STATE_HISTORY}
    <3>1. b \in D
      BY <1>1, FeesAssumption
    <3>2. g = Restrict(w, D)
      BY <2>1, Zenon DEF PruneCache
    <3>3. \A c \in DOMAIN w, d \in D : d <= c => c \in D
      BY <1>2, FeesAssumption DEF IsHistory
    <3> QED
      BY <2>1, <3>1, <3>2, <3>3, Zenon
  <2>2. CASE ~msc_debug_fees
    <3>1. g = w
      BY <2>2, Zenon DEF PruneCache
    <3>2. w = Restrict(w, DOMAIN w)
      BY <1>1, Zenon DEF Restrict
    <3> QED
      BY <1>1, <3>1, <3>2, Zenon
  <2> QED
    BY <2>1, <2>2, Zenon
<1> HIDE DEF w
<1>4. DOMAIN g = D /\ \A c \in D : g[c] = w[c]
  BY <1>3, Zenon DEF Restrict
<1>5. IsHistory(g)
  <2>1. IsFiniteSet(D)
    BY <1>2, <1>3, FS_Subset, Zenon DEF IsHistory
  <2>2. g = [c \in D |-> g[c]]
    BY <1>3, <1>4, Zenon DEF Restrict
  <2>3. g \in [D -> Nat]
    BY <1>1, <1>3, <1>4, <2>2, Zenon
  <2> QED
    BY <1>2, <1>3, <1>4, <2>1, <2>3, Zenon DEF IsHistory
<1>6. (\A c \in DOMAIN h : c <= b) => GetCachedAmount(g) = v
  <2> SUFFICES ASSUME \A c \in DOMAIN h : c <= b PROVE GetCachedAmount(g) = v
    BY Zenon
  <2>1. b \in DOMAIN g /\ g[b] = v /\ \A c \in DOMAIN g : c <= b
    BY <1>1, <1>3, <1>4
  <2> QED
    BY <1>5, <2>1, CachedAt, Zenon
<1>7. ASSUME ~msc_debug_fees, NEW j \in Nat, j <= b PROVE RollBackCache(g, j) = RollBackCache(h, j)
  <2>1. {c \in DOMAIN g : c < j} = {c \in DOMAIN h : c < j}
    BY <1>1, <1>3, <1>4, <1>7
  <2>2. \A c \in {d \in DOMAIN h : d < j} : g[c] = h[c]
    BY <1>1, <1>3, <1>4, <1>7
  <2> QED
    BY <2>1, <2>2, Zenon DEF RollBackCache, Restrict
<1>8. ASSUME NEW j \in Nat, j <= b
      PROVE  /\ CachedBefore(g, j) <= CachedBefore(h, j)
             /\ DOMAIN RollBackCache(g, j) # {} =>
                  DOMAIN RollBackCache(h, j) # {} /\ CachedBefore(g, j) = CachedBefore(h, j)
  <2> DEFINE g1 == RollBackCache(g, j)
             h1 == RollBackCache(h, j)
  <2>1. IsHistory(g1) /\ IsHistory(h1)
    BY <1>5, RollBackEffect, Zenon
  <2>2. /\ DOMAIN g1 = {c \in D : c < j} /\ \A c \in DOMAIN g1 : g1[c] = g[c]
        /\ DOMAIN h1 = {c \in DOMAIN h : c < j} /\ \A c \in DOMAIN h1 : h1[c] = h[c]
    BY <1>4, Zenon DEF RollBackCache, Restrict
  <2> HIDE DEF g1, h1
  <2>3. GetCachedAmount(g1) \in Nat /\ GetCachedAmount(h1) \in Nat
    BY <2>1, CachedAt, Zenon
  <2>4. CASE DOMAIN g1 = {}
    <3>1. GetCachedAmount(g1) = 0
      BY <2>4, Zenon DEF GetCachedAmount
    <3> QED
      BY <2>3, <2>4, <3>1 DEF CachedBefore, g1, h1
  <2>5. CASE DOMAIN g1 # {}
    <3>1. PICK c \in DOMAIN g1 : \A d \in DOMAIN g1 : d <= c
      BY <2>1, <2>5, LastBlockExists, Zenon DEF IsHistory, Numbers
    <3>2. c \in Nat /\ c \in D /\ c < j /\ c # b /\ c \in DOMAIN h
      BY <1>1, <1>3, <1>8, <2>1, <2>2 DEF IsHistory
    <3>3. c \in DOMAIN h1 /\ g1[c] = h1[c]
      BY <1>1, <1>4, <2>2, <3>2, Zenon
    <3>4. ASSUME NEW d \in DOMAIN h1 PROVE d <= c
      <4>1. d \in Nat /\ d \in DOMAIN w /\ d < j
        BY <1>1, <2>1, <2>2, Zenon DEF IsHistory
      <4>2. CASE c <= d
        BY <1>3, <2>2, <3>1, <3>2, <4>1, <4>2, Zenon
      <4> QED
        BY <3>2, <4>1, <4>2
    <3>5. GetCachedAmount(g1) = g1[c] /\ GetCachedAmount(h1) = h1[c]
      BY <2>1, <3>1, <3>3, <3>4, CachedAt, Zenon
    <3> QED
      BY <2>3, <3>3, <3>5 DEF CachedBefore, g1, h1
  <2> QED
    BY <2>4, <2>5, Zenon
<1>9. SameBefore(g, h, b)
  <2> SUFFICES ASSUME NEW j \in Nat, j <= b, Determined(g, j)
               PROVE  Determined(h, j) /\ CachedBefore(g, j) = CachedBefore(h, j)
    BY Zenon DEF SameBefore
  <2>1. CASE ~msc_debug_fees
    BY <1>7, <2>1, Zenon DEF Determined, CachedBefore
  <2>2. CASE msc_debug_fees
    <3>1. DOMAIN RollBackCache(g, j) # {}
      BY <1>3, <1>4, <2>2, Zenon DEF Determined
    <3> QED
      BY <1>8, <3>1, Zenon DEF Determined
  <2> QED
    BY <2>1, <2>2, Zenon
<1> QED
  BY <1>1, <1>3, <1>4, <1>5, <1>6, <1>8, <1>9, Zenon DEF NoMoreBefore

-----------------------------------------------------------------------------
(* What an operation on the cache of a property does *)

MSC == COUNOS_PROPERTY_MSC

\* The fee token has an owner, so that somebody gets the fees.
FeeTokenOwned(t) == \E a \in Address : Holding(t, a, MSC) > 0

\* The block is not before the last one that changed the cache.
NotBefore(h, b) == \A c \in DOMAIN h : c <= b

\* e is what becomes of the ledger t and the cache h of p in block b, if n is
\* added to what is held or cached.
Books(t, h, p, b, n, e) ==
  /\ e.tally \in Tallied /\ \A k \in TallyKey : e.tally[k] >= t[k] /\ (k[3] # BALANCE => e.tally[k] = t[k])
  /\ \A q \in Property \ {p} : TalliedTokens(e.tally, q) = TalliedTokens(t, q)
  /\ IsHistory(e.history) /\ DOMAIN e.history \subseteq DOMAIN h \cup {b}
  /\ NotBefore(h, b) => getTotalTokens(e.tally, e.history, p) = getTotalTokens(t, h, p) + n
  /\ SameBefore(e.history, h, b)
  /\ NoMoreBefore(e.history, h, b)

\* A distribution pays out all that is cached.
LEMMA DistributeBooks ==
  ASSUME NEW t \in Tallied, FeeTokenOwned(t), NEW h, IsHistory(h), NEW p \in Property, NEW b \in Nat, NEW e,
         e = DistributeCache(t, h, p, b)
  PROVE  Books(t, h, p, b, 0, e) /\ (NotBefore(h, b) => GetCachedAmount(e.history) = 0)
<1> DEFINE n == GetCachedAmount(h)
           r == STO_GetReceivers(t, NoSender, MSC, n)
<1>1. n \in Nat
  BY CachedAt, Zenon
<1>2. MSC \in Property /\ NoSender \notin Address
  BY FeesAssumption, Zenon DEF MSC, NoSender
<1>3. Owners(t, NoSender, MSC) # {}
  BY <1>2, Zenon DEF Owners, FeeTokenOwned
<1>4. DOMAIN r \subseteq Address /\ r \in [DOMAIN r -> Nat] /\ Sum(r) = n
  <2> HIDE DEF n, r
  <2>1. DOMAIN r \subseteq Owners(t, NoSender, MSC) /\ r \in [DOMAIN r -> Nat] /\ Sum(r) = n
    BY <1>1, <1>2, <1>3, ReceiversShare, Zenon DEF r
  <2> QED
    BY <2>1, Zenon DEF Owners
<1>5. e.tally = Pay(t, p, r) /\ e.history = PruneCache(With(h, b, 0), b)
  BY Zenon DEF DistributeCache, ClearCache, MSC
<1> HIDE DEF r, n
<1>6. /\ e.tally \in Tallied
      /\ \A k \in TallyKey : e.tally[k] >= t[k] /\ (k[3] # BALANCE => e.tally[k] = t[k])
      /\ TalliedTokens(e.tally, p) = TalliedTokens(t, p) + n
      /\ \A q \in Property \ {p} : TalliedTokens(e.tally, q) = TalliedTokens(t, q)
  BY <1>4, <1>5, PayEffect
<1>7. /\ IsHistory(e.history) /\ DOMAIN e.history \subseteq DOMAIN h \cup {b}
      /\ NotBefore(h, b) => GetCachedAmount(e.history) = 0
      /\ SameBefore(e.history, h, b)
      /\ NoMoreBefore(e.history, h, b)
  BY <1>5, WriteEntry, Zenon DEF NotBefore
<1>8. NotBefore(h, b) => getTotalTokens(e.tally, e.history, p) = getTotalTokens(t, h, p) + 0
  <2>1. TalliedTokens(t, p) \in Nat
    BY TotalType, Zenon
  <2> QED
    BY <1>1, <1>6, <1>7, <2>1, Zenon DEF getTotalTokens, n
<1> QED
  BY <1>6, <1>7, <1>8, Zenon DEF Books

\* EvalCache leaves less than the threshold.
LEMMA EvalBooks ==
  ASSUME NEW t \in Tallied, FeeTokenOwned(t), NEW h, IsHistory(h), NEW p \in Property, NEW b \in Nat,
         NEW threshold \in Nat, NEW e, e = EvalCache(t, h, p, threshold, b)
  PROVE  /\ Books(t, h, p, b, 0, e)
         /\ NotBefore(h, b) /\ threshold >= 1 => GetCachedAmount(e.history) < threshold
<1>1. GetCachedAmount(h) \in Nat /\ TalliedTokens(t, p) \in Nat
  BY CachedAt, TotalType, Zenon
<1>2. CASE GetCachedAmount(h) >= threshold
  <2>1. e = DistributeCache(t, h, p, b)
    BY <1>2, Zenon DEF EvalCache
  <2>2. Books(t, h, p, b, 0, e) /\ (NotBefore(h, b) => GetCachedAmount(e.history) = 0)
    BY <2>1, DistributeBooks, Zenon
  <2> QED
    BY <2>2
<1>3. CASE ~(GetCachedAmount(h) >= threshold)
  <2>1. e.tally = t /\ e.history = h
    BY <1>3, Zenon DEF EvalCache
  <2>2. getTotalTokens(t, h, p) = getTotalTokens(t, h, p) + 0
    BY <1>1 DEF getTotalTokens
  <2>3. (\A k \in TallyKey : t[k] >= t[k]) /\ NoMoreBefore(h, h, b) /\ SameBefore(h, h, b)
    <3>1. \A j \in Nat : CachedBefore(h, j) \in Nat
      BY RollBackEffect, CachedAt, Zenon DEF CachedBefore
    <3> QED
      BY <3>1 DEF Tallied, NoMoreBefore, SameBefore
  <2>4. Books(t, h, p, b, 0, e)
    BY <2>1, <2>2, <2>3, Zenon DEF Books
  <2> QED
    BY <1>1, <1>3, <2>1, <2>4
<1> QED
  BY <1>2, <1>3, Zenon

\* AddFee caches the fee first.
LEMMA AddFeeBooks ==
  ASSUME NEW t \in Tallied, FeeTokenOwned(t), NEW h, IsHistory(h), NEW p \in Property, NEW b \in Nat,
         NEW threshold \in Nat, NEW fee \in Nat, NEW e, e = AddFee(t, h, p, threshold, b, fee)
  PROVE  /\ Books(t, h, p, b, fee, e)
         /\ NotBefore(h, b) /\ threshold >= 1 => GetCachedAmount(e.history) < threshold
<1> DEFINE n == GetCachedAmount(h) + fee
           g == PruneCache(With(h, b, n), b)
<1>1. GetCachedAmount(h) \in Nat /\ TalliedTokens(t, p) \in Nat /\ n \in Nat
  BY CachedAt, TotalType
<1>2. e = EvalCache(t, g, p, threshold, b)
  BY Zenon DEF AddFee
<1>3. /\ IsHistory(g) /\ DOMAIN g \subseteq DOMAIN h \cup {b}
      /\ NotBefore(h, b) => GetCachedAmount(g) = n
      /\ SameBefore(g, h, b)
      /\ NoMoreBefore(g, h, b)
  <2>1. g = PruneCache(With(h, b, n), b) /\ n \in Nat
    BY <1>1, Zenon
  <2> HIDE DEF n, g
  <2>2. /\ IsHistory(g) /\ DOMAIN g \subseteq DOMAIN h \cup {b}
        /\ (\A c \in DOMAIN h : c <= b) => GetCachedAmount(g) = n
        /\ SameBefore(g, h, b)
        /\ NoMoreBefore(g, h, b)
    BY <2>1, WriteEntry
  <2> QED
    BY <2>2, Zenon DEF NotBefore
<1> HIDE DEF g
<1>4. /\ Books(t, g, p, b, 0, e)
      /\ NotBefore(g, b) /\ threshold >= 1 => GetCachedAmount(e.history) < threshold
  BY <1>2, <1>3, EvalBooks, Zenon
<1>5. NotBefore(h, b) => NotBefore(g, b)
  BY <1>3 DEF NotBefore
<1>6. NotBefore(h, b) => getTotalTokens(e.tally, e.history, p) = getTotalTokens(t, h, p) + fee
  <2> SUFFICES ASSUME NotBefore(h, b)
               PROVE  getTotalTokens(e.tally, e.history, p) = getTotalTokens(t, h, p) + fee
    BY Zenon
  <2>1. getTotalTokens(e.tally, e.history, p) = getTotalTokens(t, g, p) + 0
    BY <1>4, <1>5, Zenon DEF Books
  <2> QED
    BY <1>1, <1>3, <2>1 DEF getTotalTokens
<1>7. DOMAIN e.history \subseteq DOMAIN h \cup {b}
  BY <1>3, <1>4, Zenon DEF Books
<1>8. SameBefore(e.history, h, b)
  BY <1>3, <1>4, Zenon DEF Books, SameBefore
<1>9. NoMoreBefore(e.history, h, b)
  <2>1. NoMoreBefore(e.history, g, b) /\ IsHistory(e.history)
    BY <1>4, Zenon DEF Books
  <2>2. \A j \in Nat : CachedBefore(h, j) \in Nat /\ CachedBefore(g, j) \in Nat /\ CachedBefore(e.history, j) \in Nat
    BY <1>3, <2>1, RollBackEffect, CachedAt, Zenon DEF CachedBefore
  <2> QED
    BY <1>3, <2>1, <2>2 DEF NoMoreBefore
<1> QED
  BY <1>4, <1>5, <1>6, <1>7, <1>8, <1>9, Zenon DEF Books
=============================================================================
