---------------------------- MODULE LedgerLemmas ----------------------------
(***************************************************************************)
(* What the proofs about the components share: the laws of Sum, of the     *)
(* token ledger and of maps.                                               *)
(***************************************************************************)
EXTENDS Tally, Maps, FiniteSetTheorems, WellFoundedInduction, TLAPS

-----------------------------------------------------------------------------
(* Sums *)

\* The units of one holder are as many as the amount it holds.
LEMMA UnitsOfCount ==
  ASSUME NEW f, NEW x, f[x] \in Nat
  PROVE  /\ IsFiniteSet(UnitsOf(f, x))
         /\ Cardinality(UnitsOf(f, x)) = f[x]
<1>1. IsFiniteSet({x}) /\ Cardinality({x}) = 1
  BY FS_Singleton, Zenon
<1>2. IsFiniteSet(1..f[x]) /\ Cardinality(1..f[x]) = f[x]
  BY FS_Interval
<1> DEFINE I == 1..f[x]
<1> HIDE DEF I
<1>3. /\ IsFiniteSet({x} \X I)
      /\ Cardinality({x} \X I) = Cardinality({x}) * Cardinality(I)
  BY <1>1, <1>2, FS_Product, Zenon DEF I
<1>4. Cardinality({x}) * Cardinality(I) = f[x]
  BY <1>1, <1>2 DEF I
<1> QED
  BY <1>3, <1>4, Zenon DEF UnitsOf, I

\* A function of amounts over finitely many holders has finitely many units.
LEMMA UnitsFinite ==
  ASSUME NEW S, IsFiniteSet(S), NEW f \in [S -> Nat]
  PROVE  IsFiniteSet(Units(f))
<1> DEFINE U == {UnitsOf(f, x) : x \in S}
           g == [x \in S |-> UnitsOf(f, x)]
<1>1. g \in Surjection(S, U)
  BY Zenon DEF Surjection
<1>2. IsFiniteSet(U)
  BY <1>1, FS_Surjection, Zenon
<1>3. \A T \in U : IsFiniteSet(T)
  BY UnitsOfCount, Zenon
<1>4. IsFiniteSet(UNION U)
  BY <1>2, <1>3, FS_UNION, Zenon
<1> QED
  BY <1>4, Zenon DEF Units

\* The total is a natural number.
LEMMA SumType ==
  ASSUME NEW S, IsFiniteSet(S), NEW f \in [S -> Nat]
  PROVE  Sum(f) \in Nat
BY UnitsFinite, FS_CardinalityType, Zenon DEF Sum

\* Which units there are.
LEMMA UnitsMember ==
  ASSUME NEW S, NEW f \in [S -> Nat], NEW u
  PROVE  u \in Units(f) <=> \E x \in S : \E i \in Nat : u = <<x, i>> /\ 1 <= i /\ i <= f[x]
BY DEF Units, UnitsOf

\* If every holder's amount comes from one of two functions, the totals add up.
LEMMA SumSplit ==
  ASSUME NEW S, IsFiniteSet(S),
         NEW f \in [S -> Nat], NEW g \in [S -> Nat], NEW h \in [S -> Nat],
         \A x \in S : \/ g[x] = 0 /\ f[x] = h[x]
                      \/ h[x] = 0 /\ f[x] = g[x]
  PROVE  Sum(f) = Sum(g) + Sum(h)
<1>1. Units(f) = Units(g) \cup Units(h)
  <2>1. ASSUME NEW u \in Units(f) PROVE u \in Units(g) \cup Units(h)
    <3>1. PICK x \in S, i \in Nat : u = <<x, i>> /\ 1 <= i /\ i <= f[x]
      BY <2>1, UnitsMember
    <3>2. i <= g[x] \/ i <= h[x]
      BY <3>1, Zenon
    <3> QED
      BY <3>1, <3>2, UnitsMember, Zenon
  <2>2. ASSUME NEW u \in Units(g) PROVE u \in Units(f)
    <3>1. PICK x \in S, i \in Nat : u = <<x, i>> /\ 1 <= i /\ i <= g[x]
      BY <2>2, UnitsMember
    <3>2. i <= f[x]
      BY <3>1
    <3> QED
      BY <3>1, <3>2, UnitsMember, Zenon
  <2>3. ASSUME NEW u \in Units(h) PROVE u \in Units(f)
    <3>1. PICK x \in S, i \in Nat : u = <<x, i>> /\ 1 <= i /\ i <= h[x]
      BY <2>3, UnitsMember, Zenon
    <3>2. i <= f[x]
      BY <3>1
    <3> QED
      BY <3>1, <3>2, UnitsMember, Zenon
  <2> QED
    BY <2>1, <2>2, <2>3, Zenon
<1>2. Units(g) \cap Units(h) = {}
  <2> SUFFICES ASSUME NEW u \in Units(g), u \in Units(h) PROVE FALSE
    BY Zenon
  <2>1. PICK x \in S, i \in Nat : u = <<x, i>> /\ 1 <= i /\ i <= g[x]
    BY UnitsMember
  <2>2. PICK y \in S, j \in Nat : u = <<y, j>> /\ 1 <= j /\ j <= h[y]
    BY UnitsMember, Zenon
  <2>3. x = y /\ i = j
    BY <2>1, <2>2
  <2> QED
    BY <2>1, <2>2, <2>3
<1>3. IsFiniteSet(Units(g)) /\ IsFiniteSet(Units(h))
  BY UnitsFinite, Zenon
<1>4. Cardinality(Units(g)) \in Nat /\ Cardinality(Units(h)) \in Nat
  BY <1>3, FS_CardinalityType, Zenon
<1>5. Cardinality(Units(g) \cup Units(h))
        = Cardinality(Units(g)) + Cardinality(Units(h)) - Cardinality(Units(g) \cap Units(h))
  BY <1>3, FS_Union, Zenon
<1>6. Cardinality(Units(g) \cap Units(h)) = 0
  BY <1>2, FS_EmptySet, Zenon
<1>7. Cardinality(Units(f)) = Cardinality(Units(g)) + Cardinality(Units(h))
  BY <1>1, <1>4, <1>5, <1>6
<1> QED
  BY <1>7, Zenon DEF Sum

\* A function that is zero except at one holder sums to that holder's amount.
LEMMA SumSingle ==
  ASSUME NEW S, NEW f \in [S -> Nat], NEW x \in S, \A y \in S \ {x} : f[y] = 0
  PROVE  Sum(f) = f[x]
<1>1. Units(f) = UnitsOf(f, x)
  <2>1. ASSUME NEW u \in Units(f) PROVE u \in UnitsOf(f, x)
    <3>1. PICK y \in S, i \in Nat : u = <<y, i>> /\ 1 <= i /\ i <= f[y]
      BY <2>1, UnitsMember, Zenon
    <3>2. y = x
      BY <3>1
    <3> QED
      BY <3>1, <3>2 DEF UnitsOf
  <2>2. ASSUME NEW u \in UnitsOf(f, x) PROVE u \in Units(f)
    BY <2>2, Zenon DEF Units
  <2> QED
    BY <2>1, <2>2, Zenon
<1> QED
  BY <1>1, UnitsOfCount, Zenon DEF Sum

\* Changing one holder's amount changes the total by the same difference.
LEMMA SumUpdate ==
  ASSUME NEW S, IsFiniteSet(S), NEW f \in [S -> Nat], NEW x \in S, NEW v \in Nat
  PROVE  /\ Sum([f EXCEPT ![x] = v]) = Sum(f) - f[x] + v
         /\ f[x] <= Sum(f)
<1> DEFINE rest == [f EXCEPT ![x] = 0]
           old  == [y \in S |-> IF y = x THEN f[x] ELSE 0]
           new  == [y \in S |-> IF y = x THEN v ELSE 0]
           fv   == [f EXCEPT ![x] = v]
<1>1. /\ rest \in [S -> Nat] /\ old \in [S -> Nat] /\ new \in [S -> Nat] /\ fv \in [S -> Nat]
  BY Zenon
<1>2. Sum(f) = Sum(rest) + Sum(old)
  <2>1. \A y \in S : \/ rest[y] = 0 /\ f[y] = old[y]
                     \/ old[y] = 0 /\ f[y] = rest[y]
    BY Zenon
  <2> HIDE DEF rest, old
  <2> QED
    BY <1>1, <2>1, SumSplit
<1>3. Sum(fv) = Sum(rest) + Sum(new)
  <2>1. \A y \in S : \/ rest[y] = 0 /\ fv[y] = new[y]
                     \/ new[y] = 0 /\ fv[y] = rest[y]
    BY Zenon
  <2> HIDE DEF rest, new, fv
  <2> QED
    BY <1>1, <2>1, SumSplit
<1>4. Sum(old) = f[x]
  <2>1. old[x] = f[x] /\ \A y \in S \ {x} : old[y] = 0
    BY Zenon
  <2> HIDE DEF old
  <2> QED
    BY <1>1, <2>1, SumSingle
<1>5. Sum(new) = v
  <2>1. new[x] = v /\ \A y \in S \ {x} : new[y] = 0
    BY Zenon
  <2> HIDE DEF new
  <2> QED
    BY <1>1, <2>1, SumSingle
<1>6. Sum(rest) \in Nat
  BY <1>1, SumType, Zenon
<1> HIDE DEF rest, old, new
<1> QED
  BY <1>2, <1>3, <1>4, <1>5, <1>6

\* A function of amounts is zero everywhere exactly if its total is zero.
LEMMA SumZero ==
  ASSUME NEW S, IsFiniteSet(S), NEW f \in [S -> Nat]
  PROVE  Sum(f) = 0 <=> \A x \in S : f[x] = 0
<1>1. ASSUME Sum(f) = 0, NEW x \in S PROVE f[x] = 0
  BY <1>1, SumUpdate
<1>2. ASSUME \A x \in S : f[x] = 0 PROVE Sum(f) = 0
  <2>1. Units(f) = {}
    BY <1>2, UnitsMember
  <2> QED
    BY <2>1, FS_EmptySet, Zenon DEF Sum
<1> QED
  BY <1>1, <1>2, Zenon

\* One more term is added to a sum.
LEMMA SumExtend ==
  ASSUME NEW S, IsFiniteSet(S), NEW f \in [S -> Nat], NEW x, x \notin S, NEW v \in Nat,
         NEW g \in [S \cup {x} -> Nat], g[x] = v, \A y \in S : g[y] = f[y]
  PROVE  Sum(g) = Sum(f) + v
<1>1. Units(g) = Units(f) \cup UnitsOf(g, x)
  BY DEF Units, UnitsOf
<1>2. Units(f) \cap UnitsOf(g, x) = {}
  BY DEF Units, UnitsOf
<1>3. /\ IsFiniteSet(Units(f)) /\ IsFiniteSet(UnitsOf(g, x))
      /\ Cardinality(UnitsOf(g, x)) = v
  BY UnitsFinite, UnitsOfCount, Zenon
<1>4. Cardinality(Units(f)) \in Nat
  BY <1>3, FS_CardinalityType, Zenon
<1>5. Cardinality(Units(f) \cup UnitsOf(g, x))
        = Cardinality(Units(f)) + Cardinality(UnitsOf(g, x)) - Cardinality(Units(f) \cap UnitsOf(g, x))
  BY <1>3, FS_Union, Zenon
<1>6. Cardinality(Units(f) \cap UnitsOf(g, x)) = 0
  BY <1>2, FS_EmptySet, Zenon
<1>7. Cardinality(Units(g)) = Cardinality(Units(f)) + v
  BY <1>1, <1>3, <1>4, <1>5, <1>6
<1> QED
  BY <1>7, Zenon DEF Sum

\* A total over nobody is nothing.
LEMMA SumEmpty ==
  ASSUME NEW f \in [{} -> Nat]
  PROVE  Sum(f) = 0
<1>1. IsFiniteSet({})
  BY FS_EmptySet, Zenon
<1> QED
  BY <1>1, SumZero, Zenon

\* Smaller amounts have a smaller total.
LEMMA SumMonotone ==
  ASSUME NEW S, IsFiniteSet(S), NEW f \in [S -> Nat], NEW g \in [S -> Nat],
         \A x \in S : f[x] <= g[x]
  PROVE  Sum(f) <= Sum(g)
<1>1. Units(f) \subseteq Units(g)
  <2>1. ASSUME NEW u \in Units(f) PROVE u \in Units(g)
    <3>1. PICK x \in S, i \in Nat : u = <<x, i>> /\ 1 <= i /\ i <= f[x]
      BY <2>1, UnitsMember, Zenon
    <3>2. f[x] \in Nat /\ g[x] \in Nat /\ f[x] <= g[x]
      BY Zenon
    <3>3. i <= g[x]
      BY <3>1, <3>2
    <3> QED
      BY <3>1, <3>3, UnitsMember, Zenon
  <2> QED
    BY <2>1, Zenon
<1>2. IsFiniteSet(Units(g))
  BY UnitsFinite, Zenon
<1> QED
  BY <1>1, <1>2, FS_Subset, Zenon DEF Sum

\* A set of natural numbers has a least element.
LEMMA LeastNumber ==
  ASSUME NEW B \in SUBSET Nat, B # {}
  PROVE  \E m \in B : \A k \in B : m <= k
<1>1. IsWellFoundedOn(OpToRel(<, Nat), Nat)
  BY NatLessThanWellFounded, Zenon
<1>2. PICK m \in B : \A k \in B : ~(<<k, m>> \in OpToRel(<, Nat))
  BY <1>1, WFMin, Zenon
<1>3. ASSUME NEW k \in B PROVE m <= k
  <2>1. ~(k < m)
    BY <1>2, Zenon DEF OpToRel
  <2> QED
    BY <2>1
<1> QED
  BY <1>3, Zenon

\* A finite set has a first element in any strict order.
LEMMA FirstExists ==
  ASSUME NEW S, IsFiniteSet(S), S # {}, NEW R,
         \A x \in S : <<x, x>> \notin R,
         \A x, y, z \in S : <<x, y>> \in R /\ <<y, z>> \in R => <<x, z>> \in R
  PROVE  \E x \in S : \A y \in S : <<y, x>> \notin R
<1> DEFINE Down(x) == {y \in S : <<y, x>> \in R}
           T       == {Down(x) : x \in S}
<1>1. IsWellFoundedOn(StrictSubsetOrdering(S), FiniteSubsetsOf(S))
  BY FS_StrictSubsetOrderingWellFounded, Zenon
<1>2. T \subseteq FiniteSubsetsOf(S) /\ T # {}
  <2>1. FiniteSubsetsOf(S) = SUBSET S
    BY FS_FiniteSubsetsOfFinite, Zenon
  <2>2. PICK x \in S : TRUE
    BY Zenon
  <2>3. Down(x) \in T
    BY Zenon
  <2>4. T \subseteq SUBSET S
    BY ZenonT(30)
  <2> QED
    BY <2>1, <2>3, <2>4, Zenon
<1>3. PICK D \in T : \A E \in T : ~(<<E, D>> \in StrictSubsetOrdering(S))
  <2> HIDE DEF T
  <2> QED
    BY <1>1, <1>2, WFMin, Zenon
<1>4. PICK x \in S : D = Down(x)
  BY Zenon
<1>5. ASSUME NEW y \in S, <<y, x>> \in R PROVE FALSE
  <2>1. Down(y) \subseteq Down(x)
    BY <1>5, Zenon
  <2>2. y \in Down(x) /\ y \notin Down(y)
    BY <1>5, Zenon
  <2>3. <<Down(y), Down(x)>> \in StrictSubsetOrdering(S)
    BY <2>1, <2>2, Zenon DEF StrictSubsetOrdering
  <2> QED
    BY <1>3, <1>4, <2>3
<1> QED
  BY <1>5, Zenon

\* A total is that of the others and what one holds.
LEMMA SumWithout ==
  ASSUME NEW S, IsFiniteSet(S), NEW f \in [S -> Nat], NEW x \in S,
         NEW h \in [S \ {x} -> Nat], \A y \in S \ {x} : h[y] = f[y]
  PROVE  Sum(f) = Sum(h) + f[x]
<1> DEFINE E == S \ {x}
           v == f[x]
<1>1. /\ h \in [E -> Nat] /\ x \notin E /\ v \in Nat
      /\ f \in [E \cup {x} -> Nat] /\ f[x] = v
      /\ \A y \in E : f[y] = h[y]
  <2>1. E \cup {x} = S
    BY Zenon
  <2> QED
    BY <2>1, Zenon
<1>2. IsFiniteSet(E)
  BY FS_Subset, Zenon
<1>3. Sum(f) = Sum(h) + v
  <2> HIDE DEF E, v
  <2> QED
    BY <1>1, <1>2, SumExtend
<1> QED
  BY <1>3, Zenon

\* g is f, each value k times.
Multiple(g, f, k) == \A x \in DOMAIN f : g[x] = f[x] * k

\* A total of amounts that are all multiplied by k.
LEMMA SumScale ==
  ASSUME NEW S, IsFiniteSet(S), NEW f \in [S -> Nat], NEW g \in [S -> Nat], NEW k \in Nat,
         Multiple(g, f, k)
  PROVE  Sum(g) = Sum(f) * k
<1> DEFINE F(A) == [x \in A |-> f[x]]
           G(A) == [x \in A |-> g[x]]
           Bad  == {A \in SUBSET S : Sum(G(A)) # Sum(F(A)) * k}
<1>1. SUFFICES ASSUME Bad # {} PROVE FALSE
  <2>1. S \notin Bad
    BY <1>1, Zenon
  <2>2. F(S) = f /\ G(S) = g
    BY Zenon
  <2> QED
    BY <2>1, <2>2, Zenon
<1>2. IsWellFoundedOn(StrictSubsetOrdering(S), FiniteSubsetsOf(S)) /\ FiniteSubsetsOf(S) = SUBSET S
  BY FS_StrictSubsetOrderingWellFounded, FS_FiniteSubsetsOfFinite, Zenon
<1>3. PICK A \in Bad : \A E \in Bad : ~(<<E, A>> \in StrictSubsetOrdering(S))
  <2>1. Bad \subseteq SUBSET S
    BY Zenon
  <2> HIDE DEF Bad
  <2> QED
    BY <1>1, <1>2, <2>1, WFMin
<1>4. A \in SUBSET S /\ Sum(G(A)) # Sum(F(A)) * k
  BY <1>3, Zenon
<1>5. ASSUME NEW E \in SUBSET S PROVE F(E) \in [E -> Nat] /\ G(E) \in [E -> Nat] /\ IsFiniteSet(E)
  <2>1. IsFiniteSet(E)
    BY <1>5, FS_Subset, Zenon
  <2> QED
    BY <1>5, <2>1, Zenon
<1>6. CASE A = {}
  <2>1. Sum(G(A)) = 0 /\ Sum(F(A)) = 0
    <3>1. F({}) \in [{} -> Nat] /\ G({}) \in [{} -> Nat]
      BY Zenon
    <3> QED
      BY <1>6, <3>1, SumEmpty, Zenon
  <2> QED
    BY <1>4, <2>1
<1>7. CASE A # {}
  <2>1. PICK x \in A : TRUE
    BY <1>7, Zenon
  <2> DEFINE E == A \ {x}
  <2>2. E \in SUBSET S /\ x \notin E /\ A = E \cup {x} /\ x \in S
    BY <1>4, Zenon
  <2>3. <<E, A>> \in StrictSubsetOrdering(S)
    BY <1>4, <2>2, Zenon DEF StrictSubsetOrdering
  <2>4. Sum(G(E)) = Sum(F(E)) * k
    BY <1>3, <2>2, <2>3, Zenon
  <2>5. PICK fa \in [A -> Nat] : fa = F(A)
    BY <1>4, <1>5, Zenon
  <2>6. PICK ga \in [A -> Nat] : ga = G(A)
    BY <1>4, <1>5, Zenon
  <2>7. PICK fe \in [A \ {x} -> Nat] : fe = F(E)
    BY <2>2, <1>5, Zenon
  <2>8. PICK ge \in [A \ {x} -> Nat] : ge = G(E)
    BY <2>2, <1>5, Zenon
  <2>9. /\ \A y \in A \ {x} : fe[y] = fa[y]
        /\ \A y \in A \ {x} : ge[y] = ga[y]
    BY <2>5, <2>6, <2>7, <2>8, Zenon
  <2>10. IsFiniteSet(A) /\ IsFiniteSet(A \ {x})
    BY <1>4, <1>5, <2>2, Zenon
  <2>11. Sum(fa) = Sum(fe) + fa[x] /\ Sum(ga) = Sum(ge) + ga[x]
    <3> HIDE DEF Bad, F, G, E
    <3>1. Sum(fa) = Sum(fe) + fa[x]
      BY <2>9, <2>10, SumWithout
    <3>2. Sum(ga) = Sum(ge) + ga[x]
      BY <2>9, <2>10, SumWithout
    <3> QED
      BY <3>1, <3>2, Zenon
  <2>12. Sum(fe) \in Nat
    BY <2>10, SumType, Zenon
  <2> DEFINE q == Sum(fe)
             v == fa[x]
  <2>13. ga[x] = v * k /\ v \in Nat /\ q \in Nat
    BY <2>2, <2>5, <2>6, <2>12, Zenon DEF Multiple
  <2>14. Sum(ge) = q * k
    BY <2>4, <2>7, <2>8, Zenon
  <2>15. (q + v) * k = q * k + v * k
    <3> HIDE DEF q, v
    <3> QED
      BY <2>13
  <2> QED
    BY <1>4, <2>5, <2>6, <2>11, <2>13, <2>14, <2>15, Zenon
<1> QED
  BY <1>6, <1>7, Zenon

\* Part of a function of amounts.
LEMMA RestrictAmounts ==
  ASSUME NEW S, IsFiniteSet(S), NEW f \in [S -> Nat], NEW B \in SUBSET S
  PROVE  /\ IsFiniteSet(B) /\ Restrict(f, B) \in [B -> Nat]
         /\ \A x \in B : Restrict(f, B)[x] = f[x]
         /\ Sum(Restrict(f, B)) \in Nat
<1>1. IsFiniteSet(B)
  BY FS_Subset, Zenon
<1>2. Restrict(f, B) \in [B -> Nat] /\ \A x \in B : Restrict(f, B)[x] = f[x]
  BY Zenon DEF Restrict
<1> QED
  BY <1>1, <1>2, SumType, Zenon

\* The total of a part is that of the others in it and what one holds.
LEMMA RestrictWithout ==
  ASSUME NEW S, IsFiniteSet(S), NEW f \in [S -> Nat], NEW B \in SUBSET S, NEW x \in B
  PROVE  Sum(Restrict(f, B)) = Sum(Restrict(f, B \ {x})) + f[x]
<1>1. PICK h \in [B \ {x} -> Nat] : h = Restrict(f, B \ {x}) /\ \A y \in B \ {x} : h[y] = f[y]
  BY RestrictAmounts
<1>2. PICK g \in [B -> Nat] : g = Restrict(f, B) /\ \A y \in B : g[y] = f[y]
  BY RestrictAmounts
<1>3. IsFiniteSet(B)
  BY FS_Subset, Zenon
<1>4. \A y \in B \ {x} : h[y] = g[y]
  BY <1>1, <1>2, Zenon
<1>5. Sum(g) = Sum(h) + g[x]
  <2> DEFINE E == B \ {x}
             v == g[x]
  <2>1. /\ h \in [E -> Nat] /\ x \notin E /\ v \in Nat
        /\ g \in [E \cup {x} -> Nat] /\ g[x] = v
        /\ \A y \in E : g[y] = h[y]
    <3>1. E \cup {x} = B
      BY Zenon
    <3> QED
      BY <1>4, <3>1, Zenon
  <2>2. IsFiniteSet(E)
    BY <1>3, FS_Subset, Zenon
  <2>3. Sum(g) = Sum(h) + v
    <3> HIDE DEF E, v
    <3> QED
      BY <2>1, <2>2, SumExtend
  <2> QED
    BY <2>3, Zenon
<1> QED
  BY <1>1, <1>2, <1>5, Zenon

\* Who holds nothing does not count.
LEMMA SumSupport ==
  ASSUME NEW S, NEW f \in [S -> Nat], NEW P \in SUBSET S, \A x \in S \ P : f[x] = 0,
         NEW g \in [P -> Nat], \A x \in P : g[x] = f[x]
  PROVE  Sum(g) = Sum(f)
<1>1. ASSUME NEW u PROVE u \in Units(g) <=> u \in Units(f)
  <2>1. u \in Units(f) <=> \E x \in S : \E i \in Nat : u = <<x, i>> /\ 1 <= i /\ i <= f[x]
    BY UnitsMember
  <2>2. u \in Units(g) <=> \E x \in P : \E i \in Nat : u = <<x, i>> /\ 1 <= i /\ i <= g[x]
    BY UnitsMember
  <2>3. \A x \in S : \A i \in Nat : 1 <= i /\ i <= f[x] => x \in P
    OBVIOUS
  <2> QED
    BY <2>1, <2>2, <2>3, Zenon
<1>2. Units(g) = Units(f)
  BY <1>1, Zenon
<1> QED
  BY <1>2, Zenon DEF Sum

\* The total of amounts that are added to each other.
LEMMA SumAdd ==
  ASSUME NEW S, IsFiniteSet(S), NEW f \in [S -> Nat], NEW g \in [S -> Nat], NEW h \in [S -> Nat],
         \A x \in S : h[x] = f[x] + g[x]
  PROVE  Sum(h) = Sum(f) + Sum(g)
<1> DEFINE F(B) == Sum(Restrict(f, B))
           G(B) == Sum(Restrict(g, B))
           H(B) == Sum(Restrict(h, B))
           Bad  == {B \in SUBSET S : H(B) # F(B) + G(B)}
<1>1. SUFFICES ASSUME Bad # {} PROVE FALSE
  <2>1. S \notin Bad
    BY <1>1, Zenon
  <2>2. Restrict(f, S) = f /\ Restrict(g, S) = g /\ Restrict(h, S) = h
    BY Zenon DEF Restrict
  <2> QED
    BY <2>1, <2>2, Zenon
<1>2. IsWellFoundedOn(StrictSubsetOrdering(S), FiniteSubsetsOf(S)) /\ FiniteSubsetsOf(S) = SUBSET S
  BY FS_StrictSubsetOrderingWellFounded, FS_FiniteSubsetsOfFinite, Zenon
<1>3. PICK B \in Bad : \A E \in Bad : ~(<<E, B>> \in StrictSubsetOrdering(S))
  <2>1. Bad \subseteq SUBSET S
    BY Zenon
  <2> HIDE DEF Bad
  <2> QED
    BY <1>1, <1>2, <2>1, WFMin
<1>4. B \in SUBSET S /\ H(B) # F(B) + G(B)
  BY <1>3, Zenon
<1>5. B # {}
  <2>1. Restrict(f, {}) \in [{} -> Nat] /\ Restrict(g, {}) \in [{} -> Nat] /\ Restrict(h, {}) \in [{} -> Nat]
    BY Zenon DEF Restrict
  <2>2. F({}) = 0 /\ G({}) = 0 /\ H({}) = 0
    BY <2>1, SumEmpty, Zenon
  <2> QED
    BY <1>4, <2>2
<1>6. PICK x \in B : TRUE
  BY <1>5, Zenon
<1> DEFINE E == B \ {x}
<1>7. x \in S /\ E \in SUBSET S /\ <<E, B>> \in StrictSubsetOrdering(S)
  BY <1>4, Zenon DEF StrictSubsetOrdering
<1>8. H(E) = F(E) + G(E)
  BY <1>3, <1>7, Zenon
<1>9. F(B) = F(E) + f[x] /\ G(B) = G(E) + g[x] /\ H(B) = H(E) + h[x]
  <2>1. F(B) = F(E) + f[x]
    BY <1>4, RestrictWithout
  <2>2. G(B) = G(E) + g[x]
    BY <1>4, RestrictWithout
  <2>3. H(B) = H(E) + h[x]
    BY <1>4, RestrictWithout, Zenon
  <2> QED
    BY <2>1, <2>2, <2>3, Zenon
<1>10. F(E) \in Nat /\ G(E) \in Nat /\ f[x] \in Nat /\ g[x] \in Nat /\ h[x] = f[x] + g[x]
  BY <1>7, RestrictAmounts, Zenon
<1>11. H(B) # F(B) + G(B)
  BY <1>4, Zenon
<1> HIDE DEF Bad, F, G, H, E
<1> QED
  BY <1>8, <1>9, <1>10, <1>11

-----------------------------------------------------------------------------
(* Arithmetic *)

\* The quotient of natural numbers, by its defining inequalities.
LEMMA DivFacts ==
  ASSUME NEW a \in Nat, NEW b \in Nat \ {0}
  PROVE  /\ a \div b \in Nat
         /\ b * (a \div b) <= a
         /\ a < b * (a \div b) + b
OBVIOUS

\* Products of natural numbers.
LEMMA ProductFacts ==
  ASSUME NEW a \in Nat, NEW b \in Nat
  PROVE  a * b \in Nat /\ a * b = b * a
OBVIOUS

\* Products keep the order.
LEMMA ProductMonotone ==
  ASSUME NEW a \in Nat, NEW b \in Nat, NEW c \in Nat, a <= b
  PROVE  a * c <= b * c
OBVIOUS

\* A quotient is at least what divides evenly, and below what does not fit.
LEMMA DivBounds ==
  ASSUME NEW a \in Nat, NEW b \in Nat \ {0}, NEW c \in Nat
  PROVE  /\ c * b <= a => c <= a \div b
         /\ a < (c + 1) * b => a \div b <= c
<1> DEFINE q == a \div b
<1>1. q \in Nat /\ b * q <= a /\ a < b * q + b
  BY DivFacts, Zenon
<1> HIDE DEF q
<1>2. ASSUME c * b <= a, ~(c <= q) PROVE FALSE
  <2>1. (q + 1) * b <= c * b
    BY <1>1, <1>2, ProductMonotone
  <2>2. (q + 1) * b = b * q + b
    BY <1>1
  <2> QED
    BY <1>1, <1>2, <2>1, <2>2
<1>3. ASSUME a < (c + 1) * b, ~(q <= c) PROVE FALSE
  <2>1. (c + 1) * b <= q * b
    BY <1>1, <1>3, ProductMonotone
  <2>2. q * b = b * q
    BY <1>1
  <2> QED
    BY <1>1, <1>3, <2>1, <2>2
<1> QED
  BY <1>2, <1>3, Zenon DEF q

-----------------------------------------------------------------------------
(* The ledger *)

\* A ledger without negative entries; nothing is said of their size yet.
Tallied == [TallyKey -> Nat]

SameHoldings(t, u) == \A a \in Address, p \in Property : Holding(u, a, p) = Holding(t, a, p)

\* The amounts of an address of which its holding consists.
LEMMA HoldingType ==
  ASSUME NEW t \in Tallied, NEW a \in Address, NEW p \in Property
  PROVE  /\ \A ty \in TallyType : t[<<a, p, ty>>] \in Nat
         /\ Holding(t, a, p) \in Nat
         /\ \A ty \in TallyType : t[<<a, p, ty>>] <= Holding(t, a, p)
         /\ Holding(t, a, p) = t[<<a, p, BALANCE>>] + t[<<a, p, SELLOFFER_RESERVE>>]
                                 + t[<<a, p, ACCEPT_RESERVE>>] + t[<<a, p, METADEX_RESERVE>>]
<1>1. \A ty \in TallyType : <<a, p, ty>> \in TallyKey
  BY Zenon DEF TallyKey
<1>2. \A ty \in TallyType : t[<<a, p, ty>>] \in Nat
  BY <1>1, Zenon DEF Tallied
<1>3. /\ t[<<a, p, BALANCE>>] \in Nat /\ t[<<a, p, SELLOFFER_RESERVE>>] \in Nat
      /\ t[<<a, p, ACCEPT_RESERVE>>] \in Nat /\ t[<<a, p, METADEX_RESERVE>>] \in Nat
  BY <1>2, Zenon DEF TallyType
<1>4. Holding(t, a, p) = t[<<a, p, BALANCE>>] + t[<<a, p, SELLOFFER_RESERVE>>]
                           + t[<<a, p, ACCEPT_RESERVE>>] + t[<<a, p, METADEX_RESERVE>>]
  BY Zenon DEF Holding, GetTokenBalance
<1>5. Holding(t, a, p) \in Nat
  BY <1>3, <1>4
<1>6. /\ t[<<a, p, BALANCE>>] <= Holding(t, a, p)
      /\ t[<<a, p, SELLOFFER_RESERVE>>] <= Holding(t, a, p)
      /\ t[<<a, p, ACCEPT_RESERVE>>] <= Holding(t, a, p)
      /\ t[<<a, p, METADEX_RESERVE>>] <= Holding(t, a, p)
  BY <1>3, <1>4
<1> QED
  BY <1>2, <1>4, <1>5, <1>6, Zenon DEF TallyType

\* Moving an amount that is there changes two entries and nothing else.
LEMMA MoveEffect ==
  ASSUME NEW t \in Tallied, NEW p \in Property,
         NEW a \in Address, NEW ta \in TallyType,
         NEW b \in Address, NEW tb \in TallyType,
         a # b \/ ta # tb,
         NEW n \in Nat, n <= t[<<a, p, ta>>]
  PROVE  /\ Move(t, a, ta, b, tb, p, n) \in Tallied
         /\ Move(t, a, ta, b, tb, p, n)[<<a, p, ta>>] = t[<<a, p, ta>>] - n
         /\ Move(t, a, ta, b, tb, p, n)[<<b, p, tb>>] = t[<<b, p, tb>>] + n
         /\ \A c \in Address, q \in Property, ty \in TallyType :
               \/ c = a /\ q = p /\ ty = ta
               \/ c = b /\ q = p /\ ty = tb
               \/ Move(t, a, ta, b, tb, p, n)[<<c, q, ty>>] = t[<<c, q, ty>>]
<1>1. <<a, p, ta>> \in TallyKey /\ <<b, p, tb>> \in TallyKey /\ <<a, p, ta>> # <<b, p, tb>>
  BY Zenon DEF TallyKey
<1> DEFINE ka == <<a, p, ta>>
           kb == <<b, p, tb>>
<1> HIDE DEF ka, kb
<1>2. Move(t, a, ta, b, tb, p, n) = [[t EXCEPT ![ka] = @ + (-n)] EXCEPT ![kb] = @ + n]
  BY Zenon DEF Move, update_tally_map, ka, kb
<1>3. t[ka] \in Nat /\ t[kb] \in Nat /\ n <= t[ka] /\ ka # kb /\ ka \in TallyKey /\ kb \in TallyKey
  BY <1>1, Zenon DEF ka, kb, Tallied
<1> DEFINE t1 == [t EXCEPT ![ka] = @ + (-n)]
<1>4. /\ t1 \in Tallied
      /\ t1[ka] = t[ka] - n
      /\ \A k \in TallyKey : k # ka => t1[k] = t[k]
  BY <1>3 DEF Tallied
<1> DEFINE m == [t1 EXCEPT ![kb] = @ + n]
<1> HIDE DEF t1
<1>5. /\ m \in Tallied
      /\ m[ka] = t1[ka]
      /\ m[kb] = t1[kb] + n
      /\ \A k \in TallyKey : k # kb => m[k] = t1[k]
  BY <1>3, <1>4 DEF Tallied
<1>6. m = Move(t, a, ta, b, tb, p, n)
  BY <1>2, Zenon DEF t1
<1> HIDE DEF m
<1>7. \A c \in Address, q \in Property, ty \in TallyType :
        \/ c = a /\ q = p /\ ty = ta
        \/ c = b /\ q = p /\ ty = tb
        \/ m[<<c, q, ty>>] = t[<<c, q, ty>>]
  <2> SUFFICES ASSUME NEW c \in Address, NEW q \in Property, NEW ty \in TallyType,
                      ~(c = a /\ q = p /\ ty = ta), ~(c = b /\ q = p /\ ty = tb)
               PROVE  m[<<c, q, ty>>] = t[<<c, q, ty>>]
    BY Zenon
  <2> DEFINE k == <<c, q, ty>>
  <2>1. k \in TallyKey /\ k # ka /\ k # kb
    BY Zenon DEF TallyKey, ka, kb
  <2> HIDE DEF k
  <2>2. m[k] = t[k]
    BY <1>3, <1>4, <1>5, <2>1, Zenon
  <2> QED
    BY <2>2, Zenon DEF k
<1>8. m[ka] = t[ka] - n /\ m[kb] = t[kb] + n /\ m \in Tallied
  BY <1>3, <1>4, <1>5, Zenon
<1> QED
  BY <1>6, <1>7, <1>8, Zenon DEF ka, kb

\* Moving an amount between two entries of one address.
LEMMA MoveWithin ==
  ASSUME NEW t \in Tallied, NEW p \in Property, NEW a \in Address,
         NEW ta \in TallyType, NEW tb \in TallyType, ta # tb,
         NEW n \in Nat, n <= t[<<a, p, ta>>]
  PROVE  LET m == Move(t, a, ta, a, tb, p, n)
         IN  /\ m \in Tallied
             /\ m[<<a, p, ta>>] = t[<<a, p, ta>>] - n
             /\ m[<<a, p, tb>>] = t[<<a, p, tb>>] + n
             /\ \A c \in Address, q \in Property, ty \in TallyType :
                   (c = a /\ q = p /\ ty \in {ta, tb}) \/ m[<<c, q, ty>>] = t[<<c, q, ty>>]
BY MoveEffect

\* It leaves what everybody owns.
LEMMA MoveKeepsHoldings ==
  ASSUME NEW t \in Tallied, NEW p \in Property, NEW a \in Address,
         NEW ta \in TallyType, NEW tb \in TallyType, ta # tb,
         NEW n \in Nat, n <= t[<<a, p, ta>>]
  PROVE  SameHoldings(t, Move(t, a, ta, a, tb, p, n))
<1> DEFINE m == Move(t, a, ta, a, tb, p, n)
<1>1. /\ m \in Tallied
      /\ m[<<a, p, ta>>] = t[<<a, p, ta>>] - n
      /\ m[<<a, p, tb>>] = t[<<a, p, tb>>] + n
      /\ \A c \in Address, q \in Property, ty \in TallyType :
            (c = a /\ q = p /\ ty \in {ta, tb}) \/ m[<<c, q, ty>>] = t[<<c, q, ty>>]
  BY MoveWithin
<1> HIDE DEF m
<1> SUFFICES ASSUME NEW c \in Address, NEW q \in Property
             PROVE  Holding(m, c, q) = Holding(t, c, q)
  BY Zenon DEF SameHoldings, m
<1>2. \A ty \in TallyType : <<c, q, ty>> \in TallyKey /\ <<a, p, ty>> \in TallyKey
  BY Zenon DEF TallyKey
<1>3. \A ty \in TallyType : t[<<c, q, ty>>] \in Nat /\ m[<<c, q, ty>>] \in Nat
  BY <1>1, <1>2, Zenon DEF Tallied
<1>4. CASE c = a /\ q = p
  <2>1. \A ty \in TallyType \ {ta, tb} : m[<<a, p, ty>>] = t[<<a, p, ty>>]
    BY <1>1, <1>2, Zenon
  <2> QED
    BY <1>1, <1>3, <1>4, <2>1, SMTT(30)
    DEF Holding, GetTokenBalance, TallyType, BALANCE, SELLOFFER_RESERVE, ACCEPT_RESERVE, METADEX_RESERVE
<1>5. CASE ~(c = a /\ q = p)
  <2>1. \A ty \in TallyType : m[<<c, q, ty>>] = t[<<c, q, ty>>]
    BY <1>1, <1>2, <1>5, Zenon
  <2> QED
    BY <2>1, Zenon DEF Holding, GetTokenBalance, TallyType
<1> QED
  BY <1>4, <1>5, Zenon

\* The holdings of a property are natural numbers, and so is their total, which
\* bounds every entry.
LEMMA TotalType ==
  ASSUME NEW t \in Tallied, NEW p \in Property
  PROVE  /\ Holdings(t, p) \in [Address -> Nat]
         /\ TalliedTokens(t, p) \in Nat
         /\ \A a \in Address, ty \in TallyType : t[<<a, p, ty>>] <= TalliedTokens(t, p)
<1>1. \A a \in Address, ty \in TallyType : <<a, p, ty>> \in TallyKey /\ t[<<a, p, ty>>] \in Nat
  BY Zenon DEF TallyKey, Tallied
<1>2. \A a \in Address : Holding(t, a, p) \in Nat /\ \A ty \in TallyType : t[<<a, p, ty>>] <= Holding(t, a, p)
  BY <1>1 DEF Holding, GetTokenBalance, TallyType, BALANCE, SELLOFFER_RESERVE, ACCEPT_RESERVE, METADEX_RESERVE
<1>3. Holdings(t, p) \in [Address -> Nat]
  BY <1>2, Zenon DEF Holdings
<1>4. TalliedTokens(t, p) \in Nat
  BY <1>3, SumType, AddressAssumption, Zenon DEF TalliedTokens
<1>5. \A a \in Address : Holding(t, a, p) <= TalliedTokens(t, p)
  <2> SUFFICES ASSUME NEW a \in Address PROVE Holding(t, a, p) <= TalliedTokens(t, p)
    BY Zenon
  <2>1. Holdings(t, p)[a] <= Sum(Holdings(t, p))
    BY <1>3, SumUpdate, AddressAssumption, Zenon
  <2> QED
    BY <2>1, Zenon DEF Holdings, TalliedTokens
<1> QED
  BY <1>1, <1>2, <1>3, <1>4, <1>5

\* The total depends on the entries of the property only.
LEMMA SameTotal ==
  ASSUME NEW t \in Tallied, NEW u \in Tallied, NEW p \in Property,
         \A a \in Address, ty \in TallyType : u[<<a, p, ty>>] = t[<<a, p, ty>>]
  PROVE  TalliedTokens(u, p) = TalliedTokens(t, p)
<1>1. \A a \in Address : Holding(u, a, p) = Holding(t, a, p)
  BY Zenon DEF Holding, GetTokenBalance, TallyType
<1>2. Holdings(u, p) = Holdings(t, p)
  BY <1>1, Zenon DEF Holdings
<1> QED
  BY <1>2, Zenon DEF TalliedTokens

\* update_tally_map changes one entry, and the total of one property with it.
LEMMA UpdateEffect ==
  ASSUME NEW t \in Tallied, NEW a \in Address, NEW p \in Property, NEW ty \in TallyType,
         NEW n \in Int, t[<<a, p, ty>>] + n \in Nat
  PROVE  LET u == update_tally_map(t, a, p, n, ty)
         IN  /\ u \in Tallied
             /\ u[<<a, p, ty>>] = t[<<a, p, ty>>] + n
             /\ \A k \in TallyKey \ {<<a, p, ty>>} : u[k] = t[k]
             /\ TalliedTokens(u, p) = TalliedTokens(t, p) + n
             /\ \A q \in Property \ {p} : TalliedTokens(u, q) = TalliedTokens(t, q)
<1> DEFINE key == <<a, p, ty>>
           u   == update_tally_map(t, a, p, n, ty)
<1>1. key \in TallyKey
  BY Zenon DEF TallyKey
<1>2. u = [t EXCEPT ![key] = t[key] + n]
  BY Zenon DEF update_tally_map
<1>3. /\ u \in Tallied
      /\ u[key] = t[key] + n
      /\ \A k \in TallyKey \ {key} : u[k] = t[k]
  <2> HIDE DEF key, u
  <2> QED
    BY <1>1, <1>2, Zenon DEF Tallied, key
<1> HIDE DEF u
<1>4. \A q \in Property \ {p} : TalliedTokens(u, q) = TalliedTokens(t, q)
  <2> SUFFICES ASSUME NEW q \in Property \ {p} PROVE TalliedTokens(u, q) = TalliedTokens(t, q)
    BY Zenon
  <2>1. \A b \in Address, tb \in TallyType : u[<<b, q, tb>>] = t[<<b, q, tb>>]
    BY <1>3, Zenon DEF TallyKey
  <2> QED
    BY <1>3, <2>1, SameTotal, Zenon
<1>5. \A b \in Address, tb \in TallyType : <<b, p, tb>> \in TallyKey /\ t[<<b, p, tb>>] \in Nat /\ u[<<b, p, tb>>] \in Nat
  BY <1>3, Zenon DEF TallyKey, Tallied
<1>6. \A b \in Address \ {a} : Holding(u, b, p) = Holding(t, b, p)
  BY <1>3, <1>5, Zenon DEF Holding, GetTokenBalance, TallyType
<1>7. Holding(u, a, p) = Holding(t, a, p) + n
  <2>1. \A tb \in TallyType \ {ty} : u[<<a, p, tb>>] = t[<<a, p, tb>>]
    BY <1>3, <1>5, Zenon
  <2> QED
    BY <1>3, <1>5, <2>1
    DEF Holding, GetTokenBalance, TallyType, BALANCE, SELLOFFER_RESERVE, ACCEPT_RESERVE, METADEX_RESERVE
<1>8. TalliedTokens(u, p) = TalliedTokens(t, p) + n
  <2>1. Holdings(u, p) \in [Address -> Nat] /\ Holdings(t, p) \in [Address -> Nat]
    BY <1>3, TotalType, Zenon
  <2>2. Holding(u, a, p) \in Nat /\ Holding(t, a, p) \in Nat
    BY <2>1, Zenon DEF Holdings
  <2>3. Holdings(u, p) = [Holdings(t, p) EXCEPT ![a] = Holding(u, a, p)]
    BY <1>6, Zenon DEF Holdings
  <2> DEFINE f == Holdings(t, p)
             v == Holding(u, a, p)
  <2> HIDE DEF f, v
  <2>4. f \in [Address -> Nat] /\ v \in Nat
    BY <2>1, <2>2, Zenon DEF f, v
  <2>5. Sum([f EXCEPT ![a] = v]) = Sum(f) - f[a] + v
    BY <2>4, SumUpdate, AddressAssumption, Zenon
  <2>6. Sum(Holdings(u, p)) = Sum(Holdings(t, p)) - Holdings(t, p)[a] + Holding(u, a, p)
    BY <2>3, <2>5, Zenon DEF f, v
  <2>7. Holdings(t, p)[a] = Holding(t, a, p) /\ Sum(Holdings(t, p)) \in Nat
    BY <2>1, SumType, AddressAssumption, Zenon DEF Holdings
  <2> QED
    BY <1>7, <2>2, <2>6, <2>7 DEF TalliedTokens
<1> QED
  BY <1>3, <1>4, <1>8, Zenon DEF u

-----------------------------------------------------------------------------
(* Maps *)

\* Adding an entry to a map of offers or of accepts.
LEMMA WithType ==
  ASSUME NEW K, NEW V, NEW f, DOMAIN f \subseteq K, f \in [DOMAIN f -> V], NEW k \in K, NEW v \in V
  PROVE  /\ DOMAIN With(f, k, v) = DOMAIN f \cup {k}
         /\ DOMAIN With(f, k, v) \subseteq K
         /\ With(f, k, v) \in [DOMAIN With(f, k, v) -> V]
         /\ With(f, k, v)[k] = v
         /\ \A x \in DOMAIN f : x # k => With(f, k, v)[x] = f[x]
BY Zenon DEF With

\* Keeping some of the entries of a map.
LEMMA RestrictType ==
  ASSUME NEW K, NEW V, NEW f, DOMAIN f \subseteq K, f \in [DOMAIN f -> V], NEW S \in SUBSET DOMAIN f
  PROVE  /\ DOMAIN Restrict(f, S) = S
         /\ DOMAIN Restrict(f, S) \subseteq K
         /\ Restrict(f, S) \in [DOMAIN Restrict(f, S) -> V]
         /\ \A x \in S : Restrict(f, S)[x] = f[x]
BY Zenon DEF Restrict

\* Removing one entry of a map.
LEMMA WithoutType ==
  ASSUME NEW K, NEW V, NEW f, DOMAIN f \subseteq K, f \in [DOMAIN f -> V], NEW k
  PROVE  /\ DOMAIN Without(f, k) = DOMAIN f \ {k}
         /\ DOMAIN Without(f, k) \subseteq K
         /\ Without(f, k) \in [DOMAIN Without(f, k) -> V]
         /\ \A x \in DOMAIN f : x # k => Without(f, k)[x] = f[x]
BY Zenon DEF Without, Restrict
=============================================================================
