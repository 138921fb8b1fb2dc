----------------------------- MODULE DExProofs ------------------------------
(***************************************************************************)
(* Proofs about DEx, for every value of its constants.                     *)
(*                                                                         *)
(* Backed says that every seller's ACCEPT_RESERVE is exactly what the open *)
(* accepts have left.  For each function of dex.cpp there is a lemma on    *)
(* what it does to the ledger (...Effect) and one that it keeps the accepts*)
(* backed (...Backed).                                                     *)
(*                                                                         *)
(* Orderly says what sellers and buyers rely on: tokens on sale belong to  *)
(* an offer, no offer is sold more than once, and every open accept is     *)
(* unpaid, in time and has been given what its payments were worth.  Each  *)
(* function keeps it.                                                      *)
(*                                                                         *)
(* The invariant by induction is Conserving and Orderly: the accepts are   *)
(* Backed, the tokens of every property are as many as at the start, and   *)
(* the offers and accepts are in order.  Backed makes every debit possible,*)
(* the count bounds every entry, so both are needed for TypeOK; that an    *)
(* offer is not oversold rests on the accepts being backed.                *)
(***************************************************************************)
EXTENDS DEx, LedgerLemmas

-----------------------------------------------------------------------------
(* The state the functions of dex.cpp work on, and what they keep true *)

IsDex(st) ==
  /\ st = State(st.tally, st.offers, st.accepts)
  /\ st.tally \in Tallied
  /\ DOMAIN st.offers \subseteq OfferKey
  /\ st.offers \in [DOMAIN st.offers -> CMPOffer]
  /\ DOMAIN st.accepts \subseteq AcceptKey
  /\ st.accepts \in [DOMAIN st.accepts -> CMPAccept]

Backed(st) == IsDex(st) /\ AcceptsBackedBy(st)

\* The amounts reserved with a seller are natural numbers.
LEMMA ReservedType ==
  ASSUME NEW st, IsDex(st), NEW s \in Address, NEW p \in Property
  PROVE  Reserved(st, s, p) \in [Address -> Nat]
<1> SUFFICES ASSUME NEW b \in Address, <<s, p, b>> \in DOMAIN st.accepts
             PROVE  st.accepts[<<s, p, b>>].remaining \in Nat
  BY Zenon DEF Reserved, DEx_acceptExists, DEx_getAccept
<1>1. st.accepts[<<s, p, b>>] \in CMPAccept
  BY Zenon DEF IsDex
<1> QED
  BY <1>1, Zenon DEF CMPAccept

\* The reserve stays backed by the accepts if at most one accept changes, and
\* the seller's ACCEPT_RESERVE by the same amount.
LEMMA BackedAfterChange ==
  ASSUME NEW st, Backed(st), NEW u, IsDex(u),
         NEW s \in Address, NEW p \in Property, NEW b \in Address,
         \A k \in AcceptKey \ {<<s, p, b>>} :
            /\ k \in DOMAIN u.accepts <=> k \in DOMAIN st.accepts
            /\ k \in DOMAIN st.accepts => u.accepts[k].remaining = st.accepts[k].remaining,
         \A a \in Address, q \in Property :
            <<a, q>> # <<s, p>> => u.tally[<<a, q, ACCEPT_RESERVE>>] = st.tally[<<a, q, ACCEPT_RESERVE>>],
         u.tally[<<s, p, ACCEPT_RESERVE>>] + Reserved(st, s, p)[b]
            = st.tally[<<s, p, ACCEPT_RESERVE>>] + Reserved(u, s, p)[b]
  PROVE  Backed(u)
<1> SUFFICES ASSUME NEW a \in Address, NEW q \in Property
             PROVE  u.tally[<<a, q, ACCEPT_RESERVE>>] = Sum(Reserved(u, a, q))
  BY Zenon DEF Backed, AcceptsBackedBy, GetTokenBalance
<1>1. st.tally[<<a, q, ACCEPT_RESERVE>>] = Sum(Reserved(st, a, q))
  BY Zenon DEF Backed, AcceptsBackedBy, GetTokenBalance
<1>2. /\ Reserved(st, a, q) \in [Address -> Nat]
      /\ Reserved(u, a, q) \in [Address -> Nat]
  BY ReservedType, Zenon DEF Backed
<1>3. \A c \in Address : <<a, q, c>> # <<s, p, b>> => Reserved(u, a, q)[c] = Reserved(st, a, q)[c]
  <2> SUFFICES ASSUME NEW c \in Address, <<a, q, c>> # <<s, p, b>>
               PROVE  Reserved(u, a, q)[c] = Reserved(st, a, q)[c]
    BY Zenon
  <2>1. <<a, q, c>> \in AcceptKey \ {<<s, p, b>>}
    BY Zenon DEF AcceptKey
  <2> QED
    BY <2>1, Zenon DEF Reserved, DEx_acceptExists, DEx_getAccept
<1>4. CASE <<a, q>> = <<s, p>>
  <2> DEFINE v == Reserved(u, s, p)[b]
  <2>1. a = s /\ q = p
    BY <1>4, Zenon
  <2>2. v \in Nat /\ Reserved(st, s, p)[b] \in Nat
    BY <1>2, <2>1, Zenon
  <2>3. Reserved(u, s, p) = [Reserved(st, s, p) EXCEPT ![b] = v]
    <3>1. \A c \in Address : Reserved(u, s, p)[c] = IF c = b THEN v ELSE Reserved(st, s, p)[c]
      BY <1>3, <2>1, Zenon
    <3> QED
      BY <1>2, <2>1, <3>1, Zenon
  <2>4. Sum(Reserved(u, s, p)) = Sum(Reserved(st, s, p)) - Reserved(st, s, p)[b] + v
    BY <1>2, <2>1, <2>2, <2>3, SumUpdate, AddressAssumption
  <2>5. Sum(Reserved(st, s, p)) \in Nat
    BY <1>2, <2>1, SumType, AddressAssumption, Zenon
  <2>6. <<s, p, ACCEPT_RESERVE>> \in TallyKey
    BY Zenon DEF TallyKey, TallyType
  <2>7. u.tally[<<s, p, ACCEPT_RESERVE>>] \in Nat
    BY <2>6, Zenon DEF IsDex, Tallied
  <2> QED
    BY <1>1, <2>1, <2>2, <2>4, <2>5, <2>7
<1>5. CASE <<a, q>> # <<s, p>>
  <2>1. Reserved(u, a, q) = Reserved(st, a, q)
    <3>1. \A c \in Address : Reserved(u, a, q)[c] = Reserved(st, a, q)[c]
      BY <1>3, <1>5, Zenon
    <3> QED
      BY <1>2, <3>1
  <2> QED
    BY <1>1, <1>5, <2>1, Zenon
<1> QED
  BY <1>4, <1>5, Zenon

-----------------------------------------------------------------------------
(* Offers *)

\* The fields of a state of dex.cpp.
LEMMA StateFields ==
  ASSUME NEW t, NEW o, NEW c
  PROVE  /\ State(t, o, c).tally = t
         /\ State(t, o, c).offers = o
         /\ State(t, o, c).accepts = c
         /\ State(t, o, c) = State(State(t, o, c).tally, State(t, o, c).offers, State(t, o, c).accepts)
BY Zenon DEF State

\* Moving tokens between two other entries of a seller, with the offers changed
\* and the accepts as they are, keeps the reserve backed.
LEMMA BackedAfterOffer ==
  ASSUME NEW st, Backed(st), NEW s \in Address, NEW p \in Property,
         NEW ta \in TallyType, NEW tb \in TallyType, ta # tb,
         ta # ACCEPT_RESERVE, tb # ACCEPT_RESERVE,
         NEW n \in Nat, n <= st.tally[<<s, p, ta>>],
         NEW o, DOMAIN o \subseteq OfferKey, o \in [DOMAIN o -> CMPOffer]
  PROVE  LET u == State(Move(st.tally, s, ta, s, tb, p, n), o, st.accepts)
         IN  Backed(u) /\ SameHoldings(st.tally, u.tally)
<1> DEFINE m == Move(st.tally, s, ta, s, tb, p, n)
           u == State(m, o, st.accepts)
<1>1. st.tally \in Tallied
  BY Zenon DEF Backed, IsDex
<1>2. /\ m \in Tallied
      /\ m[<<s, p, ta>>] = st.tally[<<s, p, ta>>] - n
      /\ m[<<s, p, tb>>] = st.tally[<<s, p, tb>>] + n
      /\ \A c \in Address, q \in Property, ty \in TallyType :
            (c = s /\ q = p /\ ty \in {ta, tb}) \/ m[<<c, q, ty>>] = st.tally[<<c, q, ty>>]
  BY <1>1, MoveWithin
<1>3. SameHoldings(st.tally, m)
  BY <1>1, MoveKeepsHoldings, Zenon
<1> HIDE DEF m
<1>4. u.tally = m /\ u.offers = o /\ u.accepts = st.accepts /\ u = State(u.tally, u.offers, u.accepts)
  BY StateFields
<1> HIDE DEF u
<1>5. IsDex(u)
  BY <1>2, <1>4, Zenon DEF Backed, IsDex
<1>6. \A a \in Address, q \in Property :
        u.tally[<<a, q, ACCEPT_RESERVE>>] = st.tally[<<a, q, ACCEPT_RESERVE>>]
  <2> SUFFICES ASSUME NEW a \in Address, NEW q \in Property
               PROVE  m[<<a, q, ACCEPT_RESERVE>>] = st.tally[<<a, q, ACCEPT_RESERVE>>]
    BY <1>4, Zenon
  <2>1. ACCEPT_RESERVE \in TallyType
    BY Zenon DEF TallyType
  <2> QED
    BY <1>2, <2>1, Zenon
<1>7. \A a \in Address, q \in Property : Reserved(u, a, q) = Reserved(st, a, q)
  BY <1>4, Zenon DEF Reserved, DEx_acceptExists, DEx_getAccept
<1>8. AcceptsBackedBy(u)
  BY <1>6, <1>7, Zenon DEF Backed, AcceptsBackedBy, GetTokenBalance
<1> QED
  BY <1>3, <1>4, <1>5, <1>8, Zenon DEF Backed, u, m

\* Rounding gives a natural number.
LEMMA RoundedQuotientType ==
  ASSUME NEW n \in Nat, NEW d \in Nat \ {0}
  PROVE  RoundedQuotient(n, d) \in Nat
<1>1. 2 * n + d \in Nat /\ 2 * d \in Nat \ {0}
  OBVIOUS
<1>2. \A x \in Nat, y \in Nat \ {0} : x \div y \in Nat
  OBVIOUS
<1> QED
  BY <1>1, <1>2, Zenon DEF RoundedQuotient

\* An amount that the seller has is put up for sale, in an offer where there
\* was none.
PutUpForSale(st, s, p, txid, u) ==
  \E n \in Nat \ {0}, o \in CMPOffer :
    /\ n <= st.tally[<<s, p, BALANCE>>]
    /\ <<s, p>> \notin DOMAIN st.offers
    /\ o.offered = n /\ o.txid = txid
    /\ u = State(Move(st.tally, s, BALANCE, s, SELLOFFER_RESERVE, p, n),
                 With(st.offers, <<s, p>>, o), st.accepts)

\* DEx_offerCreate changes nothing or puts an amount up for sale.
LEMMA OfferCreateEffect ==
  ASSUME NEW st, IsDex(st), NEW s \in Address, NEW p \in Property, NEW offered \in Nat,
         NEW desired \in Nat, NEW minFee \in Nat, NEW window \in Nat, NEW txid \in Txid
  PROVE  LET u == DEx_offerCreate(st, s, p, offered, desired, minFee, window, txid)
         IN  u = st \/ PutUpForSale(st, s, p, txid, u)
<1> DEFINE u         == DEx_offerCreate(st, s, p, offered, desired, minFee, window, txid)
           available == GetTokenBalance(st.tally, s, p, BALANCE)
           short     == offered > available
           forSale   == IF short THEN available ELSE offered
           price     == IF short THEN legacyDesiredCCH(offered, desired, available) ELSE desired
           o         == [offered |-> forSale, desired |-> price, minFee |-> minFee,
                         window |-> window, txid |-> txid]
<1> SUFFICES ASSUME u # st
             PROVE  /\ forSale \in Nat \ {0}
                    /\ o \in CMPOffer
                    /\ forSale <= st.tally[<<s, p, BALANCE>>]
                    /\ <<s, p>> \notin DOMAIN st.offers
                    /\ o.offered = forSale /\ o.txid = txid
                    /\ u = State(Move(st.tally, s, BALANCE, s, SELLOFFER_RESERVE, p, forSale),
                                 With(st.offers, <<s, p>>, o), st.accepts)
  BY Zenon DEF PutUpForSale
<1>1. available \in Nat /\ available = st.tally[<<s, p, BALANCE>>]
  <2>1. <<s, p, BALANCE>> \in TallyKey
    BY Zenon DEF TallyKey, TallyType
  <2> QED
    BY <2>1, Zenon DEF IsDex, Tallied, GetTokenBalance
<1>2. /\ ~DEx_offerExists(st, s, p)
      /\ forSale > 0
      /\ u = State(Move(st.tally, s, BALANCE, s, SELLOFFER_RESERVE, p, forSale),
                   With(st.offers, <<s, p>>, o), st.accepts)
  BY Zenon DEF DEx_offerCreate
<1>3. forSale \in Nat \ {0} /\ forSale <= available
  BY <1>1, <1>2
<1>4. price \in Nat
  <2>1. CASE ~short
    BY <2>1, Zenon
  <2>2. CASE short
    <3>1. offered \in Nat \ {0}
      BY <1>1, <2>2
    <3>2. desired * available \in Nat /\ 2 * (MAX_INT + 1) \in Nat \ {0}
      BY <1>1, MaxIntAssumption
    <3>3. (desired * available) % (2 * (MAX_INT + 1)) \in Nat
      <4>1. \A x \in Nat, y \in Nat \ {0} : x % y \in Nat
        OBVIOUS
      <4> QED
        BY <3>2, <4>1, Zenon
    <3> QED
      BY <2>2, <3>1, <3>3, RoundedQuotientType, Zenon DEF legacyDesiredCCH
  <2> QED
    BY <2>1, <2>2, Zenon
<1> HIDE DEF forSale, price
<1>5. o \in CMPOffer
  BY <1>3, <1>4, Zenon DEF CMPOffer
<1> QED
  BY <1>1, <1>2, <1>3, <1>5, Zenon DEF DEx_offerExists

\* DEx_offerCreate keeps the reserve backed.
LEMMA OfferCreateBacked ==
  ASSUME NEW st, Backed(st), NEW s \in Address, NEW p \in Property, NEW offered \in Nat,
         NEW desired \in Nat, NEW minFee \in Nat, NEW window \in Nat, NEW txid \in Txid
  PROVE  LET u == DEx_offerCreate(st, s, p, offered, desired, minFee, window, txid)
         IN  Backed(u) /\ SameHoldings(st.tally, u.tally)
<1> DEFINE u == DEx_offerCreate(st, s, p, offered, desired, minFee, window, txid)
<1>1. CASE u = st
  BY <1>1, Zenon DEF SameHoldings
<1>2. CASE u # st
  <2>1. PICK n \in Nat \ {0}, o \in CMPOffer :
          /\ n <= st.tally[<<s, p, BALANCE>>]
          /\ u = State(Move(st.tally, s, BALANCE, s, SELLOFFER_RESERVE, p, n),
                       With(st.offers, <<s, p>>, o), st.accepts)
    <3>1. PutUpForSale(st, s, p, txid, u)
      BY <1>2, OfferCreateEffect, Zenon DEF Backed
    <3> QED
      BY <3>1, Zenon DEF PutUpForSale
  <2>2. <<s, p>> \in OfferKey
    BY Zenon DEF OfferKey
  <2>3. /\ DOMAIN With(st.offers, <<s, p>>, o) \subseteq OfferKey
        /\ With(st.offers, <<s, p>>, o) \in [DOMAIN With(st.offers, <<s, p>>, o) -> CMPOffer]
    BY <2>2, WithType, Zenon DEF Backed, IsDex
  <2>4. /\ BALANCE \in TallyType /\ SELLOFFER_RESERVE \in TallyType
        /\ BALANCE # ACCEPT_RESERVE /\ SELLOFFER_RESERVE # ACCEPT_RESERVE
        /\ BALANCE # SELLOFFER_RESERVE
    BY Zenon DEF TallyType, BALANCE, SELLOFFER_RESERVE, ACCEPT_RESERVE
  <2> QED
    BY <2>1, <2>3, <2>4, BackedAfterOffer, Zenon
<1> QED
  BY <1>1, <1>2, Zenon

\* DEx_offerDestroy returns what is on sale and keeps the reserve backed.
LEMMA OfferDestroyBacked ==
  ASSUME NEW st, Backed(st), NEW s \in Address, NEW p \in Property
  PROVE  LET u == DEx_offerDestroy(st, s, p)
         IN  Backed(u) /\ SameHoldings(st.tally, u.tally)
<1> DEFINE u == DEx_offerDestroy(st, s, p)
           n == GetTokenBalance(st.tally, s, p, SELLOFFER_RESERVE)
           o == Without(st.offers, <<s, p>>)
<1>1. CASE ~DEx_offerExists(st, s, p)
  BY <1>1, Zenon DEF SameHoldings, DEx_offerDestroy
<1>2. CASE DEx_offerExists(st, s, p)
  <2>1. u = State(Move(st.tally, s, SELLOFFER_RESERVE, s, BALANCE, p, n), o, st.accepts)
    BY <1>2, Zenon DEF DEx_offerDestroy
  <2>2. n \in Nat /\ n <= st.tally[<<s, p, SELLOFFER_RESERVE>>]
    <3>1. <<s, p, SELLOFFER_RESERVE>> \in TallyKey
      BY Zenon DEF TallyKey, TallyType
    <3> QED
      BY <3>1 DEF Backed, IsDex, Tallied, GetTokenBalance
  <2>3. DOMAIN o \subseteq OfferKey /\ o \in [DOMAIN o -> CMPOffer]
    BY WithoutType, Zenon DEF Backed, IsDex
  <2>4. /\ BALANCE \in TallyType /\ SELLOFFER_RESERVE \in TallyType
        /\ BALANCE # ACCEPT_RESERVE /\ SELLOFFER_RESERVE # ACCEPT_RESERVE
        /\ BALANCE # SELLOFFER_RESERVE
    BY Zenon DEF TallyType, BALANCE, SELLOFFER_RESERVE, ACCEPT_RESERVE
  <2> HIDE DEF n, o, u
  <2> QED
    BY <2>1, <2>2, <2>3, <2>4, BackedAfterOffer, Zenon DEF u
<1> QED
  BY <1>1, <1>2, Zenon

\* DEx_offerUpdate, which destroys and creates, keeps the reserve backed.
LEMMA OfferUpdateBacked ==
  ASSUME NEW st, Backed(st), NEW s \in Address, NEW p \in Property, NEW offered \in Nat,
         NEW desired \in Nat, NEW minFee \in Nat, NEW window \in Nat, NEW txid \in Txid
  PROVE  LET u == DEx_offerUpdate(st, s, p, offered, desired, minFee, window, txid)
         IN  Backed(u) /\ SameHoldings(st.tally, u.tally)
<1> DEFINE d == DEx_offerDestroy(st, s, p)
           u == DEx_offerCreate(d, s, p, offered, desired, minFee, window, txid)
<1>1. Backed(d) /\ SameHoldings(st.tally, d.tally)
  BY OfferDestroyBacked, Zenon
<1> HIDE DEF d
<1>2. Backed(u) /\ SameHoldings(d.tally, u.tally)
  BY <1>1, OfferCreateBacked, Zenon
<1>3. SameHoldings(st.tally, u.tally)
  BY <1>1, <1>2, Zenon DEF SameHoldings
<1>4. SameHoldings(st.tally, st.tally)
  BY Zenon DEF SameHoldings
<1> QED
  BY <1>2, <1>3, <1>4, Zenon DEF DEx_offerUpdate, d

-----------------------------------------------------------------------------
(* Accepts *)

\* A seller's amount reserved for one buyer.
LEMMA ReservedAt ==
  ASSUME NEW st, NEW s \in Address, NEW p \in Property, NEW b \in Address
  PROVE  Reserved(st, s, p)[b] = IF <<s, p, b>> \in DOMAIN st.accepts
                                 THEN st.accepts[<<s, p, b>>].remaining ELSE 0
BY Zenon DEF Reserved, DEx_acceptExists, DEx_getAccept

\* DEx_acceptCreate either changes nothing, or reserves for the buyer, who had
\* no accept, part of what is on sale.
LEMMA AcceptCreateEffect ==
  ASSUME NEW st, IsDex(st), NEW b \in Address, NEW s \in Address, NEW p \in Property,
         NEW wanted \in Nat, NEW feePaid \in Nat
  PROVE  LET u == DEx_acceptCreate(st, b, s, p, wanted, feePaid)
         IN  \/ u = st
             \/ \E n \in Nat \ {0}, c \in CMPAccept :
                  /\ n <= st.tally[<<s, p, SELLOFFER_RESERVE>>]
                  /\ <<s, p>> \in DOMAIN st.offers
                  /\ <<s, p, b>> \notin DOMAIN st.accepts
                  /\ c.remaining = n /\ c.original = n /\ c.age = 0 /\ c.paid = 0
                  /\ c.txid = st.offers[<<s, p>>].txid
                  /\ u = State(Move(st.tally, s, SELLOFFER_RESERVE, s, ACCEPT_RESERVE, p, n),
                               st.offers, With(st.accepts, <<s, p, b>>, c))
<1> DEFINE u        == DEx_acceptCreate(st, b, s, p, wanted, feePaid)
           offer    == DEx_getOffer(st, s, p)
           onSale   == GetTokenBalance(st.tally, s, p, SELLOFFER_RESERVE)
           reserved == IF onSale >= wanted THEN wanted ELSE onSale
           c        == [original |-> reserved, remaining |-> reserved, offered |-> offer.offered,
                        desired |-> offer.desired, window |-> offer.window, age |-> 0,
                        txid |-> offer.txid, paid |-> 0]
<1> SUFFICES ASSUME u # st
             PROVE  /\ reserved \in Nat \ {0}
                    /\ c \in CMPAccept
                    /\ reserved <= st.tally[<<s, p, SELLOFFER_RESERVE>>]
                    /\ <<s, p>> \in DOMAIN st.offers
                    /\ <<s, p, b>> \notin DOMAIN st.accepts
                    /\ c.remaining = reserved /\ c.original = reserved /\ c.age = 0 /\ c.paid = 0
                    /\ c.txid = st.offers[<<s, p>>].txid
                    /\ u = State(Move(st.tally, s, SELLOFFER_RESERVE, s, ACCEPT_RESERVE, p, reserved),
                                 st.offers, With(st.accepts, <<s, p, b>>, c))
  BY Zenon
<1>1. onSale \in Nat /\ onSale = st.tally[<<s, p, SELLOFFER_RESERVE>>]
  <2>1. <<s, p, SELLOFFER_RESERVE>> \in TallyKey
    BY Zenon DEF TallyKey, TallyType
  <2> QED
    BY <2>1, Zenon DEF IsDex, Tallied, GetTokenBalance
<1>2. /\ DEx_offerExists(st, s, p)
      /\ ~DEx_acceptExists(st, s, p, b)
      /\ reserved > 0
      /\ u = State(Move(st.tally, s, SELLOFFER_RESERVE, s, ACCEPT_RESERVE, p, reserved),
                   st.offers, With(st.accepts, <<s, p, b>>, c))
  BY Zenon DEF DEx_acceptCreate
<1>3. reserved \in Nat \ {0} /\ reserved <= onSale
  BY <1>1, <1>2
<1>4. offer \in CMPOffer
  BY <1>2, Zenon DEF DEx_offerExists, DEx_getOffer, IsDex
<1> HIDE DEF reserved, offer
<1>5. c \in CMPAccept
  BY <1>3, <1>4, Zenon DEF CMPAccept, CMPOffer
<1> QED
  BY <1>1, <1>2, <1>3, <1>5, Zenon DEF DEx_offerExists, DEx_acceptExists, DEx_getOffer, offer

\* DEx_acceptCreate reserves for the buyer what it takes off the sale.
LEMMA AcceptCreateBacked ==
  ASSUME NEW st, Backed(st), NEW b \in Address, NEW s \in Address, NEW p \in Property,
         NEW wanted \in Nat, NEW feePaid \in Nat
  PROVE  LET u == DEx_acceptCreate(st, b, s, p, wanted, feePaid)
         IN  Backed(u) /\ SameHoldings(st.tally, u.tally)
<1> DEFINE u == DEx_acceptCreate(st, b, s, p, wanted, feePaid)
<1>1. CASE u = st
  BY <1>1, Zenon DEF SameHoldings
<1>2. CASE u # st
  <2>1. PICK n \in Nat \ {0}, c \in CMPAccept :
          /\ n <= st.tally[<<s, p, SELLOFFER_RESERVE>>]
          /\ <<s, p>> \in DOMAIN st.offers
          /\ <<s, p, b>> \notin DOMAIN st.accepts
          /\ c.remaining = n /\ c.original = n /\ c.age = 0 /\ c.paid = 0
          /\ c.txid = st.offers[<<s, p>>].txid
          /\ u = State(Move(st.tally, s, SELLOFFER_RESERVE, s, ACCEPT_RESERVE, p, n),
                       st.offers, With(st.accepts, <<s, p, b>>, c))
    BY <1>2, AcceptCreateEffect DEF Backed
  <2> DEFINE m == Move(st.tally, s, SELLOFFER_RESERVE, s, ACCEPT_RESERVE, p, n)
             acc == With(st.accepts, <<s, p, b>>, c)
  <2>2. st.tally \in Tallied
    BY Zenon DEF Backed, IsDex
  <2>3. SELLOFFER_RESERVE \in TallyType /\ ACCEPT_RESERVE \in TallyType /\ SELLOFFER_RESERVE # ACCEPT_RESERVE
    BY Zenon DEF TallyType, SELLOFFER_RESERVE, ACCEPT_RESERVE
  <2>4. /\ m \in Tallied
        /\ m[<<s, p, SELLOFFER_RESERVE>>] = st.tally[<<s, p, SELLOFFER_RESERVE>>] - n
        /\ m[<<s, p, ACCEPT_RESERVE>>] = st.tally[<<s, p, ACCEPT_RESERVE>>] + n
        /\ \A a \in Address, q \in Property, ty \in TallyType :
              (a = s /\ q = p /\ ty \in {SELLOFFER_RESERVE, ACCEPT_RESERVE})
                \/ m[<<a, q, ty>>] = st.tally[<<a, q, ty>>]
    BY <2>1, <2>2, <2>3, MoveWithin
  <2>5. SameHoldings(st.tally, m)
    BY <2>1, <2>2, <2>3, MoveKeepsHoldings, Zenon
  <2>6. /\ <<s, p, b>> \in AcceptKey
        /\ DOMAIN st.accepts \subseteq AcceptKey
        /\ st.accepts \in [DOMAIN st.accepts -> CMPAccept]
    BY Zenon DEF AcceptKey, Backed, IsDex
  <2>7. /\ DOMAIN acc = DOMAIN st.accepts \cup {<<s, p, b>>}
        /\ DOMAIN acc \subseteq AcceptKey
        /\ acc \in [DOMAIN acc -> CMPAccept]
        /\ acc[<<s, p, b>>] = c
        /\ \A x \in DOMAIN st.accepts : x # <<s, p, b>> => acc[x] = st.accepts[x]
    BY <2>6, Zenon DEF With
  <2>8. u.tally = m /\ u.offers = st.offers /\ u.accepts = acc /\ u = State(u.tally, u.offers, u.accepts)
    BY <2>1, StateFields
  <2> HIDE DEF u, m, acc
  <2>9. IsDex(u)
    BY <2>4, <2>7, <2>8, Zenon DEF Backed, IsDex
  <2>10. \A k \in AcceptKey \ {<<s, p, b>>} :
            /\ k \in DOMAIN u.accepts <=> k \in DOMAIN st.accepts
            /\ k \in DOMAIN st.accepts => u.accepts[k].remaining = st.accepts[k].remaining
    BY <2>7, <2>8, Zenon
  <2>11. \A a \in Address, q \in Property :
            <<a, q>> # <<s, p>> => u.tally[<<a, q, ACCEPT_RESERVE>>] = st.tally[<<a, q, ACCEPT_RESERVE>>]
    BY <2>3, <2>4, <2>8, Zenon
  <2>12. Reserved(st, s, p)[b] = 0 /\ Reserved(u, s, p)[b] = n
    BY <2>1, <2>7, <2>8, ReservedAt
  <2>13. u.tally[<<s, p, ACCEPT_RESERVE>>] + Reserved(st, s, p)[b]
            = st.tally[<<s, p, ACCEPT_RESERVE>>] + Reserved(u, s, p)[b]
    <3>1. <<s, p, ACCEPT_RESERVE>> \in TallyKey
      BY <2>3, Zenon DEF TallyKey
    <3>2. st.tally[<<s, p, ACCEPT_RESERVE>>] \in Nat
      BY <2>2, <3>1, Zenon DEF Tallied
    <3> QED
      BY <2>4, <2>8, <2>12, <3>2
  <2>14. Backed(u)
    BY <2>9, <2>10, <2>11, <2>13, BackedAfterChange, Zenon
  <2> QED
    BY <2>5, <2>8, <2>14, Zenon DEF u
<1> QED
  BY <1>1, <1>2, Zenon

\* What is left of an accept is in the seller's ACCEPT_RESERVE.
LEMMA RemainingBacked ==
  ASSUME NEW st, Backed(st), NEW s \in Address, NEW p \in Property, NEW b \in Address,
         <<s, p, b>> \in DOMAIN st.accepts
  PROVE  /\ st.accepts[<<s, p, b>>] \in CMPAccept
         /\ st.accepts[<<s, p, b>>].remaining \in Nat
         /\ st.accepts[<<s, p, b>>].remaining <= st.tally[<<s, p, ACCEPT_RESERVE>>]
<1>1. st.accepts[<<s, p, b>>] \in CMPAccept
  BY Zenon DEF Backed, IsDex
<1>2. st.accepts[<<s, p, b>>].remaining \in Nat
  BY <1>1, Zenon DEF CMPAccept
<1>3. Reserved(st, s, p)[b] = st.accepts[<<s, p, b>>].remaining
  BY ReservedAt, Zenon
<1>4. Reserved(st, s, p) \in [Address -> Nat]
  BY ReservedType, Zenon DEF Backed
<1>5. Reserved(st, s, p)[b] <= Sum(Reserved(st, s, p))
  BY <1>4, SumUpdate, AddressAssumption, Zenon
<1>6. st.tally[<<s, p, ACCEPT_RESERVE>>] = Sum(Reserved(st, s, p))
  BY Zenon DEF Backed, AcceptsBackedBy, GetTokenBalance
<1> QED
  BY <1>1, <1>2, <1>3, <1>5, <1>6, Zenon

\* DEx_acceptDestroy returns what is left of an accept to the seller.
LEMMA AcceptDestroyEffect ==
  ASSUME NEW st, Backed(st), NEW b \in Address, NEW s \in Address, NEW p \in Property,
         <<s, p, b>> \in DOMAIN st.accepts
  PROVE  LET u  == DEx_acceptDestroy(st, b, s, p)
             n  == st.accepts[<<s, p, b>>].remaining
             ty == ReturnType(st, s, p, b)
         IN  /\ Backed(u) /\ SameHoldings(st.tally, u.tally)
             /\ u.offers = st.offers
             /\ DOMAIN u.accepts = DOMAIN st.accepts \ {<<s, p, b>>}
             /\ \A x \in DOMAIN u.accepts : u.accepts[x] = st.accepts[x]
             /\ u.tally[<<s, p, ty>>] = st.tally[<<s, p, ty>>] + n
             /\ \A a \in Address, q \in Property, t \in TallyType :
                   (a = s /\ q = p /\ t \in {ACCEPT_RESERVE, ty})
                     \/ u.tally[<<a, q, t>>] = st.tally[<<a, q, t>>]
<1> DEFINE u   == DEx_acceptDestroy(st, b, s, p)
           n   == st.accepts[<<s, p, b>>].remaining
           ty  == ReturnType(st, s, p, b)
           m   == Move(st.tally, s, ACCEPT_RESERVE, s, ty, p, n)
           acc == Without(st.accepts, <<s, p, b>>)
<1>1. n \in Nat /\ n <= st.tally[<<s, p, ACCEPT_RESERVE>>]
  BY RemainingBacked, Zenon
<1>2. ACCEPT_RESERVE \in TallyType /\ ty \in TallyType /\ ACCEPT_RESERVE # ty
  BY Zenon DEF ReturnType, TallyType, BALANCE, SELLOFFER_RESERVE, ACCEPT_RESERVE
<1>3. u.tally = m /\ u.offers = st.offers /\ u.accepts = acc /\ u = State(u.tally, u.offers, u.accepts)
  BY StateFields DEF DEx_acceptDestroy, DEx_getAccept
<1>4. st.tally \in Tallied
  BY Zenon DEF Backed, IsDex
<1> HIDE DEF n, ty
<1>5. /\ m \in Tallied
      /\ m[<<s, p, ACCEPT_RESERVE>>] = st.tally[<<s, p, ACCEPT_RESERVE>>] - n
      /\ m[<<s, p, ty>>] = st.tally[<<s, p, ty>>] + n
      /\ \A a \in Address, q \in Property, t \in TallyType :
            (a = s /\ q = p /\ t \in {ACCEPT_RESERVE, ty}) \/ m[<<a, q, t>>] = st.tally[<<a, q, t>>]
  BY <1>1, <1>2, <1>4, MoveWithin
<1>6. SameHoldings(st.tally, m)
  BY <1>1, <1>2, <1>4, MoveKeepsHoldings, Zenon
<1>7. /\ DOMAIN st.accepts \subseteq AcceptKey
      /\ st.accepts \in [DOMAIN st.accepts -> CMPAccept]
  BY Zenon DEF Backed, IsDex
<1>8. /\ DOMAIN acc = DOMAIN st.accepts \ {<<s, p, b>>}
      /\ DOMAIN acc \subseteq AcceptKey
      /\ acc \in [DOMAIN acc -> CMPAccept]
      /\ \A x \in DOMAIN acc : acc[x] = st.accepts[x]
  BY <1>7, Zenon DEF Without, Restrict
<1> HIDE DEF u, m, acc
<1>9. IsDex(u)
  BY <1>3, <1>5, <1>8, Zenon DEF Backed, IsDex
<1>10. \A k \in AcceptKey \ {<<s, p, b>>} :
          /\ k \in DOMAIN u.accepts <=> k \in DOMAIN st.accepts
          /\ k \in DOMAIN st.accepts => u.accepts[k].remaining = st.accepts[k].remaining
  BY <1>3, <1>8, Zenon
<1>11. \A a \in Address, q \in Property :
          <<a, q>> # <<s, p>> => u.tally[<<a, q, ACCEPT_RESERVE>>] = st.tally[<<a, q, ACCEPT_RESERVE>>]
  BY <1>2, <1>3, <1>5, Zenon
<1>12. Reserved(st, s, p)[b] = n /\ Reserved(u, s, p)[b] = 0
  BY <1>3, <1>8, ReservedAt, Zenon DEF n
<1>13. u.tally[<<s, p, ACCEPT_RESERVE>>] + Reserved(st, s, p)[b]
          = st.tally[<<s, p, ACCEPT_RESERVE>>] + Reserved(u, s, p)[b]
  <2>1. <<s, p, ACCEPT_RESERVE>> \in TallyKey
    BY <1>2, Zenon DEF TallyKey
  <2>2. st.tally[<<s, p, ACCEPT_RESERVE>>] \in Nat
    BY <1>4, <2>1, Zenon DEF Tallied
  <2> QED
    BY <1>1, <1>3, <1>5, <1>12, <2>2
<1>14. Backed(u)
  BY <1>9, <1>10, <1>11, <1>13, BackedAfterChange, Zenon
<1> QED
  BY <1>3, <1>5, <1>6, <1>8, <1>14, Zenon DEF u, n, ty

-----------------------------------------------------------------------------
(* Payments *)

\* What everybody owns after n tokens of property p went from one to another.
Handed(t, u, p, from, to, n) ==
  \A a \in Address, q \in Property :
    Holding(u, a, q) = IF q = p /\ a = from THEN Holding(t, a, q) - n
                       ELSE IF q = p /\ a = to THEN Holding(t, a, q) + n
                       ELSE Holding(t, a, q)

\* A change of the ledger that the abstract ledger allows.
Traded(t, u) ==
  \/ SameHoldings(t, u)
  \/ \E p \in Property : \E from, to \in Address : \E n \in 1..Holding(t, from, p) :
        from # to /\ Handed(t, u, p, from, to, n)

\* Moving tokens from a seller's ACCEPT_RESERVE to a buyer's BALANCE is a trade.
LEMMA MoveIsTraded ==
  ASSUME NEW t \in Tallied, NEW p \in Property, NEW s \in Address, NEW b \in Address,
         NEW n \in Nat, n <= t[<<s, p, ACCEPT_RESERVE>>]
  PROVE  Traded(t, Move(t, s, ACCEPT_RESERVE, b, BALANCE, p, n))
<1> DEFINE m == Move(t, s, ACCEPT_RESERVE, b, BALANCE, p, n)
<1>1. /\ ACCEPT_RESERVE \in TallyType /\ BALANCE \in TallyType
      /\ SELLOFFER_RESERVE \in TallyType /\ METADEX_RESERVE \in TallyType
      /\ ACCEPT_RESERVE # BALANCE /\ SELLOFFER_RESERVE \notin {BALANCE, ACCEPT_RESERVE}
      /\ METADEX_RESERVE \notin {BALANCE, ACCEPT_RESERVE}
  BY Zenon DEF TallyType, BALANCE, SELLOFFER_RESERVE, ACCEPT_RESERVE, METADEX_RESERVE
<1>2. CASE s = b
  BY <1>1, <1>2, MoveKeepsHoldings, Zenon DEF Traded
<1>3. CASE s # b
  <2>1. /\ m \in Tallied
        /\ m[<<s, p, ACCEPT_RESERVE>>] = t[<<s, p, ACCEPT_RESERVE>>] - n
        /\ m[<<b, p, BALANCE>>] = t[<<b, p, BALANCE>>] + n
        /\ \A c \in Address, q \in Property, ty \in TallyType :
              \/ c = s /\ q = p /\ ty = ACCEPT_RESERVE
              \/ c = b /\ q = p /\ ty = BALANCE
              \/ m[<<c, q, ty>>] = t[<<c, q, ty>>]
    BY <1>1, <1>3, MoveEffect
  <2> HIDE DEF m
  <2>2. ASSUME NEW a \in Address, NEW q \in Property
        PROVE  Holding(m, a, q) = IF q = p /\ a = s THEN Holding(t, a, q) - n
                                  ELSE IF q = p /\ a = b THEN Holding(t, a, q) + n
                                  ELSE Holding(t, a, q)
    <3>1. /\ \A ty \in TallyType : t[<<a, q, ty>>] \in Nat
          /\ Holding(t, a, q) = t[<<a, q, BALANCE>>] + t[<<a, q, SELLOFFER_RESERVE>>]
                                 + t[<<a, q, ACCEPT_RESERVE>>] + t[<<a, q, METADEX_RESERVE>>]
      BY HoldingType, Zenon
    <3>2. /\ Holding(m, a, q) = m[<<a, q, BALANCE>>] + m[<<a, q, SELLOFFER_RESERVE>>]
                                 + m[<<a, q, ACCEPT_RESERVE>>] + m[<<a, q, METADEX_RESERVE>>]
      BY <2>1, HoldingType, Zenon
    <3>3. CASE q = p /\ a = s
      <4>1. /\ m[<<a, q, BALANCE>>] = t[<<a, q, BALANCE>>]
            /\ m[<<a, q, SELLOFFER_RESERVE>>] = t[<<a, q, SELLOFFER_RESERVE>>]
            /\ m[<<a, q, METADEX_RESERVE>>] = t[<<a, q, METADEX_RESERVE>>]
            /\ m[<<a, q, ACCEPT_RESERVE>>] = t[<<a, q, ACCEPT_RESERVE>>] - n
        BY <1>1, <1>3, <2>1, <3>3, Zenon
      <4> QED
        BY <1>1, <3>1, <3>2, <3>3, <4>1
    <3>4. CASE q = p /\ a = b
      <4>1. /\ m[<<a, q, ACCEPT_RESERVE>>] = t[<<a, q, ACCEPT_RESERVE>>]
            /\ m[<<a, q, SELLOFFER_RESERVE>>] = t[<<a, q, SELLOFFER_RESERVE>>]
            /\ m[<<a, q, METADEX_RESERVE>>] = t[<<a, q, METADEX_RESERVE>>]
            /\ m[<<a, q, BALANCE>>] = t[<<a, q, BALANCE>>] + n
        BY <1>1, <1>3, <2>1, <3>4, Zenon
      <4> QED
        BY <1>1, <1>3, <3>1, <3>2, <3>4, <4>1
    <3>5. CASE ~(q = p /\ a = s) /\ ~(q = p /\ a = b)
      <4>1. \A ty \in TallyType : m[<<a, q, ty>>] = t[<<a, q, ty>>]
        BY <2>1, <3>5, Zenon
      <4> QED
        BY <1>1, <3>1, <3>2, <3>5, <4>1, Zenon
    <3> QED
      BY <3>3, <3>4, <3>5, Zenon
  <2>3. Handed(t, m, p, s, b, n)
    BY <2>2, Zenon DEF Handed
  <2>4. n <= Holding(t, s, p) /\ Holding(t, s, p) \in Nat
    <3>1. /\ t[<<s, p, ACCEPT_RESERVE>>] \in Nat
          /\ t[<<s, p, ACCEPT_RESERVE>>] <= Holding(t, s, p)
          /\ Holding(t, s, p) \in Nat
      BY <1>1, HoldingType, Zenon
    <3> QED
      BY <3>1
  <2>5. CASE n = 0
    <3>1. \A a \in Address, q \in Property : Holding(t, a, q) \in Nat
      BY HoldingType, Zenon
    <3>2. SameHoldings(t, m)
      BY <2>3, <2>5, <3>1 DEF Handed, SameHoldings
    <3> QED
      BY <3>2, Zenon DEF Traded, m
  <2>6. CASE n # 0
    <3>1. n \in 1..Holding(t, s, p)
      BY <2>4, <2>6
    <3> QED
      BY <1>3, <2>3, <3>1, Zenon DEF Traded, m
  <2> QED
    BY <2>5, <2>6, Zenon
<1> QED
  BY <1>2, <1>3, Zenon

\* What is bought is a number of tokens, at most what is left of the accept.
LEMMA PurchasedType ==
  ASSUME NEW c \in CMPAccept, c.desired # 0, NEW amountPaid \in Nat
  PROVE  Purchased(c, amountPaid) \in Nat /\ Purchased(c, amountPaid) <= c.remaining
<1>1. c.offered \in Nat /\ c.desired \in Nat \ {0} /\ c.remaining \in Nat
  BY Zenon DEF CMPAccept
<1> DEFINE n == amountPaid * c.offered
<1>2. n \in Nat /\ n = c.offered * amountPaid
  BY <1>1
<1>3. DivideAndRoundUp(n, c.desired) \in Nat
  <2> HIDE DEF n
  <2>1. CASE n = 0
    BY <2>1, Zenon DEF DivideAndRoundUp
  <2>2. CASE n # 0
    <3>1. n - 1 \in Nat
      BY <1>2, <2>2
    <3>2. (n - 1) \div c.desired \in Nat
      BY <1>1, <3>1
    <3> QED
      BY <2>2, <3>2 DEF DivideAndRoundUp
  <2> QED
    BY <2>1, <2>2, Zenon
<1>4. RoundedQuotient(n, c.desired) \in Nat
  BY <1>1, <1>2, RoundedQuotientType, Zenon
<1>5. calculateDExPurchase(c.offered, c.desired, amountPaid) \in Nat
  BY <1>2, <1>3, <1>4, Zenon DEF calculateDExPurchase
<1> QED
  BY <1>1, <1>5 DEF Purchased

\* The accept after a delivery.
LEMMA DeliveredAccept ==
  ASSUME NEW c \in CMPAccept, NEW n \in Nat, n <= c.remaining, NEW amountPaid \in Nat
  PROVE  LET d == reduceAcceptAmountRemaining(c, n, amountPaid)
         IN  /\ d \in CMPAccept
             /\ d.remaining = c.remaining - n /\ d.paid = c.paid + PaymentCounted(amountPaid)
             /\ d.original = c.original /\ d.offered = c.offered /\ d.desired = c.desired
             /\ d.window = c.window /\ d.age = c.age /\ d.txid = c.txid
<1> DEFINE m == PaymentCounted(amountPaid)
           r == [c EXCEPT !.remaining = @ - n]
           d == [c EXCEPT !.remaining = @ - n, !.paid = @ + m]
<1>1. c.remaining \in Nat /\ c.paid \in Nat /\ m \in Nat
  BY Zenon DEF CMPAccept, PaymentCounted
<1>2. d = reduceAcceptAmountRemaining(c, n, amountPaid)
  BY Zenon DEF reduceAcceptAmountRemaining
<1> HIDE DEF m
<1>3. c.remaining - n \in Nat /\ c.paid + m \in Nat
  BY <1>1
<1>4. /\ r \in CMPAccept
      /\ r.remaining = c.remaining - n /\ r.paid = c.paid
      /\ r.original = c.original /\ r.offered = c.offered /\ r.desired = c.desired
      /\ r.window = c.window /\ r.age = c.age /\ r.txid = c.txid
  BY <1>3, Zenon DEF CMPAccept
<1>5. d = [r EXCEPT !.paid = @ + m]
  BY Zenon
<1> HIDE DEF r, d
<1>6. /\ d \in CMPAccept
      /\ d.remaining = r.remaining /\ d.paid = r.paid + m
      /\ d.original = r.original /\ d.offered = r.offered /\ d.desired = r.desired
      /\ d.window = r.window /\ d.age = r.age /\ d.txid = r.txid
  BY <1>3, <1>4, <1>5 DEF CMPAccept
<1> QED
  BY <1>2, <1>4, <1>6, Zenon DEF m

\* What a delivery of n tokens changes, and what it leaves.
Delivered(st, u, s, b, p, n, amountPaid) ==
  LET c == st.accepts[<<s, p, b>>]
      d == u.accepts[<<s, p, b>>]
  IN  /\ u.offers = st.offers
      /\ DOMAIN u.accepts = DOMAIN st.accepts
      /\ \A x \in DOMAIN st.accepts : x # <<s, p, b>> => u.accepts[x] = st.accepts[x]
      /\ d.remaining = c.remaining - n /\ d.paid = c.paid + PaymentCounted(amountPaid)
      /\ d.original = c.original /\ d.offered = c.offered /\ d.desired = c.desired
      /\ d.window = c.window /\ d.age = c.age /\ d.txid = c.txid
      /\ u.tally[<<b, p, BALANCE>>] = st.tally[<<b, p, BALANCE>>] + n
      /\ \A a \in Address, q \in Property, ty \in TallyType :
            \/ a = s /\ q = p /\ ty = ACCEPT_RESERVE
            \/ a = b /\ q = p /\ ty = BALANCE
            \/ u.tally[<<a, q, ty>>] = st.tally[<<a, q, ty>>]

\* A delivery moves what was bought to the buyer and reduces the accept by it,
\* so the reserve still backs the accepts.
LEMMA DeliverEffect ==
  ASSUME NEW st, Backed(st), NEW s \in Address, NEW b \in Address, NEW p \in Property,
         <<s, p, b>> \in DOMAIN st.accepts,
         NEW n \in Nat, n <= st.accepts[<<s, p, b>>].remaining, NEW amountPaid \in Nat
  PROVE  LET u == Deliver(st, s, b, p, n, amountPaid)
         IN  Backed(u) /\ Traded(st.tally, u.tally) /\ Delivered(st, u, s, b, p, n, amountPaid)
<1> DEFINE u   == Deliver(st, s, b, p, n, amountPaid)
           k   == <<s, p, b>>
           c   == st.accepts[k]
           m   == PaymentCounted(amountPaid)
           d   == reduceAcceptAmountRemaining(c, n, amountPaid)
           mv  == Move(st.tally, s, ACCEPT_RESERVE, b, BALANCE, p, n)
           acc == [st.accepts EXCEPT ![k] = d]
<1>1. /\ c \in CMPAccept /\ c.remaining \in Nat
      /\ c.remaining <= st.tally[<<s, p, ACCEPT_RESERVE>>]
  BY RemainingBacked, Zenon
<1>2. /\ ACCEPT_RESERVE \in TallyType /\ BALANCE \in TallyType /\ ACCEPT_RESERVE # BALANCE
  BY Zenon DEF TallyType, BALANCE, ACCEPT_RESERVE
<1>3. /\ st.tally \in Tallied
      /\ DOMAIN st.accepts \subseteq AcceptKey
      /\ st.accepts \in [DOMAIN st.accepts -> CMPAccept]
      /\ DOMAIN st.offers \subseteq OfferKey
      /\ st.offers \in [DOMAIN st.offers -> CMPOffer]
  BY Zenon DEF Backed, IsDex
<1>4. st.tally[<<s, p, ACCEPT_RESERVE>>] \in Nat /\ n <= st.tally[<<s, p, ACCEPT_RESERVE>>]
  <2>1. st.tally[<<s, p, ACCEPT_RESERVE>>] \in Nat
    BY <1>2, <1>3, HoldingType, Zenon
  <2> QED
    BY <1>1, <2>1
<1>6. /\ d \in CMPAccept
      /\ d.remaining = c.remaining - n /\ d.paid = c.paid + m
      /\ d.original = c.original /\ d.offered = c.offered /\ d.desired = c.desired
      /\ d.window = c.window /\ d.age = c.age /\ d.txid = c.txid
  BY <1>1, DeliveredAccept
<1>7. u = State(mv, st.offers, acc)
  BY Zenon DEF Deliver
<1>8. u.tally = mv /\ u.offers = st.offers /\ u.accepts = acc /\ u = State(u.tally, u.offers, u.accepts)
  BY <1>7, StateFields
<1>9. /\ mv \in Tallied
      /\ mv[<<s, p, ACCEPT_RESERVE>>] = st.tally[<<s, p, ACCEPT_RESERVE>>] - n
      /\ mv[<<b, p, BALANCE>>] = st.tally[<<b, p, BALANCE>>] + n
      /\ \A a \in Address, q \in Property, ty \in TallyType :
            \/ a = s /\ q = p /\ ty = ACCEPT_RESERVE
            \/ a = b /\ q = p /\ ty = BALANCE
            \/ mv[<<a, q, ty>>] = st.tally[<<a, q, ty>>]
  BY <1>2, <1>3, <1>4, MoveEffect
<1>10. Traded(st.tally, mv)
  BY <1>3, <1>4, MoveIsTraded, Zenon
<1> HIDE DEF d
<1>11. /\ DOMAIN acc = DOMAIN st.accepts
       /\ acc \in [DOMAIN acc -> CMPAccept]
       /\ acc[k] = d
       /\ \A x \in DOMAIN st.accepts : x # k => acc[x] = st.accepts[x]
  BY <1>3, <1>6, Zenon
<1> HIDE DEF u, mv, acc
<1>12. IsDex(u)
  BY <1>3, <1>8, <1>9, <1>11, Zenon DEF IsDex
<1>13. \A x \in AcceptKey \ {<<s, p, b>>} :
          /\ x \in DOMAIN u.accepts <=> x \in DOMAIN st.accepts
          /\ x \in DOMAIN st.accepts => u.accepts[x].remaining = st.accepts[x].remaining
  BY <1>8, <1>11, Zenon
<1>14. \A a \in Address, q \in Property :
          <<a, q>> # <<s, p>> => u.tally[<<a, q, ACCEPT_RESERVE>>] = st.tally[<<a, q, ACCEPT_RESERVE>>]
  BY <1>2, <1>8, <1>9, Zenon
<1>15. Reserved(st, s, p)[b] = c.remaining /\ Reserved(u, s, p)[b] = d.remaining
  BY <1>8, <1>11, ReservedAt, Zenon
<1>16. u.tally[<<s, p, ACCEPT_RESERVE>>] + Reserved(st, s, p)[b]
          = st.tally[<<s, p, ACCEPT_RESERVE>>] + Reserved(u, s, p)[b]
  BY <1>1, <1>4, <1>6, <1>8, <1>9, <1>15
<1>17. Backed(u)
  BY <1>12, <1>13, <1>14, <1>16, BackedAfterChange, Zenon
<1> QED
  BY <1>6, <1>8, <1>9, <1>10, <1>11, <1>17, Zenon DEF u, Delivered

\* Nothing that keeps the holdings changes whether a step is a trade.
LEMMA TradedThenSame ==
  ASSUME NEW t, NEW u, NEW v, Traded(t, u), SameHoldings(u, v)
  PROVE  Traded(t, v)
BY DEF Traded, SameHoldings, Handed

\* A payment is a trade and keeps the reserve backed.
LEMMA PaymentBacked ==
  ASSUME NEW st, Backed(st), NEW s \in Address, NEW b \in Address, NEW p \in Property,
         <<s, p, b>> \in DOMAIN st.accepts, NEW amountPaid \in Nat
  PROVE  LET u == DEx_payment(st, s, b, p, amountPaid)
         IN  Backed(u) /\ Traded(st.tally, u.tally)
<1> DEFINE c         == st.accepts[<<s, p, b>>]
           purchased == Purchased(c, amountPaid)
           delivered == Deliver(st, s, b, p, purchased, amountPaid)
           closed    == DEx_acceptDestroy(delivered, b, s, p)
           destroyed == DEx_offerDestroy(closed, s, p)
           u         == DEx_payment(st, s, b, p, amountPaid)
<1>1. c \in CMPAccept
  BY RemainingBacked, Zenon
<1>2. SameHoldings(st.tally, st.tally)
  BY Zenon DEF SameHoldings
<1>3. CASE c.desired = 0
  <2>1. u = st
    BY <1>3, Zenon DEF DEx_payment, DEx_getAccept
  <2> QED
    BY <1>2, <2>1, Zenon DEF Traded
<1>4. CASE c.desired # 0
  <2>1. u \in {delivered, closed, destroyed}
    BY <1>4, Zenon DEF DEx_payment, DEx_getAccept
  <2>2. purchased \in Nat /\ purchased <= c.remaining
    BY <1>1, <1>4, PurchasedType, Zenon
  <2> HIDE DEF purchased
  <2>3. /\ Backed(delivered) /\ Traded(st.tally, delivered.tally)
        /\ Delivered(st, delivered, s, b, p, purchased, amountPaid)
    BY <2>2, DeliverEffect, Zenon
  <2>8. DOMAIN delivered.accepts = DOMAIN st.accepts
    BY <2>3, Zenon DEF Delivered
  <2> HIDE DEF delivered
  <2>4. Backed(closed) /\ SameHoldings(delivered.tally, closed.tally)
    BY <2>3, <2>8, AcceptDestroyEffect, Zenon
  <2> HIDE DEF closed
  <2>5. Backed(destroyed) /\ SameHoldings(closed.tally, destroyed.tally)
    BY <2>4, OfferDestroyBacked, Zenon
  <2> HIDE DEF destroyed, u
  <2>6. Traded(st.tally, closed.tally)
    BY <2>3, <2>4, TradedThenSame, Zenon
  <2>7. Traded(st.tally, destroyed.tally)
    BY <2>5, <2>6, TradedThenSame, Zenon
  <2> QED
    BY <2>1, <2>3, <2>4, <2>5, <2>6, <2>7, Zenon DEF u
<1> QED
  BY <1>3, <1>4, Zenon

-----------------------------------------------------------------------------
(* Blocks *)

\* An accept that expires returns its amount either on sale or to the balance.
LEMMA ReturnTypeIs ==
  ASSUME NEW st, NEW s, NEW p, NEW b
  PROVE  ReturnType(st, s, p, b) \in {SELLOFFER_RESERVE, BALANCE}
BY Zenon DEF ReturnType

\* The total reserved with a seller is what expires, to either entry, and what stays.
LEMMA ReservedSplit ==
  ASSUME NEW st, Backed(st), NEW s \in Address, NEW p \in Property
  PROVE  LET u    == eraseExpiredAccepts(st)
             sell == ExpiredTo(st, s, p, SELLOFFER_RESERVE)
             bal  == ExpiredTo(st, s, p, BALANCE)
         IN  /\ sell \in Nat /\ bal \in Nat /\ Sum(Reserved(u, s, p)) \in Nat
             /\ Sum(Reserved(st, s, p)) = (sell + bal) + Sum(Reserved(u, s, p))
<1> DEFINE u  == eraseExpiredAccepts(st)
           r  == Reserved(st, s, p)
           l  == Reserved(u, s, p)
           e1 == ExpiredAmounts(st, s, p, SELLOFFER_RESERVE)
           e2 == ExpiredAmounts(st, s, p, BALANCE)
           e  == [b \in Address |-> IF <<s, p, b>> \in Expired(st) THEN r[b] ELSE 0]
<1>1. DOMAIN u.accepts = DOMAIN st.accepts \ Expired(st)
  BY StateFields DEF eraseExpiredAccepts, Restrict
<1>2. \A x \in DOMAIN st.accepts \ Expired(st) : u.accepts[x] = st.accepts[x]
  BY StateFields DEF eraseExpiredAccepts, Restrict
<1>3. \A x \in Expired(st) : x \in DOMAIN st.accepts
  BY Zenon DEF Expired
<1>4. r \in [Address -> Nat]
  BY ReservedType, Zenon DEF Backed
<1>5. \A b \in Address : r[b] = IF <<s, p, b>> \in DOMAIN st.accepts
                                THEN st.accepts[<<s, p, b>>].remaining ELSE 0
  BY ReservedAt, Zenon
<1>6. \A b \in Address : l[b] = IF <<s, p, b>> \in DOMAIN u.accepts
                                THEN u.accepts[<<s, p, b>>].remaining ELSE 0
  BY ReservedAt, Zenon
<1>7. \A b \in Address : l[b] = IF <<s, p, b>> \in Expired(st) THEN 0 ELSE r[b]
  BY <1>1, <1>2, <1>3, <1>5, <1>6, Zenon
<1>8. l \in [Address -> Nat]
  <2>1. l = [b \in Address |-> l[b]]
    BY Zenon DEF Reserved
  <2> HIDE DEF r, l
  <2>2. ASSUME NEW b \in Address PROVE l[b] \in Nat
    <3>1. r[b] \in Nat
      BY <1>4, <2>2, Zenon
    <3>2. l[b] = 0 \/ l[b] = r[b]
      BY <1>7, <2>2, Zenon
    <3> QED
      BY <3>1, <3>2
  <2> QED
    BY <2>1, <2>2, Zenon
<1>9. SELLOFFER_RESERVE # BALANCE
  BY Zenon DEF SELLOFFER_RESERVE, BALANCE
<1>10. \A b \in Address :
         /\ e1[b] = IF <<s, p, b>> \in Expired(st) /\ ReturnType(st, s, p, b) = SELLOFFER_RESERVE
                    THEN r[b] ELSE 0
         /\ e2[b] = IF <<s, p, b>> \in Expired(st) /\ ReturnType(st, s, p, b) = BALANCE
                    THEN r[b] ELSE 0
  BY <1>3, <1>5, Zenon DEF ExpiredAmounts, DEx_getAccept
<1>11. e1 \in [Address -> Nat] /\ e2 \in [Address -> Nat]
  <2>1. e1 = [b \in Address |-> e1[b]] /\ e2 = [b \in Address |-> e2[b]]
    BY Zenon DEF ExpiredAmounts
  <2> HIDE DEF r, e1, e2
  <2>2. ASSUME NEW b \in Address PROVE e1[b] \in Nat /\ e2[b] \in Nat
    <3>1. r[b] \in Nat
      BY <1>4, <2>2, Zenon
    <3>2. (e1[b] = 0 \/ e1[b] = r[b]) /\ (e2[b] = 0 \/ e2[b] = r[b])
      BY <1>10, <2>2, Zenon
    <3> QED
      BY <3>1, <3>2
  <2> QED
    BY <2>1, <2>2, Zenon
<1>12. e \in [Address -> Nat]
  BY <1>4, Zenon
<1>13. \A b \in Address : \/ e[b] = 0 /\ r[b] = l[b]
                          \/ l[b] = 0 /\ r[b] = e[b]
  BY <1>7, Zenon
<1>14. \A b \in Address : \/ e1[b] = 0 /\ e[b] = e2[b]
                          \/ e2[b] = 0 /\ e[b] = e1[b]
  BY <1>9, <1>10, ReturnTypeIs
<1> HIDE DEF r, l, e, e1, e2
<1>15. Sum(r) = Sum(e) + Sum(l)
  BY <1>4, <1>8, <1>12, <1>13, SumSplit, AddressAssumption
<1>16. Sum(e) = Sum(e1) + Sum(e2)
  BY <1>11, <1>12, <1>14, SumSplit, AddressAssumption
<1>17. Sum(e1) \in Nat /\ Sum(e2) \in Nat /\ Sum(l) \in Nat
  BY <1>8, <1>11, SumType, AddressAssumption, Zenon
<1> QED
  BY <1>15, <1>16, <1>17, Zenon DEF r, l, e1, e2, ExpiredTo

\* Expiry returns the reserved tokens to their owners and keeps the rest backed.
LEMMA ExpiryBacked ==
  ASSUME NEW st, Backed(st)
  PROVE  LET u == eraseExpiredAccepts(st)
         IN  /\ Backed(u) /\ SameHoldings(st.tally, u.tally)
             /\ u.offers = st.offers
             /\ DOMAIN u.accepts = DOMAIN st.accepts \ Expired(st)
             /\ \A x \in DOMAIN u.accepts : u.accepts[x] = st.accepts[x]
             /\ \A a \in Address, p \in Property :
                  /\ ExpiredTo(st, a, p, SELLOFFER_RESERVE) \in Nat
                  /\ u.tally[<<a, p, SELLOFFER_RESERVE>>]
                       = st.tally[<<a, p, SELLOFFER_RESERVE>>] + ExpiredTo(st, a, p, SELLOFFER_RESERVE)
<1> DEFINE u == eraseExpiredAccepts(st)
           t == [k \in TallyKey |-> st.tally[k] + ExpiryChange(st, k[1], k[2], k[3])]
           S == DOMAIN st.accepts \ Expired(st)
           acc == Restrict(st.accepts, S)
<1>1. u.tally = t /\ u.offers = st.offers /\ u.accepts = acc /\ u = State(u.tally, u.offers, u.accepts)
  BY StateFields DEF eraseExpiredAccepts
<1>2. /\ st.tally \in Tallied
      /\ DOMAIN st.accepts \subseteq AcceptKey
      /\ st.accepts \in [DOMAIN st.accepts -> CMPAccept]
      /\ DOMAIN st.offers \subseteq OfferKey
      /\ st.offers \in [DOMAIN st.offers -> CMPOffer]
  BY Zenon DEF Backed, IsDex
<1>3. /\ DOMAIN acc = S
      /\ DOMAIN acc \subseteq AcceptKey
      /\ acc \in [DOMAIN acc -> CMPAccept]
      /\ \A x \in DOMAIN acc : acc[x] = st.accepts[x]
  BY <1>2, Zenon DEF Restrict
<1>4. ASSUME NEW a \in Address, NEW p \in Property
      PROVE  LET sell == ExpiredTo(st, a, p, SELLOFFER_RESERVE)
                 bal  == ExpiredTo(st, a, p, BALANCE)
             IN  /\ t[<<a, p, ACCEPT_RESERVE>>] = st.tally[<<a, p, ACCEPT_RESERVE>>] - (sell + bal)
                 /\ t[<<a, p, SELLOFFER_RESERVE>>] = st.tally[<<a, p, SELLOFFER_RESERVE>>] + sell
                 /\ t[<<a, p, BALANCE>>] = st.tally[<<a, p, BALANCE>>] + bal
                 /\ t[<<a, p, METADEX_RESERVE>>] = st.tally[<<a, p, METADEX_RESERVE>>]
  <2> DEFINE sell == ExpiredTo(st, a, p, SELLOFFER_RESERVE)
             bal  == ExpiredTo(st, a, p, BALANCE)
  <2>1. sell \in Nat /\ bal \in Nat
    BY <1>4, ReservedSplit, Zenon
  <2>2. \A ty \in TallyType : t[<<a, p, ty>>] = st.tally[<<a, p, ty>>] + ExpiryChange(st, a, p, ty)
    BY <1>4, Zenon DEF TallyKey
  <2>3. /\ ExpiryChange(st, a, p, ACCEPT_RESERVE) = -(sell + bal)
        /\ ExpiryChange(st, a, p, SELLOFFER_RESERVE) = sell
        /\ ExpiryChange(st, a, p, BALANCE) = bal
        /\ ExpiryChange(st, a, p, METADEX_RESERVE) = 0
    BY Zenon DEF ExpiryChange, BALANCE, SELLOFFER_RESERVE, ACCEPT_RESERVE, METADEX_RESERVE
  <2>4. /\ ACCEPT_RESERVE \in TallyType /\ BALANCE \in TallyType
        /\ SELLOFFER_RESERVE \in TallyType /\ METADEX_RESERVE \in TallyType
    BY Zenon DEF TallyType
  <2>5. \A ty \in TallyType : st.tally[<<a, p, ty>>] \in Nat
    BY <1>2, <1>4, HoldingType, Zenon
  <2> HIDE DEF sell, bal, t
  <2>6. /\ t[<<a, p, ACCEPT_RESERVE>>] = st.tally[<<a, p, ACCEPT_RESERVE>>] - (sell + bal)
        /\ t[<<a, p, SELLOFFER_RESERVE>>] = st.tally[<<a, p, SELLOFFER_RESERVE>>] + sell
        /\ t[<<a, p, BALANCE>>] = st.tally[<<a, p, BALANCE>>] + bal
        /\ t[<<a, p, METADEX_RESERVE>>] = st.tally[<<a, p, METADEX_RESERVE>>]
    BY <2>1, <2>2, <2>3, <2>4, <2>5
  <2> QED
    BY <2>6, Zenon DEF sell, bal
<1>5. ASSUME NEW a \in Address, NEW p \in Property
      PROVE  /\ \A ty \in TallyType : t[<<a, p, ty>>] \in Nat
             /\ t[<<a, p, ACCEPT_RESERVE>>] = Sum(Reserved(u, a, p))
             /\ Holding(t, a, p) = Holding(st.tally, a, p)
  <2> DEFINE sell == ExpiredTo(st, a, p, SELLOFFER_RESERVE)
             bal  == ExpiredTo(st, a, p, BALANCE)
             rest == Sum(Reserved(u, a, p))
  <2>1. /\ sell \in Nat /\ bal \in Nat /\ rest \in Nat
        /\ Sum(Reserved(st, a, p)) = (sell + bal) + rest
    BY <1>5, ReservedSplit, Zenon
  <2>2. /\ t[<<a, p, ACCEPT_RESERVE>>] = st.tally[<<a, p, ACCEPT_RESERVE>>] - (sell + bal)
        /\ t[<<a, p, SELLOFFER_RESERVE>>] = st.tally[<<a, p, SELLOFFER_RESERVE>>] + sell
        /\ t[<<a, p, BALANCE>>] = st.tally[<<a, p, BALANCE>>] + bal
        /\ t[<<a, p, METADEX_RESERVE>>] = st.tally[<<a, p, METADEX_RESERVE>>]
    BY <1>4, <1>5, Zenon
  <2>3. st.tally[<<a, p, ACCEPT_RESERVE>>] = Sum(Reserved(st, a, p))
    BY <1>5, Zenon DEF Backed, AcceptsBackedBy, GetTokenBalance
  <2>4. \A ty \in TallyType : st.tally[<<a, p, ty>>] \in Nat
    BY <1>2, <1>5, HoldingType, Zenon
  <2>5. /\ st.tally[<<a, p, SELLOFFER_RESERVE>>] \in Nat
        /\ st.tally[<<a, p, BALANCE>>] \in Nat /\ st.tally[<<a, p, METADEX_RESERVE>>] \in Nat
    BY <2>4, Zenon DEF TallyType
  <2> HIDE DEF sell, bal, rest, t
  <2>6. t[<<a, p, ACCEPT_RESERVE>>] = rest
    BY <2>1, <2>2, <2>3
  <2>7. \A ty \in TallyType : t[<<a, p, ty>>] \in Nat
    BY <2>1, <2>2, <2>5, <2>6 DEF TallyType
  <2>8. Holding(t, a, p) = Holding(st.tally, a, p)
    BY <2>1, <2>2, <2>3, <2>5, <2>6 DEF Holding, GetTokenBalance
  <2> QED
    BY <2>6, <2>7, <2>8, Zenon DEF rest
<1>6. t \in Tallied
  <2>1. ASSUME NEW k \in TallyKey PROVE t[k] \in Nat
    <3>1. PICK a \in Address, p \in Property, ty \in TallyType : k = <<a, p, ty>>
      BY <2>1 DEF TallyKey
    <3> HIDE DEF t
    <3> QED
      BY <1>5, <3>1, Zenon
  <2>2. t = [k \in TallyKey |-> t[k]]
    BY Zenon
  <2> HIDE DEF t
  <2> QED
    BY <2>1, <2>2, Zenon DEF Tallied
<1> HIDE DEF t, acc, u
<1>7. IsDex(u)
  BY <1>1, <1>2, <1>3, <1>6, Zenon DEF IsDex
<1>8. AcceptsBackedBy(u)
  BY <1>1, <1>5, Zenon DEF AcceptsBackedBy, GetTokenBalance
<1>9. SameHoldings(st.tally, u.tally)
  BY <1>1, <1>5, Zenon DEF SameHoldings
<1>10. \A a \in Address, p \in Property :
         /\ ExpiredTo(st, a, p, SELLOFFER_RESERVE) \in Nat
         /\ u.tally[<<a, p, SELLOFFER_RESERVE>>]
              = st.tally[<<a, p, SELLOFFER_RESERVE>>] + ExpiredTo(st, a, p, SELLOFFER_RESERVE)
  BY <1>1, <1>4, ReservedSplit, Zenon
<1> QED
  BY <1>1, <1>3, <1>7, <1>8, <1>9, <1>10, Zenon DEF Backed, u, S

\* What an accept says of the price and of the payments so far.
SameTerms(c, d) ==
  d.paid = c.paid /\ d.original = c.original /\ d.offered = c.offered /\ d.desired = c.desired

\* A block makes every accept older and changes nothing else.
LEMMA AgedBacked ==
  ASSUME NEW st, Backed(st)
  PROVE  LET u == Aged(st)
         IN  /\ Backed(u) /\ u.tally = st.tally
             /\ u.offers = st.offers
             /\ DOMAIN u.accepts = DOMAIN st.accepts
             /\ \A x \in DOMAIN st.accepts :
                  /\ u.accepts[x].remaining = st.accepts[x].remaining
                  /\ u.accepts[x].window = st.accepts[x].window
                  /\ u.accepts[x].age = Older(st.accepts[x])
                  /\ u.accepts[x].txid = st.accepts[x].txid
                  /\ SameTerms(st.accepts[x], u.accepts[x])
<1> DEFINE u   == Aged(st)
           acc == [k \in DOMAIN st.accepts |-> [st.accepts[k] EXCEPT !.age = Older(st.accepts[k])]]
<1>1. u.tally = st.tally /\ u.offers = st.offers /\ u.accepts = acc /\ u = State(u.tally, u.offers, u.accepts)
  BY StateFields DEF Aged
<1>2. /\ st.tally \in Tallied
      /\ DOMAIN st.accepts \subseteq AcceptKey
      /\ st.accepts \in [DOMAIN st.accepts -> CMPAccept]
      /\ DOMAIN st.offers \subseteq OfferKey
      /\ st.offers \in [DOMAIN st.offers -> CMPOffer]
  BY Zenon DEF Backed, IsDex
<1>3. ASSUME NEW x \in DOMAIN st.accepts
      PROVE  /\ acc[x] \in CMPAccept
             /\ acc[x].remaining = st.accepts[x].remaining
             /\ acc[x].window = st.accepts[x].window
             /\ acc[x].age = Older(st.accepts[x])
             /\ acc[x].txid = st.accepts[x].txid
             /\ SameTerms(st.accepts[x], acc[x])
  <2> DEFINE c == st.accepts[x]
             d == [c EXCEPT !.age = Older(c)]
  <2>1. c \in CMPAccept
    BY <1>2, <1>3, Zenon
  <2>2. acc[x] = d
    BY <1>3, Zenon
  <2> HIDE DEF c, acc
  <2>3. Older(c) \in Nat
    BY <2>1 DEF CMPAccept, Older
  <2>4. /\ d \in CMPAccept /\ d.remaining = c.remaining /\ d.window = c.window
        /\ d.age = Older(c) /\ d.txid = c.txid /\ SameTerms(c, d)
    BY <2>1, <2>3, Zenon DEF CMPAccept, SameTerms
  <2> QED
    BY <2>2, <2>4, Zenon DEF c
<1>4. DOMAIN acc = DOMAIN st.accepts /\ acc = [x \in DOMAIN st.accepts |-> acc[x]]
  BY Zenon
<1> HIDE DEF acc, u
<1>5. acc \in [DOMAIN acc -> CMPAccept]
  BY <1>3, <1>4, Zenon
<1>6. IsDex(u)
  BY <1>1, <1>2, <1>4, <1>5, Zenon DEF IsDex
<1>7. ASSUME NEW s \in Address, NEW p \in Property
      PROVE  u.tally[<<s, p, ACCEPT_RESERVE>>] = Sum(Reserved(u, s, p))
  <2>1. ASSUME NEW b \in Address PROVE Reserved(u, s, p)[b] = Reserved(st, s, p)[b]
    <3>1. /\ Reserved(u, s, p)[b] = IF <<s, p, b>> \in DOMAIN u.accepts
                                   THEN u.accepts[<<s, p, b>>].remaining ELSE 0
          /\ Reserved(st, s, p)[b] = IF <<s, p, b>> \in DOMAIN st.accepts
                                    THEN st.accepts[<<s, p, b>>].remaining ELSE 0
      BY <1>7, <2>1, ReservedAt, Zenon
    <3> QED
      BY <1>1, <1>3, <1>4, <3>1, Zenon
  <2>2. Reserved(u, s, p) \in [Address -> Nat] /\ Reserved(st, s, p) \in [Address -> Nat]
    BY <1>6, <1>7, ReservedType, Zenon DEF Backed
  <2>3. Reserved(u, s, p) = Reserved(st, s, p)
    BY <2>1, <2>2
  <2> QED
    BY <1>1, <1>7, <2>3, Zenon DEF Backed, AcceptsBackedBy, GetTokenBalance
<1>8. Backed(u)
  BY <1>6, <1>7, Zenon DEF Backed, AcceptsBackedBy, GetTokenBalance
<1> QED
  BY <1>1, <1>3, <1>4, <1>8, Zenon DEF u

-----------------------------------------------------------------------------
(* What sellers and buyers can rely on *)

\* The tokens on sale belong to an offer, and no offer is oversold.
SaleHasOffer(st) ==
  \A s \in Address, p \in Property :
    st.tally[<<s, p, SELLOFFER_RESERVE>>] > 0 => <<s, p>> \in DOMAIN st.offers

NotOversold(st) ==
  \A s \in Address, p \in Property : <<s, p>> \in DOMAIN st.offers =>
    st.tally[<<s, p, SELLOFFER_RESERVE>>] + Sum(ReservedFrom(st, s, p, st.offers[<<s, p>>].txid))
      <= st.offers[<<s, p>>].offered

Sales(st) == SaleHasOffer(st) /\ NotOversold(st)

\* An open accept is unpaid, in time, and not behind the payments.
InOrder(c) ==
  /\ c.remaining > 0
  /\ c.age <= c.window
  /\ c.paid * c.offered <= (c.original - c.remaining) * c.desired

Orderly(st) == Sales(st) /\ \A k \in DOMAIN st.accepts : InOrder(st.accepts[k])

\* The entries of the ledger of a state.
LEMMA TallyTypes ==
  ASSUME NEW st, Backed(st), NEW a \in Address, NEW p \in Property
  PROVE  /\ st.tally \in Tallied
         /\ st.tally[<<a, p, BALANCE>>] \in Nat
         /\ st.tally[<<a, p, SELLOFFER_RESERVE>>] \in Nat
         /\ st.tally[<<a, p, ACCEPT_RESERVE>>] \in Nat
<1>1. st.tally \in Tallied
  BY Zenon DEF Backed, IsDex
<1>2. \A ty \in TallyType : st.tally[<<a, p, ty>>] \in Nat
  BY <1>1, HoldingType, Zenon
<1> QED
  BY <1>1, <1>2, Zenon DEF TallyType

\* What a buyer has reserved from the offer with a hash.
LEMMA ReservedFromAt ==
  ASSUME NEW st, Backed(st), NEW s \in Address, NEW p \in Property, NEW txid
  PROVE  /\ ReservedFrom(st, s, p, txid) \in [Address -> Nat]
         /\ \A b \in Address :
              ReservedFrom(st, s, p, txid)[b]
                = IF <<s, p, b>> \in DOMAIN st.accepts /\ st.accepts[<<s, p, b>>].txid = txid
                  THEN st.accepts[<<s, p, b>>].remaining ELSE 0
         /\ Sum(ReservedFrom(st, s, p, txid)) \in Nat
<1> DEFINE r == ReservedFrom(st, s, p, txid)
<1>1. \A b \in Address : r[b] = IF <<s, p, b>> \in DOMAIN st.accepts /\ st.accepts[<<s, p, b>>].txid = txid
                                THEN st.accepts[<<s, p, b>>].remaining ELSE 0
  BY Zenon DEF ReservedFrom, DEx_acceptExists, DEx_getAccept
<1>2. \A b \in Address : <<s, p, b>> \in DOMAIN st.accepts => st.accepts[<<s, p, b>>].remaining \in Nat
  BY RemainingBacked, Zenon
<1>3. r = [b \in Address |-> r[b]]
  BY Zenon DEF ReservedFrom
<1> HIDE DEF r
<1>6. ASSUME NEW b \in Address PROVE r[b] \in Nat
  <2>1. CASE <<s, p, b>> \in DOMAIN st.accepts /\ st.accepts[<<s, p, b>>].txid = txid
    BY <1>1, <1>2, <2>1, Zenon
  <2>2. CASE ~(<<s, p, b>> \in DOMAIN st.accepts /\ st.accepts[<<s, p, b>>].txid = txid)
    BY <1>1, <2>2
  <2> QED
    BY <2>1, <2>2, Zenon
<1>4. r \in [Address -> Nat]
  BY <1>3, <1>6, Zenon
<1>5. Sum(r) \in Nat
  BY <1>4, SumType, AddressAssumption, Zenon
<1> QED
  BY <1>1, <1>4, <1>5, Zenon DEF r

\* If one accept changes, what is reserved changes by as much.
LEMMA ReservedFromChange ==
  ASSUME NEW st, Backed(st), NEW u, Backed(u),
         NEW s \in Address, NEW p \in Property, NEW b \in Address, NEW txid,
         \A c \in Address \ {b} :
            /\ <<s, p, c>> \in DOMAIN u.accepts <=> <<s, p, c>> \in DOMAIN st.accepts
            /\ <<s, p, c>> \in DOMAIN st.accepts => u.accepts[<<s, p, c>>] = st.accepts[<<s, p, c>>]
  PROVE  /\ ReservedFrom(st, s, p, txid)[b] \in Nat /\ ReservedFrom(u, s, p, txid)[b] \in Nat
         /\ Sum(ReservedFrom(u, s, p, txid)) + ReservedFrom(st, s, p, txid)[b]
              = Sum(ReservedFrom(st, s, p, txid)) + ReservedFrom(u, s, p, txid)[b]
<1> DEFINE f == ReservedFrom(st, s, p, txid)
           g == ReservedFrom(u, s, p, txid)
           v == g[b]
<1>1. f \in [Address -> Nat] /\ g \in [Address -> Nat] /\ Sum(f) \in Nat
  BY ReservedFromAt, Zenon
<1>2. ASSUME NEW c \in Address \ {b} PROVE g[c] = f[c]
  BY <1>2, Zenon DEF ReservedFrom, DEx_acceptExists, DEx_getAccept
<1> HIDE DEF f, g
<1>3. g = [f EXCEPT ![b] = v]
  BY <1>1, <1>2, Zenon
<1>4. v \in Nat /\ f[b] \in Nat
  BY <1>1, Zenon
<1> HIDE DEF v
<1>5. Sum([f EXCEPT ![b] = v]) = Sum(f) - f[b] + v
  BY <1>1, <1>4, SumUpdate, AddressAssumption, Zenon
<1>6. Sum(g) + f[b] = Sum(f) + v
  BY <1>1, <1>3, <1>4, <1>5
<1> QED
  BY <1>4, <1>6, Zenon DEF f, g, v

\* If no accept changes, nothing that is reserved does.
LEMMA ReservedFromSame ==
  ASSUME NEW st, NEW u, u.accepts = st.accepts, NEW s, NEW p, NEW txid
  PROVE  ReservedFrom(u, s, p, txid) = ReservedFrom(st, s, p, txid)
BY Zenon DEF ReservedFrom, DEx_acceptExists, DEx_getAccept

-----------------------------------------------------------------------------
(* Offers *)

\* A new offer, whose hash no accept has, is not oversold.
LEMMA OfferCreateOrderly ==
  ASSUME NEW st, Backed(st), Sales(st), NEW s \in Address, NEW p \in Property, NEW offered \in Nat,
         NEW desired \in Nat, NEW minFee \in Nat, NEW window \in Nat, NEW txid \in Txid,
         \A k \in DOMAIN st.accepts : st.accepts[k].txid # txid
  PROVE  LET u == DEx_offerCreate(st, s, p, offered, desired, minFee, window, txid)
         IN  Sales(u) /\ u.accepts = st.accepts
<1> DEFINE u == DEx_offerCreate(st, s, p, offered, desired, minFee, window, txid)
<1>1. CASE u = st
  BY <1>1, Zenon
<1>2. CASE u # st
  <2>1. PICK n \in Nat \ {0}, o \in CMPOffer :
          /\ n <= st.tally[<<s, p, BALANCE>>]
          /\ <<s, p>> \notin DOMAIN st.offers
          /\ o.offered = n /\ o.txid = txid
          /\ u = State(Move(st.tally, s, BALANCE, s, SELLOFFER_RESERVE, p, n),
                       With(st.offers, <<s, p>>, o), st.accepts)
    <3>1. PutUpForSale(st, s, p, txid, u)
      BY <1>2, OfferCreateEffect, Zenon DEF Backed
    <3> QED
      BY <3>1, Zenon DEF PutUpForSale
  <2>2. Backed(u)
    BY OfferCreateBacked, Zenon
  <2> DEFINE m == Move(st.tally, s, BALANCE, s, SELLOFFER_RESERVE, p, n)
             w == With(st.offers, <<s, p>>, o)
  <2>3. BALANCE \in TallyType /\ SELLOFFER_RESERVE \in TallyType /\ BALANCE # SELLOFFER_RESERVE
    BY Zenon DEF TallyType, BALANCE, SELLOFFER_RESERVE
  <2>11. st.tally \in Tallied /\ st.tally[<<s, p, SELLOFFER_RESERVE>>] \in Nat
    BY TallyTypes, Zenon
  <2>4. /\ m[<<s, p, SELLOFFER_RESERVE>>] = st.tally[<<s, p, SELLOFFER_RESERVE>>] + n
        /\ \A c \in Address, q \in Property, ty \in TallyType :
              (c = s /\ q = p /\ ty \in {BALANCE, SELLOFFER_RESERVE}) \/ m[<<c, q, ty>>] = st.tally[<<c, q, ty>>]
    BY <2>1, <2>3, <2>11, MoveWithin
  <2>5. DOMAIN w = DOMAIN st.offers \cup {<<s, p>>} /\ w[<<s, p>>] = o
        /\ \A x \in DOMAIN st.offers : x # <<s, p>> => w[x] = st.offers[x]
    BY Zenon DEF With
  <2>6. u.tally = m /\ u.offers = w /\ u.accepts = st.accepts
    BY <2>1, StateFields
  <2> HIDE DEF u, m, w
  <2>7. u.tally[<<s, p, SELLOFFER_RESERVE>>] = n
    <3>1. st.tally[<<s, p, SELLOFFER_RESERVE>>] = 0
      BY <2>1, <2>11 DEF Sales, SaleHasOffer
    <3> QED
      BY <2>4, <2>6, <3>1
  <2>8. ASSUME NEW a \in Address, NEW q \in Property, <<a, q>> # <<s, p>>
        PROVE  u.tally[<<a, q, SELLOFFER_RESERVE>>] = st.tally[<<a, q, SELLOFFER_RESERVE>>]
    BY <2>3, <2>4, <2>6, <2>8, Zenon
  <2>9. SaleHasOffer(u)
    <3> SUFFICES ASSUME NEW a \in Address, NEW q \in Property, u.tally[<<a, q, SELLOFFER_RESERVE>>] > 0
                 PROVE  <<a, q>> \in DOMAIN u.offers
      BY Zenon DEF SaleHasOffer
    <3>1. CASE <<a, q>> = <<s, p>>
      BY <2>5, <2>6, <3>1, Zenon
    <3>2. CASE <<a, q>> # <<s, p>>
      BY <2>5, <2>6, <2>8, <3>2, Zenon DEF Sales, SaleHasOffer
    <3> QED
      BY <3>1, <3>2, Zenon
  <2>10. NotOversold(u)
    <3> SUFFICES ASSUME NEW a \in Address, NEW q \in Property, <<a, q>> \in DOMAIN u.offers
                 PROVE  u.tally[<<a, q, SELLOFFER_RESERVE>>]
                          + Sum(ReservedFrom(u, a, q, u.offers[<<a, q>>].txid)) <= u.offers[<<a, q>>].offered
      BY Zenon DEF NotOversold
    <3>1. CASE <<a, q>> = <<s, p>>
      <4>1. a = s /\ q = p /\ u.offers[<<a, q>>] = o
        BY <2>5, <2>6, <3>1, Zenon
      <4> DEFINE f == ReservedFrom(u, s, p, txid)
      <4>2. f \in [Address -> Nat]
        BY <2>2, ReservedFromAt, Zenon
      <4>3. \A b \in Address : f[b] = 0
        BY <2>6, Zenon DEF ReservedFrom, DEx_acceptExists, DEx_getAccept
      <4> HIDE DEF f
      <4>4. Sum(f) = 0
        BY <4>2, <4>3, SumZero, AddressAssumption, Zenon
      <4> QED
        BY <2>1, <2>7, <4>1, <4>4 DEF f
    <3>2. CASE <<a, q>> # <<s, p>>
      <4>1. <<a, q>> \in DOMAIN st.offers /\ u.offers[<<a, q>>] = st.offers[<<a, q>>]
        BY <2>5, <2>6, <3>2
      <4>2. ReservedFrom(u, a, q, u.offers[<<a, q>>].txid) = ReservedFrom(st, a, q, st.offers[<<a, q>>].txid)
        BY <2>6, <4>1, ReservedFromSame
      <4> QED
        BY <2>8, <3>2, <4>1, <4>2 DEF Sales, NotOversold
    <3> QED
      BY <3>1, <3>2, Zenon
  <2> QED
    BY <2>6, <2>9, <2>10, Zenon DEF Sales, u
<1> QED
  BY <1>1, <1>2, Zenon

\* What DEx_offerDestroy changes: the offer goes, and what was on sale is free.
LEMMA OfferDestroyEffect ==
  ASSUME NEW st, Backed(st), NEW s \in Address, NEW p \in Property
  PROVE  LET u == DEx_offerDestroy(st, s, p)
         IN  /\ u.accepts = st.accepts
             /\ DOMAIN u.offers = DOMAIN st.offers \ {<<s, p>>}
             /\ \A x \in DOMAIN u.offers : u.offers[x] = st.offers[x]
             /\ <<s, p>> \in DOMAIN st.offers => u.tally[<<s, p, SELLOFFER_RESERVE>>] = 0
             /\ <<s, p>> \notin DOMAIN st.offers => u.tally = st.tally
             /\ \A a \in Address, q \in Property : u.tally[<<a, q, BALANCE>>] >= st.tally[<<a, q, BALANCE>>]
             /\ \A a \in Address, q \in Property : <<a, q>> # <<s, p>> =>
                  u.tally[<<a, q, SELLOFFER_RESERVE>>] = st.tally[<<a, q, SELLOFFER_RESERVE>>]
<1> DEFINE u == DEx_offerDestroy(st, s, p)
           n == st.tally[<<s, p, SELLOFFER_RESERVE>>]
           m == Move(st.tally, s, SELLOFFER_RESERVE, s, BALANCE, p, n)
           w == Without(st.offers, <<s, p>>)
<1>1. CASE <<s, p>> \notin DOMAIN st.offers
  <2>1. u = st
    BY <1>1, Zenon DEF DEx_offerDestroy, DEx_offerExists
  <2>2. ASSUME NEW a \in Address, NEW q \in Property
        PROVE  st.tally[<<a, q, BALANCE>>] >= st.tally[<<a, q, BALANCE>>]
    <3>1. st.tally[<<a, q, BALANCE>>] \in Nat
      BY TallyTypes, Zenon
    <3> QED
      BY <3>1
  <2> QED
    BY <1>1, <2>1, <2>2, Zenon
<1>2. CASE <<s, p>> \in DOMAIN st.offers
  <2>1. u = State(m, w, st.accepts)
    BY <1>2, Zenon DEF DEx_offerDestroy, DEx_offerExists, GetTokenBalance
  <2>2. u.tally = m /\ u.offers = w /\ u.accepts = st.accepts
    BY <2>1, StateFields
  <2>3. BALANCE \in TallyType /\ SELLOFFER_RESERVE \in TallyType /\ BALANCE # SELLOFFER_RESERVE
    BY Zenon DEF TallyType, BALANCE, SELLOFFER_RESERVE
  <2>10. st.tally \in Tallied /\ st.tally[<<s, p, SELLOFFER_RESERVE>>] \in Nat
    BY TallyTypes, Zenon
  <2>4. n \in Nat /\ n <= st.tally[<<s, p, SELLOFFER_RESERVE>>]
    BY <2>10
  <2>5. /\ m[<<s, p, SELLOFFER_RESERVE>>] = st.tally[<<s, p, SELLOFFER_RESERVE>>] - n
        /\ m[<<s, p, BALANCE>>] = st.tally[<<s, p, BALANCE>>] + n
        /\ \A c \in Address, q \in Property, ty \in TallyType :
              (c = s /\ q = p /\ ty \in {SELLOFFER_RESERVE, BALANCE}) \/ m[<<c, q, ty>>] = st.tally[<<c, q, ty>>]
    <3> HIDE DEF n
    <3> QED
      BY <2>3, <2>4, <2>10, MoveWithin
  <2>6. DOMAIN w = DOMAIN st.offers \ {<<s, p>>} /\ \A x \in DOMAIN w : w[x] = st.offers[x]
    BY Zenon DEF Without, Restrict
  <2> HIDE DEF u, m, w
  <2>7. m[<<s, p, SELLOFFER_RESERVE>>] = 0
    BY <2>4, <2>5
  <2> HIDE DEF n
  <2>8. ASSUME NEW a \in Address, NEW q \in Property PROVE m[<<a, q, BALANCE>>] >= st.tally[<<a, q, BALANCE>>]
    <3>1. st.tally[<<a, q, BALANCE>>] \in Nat
      BY <2>8, TallyTypes, Zenon
    <3>2. CASE a = s /\ q = p
      BY <2>4, <2>5, <3>1, <3>2
    <3>3. CASE ~(a = s /\ q = p)
      BY <2>3, <2>5, <3>1, <3>3
    <3> QED
      BY <3>2, <3>3, Zenon
  <2>9. ASSUME NEW a \in Address, NEW q \in Property, <<a, q>> # <<s, p>>
        PROVE  m[<<a, q, SELLOFFER_RESERVE>>] = st.tally[<<a, q, SELLOFFER_RESERVE>>]
    BY <2>3, <2>5, <2>9, Zenon
  <2> QED
    BY <1>2, <2>2, <2>6, <2>7, <2>8, <2>9, Zenon DEF u
<1> QED
  BY <1>1, <1>2, Zenon

\* An offer that goes leaves nothing on sale.
LEMMA OfferDestroySales ==
  ASSUME NEW st, Backed(st), Sales(st), NEW s \in Address, NEW p \in Property
  PROVE  Sales(DEx_offerDestroy(st, s, p))
<1> DEFINE u == DEx_offerDestroy(st, s, p)
<1>1. /\ u.accepts = st.accepts
      /\ DOMAIN u.offers = DOMAIN st.offers \ {<<s, p>>}
      /\ \A x \in DOMAIN u.offers : u.offers[x] = st.offers[x]
      /\ <<s, p>> \in DOMAIN st.offers => u.tally[<<s, p, SELLOFFER_RESERVE>>] = 0
      /\ <<s, p>> \notin DOMAIN st.offers => u.tally = st.tally
      /\ \A a \in Address, q \in Property : <<a, q>> # <<s, p>> =>
           u.tally[<<a, q, SELLOFFER_RESERVE>>] = st.tally[<<a, q, SELLOFFER_RESERVE>>]
  BY OfferDestroyEffect
<1> HIDE DEF u
<1>2. SaleHasOffer(u)
  <2> SUFFICES ASSUME NEW a \in Address, NEW q \in Property, u.tally[<<a, q, SELLOFFER_RESERVE>>] > 0
               PROVE  <<a, q>> \in DOMAIN u.offers
    BY Zenon DEF SaleHasOffer
  <2>1. CASE <<a, q>> = <<s, p>>
    <3>1. a = s /\ q = p
      BY <2>1, Zenon
    <3>2. <<s, p>> \notin DOMAIN st.offers
      BY <1>1, <3>1
    <3> QED
      BY <1>1, <3>1, <3>2, Zenon DEF Sales, SaleHasOffer
  <2>2. CASE <<a, q>> # <<s, p>>
    BY <1>1, <2>2, Zenon DEF Sales, SaleHasOffer
  <2> QED
    BY <2>1, <2>2, Zenon
<1>3. NotOversold(u)
  <2> SUFFICES ASSUME NEW a \in Address, NEW q \in Property, <<a, q>> \in DOMAIN u.offers
               PROVE  u.tally[<<a, q, SELLOFFER_RESERVE>>]
                        + Sum(ReservedFrom(u, a, q, u.offers[<<a, q>>].txid)) <= u.offers[<<a, q>>].offered
    BY Zenon DEF NotOversold
  <2>1. <<a, q>> # <<s, p>> /\ <<a, q>> \in DOMAIN st.offers /\ u.offers[<<a, q>>] = st.offers[<<a, q>>]
    BY <1>1, Zenon
  <2>2. ReservedFrom(u, a, q, u.offers[<<a, q>>].txid) = ReservedFrom(st, a, q, st.offers[<<a, q>>].txid)
    BY <1>1, <2>1, ReservedFromSame
  <2> QED
    BY <1>1, <2>1, <2>2, Zenon DEF Sales, NotOversold
<1> QED
  BY <1>2, <1>3, Zenon DEF Sales, u

\* DEx_offerUpdate as well.
LEMMA OfferUpdateOrderly ==
  ASSUME NEW st, Backed(st), Sales(st), NEW s \in Address, NEW p \in Property, NEW offered \in Nat,
         NEW desired \in Nat, NEW minFee \in Nat, NEW window \in Nat, NEW txid \in Txid,
         \A k \in DOMAIN st.accepts : st.accepts[k].txid # txid
  PROVE  LET u == DEx_offerUpdate(st, s, p, offered, desired, minFee, window, txid)
         IN  Sales(u) /\ u.accepts = st.accepts
<1> DEFINE d == DEx_offerDestroy(st, s, p)
           u == DEx_offerCreate(d, s, p, offered, desired, minFee, window, txid)
<1>1. Backed(d) /\ Sales(d) /\ d.accepts = st.accepts
  BY OfferDestroyBacked, OfferDestroySales, OfferDestroyEffect, Zenon
<1> HIDE DEF d
<1>2. Sales(u) /\ u.accepts = d.accepts
  BY <1>1, OfferCreateOrderly
<1> QED
  BY <1>1, <1>2, Zenon DEF DEx_offerUpdate, d

-----------------------------------------------------------------------------
(* Accepts *)

\* Only the accept of b, and what s has on sale, differ.
SameBut(st, u, s, p, b) ==
  /\ u.offers = st.offers
  /\ \A a \in Address, q \in Property, c \in Address : <<a, q, c>> # <<s, p, b>> =>
       /\ <<a, q, c>> \in DOMAIN u.accepts <=> <<a, q, c>> \in DOMAIN st.accepts
       /\ <<a, q, c>> \in DOMAIN st.accepts => u.accepts[<<a, q, c>>] = st.accepts[<<a, q, c>>]
  /\ \A a \in Address, q \in Property : <<a, q>> # <<s, p>> =>
       u.tally[<<a, q, SELLOFFER_RESERVE>>] = st.tally[<<a, q, SELLOFFER_RESERVE>>]

\* No more is on sale and reserved for b from the open offer than before.
NoMoreSold(st, u, s, p, b) ==
  /\ u.tally[<<s, p, SELLOFFER_RESERVE>>] > 0 => <<s, p>> \in DOMAIN st.offers
  /\ <<s, p>> \in DOMAIN st.offers =>
       u.tally[<<s, p, SELLOFFER_RESERVE>>] + ReservedFrom(u, s, p, st.offers[<<s, p>>].txid)[b]
         <= st.tally[<<s, p, SELLOFFER_RESERVE>>] + ReservedFrom(st, s, p, st.offers[<<s, p>>].txid)[b]

\* An accept that changes leaves the sales as they should be.
LEMMA SalesAfterChange ==
  ASSUME NEW st, Backed(st), Sales(st), NEW u, Backed(u),
         NEW s \in Address, NEW p \in Property, NEW b \in Address,
         SameBut(st, u, s, p, b), NoMoreSold(st, u, s, p, b)
  PROVE  Sales(u)
<1> USE DEF SameBut, NoMoreSold
<1>1. SaleHasOffer(u)
  <2> SUFFICES ASSUME NEW a \in Address, NEW q \in Property, u.tally[<<a, q, SELLOFFER_RESERVE>>] > 0
               PROVE  <<a, q>> \in DOMAIN u.offers
    BY Zenon DEF SaleHasOffer
  <2>1. CASE <<a, q>> = <<s, p>>
    <3>1. a = s /\ q = p
      BY <2>1, Zenon
    <3> QED
      BY <3>1, Zenon
  <2>2. CASE <<a, q>> # <<s, p>>
    BY <2>2, Zenon DEF Sales, SaleHasOffer
  <2> QED
    BY <2>1, <2>2, Zenon
<1>2. NotOversold(u)
  <2> SUFFICES ASSUME NEW a \in Address, NEW q \in Property, <<a, q>> \in DOMAIN u.offers
               PROVE  u.tally[<<a, q, SELLOFFER_RESERVE>>]
                        + Sum(ReservedFrom(u, a, q, u.offers[<<a, q>>].txid)) <= u.offers[<<a, q>>].offered
    BY Zenon DEF NotOversold
  <2> DEFINE o == st.offers[<<a, q>>]
             f == ReservedFrom(st, a, q, o.txid)
             g == ReservedFrom(u, a, q, o.txid)
  <2>1. u.offers[<<a, q>>] = o /\ <<a, q>> \in DOMAIN st.offers
    BY Zenon
  <2>2. st.tally[<<a, q, SELLOFFER_RESERVE>>] + Sum(f) <= o.offered
    BY <2>1, Zenon DEF Sales, NotOversold
  <2>3. o.offered \in Nat
    <3>1. st.offers \in [DOMAIN st.offers -> CMPOffer]
      BY Zenon DEF Backed, IsDex
    <3> QED
      BY <2>1, <3>1, Zenon DEF CMPOffer
  <2>4. st.tally[<<a, q, SELLOFFER_RESERVE>>] \in Nat /\ u.tally[<<a, q, SELLOFFER_RESERVE>>] \in Nat
    BY TallyTypes, Zenon
  <2>5. Sum(f) \in Nat /\ Sum(g) \in Nat
    BY ReservedFromAt, Zenon
  <2>6. CASE <<a, q>> = <<s, p>>
    <3>1. a = s /\ q = p
      BY <2>6, Zenon
    <3>2. /\ f[b] \in Nat /\ g[b] \in Nat
          /\ Sum(g) + f[b] = Sum(f) + g[b]
      BY <3>1, ReservedFromChange
    <3>3. u.tally[<<a, q, SELLOFFER_RESERVE>>] + g[b] <= st.tally[<<a, q, SELLOFFER_RESERVE>>] + f[b]
      BY <2>1, <3>1, Zenon
    <3> HIDE DEF o, f, g
    <3>4. u.tally[<<a, q, SELLOFFER_RESERVE>>] + Sum(g) <= o.offered
      BY <2>2, <2>3, <2>4, <2>5, <3>2, <3>3
    <3> QED
      BY <2>1, <3>4, Zenon DEF g
  <2>7. CASE <<a, q>> # <<s, p>>
    <3>1. ASSUME NEW c \in Address PROVE g[c] = f[c]
      <4>1. <<a, q, c>> # <<s, p, b>>
        BY <2>7, Zenon
      <4> QED
        BY <3>1, <4>1, Zenon DEF ReservedFrom, DEx_acceptExists, DEx_getAccept
    <3>2. f \in [Address -> Nat] /\ g \in [Address -> Nat]
      BY ReservedFromAt, Zenon
    <3> HIDE DEF o, f, g
    <3>3. f = g
      BY <3>1, <3>2
    <3> QED
      BY <2>1, <2>2, <2>7, <3>3, Zenon DEF f, g, o
  <2> QED
    BY <2>6, <2>7, Zenon
<1> QED
  BY <1>1, <1>2, Zenon DEF Sales

\* A new accept takes from what is on sale what it reserves from the offer.
LEMMA AcceptCreateOrderly ==
  ASSUME NEW st, Backed(st), Orderly(st), NEW b \in Address, NEW s \in Address, NEW p \in Property,
         NEW wanted \in Nat, NEW feePaid \in Nat
  PROVE  LET u == DEx_acceptCreate(st, b, s, p, wanted, feePaid)
         IN  Orderly(u) /\ DOMAIN st.accepts \subseteq DOMAIN u.accepts
<1> DEFINE u == DEx_acceptCreate(st, b, s, p, wanted, feePaid)
<1>1. CASE u = st
  BY <1>1, Zenon
<1>2. CASE u # st
  <2>1. PICK n \in Nat \ {0}, c \in CMPAccept :
          /\ n <= st.tally[<<s, p, SELLOFFER_RESERVE>>]
          /\ <<s, p>> \in DOMAIN st.offers
          /\ <<s, p, b>> \notin DOMAIN st.accepts
          /\ c.remaining = n /\ c.original = n /\ c.age = 0 /\ c.paid = 0
          /\ c.txid = st.offers[<<s, p>>].txid
          /\ u = State(Move(st.tally, s, SELLOFFER_RESERVE, s, ACCEPT_RESERVE, p, n),
                       st.offers, With(st.accepts, <<s, p, b>>, c))
    BY <1>2, AcceptCreateEffect DEF Backed
  <2>2. Backed(u)
    BY AcceptCreateBacked, Zenon
  <2> DEFINE m == Move(st.tally, s, SELLOFFER_RESERVE, s, ACCEPT_RESERVE, p, n)
             w == With(st.accepts, <<s, p, b>>, c)
  <2>3. /\ SELLOFFER_RESERVE \in TallyType /\ ACCEPT_RESERVE \in TallyType
        /\ SELLOFFER_RESERVE # ACCEPT_RESERVE
    BY Zenon DEF TallyType, SELLOFFER_RESERVE, ACCEPT_RESERVE
  <2>4. st.tally \in Tallied /\ st.tally[<<s, p, SELLOFFER_RESERVE>>] \in Nat
    BY TallyTypes, Zenon
  <2>15. n <= st.tally[<<s, p, SELLOFFER_RESERVE>>]
    BY <2>1, Zenon
  <2>5. /\ m \in Tallied
        /\ m[<<s, p, SELLOFFER_RESERVE>>] = st.tally[<<s, p, SELLOFFER_RESERVE>>] - n
        /\ m[<<s, p, ACCEPT_RESERVE>>] = st.tally[<<s, p, ACCEPT_RESERVE>>] + n
        /\ \A a \in Address, q \in Property, ty \in TallyType :
              (a = s /\ q = p /\ ty \in {SELLOFFER_RESERVE, ACCEPT_RESERVE}) \/ m[<<a, q, ty>>] = st.tally[<<a, q, ty>>]
    BY <2>3, <2>4, <2>15, MoveWithin
  <2>6. DOMAIN w = DOMAIN st.accepts \cup {<<s, p, b>>} /\ w[<<s, p, b>>] = c
        /\ \A x \in DOMAIN st.accepts : x # <<s, p, b>> => w[x] = st.accepts[x]
    BY Zenon DEF With
  <2>7. u.tally = m /\ u.offers = st.offers /\ u.accepts = w
    BY <2>1, StateFields
  <2> HIDE DEF u, m, w
  <2>8. \A a \in Address, q \in Property : <<a, q>> # <<s, p>> =>
            u.tally[<<a, q, SELLOFFER_RESERVE>>] = st.tally[<<a, q, SELLOFFER_RESERVE>>]
    BY <2>3, <2>5, <2>7, Zenon
  <2> DEFINE txid == st.offers[<<s, p>>].txid
  <2>9. ReservedFrom(st, s, p, txid)[b] = 0 /\ ReservedFrom(u, s, p, txid)[b] = n
    <3>1. ReservedFrom(st, s, p, txid)[b] = 0
      BY <2>1, Zenon DEF ReservedFrom, DEx_acceptExists
    <3>2. ReservedFrom(u, s, p, txid)[b] = n
      BY <2>1, <2>6, <2>7, Zenon DEF ReservedFrom, DEx_acceptExists, DEx_getAccept
    <3> QED
      BY <3>1, <3>2, Zenon
  <2>10. u.tally[<<s, p, SELLOFFER_RESERVE>>] + ReservedFrom(u, s, p, txid)[b]
           <= st.tally[<<s, p, SELLOFFER_RESERVE>>] + ReservedFrom(st, s, p, txid)[b]
    BY <2>4, <2>5, <2>7, <2>9
  <2>11. \A a \in Address, q \in Property, x \in Address : <<a, q, x>> # <<s, p, b>> =>
            /\ <<a, q, x>> \in DOMAIN u.accepts <=> <<a, q, x>> \in DOMAIN st.accepts
            /\ <<a, q, x>> \in DOMAIN st.accepts => u.accepts[<<a, q, x>>] = st.accepts[<<a, q, x>>]
    BY <2>6, <2>7
  <2>12. Sales(u)
    <3>1. Sales(st)
      BY Zenon DEF Orderly
    <3>2. SameBut(st, u, s, p, b)
      BY <2>7, <2>8, <2>11, Zenon DEF SameBut
    <3>3. NoMoreSold(st, u, s, p, b)
      BY <2>1, <2>10, Zenon DEF NoMoreSold
    <3> QED
      BY <2>2, <3>1, <3>2, <3>3, SalesAfterChange, Zenon
  <2>13. InOrder(c)
    <3>1. c.offered \in Nat /\ c.desired \in Nat /\ c.window \in Nat
      BY Zenon DEF CMPAccept
    <3>2. 0 * c.offered = 0 /\ (n - n) * c.desired = 0
      BY <3>1
    <3> QED
      BY <2>1, <3>1, <3>2 DEF InOrder
  <2>14. \A k \in DOMAIN u.accepts : InOrder(u.accepts[k])
    BY <2>6, <2>7, <2>13, Zenon DEF Orderly
  <2> QED
    BY <2>6, <2>7, <2>12, <2>14, Zenon DEF Orderly, u
<1> QED
  BY <1>1, <1>2, Zenon

-----------------------------------------------------------------------------
(* Payments *)

\* What is left of an accept that returns counts for the open offer only if it
\* goes back on sale.
LEMMA AcceptDestroySales ==
  ASSUME NEW st, Backed(st), Sales(st), NEW b \in Address, NEW s \in Address, NEW p \in Property,
         <<s, p, b>> \in DOMAIN st.accepts
  PROVE  LET u == DEx_acceptDestroy(st, b, s, p)
         IN  /\ Sales(u) /\ Backed(u)
             /\ DOMAIN u.accepts = DOMAIN st.accepts \ {<<s, p, b>>}
             /\ \A x \in DOMAIN u.accepts : u.accepts[x] = st.accepts[x]
             /\ \A a \in Address, q \in Property : u.tally[<<a, q, BALANCE>>] >= st.tally[<<a, q, BALANCE>>]
<1> DEFINE u  == DEx_acceptDestroy(st, b, s, p)
           c  == st.accepts[<<s, p, b>>]
           n  == c.remaining
           ty == ReturnType(st, s, p, b)
<1>1. /\ Backed(u)
      /\ u.offers = st.offers
      /\ DOMAIN u.accepts = DOMAIN st.accepts \ {<<s, p, b>>}
      /\ \A x \in DOMAIN u.accepts : u.accepts[x] = st.accepts[x]
      /\ u.tally[<<s, p, ty>>] = st.tally[<<s, p, ty>>] + n
      /\ \A a \in Address, q \in Property, t \in TallyType :
            (a = s /\ q = p /\ t \in {ACCEPT_RESERVE, ty}) \/ u.tally[<<a, q, t>>] = st.tally[<<a, q, t>>]
  BY AcceptDestroyEffect
<1>2. n \in Nat
  BY RemainingBacked, Zenon
<1>3. /\ SELLOFFER_RESERVE \in TallyType /\ ACCEPT_RESERVE \in TallyType /\ BALANCE \in TallyType
      /\ SELLOFFER_RESERVE # ACCEPT_RESERVE /\ BALANCE # ACCEPT_RESERVE /\ BALANCE # SELLOFFER_RESERVE
  BY Zenon DEF TallyType, SELLOFFER_RESERVE, ACCEPT_RESERVE, BALANCE
<1>4. \/ ty = SELLOFFER_RESERVE /\ <<s, p>> \in DOMAIN st.offers /\ st.offers[<<s, p>>].txid = c.txid
      \/ ty = BALANCE
  BY Zenon DEF ReturnType, IsForOpenOffer, DEx_offerExists, DEx_getOffer, DEx_getAccept
<1> HIDE DEF u, ty
<1>5. \A a \in Address, q \in Property : <<a, q>> # <<s, p>> =>
          u.tally[<<a, q, SELLOFFER_RESERVE>>] = st.tally[<<a, q, SELLOFFER_RESERVE>>]
  BY <1>1, <1>3, Zenon
<1>6. \A a \in Address, q \in Property, x \in Address : <<a, q, x>> # <<s, p, b>> =>
          /\ <<a, q, x>> \in DOMAIN u.accepts <=> <<a, q, x>> \in DOMAIN st.accepts
          /\ <<a, q, x>> \in DOMAIN st.accepts => u.accepts[<<a, q, x>>] = st.accepts[<<a, q, x>>]
  BY <1>1, Zenon
<1>7. st.tally[<<s, p, SELLOFFER_RESERVE>>] \in Nat
  BY TallyTypes, Zenon
<1>8. ty = BALANCE => u.tally[<<s, p, SELLOFFER_RESERVE>>] = st.tally[<<s, p, SELLOFFER_RESERVE>>]
  BY <1>1, <1>3, Zenon
<1>9. u.tally[<<s, p, SELLOFFER_RESERVE>>] > 0 => <<s, p>> \in DOMAIN st.offers
  BY <1>4, <1>8 DEF Sales, SaleHasOffer
<1>10. ASSUME <<s, p>> \in DOMAIN st.offers
       PROVE  u.tally[<<s, p, SELLOFFER_RESERVE>>] + ReservedFrom(u, s, p, st.offers[<<s, p>>].txid)[b]
                <= st.tally[<<s, p, SELLOFFER_RESERVE>>] + ReservedFrom(st, s, p, st.offers[<<s, p>>].txid)[b]
  <2> DEFINE txid == st.offers[<<s, p>>].txid
             f    == ReservedFrom(st, s, p, txid)
             g    == ReservedFrom(u, s, p, txid)
  <2>1. g[b] = 0
    BY <1>1, Zenon DEF ReservedFrom, DEx_acceptExists
  <2>2. f[b] \in Nat
    BY ReservedFromAt
  <2>3. CASE ty = BALANCE
    <3> HIDE DEF f, g
    <3>1. u.tally[<<s, p, SELLOFFER_RESERVE>>] + g[b] <= st.tally[<<s, p, SELLOFFER_RESERVE>>] + f[b]
      BY <1>7, <1>8, <2>1, <2>2, <2>3
    <3> QED
      BY <3>1, Zenon DEF f, g
  <2>4. CASE ty = SELLOFFER_RESERVE /\ txid = c.txid
    <3>1. f[b] = n
      BY <2>4, Zenon DEF ReservedFrom, DEx_acceptExists, DEx_getAccept
    <3>2. u.tally[<<s, p, SELLOFFER_RESERVE>>] = st.tally[<<s, p, SELLOFFER_RESERVE>>] + n
      BY <1>1, <2>4
    <3> HIDE DEF f, g
    <3>3. u.tally[<<s, p, SELLOFFER_RESERVE>>] + g[b] <= st.tally[<<s, p, SELLOFFER_RESERVE>>] + f[b]
      BY <1>2, <1>7, <2>1, <3>1, <3>2
    <3> QED
      BY <3>3, Zenon DEF f, g
  <2> QED
    BY <1>4, <2>3, <2>4, Zenon
<1>11. Sales(u)
  <2>1. Backed(u)
    BY <1>1, Zenon
  <2>2. SameBut(st, u, s, p, b)
    BY <1>1, <1>5, <1>6, Zenon DEF SameBut
  <2>3. NoMoreSold(st, u, s, p, b)
    BY <1>9, <1>10, Zenon DEF NoMoreSold
  <2> QED
    BY <2>1, <2>2, <2>3, SalesAfterChange, Zenon
<1>12. ASSUME NEW a \in Address, NEW q \in Property
       PROVE  u.tally[<<a, q, BALANCE>>] >= st.tally[<<a, q, BALANCE>>]
  <2>1. st.tally[<<a, q, BALANCE>>] \in Nat
    BY TallyTypes, Zenon
  <2>2. CASE a = s /\ q = p /\ ty = BALANCE
    <3>1. u.tally[<<a, q, BALANCE>>] = st.tally[<<a, q, BALANCE>>] + n
      BY <1>1, <2>2, Zenon
    <3> QED
      BY <1>2, <2>1, <3>1
  <2>3. CASE ~(a = s /\ q = p /\ ty = BALANCE)
    <3>1. u.tally[<<a, q, BALANCE>>] = st.tally[<<a, q, BALANCE>>]
      BY <1>1, <1>3, <2>3, Zenon
    <3> QED
      BY <2>1, <3>1
  <2> QED
    BY <2>2, <2>3, Zenon
<1> QED
  BY <1>1, <1>11, <1>12, Zenon DEF u

\* A delivery leaves what is on sale and reduces what is reserved.
LEMMA DeliverSales ==
  ASSUME NEW st, Backed(st), Sales(st), NEW s \in Address, NEW b \in Address, NEW p \in Property,
         <<s, p, b>> \in DOMAIN st.accepts, NEW u, Backed(u),
         NEW n \in Nat, n <= st.accepts[<<s, p, b>>].remaining, NEW amountPaid \in Nat,
         Delivered(st, u, s, b, p, n, amountPaid)
  PROVE  Sales(u)
<1> DEFINE k == <<s, p, b>>
<1>1. /\ u.offers = st.offers
      /\ DOMAIN u.accepts = DOMAIN st.accepts
      /\ \A x \in DOMAIN st.accepts : x # k => u.accepts[x] = st.accepts[x]
      /\ u.accepts[k].remaining = st.accepts[k].remaining - n
      /\ u.accepts[k].txid = st.accepts[k].txid
      /\ \A a \in Address, q \in Property, ty \in TallyType :
            \/ a = s /\ q = p /\ ty = ACCEPT_RESERVE
            \/ a = b /\ q = p /\ ty = BALANCE
            \/ u.tally[<<a, q, ty>>] = st.tally[<<a, q, ty>>]
  BY Zenon DEF Delivered
<1>2. /\ SELLOFFER_RESERVE \in TallyType
      /\ SELLOFFER_RESERVE # ACCEPT_RESERVE /\ BALANCE # SELLOFFER_RESERVE
  BY Zenon DEF TallyType, SELLOFFER_RESERVE, ACCEPT_RESERVE, BALANCE
<1>3. \A a \in Address, q \in Property : u.tally[<<a, q, SELLOFFER_RESERVE>>] = st.tally[<<a, q, SELLOFFER_RESERVE>>]
  BY <1>1, <1>2, Zenon
<1>4. \A a \in Address, q \in Property, x \in Address : <<a, q, x>> # <<s, p, b>> =>
          /\ <<a, q, x>> \in DOMAIN u.accepts <=> <<a, q, x>> \in DOMAIN st.accepts
          /\ <<a, q, x>> \in DOMAIN st.accepts => u.accepts[<<a, q, x>>] = st.accepts[<<a, q, x>>]
  BY <1>1, Zenon
<1>5. st.tally[<<s, p, SELLOFFER_RESERVE>>] \in Nat
  BY TallyTypes, Zenon
<1>6. u.tally[<<s, p, SELLOFFER_RESERVE>>] > 0 => <<s, p>> \in DOMAIN st.offers
  BY <1>3, Zenon DEF Sales, SaleHasOffer
<1>7. ASSUME NEW txid
      PROVE  u.tally[<<s, p, SELLOFFER_RESERVE>>] + ReservedFrom(u, s, p, txid)[b]
               <= st.tally[<<s, p, SELLOFFER_RESERVE>>] + ReservedFrom(st, s, p, txid)[b]
  <2> DEFINE f == ReservedFrom(st, s, p, txid)
             g == ReservedFrom(u, s, p, txid)
  <2>1. st.accepts[k].remaining \in Nat
    BY RemainingBacked, Zenon
  <2>2. \/ f[b] = 0 /\ g[b] = 0
        \/ f[b] = st.accepts[k].remaining /\ g[b] = st.accepts[k].remaining - n
    BY <1>1, Zenon DEF ReservedFrom, DEx_acceptExists, DEx_getAccept
  <2> HIDE DEF f, g
  <2>3. u.tally[<<s, p, SELLOFFER_RESERVE>>] + g[b] <= st.tally[<<s, p, SELLOFFER_RESERVE>>] + f[b]
    BY <1>3, <1>5, <2>1, <2>2
  <2> QED
    BY <2>3, Zenon DEF f, g
<1>8. u.offers = st.offers
  BY <1>1, Zenon
<1>9. \A a \in Address, q \in Property : <<a, q>> # <<s, p>> =>
          u.tally[<<a, q, SELLOFFER_RESERVE>>] = st.tally[<<a, q, SELLOFFER_RESERVE>>]
  BY <1>3, Zenon
<1>10. <<s, p>> \in DOMAIN st.offers =>
          u.tally[<<s, p, SELLOFFER_RESERVE>>] + ReservedFrom(u, s, p, st.offers[<<s, p>>].txid)[b]
            <= st.tally[<<s, p, SELLOFFER_RESERVE>>] + ReservedFrom(st, s, p, st.offers[<<s, p>>].txid)[b]
  BY <1>7, Zenon
<1> QED
  <2>1. SameBut(st, u, s, p, b)
    BY <1>4, <1>8, <1>9, Zenon DEF SameBut
  <2>2. NoMoreSold(st, u, s, p, b)
    BY <1>6, <1>10, Zenon DEF NoMoreSold
  <2> QED
    BY <2>1, <2>2, SalesAfterChange

\* Rounding up never gives less than the exact quotient.
LEMMA RoundUpIsEnough ==
  ASSUME NEW n \in Nat, NEW d \in Nat \ {0}
  PROVE  n <= DivideAndRoundUp(n, d) * d
<1>1. CASE n = 0
  BY <1>1 DEF DivideAndRoundUp
<1>2. CASE n # 0
  <2> DEFINE m == n - 1
             q == m \div d
  <2>1. m \in Nat
    BY <1>2
  <2>2. q \in Nat /\ m < (q + 1) * d
    <3> HIDE DEF m
    <3>1. q \in Int /\ m = d * q + (m % d) /\ m % d < d /\ m % d \in Nat
      BY <2>1
    <3>2. q \in Nat
      BY <2>1
    <3> HIDE DEF q
    <3>3. (q + 1) * d = d * q + d
      BY <3>2
    <3>4. d * q \in Nat
      BY <3>2
    <3> QED
      BY <2>1, <3>1, <3>2, <3>3, <3>4
  <2>3. DivideAndRoundUp(n, d) = q + 1
    <3>1. DivideAndRoundUp(n, d) = 1 + q
      BY <1>2, Zenon DEF DivideAndRoundUp
    <3> HIDE DEF q
    <3> QED
      BY <2>2, <3>1
  <2> HIDE DEF q
  <2>4. (q + 1) * d \in Nat
    BY <2>2
  <2> QED
    BY <2>1, <2>2, <2>3, <2>4
<1> QED
  BY <1>1, <1>2, Zenon

\* An instalment that does not pay all that is left buys at least the share of
\* the offer that the payment is worth.
LEMMA InstalmentIsWorth ==
  ASSUME NEW c \in CMPAccept, c.desired # 0, NEW amountPaid \in Nat,
         Purchased(c, amountPaid) < c.remaining
  PROVE  PaymentCounted(amountPaid) * c.offered <= Purchased(c, amountPaid) * c.desired
<1> DEFINE n == amountPaid * c.offered
           q == Purchased(c, amountPaid)
<1>1. c.offered \in Nat /\ c.desired \in Nat \ {0} /\ c.remaining \in Nat
  BY Zenon DEF CMPAccept
<1>2. n \in Nat /\ q \in Nat
  BY <1>1, PurchasedType
<1>3. CASE IsFeatureActivated(FEATURE_DEXMATH)
  <2>1. q = DivideAndRoundUp(n, c.desired)
    BY <1>1, <1>3 DEF Purchased, calculateDExPurchase
  <2>2. PaymentCounted(amountPaid) * c.offered = n
    BY <1>3, Zenon DEF PaymentCounted
  <2> HIDE DEF n, q
  <2>3. n <= q * c.desired
    BY <1>1, <1>2, <2>1, RoundUpIsEnough, Zenon
  <2> QED
    BY <2>2, <2>3, Zenon DEF q
<1>4. CASE ~IsFeatureActivated(FEATURE_DEXMATH)
  <2>1. PaymentCounted(amountPaid) * c.offered = 0
    BY <1>1, <1>4 DEF PaymentCounted
  <2> HIDE DEF q
  <2>2. q * c.desired \in Nat
    BY <1>1, <1>2
  <2> QED
    BY <2>1, <2>2 DEF q
<1> QED
  BY <1>3, <1>4, Zenon

\* The buyer of an accept that is reduced has got what the payments are worth.
LEMMA ReducedInOrder ==
  ASSUME NEW c \in CMPAccept, InOrder(c), c.desired # 0, NEW amountPaid \in Nat,
         Purchased(c, amountPaid) < c.remaining,
         NEW d, d.remaining = c.remaining - Purchased(c, amountPaid),
         d.paid = c.paid + PaymentCounted(amountPaid),
         d.original = c.original, d.offered = c.offered, d.desired = c.desired,
         d.window = c.window, d.age = c.age
  PROVE  InOrder(d)
<1> DEFINE n == Purchased(c, amountPaid)
           m == PaymentCounted(amountPaid)
           g == c.original - c.remaining
<1>1. /\ c.offered \in Nat /\ c.desired \in Nat /\ c.remaining \in Nat /\ c.original \in Nat /\ c.paid \in Nat
      /\ c.age \in Nat /\ c.window \in Nat
  BY Zenon DEF CMPAccept
<1>2. n \in Nat /\ n < c.remaining
  BY PurchasedType, Zenon
<1>3. m \in Nat
  BY Zenon DEF PaymentCounted
<1>4. m * c.offered <= n * c.desired
  BY InstalmentIsWorth, Zenon
<1>5. c.paid * c.offered <= g * c.desired /\ c.age <= c.window
  BY Zenon DEF InOrder
<1> HIDE DEF n, m
<1>6. c.original - d.remaining = g + n /\ d.remaining > 0 /\ g \in Int
  BY <1>1, <1>2 DEF n
<1> HIDE DEF g
<1>7. (c.paid + m) * c.offered = c.paid * c.offered + m * c.offered
  BY <1>1, <1>3
<1>8. (g + n) * c.desired = g * c.desired + n * c.desired
  BY <1>1, <1>2, <1>6
<1>9. (c.paid + m) * c.offered <= (g + n) * c.desired
  <2>1. /\ c.paid * c.offered \in Int /\ m * c.offered \in Int
        /\ g * c.desired \in Int /\ n * c.desired \in Int
    BY <1>1, <1>2, <1>3, <1>6
  <2> QED
    BY <1>4, <1>5, <1>7, <1>8, <2>1
<1> QED
  BY <1>5, <1>6, <1>9, Zenon DEF InOrder, m

\* An accept that is gone in u has expired or was delivered to the buyer.
EndsWell(st, u) ==
  \A s \in Address, p \in Property, b \in Address :
    <<s, p, b>> \in DOMAIN st.accepts /\ <<s, p, b>> \notin DOMAIN u.accepts =>
      \/ st.accepts[<<s, p, b>>].age >= st.accepts[<<s, p, b>>].window
      \/ u.tally[<<b, p, BALANCE>>] >= st.tally[<<b, p, BALANCE>>] + st.accepts[<<s, p, b>>].remaining

\* A payment keeps the order, and ends an accept only by delivering all of it.
LEMMA PaymentOrderly ==
  ASSUME NEW st, Backed(st), Orderly(st), NEW s \in Address, NEW b \in Address, NEW p \in Property,
         <<s, p, b>> \in DOMAIN st.accepts, NEW amountPaid \in Nat
  PROVE  LET u == DEx_payment(st, s, b, p, amountPaid)
         IN  Orderly(u) /\ EndsWell(st, u)
<1> DEFINE k         == <<s, p, b>>
           c         == st.accepts[k]
           purchased == Purchased(c, amountPaid)
           delivered == Deliver(st, s, b, p, purchased, amountPaid)
           closed    == DEx_acceptDestroy(delivered, b, s, p)
           destroyed == DEx_offerDestroy(closed, s, p)
           u         == DEx_payment(st, s, b, p, amountPaid)
<1>1. c \in CMPAccept /\ c.remaining \in Nat /\ InOrder(c) /\ Sales(st)
  BY RemainingBacked, Zenon DEF Orderly
<1>2. CASE c.desired = 0
  <2>1. u = st
    BY <1>2, Zenon DEF DEx_payment, DEx_getAccept
  <2> QED
    BY <2>1, Zenon DEF EndsWell
<1>3. CASE c.desired # 0
  <2>1. \/ purchased < c.remaining /\ u = delivered
        \/ ~(purchased < c.remaining) /\ u \in {closed, destroyed}
    BY <1>3, Zenon DEF DEx_payment, DEx_getAccept
  <2>2. purchased \in Nat /\ purchased <= c.remaining
    BY <1>1, <1>3, PurchasedType, Zenon
  <2>3. Backed(delivered) /\ Delivered(st, delivered, s, b, p, purchased, amountPaid)
    <3> HIDE DEF purchased
    <3> QED
      BY <2>2, DeliverEffect
  <2> HIDE DEF delivered
  <2>4. Sales(delivered)
    <3> HIDE DEF purchased
    <3> QED
      BY <1>1, <2>2, <2>3, DeliverSales
  <2>5. /\ DOMAIN delivered.accepts = DOMAIN st.accepts
        /\ \A x \in DOMAIN st.accepts : x # k => delivered.accepts[x] = st.accepts[x]
        /\ delivered.tally[<<b, p, BALANCE>>] = st.tally[<<b, p, BALANCE>>] + purchased
    BY <2>3, Zenon DEF Delivered
  <2>6. CASE purchased < c.remaining
    <3>1. InOrder(delivered.accepts[k])
      BY <1>1, <1>3, <2>3, <2>6, ReducedInOrder, Zenon DEF Delivered
    <3>2. \A x \in DOMAIN delivered.accepts : InOrder(delivered.accepts[x])
      BY <2>5, <3>1, Zenon DEF Orderly
    <3>3. u = delivered
      BY <2>1, <2>6
    <3> HIDE DEF u
    <3>4. Orderly(u) /\ EndsWell(st, u)
      BY <2>4, <2>5, <3>2, <3>3 DEF Orderly, EndsWell
    <3> QED
      BY <3>4 DEF u
  <2>7. CASE ~(purchased < c.remaining)
    <3>1. u \in {closed, destroyed}
      BY <2>1, <2>7, Zenon
    <3>2. /\ Backed(closed) /\ Sales(closed)
          /\ DOMAIN closed.accepts = DOMAIN st.accepts \ {k}
          /\ \A x \in DOMAIN closed.accepts : closed.accepts[x] = delivered.accepts[x]
          /\ \A a \in Address, q \in Property : closed.tally[<<a, q, BALANCE>>] >= delivered.tally[<<a, q, BALANCE>>]
      <4>1. k \in DOMAIN delivered.accepts /\ DOMAIN delivered.accepts = DOMAIN st.accepts
        BY <2>5, Zenon
      <4>2. /\ Sales(closed) /\ Backed(closed)
            /\ DOMAIN closed.accepts = DOMAIN delivered.accepts \ {<<s, p, b>>}
            /\ \A x \in DOMAIN closed.accepts : closed.accepts[x] = delivered.accepts[x]
            /\ \A a \in Address, q \in Property : closed.tally[<<a, q, BALANCE>>] >= delivered.tally[<<a, q, BALANCE>>]
        BY <2>3, <2>4, <4>1, AcceptDestroySales
      <4> QED
        BY <4>1, <4>2, Zenon
    <3> HIDE DEF closed
    <3>3. /\ Backed(destroyed) /\ Sales(destroyed)
          /\ destroyed.accepts = closed.accepts
          /\ \A a \in Address, q \in Property : destroyed.tally[<<a, q, BALANCE>>] >= closed.tally[<<a, q, BALANCE>>]
      <4>1. Backed(destroyed)
        BY <3>2, OfferDestroyBacked, Zenon
      <4>2. Sales(destroyed)
        BY <3>2, OfferDestroySales
      <4>3. /\ destroyed.accepts = closed.accepts
            /\ \A a \in Address, q \in Property : destroyed.tally[<<a, q, BALANCE>>] >= closed.tally[<<a, q, BALANCE>>]
        BY <3>2, OfferDestroyEffect, Zenon
      <4> QED
        BY <4>1, <4>2, <4>3, Zenon
    <3> HIDE DEF destroyed, u
    <3>4. Sales(u) /\ u.accepts = closed.accepts
      BY <3>1, <3>2, <3>3, Zenon
    <3>5. \A x \in DOMAIN u.accepts : InOrder(u.accepts[x])
      BY <2>5, <3>2, <3>4, Zenon DEF Orderly
    <3>6. u.tally[<<b, p, BALANCE>>] >= st.tally[<<b, p, BALANCE>>] + c.remaining
      <4> DEFINE x0 == st.tally[<<b, p, BALANCE>>]
                 x1 == delivered.tally[<<b, p, BALANCE>>]
                 x2 == closed.tally[<<b, p, BALANCE>>]
                 x3 == destroyed.tally[<<b, p, BALANCE>>]
                 x  == u.tally[<<b, p, BALANCE>>]
      <4>1. x0 \in Nat /\ x1 \in Nat /\ x2 \in Nat /\ x3 \in Nat
        BY <2>3, <3>2, <3>3, TallyTypes, Zenon
      <4>2. x1 = x0 + purchased /\ x2 >= x1 /\ x3 >= x2
        BY <2>5, <3>2, <3>3, Zenon
      <4>3. x = x2 \/ x = x3
        BY <3>1, Zenon
      <4> HIDE DEF x0, x1, x2, x3, x, purchased, c
      <4>4. x >= x0 + c.remaining
        BY <1>1, <2>2, <2>7, <4>1, <4>2, <4>3
      <4> QED
        BY <4>4, Zenon DEF x, x0
    <3>7. EndsWell(st, u)
      <4> SUFFICES ASSUME NEW a \in Address, NEW q \in Property, NEW d \in Address,
                          <<a, q, d>> \in DOMAIN st.accepts, <<a, q, d>> \notin DOMAIN u.accepts
                   PROVE  u.tally[<<d, q, BALANCE>>] >= st.tally[<<d, q, BALANCE>>] + st.accepts[<<a, q, d>>].remaining
        BY Zenon DEF EndsWell
      <4>1. <<a, q, d>> = <<s, p, b>>
        BY <3>2, <3>4, Zenon
      <4>2. a = s /\ q = p /\ d = b
        BY <4>1, Zenon
      <4> QED
        BY <3>6, <4>2, Zenon
    <3>8. Orderly(u)
      BY <3>4, <3>5, Zenon DEF Orderly
    <3> QED
      BY <3>7, <3>8, Zenon DEF u
  <2> QED
    BY <2>6, <2>7
<1> QED
  BY <1>2, <1>3, Zenon

-----------------------------------------------------------------------------
(* Every step keeps the reserve backed and is a trade of the ledger *)

\* The state after a step that ends in the state st.
LEMMA BecomesBacked ==
  ASSUME NEW st, Becomes(st), Backed(st), Traded(mp_tally, st.tally)
  PROVE  Backed(dex)' /\ Traded(mp_tally, mp_tally') /\ features' = features
<1>1. st = State(st.tally, st.offers, st.accepts)
  BY Zenon DEF Backed, IsDex
<1>2. dex' = st /\ mp_tally' = st.tally
  BY <1>1, Zenon DEF Becomes, dex
<1>3. Backed(dex)' <=> Backed(dex')
  BY DEF Backed, IsDex, AcceptsBackedBy, Reserved, DEx_acceptExists, DEx_getAccept, GetTokenBalance
<1> QED
  BY <1>2, <1>3, Zenon DEF Becomes

\* A step that leaves everybody's tokens as they are is a trade of nothing.
LEMMA SameIsTraded ==
  ASSUME NEW t, NEW u, SameHoldings(t, u)
  PROVE  Traded(t, u)
BY DEF Traded

\* One lemma for all actions: each keeps Backed and only trades.
LEMMA NextBacked ==
  ASSUME Backed(dex), features \subseteq Feature, [Next]_vars
  PROVE  Backed(dex)' /\ Traded(mp_tally, mp_tally') /\ features' \subseteq Feature
<1>1. dex.tally = mp_tally /\ dex.offers = my_offers /\ dex.accepts = my_accepts
  BY StateFields DEF dex
<1>2. OfferAmounts \subseteq Nat /\ Desired \subseteq Nat /\ Payments \subseteq Nat
        /\ Windows \subseteq Nat /\ Fees \subseteq Nat /\ FreshTxid \subseteq Txid
  BY InputAssumption, MaxIntAssumption DEF Amount, FreshTxid
<1>3. SameHoldings(mp_tally, mp_tally)
  BY Zenon DEF SameHoldings
<1>4. ASSUME NEW s \in Address, NEW p \in Property, TradeOfferCancel(s, p)
      PROVE  Backed(dex)' /\ Traded(mp_tally, mp_tally') /\ features' = features
  <2> DEFINE u == DEx_offerDestroy(dex, s, p)
  <2>1. Backed(u) /\ SameHoldings(mp_tally, u.tally)
    BY <1>1, <1>4, OfferDestroyBacked, Zenon
  <2>2. Becomes(u)
    BY <1>4, Zenon DEF TradeOfferCancel
  <2> QED
    BY <2>1, <2>2, SameIsTraded, BecomesBacked, Zenon
<1>5. ASSUME NEW s \in Address, NEW p \in Property, NEW offered \in OfferAmounts,
             NEW desired \in Desired, NEW minFee \in Fees, NEW window \in Windows,
             TradeOfferNew(s, p, offered, desired, minFee, window)
      PROVE  Backed(dex)' /\ Traded(mp_tally, mp_tally') /\ features' = features
  <2>1. PICK txid \in FreshTxid :
          Becomes(DEx_offerCreate(dex, s, p, offered, desired, minFee, window, txid))
    BY <1>5, Zenon DEF TradeOfferNew
  <2> DEFINE u == DEx_offerCreate(dex, s, p, offered, desired, minFee, window, txid)
  <2>2. /\ offered \in Nat /\ desired \in Nat /\ minFee \in Nat /\ window \in Nat /\ txid \in Txid
    BY <1>2, <1>5
  <2>3. Backed(u) /\ SameHoldings(mp_tally, u.tally)
    BY <1>1, <1>5, <2>2, OfferCreateBacked, Zenon
  <2> QED
    BY <2>1, <2>3, SameIsTraded, BecomesBacked, Zenon
<1>6. ASSUME NEW s \in Address, NEW p \in Property, NEW offered \in OfferAmounts,
             NEW desired \in Desired, NEW minFee \in Fees, NEW window \in Windows,
             TradeOfferUpdate(s, p, offered, desired, minFee, window)
      PROVE  Backed(dex)' /\ Traded(mp_tally, mp_tally') /\ features' = features
  <2>1. PICK txid \in FreshTxid :
          Becomes(DEx_offerUpdate(dex, s, p, offered, desired, minFee, window, txid))
    BY <1>6 DEF TradeOfferUpdate
  <2> DEFINE u == DEx_offerUpdate(dex, s, p, offered, desired, minFee, window, txid)
  <2>2. /\ offered \in Nat /\ desired \in Nat /\ minFee \in Nat /\ window \in Nat /\ txid \in Txid
    BY <1>2, <1>6
  <2>3. Backed(u) /\ SameHoldings(mp_tally, u.tally)
    BY <1>1, <1>6, <2>2, OfferUpdateBacked, Zenon
  <2> QED
    BY <2>1, <2>3, SameIsTraded, BecomesBacked, Zenon
<1>7. ASSUME NEW s \in Address, NEW p \in Property, NEW b \in Address,
             NEW wanted \in OfferAmounts, NEW feePaid \in Fees,
             AcceptOffer_CCH(b, s, p, wanted, feePaid)
      PROVE  Backed(dex)' /\ Traded(mp_tally, mp_tally') /\ features' = features
  <2> DEFINE u == DEx_acceptCreate(dex, b, s, p, wanted, feePaid)
  <2>1. wanted \in Nat /\ feePaid \in Nat
    BY <1>2, <1>7, Zenon
  <2>2. Backed(u) /\ SameHoldings(mp_tally, u.tally)
    BY <1>1, <1>7, <2>1, AcceptCreateBacked, Zenon
  <2>3. Becomes(u)
    BY <1>7 DEF AcceptOffer_CCH
  <2> QED
    BY <2>2, <2>3, SameIsTraded, BecomesBacked
<1>8. ASSUME NEW s \in Address, NEW b \in Address, NEW amountPaid \in Payments,
             Payment(s, b, amountPaid)
      PROVE  Backed(dex)' /\ Traded(mp_tally, mp_tally') /\ features' = features
  <2>1. PICK p \in AcceptFound(dex, s, b) : Becomes(DEx_payment(dex, s, b, p, amountPaid))
    BY <1>8, Zenon DEF Payment
  <2>2. p \in Property /\ <<s, p, b>> \in DOMAIN dex.accepts
    BY DEF AcceptFound, DEx_acceptExists
  <2> DEFINE u == DEx_payment(dex, s, b, p, amountPaid)
  <2>3. amountPaid \in Nat
    BY <1>2, <1>8
  <2>4. Backed(u) /\ Traded(mp_tally, u.tally)
    BY <1>1, <1>8, <2>2, <2>3, PaymentBacked, Zenon
  <2> QED
    BY <2>1, <2>4, BecomesBacked, Zenon
<1>9. CASE BlockEnd
  <2> DEFINE e == eraseExpiredAccepts(dex)
             u == Aged(e)
  <2>1. Backed(e) /\ SameHoldings(mp_tally, e.tally)
    BY <1>1, ExpiryBacked, Zenon
  <2> HIDE DEF e
  <2>2. Backed(u) /\ u.tally = e.tally
    BY <2>1, AgedBacked, Zenon
  <2>3. Becomes(u)
    BY <1>9 DEF BlockEnd, e
  <2> HIDE DEF u
  <2>4. Traded(mp_tally, u.tally)
    BY <2>1, <2>2, SameIsTraded
  <2>5. Backed(dex)' /\ Traded(mp_tally, mp_tally') /\ features' = features
    BY <2>2, <2>3, <2>4, BecomesBacked, Zenon
  <2> QED
    BY <2>5
<1>10. ASSUME NEW f \in Switchable, FeatureActivates(f) \/ DeactivateFeature(f)
       PROVE  Backed(dex)' /\ Traded(mp_tally, mp_tally') /\ features' \subseteq Feature
  <2>1. UNCHANGED <<mp_tally, my_offers, my_accepts>>
    BY <1>10, Zenon DEF FeatureActivates, DeactivateFeature
  <2>2. Backed(dex)'
    BY <2>1, Zenon DEF Backed, IsDex, AcceptsBackedBy, Reserved, DEx_acceptExists, DEx_getAccept, GetTokenBalance, dex
  <2>3. features' \subseteq Feature
    BY <1>10, FeatureAssumption DEF FeatureActivates, DeactivateFeature
  <2> QED
    BY <1>3, <2>1, <2>2, <2>3, SameIsTraded
<1>11. CASE UNCHANGED vars
  <2>1. Backed(dex)'
    BY <1>11, Zenon DEF vars, Backed, IsDex, AcceptsBackedBy, Reserved, DEx_acceptExists, DEx_getAccept, GetTokenBalance, dex
  <2> QED
    BY <1>3, <1>11, <2>1, SameIsTraded DEF vars
<1> QED
  BY <1>4, <1>5, <1>6, <1>7, <1>8, <1>9, <1>10, <1>11, Zenon DEF Next, Trade

-----------------------------------------------------------------------------
(* Conservation and the theorems *)

\* A trade leaves the total of every property as it is.
LEMMA TradedConserves ==
  ASSUME NEW t \in Tallied, NEW u \in Tallied, Traded(t, u), NEW p \in Property
  PROVE  TalliedTokens(u, p) = TalliedTokens(t, p)
<1> DEFINE f == Holdings(t, p)
           g == Holdings(u, p)
<1>1. f \in [Address -> Nat] /\ g \in [Address -> Nat]
  BY HoldingType, Zenon DEF Holdings
<1>2. \A a \in Address : f[a] = Holding(t, a, p) /\ g[a] = Holding(u, a, p)
  BY Zenon DEF Holdings
<1> HIDE DEF f, g
<1>3. ASSUME \A a \in Address : g[a] = f[a] PROVE Sum(g) = Sum(f)
  <2>1. g = f
    BY <1>1, <1>3
  <2> QED
    BY <2>1
<1>4. CASE SameHoldings(t, u)
  BY <1>2, <1>3, <1>4, Zenon DEF SameHoldings, TalliedTokens, f, g
<1>5. CASE \E q \in Property : \E from, to \in Address : \E n \in 1..Holding(t, from, q) :
             from # to /\ Handed(t, u, q, from, to, n)
  <2>1. PICK q \in Property, from \in Address, to \in Address :
          \E n \in 1..Holding(t, from, q) : from # to /\ Handed(t, u, q, from, to, n)
    BY <1>5, Zenon
  <2>2. PICK n \in 1..Holding(t, from, q) : from # to /\ Handed(t, u, q, from, to, n)
    BY <2>1
  <2>3. CASE q # p
    <3>1. \A a \in Address : g[a] = f[a]
      BY <1>2, <2>2, <2>3, Zenon DEF Handed
    <3> QED
      BY <1>3, <3>1, Zenon DEF TalliedTokens, f, g
  <2>4. CASE q = p
    <3> DEFINE v == f[from] - n
               w == f[to] + n
               h == [f EXCEPT ![from] = v]
    <3>1. n \in Nat /\ n <= f[from] /\ f[from] \in Nat /\ f[to] \in Nat
      BY <1>1, <1>2, <2>2, <2>4
    <3>2. v \in Nat /\ w \in Nat
      BY <3>1
    <3>3. \A a \in Address : g[a] = IF a = from THEN v ELSE IF a = to THEN w ELSE f[a]
      BY <1>2, <2>2, <2>4, Zenon DEF Handed
    <3> HIDE DEF v, w
    <3>4. h \in [Address -> Nat] /\ h[to] = f[to]
      BY <1>1, <2>2, <3>2
    <3>5. g = [h EXCEPT ![to] = w]
      BY <1>1, <2>2, <3>3
    <3>6. Sum(h) = Sum(f) - f[from] + v /\ f[from] <= Sum(f)
      BY <1>1, <3>2, SumUpdate, AddressAssumption, Zenon
    <3> HIDE DEF h
    <3>7. Sum([h EXCEPT ![to] = w]) = Sum(h) - h[to] + w /\ h[to] <= Sum(h)
      BY <3>2, <3>4, SumUpdate, AddressAssumption, Zenon
    <3>8. Sum(f) \in Nat
      BY <1>1, SumType, AddressAssumption, Zenon
    <3>9. Sum(g) = Sum(f)
      BY <3>1, <3>4, <3>5, <3>6, <3>7, <3>8 DEF v, w
    <3> QED
      BY <3>9 DEF TalliedTokens, f, g
  <2> QED
    BY <2>3, <2>4, Zenon
<1> QED
  BY <1>4, <1>5, Zenon DEF Traded

\* The inductive invariant: the reserves back the accepts, and the total of
\* every property is what it was at the start.
Conserving ==
  /\ Backed(dex)
  /\ features \subseteq Feature
  /\ \A p \in Property : TalliedTokens(mp_tally, p) = TalliedTokens(Supply, p)

\* The initial state is conserving: there are no accepts and no reserves.
LEMMA InitConserving == Init => Conserving
<1> SUFFICES ASSUME Init PROVE Conserving
  BY Zenon
<1>1. dex.tally = Supply /\ dex.offers = <<>> /\ dex.accepts = <<>> /\ dex = State(dex.tally, dex.offers, dex.accepts)
  BY StateFields DEF dex, Init
<1>2. Supply \in Tallied
  BY SupplyAssumption, MaxIntAssumption DEF TallyMap, Amount, Tallied
<1>3. /\ DOMAIN <<>> = {}
      /\ <<>> \in [DOMAIN <<>> -> CMPOffer] /\ <<>> \in [DOMAIN <<>> -> CMPAccept]
  OBVIOUS
<1>4. IsDex(dex)
  BY <1>1, <1>2, <1>3, Zenon DEF IsDex
<1>5. ASSUME NEW s \in Address, NEW p \in Property
      PROVE  dex.tally[<<s, p, ACCEPT_RESERVE>>] = Sum(Reserved(dex, s, p))
  <2>1. Reserved(dex, s, p) \in [Address -> Nat]
    BY <1>4, <1>5, ReservedType, Zenon
  <2>2. \A b \in Address : Reserved(dex, s, p)[b] = 0
    BY <1>1, <1>3, <1>5, ReservedAt, Zenon
  <2>3. Sum(Reserved(dex, s, p)) = 0
    BY <2>1, <2>2, SumZero, AddressAssumption, Zenon
  <2>4. <<s, p, ACCEPT_RESERVE>> \in TallyKey
    BY <1>5, Zenon DEF TallyKey, TallyType
  <2>5. Supply[<<s, p, ACCEPT_RESERVE>>] = 0
    BY <2>4, SupplyAssumption, Zenon
  <2> QED
    BY <1>1, <2>3, <2>5, Zenon
<1>6. Backed(dex)
  BY <1>4, <1>5, Zenon DEF Backed, AcceptsBackedBy, GetTokenBalance
<1> QED
  BY <1>6, FeatureAssumption, Zenon DEF Conserving, Init

\* Every step keeps it.
LEMMA NextConserving == Conserving /\ [Next]_vars => Conserving'
<1> SUFFICES ASSUME Conserving, [Next]_vars PROVE Conserving'
  BY Zenon
<1>1. Backed(dex)' /\ Traded(mp_tally, mp_tally') /\ features' \subseteq Feature
  BY NextBacked, Zenon DEF Conserving
<1>2. dex.tally = mp_tally /\ dex'.tally = mp_tally'
  BY StateFields DEF dex
<1>3. mp_tally \in Tallied
  BY <1>2, Zenon DEF Conserving, Backed, IsDex
<1>4. mp_tally' \in Tallied
  BY <1>1, <1>2, Zenon DEF Backed, IsDex
<1>5. \A p \in Property : TalliedTokens(mp_tally', p) = TalliedTokens(mp_tally, p)
  BY <1>1, <1>3, <1>4, TradedConserves, Zenon
<1>6. \A p \in Property : TalliedTokens(mp_tally', p) = TalliedTokens(Supply, p)
  BY <1>5, Zenon DEF Conserving
<1> QED
  BY <1>1, <1>6, Zenon DEF Conserving, TalliedTokens, Holdings, Holding, GetTokenBalance

\* A conserving state has its types: nobody owns more than there is of a
\* property, so no entry is above the largest int64_t.
LEMMA ConservingTypes == Conserving => TypeOK
<1> SUFFICES ASSUME Conserving PROVE TypeOK
  BY Zenon
<1>1. dex.tally = mp_tally /\ dex.offers = my_offers /\ dex.accepts = my_accepts
  BY StateFields DEF dex
<1>2. /\ mp_tally \in Tallied
      /\ DOMAIN my_offers \subseteq OfferKey
      /\ my_offers \in [DOMAIN my_offers -> CMPOffer]
      /\ DOMAIN my_accepts \subseteq AcceptKey
      /\ my_accepts \in [DOMAIN my_accepts -> CMPAccept]
  BY <1>1, Zenon DEF Conserving, Backed, IsDex
<1>3. ASSUME NEW k \in TallyKey PROVE mp_tally[k] \in Amount
  <2>1. PICK a \in Address, p \in Property, ty \in TallyType : k = <<a, p, ty>>
    BY <1>3 DEF TallyKey
  <2>2. /\ mp_tally[<<a, p, ty>>] \in Nat
        /\ mp_tally[<<a, p, ty>>] <= Holding(mp_tally, a, p)
        /\ Holding(mp_tally, a, p) \in Nat
    BY <1>2, HoldingType, Zenon
  <2> DEFINE f == Holdings(mp_tally, p)
  <2>3. f \in [Address -> Nat] /\ f[a] = Holding(mp_tally, a, p)
    BY <1>2, HoldingType, Zenon DEF Holdings
  <2>4. TalliedTokens(mp_tally, p) \in Amount /\ TalliedTokens(mp_tally, p) = Sum(f)
    BY SupplyAssumption, Zenon DEF Conserving, TalliedTokens
  <2> HIDE DEF f
  <2>5. f[a] <= Sum(f)
    BY <2>3, SumUpdate, AddressAssumption, Zenon
  <2> QED
    BY <2>1, <2>2, <2>3, <2>4, <2>5, MaxIntAssumption DEF Amount
<1>4. mp_tally \in TallyMap
  BY <1>2, <1>3, Zenon DEF Tallied, TallyMap
<1> QED
  BY <1>2, <1>4, Zenon DEF TypeOK, Conserving

\* No step of the exchange makes an amount of the ledger negative or lets it
\* overflow, and offers and accepts stay well formed, for any number of
\* addresses, properties, amounts and any sequence of feature activations.
THEOREM TypeCorrect == Spec => []TypeOK
<1>1. Spec => []Conserving
  BY InitConserving, NextConserving, PTL DEF Spec
<1> QED
  BY <1>1, ConservingTypes, PTL

\* The ACCEPT_RESERVE of a seller is always exactly what payments and expiries
\* of the open accepts will take out of it.
THEOREM AcceptsAlwaysBacked == Spec => []AcceptsBacked
<1>1. Spec => []Conserving
  BY InitConserving, NextConserving, PTL DEF Spec
<1>2. Conserving => AcceptsBacked
  BY Zenon DEF Conserving, Backed, AcceptsBacked
<1> QED
  BY <1>1, <1>2, PTL

-----------------------------------------------------------------------------
(* The exchange implements the abstract ledger *)

\* A trade of the tally map is a step of the ledger, or none.
LEMMA TradedIsLedgerStep ==
  ASSUME mp_tally \in Tallied, mp_tally' \in Tallied, Traded(mp_tally, mp_tally')
  PROVE  [Ledger!Next]_([p \in Property |-> Holdings(mp_tally, p)])
<1> DEFINE h(t) == [p \in Property |-> Holdings(t, p)]
<1>1. \A p \in Property : /\ h(mp_tally)[p] \in [Address -> Nat]
                          /\ h(mp_tally')[p] \in [Address -> Nat]
  BY HoldingType, Zenon DEF Holdings
<1>2. \A p \in Property, a \in Address : /\ h(mp_tally)[p][a] = Holding(mp_tally, a, p)
                                         /\ h(mp_tally')[p][a] = Holding(mp_tally', a, p)
  BY Zenon DEF Holdings
<1>3. CASE SameHoldings(mp_tally, mp_tally')
  <2>1. \A p \in Property : Holdings(mp_tally', p) = Holdings(mp_tally, p)
    BY <1>3, Zenon DEF SameHoldings, Holdings
  <2>2. h(mp_tally') = h(mp_tally)
    BY <2>1, Zenon
  <2> QED
    BY <2>2, Zenon
<1>4. CASE ~SameHoldings(mp_tally, mp_tally')
  <2>1. PICK p \in Property, from \in Address, to \in Address :
          \E n \in 1..Holding(mp_tally, from, p) : from # to /\ Handed(mp_tally, mp_tally', p, from, to, n)
    BY <1>4, Zenon DEF Traded
  <2>2. PICK n \in 1..Holding(mp_tally, from, p) : from # to /\ Handed(mp_tally, mp_tally', p, from, to, n)
    BY <2>1, Zenon
  <2> DEFINE f == Holdings(mp_tally, p)
             g == Holdings(mp_tally', p)
             d == [f EXCEPT ![from] = @ - n]
  <2>3. f \in [Address -> Nat] /\ g \in [Address -> Nat]
    BY HoldingType, Zenon DEF Holdings
  <2>4. \A a \in Address : g[a] = IF a = from THEN f[a] - n ELSE IF a = to THEN f[a] + n ELSE f[a]
    BY <2>2 DEF Handed, Holdings
  <2>5. \A q \in Property : q # p => Holdings(mp_tally', q) = Holdings(mp_tally, q)
    BY <2>2, Zenon DEF Handed, Holdings
  <2>6. Ledger!HandOver(f, from, to, n) = [d EXCEPT ![to] = @ + n]
    <3> HIDE DEF f
    <3>1. d \in [Address -> Int] /\ d[to] = f[to]
      BY <2>2, <2>3
    <3> QED
      BY <2>2, <2>3, <3>1, Zenon DEF Ledger!HandOver
  <2> HIDE DEF f, g
  <2>7. g = [d EXCEPT ![to] = @ + n]
    BY <2>2, <2>3, <2>4, Zenon
  <2> HIDE DEF d
  <2>8. h(mp_tally') = [h(mp_tally) EXCEPT ![p] = g]
    BY <2>5, Zenon DEF g
  <2>9. h(mp_tally') = [h(mp_tally) EXCEPT ![p] = Ledger!HandOver(@, from, to, n)]
    BY <2>6, <2>7, <2>8, Zenon DEF f
  <2>10. Ledger!Transfer(p, from, to, n)
    BY <2>2, <2>9 DEF Ledger!Transfer
  <2>11. n \in 1..h(mp_tally)[p][from]
    BY <1>2, <2>2
  <2> QED
    BY <2>10, <2>11, Zenon DEF Ledger!Next
<1> QED
  BY <1>3, <1>4, Zenon

\* Whatever sellers, buyers and blocks do, the exchange only ever hands tokens
\* from an owner who has them to another: it implements the abstract ledger.
THEOREM ImplementsLedger == Spec => LedgerSpec
<1>1. Spec => []Conserving
  BY InitConserving, NextConserving, PTL DEF Spec
<1>2. Init => Ledger!Init
  BY Zenon DEF Init, Ledger!Init
<1>3. Conserving /\ Conserving' /\ [Next]_vars => [Ledger!Next]_([p \in Property |-> Holdings(mp_tally, p)])
  <2> SUFFICES ASSUME Conserving, Conserving', [Next]_vars
               PROVE  [Ledger!Next]_([p \in Property |-> Holdings(mp_tally, p)])
    BY Zenon
  <2>1. Traded(mp_tally, mp_tally')
    BY NextBacked, Zenon DEF Conserving
  <2>2. dex.tally = mp_tally /\ dex'.tally = mp_tally'
    BY StateFields DEF dex
  <2>3. mp_tally \in Tallied /\ mp_tally' \in Tallied
    BY <2>2, Zenon DEF Conserving, Backed, IsDex
  <2> QED
    BY <2>1, <2>3, TradedIsLedgerStep, Zenon
<1> QED
  BY <1>1, <1>2, <1>3, PTL DEF Spec, LedgerSpec, Ledger!Spec

-----------------------------------------------------------------------------
(* Blocks *)

\* What expires of the open offer's accepts goes back on sale.
LEMMA ExpirySales ==
  ASSUME NEW st, Backed(st), Sales(st)
  PROVE  Sales(eraseExpiredAccepts(st))
<1> DEFINE u == eraseExpiredAccepts(st)
<1>1. /\ Backed(u) /\ u.offers = st.offers
      /\ DOMAIN u.accepts = DOMAIN st.accepts \ Expired(st)
      /\ \A x \in DOMAIN u.accepts : u.accepts[x] = st.accepts[x]
      /\ \A a \in Address, p \in Property :
           /\ ExpiredTo(st, a, p, SELLOFFER_RESERVE) \in Nat
           /\ u.tally[<<a, p, SELLOFFER_RESERVE>>]
                = st.tally[<<a, p, SELLOFFER_RESERVE>>] + ExpiredTo(st, a, p, SELLOFFER_RESERVE)
  BY ExpiryBacked, Zenon
<1> HIDE DEF u
<1>2. ASSUME NEW s \in Address, NEW p \in Property
      PROVE  LET e == ExpiredAmounts(st, s, p, SELLOFFER_RESERVE)
             IN  /\ e \in [Address -> Nat]
                 /\ \A b \in Address :
                      e[b] = IF <<s, p, b>> \in Expired(st) /\ IsForOpenOffer(st, s, p, b)
                             THEN st.accepts[<<s, p, b>>].remaining ELSE 0
  <2> DEFINE e == ExpiredAmounts(st, s, p, SELLOFFER_RESERVE)
  <2>1. SELLOFFER_RESERVE # BALANCE
    BY Zenon DEF SELLOFFER_RESERVE, BALANCE
  <2>2. \A b \in Address : e[b] = IF <<s, p, b>> \in Expired(st) /\ IsForOpenOffer(st, s, p, b)
                                  THEN st.accepts[<<s, p, b>>].remaining ELSE 0
    BY <2>1, Zenon DEF ExpiredAmounts, ReturnType, DEx_getAccept
  <2>3. e = [b \in Address |-> e[b]]
    BY Zenon DEF ExpiredAmounts
  <2>4. \A b \in Address : <<s, p, b>> \in Expired(st) => st.accepts[<<s, p, b>>].remaining \in Nat
    BY RemainingBacked, Zenon DEF Expired
  <2> HIDE DEF e
  <2>5. ASSUME NEW b \in Address PROVE e[b] \in Nat
    <3>1. e[b] = 0 \/ (<<s, p, b>> \in Expired(st) /\ e[b] = st.accepts[<<s, p, b>>].remaining)
      BY <2>2, Zenon
    <3> QED
      BY <2>4, <3>1
  <2>6. e \in [Address -> Nat]
    BY <2>3, <2>5, Zenon
  <2> QED
    BY <2>2, <2>6, Zenon DEF e
<1>3. SaleHasOffer(u)
  <2> SUFFICES ASSUME NEW s \in Address, NEW p \in Property, <<s, p>> \notin DOMAIN u.offers,
                      u.tally[<<s, p, SELLOFFER_RESERVE>>] > 0
               PROVE  FALSE
    BY Zenon DEF SaleHasOffer
  <2> DEFINE e == ExpiredAmounts(st, s, p, SELLOFFER_RESERVE)
  <2>1. e \in [Address -> Nat]
    BY <1>2, Zenon
  <2>2. \A b \in Address : ~IsForOpenOffer(st, s, p, b)
    BY <1>1, Zenon DEF IsForOpenOffer, DEx_offerExists
  <2>3. \A b \in Address : e[b] = 0
    BY <1>2, <2>2, Zenon
  <2> HIDE DEF e
  <2>4. Sum(e) = 0
    BY <2>1, <2>3, SumZero, AddressAssumption
  <2>5. ExpiredTo(st, s, p, SELLOFFER_RESERVE) = 0
    BY <2>4, Zenon DEF ExpiredTo, e
  <2>6. st.tally[<<s, p, SELLOFFER_RESERVE>>] \in Nat
    BY TallyTypes, Zenon
  <2>7. u.tally[<<s, p, SELLOFFER_RESERVE>>] = st.tally[<<s, p, SELLOFFER_RESERVE>>]
    BY <1>1, <2>5, <2>6
  <2> QED
    BY <1>1, <2>7, Zenon DEF Sales, SaleHasOffer
<1>4. NotOversold(u)
  <2> SUFFICES ASSUME NEW s \in Address, NEW p \in Property, <<s, p>> \in DOMAIN u.offers
               PROVE  u.tally[<<s, p, SELLOFFER_RESERVE>>]
                        + Sum(ReservedFrom(u, s, p, u.offers[<<s, p>>].txid)) <= u.offers[<<s, p>>].offered
    BY Zenon DEF NotOversold
  <2> DEFINE o == st.offers[<<s, p>>]
             e == ExpiredAmounts(st, s, p, SELLOFFER_RESERVE)
             f == ReservedFrom(st, s, p, o.txid)
             g == ReservedFrom(u, s, p, o.txid)
  <2>1. u.offers[<<s, p>>] = o /\ <<s, p>> \in DOMAIN st.offers
    BY <1>1, Zenon
  <2>2. f \in [Address -> Nat] /\ g \in [Address -> Nat] /\ Sum(f) \in Nat /\ Sum(g) \in Nat
    BY <1>1, ReservedFromAt, Zenon
  <2>3. e \in [Address -> Nat]
    BY <1>2, Zenon
  <2>4. ASSUME NEW b \in Address
        PROVE  (e[b] = 0 /\ f[b] = g[b]) \/ (g[b] = 0 /\ f[b] = e[b])
    <3> DEFINE k == <<s, p, b>>
    <3>1. e[b] = IF k \in Expired(st) /\ IsForOpenOffer(st, s, p, b) THEN st.accepts[k].remaining ELSE 0
      BY <1>2, Zenon
    <3>2. f[b] = IF k \in DOMAIN st.accepts /\ st.accepts[k].txid = o.txid THEN st.accepts[k].remaining ELSE 0
      BY Zenon DEF ReservedFrom, DEx_acceptExists, DEx_getAccept
    <3>3. g[b] = IF k \in DOMAIN u.accepts /\ u.accepts[k].txid = o.txid THEN u.accepts[k].remaining ELSE 0
      BY Zenon DEF ReservedFrom, DEx_acceptExists, DEx_getAccept
    <3>4. IsForOpenOffer(st, s, p, b) <=> st.accepts[k].txid = o.txid
      BY <2>1, Zenon DEF IsForOpenOffer, DEx_offerExists, DEx_getOffer, DEx_getAccept
    <3>5. k \in Expired(st) => k \in DOMAIN st.accepts
      BY DEF Expired
    <3> HIDE DEF e, f, g, o, k
    <3>6. CASE k \in Expired(st)
      BY <1>1, <3>1, <3>2, <3>3, <3>4, <3>5, <3>6, Zenon
    <3>7. CASE k \notin Expired(st)
      BY <1>1, <3>1, <3>2, <3>3, <3>7, Zenon
    <3> QED
      BY <3>6, <3>7, Zenon
  <2> HIDE DEF e, f, g
  <2>5. Sum(f) = Sum(e) + Sum(g)
    BY <2>2, <2>3, <2>4, SumSplit, AddressAssumption
  <2>6. u.tally[<<s, p, SELLOFFER_RESERVE>>] = st.tally[<<s, p, SELLOFFER_RESERVE>>] + Sum(e) /\ Sum(e) \in Nat
    BY <1>1, Zenon DEF ExpiredTo, e
  <2>7. st.tally[<<s, p, SELLOFFER_RESERVE>>] + Sum(f) <= o.offered
    BY <2>1, Zenon DEF Sales, NotOversold, f
  <2>8. st.tally[<<s, p, SELLOFFER_RESERVE>>] \in Nat
    BY TallyTypes, Zenon
  <2>9. u.tally[<<s, p, SELLOFFER_RESERVE>>] + Sum(g) <= o.offered
    <3> HIDE DEF o
    <3> QED
      BY <2>2, <2>5, <2>6, <2>7, <2>8
  <2> QED
    BY <2>1, <2>9, Zenon DEF g
<1> QED
  BY <1>3, <1>4, Zenon DEF Sales, u

\* A block keeps the order, and ends the accepts whose window is over.
LEMMA BlockOrderly ==
  ASSUME NEW st, Backed(st), Orderly(st)
  PROVE  LET u == Aged(eraseExpiredAccepts(st))
         IN  Orderly(u) /\ EndsWell(st, u)
<1> DEFINE e == eraseExpiredAccepts(st)
           u == Aged(e)
<1>1. /\ Backed(e) /\ e.offers = st.offers
      /\ DOMAIN e.accepts = DOMAIN st.accepts \ Expired(st)
      /\ \A x \in DOMAIN e.accepts : e.accepts[x] = st.accepts[x]
  BY ExpiryBacked, Zenon
<1>2. Sales(e)
  BY ExpirySales, Zenon DEF Orderly
<1> HIDE DEF e
<1>3. /\ Backed(u) /\ u.tally = e.tally
      /\ u.offers = e.offers
      /\ DOMAIN u.accepts = DOMAIN e.accepts
      /\ \A x \in DOMAIN e.accepts :
           /\ u.accepts[x].remaining = e.accepts[x].remaining
           /\ u.accepts[x].window = e.accepts[x].window
           /\ u.accepts[x].age = Older(e.accepts[x])
           /\ u.accepts[x].txid = e.accepts[x].txid
           /\ SameTerms(e.accepts[x], u.accepts[x])
  BY <1>1, AgedBacked, Zenon
<1> HIDE DEF u
<1>4. ASSUME NEW s \in Address, NEW p \in Property, NEW txid
      PROVE  ReservedFrom(u, s, p, txid) = ReservedFrom(e, s, p, txid)
  BY <1>3, Zenon DEF ReservedFrom, DEx_acceptExists, DEx_getAccept
<1>5. Sales(u)
  BY <1>2, <1>3, <1>4, Zenon DEF Sales, SaleHasOffer, NotOversold
<1>6. ASSUME NEW k \in DOMAIN u.accepts PROVE InOrder(u.accepts[k])
  <2> DEFINE c == st.accepts[k]
             d == u.accepts[k]
  <2>1. k \in DOMAIN st.accepts /\ k \notin Expired(st) /\ e.accepts[k] = c
    BY <1>1, <1>3
  <2>2. /\ d.remaining = c.remaining /\ d.window = c.window /\ d.age = Older(c)
        /\ d.paid = c.paid /\ d.original = c.original /\ d.offered = c.offered /\ d.desired = c.desired
    BY <1>3, <2>1 DEF SameTerms
  <2>3. InOrder(c)
    BY <2>1, Zenon DEF Orderly
  <2>4. c.age \in Nat /\ c.window \in Nat
    <3>1. st.accepts \in [DOMAIN st.accepts -> CMPAccept]
      BY Zenon DEF Backed, IsDex
    <3> QED
      BY <2>1, <3>1, Zenon DEF CMPAccept
  <2>5. c.age < c.window
    BY <2>1, <2>4 DEF Expired
  <2> HIDE DEF c, d
  <2>6. Older(c) <= c.window
    BY <2>4, <2>5 DEF Older
  <2> QED
    BY <2>2, <2>3, <2>6, Zenon DEF InOrder, d
<1>7. EndsWell(st, u)
  BY <1>1, <1>3, Zenon DEF EndsWell, Expired
<1> QED
  BY <1>5, <1>6, <1>7, Zenon DEF Orderly, u, e

-----------------------------------------------------------------------------
(* Every step keeps the order *)

\* The state after a step that ends in the state st.
LEMMA BecomesOrderly ==
  ASSUME NEW st, Becomes(st), Backed(st), Orderly(st), EndsWell(dex, st)
  PROVE  Orderly(dex)' /\ EndsWell(dex, dex')
<1>1. st = State(st.tally, st.offers, st.accepts)
  BY Zenon DEF Backed, IsDex
<1>2. dex' = st
  BY <1>1, Zenon DEF Becomes, dex
<1>3. Orderly(dex)' <=> Orderly(dex')
  BY Zenon DEF Orderly, Sales, SaleHasOffer, NotOversold, InOrder, ReservedFrom, DEx_acceptExists, DEx_getAccept
<1> QED
  BY <1>2, <1>3, Zenon

\* A step that leaves the accepts ends none.
LEMMA SameAcceptsEndWell ==
  ASSUME NEW st, NEW u, DOMAIN st.accepts \subseteq DOMAIN u.accepts
  PROVE  EndsWell(st, u)
BY Zenon DEF EndsWell

\* A step that leaves the exchange leaves the order.
LEMMA UnchangedOrderly ==
  ASSUME Orderly(dex), UNCHANGED <<mp_tally, my_offers, my_accepts>>
  PROVE  Orderly(dex)' /\ EndsWell(dex, dex')
<1>1. dex' = dex
  BY Zenon DEF dex
<1>2. Orderly(dex)' <=> Orderly(dex')
  BY Zenon DEF Orderly, Sales, SaleHasOffer, NotOversold, InOrder, ReservedFrom, DEx_acceptExists, DEx_getAccept
<1> QED
  BY <1>1, <1>2, SameAcceptsEndWell, Zenon

\* One lemma for all actions: each keeps the order, and none ends an accept
\* before its window is over unless the buyer gets all of it.
LEMMA NextOrderly ==
  ASSUME Backed(dex), Orderly(dex), [Next]_vars
  PROVE  Orderly(dex)' /\ EndsWell(dex, dex')
<1>1. dex.tally = mp_tally /\ dex.offers = my_offers /\ dex.accepts = my_accepts
  BY StateFields DEF dex
<1>2. OfferAmounts \subseteq Nat /\ Desired \subseteq Nat /\ Payments \subseteq Nat
        /\ Windows \subseteq Nat /\ Fees \subseteq Nat /\ FreshTxid \subseteq Txid
  BY InputAssumption, MaxIntAssumption DEF Amount, FreshTxid
<1>3. Sales(dex) /\ \A k \in DOMAIN dex.accepts : InOrder(dex.accepts[k])
  BY Zenon DEF Orderly
<1>4. ASSUME NEW u, Sales(u), u.accepts = dex.accepts
      PROVE  Orderly(u) /\ EndsWell(dex, u)
  BY <1>3, <1>4, SameAcceptsEndWell, Zenon DEF Orderly
<1>5. \A txid \in FreshTxid : \A k \in DOMAIN dex.accepts : dex.accepts[k].txid # txid
  BY <1>1, Zenon DEF FreshTxid
<1>6. ASSUME NEW s \in Address, NEW p \in Property, TradeOfferCancel(s, p)
      PROVE  Orderly(dex)' /\ EndsWell(dex, dex')
  <2> DEFINE u == DEx_offerDestroy(dex, s, p)
  <2>1. Backed(u) /\ Sales(u) /\ u.accepts = dex.accepts
    BY <1>3, <1>6, OfferDestroyBacked, OfferDestroySales, OfferDestroyEffect, Zenon
  <2>2. Becomes(u)
    BY <1>6, Zenon DEF TradeOfferCancel
  <2> HIDE DEF u
  <2> QED
    BY <1>4, <2>1, <2>2, BecomesOrderly, Zenon
<1>7. ASSUME NEW s \in Address, NEW p \in Property, NEW offered \in OfferAmounts,
             NEW desired \in Desired, NEW minFee \in Fees, NEW window \in Windows,
             TradeOfferNew(s, p, offered, desired, minFee, window)
      PROVE  Orderly(dex)' /\ EndsWell(dex, dex')
  <2>1. PICK txid \in FreshTxid :
          Becomes(DEx_offerCreate(dex, s, p, offered, desired, minFee, window, txid))
    BY <1>7, Zenon DEF TradeOfferNew
  <2> DEFINE u == DEx_offerCreate(dex, s, p, offered, desired, minFee, window, txid)
  <2>2. /\ offered \in Nat /\ desired \in Nat /\ minFee \in Nat /\ window \in Nat /\ txid \in Txid
        /\ \A k \in DOMAIN dex.accepts : dex.accepts[k].txid # txid
    BY <1>2, <1>5, <1>7
  <2>3. Backed(u)
    BY <1>7, <2>2, OfferCreateBacked, Zenon
  <2>4. Sales(u) /\ u.accepts = dex.accepts
    BY <1>3, <1>7, <2>2, OfferCreateOrderly
  <2> HIDE DEF u
  <2> QED
    BY <1>4, <2>1, <2>3, <2>4, BecomesOrderly DEF u
<1>8. ASSUME NEW s \in Address, NEW p \in Property, NEW offered \in OfferAmounts,
             NEW desired \in Desired, NEW minFee \in Fees, NEW window \in Windows,
             TradeOfferUpdate(s, p, offered, desired, minFee, window)
      PROVE  Orderly(dex)' /\ EndsWell(dex, dex')
  <2>1. PICK txid \in FreshTxid :
          Becomes(DEx_offerUpdate(dex, s, p, offered, desired, minFee, window, txid))
    BY <1>8, Zenon DEF TradeOfferUpdate
  <2> DEFINE u == DEx_offerUpdate(dex, s, p, offered, desired, minFee, window, txid)
  <2>2. /\ offered \in Nat /\ desired \in Nat /\ minFee \in Nat /\ window \in Nat /\ txid \in Txid
        /\ \A k \in DOMAIN dex.accepts : dex.accepts[k].txid # txid
    BY <1>2, <1>5, <1>8, Zenon
  <2>3. Backed(u)
    BY <1>8, <2>2, OfferUpdateBacked
  <2>4. Sales(u) /\ u.accepts = dex.accepts
    BY <1>3, <1>8, <2>2, OfferUpdateOrderly
  <2> HIDE DEF u
  <2> QED
    BY <1>4, <2>1, <2>3, <2>4, BecomesOrderly, Zenon DEF u
<1>9. ASSUME NEW s \in Address, NEW p \in Property, NEW b \in Address,
             NEW wanted \in OfferAmounts, NEW feePaid \in Fees,
             AcceptOffer_CCH(b, s, p, wanted, feePaid)
      PROVE  Orderly(dex)' /\ EndsWell(dex, dex')
  <2> DEFINE u == DEx_acceptCreate(dex, b, s, p, wanted, feePaid)
  <2>1. wanted \in Nat /\ feePaid \in Nat
    BY <1>2, <1>9, Zenon
  <2>2. Backed(u) /\ Orderly(u) /\ DOMAIN dex.accepts \subseteq DOMAIN u.accepts
    BY <1>9, <2>1, AcceptCreateBacked, AcceptCreateOrderly
  <2>3. Becomes(u)
    BY <1>9, Zenon DEF AcceptOffer_CCH
  <2> HIDE DEF u
  <2> QED
    BY <2>2, <2>3, SameAcceptsEndWell, BecomesOrderly, Zenon
<1>10. ASSUME NEW s \in Address, NEW b \in Address, NEW amountPaid \in Payments,
              Payment(s, b, amountPaid)
       PROVE  Orderly(dex)' /\ EndsWell(dex, dex')
  <2>1. PICK p \in AcceptFound(dex, s, b) : Becomes(DEx_payment(dex, s, b, p, amountPaid))
    BY <1>10, Zenon DEF Payment
  <2>2. p \in Property /\ <<s, p, b>> \in DOMAIN dex.accepts
    BY Zenon DEF AcceptFound, DEx_acceptExists
  <2> DEFINE u == DEx_payment(dex, s, b, p, amountPaid)
  <2>3. amountPaid \in Nat
    BY <1>2, <1>10, Zenon
  <2>4. Backed(u)
    BY <1>10, <2>2, <2>3, PaymentBacked, Zenon
  <2>5. Orderly(u) /\ EndsWell(dex, u)
    BY <1>10, <2>2, <2>3, PaymentOrderly
  <2> HIDE DEF u
  <2> QED
    BY <2>1, <2>4, <2>5, BecomesOrderly, Zenon DEF u
<1>11. CASE BlockEnd
  <2> DEFINE e == eraseExpiredAccepts(dex)
             u == Aged(e)
  <2>1. Orderly(u) /\ EndsWell(dex, u)
    BY BlockOrderly, Zenon
  <2>2. Backed(e)
    BY ExpiryBacked
  <2>3. Becomes(u)
    BY <1>11, Zenon DEF BlockEnd
  <2> HIDE DEF e
  <2>4. Backed(u)
    BY <2>2, AgedBacked, Zenon
  <2> HIDE DEF u
  <2> QED
    BY <2>1, <2>3, <2>4, BecomesOrderly, Zenon
<1>12. ASSUME NEW f \in Switchable, FeatureActivates(f) \/ DeactivateFeature(f)
       PROVE  Orderly(dex)' /\ EndsWell(dex, dex')
  BY <1>12, UnchangedOrderly DEF FeatureActivates, DeactivateFeature
<1>13. CASE UNCHANGED vars
  BY <1>13, UnchangedOrderly DEF vars
<1> QED
  BY <1>6, <1>7, <1>8, <1>9, <1>10, <1>11, <1>12, <1>13, Zenon DEF Next, Trade

\* The initial state is in order: there are no offers and no accepts.
LEMMA InitOrderly == Init => Orderly(dex)
<1> SUFFICES ASSUME Init PROVE Orderly(dex)
  BY Zenon
<1>1. dex.tally = Supply /\ dex.offers = <<>> /\ dex.accepts = <<>>
  BY StateFields DEF dex, Init
<1>2. DOMAIN <<>> = {}
  OBVIOUS
<1>3. \A s \in Address, p \in Property : Supply[<<s, p, SELLOFFER_RESERVE>>] = 0
  <2>1. \A s \in Address, p \in Property : <<s, p, SELLOFFER_RESERVE>> \in TallyKey
    BY Zenon DEF TallyKey, TallyType
  <2> QED
    BY <2>1, SupplyAssumption, Zenon
<1>4. SaleHasOffer(dex)
  BY <1>1, <1>3 DEF SaleHasOffer
<1>5. NotOversold(dex)
  BY <1>1, <1>2, Zenon DEF NotOversold
<1> QED
  BY <1>1, <1>2, <1>4, <1>5, Zenon DEF Orderly, Sales

\* The second invariant by induction, on top of the first.
LEMMA AlwaysOrderly == Spec => [](Conserving /\ Orderly(dex))
<1>1. Spec => []Conserving
  BY InitConserving, NextConserving, PTL DEF Spec
<1>2. Conserving /\ Orderly(dex) /\ [Next]_vars => Orderly(dex)'
  BY NextOrderly, Zenon DEF Conserving
<1> QED
  BY <1>1, <1>2, InitOrderly, PTL DEF Spec

\* Tokens on sale always belong to an open offer, so DEx_offerDestroy can
\* always give them back.
THEOREM ReserveAlwaysHasOffer == Spec => []ReserveHasOffer
<1>1. Orderly(dex) => ReserveHasOffer
  BY StateFields DEF dex, Orderly, Sales, SaleHasOffer, ReserveHasOffer, DEx_offerExists, GetTokenBalance
<1> QED
  BY <1>1, AlwaysOrderly, PTL

\* Accepts that come back, whether paid, expired or of an offer that was
\* replaced, never make an offer sell more than was offered.
THEOREM OffersNeverOversold == Spec => []OfferNotOversold
<1>1. Conserving /\ Orderly(dex) => OfferNotOversold
  <2> SUFFICES ASSUME Conserving, Orderly(dex), NEW k \in DOMAIN my_offers
               PROVE  GetTokenBalance(mp_tally, k[1], k[2], SELLOFFER_RESERVE)
                        + Sum(ReservedFrom(dex, k[1], k[2], my_offers[k].txid)) <= my_offers[k].offered
    BY Zenon DEF OfferNotOversold
  <2>1. dex.tally = mp_tally /\ dex.offers = my_offers
    BY StateFields DEF dex
  <2>2. DOMAIN my_offers \subseteq Address \X Property
    BY <2>1, Zenon DEF Conserving, Backed, IsDex, OfferKey
  <2>3. PICK s \in Address, p \in Property : k = <<s, p>>
    BY <2>2
  <2> QED
    BY <2>1, <2>3, Zenon DEF Orderly, Sales, NotOversold, GetTokenBalance
<1> QED
  BY <1>1, AlwaysOrderly, PTL

\* eraseExpiredAccepts leaves no accept open past its window, and DEx_payment
\* none that is paid.
THEOREM AcceptsAlwaysLive == Spec => []AcceptsLive
<1>1. Orderly(dex) => AcceptsLive
  BY StateFields DEF dex, Orderly, InOrder, AcceptsLive
<1> QED
  BY <1>1, AlwaysOrderly, PTL

\* However a payment is split and however calculateDExPurchase rounds, a buyer
\* who pays under integer arithmetic has received the share that is paid for.
THEOREM InstalmentsAlwaysCredited == Spec => []InstalmentsCredited
<1>1. Orderly(dex) => InstalmentsCredited
  BY StateFields DEF dex, Orderly, InOrder, InstalmentsCredited
<1> QED
  BY <1>1, AlwaysOrderly, PTL

\* No step of a seller, of another buyer or of a feature activation ends an
\* accept: only its payment or its expiry does.
THEOREM AcceptsEndOnlyByPaymentOrExpiry == Spec => AcceptEndsByPaymentOrExpiry
<1> DEFINE EndsRight == \A k \in DOMAIN my_accepts \ DOMAIN my_accepts' :
             LET bought == my_accepts[k].remaining
             IN  \/ my_accepts[k].age >= my_accepts[k].window
                 \/ GetTokenBalance(mp_tally', k[3], k[2], BALANCE)
                      >= GetTokenBalance(mp_tally, k[3], k[2], BALANCE) + bought
<1>1. Conserving /\ Orderly(dex) /\ [Next]_vars => EndsRight
  <2> SUFFICES ASSUME Conserving, Orderly(dex), [Next]_vars, NEW k \in DOMAIN my_accepts \ DOMAIN my_accepts'
               PROVE  \/ my_accepts[k].age >= my_accepts[k].window
                      \/ mp_tally'[<<k[3], k[2], BALANCE>>]
                           >= mp_tally[<<k[3], k[2], BALANCE>>] + my_accepts[k].remaining
    BY Zenon DEF GetTokenBalance
  <2>1. EndsWell(dex, dex')
    BY NextOrderly, Zenon DEF Conserving
  <2>2. /\ dex.tally = mp_tally /\ dex.accepts = my_accepts
        /\ dex'.tally = mp_tally' /\ dex'.accepts = my_accepts'
    BY StateFields DEF dex
  <2>3. DOMAIN my_accepts \subseteq Address \X Property \X Address
    BY <2>2, Zenon DEF Conserving, Backed, IsDex, AcceptKey
  <2>4. PICK s \in Address, p \in Property, b \in Address : k = <<s, p, b>>
    BY <2>3
  <2> QED
    BY <2>1, <2>2, <2>4, Zenon DEF EndsWell
<1>2. Conserving /\ Orderly(dex) /\ [Next]_vars => [EndsRight]_vars
  BY <1>1, Zenon
<1> QED
  BY <1>2, AlwaysOrderly, PTL DEF Spec, AcceptEndsByPaymentOrExpiry

=============================================================================
