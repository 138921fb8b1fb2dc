-------------------------------- MODULE DEx ---------------------------------
(***************************************************************************)
(* The distributed exchange for tokens against CCH (dex.cpp and the        *)
(* handlers of tx.cpp and counoscore.cpp that call it).  A seller opens an *)
(* offer, a buyer accepts part of it, which holds the tokens back for a    *)
(* payment window counted in blocks, and then pays CCH in one or more      *)
(* transactions.  Each call is made under cs_tally, so a handler is one    *)
(* step.                                                                   *)
(*                                                                         *)
(* Block heights appear only as differences, so an accept keeps its age.   *)
(* A transaction hash matters only while an offer or an accept holds it,   *)
(* so a new one is any hash that none of them holds.                       *)
(***************************************************************************)
EXTENDS Tally, Maps

CONSTANTS Txid,          \* transaction hashes
          Supply,        \* tally map at the start
          InitFeatures,  \* features active at the start
          Switchable,    \* features that activation messages may switch
          KeyOrder,      \* place of "address-property" among an address's keys
          OfferAmounts, Desired, Windows, Fees,   \* contents of offers and accepts
          Payments       \* CCH amounts that are paid

COUNOS_PROPERTY_MSC  == 1
COUNOS_PROPERTY_TMSC == 2

FEATURE_FREEDEX == "freedex"   \* any property may be sold, one offer per seller
FEATURE_DEXMATH == "dexmath"   \* integer arithmetic instead of floating point

Feature == {FEATURE_FREEDEX, FEATURE_DEXMATH}

ASSUME SupplyAssumption ==
  /\ Supply \in TallyMap
  /\ \A k \in TallyKey : k[3] \in {SELLOFFER_RESERVE, ACCEPT_RESERVE} => Supply[k] = 0
  /\ \A p \in Property : TalliedTokens(Supply, p) \in Amount
ASSUME FeatureAssumption == InitFeatures \subseteq Feature /\ Switchable \subseteq Feature
ASSUME KeyOrderAssumption ==
  /\ KeyOrder \in [Property -> Nat]
  /\ \A p, q \in Property : KeyOrder[p] = KeyOrder[q] => p = q
ASSUME InputAssumption ==
  /\ OfferAmounts \subseteq Amount
  /\ Desired \subseteq Nat /\ Payments \subseteq Nat
  /\ Windows \subseteq Nat /\ Fees \subseteq Nat

VARIABLES mp_tally,     \* the token ledger
          my_offers,    \* open sell offers, by seller and property
          my_accepts,   \* open accepts, by seller, property and buyer
          features      \* the features that are active

vars == <<mp_tally, my_offers, my_accepts, features>>

OfferKey  == Address \X Property
AcceptKey == Address \X Property \X Address

CMPOffer == [offered : Nat, desired : Nat, minFee : Nat, window : Nat, txid : Txid]

\* An accept copies the offer's terms.  paid is a history variable: the CCH
\* received for the accept while integer arithmetic was active.
CMPAccept == [original : Nat, remaining : Nat, offered : Nat, desired : Nat,
              window : Nat, age : Nat, txid : Txid, paid : Nat]

\* The state the functions of dex.cpp work on.
State(tally, offers, accepts) == [tally |-> tally, offers |-> offers, accepts |-> accepts]

dex == State(mp_tally, my_offers, my_accepts)

Becomes(st) ==
  /\ mp_tally'   = st.tally
  /\ my_offers'  = st.offers
  /\ my_accepts' = st.accepts
  /\ UNCHANGED features

IsFeatureActivated(f) == f \in features

DEx_offerExists(st, s, p) == <<s, p>> \in DOMAIN st.offers

DEx_getOffer(st, s, p) == st.offers[<<s, p>>]

DEx_acceptExists(st, s, p, b) == <<s, p, b>> \in DOMAIN st.accepts

DEx_getAccept(st, s, p, b) == st.accepts[<<s, p, b>>]

-----------------------------------------------------------------------------
(* Prices *)

\* Variant with a fault: the quotient is cut off.
DivideAndCut(n, d) == n \div d

DivideAndRoundUp(n, d) == IF n = 0 THEN 0 ELSE 1 + (n - 1) \div d

\* rounduint64 of the quotient of two naturals: to the nearest, halves up.
RoundedQuotient(n, d) == (2 * n + d) \div (2 * d)

\* The product is formed in uint64_t.
legacyDesiredCCH(offered, desired, available) ==
  RoundedQuotient((desired * available) % (2 * (MAX_INT + 1)), offered)

calculateDExPurchase(offered, desired, paid) ==
  IF IsFeatureActivated(FEATURE_DEXMATH)
  THEN DivideAndRoundUp(paid * offered, desired)
  ELSE RoundedQuotient(offered * paid, desired)

-----------------------------------------------------------------------------
(* Offers *)

OffersOf(st, s) == {p \in Property : DEx_offerExists(st, s, p)}

\* The first key of my_offers that begins with the seller's address.
DEx_getTokenForSale(st, s) ==
  {p \in OffersOf(st, s) : \A q \in OffersOf(st, s) : KeyOrder[p] <= KeyOrder[q]}

DEx_offerCreate(st, s, p, offered, desired, minFee, window, txid) ==
  LET available == GetTokenBalance(st.tally, s, p, BALANCE)
      short     == offered > available
      forSale   == IF short THEN available ELSE offered
      price     == IF short THEN legacyDesiredCCH(offered, desired, available) ELSE desired
      accepted  == /\ window # 0
                   /\ desired # 0
                   /\ ~DEx_offerExists(st, s, p)
                   /\ IsFeatureActivated(FEATURE_FREEDEX) => OffersOf(st, s) = {}
                   /\ IsFeatureActivated(FEATURE_DEXMATH) => ~short
                   /\ forSale > 0
      offer     == [offered |-> forSale, desired |-> price, minFee |-> minFee,
                    window |-> window, txid |-> txid]
  IN  IF ~accepted THEN st ELSE
      State(Move(st.tally, s, BALANCE, s, SELLOFFER_RESERVE, p, forSale),
            With(st.offers, <<s, p>>, offer),
            st.accepts)

\* Variant with a fault: refunds what was offered, not what is left of it.
DEx_offerDestroyRefundsAll(st, s, p) ==
  IF ~DEx_offerExists(st, s, p) THEN st ELSE
  State(Move(st.tally, s, SELLOFFER_RESERVE, s, BALANCE, p, DEx_getOffer(st, s, p).offered),
        Without(st.offers, <<s, p>>),
        st.accepts)

\* Variant with a fault: credits the seller and leaves the reserve.
DEx_offerDestroyKeepsReserve(st, s, p) ==
  IF ~DEx_offerExists(st, s, p) THEN st ELSE
  State(update_tally_map(st.tally, s, p, GetTokenBalance(st.tally, s, p, SELLOFFER_RESERVE), BALANCE),
        Without(st.offers, <<s, p>>),
        st.accepts)

DEx_offerDestroy(st, s, p) ==
  IF ~DEx_offerExists(st, s, p) THEN st ELSE
  State(Move(st.tally, s, SELLOFFER_RESERVE, s, BALANCE, p,
             GetTokenBalance(st.tally, s, p, SELLOFFER_RESERVE)),
        Without(st.offers, <<s, p>>),
        st.accepts)

\* The old offer is gone even if the new one is refused.
DEx_offerUpdate(st, s, p, offered, desired, minFee, window, txid) ==
  IF ~DEx_offerExists(st, s, p) THEN st ELSE
  DEx_offerCreate(DEx_offerDestroy(st, s, p), s, p, offered, desired, minFee, window, txid)

-----------------------------------------------------------------------------
(* Accepts *)

DEx_acceptCreate(st, b, s, p, wanted, feePaid) ==
  LET offer    == DEx_getOffer(st, s, p)
      onSale   == GetTokenBalance(st.tally, s, p, SELLOFFER_RESERVE)
      reserved == IF onSale >= wanted THEN wanted ELSE onSale
      accepted == /\ DEx_offerExists(st, s, p)
                  /\ ~DEx_acceptExists(st, s, p, b)
                  /\ feePaid >= offer.minFee
                  /\ reserved > 0
      accept   == [original |-> reserved, remaining |-> reserved, offered |-> offer.offered,
                   desired |-> offer.desired, window |-> offer.window, age |-> 0,
                   txid |-> offer.txid, paid |-> 0]
  IN  IF ~accepted THEN st ELSE
      State(Move(st.tally, s, SELLOFFER_RESERVE, s, ACCEPT_RESERVE, p, reserved),
            st.offers,
            With(st.accepts, <<s, p, b>>, accept))

\* Variant with a fault: any offer of the seller counts.
IsForAnyOffer(st, s, p, b) == DEx_offerExists(st, s, p)

\* Whether the accept was made for the offer that is open now.
IsForOpenOffer(st, s, p, b) ==
  DEx_offerExists(st, s, p) /\ DEx_getOffer(st, s, p).txid = DEx_getAccept(st, s, p, b).txid

\* Variant with a fault: always back on sale.
ReturnTypeSell(st, s, p, b) == SELLOFFER_RESERVE

\* Where what is left of an accept goes: back on sale, or to the seller's
\* balance if its offer is gone or was replaced.
ReturnType(st, s, p, b) ==
  IF IsForOpenOffer(st, s, p, b) THEN SELLOFFER_RESERVE ELSE BALANCE

DEx_acceptDestroy(st, b, s, p) ==
  State(Move(st.tally, s, ACCEPT_RESERVE, s, ReturnType(st, s, p, b), p,
             DEx_getAccept(st, s, p, b).remaining),
        st.offers,
        Without(st.accepts, <<s, p, b>>))

\* The property whose accept a payment from b to s is for, if there is one.
AcceptFound(st, s, b) ==
  LET open == {p \in Property : DEx_acceptExists(st, s, p, b)}
  IN  IF IsFeatureActivated(FEATURE_FREEDEX) THEN DEx_getTokenForSale(st, s) \cap open
      ELSE IF COUNOS_PROPERTY_MSC \in open THEN {COUNOS_PROPERTY_MSC}
      ELSE {COUNOS_PROPERTY_TMSC} \cap open

\* What a payment buys: never more than is left of the accept.
Purchased(accept, amountPaid) ==
  LET purchased == calculateDExPurchase(accept.offered, accept.desired, amountPaid)
  IN  IF accept.remaining < purchased THEN accept.remaining ELSE purchased

PaymentCounted(amountPaid) == IF IsFeatureActivated(FEATURE_DEXMATH) THEN amountPaid ELSE 0

\* Variant with a fault: the accept is not reduced.
acceptAmountNotReduced(accept, purchased, amountPaid) ==
  [accept EXCEPT !.paid = @ + PaymentCounted(amountPaid)]

reduceAcceptAmountRemaining(accept, purchased, amountPaid) ==
  [accept EXCEPT !.remaining = @ - purchased, !.paid = @ + PaymentCounted(amountPaid)]

\* The tokens change hands, and the accept shrinks by as much.
Deliver(st, s, b, p, purchased, amountPaid) ==
  State(Move(st.tally, s, ACCEPT_RESERVE, b, BALANCE, p, purchased),
        st.offers,
        [st.accepts EXCEPT ![<<s, p, b>>] = reduceAcceptAmountRemaining(@, purchased, amountPaid)])

\* An accept that is paid for is removed, and so is an offer that has nothing left.
DEx_payment(st, s, b, p, amountPaid) ==
  LET accept    == DEx_getAccept(st, s, p, b)
      purchased == Purchased(accept, amountPaid)
      delivered == Deliver(st, s, b, p, purchased, amountPaid)
      closed    == DEx_acceptDestroy(delivered, b, s, p)
      soldOut   == /\ GetTokenBalance(delivered.tally, s, p, SELLOFFER_RESERVE) = 0
                   /\ GetTokenBalance(delivered.tally, s, p, ACCEPT_RESERVE) = 0
  IN  IF accept.desired = 0 THEN st
      ELSE IF purchased < accept.remaining THEN delivered
      ELSE IF soldOut THEN DEx_offerDestroy(closed, s, p) ELSE closed

-----------------------------------------------------------------------------
(* Blocks *)

\* Variants with a fault: a block late, a block early, only for open offers.
ExpiredLate(st)  == {k \in DOMAIN st.accepts : st.accepts[k].age > st.accepts[k].window}
ExpiredEarly(st) == {k \in DOMAIN st.accepts : st.accepts[k].age + 1 >= st.accepts[k].window}
ExpiredOnSale(st) ==
  {k \in DOMAIN st.accepts : /\ st.accepts[k].age >= st.accepts[k].window
                             /\ DEx_offerExists(st, k[1], k[2])}

Expired(st) == {k \in DOMAIN st.accepts : st.accepts[k].age >= st.accepts[k].window}

\* What the expired accepts of one seller and property return to a tally type.
ExpiredAmounts(st, s, p, ttype) ==
  [b \in Address |-> IF <<s, p, b>> \in Expired(st) /\ ReturnType(st, s, p, b) = ttype
                     THEN DEx_getAccept(st, s, p, b).remaining ELSE 0]

ExpiredTo(st, s, p, ttype) == Sum(ExpiredAmounts(st, s, p, ttype))

\* Variant with a fault: only what goes back on sale leaves the reserve.
ExpiryChangeOnSale(st, s, p, ttype) ==
  CASE ttype = ACCEPT_RESERVE    -> -ExpiredTo(st, s, p, SELLOFFER_RESERVE)
    [] ttype = SELLOFFER_RESERVE -> ExpiredTo(st, s, p, SELLOFFER_RESERVE)
    [] OTHER -> 0

ExpiryChange(st, s, p, ttype) ==
  CASE ttype = ACCEPT_RESERVE ->
         -(ExpiredTo(st, s, p, SELLOFFER_RESERVE) + ExpiredTo(st, s, p, BALANCE))
    [] ttype \in {SELLOFFER_RESERVE, BALANCE} -> ExpiredTo(st, s, p, ttype)
    [] OTHER -> 0

\* The loop destroys the expired accepts one by one.  None of them changes
\* the offers, which alone decide where an amount goes, so the loop comes to
\* moving the totals.
eraseExpiredAccepts(st) ==
  State([k \in TallyKey |-> st.tally[k] + ExpiryChange(st, k[1], k[2], k[3])],
        st.offers,
        Restrict(st.accepts, DOMAIN st.accepts \ Expired(st)))

\* Ages past the window are not told apart.
Older(accept) == IF accept.age <= accept.window THEN accept.age + 1 ELSE accept.age

\* The next block begins: every accept is one block older.
Aged(st) ==
  State(st.tally, st.offers,
        [k \in DOMAIN st.accepts |-> [st.accepts[k] EXCEPT !.age = Older(st.accepts[k])]])

-----------------------------------------------------------------------------
(* The handlers *)

\* A hash that nothing holds yet.
FreshTxid == Txid \ ({my_offers[k].txid : k \in DOMAIN my_offers}
                       \cup {my_accepts[k].txid : k \in DOMAIN my_accepts})

\* Before FREEDEX only the two native properties may be sold.
MayBeSold(p) == IsFeatureActivated(FEATURE_FREEDEX)
                  \/ p \in {COUNOS_PROPERTY_MSC, COUNOS_PROPERTY_TMSC}

\* logicMath_TradeOffer.  Both packet versions come to the same three cases:
\* without an offer only a new one is possible, with one only an update or a
\* cancellation.
TradeOfferNew(s, p, offered, desired, minFee, window) ==
  /\ MayBeSold(p)
  /\ ~DEx_offerExists(dex, s, p)
  /\ \E txid \in FreshTxid :
       Becomes(DEx_offerCreate(dex, s, p, offered, desired, minFee, window, txid))

TradeOfferUpdate(s, p, offered, desired, minFee, window) ==
  /\ MayBeSold(p)
  /\ DEx_offerExists(dex, s, p)
  /\ \E txid \in FreshTxid :
       Becomes(DEx_offerUpdate(dex, s, p, offered, desired, minFee, window, txid))

TradeOfferCancel(s, p) ==
  /\ MayBeSold(p)
  /\ DEx_offerExists(dex, s, p)
  /\ Becomes(DEx_offerDestroy(dex, s, p))

AcceptOffer_CCH(b, s, p, wanted, feePaid) ==
  /\ wanted > 0
  /\ Becomes(DEx_acceptCreate(dex, b, s, p, wanted, feePaid))

\* The amount that a payment computes is an int64_t.  Beyond this bound the integer
\* arithmetic of FEATURE_DEXMATH fails an assert (ConvertTo64) and the node stops.
\* The legacy double has no assert: the amount wraps and the payment goes on.  That
\* step is left out here, so the model says nothing of what follows it.
PurchaseFits(accept, amountPaid) ==
  accept.desired # 0 => calculateDExPurchase(accept.offered, accept.desired, amountPaid) \in Amount

\* One output of a transaction that HandleDExPayments looks at.
Payment(s, b, amountPaid) ==
  \E p \in AcceptFound(dex, s, b) :
    /\ PurchaseFits(DEx_getAccept(dex, s, p, b), amountPaid)
    /\ Becomes(DEx_payment(dex, s, b, p, amountPaid))

\* What mastercore_handler_block_end does to the exchange, and with it the
\* next block.
BlockEnd == Becomes(Aged(eraseExpiredAccepts(dex)))

\* The block of an activation is reached.
FeatureActivates(f) ==
  /\ ~IsFeatureActivated(f)
  /\ features' = features \cup {f}
  /\ UNCHANGED <<mp_tally, my_offers, my_accepts>>

\* A deactivation takes effect at once.
DeactivateFeature(f) ==
  /\ IsFeatureActivated(f)
  /\ features' = features \ {f}
  /\ UNCHANGED <<mp_tally, my_offers, my_accepts>>

Init ==
  /\ mp_tally   = Supply
  /\ my_offers  = <<>>
  /\ my_accepts = <<>>
  /\ features   = InitFeatures

Trade ==
  \E s \in Address, p \in Property :
    \/ TradeOfferCancel(s, p)
    \/ \E offered \in OfferAmounts, desired \in Desired, minFee \in Fees, window \in Windows :
         \/ TradeOfferNew(s, p, offered, desired, minFee, window)
         \/ TradeOfferUpdate(s, p, offered, desired, minFee, window)
    \/ \E b \in Address, wanted \in OfferAmounts, feePaid \in Fees :
         AcceptOffer_CCH(b, s, p, wanted, feePaid)

Next ==
  \/ Trade
  \/ \E s, b \in Address, amountPaid \in Payments : Payment(s, b, amountPaid)
  \/ BlockEnd
  \/ \E f \in Switchable : FeatureActivates(f) \/ DeactivateFeature(f)

Spec == Init /\ [][Next]_vars

\* The chain grows: blocks keep being connected.
FairSpec == Spec /\ WF_vars(BlockEnd)

-----------------------------------------------------------------------------
(* Properties *)

\* The state has its types; in particular no amount of the ledger is negative
\* or above the largest int64_t, so no assert around update_tally_map fails.
TypeOK ==
  /\ mp_tally \in TallyMap
  /\ DOMAIN my_offers \subseteq OfferKey
  /\ my_offers \in [DOMAIN my_offers -> CMPOffer]
  /\ DOMAIN my_accepts \subseteq AcceptKey
  /\ my_accepts \in [DOMAIN my_accepts -> CMPAccept]
  /\ features \subseteq Feature

\* What the buyers of one seller still have reserved, all of it or, with a
\* hash, only what was accepted from that offer.
Reserved(st, s, p) ==
  [b \in Address |-> IF DEx_acceptExists(st, s, p, b)
                     THEN DEx_getAccept(st, s, p, b).remaining ELSE 0]

ReservedFrom(st, s, p, txid) ==
  [b \in Address |-> IF DEx_acceptExists(st, s, p, b) /\ DEx_getAccept(st, s, p, b).txid = txid
                     THEN DEx_getAccept(st, s, p, b).remaining ELSE 0]

\* Every amount that a payment (DEx_payment) or an expiry (DEx_acceptDestroy)
\* will take out of a seller's ACCEPT_RESERVE is there, and nothing else is.
AcceptsBackedBy(st) ==
  \A s \in Address, p \in Property :
    GetTokenBalance(st.tally, s, p, ACCEPT_RESERVE) = Sum(Reserved(st, s, p))

AcceptsBacked == AcceptsBackedBy(dex)

\* Tokens in SELLOFFER_RESERVE always belong to an open offer, so that the
\* seller can get them back by cancelling (DEx_offerDestroy).
ReserveHasOffer ==
  \A s \in Address, p \in Property :
    GetTokenBalance(mp_tally, s, p, SELLOFFER_RESERVE) > 0 => DEx_offerExists(dex, s, p)

\* An offer is never oversold: what is still on sale and what is reserved for
\* accepts of this very offer do not exceed what the seller offered, although
\* accepts of an earlier offer are returned while this one is open.
OfferNotOversold ==
  \A k \in DOMAIN my_offers :
    GetTokenBalance(mp_tally, k[1], k[2], SELLOFFER_RESERVE)
        + Sum(ReservedFrom(dex, k[1], k[2], my_offers[k].txid)) <= my_offers[k].offered

\* An accept is open only while something of it is unpaid and its payment
\* window has not passed (eraseExpiredAccepts).
AcceptsLive ==
  \A k \in DOMAIN my_accepts :
    my_accepts[k].remaining > 0 /\ my_accepts[k].age <= my_accepts[k].window

\* Paying in instalments is never dearer than the offer says: with integer
\* arithmetic (calculateDExPurchase rounds up) a buyer has received at least
\* the share of the offer that corresponds to all the CCH paid so far.
InstalmentsCredited ==
  \A k \in DOMAIN my_accepts :
    LET a == my_accepts[k]
    IN  a.paid * a.offered <= (a.original - a.remaining) * a.desired

\* Whatever the seller does with the offer, an accept ends only in one of two
\* ways: the buyer has received all that was left of it, or its window is over.
AcceptEndsByPaymentOrExpiry ==
  [][\A k \in DOMAIN my_accepts \ DOMAIN my_accepts' :
       LET bought == my_accepts[k].remaining
       IN  \/ my_accepts[k].age >= my_accepts[k].window
           \/ GetTokenBalance(mp_tally', k[3], k[2], BALANCE) >= GetTokenBalance(mp_tally, k[3], k[2], BALANCE) + bought]_vars

\* Trading only moves tokens between owners, who have them.
Ledger == INSTANCE TokenLedger WITH
            Initial <- [p \in Property |-> Holdings(Supply, p)],
            holding <- [p \in Property |-> Holdings(mp_tally, p)]

\* The DEx keeps the promise of the abstract ledger: reserving, releasing and
\* expiring leave every owner's tokens as they are, and a payment hands over
\* tokens of the seller to the buyer.
LedgerSpec == Ledger!Spec

\* As long as blocks arrive no buyer can hold tokens back for ever: every
\* accept ends.
EveryAcceptEnds ==
  \A s, b \in Address, p \in Property :
    DEx_acceptExists(dex, s, p, b) ~> ~DEx_acceptExists(dex, s, p, b)

-----------------------------------------------------------------------------
(* Statements of the source that the code does not keep *)

\* "the assumption is there can only be one active offer per seller!"
\* (DEx_getTokenForSale, used once FREEDEX is active).
OneOfferPerSeller ==
  IsFeatureActivated(FEATURE_FREEDEX) =>
    \A s \in Address, p, q \in Property :
      DEx_offerExists(dex, s, p) /\ DEx_offerExists(dex, s, q) => p = q

\* "accept entries are valid until their blocklimit expiration; because the
\* customer can keep paying" (mastercore_handler_block_end): a payment to the
\* seller finds an open accept of the buyer.
AcceptCanBePaid ==
  \A k \in DOMAIN my_accepts : AcceptFound(dex, k[1], k[3]) # {}
=============================================================================
