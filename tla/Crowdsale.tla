----------------------------- MODULE Crowdsale ------------------------------
(***************************************************************************)
(* Crowdsales.  A transaction creates a property whose tokens are made as  *)
(* they are sold: whoever sends the desired tokens to the issuer while the *)
(* sale runs gets new tokens, with a bonus for being early, and the issuer *)
(* gets a percentage on top.  A sale ends when its issuer closes it, when  *)
(* a block is later than the deadline, or when the tokens are used up.     *)
(* The last two credit the issuer with what rounding has withheld.         *)
(*                                                                         *)
(* The tokens of a sale can be desired by another one, and granting        *)
(* managed tokens to an issuer is a purchase too, as long as the feature   *)
(* GRANTEFFECTS is not active (it is not, here).  Block times may go back. *)
(*                                                                         *)
(* The blocks come from peers.  An exception in a purchase then ends the   *)
(* handling of its block, in the middle of a transaction, and the node     *)
(* goes on with the next block.                                            *)
(***************************************************************************)
EXTENDS Tally, Maps, Sequences

CONSTANTS Base,        \* the properties there are before the sales
          Indivisible, \* those of them whose units are whole tokens
          manager,     \* the issuer of each managed property among them
          delegate,    \* the delegate of each managed property that has one
          Initial,     \* the ledger it starts with
          Senders,     \* the addresses that send tokens
          Issuers,     \* the addresses that create sales
          Amounts,     \* amounts sent and granted
          Terms,       \* the terms of the sales
          Times,       \* the times of blocks
          WEEK,        \* 604800 seconds
          HUNDRED,     \* 100 percent
          SATOSHI,     \* 100000000, the units of a divisible token
          MaxTxs       \* bound on the transactions that move or make tokens

\* The precision of the arithmetic, 1000000000000.
PRECISION == HUNDRED * HUNDRED * SATOSHI

\* The scaled numbers keep the relation between the two precisions that the
\* issuer's share relies on, the precision that the last purchase needs, and
\* that there can be more tokens than the arithmetic has digits for a bonus.
ASSUME CrowdsaleAssumption ==
  /\ Base \subseteq Property /\ Indivisible \subseteq Base
  /\ DOMAIN manager \subseteq Base /\ \A p \in DOMAIN manager : manager[p] \in Address
  /\ DOMAIN delegate \subseteq DOMAIN manager /\ \A p \in DOMAIN delegate : delegate[p] \in Address
  /\ Initial \in TallyMap /\ \A p \in Property : TalliedTokens(Initial, p) <= MAX_INT
  /\ \A a \in Address, p \in Property \ Base, t \in TallyType : Initial[<<a, p, t>>] = 0
  /\ Senders \subseteq Address /\ Issuers \subseteq Address
  /\ Amounts \subseteq Nat \ {0}
  /\ Terms \subseteq [num_tokens : 1..MAX_INT, early_bird : Nat, percentage : Nat,
                      deadline : Nat \ {0}, divisible : BOOLEAN, property_desired : Property]
  /\ Times \subseteq Nat
  /\ WEEK \in Nat \ {0} /\ HUNDRED \in Nat \ {0} /\ SATOSHI \in Nat \ {0}
  /\ PRECISION < MAX_INT /\ PRECISION * SATOSHI > 10 * MAX_INT
  /\ MaxTxs \in Nat

VARIABLES mp_tally,   \* the token ledger
          sps,        \* pDbSpInfo: the properties created by sales
          my_crowds,  \* the sale of every issuer that runs one
          notified,   \* total tokens of a property that the fee thresholds are based on
          blockTime,  \* the time of the block the transactions are in
          unwound,    \* whether an exception has ended the handling of this block
          untold,     \* history: properties that a transaction has granted which an exception
                      \*   ended, and of which the thresholds have not been told since
          txs         \* transactions that moved or made tokens so far

vars == <<mp_tally, sps, my_crowds, notified, blockTime, unwound, untold, txs>>

Exists(p) == p \in Base \cup DOMAIN sps

\* No fees are cached here, so all the tokens are in the ledger.
getTotalTokens(tally, p) == TalliedTokens(tally, p)

isPropertyDivisible(p) == IF p \in Base THEN p \notin Indivisible ELSE sps[p].divisible

Total(database, part) == Sum([i \in DOMAIN database |-> database[i][part]])

Least(a, b) == IF a <= b THEN a ELSE b

Init ==
  /\ mp_tally = Initial
  /\ sps = EmptyMap
  /\ my_crowds = EmptyMap
  /\ notified = [p \in Property |-> getTotalTokens(Initial, p)]
  /\ blockTime \in Times
  /\ unwound = FALSE
  /\ untold = {}
  /\ txs = 0

Tx == ~unwound /\ txs < MaxTxs /\ txs' = txs + 1

---------------------------------------------------------------------------
(* What a purchase creates *)

\* Variant with a fault: a part of a week counts as a whole one.
StartedWeeks(deadline, now) ==
  IF now < deadline THEN ((deadline - now + WEEK - 1) \div WEEK) * PRECISION ELSE 0

\* The weeks before the deadline, with the precision of the arithmetic.
BonusWeeks(deadline, now) ==
  LET bonusSeconds == IF now < deadline THEN deadline - now ELSE 0
  IN  (bonusSeconds \div WEEK) * PRECISION + ((bonusSeconds % WEEK) * PRECISION) \div WEEK

\* The tokens of a purchase before the maximum is considered.
FullPurchase(sp, inflateAmount, amount, now) ==
  LET bonusPercentage  == (PRECISION * HUNDRED + BonusWeeks(sp.deadline, now) * sp.early_bird) \div HUNDRED
      issuerPercentage == (sp.percentage * PRECISION) \div HUNDRED
      createdTokens    == amount * (IF inflateAmount THEN SATOSHI ELSE 1) * sp.num_tokens * bonusPercentage
      issuerTokens     == ((createdTokens \div SATOSHI) \div PRECISION)
                            * (issuerPercentage \div HUNDRED) * PRECISION
  IN  [user   |-> (createdTokens \div PRECISION) \div SATOSHI,
       issuer |-> ((issuerTokens \div PRECISION) \div SATOSHI) \div HUNDRED]

\* Variants with a fault: only the issuer's part is reduced, and both parts are
\* rounded.
ShareOfIssuer(full, maxCreatable) ==
  LET ratio == ((full.user + full.issuer) * PRECISION * SATOSHI) \div maxCreatable
  IN  [user |-> full.user, issuer |-> (full.issuer * PRECISION * SATOSHI) \div ratio]

ShareRounded(full, maxCreatable) ==
  LET ratio == ((full.user + full.issuer) * PRECISION * SATOSHI) \div maxCreatable
  IN  [user   |-> (full.user * PRECISION * SATOSHI) \div ratio,
       issuer |-> (full.issuer * PRECISION * SATOSHI) \div ratio]

\* What is left is divided between user and issuer in proportion.
Share(full, maxCreatable) ==
  LET ratio  == ((full.user + full.issuer) * PRECISION * SATOSHI) \div maxCreatable
      issuer == (full.issuer * PRECISION * SATOSHI) \div ratio
  IN  [user |-> maxCreatable - issuer, issuer |-> issuer]

\* Whether a purchase asks for more than there can be, and whether the
\* division by what is left then throws.
Exceeds(full, totalTokens) == totalTokens + full.user + full.issuer > MAX_INT

Throws(full, totalTokens) == Exceeds(full, totalTokens) /\ totalTokens = MAX_INT

calculateFundraiser(full, totalTokens) ==
  IF Exceeds(full, totalTokens) THEN Share(full, MAX_INT - totalTokens) ELSE full

\* Variant with a fault: what the issuer already has is not subtracted.
FullIssuerBonus(sp, crowd) ==
  Least((crowd.u_created * sp.percentage) \div HUNDRED, MAX_INT - (crowd.u_created + crowd.i_created))

\* What rounding withheld from the issuer, as far as there is room for it.
GetMissedIssuerBonus(sp, crowd) ==
  LET exactBonus == (crowd.u_created * sp.percentage) \div HUNDRED
  IN  IF exactBonus <= crowd.i_created THEN 0
      ELSE Least(exactBonus - crowd.i_created, MAX_INT - (crowd.u_created + crowd.i_created))

---------------------------------------------------------------------------
(* Transactions and blocks *)

\* The data of a sale that is over is kept with the property.
Closed(sp, crowd, how, missed) ==
  [sp EXCEPT !.historicalData = crowd.database, !.closed = how, !.missedTokens = missed]

\* The state that transactions change, as a value.
Now == [tally |-> mp_tally, sps |-> sps, crowds |-> my_crowds, notified |-> notified,
        untold |-> untold, unwound |-> FALSE]

Becomes(s) ==
  /\ mp_tally' = s.tally
  /\ sps' = s.sps
  /\ my_crowds' = s.crowds
  /\ notified' = s.notified
  /\ untold' = s.untold
  /\ unwound' = s.unwound

\* Variant with a fault: the thresholds do not learn of new tokens.
NotifyNobody(s, p) == s

NotifyTotalTokensChanged(s, p) ==
  [s EXCEPT !.notified = With(s.notified, p, getTotalTokens(s.tally, p)),
            !.untold = s.untold \ {p}]

eraseMaxedCrowdsale(s, a) ==
  LET p == s.crowds[a].propertyId
  IN  [s EXCEPT !.sps = With(s.sps, p, Closed(s.sps[p], s.crowds[a], "maxed", 0)),
                !.crowds = Without(s.crowds, a)]

\* Variant with a fault: the issuer's tokens are not counted.
CountUserOnly(crowd, amount, tokens) ==
  [crowd EXCEPT !.u_created = @ + tokens.user,
                !.database = Append(@, [amount |-> amount, time |-> blockTime,
                                        user |-> tokens.user, issuer |-> tokens.issuer])]

\* The sale counts the tokens of a purchase and keeps its data.
Count(crowd, amount, tokens) ==
  [crowd EXCEPT !.u_created = @ + tokens.user,
                !.i_created = @ + tokens.issuer,
                !.database = Append(@, [amount |-> amount, time |-> blockTime,
                                        user |-> tokens.user, issuer |-> tokens.issuer])]

\* The tokens of a purchase are counted and credited to the two.
Credit(s, p, sender, receiver, amount, tokens) ==
  [s EXCEPT !.crowds = With(s.crowds, receiver, Count(s.crowds[receiver], amount, tokens)),
            !.tally = update_tally_map(update_tally_map(s.tally, sender, p, tokens.user, BALANCE),
                                       receiver, p, tokens.issuer, BALANCE)]

\* After a transfer of the property to the receiver: a purchase, if the
\* receiver runs a sale that desires it.  Where the division throws nothing is
\* bought, and nothing that follows in this block is done.
logicHelper_CrowdsaleParticipation(s, sender, receiver, property, amount) ==
  IF receiver \notin DOMAIN s.crowds \/ s.crowds[receiver].property_desired # property THEN s
  ELSE LET p     == s.crowds[receiver].propertyId
           full  == FullPurchase(s.sps[p], ~isPropertyDivisible(property), amount, blockTime)
           total == getTotalTokens(s.tally, p)
           bought == NotifyTotalTokensChanged(
                       Credit(s, p, sender, receiver, amount, calculateFundraiser(full, total)), p)
       IN  IF Throws(full, total) THEN [s EXCEPT !.unwound = TRUE]
           ELSE IF Exceeds(full, total) THEN eraseMaxedCrowdsale(bought, receiver) ELSE bought

logicMath_SimpleSend(sender, receiver, property, amount) ==
  /\ Tx
  /\ Exists(property)
  /\ GetTokenBalance(mp_tally, sender, property, BALANCE) >= amount
  /\ Becomes(logicHelper_CrowdsaleParticipation(
               [Now EXCEPT !.tally = Move(mp_tally, sender, BALANCE, receiver, BALANCE, property, amount)],
               sender, receiver, property, amount))
  /\ UNCHANGED blockTime

\* The delegate may grant, and the issuer only where there is none.
MayGrant(sender, property) ==
  IF property \in DOMAIN delegate THEN sender = delegate[property] ELSE sender = manager[property]

\* The thresholds are told at the end, unless an exception ends it before.
logicMath_GrantTokens(sender, receiver, property, amount) ==
  /\ Tx
  /\ property \in DOMAIN manager /\ MayGrant(sender, property)
  /\ amount <= MAX_INT - getTotalTokens(mp_tally, property)
  /\ LET granted == [Now EXCEPT !.tally = update_tally_map(mp_tally, receiver, property, amount, BALANCE)]
         bought  == logicHelper_CrowdsaleParticipation(granted, sender, receiver, property, amount)
     IN  Becomes(IF bought.unwound THEN [bought EXCEPT !.untold = bought.untold \cup {property}]
                 ELSE NotifyTotalTokensChanged(bought, property))
  /\ UNCHANGED blockTime

\* A new property gets the next identifier.
IsNextSPID(p) == p \in Property \ (Base \cup DOMAIN sps)
                 /\ \A q \in Property \ (Base \cup DOMAIN sps) : p <= q

logicMath_CreatePropertyVariable(sender, terms, p) ==
  /\ ~unwound
  /\ IsNextSPID(p)
  /\ Exists(terms.property_desired)
  /\ terms.deadline >= blockTime
  /\ sender \notin DOMAIN my_crowds
  /\ sps' = With(sps, p,
                 [issuer |-> sender, num_tokens |-> terms.num_tokens, early_bird |-> terms.early_bird,
                  percentage |-> terms.percentage, deadline |-> terms.deadline,
                  divisible |-> terms.divisible, property_desired |-> terms.property_desired,
                  historicalData |-> <<>>, closed |-> "no", missedTokens |-> 0])
  /\ my_crowds' = With(my_crowds, sender,
                       [propertyId |-> p, property_desired |-> terms.property_desired,
                        deadline |-> terms.deadline, u_created |-> 0, i_created |-> 0, database |-> <<>>])
  /\ UNCHANGED <<mp_tally, notified, blockTime, unwound, untold, txs>>

\* The state after the sales of some issuers are over and their issuers have
\* been credited with the tokens missed.
EndSales(issuers, how) ==
  LET Missed(a) == GetMissedIssuerBonus(sps[my_crowds[a].propertyId], my_crowds[a])
      Of(p)     == {a \in issuers : my_crowds[a].propertyId = p}
      Credited(k) == {a \in Of(k[2]) : k = <<sps[k[2]].issuer, k[2], BALANCE>>}
  IN  /\ mp_tally' = [k \in TallyKey |-> mp_tally[k] + Sum([a \in Credited(k) |-> Missed(a)])]
      /\ sps' = [p \in DOMAIN sps |->
                   IF Of(p) = {} THEN sps[p]
                   ELSE LET a == CHOOSE x \in Of(p) : TRUE
                        IN  Closed(sps[p], my_crowds[a], how, Missed(a))]
      /\ my_crowds' = Restrict(my_crowds, DOMAIN my_crowds \ issuers)

logicMath_CloseCrowdsale(sender, property) ==
  /\ ~unwound
  /\ sender \in DOMAIN my_crowds
  /\ my_crowds[sender].propertyId = property
  /\ EndSales({sender}, "closed")
  /\ UNCHANGED <<notified, blockTime, unwound, untold, txs>>

\* Variant with a fault: an issuer may hand on the property of a running sale.
ChangeIssuerAnytime(sender, receiver, property) ==
  /\ ~unwound
  /\ property \in DOMAIN sps
  /\ sender = sps[property].issuer
  /\ receiver \notin DOMAIN my_crowds
  /\ sps' = [sps EXCEPT ![property].issuer = receiver]
  /\ UNCHANGED <<mp_tally, my_crowds, notified, blockTime, unwound, untold, txs>>

logicMath_ChangeIssuer(sender, receiver, property) ==
  /\ ~unwound
  /\ property \in DOMAIN sps
  /\ sender = sps[property].issuer
  /\ sender \notin DOMAIN my_crowds
  /\ receiver \notin DOMAIN my_crowds
  /\ sps' = [sps EXCEPT ![property].issuer = receiver]
  /\ UNCHANGED <<mp_tally, my_crowds, notified, blockTime, unwound, untold, txs>>

\* Variants with a fault: a sale lasts a moment too long, and one whose issuer
\* misses nothing is not ended.
ExpiredLate(time) == {a \in DOMAIN my_crowds : time > my_crowds[a].deadline + 1}

ExpiredAndMissing(time) ==
  {a \in DOMAIN my_crowds :
     /\ time > my_crowds[a].deadline
     /\ GetMissedIssuerBonus(sps[my_crowds[a].propertyId], my_crowds[a]) > 0}

Expired(time) == {a \in DOMAIN my_crowds : time > my_crowds[a].deadline}

\* eraseExpiredCrowdsale, at the beginning of a block.
eraseExpiredCrowdsale(time) ==
  /\ blockTime' = time
  /\ EndSales(Expired(time), "expired")
  /\ unwound' = FALSE
  /\ UNCHANGED <<notified, untold, txs>>

Next ==
  \/ \E s \in Senders, r \in Address, p \in Property, n \in Amounts : logicMath_SimpleSend(s, r, p, n)
  \/ \E s \in Senders, r \in Address, p \in Property, n \in Amounts : logicMath_GrantTokens(s, r, p, n)
  \/ \E s \in Issuers, t \in Terms, p \in Property : logicMath_CreatePropertyVariable(s, t, p)
  \/ \E s \in Issuers, p \in Property : logicMath_CloseCrowdsale(s, p)
  \/ \E s, r \in Issuers, p \in Property : logicMath_ChangeIssuer(s, r, p)
  \/ \E t \in Times : eraseExpiredCrowdsale(t)

Spec == Init /\ [][Next]_vars

\* Blocks keep coming, and their time passes every deadline.
LastTime == CHOOSE t \in Times : \A u \in Times : u <= t

FairSpec == Spec /\ WF_vars(eraseExpiredCrowdsale(LastTime))

---------------------------------------------------------------------------
(* Properties *)

\* The sale that a property is sold by, and the data of its purchases.
SellerOf(p) == {a \in DOMAIN my_crowds : my_crowds[a].propertyId = p}

Purchases(p) ==
  IF SellerOf(p) = {} THEN sps[p].historicalData
  ELSE my_crowds[CHOOSE a \in SellerOf(p) : TRUE].database

Data == [amount : Amounts, time : Times, user : Amount, issuer : Amount]

Sale == [propertyId : Property \ Base, property_desired : Property, deadline : Nat,
         u_created : Amount, i_created : Amount, database : Seq(Data)]

SPEntry == [issuer : Address, num_tokens : 1..MAX_INT, early_bird : Nat, percentage : Nat,
            deadline : Nat, divisible : BOOLEAN, property_desired : Property,
            historicalData : Seq(Data), closed : {"no", "closed", "expired", "maxed"},
            missedTokens : Amount]

\* Types.  No call of update_tally_map fails, and no property ever has more
\* than MAX_INT tokens, whatever is bought, granted and credited in the end.
TypeOK ==
  /\ mp_tally \in TallyMap
  /\ \A p \in Property : getTotalTokens(mp_tally, p) <= MAX_INT
  /\ DOMAIN sps \subseteq Property \ Base
  /\ \A p \in DOMAIN sps : sps[p] \in SPEntry
  /\ DOMAIN my_crowds \subseteq Issuers
  /\ \A a \in DOMAIN my_crowds : my_crowds[a] \in Sale
  /\ notified \in [Property -> Amount]
  /\ blockTime \in Times
  /\ unwound \in BOOLEAN /\ untold \subseteq DOMAIN manager
  /\ txs \in 0..MaxTxs

\* The consistency check of GetMissedIssuerBonus never fails: a running sale
\* has counted all the tokens there are of its property, wherever sends, other
\* sales and grants have moved them, and so has the data kept afterwards,
\* together with the tokens that were missed.
SaleCountsTokens ==
  /\ \A a \in DOMAIN my_crowds :
       getTotalTokens(mp_tally, my_crowds[a].propertyId) = my_crowds[a].u_created + my_crowds[a].i_created
  /\ \A p \in DOMAIN sps :
       getTotalTokens(mp_tally, p)
         = Total(Purchases(p), "user") + Total(Purchases(p), "issuer") + sps[p].missedTokens

\* The address under which a sale runs is the issuer of its property: purchases
\* credit the former and the end of the sale the latter (ChangeIssuer, and
\* sp.issuer in eraseExpiredCrowdsale and CloseCrowdsale).  No property is sold
\* by two sales.
SaleBelongsToIssuer ==
  /\ \A a \in DOMAIN my_crowds :
       /\ my_crowds[a].propertyId \in DOMAIN sps
       /\ sps[my_crowds[a].propertyId].issuer = a
       /\ sps[my_crowds[a].propertyId].closed = "no"
  /\ \A a, b \in DOMAIN my_crowds : my_crowds[a].propertyId = my_crowds[b].propertyId => a = b

\* No transaction finds a sale whose deadline has passed, and no purchase was
\* made after it, although block times go back and forth.
NoSaleAfterDeadline ==
  /\ \A a \in DOMAIN my_crowds : blockTime <= my_crowds[a].deadline
  /\ \A p \in DOMAIN sps : \A i \in DOMAIN Purchases(p) : Purchases(p)[i].time <= sps[p].deadline

\* Once a sale has ended the issuer has the percentage of all that was sold,
\* rounded once, as far as there was room for it: "Due to rounding effects, a
\* crowdsale issuer may not receive the full bonus immediately" (sp.cpp).
IssuerGetsBonus ==
  \A p \in DOMAIN sps :
    sps[p].closed \in {"closed", "expired"} =>
      LET user == Total(sps[p].historicalData, "user")
      IN  Total(sps[p].historicalData, "issuer") + sps[p].missedTokens
            = Least((user * sps[p].percentage) \div HUNDRED, MAX_INT - user)

\* A sale that was closed for want of tokens has sold every one of them:
\* "Close the crowdsale after assigning all tokens" (calculateFundraiser).
MaxedSaleIsSoldOut ==
  \A p \in DOMAIN sps : sps[p].closed = "maxed" => getTotalTokens(mp_tally, p) = MAX_INT

\* What the purchase pays for with exact arithmetic.
Worth(sp, e) ==
  LET units == e.amount * (IF isPropertyDivisible(sp.property_desired) THEN 1 ELSE SATOSHI)
  IN  (units * sp.num_tokens * (HUNDRED * WEEK + (sp.deadline - e.time) * sp.early_bird))
        \div (SATOSHI * HUNDRED * WEEK)

\* What rounding the weeks and the percentage to the precision may cost: one
\* part in PRECISION of the price for each, and the rest of a unit.
RoundingLoss(sp, e) ==
  LET units == e.amount * (IF isPropertyDivisible(sp.property_desired) THEN 1 ELSE SATOSHI)
  IN  (units * sp.num_tokens * (sp.early_bird + HUNDRED)) \div (SATOSHI * HUNDRED * PRECISION) + 1

\* No purchase gets more than it pays for, nor less than rounding explains, and
\* the issuer gets the percentage of that, rounded once; only the purchase that
\* uses up the tokens may get less (calculateFundraiser).
PurchasesAreFair ==
  \A p \in DOMAIN sps : \A i \in DOMAIN Purchases(p) :
    LET sp   == sps[p]
        e    == Purchases(p)[i]
        last == sp.closed = "maxed" /\ i = Len(Purchases(p))
    IN  /\ e.user <= Worth(sp, e)
        /\ last \/ /\ e.user >= Worth(sp, e) - RoundingLoss(sp, e)
                   /\ e.issuer = (e.user * sp.percentage) \div HUNDRED

\* The fee thresholds are based on the tokens there are, but for those that the
\* end of a sale credits, since it does not call NotifyTotalTokensChanged, and
\* but for a property granted in a transaction that an exception ended before
\* that call: they are behind until the next grant.
ThresholdsKnowSales ==
  \A p \in Property :
    LET announced == getTotalTokens(mp_tally, p) - (IF p \in DOMAIN sps THEN sps[p].missedTokens ELSE 0)
    IN  IF p \in untold THEN notified[p] < announced ELSE notified[p] = announced

\* Every sale ends: eraseExpiredCrowdsale finds it when its deadline has passed,
\* whether or not anything was bought, also after a block that an exception has
\* cut short.
EverySaleEnds ==
  \A p \in Property \ Base : SellerOf(p) # {} ~> SellerOf(p) = {}
=============================================================================
