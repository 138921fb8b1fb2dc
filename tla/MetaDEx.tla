------------------------------ MODULE MetaDEx -------------------------------
(***************************************************************************)
(* The exchange of tokens against tokens (mdex.cpp, the handlers of tx.cpp *)
(* that call it and the records of trades in dbtradelist.cpp).  A new      *)
(* order is matched against the book, best price first and oldest order    *)
(* first at the same price; the rest goes into the book, and its tokens    *)
(* into the reserve.  A fee is taken from the buyer for pairs without the  *)
(* fee token.  Each handler runs under cs_tally and is one step.           *)
(*                                                                         *)
(* Orders are numbered in the order of their transactions, which stands    *)
(* for both the place in the chain and the hash.  Prices are compared by   *)
(* cross multiplication.  All properties are in the main ecosystem.        *)
(***************************************************************************)
EXTENDS Fees, Sequences

CONSTANTS Supply,                  \* tally map at the start
          distributionThresholds,  \* of the fee cache; trades keep the totals
          FeeDivider,              \* part of a purchase that is the fee
          InitFeatures,            \* features active at the start
          Switchable,              \* features that may be switched
          Pairs,                   \* pairs of properties that are traded
          Terms,                   \* for each, pairs of amounts for sale and desired
          Reorgs,                  \* whether blocks may be disconnected
          MaxOrders, MaxSwitches, MaxBlocks  \* bounds

COUNOS_PROPERTY_TMSC == 2

FEATURE_METADEX       == "metadex"
FEATURE_TRADEALLPAIRS == "allpairs"
FEATURE_FEES          == "fees"

Feature == {FEATURE_METADEX, FEATURE_TRADEALLPAIRS, FEATURE_FEES}

\* At the start no order reserves tokens.  No property has more tokens than an
\* amount can be, which its issuance checks, and the fee token has an owner.
ASSUME MetaDExAssumption ==
  /\ Supply \in TallyMap
  /\ \A a \in Address, p \in Property : GetTokenBalance(Supply, a, p, METADEX_RESERVE) = 0
  /\ \A p \in Property : TalliedTokens(Supply, p) <= MAX_INT
  /\ TalliedTokens(Supply, COUNOS_PROPERTY_MSC) > 0
  /\ COUNOS_PROPERTY_MSC <= COUNOS_PROPERTY_TMSC
  /\ distributionThresholds \in [Property -> Nat]
  /\ FeeDivider \in Nat \ {0, 1}
  /\ InitFeatures \subseteq Feature /\ Switchable \subseteq Feature
  /\ Pairs \subseteq Property \X Property
  /\ Terms \in [Pairs -> SUBSET ((Nat \ {0}) \X (Nat \ {0}))]
  /\ Reorgs \in BOOLEAN
  /\ MaxOrders \in Nat /\ MaxSwitches \in Nat /\ MaxBlocks \in Nat

VARIABLES mp_tally,    \* the token ledger
          metadex,     \* the order book: number -> order
          feecache,    \* the fee cache of every property
          features,    \* the features that are active
          trades,      \* MP_tradelist: number -> order, as it was placed
          matches,     \* MP_tradelist: numbers of the older and newer order -> amounts
          cancelled,   \* history: number -> amount that was given back
          stateFiles,  \* ledgers and books saved at the blocks of the chain
          now,         \* number of the last order
          switches,    \* number of switches of features so far
          looping,     \* whether the node is caught in an endless loop
          reorged,     \* history: whether a block was disconnected
          reopened,    \* history: whether one with a switch of features was
          emptied      \* history: properties whose cache a rollback has emptied

past == <<reorged, reopened, emptied>>

vars == <<mp_tally, metadex, feecache, features, trades, matches, cancelled, stateFiles, now, switches, looping,
          past>>

block == Len(stateFiles)

IsFeatureActivated(f) == f \in features

AllPair(o) == o.property > COUNOS_PROPERTY_TMSC /\ o.desired_property > COUNOS_PROPERTY_TMSC

-----------------------------------------------------------------------------
(* Matching *)

\* Whether the unit price of x is not above, or is the same as, that of y.
PriceAtMost(x, y) == x.amount_desired * y.amount_forsale <= y.amount_desired * x.amount_forsale
SamePrice(x, y)   == x.amount_desired * y.amount_forsale = y.amount_desired * x.amount_forsale

\* md_PricesMap and MetaDEx_compare: by price, then by age.
Before(book, s, t) ==
  IF SamePrice(book[s], book[t]) THEN s < t ELSE PriceAtMost(book[s], book[t])

\* Variant with a fault: the same price does not match.
PriceBelow(new, old) == old.amount_desired * new.amount_desired < new.amount_forsale * old.amount_forsale

\* The unit price of the old order is not above the inverse price of the new one.
PriceSatisfied(new, old) == old.amount_desired * new.amount_desired <= new.amount_forsale * old.amount_forsale

\* Variant with a fault: more than the old order has left.
CouldBuyUnlimited(new, old) == (new.amount_remaining * old.amount_forsale) \div old.amount_desired

\* What the new order can buy from the old one, rounded down.
CouldBuy(new, old) ==
  LET could == (new.amount_remaining * old.amount_forsale) \div old.amount_desired
  IN  IF could < old.amount_remaining THEN could ELSE old.amount_remaining

\* Variant with a fault: the price is rounded down.
WouldPayLess(old, n) == (n * old.amount_desired) \div old.amount_forsale

\* What it would pay for n tokens, rounded up.
WouldPay(old, n) == DivideAndRoundUp(n * old.amount_desired, old.amount_forsale)

\* The effective price is not above the inverse price of the new order.
Affordable(new, pay, n) == pay * new.amount_desired <= n * new.amount_forsale

FeeApplies(o) == IsFeatureActivated(FEATURE_FEES) /\ AllPair(o)

\* Variant with a fault: the fee is cached but not taken from the buyer.
AfterFeeInFull(got, fee) == got

AfterFee(got, fee) == got - fee

FeeOf(o, got) == IF FeeApplies(o) THEN got \div FeeDivider ELSE 0

\* The fee is cached, and perhaps distributed, before any token moves.
CacheFee(tally, history, o, got) ==
  IF FeeApplies(o)
  THEN AddFee(tally, history, o.property, distributionThresholds[o.property], block, FeeOf(o, got))
  ELSE [tally |-> tally, history |-> history]

\* The new order pays the old one, which gives from its reserve.
Settle(tally, new, old, pay, got) ==
  LET paid  == Move(tally, new.addr, BALANCE, old.addr, BALANCE, new.property, pay)
      taken == update_tally_map(paid, old.addr, old.property, -got, METADEX_RESERVE)
  IN  update_tally_map(taken, new.addr, old.property, AfterFee(got, FeeOf(old, got)), BALANCE)

\* setAmountRemaining after a trade of n tokens.
Reduce(o, n) == [o EXCEPT !.amount_remaining = @ - n]

\* An order of which something is left stays in its place.
Fill(book, t, got) ==
  IF book[t].amount_remaining > got
  THEN With(book, t, Reduce(book[t], got))
  ELSE Without(book, t)

\* One trade of the new order with the old order t of the book.
Execute(st, t) ==
  LET old == st.book[t]
      got == CouldBuy(st.new, old)
      pay == WouldPay(old, got)
      fee == FeeOf(old, got)
      cached == CacheFee(st.tally, st.cache[old.property], old, got)
  IN  [st EXCEPT !.tally   = Settle(cached.tally, st.new, old, pay, got),
                 !.cache   = [@ EXCEPT ![old.property] = cached.history],
                 !.book    = Fill(@, t, got),
                 !.new     = Reduce(@, pay),
                 !.matches = With(@, <<t, st.number>>,
                                  [amount1 |-> pay, amount2 |-> AfterFee(got, fee), fee |-> fee])]

\* Whether the new order can trade with the order t.
CanTrade(st, t) ==
  LET got == CouldBuy(st.new, st.book[t])
  IN  /\ st.new.amount_remaining > 0
      /\ got > 0
      /\ Affordable(st.new, WouldPay(st.book[t], got), got)

\* The order that is visited first.
First(book, todo) == CHOOSE t \in todo : \A u \in todo \ {t} : Before(book, t, u)

\* The loop body of x_Trade: takes the next order, and trades with it if it can.
Visit(st) ==
  LET t    == First(st.book, st.todo)
      rest == [st EXCEPT !.todo = @ \ {t}]
  IN  IF CanTrade(st, t) THEN Execute(rest, t) ELSE rest

\* The orders that sell what the new order desires for what it sells, at a
\* price that is good enough.
Candidates(book, new) == {t \in DOMAIN book : /\ book[t].property = new.desired_property
                                              /\ book[t].desired_property = new.property
                                              /\ PriceSatisfied(new, book[t])}

\* The state of the loop after 0, 1, ..., n of its iterations.
Iterations(start, n) ==
  LET st[i \in 0..n] == IF i = 0 THEN start ELSE Visit(st[i - 1])
  IN  st

x_Trade(new, number) ==
  LET todo == Candidates(metadex, new)
      n    == Cardinality(todo)
  IN  Iterations([tally |-> mp_tally, book |-> metadex, cache |-> feecache, matches |-> matches,
                  number |-> number, new |-> new, todo |-> todo], n)[n]

-----------------------------------------------------------------------------
(* Handlers *)

IsTransactionTypeAllowed == IsFeatureActivated(FEATURE_METADEX)

Order(a, p, q, forsale, desired) ==
  [addr |-> a, property |-> p, desired_property |-> q, amount_forsale |-> forsale,
   amount_desired |-> desired, amount_remaining |-> forsale]

\* MetaDEx_ADD: trades, then puts what is left into the book and the reserve.
MetaDEx_ADD(new, number) ==
  LET st   == x_Trade(new, number)
      left == st.new.amount_remaining
  IN  /\ metadex' = IF left > 0 THEN With(st.book, number, st.new) ELSE st.book
      /\ mp_tally' = Move(st.tally, new.addr, BALANCE, new.addr, METADEX_RESERVE, new.property, left)
      /\ feecache' = st.cache
      /\ matches' = st.matches

logicMath_MetaDExTrade(a, p, q, forsale, desired) ==
  LET new == Order(a, p, q, forsale, desired)
  IN  /\ IsTransactionTypeAllowed
      /\ p # q
      /\ AllPair(new) => IsFeatureActivated(FEATURE_TRADEALLPAIRS)
      /\ GetTokenBalance(mp_tally, a, p, BALANCE) >= forsale
      /\ now < MaxOrders
      /\ now' = now + 1
      /\ trades' = With(trades, now', [order |-> new, block |-> block])
      /\ MetaDEx_ADD(new, now')
      /\ UNCHANGED <<features, cancelled, stateFiles, switches, looping, past>>

\* Variant with a fault: what was placed is given back, not what is left.
GivenBackInFull(o) == o.amount_forsale

GivenBack(o) == o.amount_remaining

\* Removes orders from the book and their tokens from the reserve.
Remove(numbers) ==
  LET Back(a, p) == Sum([t \in {u \in numbers : metadex[u].addr = a /\ metadex[u].property = p}
                           |-> GivenBack(metadex[t])])
  IN  /\ mp_tally' = [k \in TallyKey |-> mp_tally[k] + CASE k[3] = BALANCE -> Back(k[1], k[2])
                                                      [] k[3] = METADEX_RESERVE -> -Back(k[1], k[2])
                                                      [] OTHER -> 0]
      /\ metadex' = Restrict(metadex, DOMAIN metadex \ numbers)
      /\ cancelled' = [t \in DOMAIN cancelled \cup numbers |->
                        IF t \in numbers THEN metadex[t].amount_remaining ELSE cancelled[t]]

OrdersOf(a) == {t \in DOMAIN metadex : metadex[t].addr = a}

OrdersOfPair(a, p, q) ==
  {t \in OrdersOf(a) : metadex[t].property = p /\ metadex[t].desired_property = q}

Cancel(numbers) ==
  /\ IsTransactionTypeAllowed
  /\ numbers # {}
  /\ Remove(numbers)
  /\ UNCHANGED <<feecache, features, trades, matches, stateFiles, now, switches, looping, past>>

logicMath_MetaDExCancelPrice(a, p, q, forsale, desired) ==
  Cancel({t \in OrdersOfPair(a, p, q) : SamePrice(metadex[t], Order(a, p, q, forsale, desired))})

logicMath_MetaDExCancelPair(a, p, q) == Cancel(OrdersOfPair(a, p, q))

logicMath_MetaDExCancelEcosystem(a) == Cancel(OrdersOf(a))

Switch == switches < MaxSwitches /\ switches' = switches + 1

\* A feature becomes active at its activation block.
FeatureActivates(f) ==
  /\ ~IsFeatureActivated(f)
  /\ Switch
  /\ features' = features \cup {f}
  /\ UNCHANGED <<mp_tally, metadex, feecache, trades, matches, cancelled, stateFiles, now, looping, past>>

\* MetaDEx_SHUTDOWN_ALLPAIR does not step over an order that it keeps.
LoopEnds(f) == f = FEATURE_TRADEALLPAIRS => \A t \in DOMAIN metadex : AllPair(metadex[t])

\* Variant with a fault: the shutdown of the whole MetaDEx is forgotten.
ClosedForPairs(f) == IF f = FEATURE_TRADEALLPAIRS THEN DOMAIN metadex ELSE {}

\* The orders that a deactivation removes.
Closed(f) == IF f \in {FEATURE_METADEX, FEATURE_TRADEALLPAIRS} THEN DOMAIN metadex ELSE {}

logicMath_Deactivation(f) ==
  /\ IsFeatureActivated(f)
  /\ Switch
  /\ features' = features \ {f}
  /\ looping' = ~LoopEnds(f)
  /\ Remove(IF LoopEnds(f) THEN Closed(f) ELSE {})
  /\ UNCHANGED <<feecache, trades, matches, stateFiles, now, past>>

-----------------------------------------------------------------------------
(* Blocks *)

Saved == [tally |-> mp_tally, book |-> metadex, cancelled |-> cancelled, features |-> features]

BlockEnd ==
  /\ block < MaxBlocks
  /\ stateFiles' = Append(stateFiles, Saved)
  /\ UNCHANGED <<mp_tally, metadex, feecache, features, trades, matches, cancelled, now, switches, looping, past>>

\* deleteAboveBlock of the trade list.  The block of a match is never read, as
\* its value has eight parts and not seven; the comparison uses the block of
\* the record before, which is that of the older order or another of its
\* matches.
MatchesBelow(next) == Restrict(matches, {k \in DOMAIN matches : trades[k[1]].block < next})

\* No transaction of the current block has changed anything yet.
BetweenBlocks ==
  /\ mp_tally = stateFiles[block].tally /\ metadex = stateFiles[block].book
  /\ \A t \in DOMAIN trades : trades[t].block < block

\* The blocks from "next" on are disconnected.  The ledger and the book are
\* those of the file; a switch of features stays as it is in memory.
RewindDBsAndState(next) ==
  /\ Reorgs
  /\ BetweenBlocks
  /\ block - next \in 1..MAX_STATE_HISTORY
  /\ mp_tally' = stateFiles[next].tally
  /\ metadex' = stateFiles[next].book
  /\ cancelled' = stateFiles[next].cancelled
  /\ stateFiles' = SubSeq(stateFiles, 1, next)
  /\ feecache' = [p \in Property |-> RollBackCache(feecache[p], next)]
  /\ trades' = Restrict(trades, {t \in DOMAIN trades : trades[t].block < next})
  /\ matches' = MatchesBelow(next)
  /\ reorged' = TRUE
  /\ reopened' = (reopened \/ stateFiles[next].features # features)
  /\ emptied' = emptied \cup {p \in Property : feecache[p] # EmptyMap /\ feecache'[p] = EmptyMap}
  /\ UNCHANGED <<features, now, switches, looping>>

Init ==
  /\ mp_tally = Supply
  /\ metadex = EmptyMap
  /\ feecache = [p \in Property |-> EmptyMap]
  /\ features = InitFeatures
  /\ trades = EmptyMap /\ matches = EmptyMap /\ cancelled = EmptyMap
  /\ stateFiles = <<Saved>>
  /\ now = 0 /\ switches = 0
  /\ looping = FALSE
  /\ reorged = FALSE /\ reopened = FALSE /\ emptied = {}

Next ==
  /\ ~looping
  /\ \/ \E a \in Address, pair \in Pairs : LET p == pair[1] q == pair[2] IN
          \/ \E terms \in Terms[pair] : \/ logicMath_MetaDExTrade(a, p, q, terms[1], terms[2])
                                        \/ logicMath_MetaDExCancelPrice(a, p, q, terms[1], terms[2])
          \/ logicMath_MetaDExCancelPair(a, p, q)
     \/ \E a \in Address : logicMath_MetaDExCancelEcosystem(a)
     \/ \E f \in Switchable : FeatureActivates(f) \/ logicMath_Deactivation(f)
     \/ BlockEnd
     \/ \E next \in 1..block : RewindDBsAndState(next)

Spec == Init /\ [][Next]_vars

-----------------------------------------------------------------------------
(* Reports *)

\* Variant with a fault: the two sides of a match are mixed up.
AmountSoldSwapped(t, k) == IF t = k[1] THEN matches[k].amount1 ELSE matches[k].amount2

\* getMatchingTrades: what the order t has sold in the match k.
AmountSold(t, k) == IF t = k[2] THEN matches[k].amount1 ELSE matches[k].amount2

-----------------------------------------------------------------------------
(* Properties *)

\* No entry of the ledger is negative: every buyer has what it pays and every
\* reserve what is taken from it.  Orders in the book have something left.
TypeOK ==
  /\ mp_tally \in TallyMap
  /\ \A t \in DOMAIN metadex : metadex[t].amount_remaining \in 1..metadex[t].amount_forsale
  /\ DOMAIN metadex \subseteq 1..now
  /\ features \subseteq Feature

\* The reserve of an address is what its orders have left, through trades,
\* partial fills, cancellations, shutdowns and reorganizations.
ReserveBacksOrders ==
  \A a \in Address, p \in Property :
    GetTokenBalance(mp_tally, a, p, METADEX_RESERVE)
      = Sum([t \in {u \in OrdersOf(a) : metadex[u].property = p} |-> metadex[t].amount_remaining])

\* Trading, its fees and their distribution neither make nor lose tokens.  Only
\* a rollback of the cache that finds no entry any more may lose some.
Conserved ==
  \A p \in Property :
    LET total == getTotalTokens(mp_tally, feecache[p], p)
    IN  /\ total <= TalliedTokens(Supply, p)
        /\ ~(msc_debug_fees /\ p \in emptied) => total = TalliedTokens(Supply, p)

\* Both sides of every trade get their price or a better one, whatever was
\* rounded: x_Trade asserts it of the effective price.
PricesKept ==
  \A k \in {m \in DOMAIN matches : {m[1], m[2]} \subseteq DOMAIN trades} :
    LET old == trades[k[1]].order
        new == trades[k[2]].order
        got == matches[k].amount2 + matches[k].fee
    IN  /\ matches[k].amount1 * old.amount_forsale >= got * old.amount_desired
        /\ matches[k].amount1 * new.amount_desired <= got * new.amount_forsale

\* If two orders of the book could trade by their prices, rounding prevents it:
\* where the older asks a whole number for a token, the newer has less left.
CrossedOnlyByRounding ==
  \A s, t \in DOMAIN metadex :
    LET old == metadex[s]
        new == metadex[t]
    IN  (/\ s < t
         /\ old.property = new.desired_property /\ old.desired_property = new.property
         /\ old.amount_desired * new.amount_desired <= new.amount_forsale * old.amount_forsale
         /\ old.amount_desired % old.amount_forsale = 0)
        => new.amount_remaining < old.amount_desired \div old.amount_forsale

\* The trade list agrees with the book: an order has sold, the fee of the buyer
\* included, what is neither left nor given back, through partial fills and
\* cancellations.  MetaDEx_getStatus derives the status of an order from it.
\* After a reorganization matches of disconnected blocks may stay in the list.
SalesAccountedFor ==
  ~reorged =>
    \A t \in DOMAIN trades :
      Sum([k \in {m \in DOMAIN matches : t \in {m[1], m[2]}} |->
             AmountSold(t, k) + IF t = k[1] THEN matches[k].fee ELSE 0])
        + (IF t \in DOMAIN metadex THEN metadex[t].amount_remaining ELSE 0)
        + (IF t \in DOMAIN cancelled THEN cancelled[t] ELSE 0)
      = trades[t].order.amount_forsale

\* Deactivating the trade of all pairs closes the orders of such pairs, and
\* with the MetaDEx off there is no order at all, unless the shutdown does not
\* end or a reorganization behind it has brought the book of before back.
OrdersClosed ==
  ~looping /\ ~reopened =>
    /\ ~IsFeatureActivated(FEATURE_TRADEALLPAIRS) => \A t \in DOMAIN metadex : ~AllPair(metadex[t])
    /\ ~IsFeatureActivated(FEATURE_METADEX) => DOMAIN metadex = {}
=============================================================================
