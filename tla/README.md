# Formal model of the Counos token layer

The token layer (`src/src/counoscore`) is a deterministic state machine that every node runs over the
transactions of the block chain. This directory holds TLA+ modules translated from its source, the TLC
configurations that check them on small instances, and proofs checked by TLAPS. `PROJECT.json` maps every
definition to the source lines it models.

## The system

`validation.cpp` calls the layer for each block: `mastercore_handler_block_begin`, `mastercore_handler_tx` for
each transaction in order, `mastercore_handler_block_end`. A transaction is parsed (`parsing`, `script`,
`encoding`), interpreted and applied by a `logicMath_*` handler (`tx.cpp`). The handlers change

- the token ledger `mp_tally_map` (`tally.cpp`): per address and property the free balance, three reserves and
  the wallet's own `PENDING` estimate;
- the books of the two exchanges, `my_offers`/`my_accepts` (`dex.cpp`) and `metadex` (`mdex.cpp`);
- LevelDB databases: properties, token ranges, fee cache, trade list, transaction list and reports;
- memory only: fee thresholds, activations, frozen addresses, pending transactions;
- open crowdsales, in memory and in the state files.

State files save ledger, books and open crowdsales at the end of a block (`persistence.cpp`): of every block, but on
the main net only of every 5000th one below a fixed height (`IsPersistenceEnabled`). When a block is disconnected the next
block rewinds: databases are rolled back by height and a state file is loaded (`RewindDBsAndState`). The layer's
difficulties come from this split between files, databases and memory, and from rules that switch at run time.

## Inventory

| part | source | modules | status |
|---|---|---|---|
| token ledger | `tally`, `counoscore` | `Tally`, `TokenLedger` | partly |
| DEx, tokens against CCH | `dex`, `tx`, `counoscore` | `DEx` | modelled |
| MetaDEx, tokens against tokens | `mdex`, `dbtradelist`, `tx` | `MetaDEx` | modelled |
| non-fungible tokens | `nftdb`, `tx` | `NFT`, `TokenOwnership` | modelled |
| pending transactions | `pending`, `rpctx`, `wallettxbuilder` | `Pending` | modelled |
| fee cache, send to owners | `dbfees`, `sto`, `tx` | `Fees`, `FeeCache` | modelled |
| crowdsales | `sp`, `tx`, `dbspinfo` | `Crowdsale` | partly |
| freezing | `counoscore`, `tx`, `dbtxlist` | `Freezing`, `LayerNode` | modelled |
| feature activation | `rules`, `activation`, `dbtxlist` | `Activation`, `LayerNode` | modelled |
| issuers and delegates | `dbspinfo`, `tx` | `Properties`, `LayerNode` | modelled |
| state files and recovery | `persistence`, `counoscore` | `Recovery` | modelled |
| transaction list | `dbtxlist` | `LayerNode`, `Recovery` | partly |
| properties and issuance | `sp`, `dbspinfo`, `tx` | `Properties`, `Crowdsale`, `FeeCache`, `NFT` | partly |
| sends | `tx` | `Crowdsale`, `LayerNode`, `NFT` | partly |
| parsing, payloads | `parsing`, `script`, `encoding`, `create*` | | stateless conversion |
| reports, consensus hash, alerts, RPC, wallet | | | no effect on the ledger |
| Bitcoin Core base | `validation` and others | | taken as given |

## Modules

- **`Maps`, `Sums`** hold helpers. A sum is the cardinality of the set of token units, so that its laws
  (`LedgerLemmas`) follow from those of cardinality without recursion.
- **`Tally`** has the ledger. `updateMoney` refuses an update that would leave the range of `int64_t`, and its
  callers assert that it does not; in the model an entry outside `Amount` stands for the failed assert, and the
  type invariants of the components say that there is none.
- **`TokenLedger`** is abstract: tokens only pass from an owner who has them to another. `DEx` refines it.
- **`DEx`** has the functions of `dex.cpp` as operators on a record of ledger, offers and accepts, and one action
  per handler. Heights occur as the age of an accept; a new hash is any hash nothing holds. Each output that
  `HandleDExPayments` looks at is a step of its own. The legacy formulas use floating point; the model rounds the
  exact quotient to the nearest, which equals the `double` computation for all arguments up to 12 and is not
  claimed for large ones.
- **`NFT`** has the ranges of one property, the data attached to them, the ledger and reorganizations.
  **`TokenOwnership`** is its abstract specification: every single token has an owner. Grants come from the issuer
  (not yet from a delegate), and the balance check is that of a node with nothing pending.
- **`Pending`** splits the path of a wallet transaction where locks are released: check, commit, subtract from
  `PENDING`, note as pending (`PendingAdd` has two critical sections); and in a block: delete the entry, interpret,
  block end. `others` is the state of a node with nothing pending.
  A reorganization here replaces only blocks without transactions of the property.
- **`Fees`** has the arithmetic of shares and the history of the cache; **`FeeCache`** the life of a node around
  it. FEES is active, and the Exodus address keeps some tokens, as the source assumes. Reorganizations happen
  between blocks and reach back at most `MAX_STATE_HISTORY`. Old entries of a cache are pruned when
  `msc_debug_fees` is on, which is the default (`log.cpp:66`). `issued`, `faults` and `emptied` (the properties of
  which a rollback has removed the last entry) are history variables.
- **`MetaDEx`** uses `Fees` and adds matching, the trade list, shutdowns and reorganizations. The number of an
  order stands for its place in the chain and its hash; the number of an order that was disconnected is not used
  again. Thresholds are constant, since trades keep totals. A reorganization loads the book of the file and keeps
  the features as they are in memory. `cancelled`, `reorged`, `reopened` and `emptied` are history variables.
- **`Crowdsale`** has sales from creation to end. A purchase is part of the send or grant that pays for it, as in the
  code. Three precisions of the arithmetic (a week, 100 percent, 10^8) are constants, so that small numbers round
  as large ones do; an assumption keeps the relations between them that hold in the code. `closed` and
  `missedTokens` record how a sale ended and what was credited then. A division by zero in a purchase throws an
  exception out of the block: the rest of its handler and of the block is skipped (`unwound`), and the node goes on
  with the next block if this one came from a peer (`net_processing.cpp:3387`). `untold` has the properties whose
  grant was cut short that way. Issuers and delegates of the granted properties are constants. Sales live as long
  as the node runs and blocks are connected: that they are loaded from a state file after a reorganization or a
  restart (`persistence.cpp:593`) is not modelled.
- **`Freezing`**, **`Activation`** and **`Properties`** are values with operators for the three kinds of state that
  are in no state file. **`LayerNode`** joins them with a ledger and the transaction list to a node, and has its
  handlers as operators from a node to a node. **`Recovery`** is the life of that node: blocks connected and
  disconnected, transaction by transaction; files, then watermark, written at the end of a block that is to be saved,
  which depends on its height and, on the main net, on `nWarpModeHeight`; the process stopped
  at any of these steps, with blocks lost, forgotten by the index or files damaged; the start that loads a state,
  rolls properties back, loads activations and freezing from the transaction list and scans the rest again.
  `Replay` is the abstract promise, the node that processed the active chain once. A miner makes blocks valid for
  that node, so that a transaction is valid where it is mined first.
- **`MC*`** instantiate the modules. Definitions called "variant with a fault" are used nowhere in the
  specifications; each is a plausible mistake that violates a property when it takes the place of the original.

`Pending`, `NFT`, `FeeCache` and `MetaDEx` are about a node that saves every block: one near the tip of the chain on
the other nets, and on the main net from block 769900 on, unless `-omniskipstoringstate` names another.

Freezing is left out of all modules but `LayerNode` and `Recovery`. It only forbids steps of a sender, so that the
others allow more than the code does.

## Runs

| run | checks | distinct states |
|---|---|---|
| `dex_trading` | reserves back accepts and belong to offers, no offer is oversold, accepts end only by payment or expiry, instalments are credited, the order of expiry is irrelevant, refinement of `TokenLedger` | 64,999 |
| `dex_liveness` | every accept ends; types under both arithmetics, both switches and zero inputs | 18,924 |
| `nft_tokens` | ranges are a maximal partition and refine `TokenOwnership`, also over a reorganization; before it the ledger follows the ranges up to the largest number; data neither lost nor misplaced | 107,032 |
| `pending_wallet` | `PENDING` is the total of the sends that are noted or about to be for two racing threads until a reorganization, and every pending entry is discarded | 1,249,556 |
| `fee_cache` | no fees are made or lost but by pruning, shares add up, thresholds act, over reorganization, restart and crash | 275,692 |
| `metadex_trading` | prices kept despite rounding, no missed trade, the trade list adds up, shutdown closes all, reserves match the book, tokens are conserved with fees, over reorganizations also behind a shutdown | 1,279,690 |
| `crowdsale` | tokens are counted and never exceed the maximum, purchases are fair, the issuer gets its bonus, a sold-out sale is sold out exactly, sales belong to issuers and end in time, fee thresholds know of purchases, every sale ends | 149,337 |
| `recovery` | outside eight situations, named below, a node that saves all blocks or some follows its chain and can start; files hold the ledger of their block; a client that is too old stops | 2,028,131 |
| `nft_reorg` | violated: the sanity check passes | |
| `pending_agree` | violated: all nodes agree whatever is pending | |
| `fee_restart` | violated: the threshold in use is the current one | |
| `recovery_restart` | violated: a node can start again on its own chain | |

**Bounds.** Two or three addresses suffice for a seller, competing buyers and self-trades; one to three properties
cover the fee token and pairs without it. Amounts of one to six tokens give partial fills, sold-out offers and
rounding in both directions. Windows of zero to two blocks, two or three blocks of chain and one block of history
let an accept expire next to another and a reorganization reach the limit of the history. `MAX_INT` stands for the
largest `int64_t`; `nft_tokens` and `crowdsale` reach it. After a reorganization that undid a grant a token number
can exceed it, and `nft_tokens` has the grant that is cut off there; `NFT!NumbersLeft` excludes a further one, whose
first number would overflow (`nftdb.cpp:263`). Symmetry is used for buyers and hashes in a safety run
only. `metadex_trading` switches features at most twice, so that a shutdown, a reorganization behind it and an
activation come together. `crowdsale` has two issuers, one sale for the tokens of the other, two transactions that
move or make tokens and three block times in any order: enough for a purchase that is itself paid with tokens of a
sale, one that exceeds the maximum, one after the tokens are used up exactly, a bonus rounded down twice and made up
for at the end, and a block time that goes back. Its `PRECISION` of 1100 is below `MAX_INT` = 1120, as 10^12 is below
the largest `int64_t`: a purchase then loses several units to rounding, and `PurchasesAreFair` bounds the loss by one
part in `PRECISION` of the price for each of two roundings. `recovery` has four blocks, the fourth only before a stop, with up to three of twelve transactions, one or two in a
block, on chains of height four; history is one block, so that a reorganization or damage can exceed it, and every second
block is saved in any case. A main net is among the instances with `nWarpModeHeight` 4, passed in the run, and 9,
never reached; 0 stands for the other nets. Two kinds of
transaction that need a third before them (freezing, deactivation after activation) fit.

**Deadlock** is not checked where a run ends because a bound is used up or the node has stopped.

**Fairness.** `DEx`: blocks keep being connected (`WF` of `BlockEnd`). `Pending`: blocks arrive and are connected to
the end, and a transaction that stays out of blocks leaves the mempool in the end (`-mempoolexpiry`, `SF` of
`Evict`). `Crowdsale`: blocks keep coming, one of them later than every deadline (`WF` of `eraseExpiredCrowdsale` for
the last time), which holds because a block's time must exceed the median of the eleven before it and miners use
their clocks; times may go back all the same. Nothing is assumed of users, issuers or RPC threads.

**Conditions in properties.** `Conserved` of `FeeCache` says nothing after a crash, and `BelowThreshold` nothing
after any fault: there the code does not keep them. Where pruning has dropped the entry that a rollback needs, both
`Conserved` (of `FeeCache` and `MetaDEx`) say that nothing is made, and not that nothing is lost.
`LedgerFollowsRanges` leaves out "send all" for the same reason. `PendingMatches` is checked without cancels and
before a reorganization, `SalesAccountedFor` before a reorganization, `OrdersClosed` unless the shutdown loops or a
reorganization has brought the book of before it back. `ThresholdsKnowSales` leaves out what the end of a sale
credits, and says of a property in `untold` that the threshold is based on too few tokens. In `Recovery` the
condition is a guard: `Excluded` names the situations in which the instance takes no step, each defined by what the
node has recorded when it loads a state.

## Disagreements between code and comments

Four are kept as runs, with quotations in `PROJECT.json`:

- `nft_reorg`: a reorganization restores the ledger but not the ranges, and the sanity check then stops the node.
- `pending_agree`: a send of non-fungible tokens is judged with the `PENDING` amounts of the node's own wallet.
- `fee_restart`: thresholds live in memory; a restarted node distributes the next fee at once.
- `recovery_restart`: `getDelegate` answers for the time before the first delegate with the delegate of today; a
  freeze by the issuer is then rejected when freezing is loaded on start, and the node refuses to start.

Others were found by TLC in the same way and are not kept as runs. To see one, take the named configuration, change
the constants as given and check the property alone.

| property | instance | what happens |
|---|---|---|
| `DEx!OneOfferPerSeller` | `MCDEx_liveness`, `Property = {1, 2}`, five hashes, `OfferAmounts = {1}`, `Desired = {1}`, `Windows = {1}` | two offers opened before FREEDEX stay open (`dex.cpp:68`) |
| `DEx!AcceptCanBePaid` | `MCDEx_liveness`, `InitFeatures = {"dexmath", "freedex"}`, `Switchable = {}`, `OfferAmounts = {1, 2}`, `Desired = {3}`, `Windows = {1}` | after a cancellation the accept is not found by payments (`dex.cpp:526`) |
| `NFT!LedgerFollowsRanges` | `MCNFT_tokens`, without `allSent` | "send all" moves the count without the tokens (`tx.cpp:1462`) |
| `NFT!DataIsLatest` | `MCNFT_tokens`, `Info = {"x", "y"}` | an old range behind a gap hides newer data (`nftdb.cpp:173`) |
| `Pending!PendingMatches` | `MCPending_wallet`, `Cancels = TRUE`, without its condition on sends | deleting a cancel credits what was never subtracted (`pending.cpp:67`) |
| `Pending!PendingMatches` | `MCPending_wallet`, without its condition on reorganizations | a loaded state forgets `PENDING`, entries stay (`persistence.cpp:574`) |
| `FeeCache!Conserved` | `MCFeeCache_cache`, without its condition on crashes | fees of a lost block stay in the cache (`counoscore.cpp:1792`) |
| `FeeCache!Conserved` | `MCFeeCache_cache`, without its condition on `emptied` | pruning drops an entry a rollback needs (`dbfees.cpp:259`) |
| `FeeCache!OldEntriesPruned` | `MCFeeCache_cache`, `msc_debug_fees = FALSE`, `Faults = {}` | without detailed logging nothing is pruned (`dbfees.cpp:262`) |
| `MetaDEx!OrdersClosed` | `MCMetaDEx_trading`, without its condition on `looping` | the shutdown of all pairs loops for ever at another order (`mdex.cpp:699`) |
| `MetaDEx!OrdersClosed` | `MCMetaDEx_trading`, without its condition on `reopened` | a reorganization behind a shutdown loads the orders again, and the feature stays off (`counoscore.cpp:1668`) |
| `MetaDEx!SalesAccountedFor` | `MCMetaDEx_trading`, without the fee in its sum | the fee is missing from what an order sold (`dbtradelist.cpp:193`) |
| `MetaDEx!SalesAccountedFor` | `MCMetaDEx_trading`, without its condition on reorganizations | matches of disconnected blocks stay (`dbtradelist.cpp:84`) |
| `Crowdsale!ThresholdsKnowSales` | `MCCrowdsale_sales`, without `missedTokens` | the end of a sale credits tokens and does not call `NotifyTotalTokensChanged` (`sp.cpp:435`) |
| `Crowdsale!ThresholdsKnowSales` | `MCCrowdsale_sales`, without `untold` | the exception of a purchase skips the call at the end of the grant that pays for it (`tx.cpp:2428`) |
| `Recovery!FollowsChain` | `MCRecovery_chain`, `MCExcluded` without `"rescan"` | freezing, or a deactivation, of a block that is scanned again is in memory already and is rejected (`counoscore.cpp:1668`) |
| `Recovery!FollowsChain` | ... without `"activation"` | activations of an undone block stay in memory (`counoscore.cpp:1668`) |
| `Recovery!FollowsChain` | ... without `"twice"` | undoing two updates of a property in a block restores what was between them (`dbspinfo.cpp:242`) |
| `Recovery!FollowsChain` | ... without `"delegate"` | `popBlock` does not undo delegates (`dbspinfo.cpp:242`) |
| `Recovery!FollowsChain` | ... without `"ahead"` | properties are written during a block; after a stop before its end, or when a reorganization loads the state of an earlier block than the one before it, they are ahead of the loaded state (`persistence.cpp:801`) |
| `Recovery!FollowsChain` | ... without `"deactivation"` | only activations are loaded on start (`dbtxlist.cpp:614`) |
| `Recovery!StartsAgain` | ... without `"offchain"` | a recorded freeze of a block that was lost is above the tip or not valid here (`tx.cpp:1085`) |
| `Recovery!StartsAgain` | ... without `"authority"` | the run `recovery_restart` |
| `Recovery!StartsAgain` | `MCRecovery_chain`, `KeyLimit = 3` | freezes are sorted by text with six digits for the height (`dbtxlist.cpp:693`) |

Three more are followed by the models and are the subject of no property. `disableFreezing` erases an entry and then
asserts that the entry behind it is not frozen (`counoscore.cpp:374`): with a second frozen address the node ends,
although `rpc-api.md:758` says that disabling "will UNFREEZE all frozen addresses". A sale whose tokens are used up
exactly is not closed, since only more than the maximum closes it, and the next purchase divides by zero
(`sp.cpp:299`), which ends the handling of its block, although the comment at `sp.cpp:311` speaks of closing "after assigning all tokens". Features are
deactivated by the block 999999 for "never" (`rules.cpp`), from which block on they are active.

## Proofs

Theorems hold for all addresses, properties, supplies, terms and inputs that satisfy the assumptions.

**The ledger** (`LedgerLemmas`): what a move between two entries, an update of one entry and a change of a map does
to totals and holdings. `Sum` is the size of a set of units, so a fact about sums is one about finite sets. Facts that
need induction (`FirstExists`, `SumScale`, `SumAdd`) take a smallest set for which they fail, by the well-founded
order of the subsets of a finite set.

**DEx** (`DExProofs`):

- `TypeCorrect`: `Spec => []TypeOK`; no assert around `update_tally_map` in the DEx can fail;
- `AcceptsAlwaysBacked`: the reserve of a seller is the sum of the open accepts;
- `ReserveAlwaysHasOffer`: tokens reserved for sale belong to an offer that is open, so they can be got back;
- `OffersNeverOversold`: what is for sale and what is accepted from an offer is never more than was offered;
- `AcceptsAlwaysLive`: an accept is in the table only while it has tokens left and its time has not passed;
- `InstalmentsAlwaysCredited`: a buyer who pays in parts has got at least what the sum of the parts is worth;
- `AcceptsEndOnlyByPaymentOrExpiry`: an accept goes only when all is bought or its time is over (an action property);
- `ImplementsLedger`: `Spec => LedgerSpec`; the DEx refines `TokenLedger`.

None is inductive by itself. That a debit of `ACCEPT_RESERVE` does not go below zero needs that the reserve is the
sum of what is left of the accepts, and that a credit stays below `MAX_INT` needs that the total is constant. The
invariant `Conserving` therefore joins types over the naturals, the backing of accepts and the total of
each property. One lemma per function of `dex.cpp` says that it keeps `Backed` and only moves tokens between two
owners (`Traded`); `NextBacked` has one case per action; `TradedConserves` gives the totals and
`TradedIsLedgerStep` the refinement. Sums enter through `SumUpdate`, `SumSplit` and `SumZero`.

`Orderly` is the invariant of the other five, beside `Conserving`. Accepts of an offer that was
cancelled and replaced do not count against the new one, so `NotOversold` sums over the accepts of the offer's own
transaction; an accept that ends gives its rest back to an offer that is still open, and to the balance if it is not,
which is why `SaleHasOffer` has to hold together with it. `InstalmentIsWorth` is the arithmetic of a payment in
parts: each part is rounded up, so the parts never come behind the whole. `ExpirySales` treats all the accepts that a
block ends at once, whatever the order in which they are erased.

Assumptions: addresses are finitely many, properties and inputs are naturals, nothing is reserved on the DEx at the
start, each property's supply fits into an `int64_t`, keys of an address are ordered. TLC evaluates them.
`PurchaseFits` is a guard of the model, so the theorems are about the time before a payment whose purchase exceeds
an `int64_t`. With integer arithmetic (DEXMATH) such a payment fails an assert (`uint256_extensions.h:46`) and the
node stops. The legacy `double` arithmetic has no assert: the amount wraps and the payment goes on, and nothing is
claimed of what follows.

**Crowdsales** (`CrowdsaleProofs`):

- `NeverTooManyTokens`: `Spec => []TypeOK`; no property gets more than `MAX_INT` tokens and no update fails;
- `SalesCountTokens`: a running sale has counted every token of its property, and the data kept adds up;
- `MaxedSalesSoldOut`: a sale that exceeded the maximum has used it up exactly;
- `SalesBelongToIssuers`, `SoldBeforeDeadline`: who sells, and until when;
- `ThresholdsInformed`: the fee thresholds are based on the tokens there are, but for those credited at the end of a
  sale, and on fewer where an exception has cut a grant short.

`Invariant` is their common strengthening. The maximum is kept because `calculateFundraiser` compares with the
total in the ledger, and the end of a sale because it has counted the same total; so the invariant says of every
running sale that the ledger, its two counters and the sum of its data agree, of every property sold before that its
tokens are the data and what was credited in the end, and of every unused identifier that there are no tokens of it
(or a new sale would begin with a wrong count). A handler passes through states in which a threshold is out of date;
`InformedBut` says for which property. `Participated` says that a purchase which throws has changed neither ledger
nor thresholds, so that the granted property is the only one left behind, and by a positive amount. The proofs go along the functions: `ShareFits` proves the assertion of
`sp.cpp:306`, that the issuer's share is at most what is left, from the defining inequalities of three divisions;
`FundraiserFits`, `CreditEffect`, `MaxedEffect` and `ParticipationEffect` follow a purchase through, `MissedFits` and
`EndEffect` an end by hand or deadline; `NextInvariant` has one lemma per action.

Assumptions (`CrowdsaleAssumption`): the initial supplies fit, new identifiers have no tokens at first, terms are
what `logicMath_CreatePropertyVariable` lets through, `PRECISION < MAX_INT`, and
`PRECISION * SATOSHI > 10 * MAX_INT`, where the code has 10^20 and 9.2 * 10^19. `ShareFits` needs that the product exceeds `MAX_INT`.

**Fees** (`FeeLemmas`, `FeeProofs`):

- `SharesAlwaysAddUp`: what a send to owners or a distribution pays adds up to the amount, for all owners and holdings;
- `CacheStaysBelowThreshold`: without reorganization or restart no cache reaches the threshold for the tokens there are;
- `FeesConserved`: tokens that were issued are in balances or in the cache, also after reorganizations, unless the
  node has crashed. With pruning, the default, this is exact but for properties of which a rollback has removed the
  last entry; of those nothing is made. Without pruning it is exact for all.

Owners are served in the order of `SendToOwners_compare` until nothing is left. `CompareOrders` shows that this is a
strict total order; `FirstShares` shows, by a smallest set of owners for which it fails, that those who come first get
their pieces in full or all there is together; `PiecesCover` shows that all pieces, each rounded up, are at least the
amount; so the shares of all are the amount (`SharesOfOwners`).

`FeeInv` is the inductive invariant. A reorganization loads an earlier state file and rolls the cache back, so
the invariant says not only of the ledger but of every saved one that it balances with the cache rolled back to its
block; for that no cache may have an entry of a later block. Pruning may have dropped the entry that a rollback
needs, so the balance of a saved ledger is an upper bound, and exact where the cache still has an entry before its
block or never had one (`Determined`). That a distribution pays anybody needs a holder of the
fee token other than the cache, so the invariant keeps the Exodus address among the holders. `CacheStep` is
the common step of all that changes the cache of one property.

Assumptions (`FeeCacheAssumption`): the ledgers at the start are in range, and the Exodus address, which does not send here, holds fee tokens: the
comment at `dbfees.cpp:213` takes for granted that "there will always be addresses holding COUNOS".

**Only model-checked**: `ExpiryOrderIrrelevant` of `MCDEx`; `IssuerGetsBonus` and `PurchasesAreFair` of `Crowdsale`,
which compare with a reference over the whole data of a sale; all of `NFT`, `Pending`, `MetaDEx` and
`Recovery`; and all liveness, since TLAPS does not reason about fairness. The matching loop of `MetaDEx` and the
scan of `Recovery` are recursions over sequences; what these compute for all inputs is
out of the prover's reach.

## Not modelled

- Parsing, payloads and transaction types are conversions without state: the models begin with the message.
- Creation of properties with a fixed supply and managed ones, apart from their grants: the identifiers and entries
  are those of `Crowdsale`, without a sale. Send to many: several simple sends without purchases.
- Reports (send-to-owners list, fee history, completed activations, `isCrowdsalePurchase`), consensus hash,
  checkpoints, alerts, RPC and wallet: nothing of them is read by a handler, except that a wrong checkpoint or an
  alert for a newer client stops the node.
- The test ecosystem, which repeats the main one.
- Rollback of the fee cache, the trade list and the token ranges is in `FeeCache`, `MetaDEx` and `NFT`, each with the
  ledger alone, and not joined with `Recovery`: the ledger of `Recovery` stands for what the state files hold.
- The Bitcoin Core base, `src/src` outside of `counoscore`. Only its calls of the handlers and the mempool's part in them, in `validation.cpp` and `txmempool.cpp`, are modelled.
  The translation tables of the user interface, `src/src/qt/locale/*.ts`, are data without behaviour and have no
  counterpart, though they make up most of the text files with that ending in the repository. The definitions map
  to 6,165 lines, 5,912 of them in `counoscore`, which has 28,211 lines with headers and comments; the rest of
  `counoscore` is RPC, wallet, payload encoding, reports and printing.
