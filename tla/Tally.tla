------------------------------- MODULE Tally --------------------------------
(***************************************************************************)
(* The token ledger of the layer: mp_tally_map, which holds for every      *)
(* address and property the amounts available (BALANCE), put up for sale   *)
(* on the DEx (SELLOFFER_RESERVE), held back for a buyer who accepted      *)
(* (ACCEPT_RESERVE), and committed to MetaDEx orders (METADEX_RESERVE).    *)
(* The fifth tally type, PENDING, is the wallet's own estimate and no part *)
(* of the consensus state; module Pending models it.                       *)
(*                                                                         *)
(* updateMoney refuses an update that would make an entry negative or      *)
(* overflow int64_t, and the components call it inside assert(), so a      *)
(* refusal stops the node.  Here the sum is formed and an entry outside    *)
(* Amount stands for the failed assert: the type invariants of the         *)
(* components say that none ever fails.                                    *)
(***************************************************************************)
EXTENDS Integers, Sums

CONSTANTS Address,    \* addresses
          Property,   \* property identifiers
          MAX_INT     \* std::numeric_limits<int64_t>::max()

ASSUME AddressAssumption  == IsFiniteSet(Address)
ASSUME PropertyAssumption == Property \subseteq Nat
ASSUME MaxIntAssumption   == MAX_INT \in Nat

BALANCE           == "balance"
SELLOFFER_RESERVE == "selloffer"
ACCEPT_RESERVE    == "accept"
METADEX_RESERVE   == "metadex"

TallyType == {BALANCE, SELLOFFER_RESERVE, ACCEPT_RESERVE, METADEX_RESERVE}

Amount == 0..MAX_INT

TallyKey == Address \X Property \X TallyType

\* What mp_tally_map may hold: every entry an amount updateMoney can have stored.
TallyMap == [TallyKey -> Amount]

GetTokenBalance(tally, who, p, ttype) == tally[<<who, p, ttype>>]

\* Credits, or with a negative amount debits, one entry.
update_tally_map(tally, who, p, amount, ttype) ==
  [tally EXCEPT ![<<who, p, ttype>>] = @ + amount]

\* The pair of calls by which an amount leaves one entry and enters another.
Move(tally, from, fromType, to, toType, p, amount) ==
  update_tally_map(update_tally_map(tally, from, p, -amount, fromType), to, p, amount, toType)

\* All the tokens of a property that an address owns, reserved or not.
Holding(tally, a, p) ==
  GetTokenBalance(tally, a, p, BALANCE) + GetTokenBalance(tally, a, p, SELLOFFER_RESERVE)
    + GetTokenBalance(tally, a, p, ACCEPT_RESERVE) + GetTokenBalance(tally, a, p, METADEX_RESERVE)

Holdings(tally, p) == [a \in Address |-> Holding(tally, a, p)]

\* The tokens of a property over all addresses: the loop of getTotalTokens,
\* which adds to it what the fee cache holds.
TalliedTokens(tally, p) == Sum(Holdings(tally, p))
=============================================================================
