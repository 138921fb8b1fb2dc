-------------------------------- MODULE NFT ---------------------------------
(***************************************************************************)
(* The tokens of one non-fungible property (nftdb.cpp and the handlers of  *)
(* tx.cpp that use it).  A LevelDB table maps ranges of token numbers to   *)
(* their owner, and three more map ranges to data; the ledger counts how   *)
(* many tokens an address has.  The keys of the database begin with the    *)
(* property, so properties do not interfere.                               *)
(*                                                                         *)
(* The ledger is saved with every block, and a chain reorganization loads  *)
(* the ledger of the block where the chains part.                          *)
(***************************************************************************)
EXTENDS Tally, Maps, Sequences

CONSTANTS property,     \* the non-fungible property
          issuer,       \* its issuer
          Info,         \* data that is attached to tokens
          DataTypes,    \* the kinds of data transactions set
          DataRanges,   \* the ranges of tokens they set it on
          Amounts,      \* numbers of tokens granted at a time
          IssuerOnly,   \* whether FEATURE_NONFUNGIBLE_ISSUER is active
          MaxGrants,    \* bound on the number of grants
          MaxBlocks,    \* bound on the length of the chain
          MaxReorgs     \* bound on the number of reorganizations

RangeIndex == "R"   \* who owns the tokens
GrantData  == "G"   \* data given when the tokens were granted
IssuerData == "I"   \* data set by the issuer
HolderData == "H"   \* data set by the holder

NonFungibleStorage == {RangeIndex, GrantData, IssuerData, HolderData}

TokenId == 1..MAX_INT

NoValue == "none"   \* the empty string: nothing found

ASSUME NFTAssumption ==
  /\ property \in Property
  /\ issuer \in Address
  /\ NoValue \notin Address \cup Info
  /\ DataTypes \subseteq {IssuerData, HolderData}
  /\ \A r \in DataRanges : r \in TokenId \X TokenId /\ r[1] <= r[2]
  /\ Amounts \subseteq TokenId
  /\ IssuerOnly \in BOOLEAN
  /\ MaxGrants \in Nat /\ MaxBlocks \in Nat /\ MaxReorgs \in Nat

VARIABLES mp_tally,    \* the token ledger
          nftdb,       \* for each kind of storage a map from ranges
          stateFiles,  \* the ledgers saved at the blocks of the active chain
          reorgs,      \* reorganizations so far
          shutdown,    \* whether the sanity check has stopped the node
          latest,      \* history: the data last set on a token
          allSent      \* history: what "send all" has added to the count of an
                       \* address, before a reorganization

vars == <<mp_tally, nftdb, stateFiles, reorgs, shutdown, latest, allSent>>

TokenRange == {<<first, last>> \in TokenId \X TokenId : first <= last}

-----------------------------------------------------------------------------
(* The database *)

DeleteRange(db, range, type) == [db EXCEPT ![type] = Without(@, range)]

AddRange(db, first, last, value, type) == [db EXCEPT ![type] = With(@, <<first, last>>, value)]

\* Keys are compared as text: by property and kind, first token, last token.
KeyBefore(r, q) == r[1] < q[1] \/ (r[1] = q[1] /\ r[2] <= q[2])

FirstKey(ranges) == CHOOSE r \in ranges : \A q \in ranges : KeyBefore(r, q)
LastKey(ranges)  == CHOOSE r \in ranges : \A q \in ranges : KeyBefore(q, r)

\* The ranges with both tokens; the iterator returns the first.
Covering(db, first, last, type) == {r \in DOMAIN db[type] : r[1] <= first /\ last <= r[2]}

GetRange(db, tokenId, type) ==
  LET found == Covering(db, tokenId, tokenId, type)
  IN  IF found = {} THEN <<0, 0>> ELSE FirstKey(found)

GetNonFungibleTokenValueInRange(db, first, last, type) ==
  LET found == Covering(db, first, last, type)
  IN  IF found = {} THEN NoValue ELSE db[type][FirstKey(found)]

GetNonFungibleTokenValue(db, tokenId, type) ==
  GetNonFungibleTokenValueInRange(db, tokenId, tokenId, type)

\* The largest token number, 0 if there is none.
GetHighestRangeEnd(db) ==
  LET ends == {r[2] : r \in DOMAIN db[RangeIndex]}
  IN  IF ends = {} THEN 0 ELSE CHOOSE n \in ends : \A k \in ends : k <= n

\* Joins the new tokens with the owner's range if that is the last one.
CreateNonFungibleTokens(db, amount, owner, info) ==
  LET highest == GetHighestRangeEnd(db)
      last    == IF highest > MAX_INT - amount THEN MAX_INT ELSE highest + amount
      granted == AddRange(db, highest + 1, last, info, GrantData)
      old     == GetRange(db, highest, RangeIndex)
  IN  IF GetNonFungibleTokenValue(db, highest, RangeIndex) = owner
      THEN AddRange(DeleteRange(granted, old, RangeIndex), old[1], last, owner, RangeIndex)
      ELSE AddRange(granted, highest + 1, last, owner, RangeIndex)

\* Variant with a fault: the part behind the moved tokens is lost.
SplitOffFront(db, held, first, last, from) ==
  LET gone == DeleteRange(db, held, RangeIndex)
  IN  IF held[1] < first THEN AddRange(gone, held[1], first - 1, from, RangeIndex) ELSE gone

\* Takes first..last out of the range held, whose rest stays with its owner.
SplitOff(db, held, first, last, from) ==
  LET gone  == DeleteRange(db, held, RangeIndex)
      front == IF held[1] < first
               THEN AddRange(gone, held[1], first - 1, from, RangeIndex) ELSE gone
  IN  IF held[2] > last
      THEN AddRange(front, last + 1, held[2], from, RangeIndex) ELSE front

\* Variant with a fault: not joined with the range behind.
JoinWithFront(db, first, last, to, before, after) ==
  LET front == GetRange(db, first - 1, RangeIndex)
  IN  IF before THEN AddRange(DeleteRange(db, front, RangeIndex), front[1], last, to, RangeIndex)
      ELSE AddRange(db, first, last, to, RangeIndex)

\* Gives first..last to an address, joined with its ranges next to it.
JoinWithNeighbours(db, first, last, to, before, after) ==
  LET front  == GetRange(db, first - 1, RangeIndex)
      joined == IF before THEN DeleteRange(db, front, RangeIndex) ELSE db
      back   == GetRange(joined, last + 1, RangeIndex)
  IN  AddRange(IF after THEN DeleteRange(joined, back, RangeIndex) ELSE joined,
               IF before THEN front[1] ELSE first,
               IF after THEN back[2] ELSE last, to, RangeIndex)

MoveNonFungibleTokens(db, first, last, from, to) ==
  JoinWithNeighbours(SplitOff(db, GetRange(db, first, RangeIndex), first, last, from),
                     first, last, to,
                     GetNonFungibleTokenValue(db, first - 1, RangeIndex) = to,
                     GetNonFungibleTokenValue(db, last + 1, RangeIndex) = to)

\* The ranges a walk from token to token meets, up to the first token without.
RangesFrom(db, first, last, type) ==
  LET walk[i \in 1..MAX_INT + 1] ==
        IF i > last \/ GetRange(db, i, type) = <<0, 0>> THEN {}
        ELSE {GetRange(db, i, type)} \cup walk[GetRange(db, i, type)[2] + 1]
  IN  walk[first]

\* Variant with a fault: what the last range had behind the tokens is lost.
ChangeNonFungibleTokenDataCut(db, first, last, data, type) ==
  LET ranges  == RangesFrom(db, first, last, type)
      low     == FirstKey(ranges)
      cleared == [db EXCEPT ![type] = Restrict(@, DOMAIN @ \ ranges)]
  IN  AddRange(IF ranges # {} /\ low[1] < first
               THEN AddRange(cleared, low[1], first - 1,
                             GetNonFungibleTokenValue(db, low[1], type), type)
               ELSE cleared, first, last, data, type)

ChangeNonFungibleTokenData(db, first, last, data, type) ==
  LET ranges  == RangesFrom(db, first, last, type)
      low     == FirstKey(ranges)
      high    == LastKey(ranges)
      cleared == [db EXCEPT ![type] = Restrict(@, DOMAIN @ \ ranges)]
      front   == IF low[1] < first
                 THEN AddRange(cleared, low[1], first - 1,
                               GetNonFungibleTokenValue(db, low[1], type), type)
                 ELSE cleared
      back    == IF high[2] > last
                 THEN AddRange(front, last + 1, high[2],
                               GetNonFungibleTokenValue(db, high[1], type), type)
                 ELSE front
  IN  AddRange(IF ranges = {} THEN db ELSE back, first, last, data, type)

-----------------------------------------------------------------------------
(* The handlers *)

Balance(a) == GetTokenBalance(mp_tally, a, property, BALANCE)

getTotalTokens == TalliedTokens(mp_tally, property)

\* What AbortNode depends on; a property without ranges is not looked at.
SanityCheck ==
  DOMAIN nftdb[RangeIndex] # {} => getTotalTokens = GetHighestRangeEnd(nftdb)

Init ==
  /\ mp_tally = [k \in TallyKey |-> 0]
  /\ nftdb = [type \in NonFungibleStorage |-> EmptyMap]
  /\ stateFiles = <<mp_tally>>
  /\ reorgs = 0
  /\ shutdown = FALSE
  /\ latest = [type \in DataTypes |-> [t \in TokenId |-> NoValue]]
  /\ allSent = [a \in Address |-> 0]

\* Bound: the largest number is not taken. It can be when a reorganization has
\* undone a grant in the ledger only; highest + 1 is then a signed overflow.
NumbersLeft == GetHighestRangeEnd(nftdb) < MAX_INT

\* logicMath_GrantTokens of a property that is managed and non-fungible.
GrantTokens(sender, receiver, amount, info) ==
  /\ Cardinality(DOMAIN nftdb[GrantData]) < MaxGrants
  /\ NumbersLeft
  /\ sender = issuer
  /\ amount <= MAX_INT - getTotalTokens
  /\ nftdb' = CreateNonFungibleTokens(nftdb, amount, receiver, info)
  /\ mp_tally' = update_tally_map(mp_tally, receiver, property, amount, BALANCE)
  /\ UNCHANGED <<stateFiles, reorgs, shutdown, latest, allSent>>

\* Variant with a fault: any tokens are enough.
HasAnyTokens(a, amount) == Balance(a) > 0

HasTokens(a, amount) == Balance(a) >= amount

\* Variant with a fault: owning the first token is enough.
OwnsFirst(a, first, last) == GetNonFungibleTokenValue(nftdb, first, RangeIndex) = a

OwnsRange(a, first, last) == GetNonFungibleTokenValueInRange(nftdb, first, last, RangeIndex) = a

logicMath_SendNonFungible(sender, receiver, first, last) ==
  /\ HasTokens(sender, last - first + 1)
  /\ OwnsRange(sender, first, last)
  /\ mp_tally' = Move(mp_tally, sender, BALANCE, receiver, BALANCE, property, last - first + 1)
  /\ nftdb' = MoveNonFungibleTokens(nftdb, first, last, sender, receiver)
  /\ UNCHANGED <<stateFiles, reorgs, shutdown, latest, allSent>>

logicMath_NonFungibleData(sender, first, last, data, type) ==
  /\ type = HolderData => OwnsRange(sender, first, last)
  /\ type = IssuerData /\ IssuerOnly => sender = issuer
  /\ nftdb' = ChangeNonFungibleTokenData(nftdb, first, last, data, type)
  /\ latest' = [latest EXCEPT ![type] = [t \in TokenId |-> IF t \in first..last THEN data ELSE @[t]]]
  /\ UNCHANGED <<mp_tally, stateFiles, reorgs, shutdown, allSent>>

\* Its check for a non-fungible property looks at the native property of the
\* ecosystem, so it passes.
logicMath_SendAll(sender, receiver) ==
  /\ Balance(sender) > 0
  /\ mp_tally' = Move(mp_tally, sender, BALANCE, receiver, BALANCE, property, Balance(sender))
  /\ allSent' = IF reorgs > 0 THEN allSent
                ELSE [a \in Address |-> allSent[a] + Balance(a)' - Balance(a)]
  /\ UNCHANGED <<nftdb, stateFiles, reorgs, shutdown, latest>>

\* The end of a block: the counts are compared and the ledger is saved.
BlockEnd ==
  /\ Len(stateFiles) <= MaxBlocks
  /\ shutdown' = ~SanityCheck
  /\ stateFiles' = Append(stateFiles, mp_tally)
  /\ UNCHANGED <<mp_tally, nftdb, reorgs, latest, allSent>>

\* The first block of another chain that leaves the active one after a block
\* whose ledger was saved.
RewindDBsAndState(height) ==
  /\ reorgs < MaxReorgs
  /\ reorgs' = reorgs + 1
  /\ mp_tally' = stateFiles[height]
  /\ stateFiles' = SubSeq(stateFiles, 1, height)
  /\ allSent' = [a \in Address |-> 0]
  /\ UNCHANGED <<nftdb, shutdown, latest>>

Next ==
  /\ ~shutdown
  /\ \/ \E sender, receiver \in Address :
          \/ \E amount \in Amounts, info \in Info : GrantTokens(sender, receiver, amount, info)
          \/ \E range \in TokenRange :
               logicMath_SendNonFungible(sender, receiver, range[1], range[2])
          \/ logicMath_SendAll(sender, receiver)
     \/ \E sender \in Address, range \in DataRanges, data \in Info, type \in DataTypes :
          logicMath_NonFungibleData(sender, range[1], range[2], data, type)
     \/ BlockEnd
     \/ \E height \in DOMAIN stateFiles : RewindDBsAndState(height)

Spec == Init /\ [][Next]_vars

-----------------------------------------------------------------------------
(* Properties *)

\* Every range the database holds is well formed and has an owner or data,
\* and no entry of the ledger is negative or too large.
TypeOK ==
  /\ mp_tally \in TallyMap
  /\ \A type \in NonFungibleStorage :
       /\ DOMAIN nftdb[type] \subseteq TokenRange
       /\ \A r \in DOMAIN nftdb[type] :
            nftdb[type][r] \in IF type = RangeIndex THEN Address ELSE Info
  /\ shutdown \in BOOLEAN

\* After any grants and transfers, merges and splits every token up to the
\* highest is in exactly one range, and neighbouring ranges have different
\* owners, so that an owner can send any run of tokens in one transaction
\* (GetNonFungibleTokenValueInRange looks for a single range).
RangesPartition ==
  LET ranges == DOMAIN nftdb[RangeIndex]
  IN  /\ \A t \in 1..GetHighestRangeEnd(nftdb) : \E r \in ranges : t \in r[1]..r[2]
      /\ \A r, q \in ranges : r # q =>
           /\ r[1]..r[2] \cap q[1]..q[2] = {}
           /\ r[2] + 1 = q[1] => nftdb[RangeIndex][r] # nftdb[RangeIndex][q]

\* SanityCheck never stops the node.
SanityCheckPasses == ~shutdown

OwnedTokens(a) == {t \in 1..GetHighestRangeEnd(nftdb) : GetNonFungibleTokenValue(nftdb, t, RangeIndex) = a}

\* Before a reorganization the ledger counts for every address the tokens the
\* database says it owns, up to what "send all" moved: no other transaction
\* changes one without the other.
LedgerFollowsRanges ==
  reorgs = 0 => \A a \in Address : Balance(a) = Cardinality(OwnedTokens(a)) + allSent[a]

\* However the ranges of data overlap and are cut, setting data never removes
\* data from a token and never puts data on a token it was not set on.
DataPresence ==
  \A type \in DataTypes, t \in TokenId :
    GetNonFungibleTokenValue(nftdb, t, type) = NoValue <=> latest[type][t] = NoValue

\* A token has the data that was last set on it.
DataIsLatest ==
  \A type \in DataTypes, t \in TokenId :
    GetNonFungibleTokenValue(nftdb, t, type) = latest[type][t]

\* Grants and transfers of ranges implement the ownership of single tokens:
\* a grant adds new tokens, a transfer gives tokens of the sender and no others
\* to the receiver.
Ownership == INSTANCE TokenOwnership WITH
  owner <- [t \in 1..GetHighestRangeEnd(nftdb) |-> GetNonFungibleTokenValue(nftdb, t, RangeIndex)]

OwnershipSpec == Ownership!Spec
=============================================================================
