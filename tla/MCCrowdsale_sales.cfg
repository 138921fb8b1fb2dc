SPECIFICATION FairSpec
CONSTANTS
  Address = {"alice", "bob"}
  Property <- MCProperty
  MAX_INT = 1120
  Base <- MCBase
  Indivisible = {2}
  manager <- MCManager
  delegate <- MCDelegate
  Initial <- MCInitial
  Senders = {"alice", "bob"}
  Issuers = {"alice", "bob"}
  Amounts = {1, 11}
  Terms <- MCTerms
  Times = {1, 2, 3}
  WEEK = 12
  HUNDRED = 10
  SATOSHI = 11
  MaxTxs = 2
INVARIANTS
  TypeOK
  SaleCountsTokens
  SaleBelongsToIssuer
  NoSaleAfterDeadline
  IssuerGetsBonus
  MaxedSaleIsSoldOut
  PurchasesAreFair
  ThresholdsKnowSales
PROPERTIES
  EverySaleEnds
