SPECIFICATION Spec
CONSTANTS
  a1 = a1
  a2 = a2
  a3 = a3
  Address = {a1, a2}
  Property = {3}
  property = 3
  issuer = a1
  MAX_INT = 4
  Info = {"x"}
  DataTypes = {"H"}
  DataRanges <- MCDataRanges
  Amounts = {1, 3}
  IssuerOnly = TRUE
  MaxGrants = 2
  MaxBlocks = 1
  MaxReorgs = 1
INVARIANTS
  TypeOK
  RangesPartition
  DataPresence
  LedgerFollowsRanges
PROPERTIES
  OwnershipSpec
CHECK_DEADLOCK FALSE
