SPECIFICATION Spec
CONSTANTS
  Address = {1, 2}
  Property = {1, 3, 4}
  COUNOS_PROPERTY_MSC = 1
  COUNOS_FEE_THRESHOLD = 3
  MAX_STATE_HISTORY = 1
  msc_debug_fees = TRUE
  MAX_INT = 20
  Supply <- MCSupply
  distributionThresholds <- MCThresholds
  FeeDivider = 2
  InitFeatures = {"metadex", "allpairs", "fees"}
  Switchable = {"metadex", "allpairs"}
  Terms <- MCTerms
  Pairs <- MCPairs
  Reorgs = TRUE
  MaxOrders = 3
  MaxSwitches = 2
  MaxBlocks = 3
INVARIANTS
  TypeOK
  PricesKept
  CrossedOnlyByRounding
  SalesAccountedFor
  OrdersClosed
  ReserveBacksOrders
  Conserved
CHECK_DEADLOCK FALSE
