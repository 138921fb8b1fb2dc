SPECIFICATION Spec
CONSTANTS
  Address = {1, 2, 3}
  Property = {1, 3}
  COUNOS_PROPERTY_MSC = 1
  COUNOS_FEE_THRESHOLD = 3
  MAX_STATE_HISTORY = 1
  msc_debug_fees = TRUE
  MAX_INT = 20
  Initial <- MCInitial
  Senders = {2}
  Amounts = {1, 3}
  exodus = 1
  Delta <- MCDelta
  feePerOwner <- MCFeePerOwner
  Faults = {"reorg", "restart", "crash"}
  MaxBlocks = 3
  MaxEvents = 3
INVARIANTS
  Conserved
  SharesAddUp
  BelowThreshold
CHECK_DEADLOCK FALSE
