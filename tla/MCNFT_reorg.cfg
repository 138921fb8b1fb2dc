SPECIFICATION Spec
CONSTANTS
  a1 = a1
  a2 = a2
  a3 = a3
  Address = {a1, a2}
  Property = {3}
  property = 3
  issuer = a1
  MAX_INT = 3
  Info = {"x"}
  DataTypes = {}
  DataRanges = {}
  Amounts = {1}
  IssuerOnly = TRUE
  MaxGrants = 3
  MaxBlocks = 2
  MaxReorgs = 1
INVARIANT
  SanityCheckPasses
CHECK_DEADLOCK FALSE
