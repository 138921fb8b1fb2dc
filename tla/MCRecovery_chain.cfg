SPECIFICATION Spec
CONSTANTS
  Address = {1, 2}
  Property = {3}
  Feature = {"freezenotice", "newer"}
  MIN_ACTIVATION_BLOCKS = 1
  MAX_ACTIVATION_BLOCKS = 2
  COUNOSCORE_VERSION = 1
  NEVER = 99
  COUNOS_FREEZE_WAIT_PERIOD = 1
  Issuer = 1
  Holding = 1
  Contents <- MCContents
  MAX_STATE_HISTORY = 1
  STORE_EVERY_N_BLOCK = 2
  WarpModeHeights = {0, 4, 9}
  KeyLimit = 10
  Excluded <- MCExcluded
  MaxHeight = 4
  MaxBlocks = 4
  MaxTxs = 3
  MaxStops = 1
  Damages = TRUE
INVARIANTS
  FollowsChain
  FilesHoldTheirBlock
  StartsAgain
  OldNodeStops
CHECK_DEADLOCK FALSE
