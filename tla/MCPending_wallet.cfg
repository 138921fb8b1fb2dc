SPECIFICATION FairSpec
CONSTANTS
  a1 = a1
  a2 = a2
  t1 = t1
  t2 = t2
  Address = {a1, a2}
  Wallet = {a1}
  Elsewhere = {a2}
  Token = {1, 2}
  TxId = {1, 2}
  Thread = {t1, t2}
  Cancels = FALSE
  MaxReorgs = 1
INVARIANT
  PendingMatches
PROPERTY
  EveryPendingEnds
