SPECIFICATION FairSpec
CONSTANTS
  seller = seller
  buyer = buyer
  buyer2 = buyer2
  tokens = 2
  Address = {seller, buyer}
  Property = {1}
  MAX_INT = 100
  Txid = {t1, t2, t3}
  Supply <- MCSupply
  InitFeatures = {}
  Switchable = {"dexmath", "freedex"}
  KeyOrder <- MCKeyOrder
  OfferAmounts = {0, 3}
  Desired = {0, 5}
  Windows = {0, 1}
  Fees = {0}
  Payments = {1, 2}
INVARIANT
  TypeOK
PROPERTY
  EveryAcceptEnds
