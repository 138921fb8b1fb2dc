SPECIFICATION Spec
CONSTANTS
  seller = seller
  buyer = buyer
  buyer2 = buyer2
  tokens = 3
  Address = {seller, buyer, buyer2}
  Property = {1}
  MAX_INT = 100
  Txid = {t1, t2, t3}
  Supply <- MCSupply
  InitFeatures = {"dexmath", "freedex"}
  Switchable = {}
  KeyOrder <- MCKeyOrder
  OfferAmounts = {2, 3}
  Desired = {4}
  Windows = {1, 2}
  Fees = {0}
  Payments = {1}
SYMMETRY Symmetry
INVARIANTS
  AcceptsBacked
  ReserveHasOffer
  OfferNotOversold
  AcceptsLive
  InstalmentsCredited
  ExpiryOrderIrrelevant
PROPERTIES
  AcceptEndsByPaymentOrExpiry
  LedgerSpec
