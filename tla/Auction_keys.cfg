SPECIFICATION Spec
CONSTANTS
  b1 = b1
  b2 = b2
  None = None
  Bidder = {b1, b2}
  Cap = 2
  Offset = 1
  Modes <- MCModes
  FixedPrice = 0
  RefLoads = {0}
  RefQuantity = 0
  RefPrice = 0
  Warmup = TRUE
  WarmSamples = 1
  Period = 2
  Latency = 4
  Stats <- MCStats
  IgnoreCap = FALSE
  InitPrice = 2
  Prices <- KeyPrices
  Quantities <- KeyQuantities
  States = {"on", "off"}
  StalePrices = {0}
  MaxBids <- KeyBids
  MaxKeys = 1
  MaxMarket = 4
INVARIANTS
  KeysApart
  TotalsRight
  CurrentOnTime
  MeansRight
PROPERTIES
  MarketsInOrder
SYMMETRY Bidders
CHECK_DEADLOCK FALSE
