SPECIFICATION Spec
CONSTANTS
  b1 = b1
  b2 = b2
  None = None
  Bidder = {b1}
  Cap = 20
  Offset = 1
  Modes <- AllModes
  FixedPrice = 6
  RefLoads = {6}
  RefQuantity = 2
  RefPrice = 10
  Warmup = FALSE
  WarmSamples = 0
  Period = 1
  Latency = 0
  Stats = {}
  IgnoreCap = FALSE
  InitPrice = 0
  Prices <- MCPrices
  Quantities <- MCQuantities
  States = {"on"}
  StalePrices <- MCStale
  MaxBids <- TwoTwo
  MaxKeys = 0
  MaxMarket = 1
PROPERTIES
  MostTraded
  PriceServes
  ResponsivePrice
CHECK_DEADLOCK FALSE
