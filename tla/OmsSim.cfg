SPECIFICATION FairSpec
CONSTANTS
  Capacity = 2
  GenMod = 4
  Grace = 0
  MaxReuse = 1
  MaxOrders = 2
  SeqMod = 4
  UnknownFillThreshold = 0
  Venues <- OneVenue
  Venue = 0
  Instruments = {btc}
  btc = btc
  Requests <- BuyTwoSellAtMarket
  Quantities <- ReportedQuantities
  Prices <- FillPrices
  Trades <- TradeIds
  Step = 1
  AckLatency = 1
  FillLatency = 1
  FillGap = 1
  Chunks = 2
  ReorderFillBeforeAck = TRUE
  MayReject = TRUE
  MayCancel = TRUE
  MayDuplicate = TRUE
  Injected = {"Unsolicited"}
  MaxQueue = 3
INVARIANTS
  NoDrift
  SameOpenOrders
PROPERTIES
  OrdersEventuallyEnd
  KeepsLedger
