SPECIFICATION SysSpec
CONSTANTS
  Capacity = 2
  GenMod = 4
  Grace = 1
  MaxReuse = 1
  MaxOrders = 2
  SeqMod = 4
  UnknownFillThreshold = 0
  Venues <- OneVenue
  VenueNo = 0
  Instruments = {btc}
  btc = btc
  Requests <- BuyTwo
  Quantities <- ReportedQuantities
  Prices <- FillPrices
  Trades <- TradeIds
  Reorder = TRUE
  Duplicate = TRUE
  MayCancelUnasked = FALSE
  Lose = FALSE
  MaxReports = 2
CHECK_DEADLOCK FALSE
INVARIANTS
  SettledBooksAgree
