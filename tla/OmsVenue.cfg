SPECIFICATION SysSpec
CONSTANTS
  Capacity = 1
  GenMod = 3
  Grace = 1
  MaxReuse = 1
  MaxOrders = 1
  SeqMod = 4
  UnknownFillThreshold = 0
  Venues <- OneVenue
  VenueNo = 0
  Instruments = {btc}
  btc = btc
  Requests <- BuyThreeSellTwo
  Quantities <- ReportedQuantities
  Prices <- FillPrices
  Trades <- TradeIds
  Reorder = FALSE
  Duplicate = TRUE
  MayCancelUnasked = TRUE
  Lose = TRUE
  MaxReports = 4
CHECK_DEADLOCK FALSE
INVARIANTS
  SettledBooksAgree
  NeverAheadOfVenue
PROPERTIES
  LostRacesStayBenign
