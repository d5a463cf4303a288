SPECIFICATION Spec
CONSTANTS
  Capacity = 2
  GenMod = 3
  Grace = 1
  MaxReuse = 1
  MaxOrders = 3
  SeqMod = 3
  UnknownFillThreshold = 0
  Venues <- OneVenue
  Instruments = {btc}
  Requests <- BuyTwoSellOne
  Quantities <- ReportedQuantities
  Prices <- FillPrices
  Trades = {t1, t2}
INVARIANTS
  TypeOK
  FreeListIsComplement
  SlotsAccountedFor
  PendingIsOpenRemainder
  BenignRejectsAreRaces
  CancelFlagTracksStatus
  FillWithinOrder
  StaleIdsNeverMatch
  HeadroomKeepsTrading
PROPERTIES
  TerminalIsFinal
  ExposureMovesWithIntent
CONSTANTS btc = btc eth = eth
