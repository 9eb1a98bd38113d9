SPECIFICATION TableSpec
CONSTANTS
  Exchanges <- MCExchanges
  Listings <- MCListings
  ExchangeOf <- MCExchangeOf
  ExpectedToday = {1}
INVARIANTS
  TypeOK
  ReadyMeansPriced
  CommittedStatusCurrent
  BlockedRowShowsCause
PROPERTIES
  QuietRunPublishes
  RerunIdempotent
  MarketClosedKept
  ImplementsPublication
