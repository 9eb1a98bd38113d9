SPECIFICATION TableSpec
CONSTANTS
  Exchanges <- MCExchanges
  Listings <- MCListings
  ExchangeOf <- MCExchangeOf
  ExpectedToday = {1}
PROPERTY
  PublishedIndependently
