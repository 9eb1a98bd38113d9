SPECIFICATION MCSpec
CONSTANTS
  Sources <- ThreeSources
  Symbols = {"MSFT"}
  EarlySymbols = {"MSFT"}
  Names = {"n1"}
  Figis = {"f1"}
  Sample <- SampleOne
  Marks = {"delisting_suspected"}
  MaxDay = 1
  Codes = {1, 2}
  TradingDays <- OneHoliday
  Turnovers = {1}
  TrailingDays = 1
  Commands = {c1, c2}
  LastDay = 2
  FirstYear = 1899
  FirstWeekday = 6
  LastYear = 2100
  Keys = {k1, k2}
  MaxJobs = 3
SYMMETRY Alike
INVARIANTS
  LedgerExplainsTables
  ClosedWhenDefined
  AllowedFitsIndex
PROPERTIES
  UniverseIsReported
  ActiveExchangeWins
CHECK_DEADLOCK FALSE
