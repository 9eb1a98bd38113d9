SPECIFICATION MCSpec
CONSTANTS
  Workers = {w1, w2}
  First = w1
  Commands = {"non_keyed", "keyed_a"}
  Sources = {"STOOQ", "FMP"}
  Selections <- TwoFamilies
  Keys = {k1}
  RunKeys = {r1, r2}
  Exchanges <- TwoExchanges
  Quotable <- Cez
  ExchangeOf <- OfPrague
  InstrumentOf <- ItsOwn
  Rank <- NyseFirst
  Quotes = {1}
  RequestLists <- FourRequestLists
  Loads <- OneLoad
  MaxAttempts = 2
  Providers = {"A", "B", "C"}
  Listings = {l1}
  Unknown = ghost
  Values = {1, 2}
  Attempts = {k}
  Times = {t}
  Offered <- Offers
  Policies <- FourPolicies
  MaxAnswer = 3
  MaxRows = 3
  Pairs = {p}
  Windows <- FourWindows
  MaxCount = 7
SYMMETRY RunKeySymmetry
INVARIANTS
  SelectableWasAvailable
  SucceededMeansFetched
  PriceIsBest
  ReasonExplains
  MeanBetweenWindows
PROPERTIES
  CommitRecordsReported
  RecordedRunIsFinal
  RerunChangesNothing
