------------------------------ MODULE Providers ------------------------------
\* What becomes of providers' answers: the source probes, the validation runs, the
\* selection of opening prices and the reliability scores side by side.  The four
\* share no state here (the tables of prices are written by commands that do not
\* overlap), so the last three are instances with variables of their own.
EXTENDS SourceProbeRun

CONSTANTS
  RunKeys, Exchanges, Quotable, ExchangeOf, InstrumentOf, Rank,   \* of the validation runs
  Quotes, RequestLists, Loads, MaxAttempts,
  Providers, Listings, Unknown, Values, Attempts, Times,          \* of the price selection
  Offered, Policies, MaxAnswer, MaxRows,
  Pairs, Windows, MaxCount                                        \* of the reliability scores

VARIABLES
  runs, session, supported, candidates, attempts,
  logged, rows, prices, last,
  score, folded

Validation == INSTANCE ValidationRun
                WITH Keys <- RunKeys, Listings <- Quotable, Values <- Quotes
Selection  == INSTANCE OpeningPriceSelection
Scores     == INSTANCE ReliabilityScore

\* The properties of the instances, stated in their modules: a recorded run never
\* changes, and one that succeeded fetched what it asked for; the price is that of the
\* best candidate, for the reason given, and a rerun keeps it; a mean is between windows.
RecordedRunIsFinal    == Validation!RecordedRunIsFinal
SucceededMeansFetched == Validation!SucceededMeansFetched
PriceIsBest           == Selection!PriceIsBest
ReasonExplains        == Selection!ReasonExplains
RerunChangesNothing   == Selection!RerunChangesNothing
MeanBetweenWindows    == Scores!MeanBetweenWindows
===============================================================================
