---------------------------- MODULE UniverseLoader ----------------------------
\* The combined universe loader: discovery sources asked one after the other,
\* their candidates persisted as listings with names and identifiers, and the
\* supported universe projected from what they reported, all in one transaction
\* of one command, while operators change the launch scope.
\*
\* The loaders of the source registry only ever report stocks, and only when
\* stocks are in scope, so the instrument type is a Boolean of the scope.  Every
\* listing gets an instrument of its own, so the two tables are one here, and the
\* check that selected listings have different instruments cannot fail.
\*
\* Commands run one after the other; what a run wrote is visible once it commits.
EXTENDS Naturals, Sequences, FiniteSets

CONSTANTS
  Sources,        \* sequence: the sources of the runtime roles, in their order
  Symbols,        \* tickers
  EarlySymbols,   \* the tickers whose first letter is before N
  Names, Figis,   \* what sources may call an instrument
  Sample,         \* Exchanges -> Symbols: the ticker YFINANCE is asked about
  Marks,          \* statuses set by rules outside the repository
  MaxDay          \* bound on the days

Exchanges == {"NYSE", "NASDAQ"}
Listings  == Exchanges \X Symbols
NoName    == "unknown"     \* of a listing that is not on record
NoState   == "no_state"
Visible   == {"supported", "not_yet_signal_eligible", "delisting_suspected"}
Registry  == {"NASDAQ_TRADER", "NYSE", "AKSHARE", "YFINANCE", "OPENFIGI"}

Parameters ==
  /\ Sources \in Seq(Registry)
  /\ Sample \in [Exchanges -> Symbols]
  /\ NoName \notin Names \cup Symbols
  /\ Marks \subseteq {"not_yet_signal_eligible", "delisting_suspected", "historical_only"}
  /\ MaxDay \in Nat
ASSUME LoaderParameters == Parameters

VARIABLES
  active,   \* the exchanges in launch scope
  stocks,   \* is the instrument type STOCK in launch scope
  tables,   \* [name, ids]: listings with their instrument's name; identifier records
  ledger,   \* [name, status]: what the last change record of a listing says of each
  status,   \* listing -> its supported-universe status
  run,      \* the loader's transaction
  today,
  reported  \* listing -> the last day a committed run was told of it
vars == <<active, stocks, tables, ledger, status, run, today, reported>>

NotRunning == [at |-> 0]
Running == run.at > 0
Asking  == run.at \in DOMAIN Sources

Init ==
  /\ active = Exchanges
  /\ stocks = TRUE
  /\ tables = [name |-> [l \in Listings |-> NoName], ids |-> {}]
  /\ ledger = [name |-> [l \in Listings |-> NoName], status |-> [l \in Listings |-> NoState]]
  /\ status = [l \in Listings |-> NoState]
  /\ run = NotRunning
  /\ today = 0
  /\ reported = [l \in Listings |-> 0]

\* ------------------------------------------------------------ the launch scope

\* set_supported_exchanges and set_supported_instrument_types.
SetExchanges(codes) ==
  /\ active' = codes
  /\ UNCHANGED <<stocks, tables, ledger, status, run, today, reported>>

SetInstrumentTypes(withStocks) ==
  /\ stocks' = withStocks
  /\ UNCHANGED <<active, tables, ledger, status, run, today, reported>>

\* seed_launch_baseline_records puts every launch exchange and type back in scope.
SeedBaseline ==
  /\ active' = Exchanges
  /\ stocks' = TRUE
  /\ UNCHANGED <<tables, ledger, status, run, today, reported>>

\* Rules outside the repository move a state to another status and record it; the
\* projection reads these statuses.
Mark(l, mark) ==
  /\ status[l] # NoState
  /\ status' = [status EXCEPT ![l] = mark]
  /\ ledger' = [ledger EXCEPT !.status[l] = mark]
  /\ UNCHANGED <<active, stocks, tables, run, today, reported>>

NewDay ==
  /\ today < MaxDay
  /\ today' = today + 1
  /\ UNCHANGED <<active, stocks, tables, ledger, status, run, reported>>

\* ------------------------------------------------- what the registry can report

Candidate(source, exchange, symbol, name, id) ==
  [source |-> source, listing |-> <<exchange, symbol>>, name |-> name, id |-> id]

ExchangeByLetter(symbol) == IF symbol \in EarlySymbols THEN "NYSE" ELSE "NASDAQ"
PreferredExchange(exchanges) ==
  IF "NYSE" \in exchanges THEN {"NYSE"} ELSE exchanges \cap {"NASDAQ"}

\* The candidates a source may report to a run of this scope.
Offers(source, exchanges, withStocks) ==
  IF ~withStocks THEN {} ELSE
  CASE source = "NASDAQ_TRADER" ->
         {Candidate(source, x, s, n, s) : x \in exchanges \cap {"NASDAQ"}, s \in Symbols, n \in Names}
    [] source = "NYSE" ->
         {Candidate(source, x, s, n, s) : x \in exchanges \cap {"NYSE"}, s \in Symbols, n \in Names \cup Symbols}
    [] source = "AKSHARE" ->
         {c \in {Candidate(source, ExchangeByLetter(s), s, n, s) : s \in Symbols, n \in Names \cup Symbols} :
            c.listing[1] \in exchanges}
    [] source = "YFINANCE" ->
         {Candidate(source, x, Sample[x], Sample[x], Sample[x]) : x \in exchanges}
    [] source = "OPENFIGI" ->
         {Candidate(source, x, s, n, f) :
            x \in PreferredExchange(exchanges), s \in Symbols, n \in Names \cup Symbols, f \in Figis}

\* ------------------------------------------------------------------ a loader run

StartRun ==
  /\ ~Running
  /\ run' = [at |-> 1, exchanges |-> active, stocks |-> stocks, seen |-> {},
             name |-> tables.name, ids |-> tables.ids, told |-> ledger.name]
  /\ UNCHANGED <<active, stocks, tables, ledger, status, today, reported>>

\* The records of a listing and provider after a candidate: one, with its value.
Upserted(ids, c) ==
  {r \in ids : ~(r.listing = c.listing /\ r.source = c.source)}
    \cup {[listing |-> c.listing, source |-> c.source, id |-> c.id]}

\* The unique constraint: a provider's identifier names one listing.
FitsConstraint(ids) ==
  \A r, q \in ids : r.source = q.source /\ r.id = q.id => r.listing = q.listing

\* A faulty variant: only a new listing leaves a record of its name.
NameOnRecord_OfNewOnly(c) ==
  IF run.name[c.listing] = NoName THEN [run.told EXCEPT ![c.listing] = c.name] ELSE run.told

\* A new listing and a changed name each leave a change record.
NameOnRecord(c) ==
  IF run.name[c.listing] # c.name THEN [run.told EXCEPT ![c.listing] = c.name] ELSE run.told

\* persist_discovery_candidates, one candidate: a later one overwrites the name.
Ingest(c) ==
  /\ FitsConstraint(Upserted(run.ids, c))
  /\ run' = [run EXCEPT !.seen = @ \cup {c.listing}, !.name[c.listing] = c.name,
                        !.ids = Upserted(@, c), !.told = NameOnRecord(c)]
  /\ UNCHANGED <<active, stocks, tables, ledger, status, today, reported>>

\* The source's answer is at its end, which may be at once.
NextSource ==
  /\ Asking
  /\ run' = [run EXCEPT !.at = @ + 1]
  /\ UNCHANGED <<active, stocks, tables, ledger, status, today, reported>>

\* A source that raises, a rejected insert or a kill: nothing of the run remains.
Abort ==
  /\ Running
  /\ run' = NotRunning
  /\ UNCHANGED <<active, stocks, tables, ledger, status, today, reported>>

\* The rows the projection looks at: known listings in the scope the run started with.
Scoped == {l \in Listings : run.name[l] # NoName /\ l[1] \in run.exchanges /\ run.stocks}
Selected == run.seen \cap Scoped

\* A faulty variant: a removed row of another status is dropped unrecorded.
StatusOnRecord_SupportedOnly ==
  [l \in Listings |->
     IF l \in Selected /\ status[l] # "supported" THEN "supported"
     ELSE IF l \in Scoped \ Selected /\ status[l] = "supported" THEN "removed"
     ELSE ledger.status[l]]

\* Added, restored, excluded or degraded, and removed: the status they end in.
StatusOnRecord ==
  [l \in Listings |->
     IF l \in Selected /\ status[l] # "supported" THEN "supported"
     ELSE IF l \in Scoped \ Selected /\ status[l] # NoState THEN "removed"
     ELSE ledger.status[l]]

\* A faulty variant: rows of unselected listings stay.
Projected_NothingRemoved == [l \in Listings |-> IF l \in Selected THEN "supported" ELSE status[l]]

Projected ==
  [l \in Listings |-> IF l \in Selected THEN "supported"
                      ELSE IF l \in Scoped THEN NoState
                      ELSE status[l]]

\* All sources asked: project_supported_universe_state, and the command's commit.
Finish ==
  /\ run.at = Len(Sources) + 1
  /\ tables' = [name |-> run.name, ids |-> run.ids]
  /\ ledger' = [name |-> run.told, status |-> StatusOnRecord]
  /\ status' = Projected
  /\ reported' = [l \in Listings |-> IF l \in run.seen THEN today ELSE reported[l]]
  /\ run' = NotRunning
  /\ UNCHANGED <<active, stocks, today>>

Next ==
  \/ \E codes \in SUBSET Exchanges : SetExchanges(codes)
  \/ \E withStocks \in BOOLEAN : SetInstrumentTypes(withStocks)
  \/ SeedBaseline
  \/ \E l \in Listings, mark \in Marks : Mark(l, mark)
  \/ NewDay
  \/ StartRun
  \/ Asking /\ \E c \in Offers(Sources[run.at], run.exchanges, run.stocks) : Ingest(c)
  \/ NextSource
  \/ Abort
  \/ Finish

Spec == Init /\ [][Next]_vars

-------------------------------------------------------------------------------

\* The change records explain the committed tables: the last one about a listing
\* gives its name, and the last one about its support gives its status, or says
\* removed when it has none.  Names change several times within a run, runs abort,
\* and statuses move between runs.
LedgerExplainsTables ==
  \A l \in Listings :
    /\ ledger.name[l] = tables.name[l]
    /\ IF status[l] = NoState THEN ledger.status[l] \in {NoState, "removed"}
       ELSE ledger.status[l] = status[l]

\* When a run ends, the listings of its scope that are in the universe are exactly
\* those some source reported to it, whatever was supported, marked or renamed before.
UniverseIsReported ==
  [][Finish =>
       \A l \in Listings : l[1] \in run.exchanges /\ run.stocks =>
         (status'[l] # NoState <=> l \in run.seen)]_vars

-----------------------------------------------------------------------------
\* Claims of the documents and comments that the code does not keep: TLC refutes
\* each of them (README, "Where the code and its documents disagree").

\* "Supported state is created only for configured exchanges and instrument types":
\* when a run ends and its scope is still the configured one, what the app shows
\* lies in that scope.  It does not: the projection leaves the rows outside it alone.
VisibleInScope ==
  [][Finish /\ active = run.exchanges =>
       \A l \in Listings : status'[l] \in Visible => l[1] \in active]_vars

\* "The system must record symbol, name, and identifier changes": whatever a source
\* may answer can be persisted.  It cannot: an identifier that moved to another
\* listing violates the unique constraint, and aborts every run it is reported to.
IdentifierChangeFits ==
  Asking => \A c \in Offers(Sources[run.at], run.exchanges, run.stocks) :
              FitsConstraint(Upserted(run.ids, c))

\* "Delisted instruments must leave the supported universe after a 5-day buffer": a
\* listing that leaves was last reported at least MaxDay days ago.  One answer it is
\* missing from is enough.
LeavesAfterBuffer ==
  [][\A l \in Listings : status[l] = "supported" /\ status'[l] = NoState =>
       today - reported[l] >= MaxDay]_vars

\* "Exactly one listing per entity is marked supported": a ticker of the American
\* exchanges is one entity.  AKSHARE guesses the exchange of a ticker by its letter.
OneListingPerEntity ==
  \A s \in Symbols : Cardinality({x \in Exchanges : status[<<x, s>>] = "supported"}) <= 1
===============================================================================
