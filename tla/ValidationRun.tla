---------------------------- MODULE ValidationRun ----------------------------
\* Launch validation runs: a run under a key asks the concrete provider for quotes,
\* fills four result buckets for each target exchange from the tables, and gives
\* each a verdict, all in one transaction.  Meanwhile the opening loads and the
\* universe loader commit candidates, attempts and supported listings, which the
\* statements of a run see as soon as they are committed.
\*
\* Two runs under one key at a time: the second waits for the unique key, and fails
\* when the first commits; it does not exist before that.
EXTENDS Naturals, Sequences, FiniteSets

CONSTANTS
  Keys,         \* run keys
  Exchanges, Listings, ExchangeOf, InstrumentOf,
  Rank,         \* exchange -> its activity priority
  Values,       \* prices
  RequestLists, \* what a run may be asked to fetch: sequences of [exchange, symbol, listing]
  Loads,        \* what other jobs may store: [listing, type, value, benchmark, reference, kind]
  MaxAttempts   \* bound on the attempts on record

NoValue == 0
NoReference == "none"
Types   == {"current_day_unadjusted_open", "historical_adjusted_close"}
Buckets == {"discovery_listing", "completeness_timeliness",
            "disagreement_benchmark", "calendar_validation"}
Steps   == <<"discovery_listing", "completeness_timeliness",
             "disagreement_benchmark", "calendar_validation">>

Parameters ==
  /\ ExchangeOf \in [Listings -> Exchanges]
  /\ Keys \cap {"loads", "none"} = {}
  /\ Values \subseteq Nat \ {0}
  /\ \A requests \in RequestLists : DOMAIN requests = 1 .. Len(requests)
  /\ MaxAttempts \in Nat

VARIABLES
  runs,        \* run key -> its committed run, or NoRun
  session,     \* run key -> the transaction of the run, or Idle
  supported,   \* listings with status supported
  candidates,  \* candidate price values, each with the run it is of or "loads"
  attempts     \* the provider attempts by id, in the order of their requests, likewise
vars == <<runs, session, supported, candidates, attempts>>

NoRun == [state |-> "none"]
Idle  == [at |-> "idle"]
Terminal == {"succeeded", "failed"}

\* The attempts are a table; an id that is free is higher than every id in use.
AttemptIds == 1..MaxAttempts
NoAttempt  == [run |-> "none"]
FreeIds(rows) == {i \in AttemptIds : \A j \in AttemptIds : rows[j] # NoAttempt => j < i}
NewId(rows)   == CHOOSE i \in FreeIds(rows) : \A j \in FreeIds(rows) : i <= j

\* What the statements of a run see: its own rows and the committed ones.
Committed == {"loads"} \cup {k \in Keys : runs[k] # NoRun}
SeenBy(k, rows)       == {r \in rows : r.run \in Committed \cup {k}}
AttemptsSeen(k, x) ==
  {i \in AttemptIds :
     attempts[i].run \in Committed \cup {k} /\ attempts[i].exchange = x}
Of(x, rows) == {r \in rows : ExchangeOf[r.listing] = x}

Init ==
  /\ runs = [k \in Keys |-> NoRun]
  /\ session = [k \in Keys |-> Idle]
  /\ supported = {}
  /\ candidates = {}
  /\ attempts = [i \in AttemptIds |-> NoAttempt]

\* --------------------------------------------------------------- the four metrics

Peers(l, xs) == {p \in Listings : InstrumentOf[p] = InstrumentOf[l] /\ ExchangeOf[p] \in xs}

\* An exchange passes when it has supported listings, no instrument of them is
\* supported twice, and none is on a worse exchange than it could be.
DiscoveryListing(x, xs) ==
  LET mine == {l \in supported : ExchangeOf[l] = x}
  IN /\ mine # {}
     /\ \A l \in mine :
          /\ Cardinality(Peers(l, xs) \cap supported) <= 1
          /\ \A p \in Peers(l, xs) : Rank[x] <= Rank[ExchangeOf[p]]

ListingsPriced(k, type) == {c.listing : c \in {r \in SeenBy(k, candidates) : r.type = type}}
Covered(mine, priced) ==
  mine # {} /\ 100 * Cardinality(mine \cap priced) > 99 * Cardinality(mine)

Missed(i) == attempts[i].kind # "success"
LastFive(ids) == {i \in ids : Cardinality({j \in ids : j > i}) < 5}

\* Above 99% of the supported listings have candidates of both types, fewer than
\* three of the last five attempts failed or were late, and no attempt on record
\* was stale, incomplete or limited.  The listings were read by the three statements
\* before this one.
CompletenessTimeliness(k, x) ==
  LET seen == AttemptsSeen(k, x)
      read == session[k].read
      mine == {l \in read[1] : ExchangeOf[l] = x}
  IN /\ Covered(mine, read[2]) /\ Covered(mine, read[3])
     /\ seen # {}
     /\ Cardinality({i \in LastFive(seen) : Missed(i)}) < 3
     /\ \A i \in seen : attempts[i].kind \notin {"stale", "rate_limited"}

Datums(rows) == {<<c.listing, c.type>> : c \in rows}
RowsOf(d, rows) == {c \in rows : <<c.listing, c.type>> = d}
Disagreements(rows) == {d \in Datums(rows) : Cardinality({c.value : c \in RowsOf(d, rows)}) > 1}

\* The rows come in no stated order: any benchmark of a datum may be the first.
BenchmarksOf(d, rows) == {c.benchmark : c \in RowsOf(d, rows)} \ {NoValue}
Matches(d, rows, chosen) == chosen[d] \in {c.value : c \in RowsOf(d, rows)}
DisagreementBenchmark(rows, chosen) ==
  LET compared == {d \in Datums(rows) : BenchmarksOf(d, rows) # {}}
      missed   == {d \in compared : ~Matches(d, rows, chosen)}
  IN compared # {} /\ 100 * Cardinality(missed) <= 5 * Cardinality(compared)

\* Every calendar reference agrees with the calendar service, and there is one.
CalendarValidation(rows) ==
  /\ \E c \in rows : c.reference # NoReference
  /\ \A c \in rows : c.reference \in {NoReference, "agrees"}

\* ---------------------------------------------------------------------- a run

\* A faulty variant: a failed run is done again.
IsNew_RetriesFailed(k) == runs[k] = NoRun \/ runs[k].state = "failed"

\* A key whose run is on record gets that run back: the targets, the requests and
\* the reason to fail of the second call are ignored.
IsNew(k) == runs[k] = NoRun

\* _create_or_get_run_shell; a given reason to fail ends the run at once.
Start(k, xs, requests, failing) ==
  /\ IsNew(k) /\ session[k] = Idle
  /\ session' = [session EXCEPT ![k] =
       [at |-> IF failing THEN "failed" ELSE IF requests # <<>> THEN "requests" ELSE Steps[1],
        requested |-> requests, turn |-> 1, fetched |-> {}, read |-> <<>>,
        buckets |-> [x \in xs |-> [b \in Buckets |-> "pending"]],
        disagreed |-> [x \in xs |-> {}]]]
  /\ UNCHANGED <<runs, supported, candidates, attempts>>

Attempt(k, x, symbol, kind) == [run |-> k, exchange |-> x, symbol |-> symbol, kind |-> kind]
Quote(k, l, type, v) ==
  [run |-> k, listing |-> l, type |-> type, value |-> v,
   benchmark |-> NoValue, reference |-> NoReference]

\* The request whose turn it is; while there is one its exchange decides what happens.
Request(k) == session[k].requested[session[k].turn]
Requesting(k) == session[k].at = "requests" /\ session[k].turn <= Len(session[k].requested)
Known(k) == Request(k).exchange \in Exchanges

\* The attempt of a request is the row of its run, exchange and symbol: a later request
\* for the same symbol overwrites it, and the row is as recent as that request.
SameAttempt(row, k, request) ==
  row.run = k /\ row.exchange = request.exchange /\ row.symbol = request.symbol
Others(k, request) ==
  [i \in AttemptIds |->
     IF attempts[i] # NoAttempt /\ SameAttempt(attempts[i], k, request) THEN NoAttempt
     ELSE attempts[i]]
LogAttempt(k, request, kind) ==
  LET rows == Others(k, request) IN
  /\ FreeIds(rows) # {}
  /\ attempts' = [rows EXCEPT
       ![NewId(rows)] = Attempt(k, request.exchange, request.symbol, kind)]

\* One request answered, for a listing there is: its attempt, and a candidate of each type.
Fetch(k, v) ==
  /\ Requesting(k) /\ Known(k) /\ Request(k).listing \in Listings
  /\ session' = [session EXCEPT ![k].turn = @ + 1, ![k].fetched = @ \cup {session[k].turn}]
  /\ LogAttempt(k, Request(k), "success")
  /\ candidates' = candidates \cup {Quote(k, Request(k).listing, type, v) : type \in Types}
  /\ UNCHANGED <<runs, supported>>

\* A request that fails, or whose listing does not exist: the attempt says so, whatever
\* it said before.
FailFetch(k) ==
  /\ Requesting(k) /\ Known(k)
  /\ session' = [session EXCEPT ![k].turn = @ + 1]
  /\ LogAttempt(k, Request(k), "error")
  /\ UNCHANGED <<runs, supported, candidates>>

\* A request for an exchange that does not exist ends the run; what was fetched stays.
UnknownExchange(k) ==
  /\ Requesting(k) /\ ~Known(k)
  /\ session' = [session EXCEPT ![k].at = "failed"]
  /\ UNCHANGED <<runs, supported, candidates, attempts>>

RequestsDone(k) == session[k].at = "requests" /\ session[k].turn > Len(session[k].requested)

\* A faulty variant: the answers are not counted.
AllFetched_Uncounted(k) ==
  /\ RequestsDone(k)
  /\ session' = [session EXCEPT ![k].at = Steps[1]]
  /\ UNCHANGED <<runs, supported, candidates, attempts>>

\* No answer at all fails the run.
AllFetched(k) ==
  /\ RequestsDone(k)
  /\ session' = [session EXCEPT ![k].at = IF session[k].fetched = {} THEN "failed" ELSE Steps[1]]
  /\ UNCHANGED <<runs, supported, candidates, attempts>>

Status(passed) == IF passed THEN "pass" ELSE "fail"
Targets(k) == DOMAIN session[k].buckets

\* The next metric is computed for every target exchange.
Measure(k, i, passed(_)) ==
  /\ session[k].at = Steps[i]
  /\ session' = [session EXCEPT
       ![k].at = IF i = Len(Steps) THEN "succeeded" ELSE Steps[i + 1],
       ![k].buckets = [x \in Targets(k) |-> [@[x] EXCEPT ![Steps[i]] = Status(passed(x))]],
       ![k].disagreed = IF i # 3 THEN @
                        ELSE [x \in Targets(k) |-> Disagreements(Of(x, SeenBy(k, candidates)))]]
  /\ UNCHANGED <<runs, supported, candidates, attempts>>

MeasureDiscovery(k) ==
  session[k].at = Steps[1] /\ Measure(k, 1, LAMBDA x : DiscoveryListing(x, Targets(k)))

\* The second metric is four statements: the supported listings, those with a daily and
\* those with a historical candidate, and the attempts.
ReadListings(k) ==
  /\ session[k].at = Steps[2] /\ Len(session[k].read) < 3
  /\ session' = [session EXCEPT ![k].read =
       Append(@, CASE Len(@) = 0 -> supported
                   [] Len(@) = 1 -> ListingsPriced(k, "current_day_unadjusted_open")
                   [] Len(@) = 2 -> ListingsPriced(k, "historical_adjusted_close"))]
  /\ UNCHANGED <<runs, supported, candidates, attempts>>
MeasureCompleteness(k) ==
  /\ session[k].at = Steps[2] /\ Len(session[k].read) = 3
  /\ Measure(k, 2, LAMBDA x : CompletenessTimeliness(k, x))

MeasureDisagreement(k) ==
  LET rows == SeenBy(k, candidates)
      benched == {d \in Datums(rows) : BenchmarksOf(d, rows) # {}}
  IN \E chosen \in [benched -> {c.benchmark : c \in rows}] :
       /\ \A d \in benched : chosen[d] \in BenchmarksOf(d, rows)
       /\ Measure(k, 3, LAMBDA x : DisagreementBenchmark(Of(x, rows), chosen))
MeasureCalendar(k) == Measure(k, 4, LAMBDA x : CalendarValidation(Of(x, SeenBy(k, candidates))))

\* A verdict is pending when the run failed; the Prague exchange is never dropped.
Verdict(k, x) ==
  IF session[k].at = "failed" THEN "pending"
  ELSE IF \A b \in Buckets : session[k].buckets[x][b] = "pass" THEN "pass"
  ELSE IF x = "PSE" THEN "blocked"
  ELSE "fail"

\* The verdicts, and the command's commit.
Finish(k) ==
  /\ session[k].at \in Terminal
  /\ runs' = [runs EXCEPT ![k] =
       [state |-> session[k].at, requested |-> session[k].requested,
        verdict |-> [x \in Targets(k) |-> Verdict(k, x)],
        buckets |-> session[k].buckets, disagreed |-> session[k].disagreed]]
  /\ session' = [session EXCEPT ![k] = Idle]
  /\ UNCHANGED <<supported, candidates, attempts>>

\* A database error, also one the run catches: recording the failure needs the same
\* broken transaction.  Or a kill.  Nothing of the run remains, and nothing says so.
Abort(k) ==
  /\ session[k] # Idle
  /\ session' = [session EXCEPT ![k] = Idle]
  /\ candidates' = {c \in candidates : c.run # k}
  /\ attempts' = [i \in AttemptIds |-> IF attempts[i].run = k THEN NoAttempt ELSE attempts[i]]
  /\ UNCHANGED <<runs, supported>>

\* ------------------------------------------------------------------ other jobs

\* An opening load or a backfill commits an attempt with its candidate.
Load(o) ==
  /\ FreeIds(attempts) # {}
  /\ attempts' = [attempts EXCEPT
       ![NewId(attempts)] = Attempt("loads", ExchangeOf[o.listing], "none", o.kind)]
  /\ candidates' = candidates \cup
       {[run |-> "loads", listing |-> o.listing, type |-> o.type, value |-> o.value,
         benchmark |-> o.benchmark, reference |-> o.reference]}
  /\ UNCHANGED <<runs, session, supported>>

ChangeUniverse(ls) ==
  /\ supported' = ls
  /\ UNCHANGED <<runs, session, candidates, attempts>>

RunStep(k) ==
  \/ \E xs \in (SUBSET Exchanges) \ {{}}, failing \in BOOLEAN :
       \E requests \in RequestLists : Start(k, xs, requests, failing)
  \/ \E v \in Values : Fetch(k, v)
  \/ FailFetch(k) \/ UnknownExchange(k) \/ AllFetched(k)
  \/ MeasureDiscovery(k) \/ ReadListings(k) \/ MeasureCompleteness(k)
  \/ MeasureDisagreement(k) \/ MeasureCalendar(k)
  \/ Finish(k) \/ Abort(k)

Next ==
  \/ \E k \in Keys : RunStep(k)
  \/ \E o \in Loads : Load(o)
  \/ \E ls \in SUBSET Listings : ChangeUniverse(ls)

Spec == Init /\ [][Next]_vars

-------------------------------------------------------------------------------
Recorded == {k \in Keys : runs[k] # NoRun}

\* A run on record never changes: a second call under its key, with other targets
\* or a reason to fail, gets the first run back, and its attempts and candidates
\* stay as they are.
RecordedRunIsFinal ==
  [][\A k \in Recorded :
       /\ runs'[k] = runs[k]
       /\ {c \in candidates' : c.run = k} = {c \in candidates : c.run = k}
       /\ \A i \in AttemptIds :
            attempts[i].run = k \/ attempts'[i].run = k => attempts'[i] = attempts[i]]_vars

\* A run that asked for quotes and succeeded has on record the candidates of both types
\* of a listing it asked for, and an attempt under the exchange and symbol of that
\* request, which worked unless a later request of the run was for the same symbol.
SucceededMeansFetched ==
  \A k \in Recorded : runs[k].state = "succeeded" /\ runs[k].requested # <<>> =>
    LET requested == runs[k].requested IN
    \E n \in DOMAIN requested :
      /\ \A type \in Types :
           \E c \in candidates : c.run = k /\ c.listing = requested[n].listing /\ c.type = type
      /\ \E i \in AttemptIds :
           /\ attempts[i] # NoAttempt /\ SameAttempt(attempts[i], k, requested[n])
           /\ \/ attempts[i].kind = "success"
              \/ \E m \in DOMAIN requested :
                   m > n /\ SameAttempt(attempts[i], k, requested[m])

-----------------------------------------------------------------------------
\* Claims of the documents and comments that the code does not keep: TLC refutes
\* each of them (README, "Where the code and its documents disagree").

\* "concrete provider runtime completed with zero successful provider attempts" fails a
\* run: one that succeeded has an attempt that worked on record.  A later request for the
\* same symbol may have overwritten it.
SuccessfulAttemptOnRecord ==
  \A k \in Recorded : runs[k].state = "succeeded" /\ runs[k].requested # <<>> =>
    \E i \in AttemptIds : attempts[i].run = k /\ attempts[i].kind = "success"

\* "Disagreement frequency is computed and stored per exchange/run": the disagreeing
\* datums of a run's report are among what the run itself asked for.  They are not:
\* the candidates of every run and load ever made are compared.
AskedBy(k) == {runs[k].requested[n].listing : n \in DOMAIN runs[k].requested}
DisagreementIsOfRun ==
  \A k \in Recorded : \A x \in DOMAIN runs[k].disagreed :
    runs[k].disagreed[x] \subseteq AskedBy(k) \X Types

\* "Daily/historical completeness metrics are computed and persisted per
\* exchange/run": a run that asked for an exchange's quotes and got none of them
\* does not find it complete.  It may: what other runs and loads left counts.
CompleteByOwnQuotes ==
  \A k \in Recorded : \A x \in DOMAIN runs[k].buckets :
    /\ \E l \in AskedBy(k) \cap Listings : ExchangeOf[l] = x
    /\ runs[k].buckets[x]["completeness_timeliness"] = "pass"
    => \E c \in candidates : c.run = k /\ ExchangeOf[c.listing] = x
===============================================================================
