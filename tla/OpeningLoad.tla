----------------------------- MODULE OpeningLoad -----------------------------
(***************************************************************************)
(* The opening load of one exchange and trading day, at the granularity of *)
(* the calls of the jobs package: an outcome is recorded for an            *)
(* instrument, the correctness of the load is evaluated, its publication   *)
(* is decided.  Each call is a transaction of its own; calls come in any   *)
(* order, any number of times, while the supported universe and the price  *)
(* records change underneath (OpeningTrustLoop is the program's own way of *)
(* calling them, inside one transaction).                                  *)
(***************************************************************************)
EXTENDS OpeningLoadRules

CONSTANTS
  Listings,   \* the listings of the exchange
  Times,      \* the instants a caller may pass as occurred_at
  Reports,    \* the combinations of evidence a caller may raise
  Samples     \* benchmark samples <<compared, mismatched>> a caller may pass

ASSUME ListingsAssumption == IsFiniteSet(Listings)
ASSUME TimesAssumption == Times \subseteq Nat
ASSUME ReportsAssumption == Reports \subseteq SUBSET Evidence
ASSUME SamplesAssumption ==
  Samples \subseteq {s \in Nat \X Nat : s[2] <= s[1]}

NoTime == -1

VARIABLES
  supported,       \* supported_universe_state: the supported listings
  priced,          \* price_record: the listings with an opening price today
  counted,         \* the listings counted by eligible_instrument_count
  rows,            \* instrument_load_outcome: listing -> class or NoRow
  status,          \* exchange_day_load.status
  succeeded_count, failed_count,
  started_at, completed_at, duration_seconds,
  quality,         \* quality_check.correctness_result, or NoRow
  publication,     \* publication_record.status, or NoRow
  readModel        \* the process-local read model: status and prices shown

loadVars == <<status, succeeded_count, failed_count,
              started_at, completed_at, duration_seconds>>
marketVars == <<supported, priced>>
vars == <<marketVars, counted, rows, loadVars, quality, publication, readModel>>

eligible_instrument_count == Cardinality(counted)

Init ==
  /\ supported \in SUBSET Listings
  /\ priced = {}
  /\ counted = {}
  /\ rows = [l \in Listings |-> NoRow]
  /\ status = "not_started"
  /\ succeeded_count = 0
  /\ failed_count = 0
  /\ started_at = NoTime
  /\ completed_at = NoTime
  /\ duration_seconds = NoTime
  /\ quality = NoRow
  /\ publication = NoRow
  /\ readModel = [status |-> NoRow, prices |-> {}]

-----------------------------------------------------------------------------
(***************************************************************************)
(* What happens around the load.                                           *)
(***************************************************************************)

\* The universe loader replaces the supported listings by those it selected.
ChangeUniverse(selected) ==
  /\ supported' = selected
  /\ UNCHANGED <<priced, counted, rows, loadVars, quality, publication, readModel>>

\* The opening-load worker selects a price for a listing and persists it.
PersistPrice(l) ==
  /\ l \notin priced
  /\ priced' = priced \cup {l}
  /\ UNCHANGED <<supported, counted, rows, loadVars, quality, publication, readModel>>

-----------------------------------------------------------------------------
(***************************************************************************)
(* The calls.                                                              *)
(***************************************************************************)

\* The denominator is set from the listings supported now.
CountEligible ==
  /\ counted' = supported
  /\ UNCHANGED <<marketVars, rows, loadVars, quality, publication, readModel>>

Max0(n) == IF n > 0 THEN n ELSE 0

\* Refreshing the aggregate columns from rows r at instant t.  started_at is
\* kept once set; it is first set from the only row there is then, the one
\* written at t.
RefreshAggregate(r, t) ==
  /\ succeeded_count' = Cardinality(Succeeded(r))
  /\ failed_count' = Cardinality(Failed(r))
  /\ status' = AggregateStatus(r, eligible_instrument_count)
  /\ started_at' = IF status' = "not_started" THEN NoTime
                   ELSE IF started_at # NoTime THEN started_at ELSE t
  /\ completed_at' = IF status' \in CompletedStatus THEN t ELSE NoTime
  /\ duration_seconds' = IF status' \in CompletedStatus
                         THEN Max0(completed_at' - started_at') ELSE NoTime

\* A faulty variant: the aggregate is computed before the row is flushed.
RecordOutcome_BeforeFlush(l, raised, t) ==
  /\ l \in counted
  /\ rows' = [rows EXCEPT ![l] = Classify(raised)]
  /\ RefreshAggregate(rows, t)
  /\ UNCHANGED <<marketVars, counted, quality, publication, readModel>>

\* An instrument's outcome is inserted or overwritten, and the aggregate of
\* its load refreshed.  Callers record outcomes of the listings they counted;
\* the rows of listings counted earlier stay.
RecordOutcome(l, raised, t) ==
  /\ l \in counted
  /\ rows' = [rows EXCEPT ![l] = Classify(raised)]
  /\ RefreshAggregate(rows', t)
  /\ UNCHANGED <<marketVars, counted, quality, publication, readModel>>

\* The correctness of the load is evaluated against a benchmark sample.  The
\* quality record is created at the first evaluation, and rejected by its
\* CHECK constraint when the coverage it would store exceeds 100 percent.
EvaluateCorrectness(sample, delayed, broken) ==
  /\ quality = NoRow => CoverageInRange(rows, eligible_instrument_count)
  /\ quality' = Correctness(sample[1], sample[2], delayed, broken)
  /\ UNCHANGED <<marketVars, counted, rows, loadVars, publication, readModel>>

\* The publication status is decided and persisted, and the process-local
\* read model replaced: a ready exchange shows its price records, or none
\* when reading them fails.
DecidePublication ==
  LET decision == PublicationDecision(status, rows, eligible_instrument_count, quality)
  IN  /\ publication' = decision
      /\ \E shown \in IF decision = "ready" THEN {priced, {}} ELSE {{}} :
           readModel' = [status |-> decision, prices |-> shown]
      /\ UNCHANGED <<marketVars, counted, rows, loadVars, quality>>

Next ==
  \/ \E selected \in SUBSET Listings : ChangeUniverse(selected)
  \/ \E l \in Listings : PersistPrice(l)
  \/ CountEligible
  \/ \E l \in Listings, raised \in Reports, t \in Times :
       RecordOutcome(l, raised, t)
  \/ \E sample \in Samples, delayed, broken \in BOOLEAN :
       EvaluateCorrectness(sample, delayed, broken)
  \/ DecidePublication

Spec == Init /\ [][Next]_vars

-----------------------------------------------------------------------------
(***************************************************************************)
(* Properties.                                                             *)
(***************************************************************************)

\* Every variable stays in its domain.
TypeOK ==
  /\ supported \in SUBSET Listings
  /\ priced \in SUBSET Listings
  /\ counted \in SUBSET Listings
  /\ rows \in [Listings -> OutcomeClass \cup {NoRow}]
  /\ status \in LoadStatus
  /\ succeeded_count \in Nat
  /\ failed_count \in Nat
  /\ started_at \in Times \cup {NoTime}
  /\ completed_at \in Times \cup {NoTime}
  /\ duration_seconds \in Nat \cup {NoTime}
  /\ quality \in CorrectnessResult \cup {NoRow}
  /\ publication \in PublicationStatus \cup {NoRow}
  /\ readModel \in [status : PublicationStatus \cup {NoRow},
                    prices : SUBSET Listings]

\* The stored counters are the number of succeeded and of failed outcome
\* rows, whatever outcomes were recorded, overwritten or downgraded before
\* (the aggregate refresh at the end of every upsert).
CountersMatchRows ==
  /\ succeeded_count = Cardinality(Succeeded(rows))
  /\ failed_count = Cardinality(Failed(rows))

\* The lifecycle status an operator reads never contradicts the outcome rows,
\* even when the denominator moved after the last refresh: "not started"
\* exactly when there is no row, "ready" only without a failed row, "failed"
\* only without a succeeded one, "partial" only with both.
StatusMatchesRows ==
  /\ status = "not_started" <=> RowsOf(rows) = {}
  /\ status = "ready" => Failed(rows) = {}
  /\ status = "failed" => Succeeded(rows) = {} /\ Failed(rows) # {}
  /\ status = "partial_problematic" => Succeeded(rows) # {} /\ Failed(rows) # {}

\* The timing columns describe the status: a load is started exactly when it
\* has a row, and has a completion time and a duration exactly when its
\* status is a completed one, also after a completed load fell back to
\* in_progress or was completed by an event dated before its start.
TimesMatchStatus ==
  /\ started_at # NoTime <=> RowsOf(rows) # {}
  /\ completed_at # NoTime <=> status \in CompletedStatus
  /\ duration_seconds # NoTime <=> status \in CompletedStatus
  /\ status \in CompletedStatus =>
       duration_seconds = IF completed_at > started_at
                          THEN completed_at - started_at ELSE 0

\* The summary columns of a load, recomputed by every upsert, never drift from
\* its outcome rows: counters, lifecycle status and times describe the rows,
\* whatever outcomes were overwritten or downgraded, in any order of instants.
SummaryMatchesRows == CountersMatchRows /\ StatusMatchesRows /\ TimesMatchStatus

\* The step that makes the exchange ready for the app finds every gate truly
\* met by the rows: at least one instrument was counted, none of the rows is
\* a failure, at least as many succeeded as were counted, and the validation
\* passed.  The guard itself looks at a stored status that may be older than
\* the denominator.
BecomesReadyComplete ==
  [][(publication # "ready" /\ publication' = "ready") =>
       /\ counted # {}
       /\ Failed(rows) = {}
       /\ Cardinality(Succeeded(rows)) >= Cardinality(counted)
       /\ quality = "passed"]_vars

\* "Precheck fails when any eligible instrument lacks terminal outcome": the
\* exchange becomes ready only when each instrument that was counted as
\* eligible has a terminal outcome.
BecomesReadyOnlyWhenEligibleTerminal ==
  [][(publication # "ready" /\ publication' = "ready") =>
       counted \subseteq Terminal(rows)]_vars
=============================================================================
