-------------------------- MODULE OpeningLoadProofs --------------------------
(***************************************************************************)
(* Proofs about OpeningLoad, for every finite set of listings, every set   *)
(* of instants, reports and samples.                                       *)
(***************************************************************************)
EXTENDS OpeningLoad, OpeningLoadRulesProofs, FiniteSetTheorems, TLAPS

\* The four sets of rows are finite sets of listings, so they have a size.
LEMMA RowSetsFinite ==
  ASSUME NEW r \in [Listings -> OutcomeClass \cup {NoRow}]
  PROVE  /\ IsFiniteSet(Succeeded(r)) /\ Cardinality(Succeeded(r)) \in Nat
         /\ IsFiniteSet(Failed(r)) /\ Cardinality(Failed(r)) \in Nat
         /\ IsFiniteSet(Terminal(r)) /\ Cardinality(Terminal(r)) \in Nat
<1>1. /\ Succeeded(r) \in SUBSET Listings
      /\ Failed(r) \in SUBSET Listings
      /\ Terminal(r) \in SUBSET Listings
  BY DEF Succeeded, Failed, Terminal
<1>2. QED
  BY <1>1, ListingsAssumption, FS_Subset, FS_CardinalityType

\* A duration is the difference of the two times, or zero when the completion
\* is dated first.
LEMMA DurationMeaning ==
  ASSUME NEW a \in Nat, NEW b \in Nat
  PROVE  /\ Max0(a - b) = IF a > b THEN a - b ELSE 0
         /\ Max0(a - b) \in Nat
BY DEF Max0

-----------------------------------------------------------------------------
(***************************************************************************)
(* Type correctness.                                                       *)
(***************************************************************************)

LEMMA InitTypeOK == Init => TypeOK
<1>1. SUFFICES ASSUME Init PROVE TypeOK
  OBVIOUS
<1>2. /\ Cardinality({}) = 0
      /\ rows \in [Listings -> OutcomeClass \cup {NoRow}]
  BY <1>1, FS_EmptySet DEF Init
<1>3. readModel \in [status : PublicationStatus \cup {NoRow}, prices : SUBSET Listings]
  BY <1>1 DEF Init
<1>4. QED
  BY <1>1, <1>2, <1>3 DEF Init, TypeOK, LoadStatus

LEMMA RecordOutcomeTypeOK ==
  ASSUME TypeOK, NEW l \in Listings, NEW raised \in Reports, NEW t \in Times,
         RecordOutcome(l, raised, t)
  PROVE  TypeOK'
<1>1. rows' \in [Listings -> OutcomeClass \cup {NoRow}]
  BY ClassifyType DEF RecordOutcome, TypeOK
<1>2. /\ succeeded_count' \in Nat
      /\ failed_count' \in Nat
  BY <1>1, RowSetsFinite DEF RecordOutcome, RefreshAggregate
<1>3. status' \in LoadStatus
  BY AggregateStatusMeaning DEF RecordOutcome, RefreshAggregate
<1>4. /\ started_at' \in Times \cup {NoTime}
      /\ completed_at' \in Times \cup {NoTime}
  BY DEF RecordOutcome, RefreshAggregate, TypeOK
<1>5. duration_seconds' \in Nat \cup {NoTime}
  BY <1>4, TimesAssumption DEF RecordOutcome, RefreshAggregate, Max0, NoTime
<1>6. QED
  BY <1>1, <1>2, <1>3, <1>4, <1>5 DEF TypeOK, RecordOutcome, marketVars

LEMMA NextTypeOK == TypeOK /\ [Next]_vars => TypeOK'
<1>1. SUFFICES ASSUME TypeOK, [Next]_vars PROVE TypeOK'
  OBVIOUS
<1>2. ASSUME NEW selected \in SUBSET Listings, ChangeUniverse(selected) PROVE TypeOK'
  BY <1>1, <1>2 DEF ChangeUniverse, TypeOK, loadVars
<1>3. ASSUME NEW l \in Listings, PersistPrice(l) PROVE TypeOK'
  BY <1>1, <1>3 DEF PersistPrice, TypeOK, loadVars
<1>4. CASE CountEligible
  BY <1>1, <1>4 DEF CountEligible, TypeOK, loadVars, marketVars
<1>5. ASSUME NEW l \in Listings, NEW raised \in Reports, NEW t \in Times,
             RecordOutcome(l, raised, t)
      PROVE TypeOK'
  BY <1>1, <1>5, RecordOutcomeTypeOK
<1>6. ASSUME NEW sample \in Samples, NEW delayed \in BOOLEAN, NEW broken \in BOOLEAN,
             EvaluateCorrectness(sample, delayed, broken)
      PROVE TypeOK'
  BY <1>1, <1>6, CorrectnessType DEF EvaluateCorrectness, TypeOK, loadVars, marketVars
<1>7. CASE DecidePublication
  BY <1>1, <1>7, PublicationDecisionType
     DEF DecidePublication, TypeOK, loadVars, marketVars
<1>8. CASE UNCHANGED vars
  BY <1>1, <1>8 DEF vars, loadVars, marketVars, TypeOK
<1>9. QED
  BY <1>1, <1>2, <1>3, <1>4, <1>5, <1>6, <1>7, <1>8 DEF Next

\* Every reachable state is well typed.
THEOREM TypeCorrect == Spec => []TypeOK
<1>1. QED
  BY InitTypeOK, NextTypeOK, PTL DEF Spec

-----------------------------------------------------------------------------
(***************************************************************************)
(* The aggregate columns describe the rows.  The three invariants are      *)
(* inductive together with TypeOK: only RecordOutcome touches a row, and   *)
(* it recomputes every column from the new rows.                           *)
(***************************************************************************)

LEMMA InitSummary == Init => SummaryMatchesRows
<1>1. SUFFICES ASSUME Init PROVE SummaryMatchesRows
  OBVIOUS
<1>2. /\ RowsOf(rows) = {}
      /\ Succeeded(rows) = {}
      /\ Failed(rows) = {}
  BY <1>1 DEF Init, RowsOf, Succeeded, Failed, NoRow
<1>3. Cardinality({}) = 0
  BY FS_EmptySet
<1>4. QED
  BY <1>1, <1>2, <1>3
     DEF Init, SummaryMatchesRows, CountersMatchRows, StatusMatchesRows,
         TimesMatchStatus, CompletedStatus, NoTime

LEMMA RecordOutcomeSummary ==
  ASSUME TypeOK, NEW l \in Listings, NEW raised \in Reports, NEW t \in Times,
         RecordOutcome(l, raised, t)
  PROVE  SummaryMatchesRows'
<1>1. RowsOf(rows') # {}
  <2>1. l \in DOMAIN rows' /\ rows'[l] # NoRow
    BY ClassifyType DEF RecordOutcome, TypeOK
  <2>2. QED
    BY <2>1 DEF RowsOf
<1>2. CountersMatchRows'
  BY DEF RecordOutcome, RefreshAggregate, CountersMatchRows
<1>3. StatusMatchesRows'
  BY AggregateStatusMeaning DEF RecordOutcome, RefreshAggregate, StatusMatchesRows
<1>4. TimesMatchStatus'
  <2>1. status' # "not_started"
    BY <1>1, <1>3 DEF StatusMatchesRows
  <2>2. t # NoTime /\ t \in Nat
    BY TimesAssumption DEF NoTime
  <2>3. started_at' # NoTime /\ started_at' \in Nat
    BY <2>1, <2>2, TimesAssumption DEF RecordOutcome, RefreshAggregate, TypeOK
  <2>4. completed_at' = IF status' \in CompletedStatus THEN t ELSE NoTime
    BY DEF RecordOutcome, RefreshAggregate
  <2>5. duration_seconds' = IF status' \in CompletedStatus
                            THEN Max0(completed_at' - started_at') ELSE NoTime
    BY DEF RecordOutcome, RefreshAggregate
  <2>6. CASE status' \in CompletedStatus
    <3>1. completed_at' \in Nat /\ completed_at' # NoTime
      BY <2>2, <2>4, <2>6
    <3>2. duration_seconds' = IF completed_at' > started_at'
                              THEN completed_at' - started_at' ELSE 0
      BY <2>3, <2>5, <2>6, <3>1, DurationMeaning
    <3>3. duration_seconds' \in Nat
      BY <2>3, <2>5, <2>6, <3>1, DurationMeaning
    <3>4. duration_seconds' # NoTime
      BY <3>3 DEF NoTime
    <3>5. QED
      BY <1>1, <2>3, <2>6, <3>1, <3>2, <3>4 DEF TimesMatchStatus
  <2>7. CASE status' \notin CompletedStatus
    BY <1>1, <2>3, <2>4, <2>5, <2>7 DEF TimesMatchStatus
  <2>8. QED
    BY <2>6, <2>7
<1>5. QED
  BY <1>2, <1>3, <1>4 DEF SummaryMatchesRows

LEMMA NextSummary == TypeOK /\ SummaryMatchesRows /\ [Next]_vars => SummaryMatchesRows'
<1>1. SUFFICES ASSUME TypeOK, SummaryMatchesRows, [Next]_vars PROVE SummaryMatchesRows'
  OBVIOUS
<1>2. ASSUME UNCHANGED <<rows, loadVars>> PROVE SummaryMatchesRows'
  BY <1>1, <1>2 DEF SummaryMatchesRows, CountersMatchRows, StatusMatchesRows,
                    TimesMatchStatus, loadVars
<1>3. /\ \A selected \in SUBSET Listings :
           ChangeUniverse(selected) => UNCHANGED <<rows, loadVars>>
      /\ \A l \in Listings : PersistPrice(l) => UNCHANGED <<rows, loadVars>>
  BY DEF ChangeUniverse, PersistPrice
<1>4. CountEligible \/ DecidePublication => UNCHANGED <<rows, loadVars>>
  BY DEF CountEligible, DecidePublication
<1>5. ASSUME NEW sample \in Samples, NEW delayed \in BOOLEAN, NEW broken \in BOOLEAN,
             EvaluateCorrectness(sample, delayed, broken)
      PROVE UNCHANGED <<rows, loadVars>>
  BY <1>5 DEF EvaluateCorrectness
<1>6. UNCHANGED vars => UNCHANGED <<rows, loadVars>>
  BY DEF vars
<1>7. QED
  BY <1>1, <1>2, <1>3, <1>4, <1>5, <1>6, RecordOutcomeSummary DEF Next

\* Counters, status and times describe the outcome rows in every reachable
\* state.
THEOREM AggregateCorrect == Spec => []SummaryMatchesRows
<1>1. QED
  BY InitSummary, NextSummary, TypeCorrect, PTL DEF Spec

-----------------------------------------------------------------------------
(***************************************************************************)
(* Readiness.                                                              *)
(***************************************************************************)

\* A decision of "ready" was taken on rows that meet every gate.  The stored
\* status rules out failed rows (StatusMatchesRows), which turns the count of
\* terminal rows into a count of succeeded ones; coverage above 99 percent
\* rules out an empty denominator.
LEMMA ReadyDecisionComplete ==
  ASSUME TypeOK, StatusMatchesRows,
         PublicationDecision(status, rows, eligible_instrument_count, quality) = "ready"
  PROVE  /\ counted # {}
         /\ Failed(rows) = {}
         /\ Cardinality(Succeeded(rows)) >= Cardinality(counted)
         /\ quality = "passed"
<1>1. /\ status = "ready"
      /\ HasAllTerminal(rows, eligible_instrument_count)
      /\ CoverageAbove99(rows, eligible_instrument_count)
      /\ quality = "passed"
  BY ReadyMeaning
<1>2. Failed(rows) = {}
  BY <1>1 DEF StatusMatchesRows
<1>3. Cardinality(Succeeded(rows)) >= Cardinality(counted)
  BY <1>1, <1>2 DEF HasAllTerminal, Terminal, eligible_instrument_count
<1>4. Cardinality(counted) > 0
  BY <1>1 DEF CoverageAbove99, eligible_instrument_count
<1>5. counted # {}
  BY <1>4, FS_EmptySet
<1>6. QED
  BY <1>1, <1>2, <1>3, <1>5

\* The exchange becomes ready for the app only with every gate met.
THEOREM ReadinessSound == Spec => BecomesReadyComplete
<1>1. TypeOK /\ StatusMatchesRows /\ [Next]_vars =>
        [(publication # "ready" /\ publication' = "ready") =>
           /\ counted # {}
           /\ Failed(rows) = {}
           /\ Cardinality(Succeeded(rows)) >= Cardinality(counted)
           /\ quality = "passed"]_vars
  <2>1. SUFFICES ASSUME TypeOK, StatusMatchesRows, Next,
                        publication # "ready", publication' = "ready"
                 PROVE  /\ counted # {}
                        /\ Failed(rows) = {}
                        /\ Cardinality(Succeeded(rows)) >= Cardinality(counted)
                        /\ quality = "passed"
    OBVIOUS
  <2>2. DecidePublication
    BY <2>1 DEF Next, ChangeUniverse, PersistPrice, CountEligible, RecordOutcome,
                EvaluateCorrectness
  <2>3. QED
    BY <2>1, <2>2, ReadyDecisionComplete DEF DecidePublication
<1>2. QED
  <2>1. SummaryMatchesRows => StatusMatchesRows
    BY DEF SummaryMatchesRows
  <2>2. QED
    BY <1>1, <2>1, TypeCorrect, AggregateCorrect, PTL DEF Spec, BecomesReadyComplete
=============================================================================
