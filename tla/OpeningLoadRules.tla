-------------------------- MODULE OpeningLoadRules --------------------------
(***************************************************************************)
(* The decision rules of the opening load, as pure operators: how one      *)
(* instrument's evidence is classified, how an exchange-day load is        *)
(* summarised from its outcome rows, when its coverage and its correctness *)
(* check are good enough, and which publication status follows.            *)
(*                                                                         *)
(* An outcome row is represented by its outcome_class: the columns         *)
(* outcome, is_terminal and failure_reason are always written together     *)
(* with it, from one classification.                                       *)
(***************************************************************************)
EXTENDS Integers, FiniteSets

Evidence == {"has_selected_price", "halted", "suspended", "late_open",
             "stale", "provider_failed"}

Deferred == {"halted", "suspended", "late_open"}

OutcomeClass == Deferred \cup {"success", "missing", "stale", "provider_failed"}

NoRow == "no_row"

\* The class given to an instrument by the evidence raised for it: a selected
\* price wins, then the three deferring conditions, then the failures.
Classify(raised) ==
  CASE "has_selected_price" \in raised -> "success"
    [] "has_selected_price" \notin raised /\ "halted" \in raised -> "halted"
    [] raised \cap {"has_selected_price", "halted"} = {}
         /\ "suspended" \in raised -> "suspended"
    [] raised \cap {"has_selected_price", "halted", "suspended"} = {}
         /\ "late_open" \in raised -> "late_open"
    [] raised \subseteq {"stale", "provider_failed"}
         /\ "stale" \in raised -> "stale"
    [] raised = {"provider_failed"} -> "provider_failed"
    [] OTHER -> "missing"

-----------------------------------------------------------------------------
(***************************************************************************)
(* Counting the outcome rows of one load.  rows maps every listing to its  *)
(* outcome class, or to NoRow.                                             *)
(***************************************************************************)

RowsOf(rows)    == {l \in DOMAIN rows : rows[l] # NoRow}
Succeeded(rows) == {l \in DOMAIN rows : rows[l] = "success"}
Failed(rows)    == {l \in DOMAIN rows : rows[l] \in {"missing", "stale", "provider_failed"}}
Terminal(rows)  == Succeeded(rows) \cup Failed(rows)

LoadStatus == {"not_started", "in_progress", "market_closed",
               "partial_problematic", "ready", "failed"}

CompletedStatus == {"ready", "failed", "partial_problematic"}

\* A faulty variant: enough successes make the load ready whatever failed.
AggregateStatus_BySuccesses(rows, eligible) ==
  CASE RowsOf(rows) = {} -> "not_started"
    [] Cardinality(Terminal(rows)) < eligible -> "in_progress"
    [] OTHER -> IF Cardinality(Succeeded(rows)) >= eligible THEN "ready"
                ELSE IF Succeeded(rows) = {} THEN "failed"
                ELSE "partial_problematic"

\* The lifecycle status of a load with these rows and this many eligible
\* instruments.  The denominator is a number: rows are not matched against
\* the instruments that were counted.
AggregateStatus(rows, eligible) ==
  CASE RowsOf(rows) = {} -> "not_started"
    [] RowsOf(rows) # {} /\ Cardinality(Terminal(rows)) < eligible -> "in_progress"
    [] OTHER -> IF Failed(rows) = {} THEN "ready"
                ELSE IF Succeeded(rows) = {} THEN "failed"
                ELSE "partial_problematic"

-----------------------------------------------------------------------------
(***************************************************************************)
(* The publication gate.                                                   *)
(***************************************************************************)

\* Faulty variants: an off-by-one; no guard for an empty denominator.
HasAllTerminal_Strict(rows, eligible) == Cardinality(Terminal(rows)) > eligible
CoverageAbove99_NoDenominator(rows, eligible) ==
  100 * Cardinality(Succeeded(rows)) > 99 * eligible

HasAllTerminal(rows, eligible) == Cardinality(Terminal(rows)) >= eligible

\* coverage_percent > 99.0, and coverage_percent <= 100 as the CHECK
\* constraint of quality_check demands, without the division (a load with no
\* eligible instrument has coverage 0).
CoverageAbove99(rows, eligible) ==
  eligible > 0 /\ 100 * Cardinality(Succeeded(rows)) > 99 * eligible

CoverageInRange(rows, eligible) ==
  eligible > 0 => Cardinality(Succeeded(rows)) <= eligible

CorrectnessResult == {"pending", "passed", "failed"}

\* The result of comparing `compared` benchmark instruments, `mismatched` of
\* which differ: at most 5 percent may.  Only "passed" leaves the publication
\* unblocked.
Correctness(compared, mismatched, delayed, broken) ==
  CASE delayed -> "pending"
    [] ~delayed /\ broken -> "failed"
    [] ~delayed /\ ~broken /\ compared = 0 -> "pending"
    [] OTHER -> IF 100 * mismatched > 5 * compared THEN "failed" ELSE "passed"

PublicationStatus == {"ready", "blocked", "failed", "market_closed"}

\* Faulty variants: the lifecycle status is published as it is; it is not
\* looked at, and the counts decide alone.
PublicationDecision_LifecycleStatus(status, rows, eligible, result) ==
  IF status # "ready" THEN status
  ELSE IF CoverageAbove99(rows, eligible) /\ result = "passed" THEN "ready"
  ELSE "blocked"
PublicationDecision_CountsOnly(status, rows, eligible, result) ==
  CASE status \in {"market_closed", "failed"} -> status
    [] /\ status \notin {"market_closed", "failed"}
       /\ HasAllTerminal(rows, eligible)
       /\ CoverageAbove99(rows, eligible)
       /\ result = "passed" -> "ready"
    [] OTHER -> "blocked"

\* The status written to the publication record, from the load's aggregate
\* status, the two gates over its rows, and the correctness result on record.
PublicationDecision(status, rows, eligible, result) ==
  CASE status \in {"market_closed", "failed"} -> status
    [] /\ status = "ready"
       /\ HasAllTerminal(rows, eligible)
       /\ CoverageAbove99(rows, eligible)
       /\ result = "passed" -> "ready"
    [] OTHER -> "blocked"
=============================================================================
