------------------------ MODULE OpeningLoadRulesProofs ------------------------
(***************************************************************************)
(* Lemmas about the decision rules, for the proofs of the modules that use *)
(* them.                                                                   *)
(***************************************************************************)
EXTENDS OpeningLoadRules, TLAPS

\* Classification always yields a class, never "no row".
LEMMA ClassifyType ==
  ASSUME NEW raised
  PROVE  Classify(raised) \in OutcomeClass /\ Classify(raised) # NoRow
BY DEF Classify, OutcomeClass, Deferred, NoRow

\* What each aggregate status says of the rows it was computed from.
LEMMA AggregateStatusMeaning ==
  ASSUME NEW r, NEW eligible
  PROVE  /\ AggregateStatus(r, eligible) \in LoadStatus
         /\ AggregateStatus(r, eligible) = "not_started" <=> RowsOf(r) = {}
         /\ AggregateStatus(r, eligible) = "ready" => Failed(r) = {}
         /\ AggregateStatus(r, eligible) = "failed" =>
              Succeeded(r) = {} /\ Failed(r) # {}
         /\ AggregateStatus(r, eligible) = "partial_problematic" =>
              Succeeded(r) # {} /\ Failed(r) # {}
BY DEF AggregateStatus, LoadStatus

\* The decision is always one of the four statuses the code writes.
LEMMA PublicationDecisionType ==
  ASSUME NEW s, NEW r, NEW eligible, NEW result
  PROVE  PublicationDecision(s, r, eligible, result) \in PublicationStatus
BY DEF PublicationDecision, PublicationStatus

LEMMA CorrectnessType ==
  ASSUME NEW c, NEW m, NEW delayed \in BOOLEAN, NEW broken \in BOOLEAN
  PROVE  Correctness(c, m, delayed, broken) \in CorrectnessResult
BY DEF Correctness, CorrectnessResult

\* A publication is decided ready only when all four conditions hold.
LEMMA ReadyMeaning ==
  ASSUME NEW s, NEW r, NEW eligible, NEW result,
         PublicationDecision(s, r, eligible, result) = "ready"
  PROVE  /\ s = "ready"
         /\ HasAllTerminal(r, eligible)
         /\ CoverageAbove99(r, eligible)
         /\ result = "passed"
BY DEF PublicationDecision

\* A closed load is decided market closed, and no other load is.
LEMMA ClosedMeaning ==
  ASSUME NEW s, NEW r, NEW eligible, NEW result
  PROVE  PublicationDecision(s, r, eligible, result) = "market_closed"
           <=> s = "market_closed"
BY DEF PublicationDecision

\* Refreshing the aggregate never makes a load closed.
LEMMA AggregateNeverClosed ==
  ASSUME NEW r, NEW eligible
  PROVE  AggregateStatus(r, eligible) # "market_closed"
BY DEF AggregateStatus
=============================================================================
