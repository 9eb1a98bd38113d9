-------------------------- MODULE OperatorLoadTable --------------------------
(***************************************************************************)
(* The operator's table of today's opening loads, over the tables the      *)
(* trust loop commits.  One statement joins loads, publications, quality   *)
(* records and outcomes, so each row shows one committed state; what its   *)
(* columns say together is the question here.                              *)
(*                                                                         *)
(* OpeningTrustLoop keeps only the result of a quality record.  Its        *)
(* coverage column is added here: it is written when the record is first   *)
(* inserted and never again.                                               *)
(***************************************************************************)
EXTENDS OpeningTrustLoop

VARIABLES
  stored,   \* exchange -> the coverage column of its committed quality record
  working   \* the same column as the loop's transaction sees it

tableVars == <<vars, stored, working>>

\* A coverage is kept as successes and eligible instruments.
NoCoverage == <<0, 0>>
CoverageNow(t, x) == <<Cardinality(Succeeded(LoadRows(t, x))), Cardinality(t.counted[x])>>

TableInit ==
  /\ Init
  /\ stored = [x \in Exchanges |-> NoCoverage]
  /\ working = stored

\* The first evaluation of a load inserts its quality record.
KeepFirstCoverage ==
  working' = IF ValidationDue /\ tx.quality[current] = NoRow
             THEN [working EXCEPT ![current] = CoverageNow(tx, current)]
             ELSE working

TableNext ==
  \/ DecideLoad /\ KeepFirstCoverage /\ UNCHANGED stored
  \/ Commit /\ stored' = working /\ UNCHANGED working
  \/ (AbortOnConstraint \/ Crash) /\ working' = stored /\ UNCHANGED stored
  \/ /\ \/ \E l \in Listings : PersistPrice(l) \/ ProcessListing(l)
        \/ \E selected \in SUBSET Listings : ChangeUniverse(selected)
        \/ \E requested \in SUBSET Exchanges : StartRun(requested)
        \/ \E x \in Exchanges : ProcessClosed(x) \/ OpenLoad(x)
     /\ UNCHANGED <<stored, working>>

TableSpec == TableInit /\ [][TableNext]_tableVars

-----------------------------------------------------------------------------
(***************************************************************************)
(* The columns of a row.                                                   *)
(***************************************************************************)

\* The correctness result, or what stands for it while there is none.
QualityResult(x) ==
  CASE db.quality[x] # NoRow -> db.quality[x]
    [] db.quality[x] = NoRow /\ db.publication[x] = "market_closed" -> "not_applicable"
    [] OTHER -> IF db.status[x] = "failed" THEN "failed" ELSE "pending"

\* The coverage on record; without a record it is computed.
Coverage(x) ==
  CASE db.quality[x] # NoRow -> stored[x]
    [] db.quality[x] = NoRow /\ db.publication[x] = "market_closed" -> NoCoverage
    [] OTHER -> CoverageNow(db, x)

\* A faulty variant: only failures of supported listings are counted.
Exceptions_Supported(x) == Cardinality(Failed(LoadRows(db, x)) \cap supported)

\* Outcomes with a failure reason, and a blocked correctness result; the
\* loop's validations are never blocked.
Exceptions(x) ==
  Cardinality(Failed(LoadRows(db, x)))
    + (IF db.quality[x] \in {"pending", "failed"} THEN 1 ELSE 0)

\* The rows of the table are the loads there are.
Row(x) ==
  [status      |-> db.status[x],
   publication |-> IF db.publication[x] = NoRow THEN "unpublished" ELSE db.publication[x],
   available   |-> db.publication[x] = "ready",
   eligible    |-> Cardinality(db.counted[x]),
   succeeded   |-> Cardinality(Succeeded(LoadRows(db, x))),
   failed      |-> Cardinality(Failed(LoadRows(db, x))),
   coverage    |-> Coverage(x),
   quality     |-> QualityResult(x),
   degraded    |-> db.status[x] = "partial_problematic",
   exceptions  |-> Exceptions(x)]

TableRows == {x \in Exchanges : db.status[x] # NoLoad}

-----------------------------------------------------------------------------
(***************************************************************************)
(* Properties.                                                             *)
(***************************************************************************)

\* "Operator visibility into why publication is or is not ready": a load that
\* was decided not ready shows a cause in its row, a result that is not
\* passed, the degraded flag together with an exception, a failed load, or
\* that nothing is eligible.
BlockedRowShowsCause ==
  \A x \in TableRows :
    Row(x).publication \in {"blocked", "failed"} =>
      \/ Row(x).quality # "passed"
      \/ Row(x).degraded /\ Row(x).exceptions > 0
      \/ Row(x).status = "failed" /\ Row(x).exceptions > 0
      \/ Row(x).eligible = 0

-----------------------------------------------------------------------------
\* Claims of the documents and comments that the code does not keep: TLC refutes
\* each of them (README, "Where the code and its documents disagree").

\* "Coverage is computed against eligible instrument denominator": the
\* coverage shown is that of the successes and eligible instruments shown
\* beside it (as long as these make a percentage at all).
CoverageOfShownCounts ==
  \A x \in TableRows :
    Row(x).quality # "not_applicable" /\ Row(x).eligible >= Row(x).succeeded =>
      Row(x).coverage[1] * Row(x).eligible = Row(x).succeeded * Row(x).coverage[2]
=============================================================================
