------------------------ MODULE OpeningTrustLoopProofs ------------------------
(***************************************************************************)
(* Proofs about OpeningTrustLoop, for every finite set of exchanges and of *)
(* listings.                                                               *)
(*                                                                         *)
(* The safety properties are statements about the committed tables db, but *)
(* db only ever changes by taking over the transaction's tables tx, so they *)
(* have to hold of tx at the commit.  They do not hold of tx while a load  *)
(* is being processed: its denominator has moved, its rows are half        *)
(* rewritten, and its publication is still that of an earlier run.  The    *)
(* inductive invariant therefore asserts them of every exchange but the    *)
(* current one (AtRest), and says of the current one how far it got (Open). *)
(***************************************************************************)
EXTENDS OperatorLoadTable, OpeningLoadRulesProofs, FiniteSetTheorems, TLAPS

-----------------------------------------------------------------------------
(***************************************************************************)
(* The inductive invariant.                                                *)
(***************************************************************************)

\* What holds of an exchange in tables t once its load is decided.
AtRest(t, x) ==
  /\ t.publication[x] = "ready" =>
       /\ t.counted[x] # {}
       /\ t.counted[x] \subseteq priced
       /\ Failed(LoadRows(t, x)) = {}
  /\ t.counted[x] # {} =>
       t.status[x] = AggregateStatus(LoadRows(t, x), Cardinality(t.counted[x]))
  /\ t.status[x] = "market_closed" => t.publication[x] \in {NoRow, "market_closed"}

\* A success was recorded for a price that is there.
SuccessIsPriced(t) == \A l \in Listings : t.rows[l] = "success" => l \in priced

\* How far the load being processed got.
Open ==
  pc = "listings" =>
    /\ tx.status[current] # "market_closed"
    /\ tx.counted[current] \subseteq ListingsOf(current)
    /\ pending \subseteq tx.counted[current]
    /\ \A l \in tx.counted[current] \ pending : tx.rows[l] \in {"success", "missing"}
    /\ tx.counted[current] \ pending # {} =>
         tx.status[current] = AggregateStatus(LoadRows(tx, current),
                                              Cardinality(tx.counted[current]))

\* A load that is closed in the database is closed in the transaction.
ClosedInBoth ==
  \A x \in Exchanges : db.status[x] = "market_closed" => tx.status[x] = "market_closed"

LoopInv ==
  /\ \A x \in Exchanges : AtRest(db, x)
  /\ \A x \in Exchanges \ {current} : AtRest(tx, x)
  /\ SuccessIsPriced(db)
  /\ SuccessIsPriced(tx)
  /\ Open
  /\ ClosedInBoth

-----------------------------------------------------------------------------
(***************************************************************************)
(* Type correctness.                                                       *)
(***************************************************************************)

LEMMA InitTypeOK == Init => TypeOK
<1>1. SUFFICES ASSUME Init PROVE TypeOK
  OBVIOUS
<1>2. PICK initial \in [Exchanges -> {NoLoad, "not_started", "market_closed"}] :
        db = [status      |-> initial,
              counted     |-> [x \in Exchanges |-> {}],
              rows        |-> [l \in Listings |-> NoRow],
              quality     |-> [x \in Exchanges |-> NoRow],
              publication |-> [x \in Exchanges |-> NoRow]]
  BY <1>1 DEF Init
<1>3. initial \in [Exchanges -> LoadStatus \cup {NoLoad}]
  BY DEF LoadStatus
<1>4. db \in Tables
  BY <1>2, <1>3 DEF Tables
<1>5. NoExchange \notin Exchanges
  BY ExchangesAssumption DEF NoExchange
<1>6. QED
  BY <1>1, <1>4, <1>5 DEF Init, TypeOK

LEMMA NextTypeOK == TypeOK /\ [Next]_vars => TypeOK'
<1>1. SUFFICES ASSUME TypeOK, [Next]_vars PROVE TypeOK'
  OBVIOUS
<1> USE DEF TypeOK, market, tables, cursor, run, history
<1>2. NoExchange \notin Exchanges
  BY ExchangesAssumption DEF NoExchange
<1>3. ASSUME NEW l \in Listings, PersistPrice(l) PROVE TypeOK'
  BY <1>1, <1>3 DEF PersistPrice
<1>4. ASSUME NEW selected \in SUBSET Listings, ChangeUniverse(selected) PROVE TypeOK'
  BY <1>1, <1>4 DEF ChangeUniverse
<1>5. ASSUME NEW requested \in SUBSET Exchanges, StartRun(requested) PROVE TypeOK'
  <2>1. tx' \in Tables
    BY <1>1, <1>5 DEF StartRun, Tables, LoadStatus
  <2>2. QED
    BY <1>1, <1>5, <2>1 DEF StartRun
<1>6. ASSUME NEW x \in Exchanges, ProcessClosed(x) PROVE TypeOK'
  <2>1. tx' \in Tables
    BY <1>1, <1>6, PublicationDecisionType DEF ProcessClosed, Tables
  <2>2. QED
    BY <1>1, <1>6, <2>1 DEF ProcessClosed, IsNext
<1>7. ASSUME NEW x \in Exchanges, OpenLoad(x) PROVE TypeOK'
  <2>1. pending' \in SUBSET Listings
    BY <1>1, <1>7 DEF OpenLoad
  <2>2. tx' \in Tables
    BY <1>1, <1>7, <2>1 DEF OpenLoad, Tables
  <2>3. QED
    BY <1>1, <1>7, <2>1, <2>2 DEF OpenLoad
<1>8. ASSUME NEW l \in Listings, ProcessListing(l) PROVE TypeOK'
  <2>1. tx' \in Tables
    BY <1>1, <1>8, ClassifyType, AggregateStatusMeaning DEF ProcessListing, Tables
  <2>2. QED
    BY <1>1, <1>8, <2>1 DEF ProcessListing
<1>9. ASSUME DecideLoad PROVE TypeOK'
  <2>1. tx' \in Tables
    BY <1>1, <1>9, PublicationDecisionType, CorrectnessType
       DEF DecideLoad, ListingsDone, Tables
  <2>2. QED
    BY <1>1, <1>2, <1>9, <2>1 DEF DecideLoad, ListingsDone
<1>10. ASSUME Commit PROVE TypeOK'
  BY <1>1, <1>2, <1>10 DEF Commit, Stop
<1>11. ASSUME AbortOnConstraint \/ Crash PROVE TypeOK'
  BY <1>1, <1>2, <1>11 DEF AbortOnConstraint, Crash, RollBack, Stop
<1>12. ASSUME UNCHANGED vars PROVE TypeOK'
  BY <1>1, <1>12 DEF vars
<1>13. QED
  BY <1>1, <1>3, <1>4, <1>5, <1>6, <1>7, <1>8, <1>9, <1>10, <1>11, <1>12 DEF Next

\* Every reachable state is well typed; between runs nothing uncommitted is
\* left.
THEOREM LoopTypeCorrect == Spec => []TypeOK
<1>1. QED
  BY InitTypeOK, NextTypeOK, PTL DEF Spec

-----------------------------------------------------------------------------
(***************************************************************************)
(* LoopInv is inductive.                                                   *)
(***************************************************************************)

\* A step that leaves the tables and the cursor alone keeps the invariant:
\* prices are never removed.
LEMMA MarketStepInv ==
  ASSUME LoopInv, UNCHANGED <<db, tx, pc, current, pending>>, priced \subseteq priced'
  PROVE  LoopInv'
BY DEF LoopInv, AtRest, SuccessIsPriced, Open, ClosedInBoth, LoadRows

\* Between loads the transaction's tables satisfy everything of every
\* exchange, so they may be committed; the committed ones may be restored.
LEMMA EndOfRunInv ==
  ASSUME TypeOK, LoopInv, Stop,
         \/ pc # "listings" /\ db' = tx /\ tx' = tx
         \/ db' = db /\ tx' = db
  PROVE  LoopInv'
<1>1. /\ pc' = "idle"
      /\ priced' = priced
  BY DEF Stop, market
<1>2. pc # "listings" => current \notin Exchanges
  BY DEF TypeOK
<1>3. /\ \A x \in Exchanges : AtRest(db', x)
      /\ SuccessIsPriced(db')
      /\ db' = tx'
  BY <1>2 DEF LoopInv
<1>4. QED
  BY <1>1, <1>3 DEF LoopInv, AtRest, SuccessIsPriced, Open, ClosedInBoth, LoadRows

\* The decision of ready is sound: every counted listing was given a row in
\* this run, none of the rows failed, and a success stands for a price.
LEMMA DecisionSound ==
  ASSUME TypeOK, LoopInv, ListingsDone, NEW result,
         PublicationDecision(tx.status[current], LoadRows(tx, current),
                             Cardinality(tx.counted[current]), result) = "ready"
  PROVE  /\ tx.counted[current] # {}
         /\ tx.counted[current] \subseteq priced
         /\ Failed(LoadRows(tx, current)) = {}
<1>1. /\ tx.status[current] = "ready"
      /\ CoverageAbove99(LoadRows(tx, current), Cardinality(tx.counted[current]))
  BY ReadyMeaning
<1>2. tx.counted[current] # {}
  <2>1. Cardinality(tx.counted[current]) > 0
    BY <1>1 DEF CoverageAbove99
  <2>2. QED
    BY <2>1, FS_EmptySet
<1>3. /\ \A l \in tx.counted[current] : tx.rows[l] \in {"success", "missing"}
      /\ tx.counted[current] \subseteq ListingsOf(current)
      /\ tx.status[current] = AggregateStatus(LoadRows(tx, current),
                                              Cardinality(tx.counted[current]))
  BY <1>2 DEF LoopInv, Open, ListingsDone
<1>4. Failed(LoadRows(tx, current)) = {}
  BY <1>1, <1>3, AggregateStatusMeaning
<1>5. \A l \in tx.counted[current] : tx.rows[l] = "success"
  <2>1. ASSUME NEW l \in tx.counted[current], tx.rows[l] = "missing" PROVE FALSE
    <3>1. l \in DOMAIN LoadRows(tx, current) /\ LoadRows(tx, current)[l] = "missing"
      BY <1>3, <2>1 DEF LoadRows
    <3>2. QED
      BY <1>4, <3>1 DEF Failed
  <2>2. QED
    BY <1>3, <2>1
<1>6. tx.counted[current] \subseteq priced
  BY <1>3, <1>5 DEF LoopInv, SuccessIsPriced, ListingsOf
<1>7. QED
  BY <1>2, <1>4, <1>6

LEMMA StartRunInv ==
  ASSUME TypeOK, LoopInv, NEW requested \in SUBSET Exchanges, StartRun(requested)
  PROVE  LoopInv'
<1>1. /\ tx'.rows = tx.rows
      /\ tx'.counted = tx.counted
      /\ tx'.publication = tx.publication
      /\ \A x \in Exchanges :
           \/ tx'.status[x] = tx.status[x]
           \/ (tx.status[x] = NoLoad /\ tx'.status[x] = "not_started")
  BY DEF StartRun, TypeOK, Tables
<1>2. /\ db' = db /\ priced' = priced /\ current' = current
      /\ current \notin Exchanges /\ pc' # "listings"
  BY DEF StartRun, market, cursor, TypeOK
<1>3. ASSUME NEW x \in Exchanges PROVE AtRest(tx, x)'
  <2>1. LoadRows(tx', x) = LoadRows(tx, x)
    BY <1>1 DEF LoadRows
  <2>2. AtRest(tx, x)
    BY <1>2 DEF LoopInv
  <2>3. AggregateStatus(LoadRows(tx, x), Cardinality(tx.counted[x])) # NoLoad
    BY AggregateStatusMeaning DEF LoadStatus, NoLoad
  <2>4. QED
    BY <1>1, <1>2, <2>1, <2>2, <2>3 DEF AtRest
<1>4. ClosedInBoth'
  BY <1>1, <1>2 DEF LoopInv, ClosedInBoth, NoLoad
<1>5. QED
  BY <1>1, <1>2, <1>3, <1>4 DEF LoopInv, AtRest, SuccessIsPriced, Open, LoadRows

LEMMA ProcessClosedInv ==
  ASSUME TypeOK, LoopInv, NEW x \in Exchanges, ProcessClosed(x)
  PROVE  LoopInv'
<1>1. /\ tx'.rows = tx.rows
      /\ tx'.counted = tx.counted
      /\ tx'.status = tx.status
      /\ tx'.publication[x] = "market_closed"
      /\ \A y \in Exchanges \ {x} : tx'.publication[y] = tx.publication[y]
  BY ClosedMeaning DEF ProcessClosed, TypeOK, Tables
<1>2. /\ db' = db /\ priced' = priced /\ current' = current /\ pending' = pending
      /\ pc' = pc /\ pc # "listings"
  BY DEF ProcessClosed, IsNext, market, cursor
<1>3. ASSUME NEW y \in Exchanges \ {current} PROVE AtRest(tx, y)'
  <2>1. LoadRows(tx', y) = LoadRows(tx, y)
    BY <1>1 DEF LoadRows
  <2>2. AtRest(tx, y)
    BY DEF LoopInv
  <2>3. QED
    BY <1>1, <1>2, <2>1, <2>2 DEF AtRest
<1>4. QED
  BY <1>1, <1>2, <1>3 DEF LoopInv, AtRest, SuccessIsPriced, Open, ClosedInBoth, LoadRows

LEMMA OpenLoadInv ==
  ASSUME TypeOK, LoopInv, NEW x \in Exchanges, OpenLoad(x)
  PROVE  LoopInv'
<1>1. /\ tx'.rows = tx.rows
      /\ tx'.status = tx.status
      /\ tx'.publication = tx.publication
      /\ tx'.counted[x] = pending'
      /\ \A y \in Exchanges \ {x} : tx'.counted[y] = tx.counted[y]
      /\ tx.status[x] # "market_closed"
  BY DEF OpenLoad, TypeOK, Tables
<1>2. /\ db' = db /\ priced' = priced /\ current' = x
      /\ pending' = supported \cap ListingsOf(x)
      /\ current \notin Exchanges
  BY DEF OpenLoad, IsNext, market, TypeOK
<1>3. ASSUME NEW y \in Exchanges \ {x} PROVE AtRest(tx, y)'
  <2>1. LoadRows(tx', y) = LoadRows(tx, y)
    BY <1>1 DEF LoadRows
  <2>2. AtRest(tx, y)
    BY <1>2 DEF LoopInv
  <2>3. QED
    BY <1>1, <1>2, <2>1, <2>2 DEF AtRest
<1>4. Open'
  BY <1>1, <1>2 DEF Open, ListingsOf
<1>5. QED
  BY <1>1, <1>2, <1>3, <1>4 DEF LoopInv, AtRest, SuccessIsPriced, ClosedInBoth, LoadRows

LEMMA ProcessListingInv ==
  ASSUME TypeOK, LoopInv, NEW l \in Listings, ProcessListing(l)
  PROVE  LoopInv'
<1>1. PICK class \in {"success", "missing"} :
        /\ class = "success" => l \in priced
        /\ tx'.rows = [tx.rows EXCEPT ![l] = class]
  <2>1. /\ Classify({"has_selected_price"}) = "success"
        /\ Classify({}) = "missing"
    BY DEF Classify
  <2>2. tx'.rows = [tx.rows EXCEPT ![l] =
                      Classify(IF l \in priced THEN {"has_selected_price"} ELSE {})]
    BY DEF ProcessListing, TypeOK, Tables
  <2>3. QED
    BY <2>1, <2>2
<1>2. /\ tx'.counted = tx.counted
      /\ tx'.publication = tx.publication
      /\ \A y \in Exchanges \ {current} : tx'.status[y] = tx.status[y]
  BY DEF ProcessListing, TypeOK, Tables
<1>3. tx'.status[current] = AggregateStatus(LoadRows(tx', current),
                                            Cardinality(tx'.counted[current]))
  <2>1. tx.status \in [Exchanges -> LoadStatus \cup {NoLoad}] /\ current \in Exchanges
    BY DEF ProcessListing, TypeOK, Tables
  <2>2. PICK after : /\ tx'.rows = after.rows
                     /\ tx'.status[current] =
                          AggregateStatus(LoadRows(after, current),
                                          Cardinality(tx.counted[current]))
    <3>1. SUFFICES \E after : /\ tx'.rows = after.rows
                              /\ tx'.status[current] =
                                   AggregateStatus(LoadRows(after, current),
                                                   Cardinality(tx.counted[current]))
      OBVIOUS
    <3> DEFINE found == IF l \in priced THEN {"has_selected_price"} ELSE {}
               after == [tx EXCEPT !.rows[l] = Classify(found)]
    <3>2. tx' = [after EXCEPT !.status[current] =
                  AggregateStatus(LoadRows(after, current),
                                  Cardinality(tx.counted[current]))]
      BY DEF ProcessListing
    <3>3. after \in [status : {tx.status}, counted : {tx.counted}, rows : {after.rows},
                     quality : {tx.quality}, publication : {tx.publication}]
      BY DEF TypeOK, Tables
    <3> HIDE DEF after
    <3>4. QED
      BY <2>1, <3>2, <3>3
  <2>3. LoadRows(after, current) = LoadRows(tx', current)
    BY <2>2 DEF LoadRows
  <2>4. QED
    BY <1>2, <2>2, <2>3
<1>4. /\ db' = db /\ priced' = priced /\ current' = current
      /\ pc = "listings" /\ pc' = pc
      /\ l \in pending /\ pending' = pending \ {l}
      /\ current \in Exchanges
  BY DEF ProcessListing, market, TypeOK
<1>5. /\ tx.counted[current] \subseteq ListingsOf(current)
      /\ pending \subseteq tx.counted[current]
      /\ \A m \in tx.counted[current] \ pending : tx.rows[m] \in {"success", "missing"}
  BY <1>4 DEF LoopInv, Open
<1>6. tx.rows \in [Listings -> OutcomeClass \cup {NoRow}]
  BY DEF TypeOK, Tables
<1>7. ASSUME NEW y \in Exchanges \ {current} PROVE AtRest(tx, y)'
  <2>1. l \notin ListingsOf(y)
    BY <1>4, <1>5 DEF ListingsOf
  <2>2. LoadRows(tx', y) = LoadRows(tx, y)
    BY <1>1, <1>6, <2>1 DEF LoadRows, ListingsOf
  <2>3. AtRest(tx, y)
    BY DEF LoopInv
  <2>4. QED
    BY <1>2, <1>4, <2>2, <2>3 DEF AtRest
<1>8. SuccessIsPriced(tx)'
  BY <1>1, <1>4, <1>6 DEF LoopInv, SuccessIsPriced
<1>9. Open'
  <2>1. tx'.status[current] # "market_closed"
    BY <1>3, AggregateNeverClosed
  <2>2. \A m \in tx.counted[current] \ pending' : tx'.rows[m] \in {"success", "missing"}
    BY <1>1, <1>4, <1>5, <1>6 DEF ListingsOf
  <2>3. QED
    BY <1>2, <1>3, <1>4, <1>5, <2>1, <2>2 DEF Open
<1>10. ClosedInBoth'
  BY <1>2, <1>4 DEF LoopInv, Open, ClosedInBoth
<1>11. QED
  BY <1>4, <1>7, <1>8, <1>9, <1>10
     DEF LoopInv, AtRest, SuccessIsPriced, LoadRows

LEMMA DecideLoadInv ==
  ASSUME TypeOK, LoopInv, DecideLoad
  PROVE  LoopInv'
<1>1. current \in Exchanges /\ ListingsDone
  BY DEF DecideLoad, ListingsDone, TypeOK
<1>2. PICK result :
        tx'.publication[current] =
          PublicationDecision(tx.status[current], LoadRows(tx, current),
                              Cardinality(tx.counted[current]), result)
  BY <1>1 DEF DecideLoad, TypeOK, Tables
<1>3. /\ tx'.rows = tx.rows
      /\ tx'.counted = tx.counted
      /\ tx'.status = tx.status
      /\ \A y \in Exchanges \ {current} : tx'.publication[y] = tx.publication[y]
  BY DEF DecideLoad, TypeOK, Tables
<1>4. /\ db' = db /\ priced' = priced
      /\ pc' = "loads" /\ current' = NoExchange
  BY DEF DecideLoad, market
<1>5. ASSUME NEW y \in Exchanges \ {current} PROVE AtRest(tx, y)'
  <2>1. LoadRows(tx', y) = LoadRows(tx, y)
    BY <1>3 DEF LoadRows
  <2>2. AtRest(tx, y)
    BY DEF LoopInv
  <2>3. QED
    BY <1>3, <1>4, <2>1, <2>2 DEF AtRest
<1>6. /\ tx'.publication[current] = "ready" =>
           /\ tx'.counted[current] # {}
           /\ tx'.counted[current] \subseteq priced'
           /\ Failed(LoadRows(tx', current)) = {}
      /\ tx'.counted[current] # {} =>
           tx'.status[current] = AggregateStatus(LoadRows(tx', current),
                                                 Cardinality(tx'.counted[current]))
      /\ tx'.status[current] # "market_closed"
  <2>1. LoadRows(tx', current) = LoadRows(tx, current)
    BY <1>3 DEF LoadRows
  <2>2. tx'.publication[current] = "ready" =>
          /\ tx.counted[current] # {}
          /\ tx.counted[current] \subseteq priced
          /\ Failed(LoadRows(tx, current)) = {}
    BY <1>1, <1>2, DecisionSound
  <2>3. /\ tx.counted[current] # {} =>
             tx.status[current] = AggregateStatus(LoadRows(tx, current),
                                                  Cardinality(tx.counted[current]))
        /\ tx.status[current] # "market_closed"
    BY <1>1 DEF LoopInv, Open, ListingsDone
  <2>4. QED
    BY <1>3, <1>4, <2>1, <2>2, <2>3
<1>7. \A y \in Exchanges : AtRest(tx, y)'
  BY <1>5, <1>6 DEF AtRest
<1>8. QED
  BY <1>3, <1>4, <1>7 DEF LoopInv, AtRest, SuccessIsPriced, Open, ClosedInBoth, LoadRows

LEMMA InitLoopInv == Init => LoopInv
<1>1. SUFFICES ASSUME Init PROVE LoopInv
  OBVIOUS
<1>2. /\ tx = db
      /\ \A x \in Exchanges : db.counted[x] = {} /\ db.publication[x] = NoRow
      /\ \A l \in Listings : db.rows[l] = NoRow
  BY <1>1 DEF Init
<1>3. pc = "idle"
  BY <1>1 DEF Init
<1>4. QED
  BY <1>2, <1>3 DEF LoopInv, AtRest, SuccessIsPriced, Open, ClosedInBoth, NoRow

LEMMA NextLoopInv == TypeOK /\ LoopInv /\ [Next]_vars => LoopInv'
<1>1. SUFFICES ASSUME TypeOK, LoopInv, [Next]_vars PROVE LoopInv'
  OBVIOUS
<1>2. ASSUME NEW l \in Listings, PersistPrice(l) PROVE LoopInv'
  BY <1>1, <1>2, MarketStepInv DEF PersistPrice, tables, run, cursor
<1>3. ASSUME NEW selected \in SUBSET Listings, ChangeUniverse(selected) PROVE LoopInv'
  BY <1>1, <1>3, MarketStepInv DEF ChangeUniverse, tables, run, cursor
<1>4. ASSUME NEW requested \in SUBSET Exchanges, StartRun(requested) PROVE LoopInv'
  BY <1>1, <1>4, StartRunInv
<1>5. ASSUME NEW x \in Exchanges, ProcessClosed(x) \/ OpenLoad(x) PROVE LoopInv'
  BY <1>1, <1>5, ProcessClosedInv, OpenLoadInv
<1>6. ASSUME NEW l \in Listings, ProcessListing(l) PROVE LoopInv'
  BY <1>1, <1>6, ProcessListingInv
<1>7. CASE DecideLoad
  BY <1>1, <1>7, DecideLoadInv
<1>8. CASE Commit
  BY <1>1, <1>8, EndOfRunInv DEF Commit
<1>9. CASE AbortOnConstraint \/ Crash
  BY <1>1, <1>9, EndOfRunInv DEF AbortOnConstraint, Crash, RollBack
<1>10. CASE UNCHANGED vars
  BY <1>1, <1>10, MarketStepInv DEF vars, market, tables, run, cursor
<1>11. QED
  BY <1>1, <1>2, <1>3, <1>4, <1>5, <1>6, <1>7, <1>8, <1>9, <1>10 DEF Next

LEMMA LoopInvariant == Spec => [](TypeOK /\ LoopInv)
<1>1. QED
  BY LoopTypeCorrect, InitLoopInv, NextLoopInv, PTL DEF Spec

-----------------------------------------------------------------------------
(***************************************************************************)
(* The properties.                                                         *)
(***************************************************************************)

\* Whatever the app reads as ready has a price for every counted listing and
\* no failed outcome: for any number of runs, interrupted anywhere, while
\* prices and listings come and go.
THEOREM ReadinessIsPriced == Spec => []ReadyMeansPriced
<1>1. LoopInv => ReadyMeansPriced
  BY DEF LoopInv, AtRest, ReadyMeansPriced
<1>2. QED
  BY <1>1, LoopInvariant, PTL

\* A committed status is never older than the committed denominator.
THEOREM StatusIsCurrent == Spec => []CommittedStatusCurrent
<1>1. LoopInv => CommittedStatusCurrent
  BY DEF LoopInv, AtRest, CommittedStatusCurrent
<1>2. QED
  BY <1>1, LoopInvariant, PTL

\* No sequence of runs turns a closed day into anything else.
THEOREM ClosedStaysClosed == Spec => MarketClosedKept
<1>1. TypeOK /\ LoopInv /\ LoopInv' /\ [Next]_vars =>
        [\A x \in Exchanges :
           db.status[x] = "market_closed" =>
             /\ db'.status[x] = "market_closed"
             /\ db'.publication[x] \in {NoRow, "market_closed"}]_vars
  <2>1. SUFFICES ASSUME TypeOK, LoopInv, LoopInv', [Next]_vars,
                        NEW x \in Exchanges, db.status[x] = "market_closed"
                 PROVE  /\ db'.status[x] = "market_closed"
                        /\ db'.publication[x] \in {NoRow, "market_closed"}
    OBVIOUS
  <2>2. db' = db \/ db' = tx
    BY <2>1 DEF Next, PersistPrice, ChangeUniverse, StartRun, ProcessClosed, OpenLoad,
                ProcessListing, DecideLoad, Commit, AbortOnConstraint, Crash,
                RollBack, vars, tables
  <2>3. db'.status[x] = "market_closed"
    BY <2>1, <2>2 DEF LoopInv, ClosedInBoth
  <2>4. QED
    BY <2>1, <2>3 DEF LoopInv, AtRest
<1>2. QED
  BY <1>1, LoopInvariant, PTL DEF Spec, MarketClosedKept
-----------------------------------------------------------------------------
(***************************************************************************)
(* The trust loop implements the abstract publication.  The only step that *)
(* the reader sees besides new prices is the commit: there tx becomes db,  *)
(* so what has to be known of tx is that each load it decided is decided   *)
(* soundly (LoopInv says so), and that it left all other loads as they are *)
(* in db (RefInv).                                                         *)
(***************************************************************************)


\* A day is published as closed only if its load was entered as closed.
ClosedIsEntered(t) ==
  \A x \in Exchanges : t.publication[x] = "market_closed" => t.status[x] = "market_closed"

CountsItsOwn(t) == \A x \in Exchanges : t.counted[x] \subseteq ListingsOf(x)

RefInv ==
  /\ \A x \in Exchanges : tx.status[x] = "market_closed" => db.status[x] = "market_closed"
  /\ ClosedIsEntered(db) /\ ClosedIsEntered(tx)
  /\ CountsItsOwn(db) /\ CountsItsOwn(tx)
  /\ \A x \in Exchanges \ {current} :
       tx.publication[x] = NoRow =>
         db.publication[x] = NoRow /\ tx.counted[x] = db.counted[x]

LEMMA InitRefInv == Init => RefInv
<1>1. SUFFICES ASSUME Init PROVE RefInv
  OBVIOUS
<1>2. /\ tx = db
      /\ \A x \in Exchanges : db.counted[x] = {} /\ db.publication[x] = NoRow
  BY <1>1 DEF Init
<1>3. QED
  BY <1>2 DEF RefInv, ClosedIsEntered, CountsItsOwn, NoRow

\* The table tx is replaced by db, or db by tx, at the end of a run.
LEMMA EndOfRunRefInv ==
  ASSUME TypeOK, RefInv,
         \/ pc # "listings" /\ db' = tx /\ tx' = tx
         \/ db' = db /\ tx' = db
  PROVE  RefInv'
BY DEF RefInv, ClosedIsEntered, CountsItsOwn

LEMMA ListingStepRefInv ==
  ASSUME TypeOK, LoopInv, RefInv, NEW l \in Listings, ProcessListing(l)
  PROVE  RefInv'
<1>1. /\ tx'.counted = tx.counted
      /\ tx'.publication = tx.publication
      /\ \A y \in Exchanges \ {current} : tx'.status[y] = tx.status[y]
  BY DEF ProcessListing, TypeOK, Tables
<1>2. db' = db /\ current' = current
  BY DEF ProcessListing
<1>3. tx'.status[current] # "market_closed"
  <2>1. tx.status \in [Exchanges -> LoadStatus \cup {NoLoad}] /\ current \in Exchanges
    BY DEF ProcessListing, TypeOK, Tables
  <2>2. PICK rows, n : tx'.status[current] = AggregateStatus(rows, n)
    <3> DEFINE found == IF l \in priced THEN {"has_selected_price"} ELSE {}
               after == [tx EXCEPT !.rows[l] = Classify(found)]
    <3>1. tx' = [after EXCEPT !.status[current] =
                  AggregateStatus(LoadRows(after, current),
                                  Cardinality(tx.counted[current]))]
      BY DEF ProcessListing
    <3>2. after \in [status : {tx.status}, counted : {tx.counted}, rows : {after.rows},
                     quality : {tx.quality}, publication : {tx.publication}]
      BY DEF TypeOK, Tables
    <3> HIDE DEF after
    <3>3. tx'.status[current] = AggregateStatus(LoadRows(after, current),
                                                Cardinality(tx.counted[current]))
      BY <2>1, <3>1, <3>2
    <3>4. QED
      BY <3>3
  <2>3. QED
    BY <2>2, AggregateNeverClosed
<1>4. tx.publication[current] # "market_closed"
  BY DEF ProcessListing, LoopInv, Open, RefInv, ClosedIsEntered, TypeOK
<1>5. QED
  BY <1>1, <1>2, <1>3, <1>4 DEF RefInv, ClosedIsEntered, CountsItsOwn

LEMMA NextRefInv == TypeOK /\ LoopInv /\ RefInv /\ [Next]_vars => RefInv'
<1>1. SUFFICES ASSUME TypeOK, LoopInv, RefInv, [Next]_vars PROVE RefInv'
  OBVIOUS
<1> USE DEF market, tables, cursor, run, history
<1>2. ASSUME NEW l \in Listings, PersistPrice(l) PROVE RefInv'
  BY <1>1, <1>2 DEF PersistPrice, RefInv, ClosedIsEntered, CountsItsOwn
<1>3. ASSUME NEW selected \in SUBSET Listings, ChangeUniverse(selected) PROVE RefInv'
  BY <1>1, <1>3 DEF ChangeUniverse, RefInv, ClosedIsEntered, CountsItsOwn
<1>4. ASSUME NEW requested \in SUBSET Exchanges, StartRun(requested) PROVE RefInv'
  <2>1. /\ tx'.counted = tx.counted
        /\ tx'.publication = tx.publication
        /\ \A x \in Exchanges :
             \/ tx'.status[x] = tx.status[x]
             \/ tx.status[x] = NoLoad /\ tx'.status[x] = "not_started"
        /\ db' = db /\ current' = current
    BY <1>1, <1>4 DEF StartRun, TypeOK, Tables
  <2>2. QED
    BY <1>1, <2>1 DEF RefInv, ClosedIsEntered, CountsItsOwn, NoLoad
<1>5. ASSUME NEW x \in Exchanges, ProcessClosed(x) PROVE RefInv'
  <2>1. /\ tx'.counted = tx.counted
        /\ tx'.status = tx.status
        /\ tx.status[x] = "market_closed"
        /\ tx'.publication[x] = "market_closed"
        /\ \A y \in Exchanges \ {x} : tx'.publication[y] = tx.publication[y]
        /\ db' = db /\ current' = current
    BY <1>1, <1>5, ClosedMeaning DEF ProcessClosed, TypeOK, Tables
  <2>2. QED
    BY <1>1, <2>1 DEF RefInv, ClosedIsEntered, CountsItsOwn, NoRow
<1>6. ASSUME NEW x \in Exchanges, OpenLoad(x) PROVE RefInv'
  <2>1. /\ tx'.status = tx.status
        /\ tx'.publication = tx.publication
        /\ tx'.counted[x] \subseteq ListingsOf(x)
        /\ \A y \in Exchanges \ {x} : tx'.counted[y] = tx.counted[y]
        /\ db' = db /\ current' = x /\ current \notin Exchanges
    BY <1>1, <1>6 DEF OpenLoad, IsNext, TypeOK, Tables
  <2>2. QED
    BY <1>1, <2>1 DEF RefInv, ClosedIsEntered, CountsItsOwn
<1>7. ASSUME NEW l \in Listings, ProcessListing(l) PROVE RefInv'
  BY <1>1, <1>7, ListingStepRefInv
<1>8. CASE DecideLoad
  <2>1. PICK result :
          tx'.publication[current] =
            PublicationDecision(tx.status[current], LoadRows(tx, current),
                                Cardinality(tx.counted[current]), result)
    BY <1>1, <1>8 DEF DecideLoad, ListingsDone, TypeOK, Tables
  <2>2. /\ tx'.counted = tx.counted
        /\ tx'.status = tx.status
        /\ \A y \in Exchanges \ {current} : tx'.publication[y] = tx.publication[y]
        /\ db' = db
    BY <1>1, <1>8 DEF DecideLoad, ListingsDone, TypeOK, Tables
  <2>3. tx'.publication[current] \in PublicationStatus
    BY <2>1, PublicationDecisionType
  <2>4. tx'.publication[current] = "market_closed" => tx.status[current] = "market_closed"
    BY <2>1, ClosedMeaning
  <2>5. QED
    BY <1>1, <2>2, <2>3, <2>4
       DEF RefInv, ClosedIsEntered, CountsItsOwn, PublicationStatus, NoRow
<1>9. CASE Commit
  BY <1>1, <1>9, EndOfRunRefInv DEF Commit
<1>10. CASE AbortOnConstraint \/ Crash
  BY <1>1, <1>10, EndOfRunRefInv DEF AbortOnConstraint, Crash, RollBack
<1>11. CASE UNCHANGED vars
  BY <1>1, <1>11 DEF vars, RefInv, ClosedIsEntered, CountsItsOwn
<1>12. QED
  BY <1>1, <1>2, <1>3, <1>4, <1>5, <1>6, <1>7, <1>8, <1>9, <1>10, <1>11 DEF Next

-----------------------------------------------------------------------------
(***************************************************************************)
(* Every step of the loop is a step of the abstract publication, or none.  *)
(***************************************************************************)

\* A commit publishes the loads that have a decision in the transaction.
LEMMA CommitPublishes ==
  ASSUME TypeOK, LoopInv, RefInv, Commit
  PROVE  Reader!Next
<1> DEFINE batch == {x \in Exchanges : tx.publication[x] # NoRow}
<1>1. db' = tx /\ priced' = priced /\ current \notin Exchanges
  BY DEF Commit, Stop, market, TypeOK
<1>2. ASSUME NEW x \in batch PROVE Reader!SoundDecision(x)
  <2>1. tx.publication[x] \in PublicationStatus
    BY DEF TypeOK, Tables
  <2>2. tx.counted[x] \subseteq {p \in Listings : ExchangeOf[p] = x}
    BY DEF RefInv, CountsItsOwn, ListingsOf
  <2>3. tx.publication[x] = "ready" => tx.counted[x] # {} /\ tx.counted[x] \subseteq priced
    BY <1>1 DEF LoopInv, AtRest
  <2>4. db.publication[x] = "market_closed" => tx.publication[x] = "market_closed"
    <3>1. SUFFICES ASSUME db.publication[x] = "market_closed"
                   PROVE  tx.publication[x] = "market_closed"
      OBVIOUS
    <3>2. tx.status[x] = "market_closed"
      BY <3>1 DEF RefInv, ClosedIsEntered, LoopInv, ClosedInBoth
    <3>3. QED
      BY <1>1, <3>2 DEF LoopInv, AtRest
  <2>5. tx.publication[x] = "market_closed" => db.publication[x] \in {NoRow, "market_closed"}
    BY DEF RefInv, ClosedIsEntered, LoopInv, AtRest
  <2>6. QED
    BY <1>1, <2>1, <2>2, <2>3, <2>4, <2>5
       DEF Reader!SoundDecision, Reader!PublicationStatus, PublicationStatus,
           Reader!NoRow, NoRow
<1>3. ASSUME NEW x \in Exchanges \ batch
      PROVE  db'.publication[x] = db.publication[x] /\ db'.counted[x] = db.counted[x]
  BY <1>1 DEF RefInv
<1>4. /\ db'.publication \in [Exchanges -> Reader!PublicationStatus \cup {Reader!NoRow}]
      /\ db'.counted \in [Exchanges -> SUBSET Listings]
  BY <1>1 DEF TypeOK, Tables, Reader!PublicationStatus, PublicationStatus,
              Reader!NoRow, NoRow
<1>5. Reader!Publish(batch)
  BY <1>1, <1>2, <1>3, <1>4 DEF Reader!Publish
<1>6. batch \in SUBSET Exchanges
  OBVIOUS
<1>7. QED
  BY <1>5, <1>6 DEF Reader!Next

\* The loop implements the abstract publication: what a reader of the
\* database sees are atomic batches of sound decisions.
THEOREM LoopImplementsPublication == Spec => ImplementsPublication
<1>1. Init => Reader!Init
  <2>1. SUFFICES ASSUME Init PROVE Reader!Init
    OBVIOUS
  <2>2. PICK initial \in [Exchanges -> {NoLoad, "not_started", "market_closed"}] :
          db = [status      |-> initial,
                counted     |-> [x \in Exchanges |-> {}],
                rows        |-> [l \in Listings |-> NoRow],
                quality     |-> [x \in Exchanges |-> NoRow],
                publication |-> [x \in Exchanges |-> NoRow]]
    BY <2>1 DEF Init
  <2>3. QED
    BY <2>1, <2>2 DEF Init, Reader!Init, Reader!NoRow, NoRow
<1>2. TypeOK /\ LoopInv /\ RefInv /\ [Next]_vars => [Reader!Next]_(Reader!vars)
  <2>1. SUFFICES ASSUME TypeOK, LoopInv, RefInv, [Next]_vars
                 PROVE  Reader!Next \/ UNCHANGED Reader!vars
    OBVIOUS
  <2> USE DEF market, tables, cursor, run, history, Reader!vars
  <2>2. ASSUME NEW l \in Listings, PersistPrice(l) PROVE Reader!Next
    BY <2>2 DEF PersistPrice, Reader!Next, Reader!RecordPrice
  <2>3. CASE Commit
    BY <2>1, <2>3, CommitPublishes
  <2>4. CASE AbortOnConstraint \/ Crash
    BY <2>4 DEF AbortOnConstraint, Crash, RollBack, Stop
  <2>5. CASE \/ \E selected \in SUBSET Listings : ChangeUniverse(selected)
             \/ \E requested \in SUBSET Exchanges : StartRun(requested)
             \/ \E x \in Exchanges : ProcessClosed(x) \/ OpenLoad(x)
             \/ \E l \in Listings : ProcessListing(l)
             \/ DecideLoad
    BY <2>5 DEF ChangeUniverse, StartRun, ProcessClosed, OpenLoad, ProcessListing,
                DecideLoad
  <2>6. CASE UNCHANGED vars
    BY <2>6 DEF vars
  <2>7. QED
    BY <2>1, <2>2, <2>3, <2>4, <2>5, <2>6 DEF Next
<1>3. QED
  BY <1>1, <1>2, LoopInvariant, InitRefInv, NextRefInv, PTL
     DEF Spec, ImplementsPublication, Reader!Spec

-----------------------------------------------------------------------------
(***************************************************************************)
(* What is published is what the gate decides from the other columns, as   *)
(* long as the load is at rest; and once a quiet run has processed it, the *)
(* load is up to date with the market, so that processing it once more     *)
(* changes nothing.                                                        *)
(***************************************************************************)

Decision(t, x) ==
  PublicationDecision(t.status[x], LoadRows(t, x), Cardinality(t.counted[x]), t.quality[x])

Decided(t, x) ==
  /\ t.publication[x] # NoRow => t.status[x] # NoLoad /\ t.publication[x] = Decision(t, x)
  /\ \A l \in t.counted[x] : t.rows[l] \in {"success", "missing"}

DecidedInv ==
  /\ \A x \in Exchanges : Decided(db, x)
  /\ \A x \in Exchanges \ {current} : Decided(tx, x)

\* The rows that the prices call for.
RowsFit(t, listings) ==
  \A l \in listings : t.rows[l] = IF l \in priced THEN "success" ELSE "missing"

\* What processing x once more would leave as it is.
UpToDate(t, x) ==
  /\ t.publication[x] # NoRow
  /\ t.status[x] # "market_closed" =>
       /\ t.counted[x] = supported \cap ListingsOf(x)
       /\ RowsFit(t, t.counted[x])
       /\ t.counted[x] # {} /\ t.counted[x] \subseteq priced => t.quality[x] = "passed"

\* The loads a quiet run has processed are up to date, and the current one as
\* far as it got; ...
QuietSoFar ==
  quiet /\ pc # "idle" =>
    /\ \A x \in scope \ todo : UpToDate(tx, x)
    /\ pc = "listings" =>
         /\ tx.counted[current] = supported \cap ListingsOf(current)
         /\ RowsFit(tx, tx.counted[current] \ pending)
         /\ withPrice = (tx.counted[current] \ pending) \cap priced

Same(u, t, x) == Committed(u, x) = Committed(t, x)

\* ... those that a quiet run has committed are so in the database, and the
\* transaction differs from it in none of their columns.
SettledStay ==
  \A x \in settled : UpToDate(db, x) /\ Same(tx, db, x)

\* What was found has a price, and the loads still to process are the run's.
Bounds ==
  /\ pc = "listings" => withPrice \subseteq priced /\ current \in todo
  /\ todo \subseteq scope

QuietInv == QuietSoFar /\ SettledStay /\ Bounds

-----------------------------------------------------------------------------
(***************************************************************************)
(* What the steps do to the columns of a load.                             *)
(***************************************************************************)

LEMMA SameMeaning ==
  ASSUME NEW t, NEW u, NEW x
  PROVE  Same(u, t, x) <=>
           /\ u.status[x] = t.status[x]
           /\ u.counted[x] = t.counted[x]
           /\ LoadRows(u, x) = LoadRows(t, x)
           /\ u.quality[x] = t.quality[x]
           /\ u.publication[x] = t.publication[x]
BY DEF Same, Committed

LEMMA SameRows ==
  ASSUME NEW t, NEW u, NEW x, LoadRows(u, x) = LoadRows(t, x), NEW l \in ListingsOf(x)
  PROVE  u.rows[l] = t.rows[l]
<1>1. LoadRows(u, x)[l] = u.rows[l] /\ LoadRows(t, x)[l] = t.rows[l]
  BY DEF LoadRows
<1>2. QED
  BY <1>1

LEMMA DecidedSame ==
  ASSUME NEW t, NEW u, NEW x, Decided(t, x), Same(u, t, x), t.counted[x] \subseteq ListingsOf(x)
  PROVE  Decided(u, x)
<1>1. \A l \in t.counted[x] : u.rows[l] = t.rows[l]
  BY SameMeaning, SameRows
<1>2. Decision(u, x) = Decision(t, x)
  BY SameMeaning DEF Decision
<1>3. QED
  BY <1>1, <1>2, SameMeaning DEF Decided

LEMMA UpToDateSame ==
  ASSUME NEW t, NEW u, NEW x, UpToDate(t, x), Same(u, t, x), t.counted[x] \subseteq ListingsOf(x)
  PROVE  UpToDate(u, x)
<1>1. \A l \in t.counted[x] : u.rows[l] = t.rows[l]
  BY SameMeaning, SameRows
<1>2. QED
  BY <1>1, SameMeaning DEF UpToDate, RowsFit

\* Starting a run enters the missing loads.
LEMMA StartRunEffect ==
  ASSUME TypeOK, NEW requested \in SUBSET Exchanges, StartRun(requested)
  PROVE  /\ db' = db /\ UNCHANGED <<supported, priced, settled>> /\ current' = current
         /\ \A x \in Exchanges : tx.status[x] # NoLoad => Same(tx', tx, x)
         /\ \A x \in Exchanges :
              /\ tx'.counted[x] = tx.counted[x] /\ tx'.publication[x] = tx.publication[x]
              /\ tx'.rows = tx.rows
         /\ pc = "idle" /\ pc' = "loads" /\ scope' = todo'
<1>1. /\ tx'.counted = tx.counted /\ tx'.rows = tx.rows /\ tx'.quality = tx.quality
      /\ tx'.publication = tx.publication
      /\ \A x \in Exchanges : tx.status[x] # NoLoad => tx'.status[x] = tx.status[x]
  BY DEF StartRun, TypeOK, Tables
<1>2. \A x \in Exchanges : LoadRows(tx', x) = LoadRows(tx, x)
  BY <1>1 DEF LoadRows
<1>3. \A x \in Exchanges : tx.status[x] # NoLoad => Same(tx', tx, x)
  BY <1>1, <1>2, SameMeaning
<1>4. QED
  BY <1>1, <1>3 DEF StartRun, market, cursor

LEMMA ProcessClosedEffect ==
  ASSUME TypeOK, NEW x \in Exchanges, ProcessClosed(x)
  PROVE  /\ db' = db /\ UNCHANGED <<supported, priced, settled, quiet, pc, current, pending,
                                    withPrice, scope>>
         /\ \A y \in Exchanges \ {x} : Same(tx', tx, y)
         /\ tx'.status[x] = tx.status[x] /\ tx'.counted[x] = tx.counted[x]
         /\ LoadRows(tx', x) = LoadRows(tx, x) /\ tx'.quality[x] = tx.quality[x]
         /\ tx'.publication[x] = Decision(tx, x)
         /\ tx.status[x] = "market_closed"
         /\ pc = "loads" /\ current \notin Exchanges /\ x \in todo /\ todo' = todo \ {x}
<1>1. /\ tx'.counted = tx.counted /\ tx'.rows = tx.rows /\ tx'.quality = tx.quality
      /\ tx'.status = tx.status
      /\ tx'.publication = [tx.publication EXCEPT ![x] = Decision(tx, x)]
  BY DEF ProcessClosed, TypeOK, Tables, Decision
<1>2. tx.publication \in [Exchanges -> PublicationStatus \cup {NoRow}]
  BY DEF TypeOK, Tables
<1>3. \A y \in Exchanges : LoadRows(tx', y) = LoadRows(tx, y)
  BY <1>1 DEF LoadRows
<1>4. \A y \in Exchanges \ {x} : Same(tx', tx, y)
  BY <1>1, <1>2, <1>3, SameMeaning
<1>5. QED
  BY <1>1, <1>2, <1>3, <1>4 DEF ProcessClosed, IsNext, market, cursor, history, TypeOK

LEMMA OpenLoadEffect ==
  ASSUME TypeOK, NEW x \in Exchanges, OpenLoad(x)
  PROVE  /\ db' = db /\ UNCHANGED <<supported, priced, settled, quiet, todo, scope>>
         /\ \A y \in Exchanges \ {x} : Same(tx', tx, y)
         /\ tx'.status[x] = tx.status[x] /\ tx'.counted[x] = supported \cap ListingsOf(x)
         /\ tx'.rows = tx.rows /\ tx'.quality[x] = tx.quality[x]
         /\ tx'.publication[x] = tx.publication[x]
         /\ tx.status[x] # "market_closed"
         /\ pc = "loads" /\ pc' = "listings" /\ x \in todo
         /\ current' = x /\ current \notin Exchanges
         /\ pending' = supported \cap ListingsOf(x) /\ withPrice' = {}
<1>1. /\ tx'.status = tx.status /\ tx'.rows = tx.rows /\ tx'.quality = tx.quality
      /\ tx'.publication = tx.publication
      /\ tx'.counted = [tx.counted EXCEPT ![x] = supported \cap ListingsOf(x)]
  BY DEF OpenLoad, TypeOK, Tables
<1>2. tx.counted \in [Exchanges -> SUBSET Listings]
  BY DEF TypeOK, Tables
<1>3. \A y \in Exchanges : LoadRows(tx', y) = LoadRows(tx, y)
  BY <1>1 DEF LoadRows
<1>4. \A y \in Exchanges \ {x} : Same(tx', tx, y)
  BY <1>1, <1>2, <1>3, SameMeaning
<1>5. QED
  BY <1>1, <1>2, <1>4 DEF OpenLoad, IsNext, market, history, TypeOK

LEMMA ProcessListingEffect ==
  ASSUME TypeOK, LoopInv, NEW l \in Listings, ProcessListing(l)
  PROVE  /\ db' = db /\ UNCHANGED <<supported, priced, settled, quiet, pc, todo, current, scope>>
         /\ \A y \in Exchanges \ {current} : Same(tx', tx, y)
         /\ tx'.counted[current] = tx.counted[current]
         /\ tx'.rows = [tx.rows EXCEPT ![l] = IF l \in priced THEN "success" ELSE "missing"]
         /\ tx'.status[current] = AggregateStatus(LoadRows(tx', current),
                                                  Cardinality(tx.counted[current]))
         /\ tx'.quality[current] = tx.quality[current]
         /\ tx'.publication[current] = tx.publication[current]
         /\ pc = "listings" /\ current \in Exchanges /\ l \in pending
         /\ l \in tx.counted[current] /\ pending \subseteq tx.counted[current]
         /\ tx.counted[current] \subseteq ListingsOf(current)
         /\ pending' = pending \ {l}
         /\ withPrice' = IF l \in priced THEN withPrice \cup {l} ELSE withPrice
<1>1. /\ Classify({"has_selected_price"}) = "success"
      /\ Classify({}) = "missing"
  BY DEF Classify
<1>2. tx'.rows = [tx.rows EXCEPT ![l] = IF l \in priced THEN "success" ELSE "missing"]
  <2>1. tx'.rows = [tx.rows EXCEPT ![l] =
                      Classify(IF l \in priced THEN {"has_selected_price"} ELSE {})]
    BY DEF ProcessListing, TypeOK, Tables
  <2>2. QED
    BY <1>1, <2>1
<1>3. /\ tx'.counted = tx.counted
      /\ tx'.publication = tx.publication
      /\ tx'.quality = tx.quality
      /\ \A y \in Exchanges \ {current} : tx'.status[y] = tx.status[y]
  BY DEF ProcessListing, TypeOK, Tables
<1>4. /\ pc = "listings" /\ current \in Exchanges /\ l \in pending
      /\ l \in tx.counted[current] /\ tx.counted[current] \subseteq ListingsOf(current)
      /\ pending \subseteq tx.counted[current]
  BY DEF ProcessListing, TypeOK, LoopInv, Open
<1>5. tx'.status[current] = AggregateStatus(LoadRows(tx', current),
                                            Cardinality(tx.counted[current]))
  <2> DEFINE found == IF l \in priced THEN {"has_selected_price"} ELSE {}
             after == [tx EXCEPT !.rows[l] = Classify(found)]
             status == AggregateStatus(LoadRows(after, current), Cardinality(tx.counted[current]))
  <2>1. tx' = [after EXCEPT !.status[current] = status]
    BY DEF ProcessListing
  <2>2. after \in [status : {tx.status}, counted : {tx.counted}, rows : {after.rows},
                   quality : {tx.quality}, publication : {tx.publication}]
    BY DEF TypeOK, Tables
  <2>3. tx.status \in [Exchanges -> LoadStatus \cup {NoLoad}]
    BY DEF TypeOK, Tables
  <2> HIDE DEF after, status
  <2>4. tx'.status[current] = status /\ tx'.rows = after.rows
    BY <1>4, <2>1, <2>2, <2>3
  <2>5. LoadRows(after, current) = LoadRows(tx', current)
    BY <2>4 DEF LoadRows
  <2>6. QED
    BY <2>4, <2>5 DEF status
<1>6. ASSUME NEW y \in Exchanges \ {current} PROVE Same(tx', tx, y)
  <2>1. l \notin ListingsOf(y)
    BY <1>4 DEF ListingsOf
  <2>2. tx.rows \in [Listings -> OutcomeClass \cup {NoRow}]
    BY DEF TypeOK, Tables
  <2>3. \A m \in ListingsOf(y) : tx'.rows[m] = tx.rows[m]
    BY <1>2, <2>1, <2>2 DEF ListingsOf
  <2>4. LoadRows(tx', y) = LoadRows(tx, y)
    BY <2>3 DEF LoadRows
  <2>5. QED
    BY <1>3, <2>4, SameMeaning
<1>7. QED
  BY <1>2, <1>3, <1>4, <1>5, <1>6 DEF ProcessListing, market, history

LEMMA DecideLoadEffect ==
  ASSUME TypeOK, DecideLoad
  PROVE  /\ db' = db /\ UNCHANGED <<supported, priced, settled, quiet, pending, withPrice, scope>>
         /\ \A y \in Exchanges \ {current} : Same(tx', tx, y)
         /\ tx'.status[current] = tx.status[current] /\ tx'.counted[current] = tx.counted[current]
         /\ tx'.rows = tx.rows
         /\ tx'.quality[current] = IF ValidationDue
                                   THEN Correctness(Cardinality(tx.counted[current]), 0, FALSE, FALSE)
                                   ELSE tx.quality[current]
         /\ tx'.publication[current] = Decision(tx', current)
         /\ pc = "listings" /\ pc' = "loads" /\ current \in Exchanges /\ pending = {}
         /\ current' = NoExchange /\ todo' = todo \ {current}
<1> DEFINE checked == IF ValidationDue
                      THEN Correctness(Cardinality(tx.counted[current]), 0, FALSE, FALSE)
                      ELSE tx.quality[current]
           decision == PublicationDecision(tx.status[current], LoadRows(tx, current),
                                           Cardinality(tx.counted[current]), checked)
<1>1. current \in Exchanges /\ tx \in Tables
  BY DEF DecideLoad, ListingsDone, TypeOK
<1>2. tx' = [tx EXCEPT !.quality[current] = checked, !.publication[current] = decision]
  BY DEF DecideLoad
<1> HIDE DEF checked, decision
<1>3. /\ tx'.counted = tx.counted /\ tx'.rows = tx.rows /\ tx'.status = tx.status
      /\ tx'.quality = [tx.quality EXCEPT ![current] = checked]
      /\ tx'.publication = [tx.publication EXCEPT ![current] = decision]
      /\ tx.publication \in [Exchanges -> PublicationStatus \cup {NoRow}]
      /\ tx.quality \in [Exchanges -> CorrectnessResult \cup {NoRow}]
  BY <1>1, <1>2 DEF Tables
<1>4. \A y \in Exchanges : LoadRows(tx', y) = LoadRows(tx, y)
  BY <1>3 DEF LoadRows
<1>5. \A y \in Exchanges \ {current} : Same(tx', tx, y)
  BY <1>3, <1>4, SameMeaning
<1>6. tx'.publication[current] = decision /\ tx'.quality[current] = checked
  BY <1>1, <1>3
<1>7. decision = Decision(tx', current)
  BY <1>1, <1>3, <1>4, <1>6 DEF decision, Decision
<1>8. QED
  BY <1>1, <1>3, <1>5, <1>6, <1>7 DEF DecideLoad, ListingsDone, market, history, checked

-----------------------------------------------------------------------------
(***************************************************************************)
(* The committed publication is the decision.                              *)
(***************************************************************************)

\* A load is in the tables before the run gets to it.
Entered ==
  /\ \A x \in todo : tx.status[x] # NoLoad
  /\ pc = "listings" => tx.status[current] # NoLoad

LEMMA NextEntered == TypeOK /\ LoopInv /\ Entered /\ [Next]_vars => Entered'
<1>1. SUFFICES ASSUME TypeOK, LoopInv, Entered, [Next]_vars PROVE Entered'
  OBVIOUS
<1>2. todo \subseteq Exchanges
  BY <1>1 DEF TypeOK
<1>3. ASSUME UNCHANGED <<tx, pc, current, todo>> PROVE Entered'
  BY <1>1, <1>3 DEF Entered
<1>4. ASSUME NEW requested \in SUBSET Exchanges, StartRun(requested) PROVE Entered'
  BY <1>1, <1>4 DEF Entered, StartRun
<1>5. ASSUME NEW x \in Exchanges, ProcessClosed(x) PROVE Entered'
  <2>1. \A y \in Exchanges : tx'.status[y] = tx.status[y]
    BY <1>1, <1>5, ProcessClosedEffect, SameMeaning
  <2>2. QED
    BY <1>1, <1>2, <1>5, <2>1, ProcessClosedEffect DEF Entered
<1>6. ASSUME NEW x \in Exchanges, OpenLoad(x) PROVE Entered'
  <2>1. \A y \in Exchanges : tx'.status[y] = tx.status[y]
    BY <1>1, <1>6, OpenLoadEffect, SameMeaning
  <2>2. QED
    BY <1>1, <1>2, <1>6, <2>1, OpenLoadEffect DEF Entered
<1>7. ASSUME NEW l \in Listings, ProcessListing(l) PROVE Entered'
  <2>1. \A y \in Exchanges \ {current} : tx'.status[y] = tx.status[y]
    BY <1>1, <1>7, ProcessListingEffect, SameMeaning
  <2>2. tx'.status[current] # NoLoad
    BY <1>1, <1>7, ProcessListingEffect, AggregateStatusMeaning DEF LoadStatus, NoLoad
  <2>3. QED
    BY <1>1, <1>2, <1>7, <2>1, <2>2, ProcessListingEffect DEF Entered
<1>8. ASSUME DecideLoad PROVE Entered'
  <2>1. \A y \in Exchanges \ {current} : tx'.status[y] = tx.status[y]
    BY <1>1, <1>8, DecideLoadEffect, SameMeaning
  <2>2. QED
    BY <1>1, <1>2, <1>8, <2>1, DecideLoadEffect DEF Entered
<1>9. ASSUME Commit \/ AbortOnConstraint \/ Crash PROVE Entered'
  BY <1>9 DEF Entered, Commit, AbortOnConstraint, Crash, Stop
<1>10. QED
  BY <1>1, <1>3, <1>4, <1>5, <1>6, <1>7, <1>8, <1>9
     DEF Next, PersistPrice, ChangeUniverse, vars, tables, run, cursor

LEMMA InitDecided == Init => DecidedInv /\ Entered
<1>1. SUFFICES ASSUME Init PROVE DecidedInv /\ Entered
  OBVIOUS
<1>2. tx = db /\ \A x \in Exchanges : db.counted[x] = {} /\ db.publication[x] = NoRow
  BY <1>1 DEF Init
<1>3. QED
  BY <1>1, <1>2 DEF Init, DecidedInv, Decided, Entered

\* No load is published before it is entered.
LEMMA UnenteredUndecided ==
  ASSUME NEW t, NEW x, Decided(t, x), t.status[x] = NoLoad
  PROVE  t.publication[x] = NoRow
BY DEF Decided

LEMMA NextDecided ==
  TypeOK /\ LoopInv /\ RefInv /\ Entered /\ DecidedInv /\ [Next]_vars => DecidedInv'
<1>1. SUFFICES ASSUME TypeOK, LoopInv, RefInv, Entered, DecidedInv, [Next]_vars PROVE DecidedInv'
  OBVIOUS
<1>2. \A x \in Exchanges : tx.counted[x] \subseteq ListingsOf(x) /\ db.counted[x] \subseteq ListingsOf(x)
  BY <1>1 DEF RefInv, CountsItsOwn
<1>3. ASSUME UNCHANGED <<db, tx, current>> PROVE DecidedInv'
  BY <1>1, <1>3 DEF DecidedInv, Decided, Decision, LoadRows
<1>4. ASSUME NEW requested \in SUBSET Exchanges, StartRun(requested) PROVE DecidedInv'
  <2>1. db' = db /\ current \notin Exchanges /\ current' = current
    BY <1>1, <1>4, StartRunEffect DEF TypeOK
  <2>2. ASSUME NEW x \in Exchanges PROVE Decided(tx', x)
    <3>1. Decided(tx, x)
      BY <1>1, <2>1 DEF DecidedInv
    <3>2. CASE tx.status[x] # NoLoad
      BY <1>1, <1>2, <1>4, <3>1, <3>2, StartRunEffect, DecidedSame
    <3>3. CASE tx.status[x] = NoLoad
      <4>1. tx'.publication[x] = NoRow /\ tx'.counted[x] = tx.counted[x] /\ tx'.rows = tx.rows
        BY <1>1, <1>4, <3>1, <3>3, StartRunEffect, UnenteredUndecided
      <4>2. QED
        BY <3>1, <4>1 DEF Decided
    <3>4. QED
      BY <3>2, <3>3
  <2>3. QED
    BY <1>1, <2>1, <2>2 DEF DecidedInv, Decided, Decision, LoadRows
<1>5. ASSUME NEW x \in Exchanges, ProcessClosed(x) PROVE DecidedInv'
  <2>1. db' = db /\ current \notin Exchanges /\ current' = current
    BY <1>1, <1>5, ProcessClosedEffect
  <2>2. ASSUME NEW y \in Exchanges \ {x} PROVE Decided(tx', y)
    BY <1>1, <1>2, <1>5, <2>1, ProcessClosedEffect, DecidedSame DEF DecidedInv
  <2>3. Decided(tx', x)
    <3>1. Decided(tx, x)
      BY <1>1, <2>1 DEF DecidedInv
    <3>2. /\ tx'.status[x] = tx.status[x] /\ tx'.counted[x] = tx.counted[x]
          /\ LoadRows(tx', x) = LoadRows(tx, x) /\ tx'.quality[x] = tx.quality[x]
          /\ tx'.publication[x] = Decision(tx, x) /\ tx.status[x] = "market_closed"
      BY <1>1, <1>5, ProcessClosedEffect
    <3>3. \A l \in tx.counted[x] : tx'.rows[l] = tx.rows[l]
      BY <1>2, <3>2, SameRows
    <3>4. Decision(tx', x) = Decision(tx, x)
      BY <3>2 DEF Decision
    <3>5. QED
      BY <3>1, <3>2, <3>3, <3>4 DEF Decided, NoLoad
  <2>4. QED
    BY <1>1, <2>1, <2>2, <2>3 DEF DecidedInv, Decided, Decision, LoadRows
<1>6. ASSUME NEW x \in Exchanges, OpenLoad(x) PROVE DecidedInv'
  <2>1. db' = db /\ current \notin Exchanges /\ current' = x
    BY <1>1, <1>6, OpenLoadEffect
  <2>2. ASSUME NEW y \in Exchanges \ {x} PROVE Decided(tx', y)
    BY <1>1, <1>2, <1>6, <2>1, OpenLoadEffect, DecidedSame DEF DecidedInv
  <2>3. QED
    BY <1>1, <2>1, <2>2 DEF DecidedInv, Decided, Decision, LoadRows
<1>7. ASSUME NEW l \in Listings, ProcessListing(l) PROVE DecidedInv'
  <2>1. db' = db /\ current' = current
    BY <1>1, <1>7, ProcessListingEffect
  <2>2. ASSUME NEW y \in Exchanges \ {current} PROVE Decided(tx', y)
    BY <1>1, <1>2, <1>7, ProcessListingEffect, DecidedSame DEF DecidedInv
  <2>3. QED
    BY <1>1, <2>1, <2>2 DEF DecidedInv, Decided, Decision, LoadRows
<1>8. ASSUME DecideLoad PROVE DecidedInv'
  <2>1. db' = db /\ current \in Exchanges /\ current' = NoExchange /\ NoExchange \notin Exchanges
    BY <1>1, <1>8, DecideLoadEffect, ExchangesAssumption DEF NoExchange
  <2>2. ASSUME NEW y \in Exchanges \ {current} PROVE Decided(tx', y)
    BY <1>1, <1>2, <1>8, DecideLoadEffect, DecidedSame DEF DecidedInv
  <2>3. Decided(tx', current)
    <3>1. /\ tx'.status[current] = tx.status[current] /\ tx'.counted[current] = tx.counted[current]
          /\ tx'.rows = tx.rows /\ tx'.publication[current] = Decision(tx', current)
          /\ pc = "listings" /\ pending = {}
      BY <1>1, <1>8, DecideLoadEffect
    <3>2. /\ \A l \in tx.counted[current] : tx.rows[l] \in {"success", "missing"}
          /\ tx.counted[current] # {} =>
               tx.status[current] = AggregateStatus(LoadRows(tx, current),
                                                    Cardinality(tx.counted[current]))
      BY <1>1, <3>1 DEF LoopInv, Open
    <3>3. tx.status[current] # NoLoad
      BY <1>1, <3>1 DEF Entered
    <3>4. QED
      BY <3>1, <3>2, <3>3 DEF Decided
  <2>4. QED
    BY <1>1, <2>1, <2>2, <2>3 DEF DecidedInv, Decided, Decision, LoadRows
<1>9. ASSUME Commit PROVE DecidedInv'
  <2>1. db' = tx /\ tx' = tx /\ current \notin Exchanges
    BY <1>1, <1>9 DEF Commit, TypeOK
  <2>2. QED
    BY <1>1, <2>1 DEF DecidedInv, Decided, Decision, LoadRows
<1>10. ASSUME AbortOnConstraint \/ Crash PROVE DecidedInv'
  <2>1. db' = db /\ tx' = db
    BY <1>10 DEF AbortOnConstraint, Crash, RollBack
  <2>2. QED
    BY <1>1, <2>1 DEF DecidedInv, Decided, Decision, LoadRows
<1>11. QED
  BY <1>1, <1>3, <1>4, <1>5, <1>6, <1>7, <1>8, <1>9, <1>10
     DEF Next, PersistPrice, ChangeUniverse, vars, tables, run, cursor

-----------------------------------------------------------------------------
(***************************************************************************)
(* The operator's table.                                                   *)
(***************************************************************************)

LEMMA SuccessOrMissing ==
  ASSUME NEW t, NEW x, NEW l \in ListingsOf(x), t.rows[l] \in {"success", "missing"}
  PROVE  /\ l \in Terminal(LoadRows(t, x)) /\ l \in RowsOf(LoadRows(t, x))
         /\ t.rows[l] = "success" => l \in Succeeded(LoadRows(t, x))
         /\ t.rows[l] = "missing" => l \in Failed(LoadRows(t, x))
<1>1. LoadRows(t, x)[l] = t.rows[l] /\ l \in DOMAIN LoadRows(t, x)
  BY DEF LoadRows
<1>2. QED
  BY <1>1 DEF Terminal, RowsOf, Succeeded, Failed, NoRow

\* The sets of rows of a load are finite.
LEMMA RowsFinite ==
  ASSUME NEW t, NEW x
  PROVE  /\ IsFiniteSet(Succeeded(LoadRows(t, x)))
         /\ IsFiniteSet(Failed(LoadRows(t, x)))
         /\ IsFiniteSet(Terminal(LoadRows(t, x)))
<1>1. /\ Succeeded(LoadRows(t, x)) \subseteq Listings
      /\ Failed(LoadRows(t, x)) \subseteq Listings
      /\ Terminal(LoadRows(t, x)) \subseteq Listings
  BY DEF Terminal, Succeeded, Failed, LoadRows, ListingsOf
<1>2. QED
  BY <1>1, ListingsAssumption, FS_Subset

\* A load with a row for everything counted has a final status, and if none
\* failed, both gates are open.
LEMMA DecidedStatus ==
  ASSUME NEW t, NEW x, t.counted[x] # {}, t.counted[x] \subseteq ListingsOf(x),
         \A l \in t.counted[x] : t.rows[l] \in {"success", "missing"},
         t.status[x] = AggregateStatus(LoadRows(t, x), Cardinality(t.counted[x]))
  PROVE  /\ t.status[x] \in CompletedStatus
         /\ t.status[x] # "ready" => Cardinality(Failed(LoadRows(t, x))) > 0
         /\ t.status[x] = "ready" /\ t.quality[x] = "passed" => Decision(t, x) = "ready"
<1> DEFINE R == LoadRows(t, x)
           C == t.counted[x]
<1>1. IsFiniteSet(C) /\ Cardinality(C) \in Nat /\ Cardinality(C) > 0
  <2>1. C \subseteq Listings
    BY DEF ListingsOf
  <2>2. IsFiniteSet(C)
    BY <2>1, ListingsAssumption, FS_Subset
  <2>3. QED
    BY <2>2, FS_CardinalityType, FS_EmptySet
<1>2. C \subseteq Terminal(R) /\ RowsOf(R) # {}
  BY SuccessOrMissing
<1>3. /\ Cardinality(Terminal(R)) \in Nat /\ Cardinality(Terminal(R)) >= Cardinality(C)
  BY <1>1, <1>2, RowsFinite, FS_CardinalityType, FS_Subset
<1>4. /\ t.status[x] \in CompletedStatus
      /\ t.status[x] # "ready" => Failed(R) # {}
      /\ t.status[x] = "ready" => Failed(R) = {}
  <2>1. ~(Cardinality(Terminal(R)) < Cardinality(C))
    BY <1>1, <1>3
  <2>2. QED
    BY <1>2, <2>1 DEF AggregateStatus, CompletedStatus
<1>5. t.status[x] # "ready" => Cardinality(Failed(R)) > 0
  BY <1>4, RowsFinite, FS_CardinalityType, FS_EmptySet
<1>6. ASSUME t.status[x] = "ready", t.quality[x] = "passed" PROVE Decision(t, x) = "ready"
  <2>1. C \subseteq Succeeded(R)
    BY <1>4, <1>6, SuccessOrMissing
  <2>2. Cardinality(Succeeded(R)) \in Nat /\ Cardinality(Succeeded(R)) >= Cardinality(C)
    BY <1>1, <2>1, RowsFinite, FS_CardinalityType, FS_Subset
  <2>3. CoverageAbove99(R, Cardinality(C)) /\ HasAllTerminal(R, Cardinality(C))
    BY <1>1, <1>3, <2>2 DEF CoverageAbove99, HasAllTerminal
  <2>4. QED
    BY <1>6, <2>3 DEF Decision, PublicationDecision
<1>7. QED
  BY <1>4, <1>5, <1>6

LEMMA DecidedShowsCause == TypeOK /\ LoopInv /\ RefInv /\ DecidedInv => BlockedRowShowsCause
<1>1. SUFFICES ASSUME TypeOK, LoopInv, RefInv, DecidedInv, NEW x \in TableRows,
                      Row(x).publication \in {"blocked", "failed"},
                      Row(x).quality = "passed", Row(x).eligible # 0
               PROVE  \/ Row(x).degraded /\ Row(x).exceptions > 0
                      \/ Row(x).status = "failed" /\ Row(x).exceptions > 0
  BY DEF BlockedRowShowsCause
<1>2. x \in Exchanges
  BY DEF TableRows
<1>3. /\ db.publication[x] \in {"blocked", "failed"}
      /\ QualityResult(x) = "passed"
      /\ Cardinality(db.counted[x]) # 0
      /\ Row(x).degraded <=> db.status[x] = "partial_problematic"
      /\ Row(x).status = db.status[x]
      /\ Row(x).exceptions = Exceptions(x)
  BY <1>1 DEF Row
<1>4. db.quality[x] = "passed"
  BY <1>3 DEF QualityResult
<1>5. db.counted[x] # {}
  BY <1>3, FS_EmptySet
<1>6. /\ db.counted[x] \subseteq ListingsOf(x)
      /\ \A l \in db.counted[x] : db.rows[l] \in {"success", "missing"}
      /\ db.publication[x] = Decision(db, x)
      /\ db.status[x] = AggregateStatus(LoadRows(db, x), Cardinality(db.counted[x]))
  BY <1>1, <1>2, <1>3, <1>5
     DEF RefInv, CountsItsOwn, DecidedInv, Decided, LoopInv, AtRest, NoRow
<1>7. /\ db.status[x] \in CompletedStatus
      /\ db.status[x] # "ready" => Cardinality(Failed(LoadRows(db, x))) > 0
      /\ db.status[x] # "ready"
  BY <1>3, <1>4, <1>5, <1>6, DecidedStatus
<1>8. Exceptions(x) > 0
  <2>1. Cardinality(Failed(LoadRows(db, x))) \in Nat
    BY RowsFinite, FS_CardinalityType
  <2>2. QED
    BY <1>7, <2>1 DEF Exceptions
<1>9. QED
  BY <1>3, <1>7, <1>8 DEF CompletedStatus

\* The operator's table shows a cause for every load that is not published,
\* in whatever state the loop has committed: a result that is not passed, an
\* exception beside the degraded or failed status, or an empty denominator.
THEOREM CauseIsShown == TableSpec => []BlockedRowShowsCause
<1>1. TableInit => Init
  BY DEF TableInit
<1>2. [TableNext]_tableVars => [Next]_vars
  BY DEF TableNext, tableVars, Next
<1>3. QED
  BY <1>1, <1>2, InitTypeOK, NextTypeOK, InitLoopInv, NextLoopInv, InitRefInv, NextRefInv,
     InitDecided, NextEntered, NextDecided, DecidedShowsCause, PTL DEF TableSpec

-----------------------------------------------------------------------------
(***************************************************************************)
(* QuietInv is inductive.                                                  *)
(***************************************************************************)

\* A check of something that finds no mismatch passes.
LEMMA CheckPasses ==
  ASSUME NEW C, C \subseteq Listings, C # {}
  PROVE  Correctness(Cardinality(C), 0, FALSE, FALSE) = "passed"
<1>1. Cardinality(C) \in Nat /\ Cardinality(C) # 0
  BY ListingsAssumption, FS_Subset, FS_CardinalityType, FS_EmptySet
<1>2. QED
  BY <1>1 DEF Correctness

\* Being up to date is about the tables and the market only.
LEMMA MarketSame ==
  ASSUME UNCHANGED <<supported, priced>>, NEW x
  PROVE  /\ UpToDate(tx', x) => UpToDate(tx, x)'
         /\ UpToDate(db', x) => UpToDate(db, x)'
BY DEF UpToDate, RowsFit

LEMMA SettledStep ==
  ASSUME SettledStay, UNCHANGED <<supported, priced, settled>>, db' = db,
         \A x \in settled : Same(tx', tx, x)
  PROVE  SettledStay'
<1>1. ASSUME NEW x \in settled PROVE UpToDate(db, x)' /\ Same(tx', db', x)
  BY <1>1, MarketSame DEF SettledStay, Same
<1>2. QED
  BY <1>1 DEF SettledStay, Same, Committed, LoadRows

\* Recording the outcome of a listing again records the same.
LEMMA SettledListing ==
  ASSUME TypeOK, LoopInv, RefInv, SettledStay, NEW l \in Listings, ProcessListing(l),
         current \in settled
  PROVE  Same(tx', tx, current)
<1>1. /\ UpToDate(db, current) /\ Same(tx, db, current)
      /\ tx.status[current] # "market_closed" /\ current \in Exchanges
  BY ProcessListingEffect DEF SettledStay, LoopInv, Open
<1>2. /\ db.status[current] = tx.status[current] /\ db.counted[current] = tx.counted[current]
      /\ LoadRows(tx, current) = LoadRows(db, current)
      /\ db.quality[current] = tx.quality[current]
      /\ db.publication[current] = tx.publication[current]
  BY <1>1, SameMeaning
<1>3. l \in db.counted[current] /\ l \in ListingsOf(current)
  BY <1>2, ProcessListingEffect
<1>4. tx.rows[l] = IF l \in priced THEN "success" ELSE "missing"
  <2>1. db.rows[l] = IF l \in priced THEN "success" ELSE "missing"
    BY <1>1, <1>2, <1>3 DEF UpToDate, RowsFit
  <2>2. QED
    BY <1>2, <1>3, <2>1, SameRows
<1>5. tx'.rows = tx.rows
  <2>1. tx.rows \in [Listings -> OutcomeClass \cup {NoRow}]
    BY DEF TypeOK, Tables
  <2>2. tx'.rows = [tx.rows EXCEPT ![l] = tx.rows[l]]
    BY <1>4, ProcessListingEffect
  <2>3. QED
    BY <2>1, <2>2
<1>6. LoadRows(tx', current) = LoadRows(tx, current)
  BY <1>5 DEF LoadRows
<1>7. tx'.status[current] = tx.status[current]
  <2>1. AtRest(db, current)
    BY <1>1 DEF LoopInv
  <2>2. db.status[current] = AggregateStatus(LoadRows(db, current),
                                             Cardinality(db.counted[current]))
    BY <1>3, <2>1 DEF AtRest
  <2>3. QED
    BY <1>2, <1>6, <2>2, ProcessListingEffect
<1>8. QED
  BY <1>6, <1>7, ProcessListingEffect, SameMeaning

\* Deciding a load again decides the same.
LEMMA SettledDecision ==
  ASSUME TypeOK, RefInv, DecidedInv, SettledStay, withPrice \subseteq priced, DecideLoad,
         tx.status[current] # "market_closed", current \in settled
  PROVE  Same(tx', tx, current)
<1>1. UpToDate(db, current) /\ Same(tx, db, current) /\ current \in Exchanges
  BY DecideLoadEffect DEF SettledStay
<1>2. /\ db.status[current] = tx.status[current] /\ db.counted[current] = tx.counted[current]
      /\ LoadRows(tx, current) = LoadRows(db, current)
      /\ db.quality[current] = tx.quality[current]
      /\ db.publication[current] = tx.publication[current]
  BY <1>1, SameMeaning
<1>3. tx'.quality[current] = tx.quality[current]
  <2>1. CASE ValidationDue
    <3>1. tx.counted[current] # {} /\ tx.counted[current] \subseteq priced
      BY <2>1 DEF ValidationDue
    <3>2. tx.quality[current] = "passed"
      BY <1>1, <1>2, <3>1 DEF UpToDate
    <3>3. tx.counted[current] \subseteq Listings
      BY <1>1 DEF TypeOK, Tables
    <3>4. QED
      BY <2>1, <3>1, <3>2, <3>3, CheckPasses, DecideLoadEffect
  <2>2. QED
    BY <2>1, DecideLoadEffect
<1>4. LoadRows(tx', current) = LoadRows(tx, current)
  BY DecideLoadEffect DEF LoadRows
<1>5. tx'.publication[current] = tx.publication[current]
  <2>1. db.publication[current] = Decision(db, current)
    BY <1>1 DEF UpToDate, DecidedInv, Decided
  <2>2. Decision(tx', current) = Decision(db, current)
    BY <1>2, <1>3, <1>4, DecideLoadEffect DEF Decision
  <2>3. QED
    BY <1>2, <2>1, <2>2, DecideLoadEffect
<1>6. QED
  BY <1>3, <1>4, <1>5, DecideLoadEffect, SameMeaning

LEMMA NextSettledStay ==
  /\ TypeOK /\ LoopInv /\ RefInv /\ DecidedInv /\ QuietInv /\ [Next]_vars => SettledStay'
<1>1. SUFFICES ASSUME TypeOK, LoopInv, RefInv, DecidedInv, QuietInv, [Next]_vars
               PROVE  SettledStay'
  OBVIOUS
<1>2. SettledStay /\ settled \subseteq Exchanges
  BY <1>1 DEF QuietInv, TypeOK
<1>3. ASSUME settled' = {} PROVE SettledStay'
  BY <1>3 DEF SettledStay
<1>4. ASSUME NEW requested \in SUBSET Exchanges, StartRun(requested) PROVE SettledStay'
  <2>1. ASSUME NEW x \in settled PROVE tx.status[x] # NoLoad
    <3>1. db.publication[x] # NoRow /\ tx.status[x] = db.status[x]
      BY <1>2, SameMeaning DEF SettledStay, UpToDate
    <3>2. QED
      BY <1>1, <1>2, <3>1 DEF DecidedInv, Decided
  <2>2. \A x \in settled : Same(tx', tx, x)
    BY <1>1, <1>2, <1>4, <2>1, StartRunEffect
  <2>3. db' = db /\ UNCHANGED <<supported, priced, settled>>
    BY <1>1, <1>4, StartRunEffect
  <2>4. QED
    BY <1>2, <2>2, <2>3, SettledStep
<1>5. ASSUME NEW x \in Exchanges, ProcessClosed(x) PROVE SettledStay'
  <2>1. ASSUME x \in settled PROVE Same(tx', tx, x)
    <3>1. /\ db.status[x] = tx.status[x] /\ db.counted[x] = tx.counted[x]
          /\ LoadRows(tx, x) = LoadRows(db, x) /\ db.quality[x] = tx.quality[x]
          /\ db.publication[x] = tx.publication[x] /\ db.publication[x] # NoRow
      BY <1>2, <2>1, SameMeaning DEF SettledStay, UpToDate
    <3>2. db.publication[x] = Decision(db, x)
      BY <1>1, <3>1 DEF DecidedInv, Decided
    <3>3. Decision(tx, x) = Decision(db, x)
      BY <3>1 DEF Decision
    <3>4. QED
      BY <1>1, <1>5, <3>1, <3>2, <3>3, ProcessClosedEffect, SameMeaning
  <2>2. \A y \in settled : Same(tx', tx, y)
    BY <1>1, <1>2, <1>5, <2>1, ProcessClosedEffect
  <2>3. db' = db /\ UNCHANGED <<supported, priced, settled>>
    BY <1>1, <1>5, ProcessClosedEffect
  <2>4. QED
    BY <1>2, <2>2, <2>3, SettledStep
<1>6. ASSUME NEW x \in Exchanges, OpenLoad(x) PROVE SettledStay'
  <2>1. ASSUME x \in settled PROVE Same(tx', tx, x)
    <3>1. /\ db.status[x] = tx.status[x] /\ db.counted[x] = tx.counted[x] /\ UpToDate(db, x)
      BY <1>2, <2>1, SameMeaning DEF SettledStay
    <3>2. tx'.counted[x] = tx.counted[x]
      BY <1>1, <1>6, <3>1, OpenLoadEffect DEF UpToDate
    <3>3. LoadRows(tx', x) = LoadRows(tx, x)
      BY <1>1, <1>6, OpenLoadEffect DEF LoadRows
    <3>4. QED
      BY <1>1, <1>6, <3>2, <3>3, OpenLoadEffect, SameMeaning
  <2>2. \A y \in settled : Same(tx', tx, y)
    BY <1>1, <1>2, <1>6, <2>1, OpenLoadEffect
  <2>3. db' = db /\ UNCHANGED <<supported, priced, settled>>
    BY <1>1, <1>6, OpenLoadEffect
  <2>4. QED
    BY <1>2, <2>2, <2>3, SettledStep
<1>7. ASSUME NEW l \in Listings, ProcessListing(l) PROVE SettledStay'
  <2>1. \A y \in settled : Same(tx', tx, y)
    BY <1>1, <1>2, <1>7, ProcessListingEffect, SettledListing
  <2>2. db' = db /\ UNCHANGED <<supported, priced, settled>>
    BY <1>1, <1>7, ProcessListingEffect
  <2>3. QED
    BY <1>2, <2>1, <2>2, SettledStep
<1>8. ASSUME DecideLoad PROVE SettledStay'
  <2>1. withPrice \subseteq priced /\ tx.status[current] # "market_closed"
    BY <1>1, <1>8, DecideLoadEffect DEF QuietInv, Bounds, LoopInv, Open
  <2>2. \A y \in settled : Same(tx', tx, y)
    BY <1>1, <1>2, <1>8, <2>1, DecideLoadEffect, SettledDecision
  <2>3. db' = db /\ UNCHANGED <<supported, priced, settled>>
    BY <1>1, <1>8, DecideLoadEffect
  <2>4. QED
    BY <1>2, <2>2, <2>3, SettledStep
<1>9. ASSUME Commit PROVE SettledStay'
  <2>1. /\ db' = tx /\ tx' = tx /\ UNCHANGED <<supported, priced>> /\ pc = "loads" /\ todo = {}
        /\ settled' = IF quiet THEN settled \cup scope ELSE settled
    BY <1>9 DEF Commit, Stop, market
  <2>2. ASSUME NEW x \in settled PROVE UpToDate(tx, x)
    <3>1. db.counted[x] \subseteq ListingsOf(x)
      BY <1>1, <1>2 DEF RefInv, CountsItsOwn
    <3>2. UpToDate(db, x) /\ Same(tx, db, x)
      BY <1>2 DEF SettledStay
    <3>3. QED
      BY <3>1, <3>2, UpToDateSame
  <2>3. ASSUME quiet, NEW x \in scope PROVE UpToDate(tx, x)
    BY <1>1, <2>1, <2>3 DEF QuietInv, QuietSoFar
  <2>4. \A x \in settled' : UpToDate(db', x)
    BY <2>1, <2>2, <2>3
  <2>5. \A x \in settled' : UpToDate(db, x)'
    BY <2>1, <2>4, MarketSame
  <2>6. QED
    BY <2>1, <2>5 DEF SettledStay, Same, Committed, LoadRows
<1>10. ASSUME AbortOnConstraint \/ Crash PROVE SettledStay'
  <2>1. db' = db /\ tx' = db /\ UNCHANGED <<supported, priced, settled>>
    BY <1>10 DEF AbortOnConstraint, Crash, RollBack, Stop, market
  <2>2. \A x \in settled' : UpToDate(db, x)'
    BY <1>2, <2>1, MarketSame DEF SettledStay
  <2>3. QED
    BY <2>1, <2>2 DEF SettledStay, Same, Committed, LoadRows
<1>11. ASSUME UNCHANGED vars PROVE SettledStay'
  BY <1>2, <1>11
     DEF SettledStay, UpToDate, RowsFit, Same, Committed, LoadRows, vars, market, tables, history
<1>12. QED
  BY <1>1, <1>3, <1>4, <1>5, <1>6, <1>7, <1>8, <1>9, <1>10, <1>11
     DEF Next, PersistPrice, ChangeUniverse

\* A load that has been processed stays up to date while others are.
LEMMA DoneStays ==
  ASSUME TypeOK, RefInv, UNCHANGED <<supported, priced>>,
         NEW x \in Exchanges, UpToDate(tx, x), Same(tx', tx, x)
  PROVE  UpToDate(tx, x)'
<1>1. tx.counted[x] \subseteq ListingsOf(x)
  BY DEF RefInv, CountsItsOwn
<1>2. UpToDate(tx', x)
  BY <1>1, UpToDateSame
<1>3. QED
  BY <1>2, MarketSame

\* A quiet run has the load it decides up to date.
LEMMA DecisionUpToDate ==
  ASSUME TypeOK, QuietSoFar, quiet, DecideLoad, NEW x, x = current
  PROVE  UpToDate(tx, x)'
<1>1. /\ tx.counted[current] = supported \cap ListingsOf(current)
      /\ RowsFit(tx, tx.counted[current] \ pending)
      /\ withPrice = (tx.counted[current] \ pending) \cap priced
      /\ pending = {} /\ current \in Exchanges
  BY DecideLoadEffect DEF QuietSoFar
<1>2. /\ tx.counted[current] \ pending = tx.counted[current]
      /\ tx.counted[current] \subseteq Listings
  BY <1>1 DEF ListingsOf
<1>3. RowsFit(tx, tx.counted[current]) /\ withPrice = tx.counted[current] \cap priced
  BY <1>1, <1>2
<1>4. ASSUME tx.counted[current] # {}, tx.counted[current] \subseteq priced
      PROVE  tx'.quality[current] = "passed"
  <2>1. ValidationDue
    BY <1>3, <1>4 DEF ValidationDue
  <2>2. QED
    BY <1>2, <1>4, <2>1, CheckPasses, DecideLoadEffect
<1>5. tx'.publication[current] # NoRow
  <2>1. Decision(tx', current) \in PublicationStatus
    BY PublicationDecisionType DEF Decision
  <2>2. QED
    BY <2>1, DecideLoadEffect DEF PublicationStatus, NoRow
<1>6. UpToDate(tx', x)
  BY <1>1, <1>3, <1>4, <1>5, DecideLoadEffect DEF UpToDate, RowsFit
<1>7. QED
  BY <1>6, MarketSame, DecideLoadEffect

LEMMA NextBounds ==
  TypeOK /\ LoopInv /\ Bounds /\ [Next]_vars => Bounds'
<1>1. SUFFICES ASSUME TypeOK, LoopInv, Bounds, [Next]_vars PROVE Bounds'
  OBVIOUS
<1>2. ASSUME UNCHANGED <<tx, pc, current, todo, scope, withPrice>>, priced \subseteq priced'
      PROVE  Bounds'
  BY <1>1, <1>2 DEF Bounds
<1>3. ASSUME NEW requested \in SUBSET Exchanges, StartRun(requested) PROVE Bounds'
  BY <1>3 DEF Bounds, StartRun
<1>4. ASSUME NEW x \in Exchanges, ProcessClosed(x) PROVE Bounds'
  BY <1>1, <1>4, ProcessClosedEffect DEF Bounds
<1>5. ASSUME NEW x \in Exchanges, OpenLoad(x) PROVE Bounds'
  BY <1>1, <1>5, OpenLoadEffect DEF Bounds
<1>6. ASSUME NEW l \in Listings, ProcessListing(l) PROVE Bounds'
  <2>1. /\ UNCHANGED <<priced, pc, todo, current, scope>> /\ pc = "listings"
        /\ withPrice' = IF l \in priced THEN withPrice \cup {l} ELSE withPrice
    BY <1>1, <1>6, ProcessListingEffect
  <2>2. QED
    BY <1>1, <2>1 DEF Bounds
<1>7. ASSUME DecideLoad PROVE Bounds'
  BY <1>1, <1>7, DecideLoadEffect DEF Bounds
<1>8. ASSUME Commit \/ AbortOnConstraint \/ Crash PROVE Bounds'
  BY <1>8 DEF Bounds, Commit, AbortOnConstraint, Crash, Stop
<1>9. QED
  BY <1>1, <1>2, <1>3, <1>4, <1>5, <1>6, <1>7, <1>8
     DEF Next, PersistPrice, ChangeUniverse, vars, tables, run, cursor, market

LEMMA NextQuietSoFar ==
  TypeOK /\ LoopInv /\ RefInv /\ QuietInv /\ [Next]_vars => QuietSoFar'
<1>1. SUFFICES ASSUME TypeOK, LoopInv, RefInv, QuietInv, [Next]_vars PROVE QuietSoFar'
  OBVIOUS
<1>2. QuietSoFar /\ scope \subseteq Exchanges /\ todo \subseteq Exchanges
  BY <1>1 DEF QuietInv, TypeOK
<1>3. ASSUME quiet' = FALSE \/ pc' = "idle" PROVE QuietSoFar'
  BY <1>3 DEF QuietSoFar
<1>4. ASSUME NEW requested \in SUBSET Exchanges, StartRun(requested) PROVE QuietSoFar'
  <2>1. pc' = "loads" /\ scope' = todo'
    BY <1>1, <1>4, StartRunEffect
  <2>2. QED
    BY <2>1 DEF QuietSoFar
<1>5. ASSUME NEW x \in Exchanges, ProcessClosed(x) PROVE QuietSoFar'
  <2>1. UNCHANGED <<supported, priced, quiet, pc, scope>> /\ pc = "loads" /\ todo' = todo \ {x}
    BY <1>1, <1>5, ProcessClosedEffect
  <2>2. ASSUME quiet, NEW y \in scope \ todo, y # x PROVE UpToDate(tx, y)'
    <3>1. UpToDate(tx, y) /\ Same(tx', tx, y)
      BY <1>1, <1>2, <1>5, <2>1, <2>2, ProcessClosedEffect DEF QuietSoFar
    <3>2. QED
      BY <1>1, <1>2, <2>1, <3>1, DoneStays
  <2>3. UpToDate(tx, x)'
    <3>1. tx'.status[x] = "market_closed" /\ tx'.publication[x] = Decision(tx, x)
      BY <1>1, <1>5, ProcessClosedEffect
    <3>2. tx'.publication[x] # NoRow
      BY <3>1, PublicationDecisionType DEF Decision, PublicationStatus, NoRow
    <3>3. QED
      BY <3>1, <3>2 DEF UpToDate
  <2>4. QED
    BY <2>1, <2>2, <2>3 DEF QuietSoFar
<1>6. ASSUME NEW x \in Exchanges, OpenLoad(x) PROVE QuietSoFar'
  <2>1. /\ UNCHANGED <<supported, priced, quiet, scope, todo>>
        /\ pc = "loads" /\ x \in todo /\ current' = x
        /\ pending' = supported \cap ListingsOf(x) /\ withPrice' = {}
        /\ tx'.counted[x] = supported \cap ListingsOf(x)
    BY <1>1, <1>6, OpenLoadEffect
  <2>2. ASSUME quiet, NEW y \in scope \ todo PROVE UpToDate(tx, y)'
    <3>1. UpToDate(tx, y) /\ Same(tx', tx, y)
      BY <1>1, <1>2, <1>6, <2>1, <2>2, OpenLoadEffect DEF QuietSoFar
    <3>2. QED
      BY <1>1, <1>2, <2>1, <3>1, DoneStays
  <2>3. QED
    BY <2>1, <2>2 DEF QuietSoFar, RowsFit
<1>7. ASSUME NEW l \in Listings, ProcessListing(l) PROVE QuietSoFar'
  <2>1. /\ UNCHANGED <<supported, priced, quiet, pc, scope, todo, current>>
        /\ pc = "listings" /\ current \in todo
        /\ tx'.counted[current] = tx.counted[current]
        /\ tx'.rows = [tx.rows EXCEPT ![l] = IF l \in priced THEN "success" ELSE "missing"]
        /\ l \in pending /\ l \in tx.counted[current] /\ pending' = pending \ {l}
        /\ withPrice' = IF l \in priced THEN withPrice \cup {l} ELSE withPrice
    BY <1>1, <1>7, ProcessListingEffect DEF QuietInv, Bounds
  <2>2. ASSUME quiet, NEW y \in scope \ todo PROVE UpToDate(tx, y)'
    <3>1. UpToDate(tx, y) /\ Same(tx', tx, y)
      BY <1>1, <1>2, <1>7, <2>1, <2>2, ProcessListingEffect DEF QuietSoFar
    <3>2. QED
      BY <1>1, <1>2, <2>1, <3>1, DoneStays
  <2>3. ASSUME quiet
        PROVE  /\ tx'.counted[current] = supported \cap ListingsOf(current)
               /\ RowsFit(tx', tx'.counted[current] \ pending')
               /\ withPrice' = (tx'.counted[current] \ pending') \cap priced
    <3>1. /\ tx.counted[current] = supported \cap ListingsOf(current)
          /\ RowsFit(tx, tx.counted[current] \ pending)
          /\ withPrice = (tx.counted[current] \ pending) \cap priced
      BY <1>2, <2>1, <2>3 DEF QuietSoFar
    <3>2. tx.rows \in [Listings -> OutcomeClass \cup {NoRow}] /\ tx.counted[current] \subseteq Listings
      BY <1>1, <3>1 DEF TypeOK, Tables, ListingsOf
    <3>3. tx'.counted[current] \ pending' = (tx.counted[current] \ pending) \cup {l}
      BY <2>1
    <3>4. RowsFit(tx', tx'.counted[current] \ pending')
      BY <2>1, <3>1, <3>2, <3>3 DEF RowsFit
    <3>5. QED
      BY <2>1, <3>1, <3>3, <3>4
  <2>4. QED
    BY <2>1, <2>2, <2>3 DEF QuietSoFar, RowsFit
<1>8. ASSUME DecideLoad PROVE QuietSoFar'
  <2>1. /\ UNCHANGED <<supported, priced, quiet, scope>>
        /\ pc = "listings" /\ pc' = "loads" /\ todo' = todo \ {current}
    BY <1>1, <1>8, DecideLoadEffect
  <2>2. ASSUME quiet, NEW y \in scope \ todo, y # current PROVE UpToDate(tx, y)'
    <3>1. UpToDate(tx, y) /\ Same(tx', tx, y)
      BY <1>1, <1>2, <1>8, <2>1, <2>2, DecideLoadEffect DEF QuietSoFar
    <3>2. QED
      BY <1>1, <1>2, <2>1, <3>1, DoneStays
  <2>3. ASSUME quiet, NEW y, y = current PROVE UpToDate(tx, y)'
    BY <1>1, <1>2, <1>8, <2>3, DecisionUpToDate
  <2>4. ASSUME quiet, NEW y \in scope \ todo' PROVE UpToDate(tx, y)'
    BY <2>1, <2>2, <2>3, <2>4
  <2>5. QED
    BY <2>1, <2>4 DEF QuietSoFar
<1>9. ASSUME UNCHANGED vars PROVE QuietSoFar'
  BY <1>2, <1>9
     DEF QuietSoFar, UpToDate, RowsFit, vars, market, tables, run, cursor, history
<1>10. QED
  BY <1>1, <1>3, <1>4, <1>5, <1>6, <1>7, <1>8, <1>9
     DEF Next, PersistPrice, ChangeUniverse, Commit, AbortOnConstraint, Crash, Stop

LEMMA QuietInvariant == Spec => [](TypeOK /\ LoopInv /\ RefInv /\ DecidedInv /\ QuietInv)
<1>1. Init => QuietInv
  BY DEF Init, QuietInv, QuietSoFar, SettledStay, Bounds
<1>2. QED
  BY <1>1, InitTypeOK, NextTypeOK, InitLoopInv, NextLoopInv, InitRefInv, NextRefInv,
     InitDecided, NextEntered, NextDecided, NextSettledStay, NextQuietSoFar, NextBounds, PTL
     DEF Spec, QuietInv

-----------------------------------------------------------------------------
(***************************************************************************)
(* The properties of quiet runs.                                           *)
(***************************************************************************)

\* The loads of a quiet run are ready at the commit when they deserve it.
LEMMA DeservedIsReady ==
  ASSUME TypeOK, LoopInv, RefInv, DecidedInv, QuietInv, pc = "loads", todo = {}, quiet,
         NEW x \in scope, Deserves(tx, x)
  PROVE  tx.publication[x] = "ready"
<1>1. /\ x \in Exchanges /\ x # current
      /\ tx.publication[x] # NoRow
      /\ tx.counted[x] = supported \cap ListingsOf(x)
      /\ RowsFit(tx, tx.counted[x])
      /\ tx.quality[x] = "passed"
  BY DEF TypeOK, QuietInv, QuietSoFar, UpToDate, Deserves
<1>2. /\ tx.publication[x] = Decision(tx, x)
      /\ tx.status[x] = AggregateStatus(LoadRows(tx, x), Cardinality(tx.counted[x]))
  BY <1>1 DEF DecidedInv, Decided, LoopInv, AtRest, Deserves
<1>3. \A l \in tx.counted[x] : tx.rows[l] = "success"
  BY <1>1 DEF RowsFit, Deserves
<1>4. Failed(LoadRows(tx, x)) = {}
  <2>1. SUFFICES ASSUME NEW l \in Failed(LoadRows(tx, x)) PROVE FALSE
    OBVIOUS
  <2>2. l \in ListingsOf(x) /\ tx.rows[l] \in {"missing", "stale", "provider_failed"}
        /\ l \in RowsOf(LoadRows(tx, x))
    BY <2>1 DEF Failed, LoadRows, RowsOf, NoRow
  <2>3. l \notin supported
    BY <1>1, <1>3, <2>2
  <2>4. QED
    BY <2>1, <2>2, <2>3 DEF LeftOver, Deserves
<1>5. tx.status[x] = "ready"
  <2>1. ~(Cardinality(Failed(LoadRows(tx, x))) > 0)
    BY <1>4, FS_EmptySet
  <2>2. QED
    BY <1>1, <1>2, <1>3, <2>1, DecidedStatus DEF Deserves
<1>6. QED
  BY <1>1, <1>2, <1>3, <1>5, DecidedStatus DEF Deserves

\* A quiet run that the constraint stops has counted what is supported now, so a success
\* too many is that of a removed listing.
LEMMA OnlyLeftOversAbort ==
  ASSUME TypeOK, QuietInv, quiet, AbortOnConstraint
  PROVE  /\ LeftOver(tx, current) \cap Succeeded(LoadRows(tx, current)) # {}
         /\ supported \cap ListingsOf(current) \subseteq priced
<1> DEFINE C == tx.counted[current]
           S == Succeeded(LoadRows(tx, current))
<1>1. /\ pc = "listings" /\ pending = {} /\ withPrice = C
      /\ ~CoverageInRange(LoadRows(tx, current), Cardinality(C))
  BY DEF AbortOnConstraint, ListingsDone, RejectedByConstraint, ValidationDue
<1>2. C = supported \cap ListingsOf(current) /\ withPrice = (C \ pending) \cap priced
  BY <1>1 DEF QuietInv, QuietSoFar
<1>3. C \subseteq priced
  BY <1>1, <1>2
<1>4. IsFiniteSet(C) /\ IsFiniteSet(S)
  BY <1>2, RowsFinite, ListingsAssumption, FS_Subset DEF ListingsOf
<1>5. Cardinality(S) \in Nat /\ Cardinality(C) \in Nat /\ Cardinality(C) < Cardinality(S)
  BY <1>1, <1>4, FS_CardinalityType DEF CoverageInRange
<1>6. ~(S \subseteq C)
  BY <1>4, <1>5, FS_Subset
<1>7. S \subseteq RowsOf(LoadRows(tx, current)) /\ S \subseteq ListingsOf(current)
  BY DEF Succeeded, RowsOf, LoadRows, NoRow
<1>8. QED
  BY <1>2, <1>3, <1>6, <1>7 DEF LeftOver

\* A run around which nothing changed publishes every exchange that deserves it when it
\* commits, and dies of the constraint only of a removed listing's success
\* (jobs/opening_runtime_trust_loop.py, the run and its single commit).
THEOREM QuietRunsPublish == Spec => QuietRunPublishes
<1> DEFINE Inv == TypeOK /\ LoopInv /\ RefInv /\ DecidedInv /\ QuietInv
           Ends == quiet =>
             /\ Commit => \A x \in scope : Deserves(db', x) => db'.publication[x] = "ready"
             /\ AbortOnConstraint =>
                  /\ LeftOver(tx, current) \cap Succeeded(LoadRows(tx, current)) # {}
                  /\ supported \cap ListingsOf(current) \subseteq priced
<1>1. ASSUME Inv, quiet, Commit, NEW x \in scope, Deserves(db', x)
      PROVE  db'.publication[x] = "ready"
  <2>1. db' = tx /\ pc = "loads" /\ todo = {}
    BY <1>1 DEF Commit
  <2>2. Deserves(tx, x)
    BY <1>1, <2>1
  <2>3. QED
    BY <1>1, <2>1, <2>2, DeservedIsReady
<1>2. Inv => Ends
  BY <1>1, OnlyLeftOversAbort
<1>3. Inv /\ [Next]_vars => [Ends]_vars
  BY <1>2
<1>4. QED
  BY <1>3, QuietInvariant, PTL DEF Spec, QuietRunPublishes

\* Once a quiet run has committed an exchange, no later run changes what is
\* committed for it until something around the loop changes.
THEOREM RerunsAreIdempotent == Spec => RerunIdempotent
<1>1. QuietInv /\ [Next]_vars =>
        [(Commit /\ quiet) => \A x \in settled : Committed(db', x) = Committed(db, x)]_vars
  <2>1. SUFFICES ASSUME QuietInv, Commit, NEW x \in settled
                 PROVE  Committed(db', x) = Committed(db, x)
    OBVIOUS
  <2>2. db' = tx
    BY <2>1 DEF Commit
  <2>3. QED
    BY <2>1, <2>2 DEF QuietInv, SettledStay, Same
<1>2. QED
  BY <1>1, QuietInvariant, PTL DEF Spec, RerunIdempotent

=============================================================================
