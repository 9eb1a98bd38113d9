--------------------------- MODULE OpeningTrustLoop ---------------------------
(***************************************************************************)
(* The opening-load trust loop: one command that schedules the missing     *)
(* loads of a day, records an outcome for every supported listing of every *)
(* load, validates and decides the publication of each exchange, and       *)
(* commits once at the end.  Everything it writes is one transaction; what *)
(* it reads, statement by statement under READ COMMITTED, are price        *)
(* records and supported listings that other processes keep committing.    *)
(* The command may die at any step and is run again and again.             *)
(*                                                                         *)
(* The counter and time columns of a load are modelled in OpeningLoad; the *)
(* read model the loop refreshes lives in the memory of the command and    *)
(* dies with it.                                                           *)
(***************************************************************************)
EXTENDS OpeningLoadRules

CONSTANTS
  Exchanges,     \* exchanges, numbered in the order of their codes
  Listings,      \* listings, numbered in the order of their ids
  ExchangeOf,    \* listing -> exchange
  ExpectedToday  \* launch-active exchanges the calendar expects to trade

ASSUME ExchangesAssumption == Exchanges \subseteq Nat /\ IsFiniteSet(Exchanges)
ASSUME ListingsAssumption  == Listings \subseteq Nat /\ IsFiniteSet(Listings)
ASSUME ExchangeOfAssumption == ExchangeOf \in [Listings -> Exchanges]
ASSUME ExpectedAssumption == ExpectedToday \subseteq Exchanges

NoLoad == "no_load"
NoExchange == -1

VARIABLES
  supported,   \* the supported listings, committed by the universe loader
  priced,      \* the listings with an opening price record, likewise
  db,          \* the committed tables the loop writes
  tx,          \* those tables as the loop's transaction sees them
  pc,          \* where the loop is: "idle", "loads" or "listings"
  todo,        \* the loads it has still to process
  current,     \* the exchange whose listings it is processing
  pending,     \* the listings of current it has still to process
  withPrice,   \* the listings of current it found a price for
  scope,       \* history: the loads of this run
  quiet,       \* history: nothing changed around the loop since its start
  settled      \* history: exchanges committed by a quiet run, unchanged since

market == <<supported, priced>>
tables == <<db, tx>>
cursor == <<current, pending, withPrice>>
run    == <<pc, todo, cursor, scope>>
history == <<quiet, settled>>
vars == <<market, tables, run, history>>

ListingsOf(x) == {l \in Listings : ExchangeOf[l] = x}

\* The outcome rows of the load of exchange x, in the tables t.
LoadRows(t, x) == [l \in ListingsOf(x) |-> t.rows[l]]

Tables ==
  [status      : [Exchanges -> LoadStatus \cup {NoLoad}],
   counted     : [Exchanges -> SUBSET Listings],
   rows        : [Listings -> OutcomeClass \cup {NoRow}],
   quality     : [Exchanges -> CorrectnessResult \cup {NoRow}],
   publication : [Exchanges -> PublicationStatus \cup {NoRow}]]

\* A load exists or not when the day begins, and may have been entered as
\* closed; nothing has been recorded yet.
Init ==
  /\ supported \in SUBSET Listings
  /\ priced = {}
  /\ \E initial \in [Exchanges -> {NoLoad, "not_started", "market_closed"}] :
       db = [status      |-> initial,
             counted     |-> [x \in Exchanges |-> {}],
             rows        |-> [l \in Listings |-> NoRow],
             quality     |-> [x \in Exchanges |-> NoRow],
             publication |-> [x \in Exchanges |-> NoRow]]
  /\ tx = db
  /\ pc = "idle"
  /\ todo = {}
  /\ current = NoExchange
  /\ pending = {}
  /\ withPrice = {}
  /\ scope = {}
  /\ quiet = TRUE
  /\ settled = {}

-----------------------------------------------------------------------------
(***************************************************************************)
(* Other processes.                                                        *)
(***************************************************************************)

\* The opening-load worker commits a selected price.
PersistPrice(l) ==
  /\ l \notin priced
  /\ priced' = priced \cup {l}
  /\ quiet' = FALSE
  /\ settled' = {}
  /\ UNCHANGED <<supported, tables, run>>

\* The universe loader replaces the supported listings by those it selected.
ChangeUniverse(selected) ==
  /\ supported' = selected
  /\ quiet' = FALSE
  /\ settled' = {}
  /\ UNCHANGED <<priced, tables, run>>

-----------------------------------------------------------------------------
(***************************************************************************)
(* The loop.                                                               *)
(***************************************************************************)

\* The command starts: loads missing for the exchanges expected today are
\* created, and the loads of the requested exchanges (all, when none is
\* named) are selected.
StartRun(requested) ==
  /\ pc = "idle"
  /\ tx' = [tx EXCEPT !.status =
              [x \in Exchanges |-> IF x \in ExpectedToday /\ tx.status[x] = NoLoad
                                   THEN "not_started" ELSE tx.status[x]]]
  /\ todo' = {x \in Exchanges : /\ tx'.status[x] # NoLoad
                                /\ requested = {} \/ x \in requested}
  /\ scope' = todo'
  /\ pc' = "loads"
  /\ quiet' = TRUE
  /\ UNCHANGED <<market, db, cursor, settled>>

\* x is the next load to process, in the order of exchange codes.
IsNext(x) ==
  /\ pc = "loads"
  /\ x \in todo
  /\ \A y \in todo : x <= y

\* A load entered as closed is only decided.
ProcessClosed(x) ==
  /\ IsNext(x)
  /\ tx.status[x] = "market_closed"
  /\ tx' = [tx EXCEPT !.publication[x] =
              PublicationDecision(tx.status[x], LoadRows(tx, x),
                                  Cardinality(tx.counted[x]), tx.quality[x])]
  /\ todo' = todo \ {x}
  /\ UNCHANGED <<market, db, pc, cursor, scope, history>>

\* A faulty variant: a closed load may be processed like any other.
OpenLoad_EvenClosed(x) ==
  /\ IsNext(x)
  /\ current' = x
  /\ pending' = supported \cap ListingsOf(x)
  /\ withPrice' = {}
  /\ tx' = [tx EXCEPT !.counted[x] = pending']
  /\ pc' = "listings"
  /\ UNCHANGED <<market, db, todo, scope, history>>

\* Any other load has its denominator set from the listings supported now.
OpenLoad(x) ==
  /\ IsNext(x)
  /\ tx.status[x] # "market_closed"
  /\ current' = x
  /\ pending' = supported \cap ListingsOf(x)
  /\ withPrice' = {}
  /\ tx' = [tx EXCEPT !.counted[x] = pending']
  /\ pc' = "listings"
  /\ UNCHANGED <<market, db, todo, scope, history>>

\* A faulty variant: the status is refreshed before the outcome is flushed.
ProcessListing_BeforeFlush(l) ==
  /\ pc = "listings"
  /\ l \in pending
  /\ \A m \in pending : l <= m
  /\ LET found == IF l \in priced THEN {"has_selected_price"} ELSE {}
     IN  tx' = [tx EXCEPT
                  !.rows[l] = Classify(found),
                  !.status[current] = AggregateStatus(LoadRows(tx, current),
                                        Cardinality(tx.counted[current]))]
  /\ pending' = pending \ {l}
  /\ withPrice' = IF l \in priced THEN withPrice \cup {l} ELSE withPrice
  /\ UNCHANGED <<market, db, pc, todo, current, scope, history>>

\* The next listing is looked up among the price records, and its outcome
\* recorded; the aggregate status of the load is refreshed with it.
ProcessListing(l) ==
  /\ pc = "listings"
  /\ l \in pending
  /\ \A m \in pending : l <= m
  /\ LET found == IF l \in priced THEN {"has_selected_price"} ELSE {}
         after == [tx EXCEPT !.rows[l] = Classify(found)]
     IN  tx' = [after EXCEPT !.status[current] =
                  AggregateStatus(LoadRows(after, current),
                                  Cardinality(tx.counted[current]))]
  /\ pending' = pending \ {l}
  /\ withPrice' = IF l \in priced THEN withPrice \cup {l} ELSE withPrice
  /\ UNCHANGED <<market, db, pc, todo, current, scope, history>>

\* All listings are processed; with a price for each of them, the correctness
\* check of the load is due.
ListingsDone == pc = "listings" /\ pending = {}
ValidationDue == tx.counted[current] # {} /\ withPrice = tx.counted[current]

\* The quality record about to be inserted has a coverage above 100 percent.
RejectedByConstraint ==
  /\ ValidationDue
  /\ tx.quality[current] = NoRow
  /\ ~CoverageInRange(LoadRows(tx, current), Cardinality(tx.counted[current]))

\* A faulty variant: the publication is decided before the validation.
DecideLoad_BeforeValidation ==
  /\ ListingsDone
  /\ ~RejectedByConstraint
  /\ LET size == Cardinality(tx.counted[current])
         checked == IF ValidationDue THEN Correctness(size, 0, FALSE, FALSE)
                    ELSE tx.quality[current]
     IN  tx' = [tx EXCEPT
                  !.quality[current] = checked,
                  !.publication[current] =
                     PublicationDecision(tx.status[current], LoadRows(tx, current),
                                         size, tx.quality[current])]
  /\ todo' = todo \ {current}
  /\ pc' = "loads"
  /\ current' = NoExchange
  /\ UNCHANGED <<market, db, pending, withPrice, scope, history>>

\* The load is validated against its own listings, with no mismatch, and its
\* publication decided.
DecideLoad ==
  /\ ListingsDone
  /\ ~RejectedByConstraint
  /\ LET size == Cardinality(tx.counted[current])
         checked == IF ValidationDue THEN Correctness(size, 0, FALSE, FALSE)
                    ELSE tx.quality[current]
     IN  tx' = [tx EXCEPT
                  !.quality[current] = checked,
                  !.publication[current] =
                     PublicationDecision(tx.status[current], LoadRows(tx, current),
                                         size, checked)]
  /\ todo' = todo \ {current}
  /\ pc' = "loads"
  /\ current' = NoExchange
  /\ UNCHANGED <<market, db, pending, withPrice, scope, history>>

\* The command is over.
Stop ==
  /\ pc' = "idle"
  /\ todo' = {}
  /\ current' = NoExchange
  /\ pending' = {}
  /\ withPrice' = {}
  /\ scope' = {}
  /\ UNCHANGED <<market, quiet>>

\* The single commit, after the last load.
Commit ==
  /\ pc = "loads"
  /\ todo = {}
  /\ db' = tx
  /\ settled' = IF quiet THEN settled \cup scope ELSE settled
  /\ Stop
  /\ UNCHANGED tx

\* A faulty variant: what the aborted transaction wrote stays.
RollBack_Nothing == UNCHANGED <<tx, db, settled>>

\* A faulty variant: every statement was committed on its own.
RollBack_Autocommit == db' = tx /\ UNCHANGED <<tx, settled>>

RollBack == tx' = db /\ UNCHANGED <<db, settled>>

\* The rejected insert raises IntegrityError, which nothing catches.
AbortOnConstraint ==
  /\ ListingsDone
  /\ RejectedByConstraint
  /\ RollBack
  /\ Stop

\* The process dies.
Crash ==
  /\ pc # "idle"
  /\ RollBack
  /\ Stop

Next ==
  \/ \E l \in Listings : PersistPrice(l) \/ ProcessListing(l)
  \/ \E selected \in SUBSET Listings : ChangeUniverse(selected)
  \/ \E requested \in SUBSET Exchanges : StartRun(requested)
  \/ \E x \in Exchanges : ProcessClosed(x) \/ OpenLoad(x)
  \/ DecideLoad
  \/ Commit
  \/ AbortOnConstraint
  \/ Crash

Spec == Init /\ [][Next]_vars

-----------------------------------------------------------------------------
(***************************************************************************)
(* Properties.                                                             *)
(***************************************************************************)

\* Every variable stays in its domain; the transaction shows exactly the
\* committed tables between runs.
TypeOK ==
  /\ supported \in SUBSET Listings
  /\ priced \in SUBSET Listings
  /\ db \in Tables
  /\ tx \in Tables
  /\ pc \in {"idle", "loads", "listings"}
  /\ todo \in SUBSET Exchanges
  /\ current \in Exchanges \cup {NoExchange}
  /\ pc = "listings" <=> current \in Exchanges
  /\ pending \in SUBSET Listings
  /\ withPrice \in SUBSET Listings
  /\ scope \in SUBSET Exchanges
  /\ quiet \in BOOLEAN
  /\ settled \in SUBSET Exchanges
  /\ pc = "idle" => tx = db

\* What the app may read: an exchange is committed as ready only if every
\* listing that was counted for it has an opening price, and no outcome of
\* its load is a failure.  Prices arrive and listings leave between the
\* statements of the run that decided it, and the run may have died halfway
\* any number of times before.
ReadyMeansPriced ==
  \A x \in Exchanges :
    db.publication[x] = "ready" =>
      /\ db.counted[x] # {}
      /\ db.counted[x] \subseteq priced
      /\ Failed(LoadRows(db, x)) = {}

\* A committed load whose denominator is not empty carries the status its
\* rows and its denominator call for: the run that moved the denominator has
\* refreshed the status after it.
CommittedStatusCurrent ==
  \A x \in Exchanges :
    db.counted[x] # {} =>
      db.status[x] = AggregateStatus(LoadRows(db, x), Cardinality(db.counted[x]))

\* Rows of listings that have left the universe since they were recorded.
LeftOver(t, x) == RowsOf(LoadRows(t, x)) \ supported

\* The exchange is open, its supported listings all have a price, and none of the
\* outcomes left over from removed listings is a failure.
Deserves(t, x) ==
  /\ t.status[x] # "market_closed"
  /\ supported \cap ListingsOf(x) # {}
  /\ supported \cap ListingsOf(x) \subseteq priced
  /\ LeftOver(t, x) \cap Failed(LoadRows(t, x)) = {}

\* How a run around which nothing changed ends, unless it is killed: when it commits,
\* every exchange that deserves it is published; and it publishes nothing at all,
\* stopped by the coverage constraint, only where a listing removed since has left a
\* success behind, on an exchange whose listings all have a price.
QuietRunPublishes ==
  [][quiet =>
       /\ Commit => \A x \in scope : Deserves(db', x) => db'.publication[x] = "ready"
       /\ AbortOnConstraint =>
            /\ LeftOver(tx, current) \cap Succeeded(LoadRows(tx, current)) # {}
            /\ supported \cap ListingsOf(current) \subseteq priced]_vars

\* What is committed for exchange x.
Committed(t, x) ==
  <<t.status[x], t.counted[x], LoadRows(t, x), t.quality[x], t.publication[x]>>

\* Running the loop again is idempotent: as long as nothing changed around an
\* exchange since a quiet run committed it, no later run changes anything
\* that is committed for it, whatever exchanges it covers and however many
\* runs died in between.
RerunIdempotent ==
  [][(Commit /\ quiet) =>
       \A x \in settled : Committed(db', x) = Committed(db, x)]_vars

\* A load entered as market closed stays so, and is never published as
\* anything else.
MarketClosedKept ==
  [][\A x \in Exchanges :
       db.status[x] = "market_closed" =>
         /\ db'.status[x] = "market_closed"
         /\ db'.publication[x] \in {NoRow, "market_closed"}]_vars

\* "coverage_percent >= 0 AND coverage_percent <= 100", the CHECK constraint
\* of quality_check: a validation that is due never violates it.
CoverageFitsConstraint == ListingsDone => ~RejectedByConstraint

\* "The system must publish each exchange independently": a run stopped by
\* one exchange leaves the others published as it decided them.
PublishedIndependently ==
  [][AbortOnConstraint =>
       \A x \in scope \ (todo \cup {current}) :
         db'.publication[x] = tx.publication[x]]_vars

\* The loop, its committed tables seen through the eyes of a reader,
\* implements the abstract publication: whatever runs, deaths, prices and
\* universe changes there are, the reader sees atomic batches of sound
\* decisions and nothing in between.
Reader == INSTANCE ExchangePublication
            WITH Loads <- Exchanges, Prices <- Listings, LoadOf <- ExchangeOf,
                 publication <- db.publication, counted <- db.counted
ImplementsPublication == Reader!Spec
=============================================================================
