----------------------------- MODULE TrustLoopRace -----------------------------
(***************************************************************************)
(* Several trust loops at once on one exchange and day: the command has no *)
(* lock of its own, so two operators, or an operator and a timer, can run  *)
(* it together.  OpeningTrustLoop models one loop whose statements are     *)
(* atomic; here every statement is a read followed by a write that may     *)
(* have to wait.                                                           *)
(*                                                                         *)
(* What decides the outcome is the database and the object mapper between  *)
(* them:                                                                   *)
(*   - a statement reads what is committed when it runs, plus the loop's   *)
(*     own writes (READ COMMITTED);                                        *)
(*   - a written row stays locked until its transaction ends, and a writer *)
(*     of the same row waits;                                              *)
(*   - an UPDATE names only the columns that differ from what this loop    *)
(*     has read or written before, but always a time, so the row is locked *)
(*     whether a status changes or not; the load object is read once, at   *)
(*     the start, and held;                                                *)
(*   - an INSERT that finds the row committed by another loop fails, and   *)
(*     so does one member of a cycle of waiting loops; the command dies    *)
(*     and its transaction is rolled back.                                 *)
(***************************************************************************)
EXTENDS OpeningLoadRules

CONSTANTS
  Loops,          \* the commands that may run
  Listings,       \* the listings of the exchange, numbered by their ids
  MaxMoves        \* bound on the changes of the supported listings

ASSUME LoopsFinite == IsFiniteSet(Loops)
ASSUME ListingsNumbered == Listings \subseteq Nat /\ IsFiniteSet(Listings)
ASSUME MaxMovesNatural == MaxMoves \in Nat

\* The rows a loop writes, named for their locks.
LoadRow == <<"load", 0>>
QualityRow == <<"quality", 0>>
PublicationRow == <<"publication", 0>>
OutcomeRow(l) == <<"outcome", l>>

\* The columns of the load that a loop writes.
Columns == {"status", "eligible", "succeeded", "failed"}

VARIABLES
  moves,       \* how often the supported listings have changed
  supported,   \* the supported listings, as committed
  priced,      \* the listings with an opening price, as committed
  db,          \* the committed load, outcome rows, quality check and publication
  at,          \* where each loop is
  cache,       \* the load object each loop holds; a new load's while it is off
  mine,        \* what each loop wrote and has not committed
  held,        \* the rows each loop has locked
  want,        \* the write each loop has to make next, or none
  todo,        \* the listings each loop has still to process
  success,     \* the listings each loop found a price for
  apart        \* history: two loops met that were given no listing in common

market == <<moves, supported, priced>>
local  == <<at, cache, mine, held, want, todo, success>>
vars   == <<market, db, local, apart>>

Stages == {"off", "open", "listing", "counts", "decide", "commit"}

NoWrites == [load |-> <<>>, rows |-> <<>>, quality |-> NoRow, publication |-> NoRow]
NoWant   == [row |-> <<"none", 0>>, insert |-> FALSE, writes |-> NoWrites]

\* The values f has, and those of g where f has none.
LaidOver(f, g) ==
  [x \in DOMAIN f \cup DOMAIN g |-> IF x \in DOMAIN f THEN f[x] ELSE g[x]]

NewLoad == [status |-> "not_started", eligible |-> 0, succeeded |-> 0, failed |-> 0]

\* Writes laid over the tables: columns and rows of the load, and the two
\* single rows when they are written.
Over(writes, t) ==
  [load        |-> LaidOver(writes.load, t.load),
   rows        |-> LaidOver(writes.rows, t.rows),
   quality     |-> IF writes.quality = NoRow THEN t.quality ELSE writes.quality,
   publication |-> IF writes.publication = NoRow THEN t.publication ELSE writes.publication]

\* What loop p reads.
View(p) == Over(mine[p], db)

Init ==
  /\ moves = 0
  /\ supported \in SUBSET Listings
  /\ priced = {}
  /\ db = [load |-> NewLoad,
           rows |-> [l \in Listings |-> NoRow],
           quality |-> NoRow, publication |-> NoRow]
  /\ at = [p \in Loops |-> "off"]
  /\ cache = [p \in Loops |-> NewLoad]
  /\ mine = [p \in Loops |-> NoWrites]
  /\ held = [p \in Loops |-> {}]
  /\ want = [p \in Loops |-> NoWant]
  /\ todo = [p \in Loops |-> {}]
  /\ success = [p \in Loops |-> {}]
  /\ apart = FALSE

-----------------------------------------------------------------------------
(***************************************************************************)
(* Other processes.                                                        *)
(***************************************************************************)

PersistPrice(l) ==
  /\ l \notin priced
  /\ priced' = priced \cup {l}
  /\ UNCHANGED <<moves, supported, db, local, apart>>

ChangeUniverse(selected) ==
  /\ moves < MaxMoves
  /\ selected # supported
  /\ supported' = selected
  /\ moves' = moves + 1
  /\ UNCHANGED <<priced, db, local, apart>>

-----------------------------------------------------------------------------
(***************************************************************************)
(* Writing.                                                                *)
(***************************************************************************)

\* Loop p goes on to a stage, with a write to make first.
Then(p, stage, write) ==
  /\ at' = [at EXCEPT ![p] = stage]
  /\ want' = [want EXCEPT ![p] = write]

\* The UPDATE of the load that makes it `load`: the columns that changed, and
\* the completion time, which is new whenever the load is complete.
UpdateOf(p, load, touched) ==
  LET changed == {c \in Columns : load[c] # cache[p][c]}
  IN  IF changed = {} /\ ~touched THEN NoWant
      ELSE [row |-> LoadRow, insert |-> FALSE,
            writes |-> [NoWrites EXCEPT !.load = [c \in changed |-> load[c]]]]

\* A single value that an UPDATE names if it is new.
Changed(new, old) == IF new = old THEN NoRow ELSE new

Waits(p, q) == p # q /\ want[p].row \in held[q]

\* A faulty variant: the session is left open after an error.
End_KeepsLocks(p) ==
  /\ at' = [at EXCEPT ![p] = "off"]
  /\ cache' = [cache EXCEPT ![p] = NewLoad]
  /\ mine' = [mine EXCEPT ![p] = NoWrites]
  /\ want' = [want EXCEPT ![p] = NoWant]
  /\ todo' = [todo EXCEPT ![p] = {}]
  /\ success' = [success EXCEPT ![p] = {}]
  /\ UNCHANGED <<market, held, apart>>

\* The loop ends; what it had not committed is gone with its transaction.
End(p) ==
  /\ at' = [at EXCEPT ![p] = "off"]
  /\ cache' = [cache EXCEPT ![p] = NewLoad]
  /\ mine' = [mine EXCEPT ![p] = NoWrites]
  /\ held' = [held EXCEPT ![p] = {}]
  /\ want' = [want EXCEPT ![p] = NoWant]
  /\ todo' = [todo EXCEPT ![p] = {}]
  /\ success' = [success EXCEPT ![p] = {}]
  /\ UNCHANGED <<market, apart>>

\* The row to insert is there by now.
Exists(row) ==
  \/ \E l \in Listings : row = OutcomeRow(l) /\ db.rows[l] # NoRow
  \/ row = QualityRow /\ db.quality # NoRow
  \/ row = PublicationRow /\ db.publication # NoRow

\* The statement runs once nobody else holds its row.
Write(p) ==
  /\ want[p] # NoWant
  /\ \A q \in Loops : ~Waits(p, q)
  /\ ~(want[p].insert /\ Exists(want[p].row))
  /\ mine' = [mine EXCEPT ![p] = Over(want[p].writes, mine[p])]
  /\ held' = [held EXCEPT ![p] = held[p] \cup {want[p].row}]
  /\ want' = [want EXCEPT ![p] = NoWant]
  /\ UNCHANGED <<market, db, at, cache, todo, success, apart>>

\* A unique constraint rejects it.
RejectDuplicate(p) ==
  /\ want[p].insert
  /\ Exists(want[p].row)
  /\ \A q \in Loops : ~Waits(p, q)
  /\ UNCHANGED db
  /\ End(p)

\* Two loops wait for each other; the database ends one of them.
BreakDeadlock(p) ==
  /\ \E q \in Loops : Waits(p, q) /\ Waits(q, p)
  /\ UNCHANGED db
  /\ End(p)

Crash(p) ==
  /\ at[p] # "off"
  /\ UNCHANGED db
  /\ End(p)

-----------------------------------------------------------------------------
(***************************************************************************)
(* The statements of the loop.                                             *)
(***************************************************************************)

\* The load is read and stays in the session.
Start(p) ==
  /\ at[p] = "off"
  /\ at' = [at EXCEPT ![p] = "open"]
  /\ cache' = [cache EXCEPT ![p] = db.load]
  /\ UNCHANGED <<market, db, mine, held, want, todo, success, apart>>

\* The listings loop p was given: those to process, and those whose outcome row
\* it writes or has written.
Given(p) ==
  todo[p] \cup {l \in Listings : OutcomeRow(l) \in held[p] \cup {want[p].row}}

\* Two loops can only miss each other if each has listings, and none of the other's.
Share(S, T) == S = {} \/ T = {} \/ S \cap T # {}

\* Its denominator becomes the number of listings supported now.
Open(p) ==
  /\ at[p] = "open"
  /\ todo' = [todo EXCEPT ![p] = supported]
  /\ apart' = (apart \/ \E q \in Loops : ~Share(supported, Given(q)))
  /\ LET load == [cache[p] EXCEPT !.eligible = Cardinality(supported)]
     IN  /\ Then(p, "listing", UpdateOf(p, load, FALSE))
         /\ cache' = [cache EXCEPT ![p] = load]
  /\ UNCHANGED <<market, db, mine, held, success>>

\* The outcome of the next listing is looked up and is to be written.
Record(p, l) ==
  /\ at[p] = "listing"
  /\ want[p] = NoWant
  /\ l \in todo[p]
  /\ \A m \in todo[p] : l <= m
  /\ LET class == Classify(IF l \in priced THEN {"has_selected_price"} ELSE {})
         new   == {m \in {l} : View(p).rows[m] # class}
     IN  Then(p, "counts",
              [row |-> OutcomeRow(l), insert |-> View(p).rows[l] = NoRow,
               writes |-> [NoWrites EXCEPT !.rows = [m \in new |-> class]]])
  /\ todo' = [todo EXCEPT ![p] = @ \ {l}]
  /\ success' = [success EXCEPT ![p] = IF l \in priced THEN @ \cup {l} ELSE @]
  /\ UNCHANGED <<market, db, cache, mine, held, apart>>

\* The aggregate is computed from the outcome rows, and is to be written.
Refresh(p) ==
  /\ at[p] = "counts"
  /\ want[p] = NoWant
  /\ LET rows == View(p).rows
         load == [cache[p] EXCEPT
                    !.status    = AggregateStatus(rows, cache[p].eligible),
                    !.succeeded = Cardinality(Succeeded(rows)),
                    !.failed    = Cardinality(Failed(rows))]
     IN  /\ Then(p, "listing", UpdateOf(p, load, load.status \in CompletedStatus))
         /\ cache' = [cache EXCEPT ![p] = load]
  /\ UNCHANGED <<market, db, mine, held, todo, success, apart>>

ListingsDone(p) == at[p] = "listing" /\ want[p] = NoWant /\ todo[p] = {}

\* With a price for every listing the correctness check is to be recorded.
ValidationDue(p) == cache[p].eligible > 0 /\ Cardinality(success[p]) = cache[p].eligible

CoverageRejected(p) ==
  /\ ValidationDue(p)
  /\ View(p).quality = NoRow
  /\ ~CoverageInRange(View(p).rows, cache[p].eligible)

Validate(p) ==
  /\ ListingsDone(p)
  /\ ~CoverageRejected(p)
  /\ Then(p, "decide",
          IF ValidationDue(p)
          THEN [row |-> QualityRow, insert |-> View(p).quality = NoRow,
                writes |-> [NoWrites EXCEPT !.quality =
                              Changed(Correctness(cache[p].eligible, 0, FALSE, FALSE),
                                      View(p).quality)]]
          ELSE NoWant)
  /\ UNCHANGED <<market, db, cache, mine, held, todo, success, apart>>

\* A first coverage above 100 percent is rejected by the schema.
RejectCoverage(p) ==
  /\ ListingsDone(p)
  /\ CoverageRejected(p)
  /\ UNCHANGED db
  /\ End(p)

\* A faulty variant: an exchange already published is left as it is.
Decide_KeepsReady(p) ==
  /\ at[p] = "decide"
  /\ want[p] = NoWant
  /\ Then(p, "commit",
          IF View(p).publication = "ready" THEN NoWant
          ELSE [row |-> PublicationRow, insert |-> View(p).publication = NoRow,
                writes |-> [NoWrites EXCEPT !.publication =
                              PublicationDecision(cache[p].status, View(p).rows,
                                                  cache[p].eligible, View(p).quality)]])
  /\ UNCHANGED <<market, db, cache, mine, held, todo, success, apart>>

\* The publication follows from the load as the loop holds it.
Decide(p) ==
  /\ at[p] = "decide"
  /\ want[p] = NoWant
  /\ Then(p, "commit",
          [row |-> PublicationRow, insert |-> View(p).publication = NoRow,
           writes |-> [NoWrites EXCEPT !.publication =
                         Changed(PublicationDecision(cache[p].status, View(p).rows,
                                                     cache[p].eligible, View(p).quality),
                                 View(p).publication)]])
  /\ UNCHANGED <<market, db, cache, mine, held, todo, success, apart>>

Commit(p) ==
  /\ at[p] = "commit"
  /\ want[p] = NoWant
  /\ db' = View(p)
  /\ End(p)

Next ==
  \/ \E l \in Listings : PersistPrice(l)
  \/ \E selected \in SUBSET Listings : ChangeUniverse(selected)
  \/ \E p \in Loops :
       \/ Start(p) \/ Open(p) \/ Refresh(p) \/ Validate(p) \/ Decide(p) \/ Commit(p)
       \/ \E l \in Listings : Record(p, l)
       \/ Write(p) \/ RejectDuplicate(p) \/ RejectCoverage(p)
       \/ BreakDeadlock(p) \/ Crash(p)

Spec == Init /\ [][Next]_vars

\* A statement that can run does.  The database hands a freed row to those who
\* wait for it, whoever else asks for it again, and looks for waiting cycles.
FairSpec ==
  /\ Spec
  /\ \A p \in Loops :
       /\ WF_vars(\/ Open(p) \/ Refresh(p) \/ Validate(p) \/ RejectCoverage(p)
                  \/ Decide(p) \/ Commit(p) \/ \E l \in Listings : Record(p, l)
                  \/ BreakDeadlock(p))
       /\ SF_vars(Write(p) \/ RejectDuplicate(p))

-----------------------------------------------------------------------------
(***************************************************************************)
(* Properties.                                                             *)
(***************************************************************************)

\* AC-11: an exchange is committed as ready only over outcome rows none of which
\* is a failure and all of which have a price, whichever loops wrote them.
CommittedReadyIsClean ==
  db.publication = "ready" =>
    /\ RowsOf(db.rows) # {}
    /\ RowsOf(db.rows) \subseteq priced
    /\ Failed(db.rows) = {}

\* It is so as long as loops that overlap were given a listing in common, however
\* the universe moves around them: the row of that listing is what lets one of
\* them wait for the other.  Loops without one go past each other.
ReadyMeansClean == ~apart => CommittedReadyIsClean

\* No command hangs: whatever it waits for, a started loop ends, by its commit
\* or by an error, even when it can neither die on its own nor be killed.
EveryRunEnds == \A p \in Loops : []<>(at[p] = "off")
=============================================================================
