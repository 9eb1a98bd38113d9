----------------------------- MODULE AppReadPath -----------------------------
(***************************************************************************)
(* How the app reads what the opening load published: the readiness and    *)
(* current-price endpoints, each a chain of reads in sessions of their     *)
(* own, while trust loops keep committing.                                 *)
(*                                                                         *)
(* A process that runs the trust loop keeps, beside the database, two      *)
(* dictionaries with the publication and the prices of every load it       *)
(* decided, filled before it commits.  The endpoints look there first and  *)
(* turn to the database only if they find nothing.  As deployed the loop   *)
(* and the API are two processes, so the API's dictionaries stay empty;    *)
(* with inProcess they are one, as in the integration tests.               *)
(***************************************************************************)
EXTENDS Integers, FiniteSets, FiniteSetsExt

CONSTANTS
  Exchanges,   \* numbered in the order of their codes
  Days,        \* consecutive trading days
  Listings,
  ExchangeOf,  \* listing -> exchange
  Decisions,   \* the publication statuses the loop decides
  MaxRuns      \* bound on the number of runs of the trust loop

Parameters ==
  /\ Exchanges \subseteq Nat
  /\ Days \subseteq Nat \ {0} /\ Days # {} /\ IsFiniteSet(Days)
  /\ ExchangeOf \in [Listings -> Exchanges]
  /\ Decisions \subseteq {"ready", "blocked", "failed", "market_closed"}
  /\ MaxRuns \in Nat

Loads  == Exchanges \X Days
Prices == Listings \X Days
LoadOf == [p \in Prices |-> <<ExchangeOf[p[1]], p[2]>>]
PricesOf(load) == {p \in Prices : LoadOf[p] = load}

NoRow == "no_row"
PublicationStatus == {"ready", "blocked", "failed", "market_closed"}
NoDay == 0
Nothing == [day |-> NoDay, status |-> NoRow]

VARIABLES
  inProcess,  \* whether the trust loop runs in the process of the API
  publication, counted, priced,  \* the committed database, see ExchangePublication
  loop,       \* the trust loop under way: its day, decided loads and their tables
  runs,       \* how many runs were started
  memory,     \* load -> its status and prices in the API's two dictionaries,
              \* with the prices counted when they were entered (history)
  today,
  request,    \* the request the API is serving
  truths,     \* history: what was so at some time during the request
  told        \* history: the last day the app was told of, by exchange

database == <<publication, counted, priced>>
vars == <<inProcess, database, loop, runs, memory, today, request, truths, told>>

\* The load of exchange x with the latest day among those with a status, as
\* the endpoints report it.
LatestOf(status, x) ==
  LET days == {d \in Days : status[<<x, d>>] # NoRow}
  IN  IF days = {} THEN Nothing
      ELSE [day |-> Max(days), status |-> status[<<x, Max(days)>>]]

\* The same with the prices counted for it: what the database says of x.
Current(pub, cnt, x) ==
  LET latest == LatestOf(pub, x)
  IN  [day |-> latest.day, status |-> latest.status, committed |-> TRUE,
       counted |-> IF latest = Nothing THEN {} ELSE cnt[<<x, latest.day>>]]

\* What the dictionaries say of x.
Remembered(mem, x) ==
  {[day |-> d, status |-> mem[<<x, d>>].status, committed |-> FALSE,
    counted |-> mem[<<x, d>>].counted] : d \in {e \in Days : mem[<<x, e>>].status # NoRow}}

NotRunning == [day |-> NoDay, todo |-> {}, publication |-> publication, counted |-> counted]
NoRequest == [kind |-> "none"]
Unlisted == [status |-> NoRow, prices |-> {}, counted |-> {}]
NoTruths == [x \in Exchanges |-> {}]

Init ==
  /\ inProcess \in BOOLEAN
  /\ publication = [x \in Loads |-> NoRow]
  /\ counted = [x \in Loads |-> {}]
  /\ priced = {}
  /\ loop = NotRunning
  /\ runs = 0
  /\ memory = [x \in Loads |-> Unlisted]
  /\ today = Min(Days)
  /\ request = NoRequest
  /\ truths = NoTruths
  /\ told = [x \in Exchanges |-> NoDay]

-----------------------------------------------------------------------------
(***************************************************************************)
(* The world the endpoints read.                                           *)
(***************************************************************************)

NewDay ==
  /\ today + 1 \in Days
  /\ today' = today + 1
  /\ UNCHANGED <<inProcess, database, loop, runs, memory, request, truths, told>>

\* The opening-load worker commits a price; the trust loop's copy of the
\* tables does not hold prices.
RecordPrice(p) ==
  /\ p \notin priced
  /\ p[2] <= today
  /\ priced' = priced \cup {p}
  /\ UNCHANGED <<inProcess, publication, counted, loop, runs, memory, today,
                 request, truths, told>>

\* A trust loop starts on the loads of a day up to today.
StartRun(day) ==
  /\ loop.day = NoDay
  /\ runs < MaxRuns
  /\ day <= today
  /\ loop' = [NotRunning EXCEPT !.day = day, !.todo = Exchanges]
  /\ runs' = runs + 1
  /\ UNCHANGED <<inProcess, database, memory, today, request, truths, told>>

\* What the refresh of the read models leaves in the process's dictionaries.
Refreshed(load, status, set) ==
  [memory EXCEPT ![load] =
     [status |-> status, counted |-> set,
      prices |-> IF status = "ready" THEN PricesOf(load) \cap priced ELSE {}]]

Witnessed(new, x) ==
  IF request = NoRequest THEN truths ELSE [truths EXCEPT ![x] = @ \cup new]

\* The loop decides the publication of its next exchange, as soundly as
\* OpeningTrustLoop is shown to, and refreshes the read models with it.
DecideLoad(x, status, set) ==
  LET load == <<x, loop.day>> IN
  /\ loop.day # NoDay
  /\ x \in loop.todo
  /\ \A y \in loop.todo : x <= y
  /\ set \subseteq PricesOf(load)
  /\ status = "ready" => set # {} /\ set \subseteq priced
  /\ publication[load] = "market_closed" => status = "market_closed"
  /\ status = "market_closed" => publication[load] \in {NoRow, "market_closed"}
  /\ loop' = [loop EXCEPT !.todo = @ \ {x}, !.publication[load] = status,
                          !.counted[load] = set]
  /\ memory' = IF inProcess THEN Refreshed(load, status, set) ELSE memory
  /\ truths' = Witnessed(Remembered(memory', x), x)
  /\ UNCHANGED <<inProcess, database, runs, today, request, told>>

\* The run commits; a request under way may see either state from now on.
CommitRun ==
  /\ loop.day # NoDay
  /\ loop.todo = {}
  /\ publication' = loop.publication
  /\ counted' = loop.counted
  /\ loop' = [NotRunning EXCEPT !.publication = publication', !.counted = counted']
  /\ truths' = [x \in Exchanges |->
                  IF request = NoRequest THEN {}
                  ELSE truths[x] \cup {Current(publication', counted', x)}]
  /\ UNCHANGED <<inProcess, priced, runs, memory, today, request, told>>

\* The run fails: its transaction is rolled back, the dictionaries are not.
RollBackRun ==
  /\ loop.day # NoDay
  /\ loop' = NotRunning
  /\ UNCHANGED <<inProcess, database, runs, memory, today, request, truths, told>>

\* The process of the API is started again.
RestartApi ==
  /\ memory' = [x \in Loads |-> Unlisted]
  /\ request' = NoRequest
  /\ truths' = NoTruths
  /\ loop' = IF inProcess THEN NotRunning ELSE loop
  /\ UNCHANGED <<inProcess, database, runs, today, told>>

-----------------------------------------------------------------------------
(***************************************************************************)
(* A request.  request.at is the next read it does; request.items holds    *)
(* what it has learnt of the readiness of the exchanges in its scope.      *)
(***************************************************************************)

Begin(kind, scope, first) ==
  /\ request = NoRequest
  /\ request' = [kind |-> kind, scope |-> scope, at |-> first, todo |-> {},
                 items |-> [x \in scope |-> Nothing], prices |-> {}, asked |-> today]
  /\ truths' = [x \in Exchanges |->
                  {Current(publication, counted, x)} \cup Remembered(memory, x)]
  /\ UNCHANGED <<inProcess, database, loop, runs, memory, today, told>>

\* GET /app/exchanges/readiness, for the exchanges named or for those that
\* are active; GET /app/exchanges/x/prices/current.
AskReadiness(scope) == Begin("readiness", scope, "dictionary")
AskPrices(x)        == Begin("prices", {x}, "own_entry")

\* The prices endpoint looks for an entry of its own exchange.
FindOwnEntry ==
  /\ request.kind = "prices" /\ request.at = "own_entry"
  /\ LET x == CHOOSE y \in request.scope : TRUE
         row == LatestOf([load \in Loads |-> memory[load].status], x)
         found == memory[<<x, row.day>>].prices
     IN  request' =
           CASE row = Nothing -> [request EXCEPT !.at = "dictionary"]
             [] row # Nothing /\ row.status # "ready" -> [request EXCEPT !.at = "respond"]
             [] OTHER -> [request EXCEPT !.items[x] = row, !.prices = found,
                            !.at = IF found = {} THEN "prices" ELSE "respond"]
  /\ UNCHANGED <<inProcess, database, loop, runs, memory, today, truths, told>>

\* The prices endpoint goes on to the prices of the day it was told is ready.
AfterReadiness(items) ==
  IF request.kind = "prices" /\ \A x \in request.scope : items[x].status = "ready"
  THEN "prices" ELSE "respond"

\* Readiness is taken from the dictionaries if they hold any load at all, of
\* whatever exchange; from the database otherwise.
LookUpDictionary ==
  /\ request.kind # "none" /\ request.at = "dictionary"
  /\ LET status == [load \in Loads |-> memory[load].status]
         items == [x \in request.scope |-> LatestOf(status, x)]
     IN  request' =
           IF \A load \in Loads : status[load] = NoRow
           THEN [request EXCEPT !.at = "query", !.todo = request.scope]
           ELSE [request EXCEPT !.at = AfterReadiness(items), !.items = items]
  /\ UNCHANGED <<inProcess, database, loop, runs, memory, today, truths, told>>

\* The request learns row of its next exchange, in the order of their codes.
QueryReadinessBy(x, row) ==
  /\ request.kind # "none" /\ request.at = "query"
  /\ x \in request.todo
  /\ \A y \in request.todo : x <= y
  /\ LET items == [request.items EXCEPT ![x] = row]
     IN  request' = [request EXCEPT !.items = items, !.todo = @ \ {x},
                       !.at = IF request.todo = {x} THEN AfterReadiness(items) ELSE "query"]
  /\ UNCHANGED <<inProcess, database, loop, runs, memory, today, truths, told>>

\* Faulty variants: the earliest day comes first; a day that is ready does.
QueryReadiness_Earliest(x) ==
  LET days == {d \in Days : publication[<<x, d>>] # NoRow}
  IN  QueryReadinessBy(x, IF days = {} THEN Nothing
                          ELSE [day |-> Min(days), status |-> publication[<<x, Min(days)>>]])
QueryReadiness_ReadyFirst(x) ==
  LET days == {d \in Days : publication[<<x, d>>] = "ready"}
  IN  QueryReadinessBy(x, IF days = {} THEN LatestOf(publication, x)
                          ELSE [day |-> Max(days), status |-> "ready"])

\* One statement per exchange: the last published day.
QueryReadiness(x) == QueryReadinessBy(x, LatestOf(publication, x))

\* A faulty variant: the prices of today.
LoadPrices_Today ==
  /\ request.kind # "none" /\ request.at = "prices"
  /\ LET x == CHOOSE y \in request.scope : TRUE
     IN  request' = [request EXCEPT !.at = "respond",
                       !.prices = PricesOf(<<x, today>>) \cap priced]
  /\ UNCHANGED <<inProcess, database, loop, runs, memory, today, truths, told>>

\* The prices of the exchange and day, counted by the load or not.
LoadPrices ==
  /\ request.kind # "none" /\ request.at = "prices"
  /\ LET x == CHOOSE y \in request.scope : TRUE
     IN  request' = [request EXCEPT !.at = "respond",
                       !.prices = PricesOf(<<x, request.items[x].day>>) \cap priced]
  /\ UNCHANGED <<inProcess, database, loop, runs, memory, today, truths, told>>

\* The exchanges the answer reports a day for.
Reported ==
  {x \in request.scope :
     IF request.kind = "prices" THEN request.prices # {} ELSE request.items[x] # Nothing}

Respond ==
  /\ request.kind # "none" /\ request.at = "respond"
  /\ told' = [x \in Exchanges |->
                IF x \in Reported THEN request.items[x].day ELSE told[x]]
  /\ request' = NoRequest
  /\ truths' = NoTruths
  /\ UNCHANGED <<inProcess, database, loop, runs, memory, today>>

Next ==
  \/ NewDay
  \/ \E p \in Prices : RecordPrice(p)
  \/ \E day \in Days : StartRun(day)
  \/ \E x \in Exchanges, status \in Decisions, set \in SUBSET Prices :
       DecideLoad(x, status, set)
  \/ CommitRun
  \/ RollBackRun
  \/ RestartApi
  \/ \E scope \in (SUBSET Exchanges) \ {{}} : AskReadiness(scope)
  \/ \E x \in Exchanges : AskPrices(x) \/ QueryReadiness(x)
  \/ FindOwnEntry
  \/ LookUpDictionary
  \/ LoadPrices
  \/ Respond

Spec == Init /\ [][Next]_vars

-----------------------------------------------------------------------------
(***************************************************************************)
(* Properties.                                                             *)
(***************************************************************************)

Answering == request.kind # "none" /\ request.at = "respond"

\* "Responses reflect read-model publication state rather than raw in-flight
\* computation": the readiness answered for an exchange, its absence
\* included, is what the committed tables said of it at some time between
\* the request and the answer.  As deployed; in one process a run that is
\* rolled back leaves its decisions in the dictionaries.
ReadinessIsCommitted ==
  ~inProcess /\ Answering /\ request.kind = "readiness" =>
    \A x \in request.scope :
      \E t \in truths[x] :
        t.committed /\ request.items[x] = [day |-> t.day, status |-> t.status]

\* "Only trusted published results for exchanges marked ready": the prices
\* answered, read in a session after the one that found the exchange ready,
\* are those of a load that was ready at some time during the request, and
\* none that was counted for it is missing; and, as deployed, no prices are
\* answered only if the exchange was not ready at some time during the
\* request.  In one process the entry of another exchange suffices: it hides
\* what the database says of this one.
PricesComplete ==
  Answering /\ request.kind = "prices" =>
    \A x \in request.scope :
      \E t \in truths[x] :
        IF request.prices = {} THEN ~inProcess => t.status # "ready"
        ELSE /\ t.status = "ready" /\ t.counted # {}
             /\ request.items[x] = [day |-> t.day, status |-> t.status]
             /\ t.counted \subseteq {p[1] : p \in request.prices} \X {t.day}

\* As deployed, the app is never told of an earlier day than before, whatever
\* runs, roll-backs and restarts there are in between.
DayNeverGoesBack ==
  [][~inProcess => \A x \in Exchanges : told'[x] >= told[x]]_vars

-----------------------------------------------------------------------------
\* Claims of the documents and comments that the code does not keep: TLC refutes
\* each of them (README, "Where the code and its documents disagree").

\* "Request today's published prices": the current-day prices answered are
\* those of a day that was current between the request and the answer.
CurrentMeansToday ==
  Answering /\ request.kind = "prices" /\ request.prices # {} =>
    \A x \in request.scope : request.items[x].day \in request.asked..today
=============================================================================
