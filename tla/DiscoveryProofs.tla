--------------------------- MODULE DiscoveryProofs ---------------------------
(***************************************************************************)
(* Proofs about what is to be loaded and when: the universe loader, for    *)
(* any sources, symbols and names; and, as instances that share no state   *)
(* with it (Discovery), the states of load jobs, for any keys, and the     *)
(* activity priority of exchanges, for any calendars and closes.           *)
(***************************************************************************)
EXTENDS Discovery, Integers, FiniteSetTheorems, WellFoundedInduction, TLAPS

-----------------------------------------------------------------------------
(***************************************************************************)
(* UniverseLoader: what the loader makes of the launch scope.  While a run *)
(* is under way the records it has written tell the names it has given     *)
(* (RunFits), and a listing has a status only once it is on record, so     *)
(* that a listing the run has not seen ends with none.                     *)
(***************************************************************************)

Called   == Names \cup Symbols \cup {NoName}
Statuses == {NoState, "supported", "removed"} \cup Marks
Claims   == [source : Registry, listing : Listings,
             name : Names \cup Symbols, id : Symbols \cup Figis]
Records  == [listing : Listings, source : Registry, id : Symbols \cup Figis]
Runs     == [at : Nat \ {0}, exchanges : SUBSET Exchanges, stocks : BOOLEAN,
             seen : SUBSET Listings, name : [Listings -> Called],
             ids : SUBSET Records, told : [Listings -> Called]]

LoaderType ==
  /\ active \subseteq Exchanges
  /\ stocks \in BOOLEAN
  /\ tables \in [name : [Listings -> Called], ids : SUBSET Records]
  /\ ledger \in [name : [Listings -> Called], status : [Listings -> Statuses]]
  /\ status \in [Listings -> Statuses]
  /\ run \in {NotRunning} \cup Runs

\* The last record of a listing's support says what its status is.
Explains(recorded, s) ==
  IF s = NoState THEN recorded \in {NoState, "removed"} ELSE recorded = s

RunFits(r) ==
  /\ r.told = r.name
  /\ \A l \in r.seen : r.name[l] # NoName
  /\ \A l \in Listings : tables.name[l] # NoName => r.name[l] # NoName

LoaderInv ==
  /\ LoaderType
  /\ ledger.name = tables.name
  /\ \A l \in Listings :
       /\ Explains(ledger.status[l], status[l])
       /\ status[l] # NoState => tables.name[l] # NoName
  /\ run \in Runs => RunFits(run)

\* Whatever a source of the registry reports is a claim about a listing of the scope.
LEMMA OffersAreClaims ==
  ASSUME Parameters, NEW source \in Registry,
         NEW xs \in SUBSET Exchanges, NEW withStocks \in BOOLEAN,
         NEW c \in Offers(source, xs, withStocks)
  PROVE  c \in Claims
<1> USE DEF Claims, Candidate, Listings, Registry, Exchanges
<1>1. CASE source = "NASDAQ_TRADER"
  BY <1>1 DEF Offers
<1>2. CASE source = "NYSE"
  BY <1>2 DEF Offers
<1>3. CASE source = "AKSHARE"
  <2>1. PICK s \in Symbols, n \in Names \cup Symbols :
          c = Candidate(source, ExchangeByLetter(s), s, n, s)
    BY <1>3 DEF Offers
  <2>2. ExchangeByLetter(s) \in Exchanges
    BY DEF ExchangeByLetter
  <2>3. QED
    BY <2>1, <2>2, <1>3
<1>4. CASE source = "YFINANCE"
  BY <1>4 DEF Offers, Parameters
<1>5. CASE source = "OPENFIGI"
  <2>1. PreferredExchange(xs) \subseteq Exchanges
    BY DEF PreferredExchange
  <2>2. QED
    BY <1>5, <2>1 DEF Offers
<1>6. QED
  BY <1>1, <1>2, <1>3, <1>4, <1>5

LEMMA InitLoader == Init => LoaderInv
BY DEF Init, LoaderInv, LoaderType, Called, Statuses, Explains, Runs, NotRunning

\* A running run is one.
LEMMA RunningIsRun ==
  ASSUME LoaderInv, Running
  PROVE  run \in Runs /\ RunFits(run)
BY DEF LoaderInv, LoaderType, Running, NotRunning

LEMMA StartRunKeeps ==
  ASSUME LoaderInv, StartRun
  PROVE  LoaderInv'
<1>1. run' \in Runs
  BY DEF LoaderInv, LoaderType, StartRun, Runs
<1>2. /\ run'.told = ledger.name /\ run'.name = tables.name /\ run'.seen = {}
      /\ UNCHANGED <<active, stocks, tables, ledger, status>>
  BY DEF StartRun
<1>3. RunFits(run)'
  BY <1>2 DEF LoaderInv, RunFits
<1>4. QED
  BY <1>1, <1>2, <1>3 DEF LoaderInv, LoaderType

\* A candidate is persisted: its name and the record of it change together.
LEMMA IngestKeeps ==
  ASSUME Parameters, LoaderInv, Running, NEW c \in Claims, Ingest(c)
  PROVE  LoaderInv'
<1>1. run \in Runs /\ RunFits(run)
  BY RunningIsRun
<1> DEFINE l == c.listing
           name == [run.name EXCEPT ![l] = c.name]
<1>2. /\ l \in Listings /\ c.name \in Called
      /\ c.source \in Registry /\ c.id \in Symbols \cup Figis
  BY DEF Claims, Called
<1>3. Upserted(run.ids, c) \subseteq Records
  BY <1>1, <1>2 DEF Upserted, Runs, Records
<1>4. name \in [Listings -> Called]
  BY <1>1, <1>2 DEF Runs
<1>5. NameOnRecord(c) = name
  BY <1>1, <1>2 DEF NameOnRecord, RunFits, Runs
<1>6. /\ run'.seen = run.seen \cup {l} /\ run'.name = name /\ run'.told = name
      /\ run' \in Runs
  BY <1>1, <1>2, <1>3, <1>4, <1>5 DEF Ingest, Runs
<1>7. UNCHANGED <<active, stocks, tables, ledger, status>>
  BY DEF Ingest
<1>8. RunFits(run)'
  <2>1. c.name # NoName
    BY DEF Claims, Parameters
  <2>2. /\ run.name \in [Listings -> Called] /\ l \in Listings
        /\ run.seen \subseteq Listings
    BY <1>1, <1>2 DEF Runs
  <2>3. /\ name[l] = c.name
        /\ \A k \in Listings : k # l => name[k] = run.name[k]
    BY <2>2
  <2> HIDE DEF name, l
  <2>4. \A k \in run.seen \cup {l} : name[k] # NoName
    BY <1>1, <2>1, <2>2, <2>3 DEF RunFits
  <2>5. \A k \in Listings : tables.name[k] # NoName => name[k] # NoName
    BY <1>1, <2>1, <2>2, <2>3 DEF RunFits
  <2>6. QED
    BY <1>6, <1>7, <2>4, <2>5 DEF RunFits
<1>9. QED
  BY <1>6, <1>7, <1>8 DEF LoaderInv, LoaderType

\* The other steps of a run leave what it has written, or forget it.
LEMMA NextSourceKeeps ==
  ASSUME Parameters, LoaderInv, NextSource
  PROVE  LoaderInv'
<1>1. run.at \in 1..Len(Sources) /\ Len(Sources) \in Nat
  BY DEF NextSource, Asking, Parameters
<1>2. run \in Runs /\ RunFits(run)
  BY <1>1, RunningIsRun DEF Running
<1>3. run' = [run EXCEPT !.at = @ + 1] /\ UNCHANGED <<active, stocks, tables, ledger, status>>
  BY DEF NextSource
<1>4. /\ run' \in Runs /\ run'.told = run.told /\ run'.name = run.name
      /\ run'.seen = run.seen
  BY <1>2, <1>3 DEF Runs
<1>5. RunFits(run)'
  BY <1>2, <1>3, <1>4 DEF RunFits
<1>6. QED
  BY <1>3, <1>4, <1>5 DEF LoaderInv, LoaderType

LEMMA NotRunningIsNoRun == NotRunning \notin Runs
BY DEF NotRunning, Runs

LEMMA AbortKeeps ==
  ASSUME LoaderInv, Abort
  PROVE  LoaderInv'
BY NotRunningIsNoRun DEF Abort, LoaderInv, LoaderType

\* A status set from outside is recorded.
LEMMA MarkKeeps ==
  ASSUME Parameters, LoaderInv, NEW l \in Listings, NEW mark \in Marks,
         Mark(l, mark)
  PROVE  LoaderInv'
<1>1. mark # NoState /\ mark \in Statuses
  BY DEF Parameters, NoState, Statuses
<1>2. /\ status' = [status EXCEPT ![l] = mark] /\ status[l] # NoState
      /\ ledger' = [ledger EXCEPT !.status[l] = mark]
      /\ UNCHANGED <<active, stocks, tables, run>>
  BY DEF Mark
<1>3. /\ ledger' \in [name : [Listings -> Called], status : [Listings -> Statuses]]
      /\ ledger'.name = ledger.name
      /\ ledger'.status = [ledger.status EXCEPT ![l] = mark]
  BY <1>1, <1>2 DEF LoaderInv, LoaderType
<1>4. LoaderType'
  BY <1>1, <1>2, <1>3 DEF LoaderInv, LoaderType
<1>5. ASSUME NEW k \in Listings
      PROVE  /\ Explains(ledger.status[k], status[k])'
             /\ status'[k] # NoState => tables'.name[k] # NoName
  BY <1>1, <1>2, <1>3 DEF LoaderInv, LoaderType, Explains
<1>6. RunFits(run)' <=> RunFits(run)
  BY <1>2 DEF RunFits
<1>7. QED
  BY <1>2, <1>3, <1>4, <1>5, <1>6 DEF LoaderInv

-----------------------------------------------------------------------------
(***************************************************************************)
(* The end of a run.                                                       *)
(***************************************************************************)

\* What the projection makes of one listing.
LEMMA ProjectedListing ==
  ASSUME LoaderInv, run \in Runs, RunFits(run), NEW l \in Listings
  PROVE  /\ Projected[l] \in Statuses /\ StatusOnRecord[l] \in Statuses
         /\ Explains(StatusOnRecord[l], Projected[l])
         /\ Projected[l] # NoState => run.name[l] # NoName
         /\ l[1] \in run.exchanges /\ run.stocks =>
              (Projected[l] # NoState <=> l \in run.seen)
<1>1. /\ status[l] \in Statuses /\ ledger.status[l] \in Statuses
      /\ Explains(ledger.status[l], status[l])
      /\ status[l] # NoState => run.name[l] # NoName
      /\ l \in run.seen => run.name[l] # NoName
  BY DEF LoaderInv, LoaderType, RunFits
<1>2. CASE l \in Selected
  <2>1. Projected[l] = "supported" /\ l \in run.seen /\ run.name[l] # NoName
    BY <1>2 DEF Projected, Selected, Scoped
  <2>2. StatusOnRecord[l] = IF status[l] # "supported" THEN "supported" ELSE ledger.status[l]
    BY <1>2 DEF StatusOnRecord
  <2>3. QED
    BY <1>1, <2>1, <2>2 DEF Explains, Statuses, NoState
<1>3. CASE l \in Scoped \ Selected
  <2>1. Projected[l] = NoState /\ l \notin run.seen
    BY <1>3 DEF Projected, Selected
  <2>2. StatusOnRecord[l] = IF status[l] # NoState THEN "removed" ELSE ledger.status[l]
    BY <1>3 DEF StatusOnRecord
  <2>3. QED
    BY <1>1, <2>1, <2>2 DEF Explains, Statuses, NoState
<1>4. CASE l \notin Scoped
  <2>1. /\ Projected[l] = status[l] /\ StatusOnRecord[l] = ledger.status[l]
        /\ ~(run.name[l] # NoName /\ l[1] \in run.exchanges /\ run.stocks)
    BY <1>4 DEF Projected, StatusOnRecord, Selected, Scoped
  <2>2. QED
    BY <1>1, <2>1
<1>5. QED
  BY <1>2, <1>3, <1>4 DEF Selected

LEMMA FinishingIsRun ==
  ASSUME Parameters, LoaderInv, Finish
  PROVE  run \in Runs /\ RunFits(run)
<1>1. Len(Sources) \in Nat
  BY DEF Parameters
<1>2. QED
  BY <1>1, RunningIsRun DEF Finish, Running

LEMMA FinishKeeps ==
  ASSUME Parameters, LoaderInv, Finish
  PROVE  LoaderInv'
<1>1. run \in Runs /\ RunFits(run)
  BY FinishingIsRun
<1> DEFINE projected == Projected
           recorded == StatusOnRecord
<1>2. /\ projected \in [Listings -> Statuses] /\ recorded \in [Listings -> Statuses]
      /\ \A l \in Listings :
           /\ Explains(recorded[l], projected[l])
           /\ projected[l] # NoState => run.name[l] # NoName
  <2>1. projected = [l \in Listings |-> projected[l]]
    BY DEF Projected
  <2>2. recorded = [l \in Listings |-> recorded[l]]
    BY DEF StatusOnRecord
  <2> HIDE DEF projected, recorded
  <2>3. QED
    BY <1>1, <2>1, <2>2, ProjectedListing DEF projected, recorded
<1>3. /\ tables' = [name |-> run.name, ids |-> run.ids]
      /\ ledger' = [name |-> run.told, status |-> recorded]
      /\ status' = projected /\ run' = NotRunning
      /\ UNCHANGED <<active, stocks>>
  BY DEF Finish
<1> HIDE DEF projected, recorded
<1>4. LoaderType'
  BY <1>1, <1>2, <1>3 DEF LoaderInv, LoaderType, Runs
<1>5. QED
  BY <1>1, <1>2, <1>3, <1>4, NotRunningIsNoRun DEF LoaderInv, RunFits

LEMMA NextLoader == Parameters /\ LoaderInv /\ [Next]_vars => LoaderInv'
<1>1. SUFFICES ASSUME Parameters, LoaderInv, [Next]_vars PROVE LoaderInv'
  OBVIOUS
<1>2. ASSUME active' \subseteq Exchanges, stocks' \in BOOLEAN,
             UNCHANGED <<tables, ledger, status, run>>
      PROVE  LoaderInv'
  <2>1. RunFits(run)' <=> RunFits(run)
    BY <1>2 DEF RunFits
  <2>2. QED
    BY <1>1, <1>2, <2>1 DEF LoaderInv, LoaderType
<1>3. ASSUME NEW codes \in SUBSET Exchanges, SetExchanges(codes) PROVE LoaderInv'
  BY <1>1, <1>2, <1>3 DEF SetExchanges, LoaderInv, LoaderType
<1>4. ASSUME NEW withStocks \in BOOLEAN, SetInstrumentTypes(withStocks) PROVE LoaderInv'
  BY <1>1, <1>2, <1>4 DEF SetInstrumentTypes, LoaderInv, LoaderType
<1>5. CASE SeedBaseline
  BY <1>1, <1>2, <1>5 DEF SeedBaseline, LoaderInv, LoaderType
<1>6. CASE NewDay \/ UNCHANGED vars
  BY <1>1, <1>2, <1>6 DEF NewDay, vars, LoaderInv, LoaderType
<1>7. ASSUME Asking,
             NEW c \in Offers(Sources[run.at], run.exchanges, run.stocks),
             Ingest(c)
      PROVE  LoaderInv'
  <2>1. run.at \in 1..Len(Sources) /\ Len(Sources) \in Nat /\ Sources[run.at] \in Registry
    BY <1>1, <1>7 DEF Asking, Parameters
  <2>2. Running
    BY <2>1 DEF Running
  <2>3. run.exchanges \in SUBSET Exchanges /\ run.stocks \in BOOLEAN
    BY <1>1, <2>2, RunningIsRun DEF Runs
  <2>4. c \in Claims
    BY <1>1, <1>7, <2>1, <2>3, OffersAreClaims
  <2>5. QED
    BY <1>1, <1>7, <2>2, <2>4, IngestKeeps
<1>8. QED
  BY <1>1, <1>3, <1>4, <1>5, <1>6, <1>7, MarkKeeps, StartRunKeeps, NextSourceKeeps,
     AbortKeeps, FinishKeeps DEF Next

LEMMA LoaderInvariant == ASSUME Parameters PROVE Spec => []LoaderInv
<1>1. LoaderInv /\ [Next]_vars => LoaderInv'
  BY NextLoader
<1>2. QED
  BY <1>1, InitLoader, PTL DEF Spec

\* The change records explain the committed names and statuses, whatever the sources report
\* and however runs, marks and changes of the scope follow one another
\* (persist_discovery_candidates, project_supported_universe_state).
THEOREM LedgerExplains ==
  ASSUME Parameters PROVE Spec => []LedgerExplainsTables
<1>1. LoaderInv => LedgerExplainsTables
  BY DEF LoaderInv, Explains, LedgerExplainsTables
<1>2. QED
  BY <1>1, LoaderInvariant, PTL

\* A run ends with exactly the listings in the universe that its sources reported, in the
\* scope it started with (project_supported_universe_state).
THEOREM UniverseIsWhatWasReported ==
  ASSUME Parameters PROVE Spec => UniverseIsReported
<1>1. ASSUME LoaderInv, Finish, NEW l \in Listings,
             l[1] \in run.exchanges, run.stocks
      PROVE  status'[l] # NoState <=> l \in run.seen
  <2>1. status' = Projected
    BY <1>1 DEF Finish
  <2>2. QED
    BY <1>1, <2>1, FinishingIsRun, ProjectedListing
<1>2. LoaderInv /\ [Next]_vars =>
        [Finish =>
           \A l \in Listings : l[1] \in run.exchanges /\ run.stocks =>
             (status'[l] # NoState <=> l \in run.seen)]_vars
  BY <1>1
<1>3. QED
  BY <1>2, LoaderInvariant, PTL DEF Spec, UniverseIsReported

-----------------------------------------------------------------------------
(***************************************************************************)
(* LoadJobLifecycle: the jobs of a key through their states.  What the     *)
(* index keeps apart are the jobs that are not over; the invariant is that *)
(* each key has at most one of them.                                       *)
(***************************************************************************)

\* Two places of a sequence of jobs with jobs that are not over are the same.
OneLive(s) ==
  \A i, j \in DOMAIN s : s[i] \notin Jobs!Unindexed /\ s[j] \notin Jobs!Unindexed => i = j

LifecycleInv ==
  /\ jobs \in [Keys -> Seq(Jobs!State)]
  /\ \A k \in Keys : OneLive(jobs[k])

\* The three parts of the code that have to agree: what the scheduler takes for over is
\* what the index ignores, and what is over stays as it is.
LEMMA OverIsOver ==
  /\ Jobs!Terminal = Jobs!Unindexed
  /\ \A s \in Jobs!Unindexed, t \in Jobs!State : Jobs!CanTransition(s, t) => t = s
BY DEF Jobs!Terminal, Jobs!Unindexed, Jobs!State, Jobs!CanTransition, Jobs!Allowed

LEMMA JobsCardinality ==
  ASSUME NEW S
  PROVE  Jobs!Cardinality(S) = Cardinality(S)
BY DEF Jobs!Cardinality, Cardinality

\* A table with at most one job of a key that is not over fits the index.
LEMMA OneLiveFits ==
  ASSUME NEW table \in [Keys -> Seq(Jobs!State)], \A k \in Keys : OneLive(table[k])
  PROVE  Jobs!FitsIndex(table)
<1>1. SUFFICES ASSUME NEW k \in Keys
               PROVE  Jobs!Cardinality({j \in DOMAIN table[k] :
                                          table[k][j] \notin Jobs!Unindexed}) <= 1
  BY DEF Jobs!FitsIndex
<1> DEFINE live == {j \in DOMAIN table[k] : table[k][j] \notin Jobs!Unindexed}
<1>2. \A i, j \in live : i = j
  BY DEF OneLive
<1> HIDE DEF live
<1>3. CASE live = {}
  <2>1. Cardinality(live) = 0
    BY <1>3, FS_EmptySet
  <2>2. QED
    BY <2>1, JobsCardinality DEF live
<1>4. CASE live # {}
  <2>1. PICK j : j \in live
    BY <1>4
  <2>2. live = {j}
    BY <1>2, <2>1
  <2>3. Cardinality(live) = 1
    BY <2>2, FS_Singleton
  <2>4. QED
    BY <2>3, JobsCardinality DEF live
<1>5. QED
  BY <1>3, <1>4

\* Moving one job as the table of transitions allows keeps what is said of its key.
LEMMA TransitionKeepsOneLive ==
  ASSUME NEW s \in Seq(Jobs!State), OneLive(s), NEW j \in DOMAIN s,
         NEW t \in Jobs!State, Jobs!CanTransition(s[j], t)
  PROVE  [s EXCEPT ![j] = t] \in Seq(Jobs!State) /\ OneLive([s EXCEPT ![j] = t])
<1> DEFINE next == [s EXCEPT ![j] = t]
<1>1. next \in Seq(Jobs!State) /\ DOMAIN next = DOMAIN s
  OBVIOUS
<1>2. \A i \in DOMAIN s : next[i] = IF i = j THEN t ELSE s[i]
  OBVIOUS
<1>3. s[j] \in Jobs!Unindexed => t \in Jobs!Unindexed
  BY OverIsOver
<1> HIDE DEF next
<1>4. \A i \in DOMAIN s : next[i] \notin Jobs!Unindexed => s[i] \notin Jobs!Unindexed
  BY <1>2, <1>3
<1>5. OneLive(next)
  BY <1>1, <1>4 DEF OneLive
<1>6. QED
  BY <1>1, <1>5 DEF next

LEMMA InitLifecycle == Jobs!Init => LifecycleInv
BY DEF Jobs!Init, LifecycleInv, OneLive

LEMMA EnqueueKeeps ==
  ASSUME LifecycleInv, NEW k \in Keys, Jobs!Enqueue(k)
  PROVE  LifecycleInv'
<1> DEFINE s == jobs[k]  next == Append(s, "queued")
<1>1. s \in Seq(Jobs!State) /\ \A j \in DOMAIN s : s[j] \in Jobs!Unindexed
  BY OverIsOver DEF LifecycleInv, Jobs!Enqueue, Jobs!Live
<1>2. jobs' = [jobs EXCEPT ![k] = next]
  BY DEF Jobs!Enqueue
<1>3. next \in Seq(Jobs!State) /\ DOMAIN next = 1..(Len(s) + 1)
  BY <1>1 DEF Jobs!State
<1>4. \A i \in DOMAIN next : i # Len(s) + 1 => next[i] \in Jobs!Unindexed
  BY <1>1, <1>3
<1>5. OneLive(next)
  BY <1>4 DEF OneLive
<1> HIDE DEF next
<1>6. QED
  BY <1>2, <1>3, <1>5 DEF LifecycleInv

LEMMA TransitionKeeps ==
  ASSUME LifecycleInv, NEW k \in Keys, NEW j \in DOMAIN jobs[k],
         NEW t \in Jobs!State, Jobs!CanTransition(jobs[k][j], t)
  PROVE  /\ [jobs EXCEPT ![k][j] = t] \in [Keys -> Seq(Jobs!State)]
         /\ \A q \in Keys : OneLive([jobs EXCEPT ![k][j] = t][q])
<1> DEFINE next == [jobs[k] EXCEPT ![j] = t]
<1>1. next \in Seq(Jobs!State) /\ OneLive(next)
  BY TransitionKeepsOneLive DEF LifecycleInv
<1>2. [jobs EXCEPT ![k][j] = t] = [jobs EXCEPT ![k] = next]
  BY DEF LifecycleInv
<1> HIDE DEF next
<1>3. QED
  BY <1>1, <1>2 DEF LifecycleInv

LEMMA NextLifecycle == LifecycleInv /\ [Jobs!Next]_jobs => LifecycleInv'
<1>1. SUFFICES ASSUME LifecycleInv, [Jobs!Next]_jobs PROVE LifecycleInv'
  OBVIOUS
<1>2. ASSUME NEW k \in Keys, NEW j \in DOMAIN jobs[k], NEW t \in Jobs!State,
             Jobs!Transition(k, j, t)
      PROVE  LifecycleInv'
  <2>1. jobs' = [jobs EXCEPT ![k][j] = t] /\ Jobs!CanTransition(jobs[k][j], t)
    BY <1>2 DEF Jobs!Transition
  <2>2. QED
    BY <1>1, <2>1, TransitionKeeps DEF LifecycleInv
<1>3. CASE UNCHANGED jobs
  BY <1>1, <1>3 DEF LifecycleInv
<1>4. QED
  BY <1>1, <1>2, <1>3, EnqueueKeeps DEF Jobs!Next

\* Whatever the transition table allows fits the unique index of load_jobs, for any keys
\* and any number of jobs (state_transitions.py, the partial index of load_jobs).
THEOREM TransitionsFitIndex == Jobs!Spec => []AllowedFitsIndex
<1>1. LifecycleInv => AllowedFitsIndex
  BY TransitionKeeps, OneLiveFits DEF AllowedFitsIndex, Jobs!AllowedFitsIndex
<1>2. QED
  BY <1>1, InitLifecycle, NextLifecycle, PTL DEF Jobs!Spec

-----------------------------------------------------------------------------
(***************************************************************************)
(* ExchangePriority: which of two exchanges is ranked first.  Averages are *)
(* compared by cross products; the ranks follow them because whoever is    *)
(* ahead of the more active exchange is ahead of the less active one too.  *)
(***************************************************************************)

\* What is compared: a sum of closes, and over how many days.
Averages == [sum : Nat, over : Nat \ {0}]

\* A nonempty set of natural numbers has a least element.
LEMMA LeastOf ==
  ASSUME NEW S \in SUBSET Nat, S # {}
  PROVE  \E m \in S : \A n \in S : m <= n
<1>1. PICK m \in S : \A n \in S : <<n, m>> \notin OpToRel(<, Nat)
  BY NatLessThanWellFounded, WFMin
<1>2. \A n \in S : ~(n < m)
  BY <1>1 DEF OpToRel
<1>3. QED
  BY <1>2

\* Sums over consecutive days exist, and are natural numbers if what is summed up is:
\* the smallest day without one would have the sum of the day before to build on.
LEMMA TotalsExist ==
  ASSUME NEW m \in Nat, NEW add \in [1..m -> Nat]
  PROVE  \E f \in [0..m -> Nat] : f[0] = 0 /\ \A d \in 1..m : f[d] = f[d - 1] + add[d]
<1> DEFINE Totals(n) == {f \in [0..n -> Nat] : f[0] = 0 /\ \A d \in 1..n : f[d] = f[d - 1] + add[d]}
           Without == {n \in 0..m : Totals(n) = {}}
<1>1. SUFFICES ASSUME Totals(m) = {} PROVE FALSE
  OBVIOUS
<1>2. Without \in SUBSET Nat /\ Without # {}
  <2>1. m \in 0..m
    OBVIOUS
  <2> HIDE DEF Totals
  <2>2. m \in Without
    BY <1>1, <2>1
  <2>3. QED
    BY <2>2
<1>3. PICK n \in Without : \A k \in Without : n <= k
  <2> HIDE DEF Without
  <2> QED BY <1>2, LeastOf
<1>4. n # 0
  <2> DEFINE zero == [d \in 0..0 |-> 0]
  <2>1. zero \in Totals(0)
    <3>1. zero \in [0..0 -> Nat] /\ zero[0] = 0 /\ \A d \in 1..0 : FALSE
      OBVIOUS
    <3> HIDE DEF zero
    <3>2. QED
      BY <3>1
  <2>2. Totals(n) = {}
    BY <1>3
  <2>3. QED
    BY <2>1, <2>2
<1>5. n \in 1..m /\ n - 1 \in 0..m /\ n - 1 \notin Without
  <2> HIDE DEF Totals
  <2>1. n \in 0..m /\ \A k \in Without : k \in 0..m
    BY <1>3
  <2> HIDE DEF Without
  <2>2. n \in 1..m /\ n - 1 \in 0..m /\ ~(n <= n - 1)
    BY <1>4, <2>1
  <2>3. QED
    BY <1>3, <2>2
<1>6. PICK f \in [0..(n - 1) -> Nat] : f[0] = 0 /\ \A d \in 1..(n - 1) : f[d] = f[d - 1] + add[d]
  BY <1>5
<1> DEFINE g == [d \in 0..n |-> IF d = n THEN f[n - 1] + add[n] ELSE f[d]]
<1>7. g \in [0..n -> Nat]
  <2>1. f[n - 1] \in Nat /\ add[n] \in Nat /\ \A d \in 0..n : d # n => f[d] \in Nat
    BY <1>5, <1>6
  <2>2. QED
    BY <2>1
<1>8. g[0] = 0
  BY <1>5, <1>6
<1>9. ASSUME NEW d \in 1..n PROVE g[d] = g[d - 1] + add[d]
  <2>1. d \in 0..n /\ d - 1 \in 0..n /\ d - 1 # n
    BY <1>5
  <2>2. g[d - 1] = f[d - 1]
    BY <2>1
  <2>3. d # n => d \in 1..(n - 1)
    BY <1>5
  <2>4. QED
    BY <1>6, <2>1, <2>2, <2>3
<1>10. g \in Totals(n)
  BY <1>7, <1>8, <1>9
<1>11. QED
  BY <1>3, <1>10

\* What the sums are made of.
PriorityType ==
  prices \in [Codes -> [1..LastDay -> Nat]]

\* A sum of closes is a natural number, and an average one over a positive number of days.
LEMMA SumIsNatural ==
  ASSUME Priority!Parameters, PriorityType, NEW x \in Codes, NEW days
  PROVE  Priority!SumOver(x, days) \in Nat
<1> DEFINE add == [d \in 1..LastDay |-> IF d \in days THEN prices[x][d] ELSE 0]
           Totals(f) == f = [d \in 0..LastDay |->
                               IF d = 0 THEN 0 ELSE f[d - 1] + (IF d \in days THEN prices[x][d] ELSE 0)]
<1>1. LastDay \in Nat /\ add \in [1..LastDay -> Nat]
  BY DEF Priority!Parameters, PriorityType
<1>2. PICK f \in [0..LastDay -> Nat] : f[0] = 0 /\ \A d \in 1..LastDay : f[d] = f[d - 1] + add[d]
  <2> HIDE DEF add
  <2> QED BY <1>1, TotalsExist
<1>3. Totals(f)
  <2>1. \A d \in 0..LastDay : d = 0 \/ d \in 1..LastDay
    BY <1>1
  <2>2. QED
    BY <1>2, <2>1
<1>4. ASSUME NEW g, Totals(g) PROVE g[LastDay] \in Nat
  <2> DEFINE Bad == {d \in 0..LastDay : g[d] \notin Nat}
  <2>1. SUFFICES ASSUME Bad # {} PROVE FALSE
    BY <1>1
  <2>2. PICK d \in Bad : \A e \in Bad : d <= e
    <3>1. Bad \in SUBSET Nat /\ Bad # {}
      BY <2>1
    <3> HIDE DEF Bad
    <3>2. QED
      BY <3>1, LeastOf
  <2>3. g[0] = 0
    BY <1>1, <1>4
  <2>4. d \in 1..LastDay /\ d - 1 \in 0..LastDay /\ d - 1 \notin Bad
    BY <1>1, <2>2, <2>3
  <2>5. g[d] = g[d - 1] + add[d]
    BY <1>4, <2>4
  <2>6. g[d - 1] \in Nat /\ add[d] \in Nat
    BY <1>1, <2>4
  <2>7. QED
    BY <2>2, <2>5, <2>6
<1>5. Totals(CHOOSE g : Totals(g))
  BY <1>3
<1>6. Priority!SumOver(x, days) = (CHOOSE g : Totals(g))[LastDay]
  BY DEF Priority!SumOver
<1>7. QED
  BY <1>4, <1>5, <1>6

LEMMA PriorityCardinality ==
  ASSUME NEW S
  PROVE  Priority!Cardinality(S) = Cardinality(S)
BY DEF Priority!Cardinality, Cardinality

LEMMA AverageIsAverage ==
  ASSUME Priority!Parameters, PriorityType, NEW x \in Codes, NEW days \in SUBSET (1..LastDay)
  PROVE  Priority!Average(x, days) \in Averages
<1>1. LastDay \in Nat
  BY DEF Priority!Parameters
<1>2. IsFiniteSet(days)
  <2>1. IsFiniteSet(1..LastDay)
    BY <1>1, FS_Interval
  <2>2. QED
    BY <2>1, FS_Subset
<1>3. days # {} => Cardinality(days) \in Nat \ {0}
  BY <1>2, FS_CardinalityType, FS_EmptySet
<1>4. QED
  BY <1>3, SumIsNatural, PriorityCardinality DEF Priority!Average, Averages

\* Multiplying keeps the order of natural numbers.
LEMMA TimesKeepsOrder ==
  ASSUME NEW a \in Nat, NEW b \in Nat, NEW k \in Nat
  PROVE  /\ k # 0 /\ a > b => a * k > b * k
         /\ a >= b => a * k >= b * k
         /\ a * k > b * k => a > b
OBVIOUS

LEMMA ProductIsNatural ==
  ASSUME NEW a \in Nat, NEW b \in Nat
  PROVE  a * b \in Nat
OBVIOUS

LEMMA FactorsCommute ==
  ASSUME NEW a \in Nat, NEW b \in Nat, NEW k \in Nat
  PROVE  (a * b) * k = (a * k) * b
OBVIOUS

\* Of averages, what is at least as large as one that is above a third is above it.
LEMMA AboveIsOrder ==
  ASSUME NEW a \in Averages, NEW b \in Averages, NEW c \in Averages,
         ~Priority!Above(b, a), Priority!Above(b, c)
  PROVE  Priority!Above(a, c)
<1> DEFINE as == a.sum  ao == a.over  bs == b.sum  bo == b.over  cs == c.sum  co == c.over
<1>1. /\ as \in Nat /\ bs \in Nat /\ cs \in Nat
      /\ ao \in Nat \ {0} /\ bo \in Nat \ {0} /\ co \in Nat \ {0}
  BY DEF Averages
<1>2. as * bo >= bs * ao /\ bs * co > cs * bo
  BY <1>1 DEF Priority!Above
<1> HIDE DEF as, ao, bs, bo, cs, co
<1>3. /\ as * bo \in Nat /\ bs * ao \in Nat /\ bs * co \in Nat /\ cs * bo \in Nat
      /\ as * co \in Nat /\ cs * ao \in Nat
  BY <1>1, ProductIsNatural
<1>4. (as * bo) * co >= (bs * ao) * co
  BY <1>1, <1>2, <1>3, TimesKeepsOrder
<1>5. (bs * co) * ao > (cs * bo) * ao
  BY <1>1, <1>2, <1>3, TimesKeepsOrder
<1>6. /\ (as * bo) * co = (as * co) * bo
      /\ (bs * ao) * co = (bs * co) * ao
      /\ (cs * bo) * ao = (cs * ao) * bo
  BY <1>1, FactorsCommute
<1>7. (as * co) * bo > (cs * ao) * bo
  <2>1. (as * co) * bo \in Nat /\ (cs * ao) * bo \in Nat /\ (bs * co) * ao \in Nat
    BY <1>1, <1>3, ProductIsNatural
  <2>2. \A u, v, w \in Nat : u >= v /\ v > w => u > w
    OBVIOUS
  <2>3. (bs * co) * ao = (bs * ao) * co /\ (as * bo) * co \in Nat
    BY <1>6, <2>1
  <2>4. QED
    BY <1>4, <1>5, <1>6, <2>1, <2>2, <2>3
<1>8. as * co > cs * ao
  BY <1>1, <1>3, <1>7, TimesKeepsOrder
<1>9. QED
  BY <1>8 DEF Priority!Above, as, ao, cs, co

LEMMA AboveIsStrict ==
  ASSUME NEW a \in Averages, NEW b \in Averages
  PROVE  ~(Priority!Above(a, b) /\ Priority!Above(b, a))
<1>1. \A m, n \in Nat : ~(m > n /\ n > m)
  OBVIOUS
<1>2. a.sum * b.over \in Nat /\ b.sum * a.over \in Nat
  BY DEF Averages
<1>3. QED
  BY <1>1, <1>2 DEF Priority!Above

\* Whoever is ahead of x in the ranking.
Ahead(y, x, avg) ==
  Priority!Above(avg[y], avg[x]) \/ (~Priority!Above(avg[x], avg[y]) /\ y < x)

\* Of two exchanges the one with the larger average has the smaller rank.
LEMMA RanksFollowAverages ==
  ASSUME Priority!Parameters, NEW avg \in [Codes -> Averages],
         NEW x \in Codes, NEW z \in Codes, Priority!Above(avg[x], avg[z])
  PROVE  /\ Priority!RankOf(x, avg) \in Nat /\ Priority!RankOf(z, avg) \in Nat
         /\ Priority!RankOf(x, avg) < Priority!RankOf(z, avg)
<1> DEFINE before(u) == {y \in Codes : Ahead(y, u, avg)}
<1>1. IsFiniteSet(before(x)) /\ IsFiniteSet(before(z))
  <2>1. IsFiniteSet(Codes)
    BY DEF Priority!Parameters, Priority!IsFiniteSet, IsFiniteSet
  <2>2. QED
    BY <2>1, FS_Subset
<1>2. ASSUME NEW y \in before(x) PROVE y \in before(z)
  <2>1. y \in Codes /\ ~Priority!Above(avg[x], avg[y])
    BY <1>2, AboveIsStrict DEF Ahead
  <2>2. Priority!Above(avg[y], avg[z])
    BY <2>1, AboveIsOrder
  <2>3. QED
    BY <2>1, <2>2 DEF Ahead
<1>3. x \in before(z)
  BY DEF Ahead
<1>4. x \notin before(x)
  <2>1. ~(x < x)
    BY DEF Priority!Parameters
  <2>2. ~Priority!Above(avg[x], avg[x])
    BY AboveIsStrict
  <2>3. QED
    BY <2>1, <2>2 DEF Ahead
<1>5. /\ Priority!RankOf(x, avg) = 1 + Cardinality(before(x))
      /\ Priority!RankOf(z, avg) = 1 + Cardinality(before(z))
  BY PriorityCardinality DEF Priority!RankOf, Ahead
<1> HIDE DEF before
<1>6. Cardinality(before(x)) \in Nat /\ Cardinality(before(z)) \in Nat
  BY <1>1, FS_CardinalityType
<1>7. before(x) \in SUBSET before(z) /\ before(x) # before(z)
  BY <1>2, <1>3, <1>4
<1>8. Cardinality(before(x)) <= Cardinality(before(z)) /\ Cardinality(before(x)) # Cardinality(before(z))
  BY <1>1, <1>7, FS_Subset
<1>9. QED
  BY <1>5, <1>6, <1>8

\* A command that is not idle holds an average of every exchange.
Measuring(s) ==
  /\ DOMAIN s = {"at", "read", "left", "avg"}
  /\ s.at = "averaging"
  /\ s.avg \in [Codes -> Averages]

PriorityInv ==
  /\ PriorityType
  /\ DOMAIN command = Commands
  /\ \A c \in Commands : command[c] = Priority!Idle \/ Measuring(command[c])

LEMMA InitPriority == Priority!Parameters /\ Priority!Init => PriorityInv
BY DEF Priority!Parameters, Priority!Init, PriorityInv, PriorityType, Priority!Days, Priority!NoPrice

LEMMA PricedDaysAreDays ==
  ASSUME NEW x
  PROVE  Priority!LastOf(Priority!PricedDays(x)) \in SUBSET (1..LastDay)
BY DEF Priority!LastOf, Priority!PricedDays, Priority!Days

LEMMA NextPriority == Priority!Parameters /\ PriorityInv /\ [Priority!Next]_(Priority!vars) => PriorityInv'
<1>1. SUFFICES ASSUME Priority!Parameters, PriorityInv, [Priority!Next]_(Priority!vars) PROVE PriorityInv'
  OBVIOUS
<1>2. ASSUME NEW c \in Commands, Priority!Begin(c) PROVE PriorityInv'
  <2>1. [x \in Codes |-> [sum |-> 0, over |-> 1]] \in [Codes -> Averages]
    BY DEF Averages
  <2>2. QED
    BY <1>1, <1>2, <2>1 DEF Priority!Begin, PriorityInv, PriorityType, Measuring
<1>3. ASSUME NEW c \in Commands, Priority!Measure(c) PROVE PriorityInv'
  <2>1. Measuring(command[c])
    BY <1>1, <1>3 DEF PriorityInv, Priority!Measure, Priority!Idle
  <2>2. PICK x : command' = [command EXCEPT ![c].left = @ \ {x}, ![c].avg[x] = Priority!TrailingAverage(x)]
    BY <1>3 DEF Priority!Measure
  <2>3. \A y \in Codes : Priority!TrailingAverage(y) \in Averages
    BY <1>1, AverageIsAverage, PricedDaysAreDays DEF Priority!TrailingAverage, PriorityInv
  <2>4. [command[c].avg EXCEPT ![x] = Priority!TrailingAverage(x)] \in [Codes -> Averages]
    BY <2>1, <2>3 DEF Measuring
  <2>5. Measuring(command'[c]) /\ DOMAIN command' = Commands
        /\ \A d \in Commands : d # c => command'[d] = command[d]
    BY <1>1, <2>1, <2>2, <2>4 DEF Measuring, PriorityInv
  <2>6. QED
    BY <1>1, <1>3, <2>5 DEF PriorityInv, PriorityType, Priority!Measure, Measuring
<1>4. ASSUME NEW c \in Commands, Priority!Commit(c) \/ Priority!Fail(c) PROVE PriorityInv'
  <2>1. prices' = prices /\ command' = [command EXCEPT ![c] = Priority!Idle]
    BY <1>4 DEF Priority!Commit, Priority!Fail
  <2>2. QED
    BY <1>1, <2>1 DEF PriorityInv, PriorityType, Measuring
<1>5. ASSUME NEW x \in Codes, NEW d \in Priority!Days, NEW sum \in Turnovers,
             Priority!StorePrices(x, d, sum)
      PROVE  PriorityInv'
  BY <1>1, <1>5 DEF Priority!StorePrices, PriorityInv, PriorityType, Measuring,
                    Priority!Parameters, Priority!Days
<1>6. CASE Priority!NewDay
  BY <1>1, <1>6 DEF Priority!NewDay, PriorityInv, PriorityType, Measuring
<1>7. CASE UNCHANGED Priority!vars
  BY <1>1, <1>7 DEF Priority!vars, PriorityInv, PriorityType, Measuring
<1>8. QED
  BY <1>1, <1>2, <1>3, <1>4, <1>5, <1>6, <1>7 DEF Priority!Next

\* A command that nobody disturbed writes the ranks of what it measured.
LEMMA CommitWritesRanks ==
  ASSUME NEW c, Priority!Commit(c), command[c].read = priority, NEW x \in Codes
  PROVE  priority'[x].rank = Priority!RankOf(x, command[c].avg)
BY DEF Priority!Commit, Priority!Written

\* What the calendar expects and what is priced are the days that count.
LEMMA ActivityIsMeasured ==
  ASSUME Priority!Parameters, NEW x \in Codes
  PROVE  {d \in TradingDays[x] : prices[x][d] # Priority!NoPrice} = Priority!PricedDays(x)
BY DEF Priority!Parameters, Priority!PricedDays, Priority!Days

\* For any exchanges, calendars, closes and commands: one that measured the closes as they
\* are, and was not disturbed, ranks the more active exchange first
\* (recompute_exchange_activity_priority, select_best_listing).
THEOREM ActiveRanksFirst ==
  ASSUME Priority!Parameters PROVE Priority!Spec => ActiveExchangeWins
<1>1. ASSUME PriorityInv, NEW c \in Commands, Priority!Commit(c), command[c].read = priority,
             \A x \in Codes : command[c].avg[x] =
               Priority!Average(x, Priority!LastOf(Priority!PricedDays(x))),
             NEW x \in Codes, NEW y \in Codes,
             Priority!Above(Priority!Average(x, Priority!LastOf({d \in TradingDays[x] : prices[x][d] # Priority!NoPrice})),
                            Priority!Average(y, Priority!LastOf({d \in TradingDays[y] : prices[y][d] # Priority!NoPrice}))),
             NEW a \in Priority!Listing, NEW b \in Priority!Listing,
             a.exchange = x, b.exchange = y, a.home = b.home, a.turnover = b.turnover
      PROVE  Priority!Before(a, b)'
  <2> DEFINE avg == command[c].avg
  <2>1. avg \in [Codes -> Averages]
    BY <1>1 DEF PriorityInv, Measuring, Priority!Commit, Priority!Idle
  <2>2. Priority!Above(avg[x], avg[y])
    BY <1>1, ActivityIsMeasured
  <2> HIDE DEF avg
  <2>3. Priority!RankOf(x, avg) \in Nat /\ Priority!RankOf(y, avg) \in Nat
        /\ Priority!RankOf(x, avg) < Priority!RankOf(y, avg)
    BY <2>1, <2>2, RanksFollowAverages
  <2>4. priority'[x].rank = Priority!RankOf(x, avg) /\ priority'[y].rank = Priority!RankOf(y, avg)
    BY <1>1, CommitWritesRanks DEF avg
  <2>5. priority'[x].rank < priority'[y].rank /\ priority'[x].rank # priority'[y].rank
    BY <2>3, <2>4
  <2>6. QED
    BY <1>1, <2>5 DEF Priority!Before
<1>2. PriorityInv /\ [Priority!Next]_(Priority!vars) =>
        [\A c \in Commands : Priority!Commit(c) /\ command[c].read = priority
           /\ (\A x \in Codes : command[c].avg[x] =
                 Priority!Average(x, Priority!LastOf(Priority!PricedDays(x))))
           => LET activity(x) == Priority!Average(x,
                                   Priority!LastOf({d \in TradingDays[x] : prices[x][d] # Priority!NoPrice}))
              IN \A x, y \in Codes : Priority!Above(activity(x), activity(y)) =>
                   \A a, b \in Priority!Listing :
                     /\ a.exchange = x /\ b.exchange = y
                     /\ a.home = b.home /\ a.turnover = b.turnover
                     => Priority!Before(a, b)']_(Priority!vars)
  BY <1>1
<1>3. QED
  BY <1>2, InitPriority, NextPriority, PTL
    DEF Priority!Spec, ActiveExchangeWins, Priority!ActiveExchangeWins

-----------------------------------------------------------------------------
(***************************************************************************)
(* TradingCalendar: the rules name the right dates in every year.  The     *)
(* walked date is a civil date (WalkInv).  A date within a given week of a *)
(* month is known by its weekday (InAWeek), and so is Easter: the code's h *)
(* is the age of the moon counted from March 21 (FullMoonIs), its l the    *)
(* days from there to a Sunday (SundayIs), and its m undoes the two        *)
(* exceptions of the tables (EasterAfterMoon).                             *)
(***************************************************************************)

Years == Nat \ {0}

\* The walked date is a date of the civil calendar: its day, month and weekday agree.
WalkInv ==
  /\ date \in [year : Years, day : Int, month : 1..12, dom : Nat, weekday : 0..6]
  /\ date.dom \in 1..Calendar!DaysInMonth(date.year, date.month)
  /\ date.day = Calendar!Date(date.year, date.month, date.dom)
  /\ date.weekday = Calendar!Weekday(date.year, date.day)

\* The days of a month follow each other, and so do the months of a year.
LEMMA DaysFollow ==
  ASSUME NEW year \in Years, NEW m \in 1..12, NEW d \in Int
  PROVE  /\ Calendar!Date(year, m, 1) \in Nat \ {0}
         /\ Calendar!Date(year, m, d) \in Int
         /\ Calendar!Date(year, m, d) = Calendar!Date(year, m, 1) + d - 1
<1>1. Calendar!DaysBefore[m] \in Nat
  BY DEF Calendar!DaysBefore
<1> QED BY <1>1 DEF Calendar!Date

LEMMA MonthsFollow ==
  ASSUME NEW year \in Years, NEW m \in 1..12
  PROVE  /\ Calendar!DaysInMonth(year, m) \in 28..31
         /\ Calendar!Date(year, m + 1, 1)
              = Calendar!Date(year, m, 1) + Calendar!DaysInMonth(year, m)
<1>1. m \in {1, 2, 3, 4, 5, 6, 7, 8, 9, 10, 11, 12}
  OBVIOUS
<1> QED BY <1>1 DEF Calendar!DaysInMonth, Calendar!MonthLengths, Calendar!Date, Calendar!DaysBefore

LEMMA YearIsMonths ==
  ASSUME NEW year \in Years
  PROVE  /\ Calendar!Date(year, 1, 1) = 1
         /\ Calendar!Date(year, 13, 1) = Calendar!DaysInYear(year) + 1
         /\ Calendar!DaysInYear(year) \in Int
  BY DEF Calendar!Date, Calendar!DaysBefore, Calendar!DaysInYear

\* A day of the year belongs to one month.
LEMMA MonthIsUnique ==
  ASSUME NEW year \in Years, NEW m \in 1..12, NEW n \in 1..12, NEW x \in Int,
         Calendar!Date(year, m, 1) <= x, x < Calendar!Date(year, m + 1, 1),
         Calendar!Date(year, n, 1) <= x, x < Calendar!Date(year, n + 1, 1)
  PROVE  m = n
  BY DEF Calendar!Date, Calendar!DaysBefore

\* A year begins the day after the last of the year before.
LEMMA YearsFollow ==
  ASSUME NEW year \in Years
  PROVE  /\ Calendar!DaysBeforeYear(year) \in Int
         /\ Calendar!DaysBeforeYear(year + 1)
              = Calendar!DaysBeforeYear(year) + Calendar!DaysInYear(year)
<1>1. year \div 4 = (year - 1) \div 4 + (IF year % 4 = 0 THEN 1 ELSE 0)
  BY DEF Years
<1>2. year \div 100 = (year - 1) \div 100 + (IF year % 100 = 0 THEN 1 ELSE 0)
  BY DEF Years
<1>3. year \div 400 = (year - 1) \div 400 + (IF year % 400 = 0 THEN 1 ELSE 0)
  BY DEF Years
<1>4. (year % 100 = 0 => year % 4 = 0) /\ (year % 400 = 0 => year % 100 = 0)
  BY DEF Years
<1>5. year + 1 - 1 = year
  BY DEF Years
<1> QED
  BY <1>1, <1>2, <1>3, <1>4, <1>5
     DEF Calendar!DaysBeforeYear, Calendar!DaysInYear, Calendar!IsLeap, Years

\* Weekdays go on by one a day.
LEMMA WeekdaysFollow ==
  ASSUME NEW year \in Years, NEW x \in Int, NEW k \in Int
  PROVE  /\ Calendar!Weekday(year, x) \in 0..6
         /\ Calendar!Weekday(year, x + k) = (Calendar!Weekday(year, x) + k) % 7
  BY YearsFollow DEF Calendar!Weekday

LEMMA WeekdayOfNewYear ==
  ASSUME NEW year \in Years
  PROVE  Calendar!Weekday(year + 1, 1)
              = (Calendar!Weekday(year, Calendar!DaysInYear(year)) + 1) % 7
  BY YearsFollow, YearIsMonths DEF Calendar!Weekday

LEMMA WalkInit ==
  ASSUME Calendar!Parameters, Calendar!Init
  PROVE  WalkInv
<1>1. FirstYear \in Years /\ FirstWeekday = Calendar!Weekday(FirstYear, 1) /\ FirstWeekday \in 0..6
  <2>1. FirstYear \in Years /\ FirstWeekday = Calendar!Weekday(FirstYear, 1)
    BY DEF Calendar!Parameters, Years
  <2> QED BY <2>1, 1 \in Int, WeekdaysFollow
<1>2. 1 \in 1..Calendar!DaysInMonth(FirstYear, 1) /\ Calendar!Date(FirstYear, 1, 1) = 1
  BY <1>1, MonthsFollow, YearIsMonths
<1> QED BY <1>1, <1>2 DEF WalkInv, Calendar!Init

LEMMA WalkStep ==
  ASSUME WalkInv, [Calendar!Next]_date
  PROVE  WalkInv'
<1> DEFINE y == date.year  m == date.month  long == Calendar!DaysInMonth(y, m)
<1>0. y \in Years /\ m \in 1..12 /\ date.day \in Int /\ date.dom \in 1..long
      /\ date.weekday \in 0..6 /\ long \in 28..31
      /\ date = [year |-> y, day |-> date.day, month |-> m, dom |-> date.dom,
                 weekday |-> date.weekday]
  BY MonthsFollow DEF WalkInv
<1>t. Calendar!Tomorrow \in 0..6 /\ Calendar!Weekday(y, date.day + 1) = Calendar!Tomorrow
  <2>1. date.weekday = Calendar!Weekday(y, date.day)
    BY DEF WalkInv
  <2> QED BY <1>0, <2>1, WeekdaysFollow DEF Calendar!Tomorrow
<1>d. date.day = Calendar!Date(y, m, 1) + date.dom - 1 /\ Calendar!Date(y, m, 1) \in Int
  <2>1. date.day = Calendar!Date(y, m, date.dom)
    BY DEF WalkInv
  <2> QED BY <1>0, <2>1, DaysFollow
<1>1. CASE Calendar!NextDay /\ date.dom < long
  <2>1. date' = [year |-> y, day |-> date.day + 1, month |-> m, dom |-> date.dom + 1,
                 weekday |-> Calendar!Tomorrow]
    BY <1>0, <1>1 DEF Calendar!NextDay
  <2>2. date.dom + 1 \in 1..long
    BY <1>0, <1>1
  <2>3. Calendar!Date(y, m, date.dom + 1) = date.day + 1
    BY <1>0, <1>d, <2>2, DaysFollow
  <2> QED BY <1>0, <1>t, <2>1, <2>2, <2>3 DEF WalkInv
<1>2. CASE Calendar!NextDay /\ ~(date.dom < long)
  <2>1. date' = [year |-> y, day |-> date.day + 1, month |-> m + 1, dom |-> 1,
                 weekday |-> Calendar!Tomorrow]
    BY <1>0, <1>2 DEF Calendar!NextDay
  <2>2. Calendar!Date(y, m + 1, 1) = date.day + 1
    BY <1>0, <1>2, <1>d, MonthsFollow
  <2>3. m # 12
    BY <1>0, <1>2, <2>2, YearIsMonths DEF Calendar!NextDay
  <2>4. m + 1 \in 1..12
    BY <1>0, <2>3
  <2>5. 1 \in 1..Calendar!DaysInMonth(y, m + 1)
    BY <1>0, <2>4, MonthsFollow
  <2> QED BY <1>0, <1>t, <2>1, <2>2, <2>4, <2>5 DEF WalkInv
<1>3. CASE Calendar!NextYear
  <2>1. date' = [year |-> y + 1, day |-> 1, month |-> 1, dom |-> 1, weekday |-> Calendar!Tomorrow]
    BY <1>3 DEF Calendar!NextYear
  <2>2. Calendar!Weekday(y + 1, 1) = Calendar!Tomorrow
    BY <1>0, <1>3, WeekdayOfNewYear DEF WalkInv, Calendar!NextYear, Calendar!Tomorrow
  <2>3. y + 1 \in Years
    BY <1>0 DEF Years
  <2>4. Calendar!Date(y + 1, 1, 1) = 1 /\ 1 \in 1..Calendar!DaysInMonth(y + 1, 1)
    BY <2>3, MonthsFollow, YearIsMonths
  <2> QED BY <1>t, <2>1, <2>2, <2>3, <2>4 DEF WalkInv
<1>4. CASE UNCHANGED date
  BY <1>4 DEF WalkInv
<1> QED BY <1>1, <1>2, <1>3, <1>4 DEF Calendar!Next

\* A number is its quotient and its remainder.
LEMMA Division ==
  ASSUME NEW x \in Int
  PROVE  /\ x = 4 * (x \div 4) + (x % 4)        /\ x % 4 \in 0..3      /\ x \div 4 \in Int
         /\ x = 19 * (x \div 19) + (x % 19)     /\ x % 19 \in 0..18    /\ x \div 19 \in Int
         /\ x = 25 * (x \div 25) + (x % 25)     /\ x % 25 \in 0..24    /\ x \div 25 \in Int
         /\ x = 100 * (x \div 100) + (x % 100)  /\ x % 100 \in 0..99   /\ x \div 100 \in Int
  OBVIOUS

\* The h of the code: how long after March 21 the moon is full, with two exceptions.
Moon(year) ==
  LET b == year \div 100
  IN (19 * (year % 19) + b - b \div 4 - (b - (b + 8) \div 25 + 1) \div 3 + 15) % 30
Exception(year) == Moon(year) = 29 \/ (Moon(year) = 28 /\ year % 19 > 10)

\* The corrections by centuries in the tables are those of the formula.
LEMMA CenturiesAgree ==
  ASSUME NEW b \in Int
  PROVE  /\ (3 * (b + 1)) \div 4 = b - b \div 4
         /\ (8 * (b + 1) + 5) \div 25 = (b - (b + 8) \div 25 + 1) \div 3
<1>1. (3 * (b + 1)) \div 4 = b - b \div 4
  OBVIOUS
<1> DEFINE q == (b + 8) \div 25  r == (b + 8) % 25
<1>2. b + 8 \in Int
  OBVIOUS
<1>3. b + 8 = 25 * q + r /\ q \in Int /\ r \in 0..24
  BY <1>2, Division
<1> HIDE DEF q, r
<1>4. (8 * b + 13) \div 25 = (b - q + 1) \div 3
  BY <1>3
<1>5. 8 * (b + 1) + 5 = 8 * b + 13
  OBVIOUS
<1> QED BY <1>1, <1>4, <1>5 DEF q

LEMMA FullMoonIs ==
  ASSUME NEW year \in Years
  PROVE  /\ Moon(year) \in 0..29
         /\ Calendar!FullMoon(year) = Calendar!Date(year, 3, 1) + 20 + Moon(year)
                                        - (IF Exception(year) THEN 1 ELSE 0)
<1> DEFINE b == year \div 100
           a == year % 19
           s == b - b \div 4
           g == (b - (b + 8) \div 25 + 1) \div 3
           age == (11 * (a + 1) + 20 + (g - 5) - (s - 12)) % 30
           epact == IF age = 24 \/ (age = 25 /\ a + 1 > 11) THEN age + 1 ELSE age
           inMarch == IF epact > 23 THEN 74 - epact ELSE 44 - epact
<1>1. a \in 0..18 /\ b \in Int /\ s \in Int /\ g \in Int /\ Calendar!Date(year, 3, 1) \in Int
  BY Division, DaysFollow DEF Years
<1>2. Calendar!FullMoon(year) = Calendar!Date(year, 3, 1) + inMarch - 1
  <2>1. (3 * (b + 1)) \div 4 = s /\ (8 * (b + 1) + 5) \div 25 = g
    BY <1>1, CenturiesAgree
  <2> QED BY <2>1 DEF Calendar!FullMoon
<1>3. Moon(year) = (19 * a + s - g + 15) % 30
  BY DEF Moon
<1> HIDE DEF a, b, s, g
<1>4. Moon(year) \in 0..29 /\ age \in 0..29 /\ (Moon(year) + age) % 30 = 23
  BY <1>1, <1>3
<1>5. Moon(year) = IF age <= 23 THEN 23 - age ELSE 53 - age
  BY <1>4
<1>6. Exception(year) <=> age = 24 \/ (age = 25 /\ a > 10)
  BY <1>4, <1>5 DEF Exception, a
<1>7. inMarch = 21 + Moon(year) - (IF Exception(year) THEN 1 ELSE 0)
  BY <1>1, <1>4, <1>5, <1>6
<1> QED BY <1>1, <1>2, <1>4, <1>7

\* The l of the code: how many days after the moon and one more a Sunday is.
ToSunday(year) ==
  LET b == year \div 100
      c == year % 100
  IN (32 + 2 * (b % 4) + 2 * (c \div 4) - Moon(year) - (c % 4)) % 7

LEMMA SundayIs ==
  ASSUME NEW year \in Years
  PROVE  /\ ToSunday(year) \in 0..6
         /\ Calendar!Weekday(year, Calendar!Date(year, 3, 1) + 21 + Moon(year) + ToSunday(year)) = 6
<1> DEFINE b == year \div 100  c == year % 100  d == b \div 4  e == b % 4
           i == c \div 4  k == c % 4  h == Moon(year)  l == ToSunday(year)
           before == Calendar!DaysBeforeYear(year)
           long  == Calendar!DaysInYear(year)
           march == Calendar!Date(year, 3, 1)
<1>1. year \in Int /\ b \in Int /\ c \in 0..99 /\ year = 100 * b + c
  BY Division DEF Years
<1>2. d \in Int /\ e \in 0..3 /\ b = 4 * d + e
  BY <1>1, Division
<1>3. c \in Int /\ i \in Int /\ k \in 0..3 /\ c = 4 * i + k
  BY <1>1, Division
<1>4. h \in 0..29 /\ l = (32 + 2 * e + 2 * i - h - k) % 7
  BY FullMoonIs DEF ToSunday
<1>5. before \in Int /\ long \in Int /\ march = long - 305
  BY YearsFollow DEF Calendar!Date, Calendar!DaysBefore, Calendar!DaysInYear
<1>6. before + long = year * 365 + year \div 4 - year \div 100 + year \div 400
  <2>1. before + long = Calendar!DaysBeforeYear(year + 1)
    BY YearsFollow
  <2>2. year + 1 - 1 = year
    BY <1>1
  <2>3. Calendar!DaysBeforeYear(year + 1)
          = (year + 1 - 1) * 365 + (year + 1 - 1) \div 4
              - (year + 1 - 1) \div 100 + (year + 1 - 1) \div 400
    BY <1>1 DEF Calendar!DaysBeforeYear
  <2> QED BY <2>1, <2>2, <2>3
<1>7. Calendar!Weekday(year, march + 21 + h + l) = (before + (march + 21 + h + l) + 6) % 7
  BY DEF Calendar!Weekday
<1>8. year \div 4 = 25 * b + i /\ year \div 400 = d
  <2> HIDE DEF b, c, d, e, i, k
  <2>1. year = 4 * (25 * b + i) + k /\ 25 * b + i \in Int
    BY <1>1, <1>2, <1>3
  <2>2. year = 400 * d + (100 * e + c) /\ 100 * e + c \in 0..399
    BY <1>1, <1>2, <1>3
  <2>3. \A x \in Int : year = 4 * x + k => year \div 4 = x
    BY <1>1, <1>3
  <2>4. \A x \in 0..399 : year = 400 * d + x => year \div 400 = d
    BY <1>1, <1>2
  <2> QED BY <2>1, <2>2, <2>3, <2>4
<1> DEFINE z == (32 + 2 * e + 2 * i - h - k) \div 7
<1>9. z \in Int /\ l \in 0..6 /\ 32 + 2 * e + 2 * i - h - k = 7 * z + l
  <2> HIDE DEF e, i, h, k, l
  <2> QED BY <1>2, <1>3, <1>4
<1>10. before + (march + 21 + h + l) + 6
         = 7 * (20871 * d + 5218 * e + 209 * i + 52 * k - 36 - z) + 6
  <2>1. before + long = year * 365 + (25 * b + i) - b + d
    BY <1>6, <1>8
  <2> HIDE DEF b, c, d, e, i, k, h, l, z, before, long, march
  <2> QED BY <2>1, <1>1, <1>2, <1>3, <1>4, <1>5, <1>9
<1>11. \A x \in Int : (7 * x + 6) % 7 = 6
  OBVIOUS
<1>12. 20871 * d + 5218 * e + 209 * i + 52 * k - 36 - z \in Int
  <2> HIDE DEF d, e, i, k, z
  <2> QED BY <1>2, <1>3, <1>9
<1> HIDE DEF d, e, i, k, h, l, z, before, march
<1>13. Calendar!Weekday(year, march + 21 + h + l) = 6
  BY <1>7, <1>10, <1>11, <1>12
<1> QED BY <1>9, <1>13 DEF h, l, march

\* The formula's Easter is a Sunday of the week after the full moon.
LEMMA EasterAfterMoon ==
  ASSUME NEW year \in Years
  PROVE  /\ Calendar!EasterSunday(year)
               \in (Calendar!FullMoon(year) + 1)..(Calendar!FullMoon(year) + 7)
         /\ Calendar!Weekday(year, Calendar!EasterSunday(year)) = 6
<1> DEFINE a == year % 19
           h == Moon(year)
           l == ToSunday(year)
           m == (a + 11 * h + 22 * l) \div 451
           n == h + l - 7 * m + 114
           march == Calendar!Date(year, 3, 1)
           sunday == march + 21 + h + l
<1>1. Calendar!EasterSunday(year) = Calendar!Date(year, n \div 31, (n % 31) + 1)
  BY DEF Calendar!EasterSunday, Moon, ToSunday
<1>2. a \in 0..18 /\ h \in 0..29 /\ l \in 0..6 /\ march \in Int
  BY Division, FullMoonIs, SundayIs, DaysFollow DEF Years
<1>3. Calendar!FullMoon(year) = march + 20 + h - (IF Exception(year) THEN 1 ELSE 0)
  BY FullMoonIs
<1>4. Exception(year) <=> h = 29 \/ (h = 28 /\ a > 10)
  BY DEF Exception
<1>5. Calendar!Weekday(year, sunday) = 6
  BY SundayIs
<1> HIDE DEF a, h, l, march
<1>6. m = IF Exception(year) /\ l = 6 THEN 1 ELSE 0
  BY <1>2, <1>4
<1> HIDE DEF m
<1>7. n \in 107..149
  BY <1>2, <1>4, <1>6
<1>8. Calendar!EasterSunday(year) = sunday - 7 * m
  <2>1. CASE n < 124
    <3>1. n \div 31 = 3 /\ n % 31 = n - 93
      BY <1>7, <2>1
    <3>2. Calendar!EasterSunday(year) = Calendar!Date(year, 3, n - 92)
      BY <1>1, <1>7, <3>1
    <3>3. n - 92 \in Int /\ n - 92 = h + l - 7 * m + 22
      BY <1>2, <1>6
    <3>4. Calendar!Date(year, 3, n - 92) = march + (n - 92) - 1
      BY <3>3, DaysFollow DEF march
    <3> QED BY <1>2, <1>6, <3>2, <3>3, <3>4
  <2>2. CASE n >= 124
    <3>1. n \div 31 = 4 /\ n % 31 = n - 124
      BY <1>7, <2>2
    <3>2. Calendar!Date(year, 4, 1) = march + 31
      BY DEF march, Calendar!Date, Calendar!DaysBefore
    <3>3. Calendar!EasterSunday(year) = Calendar!Date(year, 4, n - 123)
      BY <1>1, <1>7, <3>1
    <3>4. n - 123 \in Int /\ n - 123 = h + l - 7 * m - 9
      BY <1>2, <1>6
    <3>5. Calendar!Date(year, 4, n - 123) = Calendar!Date(year, 4, 1) + (n - 123) - 1
      BY <3>4, DaysFollow
    <3> QED BY <1>2, <1>6, <3>2, <3>3, <3>4, <3>5
  <2> QED BY <1>7, <2>1, <2>2
<1>9. Calendar!Weekday(year, sunday - 7 * m) = 6
  <2>1. sunday \in Int /\ (-7) * m \in Int /\ (6 + ((-7) * m)) % 7 = 6
        /\ sunday - 7 * m = sunday + ((-7) * m)
    BY <1>2, <1>6
  <2> HIDE DEF sunday
  <2>2. Calendar!Weekday(year, sunday + ((-7) * m)) = (Calendar!Weekday(year, sunday) + ((-7) * m)) % 7
    BY <2>1, WeekdaysFollow
  <2> QED BY <1>5, <2>1, <2>2
<1>10. sunday - 7 * m \in (Calendar!FullMoon(year) + 1)..(Calendar!FullMoon(year) + 7)
  BY <1>2, <1>3, <1>4, <1>6
<1> HIDE DEF sunday
<1> QED BY <1>8, <1>9, <1>10

\* Two days of the same weekday within a week are one.
LEMMA OneAWeek ==
  ASSUME NEW year \in Years, NEW x \in Int, NEW z \in Int, NEW from \in Int,
         x \in from..(from + 6), z \in from..(from + 6),
         Calendar!Weekday(year, x) = Calendar!Weekday(year, z)
  PROVE  x = z
  BY YearsFollow DEF Calendar!Weekday

LEMMA DayIsInMonth ==
  ASSUME NEW year \in Years, NEW m \in 1..12,
         NEW d \in 1..Calendar!DaysInMonth(year, m)
  PROVE  /\ Calendar!Date(year, m, 1) \in Int /\ Calendar!Date(year, m, d) \in Int /\ d \in Int
         /\ Calendar!Date(year, m, d) = Calendar!Date(year, m, 1) + d - 1
         /\ 1 <= Calendar!Date(year, m, 1)
         /\ Calendar!Date(year, m, 1) <= Calendar!Date(year, m, d)
         /\ Calendar!Date(year, m, d) < Calendar!Date(year, m + 1, 1)
<1>1. d \in Int
  BY MonthsFollow
<1>2. /\ Calendar!Date(year, m, 1) \in Nat \ {0} /\ Calendar!Date(year, m, d) \in Int
      /\ Calendar!Date(year, m, d) = Calendar!Date(year, m, 1) + d - 1
  BY <1>1, DaysFollow
<1>3. /\ Calendar!DaysInMonth(year, m) \in Int
      /\ Calendar!Date(year, m + 1, 1) = Calendar!Date(year, m, 1) + Calendar!DaysInMonth(year, m)
  BY MonthsFollow
<1> QED BY <1>1, <1>2, <1>3

\* What the walked date is on a day of its year.
LEMMA OnADay ==
  ASSUME WalkInv, NEW m \in 1..12, NEW d \in Int,
         d \in 1..Calendar!DaysInMonth(date.year, m)
  PROVE  date.day = Calendar!Date(date.year, m, d) <=> date.month = m /\ date.dom = d
<1> DEFINE y == date.year
<1>1. /\ y \in Years /\ date.month \in 1..12 /\ date.dom \in Int /\ date.day \in Int
      /\ date.dom \in 1..Calendar!DaysInMonth(y, date.month)
      /\ date.day = Calendar!Date(y, date.month, date.dom)
  BY MonthsFollow DEF WalkInv
<1>2. SUFFICES ASSUME date.day = Calendar!Date(y, m, d) PROVE date.month = m /\ date.dom = d
  BY <1>1
<1> HIDE DEF y
<1>3. /\ d \in Int /\ Calendar!Date(y, m, 1) \in Int
      /\ date.day = Calendar!Date(y, m, 1) + d - 1
      /\ Calendar!Date(y, m, 1) <= date.day /\ date.day < Calendar!Date(y, m + 1, 1)
  <2>1. d \in 1..Calendar!DaysInMonth(y, m)
    BY DEF y
  <2> QED BY <1>1, <1>2, <2>1, DayIsInMonth
<1>4. /\ date.day = Calendar!Date(y, date.month, 1) + date.dom - 1
      /\ Calendar!Date(y, date.month, 1) <= date.day
      /\ date.day < Calendar!Date(y, date.month + 1, 1)
  BY <1>1, DayIsInMonth
<1>5. date.month = m
  BY <1>1, <1>3, <1>4, MonthIsUnique
<1> QED BY <1>1, <1>3, <1>4, <1>5

\* A day of a given weekday in a week of a month is the date that the definition names.
LEMMA InAWeek ==
  ASSUME WalkInv, NEW m \in 1..12, NEW w \in 0..6, NEW from \in 1..31, NEW x \in Int,
         from + 6 <= Calendar!DaysInMonth(date.year, m),
         x \in Calendar!Date(date.year, m, from)..Calendar!Date(date.year, m, from + 6),
         Calendar!Weekday(date.year, x) = w
  PROVE  date.day = x <=> date.weekday = w /\ Calendar!On(m, from..(from + 6))
<1> DEFINE y == date.year  first == Calendar!Date(y, m, 1)
<1>1. /\ y \in Years /\ date.day \in Int /\ date.dom \in Int /\ first \in Int
      /\ date.weekday = Calendar!Weekday(y, date.day)
      /\ Calendar!DaysInMonth(y, m) \in Int
  <2>1. /\ y \in Years /\ date.day \in Int /\ date.dom \in Int
        /\ date.weekday = Calendar!Weekday(y, date.day)
    BY DEF WalkInv
  <2> HIDE DEF y
  <2>2. first \in Int
    BY <2>1, 1 \in Int, DaysFollow
  <2>3. Calendar!DaysInMonth(y, m) \in Int
    BY <2>1, MonthsFollow
  <2> QED BY <2>1, <2>2, <2>3
<1>2. \A d \in Int : Calendar!Date(y, m, d) = first + d - 1
  <2> HIDE DEF y
  <2> QED BY <1>1, DaysFollow
<1>3. x \in (first + from - 1)..(first + from + 5)
  BY <1>1, <1>2
<1>4. ASSUME date.day = x
      PROVE  date.weekday = w /\ Calendar!On(m, from..(from + 6))
  <2> DEFINE d == x - first + 1
  <2>1. d \in from..(from + 6) /\ d \in 1..Calendar!DaysInMonth(y, m)
    BY <1>1, <1>3
  <2>2. date.day = Calendar!Date(y, m, d)
    BY <1>1, <1>2, <1>4, <2>1
  <2>3. date.month = m /\ date.dom = d
    BY <2>1, <2>2, OnADay
  <2> QED BY <1>1, <1>4, <2>1, <2>3 DEF Calendar!On
<1>5. ASSUME date.weekday = w, Calendar!On(m, from..(from + 6))
      PROVE  date.day = x
  <2>1. date.month = m /\ date.dom \in from..(from + 6)
    BY <1>5 DEF Calendar!On
  <2>2. date.day = first + date.dom - 1
    BY <1>1, <1>2, <2>1 DEF WalkInv
  <2>3. date.day \in (first + from - 1)..(first + from - 1 + 6)
    BY <1>1, <2>1, <2>2
  <2>4. x \in (first + from - 1)..(first + from - 1 + 6) /\ first + from - 1 \in Int
    BY <1>1, <1>3
  <2> QED BY <1>1, <1>5, <2>3, <2>4, OneAWeek
<1> QED BY <1>4, <1>5

\* So many days on, and so many weeks, is the weekday w.
LEMMA UpTo ==
  ASSUME NEW v \in 0..6, NEW w \in 0..6, NEW n \in Nat
  PROVE  (w - v) % 7 \in 0..6 /\ (v + (((w - v) % 7) + 7 * n)) % 7 = w
  OBVIOUS

\* The n-th weekday of a month is in its n-th week, the last one in its last week.
LEMMA NthIs ==
  ASSUME NEW year \in Years, NEW m \in 1..12, NEW w \in 0..6, NEW n \in 1..5
  PROVE  /\ Calendar!NthWeekdayOfMonth(year, m, w, n)
              \in Calendar!Date(year, m, 7 * n - 6)..Calendar!Date(year, m, 7 * n)
         /\ Calendar!Weekday(year, Calendar!NthWeekdayOfMonth(year, m, w, n)) = w
         /\ Calendar!NthWeekdayOfMonth(year, m, w, n) \in Int
<1> DEFINE first == Calendar!Date(year, m, 1)
           k == (w - Calendar!Weekday(year, first)) % 7
<1>0. first \in Int
  BY 1 \in Int, DaysFollow
<1>1. first \in Int /\ Calendar!Weekday(year, first) \in 0..6 /\ k \in 0..6
  <2> HIDE DEF first
  <2>1. Calendar!Weekday(year, first) \in 0..6
    BY <1>0, WeekdaysFollow
  <2> QED BY <1>0, <2>1
<1>2. Calendar!NthWeekdayOfMonth(year, m, w, n) = first + (k + 7 * (n - 1))
  BY <1>1 DEF Calendar!NthWeekdayOfMonth
<1>3. k + 7 * (n - 1) \in Int /\ 7 * n - 6 \in Int /\ 7 * n \in Int
  BY <1>1
<1>4. Calendar!Weekday(year, first + (k + 7 * (n - 1)))
        = (Calendar!Weekday(year, first) + (k + 7 * (n - 1))) % 7
  BY <1>1, <1>3, WeekdaysFollow
<1>5. (Calendar!Weekday(year, first) + (k + 7 * (n - 1))) % 7 = w
  <2> HIDE DEF first
  <2>1. n - 1 \in Nat
    OBVIOUS
  <2> QED BY <1>1, <2>1, UpTo
<1>6. \A d \in Int : Calendar!Date(year, m, d) = first + d - 1
  BY DaysFollow
<1>7. /\ Calendar!Date(year, m, 7 * n - 6) = first + (7 * n - 6) - 1
      /\ Calendar!Date(year, m, 7 * n) = first + 7 * n - 1
  BY <1>3, <1>6
<1> QED BY <1>1, <1>2, <1>4, <1>5, <1>7

LEMMA LastIs ==
  ASSUME NEW year \in Years, NEW w \in 0..6
  PROVE  /\ Calendar!LastWeekdayOfMonth(year, 5, w)
              \in Calendar!Date(year, 5, 25)..Calendar!Date(year, 5, 31)
         /\ Calendar!Weekday(year, Calendar!LastWeekdayOfMonth(year, 5, w)) = w
         /\ Calendar!LastWeekdayOfMonth(year, 5, w) \in Int
<1> DEFINE last == Calendar!Date(year, 6, 1) - 1
           k == (w - Calendar!Weekday(year, last - 6)) % 7
           d == (last - 6) + k
<1>1. last \in Int /\ last - 6 \in Int /\ Calendar!Weekday(year, last - 6) \in 0..6 /\ k \in 0..6
  <2>1. last \in Int /\ last - 6 \in Int
    BY 1 \in Int, DaysFollow
  <2> HIDE DEF last
  <2>2. Calendar!Weekday(year, last - 6) \in 0..6
    BY <2>1, WeekdaysFollow
  <2> QED BY <2>1, <2>2
<1>2. d \in (last - 6)..last /\ Calendar!Weekday(year, d) = w
  <2> HIDE DEF last
  <2>1. k \in Int /\ Calendar!Weekday(year, d) = (Calendar!Weekday(year, last - 6) + k) % 7
    <3>1. k \in Int
      BY <1>1
    <3> HIDE DEF k
    <3> QED BY <1>1, <3>1, WeekdaysFollow
  <2>2. (Calendar!Weekday(year, last - 6) + (k + 7 * 0)) % 7 = w
    BY <1>1, 0 \in Nat, UpTo
  <2>3. k \in 0..6 /\ k + 7 * 0 = k
    BY <1>1
  <2> HIDE DEF k
  <2> QED BY <1>1, <2>1, <2>2, <2>3
<1>3. /\ Calendar!LastWeekdayOfMonth(year, 5, w) \in (last - 6)..last
      /\ Calendar!Weekday(year, Calendar!LastWeekdayOfMonth(year, 5, w)) = w
  BY <1>2 DEF Calendar!LastWeekdayOfMonth
<1>4. Calendar!Date(year, 5, 25) = last - 6 /\ Calendar!Date(year, 5, 31) = last
  BY DEF Calendar!Date, Calendar!DaysBefore
<1> QED BY <1>1, <1>3, <1>4

\* A fixed holiday is observed on its day, or on the weekday next to its week-end.
LEMMA ObservedIs ==
  ASSUME WalkInv, date.weekday < 5, NEW h \in Calendar!UsFixed
  PROVE  date.day = Calendar!ObservedDate(date.year, Calendar!Date(date.year, h[1], h[2]))
         <=> \/ Calendar!On(h[1], {h[2]})
             \/ date.weekday = 0 /\ Calendar!On(h[1], {h[2] + 1})
             \/ date.weekday = 4 /\ Calendar!On(h[1], {h[2] - 1})
<1> DEFINE y == date.year  m == h[1]  d == h[2]  x == Calendar!Date(y, m, d)
<1>1. m \in 1..12 /\ d \in 1..25 /\ (d = 1 => m = 1)
  BY DEF Calendar!UsFixed
<1>2. /\ y \in Years /\ date.day \in Int /\ date.dom \in Int /\ date.dom >= 1
      /\ date.weekday \in 0..6 /\ date.weekday = Calendar!Weekday(y, date.day)
      /\ date.month \in 1..12 /\ date.dom \in 1..Calendar!DaysInMonth(y, date.month)
      /\ date.day = Calendar!Date(y, date.month, date.dom)
  BY MonthsFollow DEF WalkInv
<1> HIDE DEF m, d
<1>3. /\ x \in Int /\ Calendar!Date(y, m, d + 1) = x + 1 /\ Calendar!Date(y, m, d - 1) = x - 1
      /\ m = 1 => x = d
  <2>1. d \in Int /\ d + 1 \in Int /\ d - 1 \in Int /\ Calendar!Date(y, 1, 1) = 1
    BY <1>1, <1>2, YearIsMonths
  <2> HIDE DEF y
  <2>2. ASSUME NEW k \in Int
        PROVE  /\ Calendar!Date(y, m, 1) \in Int
               /\ Calendar!Date(y, m, k) = Calendar!Date(y, m, 1) + k - 1
    <3>1. y \in Years /\ m \in 1..12
      BY <1>1, <1>2
    <3>2. Calendar!Date(y, m, 1) \in Nat \ {0}
          /\ Calendar!Date(y, m, k) = Calendar!Date(y, m, 1) + k - 1
      BY <3>1, DaysFollow
    <3> QED BY <3>2
  <2> QED BY <2>1, <2>2
<1>4. d \in 1..Calendar!DaysInMonth(y, m) /\ d + 1 \in 1..Calendar!DaysInMonth(y, m)
  BY <1>1, <1>2, MonthsFollow
<1>5. date.day >= 1
  <2>1. 1 <= Calendar!Date(y, date.month, 1) /\ Calendar!Date(y, date.month, 1) <= date.day
        /\ Calendar!Date(y, date.month, 1) \in Int
    BY <1>2, DayIsInMonth
  <2> QED BY <1>2, <2>1
<1>6. date.day = x <=> Calendar!On(m, {d})
  BY <1>1, <1>4, OnADay DEF Calendar!On
<1>7. date.day = x + 1 <=> Calendar!On(m, {d + 1})
  BY <1>1, <1>3, <1>4, OnADay DEF Calendar!On
<1>8. date.day = x - 1 <=> Calendar!On(m, {d - 1})
  <2>1. CASE d = 1
    BY <1>1, <1>2, <1>3, <1>5, <2>1 DEF Calendar!On
  <2>2. CASE d # 1
    <3>1. d - 1 \in 1..Calendar!DaysInMonth(y, m)
      BY <1>1, <1>2, <2>2, MonthsFollow
    <3> QED BY <1>1, <1>3, <3>1, OnADay DEF Calendar!On
  <2> QED BY <2>1, <2>2
<1> DEFINE w == Calendar!Weekday(y, x)
<1>9. /\ w \in 0..6
      /\ Calendar!Weekday(y, x + 1) = (w + 1) % 7
      /\ Calendar!Weekday(y, x + (-1)) = (w + (-1)) % 7 /\ x + (-1) = x - 1
  <2> HIDE DEF x, y
  <2>1. x \in Int /\ y \in Years
    BY <1>2, <1>3
  <2>2. w \in 0..6 /\ Calendar!Weekday(y, x + 1) = (w + 1) % 7
    BY <2>1, 1 \in Int, WeekdaysFollow
  <2>3. Calendar!Weekday(y, x + (-1)) = (w + (-1)) % 7
    BY <2>1, -1 \in Int, WeekdaysFollow
  <2> QED BY <2>1, <2>2, <2>3
<1>10. Calendar!ObservedDate(y, x) = IF w = 5 THEN x - 1 ELSE IF w = 6 THEN x + 1 ELSE x
  BY <1>9 DEF Calendar!ObservedDate
<1>11. /\ date.day = x => date.weekday = w
       /\ date.day = x + 1 => date.weekday = (w + 1) % 7
       /\ date.day = x - 1 => date.weekday = (w - 1) % 7
  BY <1>2, <1>9
<1> HIDE DEF w, x, y
<1>12. date.day = Calendar!ObservedDate(y, x)
         <=> \/ date.day = x
             \/ date.weekday = 0 /\ date.day = x + 1
             \/ date.weekday = 4 /\ date.day = x - 1
  BY <1>2, <1>3, <1>9, <1>10, <1>11
<1> QED BY <1>6, <1>7, <1>8, <1>12 DEF m, d, x, y

LEMMA EasterIsADay ==
  ASSUME NEW year \in Years
  PROVE  Calendar!FullMoon(year) \in Int /\ Calendar!EasterSunday(year) \in Int
<1>1. Calendar!Date(year, 3, 1) \in Nat \ {0}
  BY 1 \in Int, 3 \in 1..12, DaysFollow
<1>2. Calendar!FullMoon(year) \in Int
  BY <1>1, FullMoonIs
<1>3. Calendar!EasterSunday(year) \in (Calendar!FullMoon(year) + 1)..(Calendar!FullMoon(year) + 7)
  BY EasterAfterMoon
<1> QED BY <1>2, <1>3

\* The days counted from Easter.
LEMMA EasterInIs ==
  ASSUME WalkInv, NEW k \in Int
  PROVE  Calendar!EasterIn(k) <=> date.day = Calendar!EasterSunday(date.year) - k
<1> DEFINE y == date.year  easter == Calendar!EasterSunday(y)  moon == Calendar!FullMoon(y)
<1>1. y \in Years /\ date.day \in Int /\ date.weekday = Calendar!Weekday(y, date.day)
  BY DEF WalkInv
<1>2. moon \in Int
  BY <1>1, EasterIsADay
<1>3. easter \in (moon + 1)..(moon + 7) /\ Calendar!Weekday(y, easter) = 6
  BY <1>1, EasterAfterMoon
<1>4. Calendar!Weekday(y, date.day + k) = (date.weekday + k) % 7 /\ date.day + k \in Int
  <2>1. date.day + k \in Int
    BY <1>1
  <2> HIDE DEF y
  <2>2. Calendar!Weekday(y, date.day + k) = (Calendar!Weekday(y, date.day) + k) % 7
    BY <1>1, WeekdaysFollow
  <2> QED BY <1>1, <2>1, <2>2
<1> HIDE DEF y, easter, moon
<1>5. Calendar!EasterIn(k) <=> /\ Calendar!Weekday(y, date.day + k) = 6
                               /\ date.day + k \in (moon + 1)..(moon + 7)
  BY <1>4 DEF Calendar!EasterIn, y, moon
<1>6. Calendar!EasterIn(k) <=> date.day + k = easter
  <2>1. moon + 1 \in Int /\ moon + 7 = (moon + 1) + 6 /\ easter \in Int
    BY <1>2, <1>3
  <2>2. ASSUME Calendar!EasterIn(k) PROVE date.day + k = easter
    BY <1>1, <1>3, <1>4, <1>5, <2>1, <2>2, OneAWeek
  <2> QED BY <1>3, <1>5, <2>2
<1> QED BY <1>1, <1>2, <1>3, <1>6 DEF y, easter

\* The American holidays by the code's rules are those by their definitions.
LEMMA AmericanHolidays ==
  ASSUME WalkInv, date.weekday < 5
  PROVE  date.day \in Calendar!UsMarketHolidays(date.year) <=> Calendar!AmericanHoliday
<1> DEFINE y == date.year
           Observed(m, d) == date.day = Calendar!ObservedDate(y, Calendar!Date(y, m, d))
           Nth(m, w, n) == date.day = Calendar!NthWeekdayOfMonth(y, m, w, n)
<1>1. date.year \in Years
  BY DEF WalkInv
<1>2. ASSUME NEW m \in 1..12, NEW w \in 0..6, NEW n \in 1..4
      PROVE  Nth(m, w, n) <=> date.weekday = w /\ Calendar!On(m, (7 * n - 6)..(7 * n))
  <2> DEFINE from == 7 * n - 6  x == Calendar!NthWeekdayOfMonth(date.year, m, w, n)
  <2>1. from \in 1..31 /\ from + 6 = 7 * n /\ from + 6 \in 1..28 /\ n \in 1..5
    OBVIOUS
  <2>2. Calendar!DaysInMonth(date.year, m) \in 28..31
    BY <1>1, MonthsFollow
  <2>3. x \in Calendar!Date(date.year, m, from)..Calendar!Date(date.year, m, from + 6)
        /\ Calendar!Weekday(date.year, x) = w
    BY <1>1, <2>1, NthIs
  <2>4. x \in Int
    BY <1>1, <2>1, NthIs
  <2> HIDE DEF x, from
  <2>5. from \in 1..31 /\ from + 6 <= Calendar!DaysInMonth(date.year, m)
    BY <2>1, <2>2
  <2>6. date.day = x <=> date.weekday = w /\ Calendar!On(m, from..(from + 6))
    BY <2>3, <2>4, <2>5, InAWeek
  <2> QED BY <2>1, <2>6 DEF x, from
<1>3. date.day = Calendar!LastWeekdayOfMonth(y, 5, 0)
        <=> date.weekday = 0 /\ Calendar!On(5, 25..31)
  <2> DEFINE x == Calendar!LastWeekdayOfMonth(date.year, 5, 0)
  <2>1. x \in Calendar!Date(date.year, 5, 25)..Calendar!Date(date.year, 5, 25 + 6)
        /\ Calendar!Weekday(date.year, x) = 0
    BY <1>1, 0 \in 0..6, LastIs
  <2>2. Calendar!DaysInMonth(date.year, 5) = 31
    BY DEF Calendar!DaysInMonth, Calendar!MonthLengths
  <2>3. x \in Int
    BY <1>1, 0 \in 0..6, LastIs
  <2> HIDE DEF x
  <2>4. 25 + 6 <= Calendar!DaysInMonth(date.year, 5) /\ 25 + 6 = 31
    BY <2>2
  <2>5. ASSUME NEW m \in 1..12, NEW w \in 0..6, NEW from \in 1..31, m = 5, w = 0, from = 25
        PROVE  date.day = x <=> date.weekday = w /\ Calendar!On(m, from..(from + 6))
    <3>1. /\ from + 6 <= Calendar!DaysInMonth(date.year, m)
          /\ x \in Calendar!Date(date.year, m, from)..Calendar!Date(date.year, m, from + 6)
          /\ Calendar!Weekday(date.year, x) = w
      BY <2>1, <2>4, <2>5
    <3> QED BY <2>3, <3>1, InAWeek
  <2>6. date.day = x <=> date.weekday = 0 /\ Calendar!On(5, 25..(25 + 6))
    BY <2>5, 5 \in 1..12, 0 \in 0..6, 25 \in 1..31
  <2> QED BY <2>4, <2>6 DEF x
<1>4. date.day = Calendar!EasterSunday(y) - 2 <=> Calendar!EasterIn(2)
  BY 2 \in Int, EasterInIs
<1>5. ASSUME NEW h \in Calendar!UsFixed
      PROVE  Observed(h[1], h[2])
               <=> \/ Calendar!On(h[1], {h[2]})
                   \/ date.weekday = 0 /\ Calendar!On(h[1], {h[2] + 1})
                   \/ date.weekday = 4 /\ Calendar!On(h[1], {h[2] - 1})
  BY ObservedIs
<1>6. date.day \in Calendar!UsMarketHolidays(y)
        <=> \/ Observed(1, 1) \/ Observed(6, 19) \/ Observed(7, 4) \/ Observed(12, 25)
            \/ Nth(1, 0, 3) \/ Nth(2, 0, 3) \/ Nth(9, 0, 1) \/ Nth(11, 3, 4)
            \/ date.day = Calendar!EasterSunday(y) - 2
            \/ date.day = Calendar!LastWeekdayOfMonth(y, 5, 0)
  BY DEF Calendar!UsMarketHolidays
<1>7. /\ Nth(1, 0, 3) <=> date.weekday = 0 /\ Calendar!On(1, 15..21)
      /\ Nth(2, 0, 3) <=> date.weekday = 0 /\ Calendar!On(2, 15..21)
      /\ Nth(9, 0, 1) <=> date.weekday = 0 /\ Calendar!On(9, 1..7)
      /\ Nth(11, 3, 4) <=> date.weekday = 3 /\ Calendar!On(11, 22..28)
  <2> HIDE DEF Nth
  <2>1. 7 * 3 - 6 = 15 /\ 7 * 3 = 21 /\ 7 * 1 - 6 = 1 /\ 7 * 1 = 7 /\ 7 * 4 - 6 = 22 /\ 7 * 4 = 28
    OBVIOUS
  <2>2. /\ Nth(1, 0, 3) <=> date.weekday = 0 /\ Calendar!On(1, (7 * 3 - 6)..(7 * 3))
        /\ Nth(2, 0, 3) <=> date.weekday = 0 /\ Calendar!On(2, (7 * 3 - 6)..(7 * 3))
        /\ Nth(9, 0, 1) <=> date.weekday = 0 /\ Calendar!On(9, (7 * 1 - 6)..(7 * 1))
        /\ Nth(11, 3, 4) <=> date.weekday = 3 /\ Calendar!On(11, (7 * 4 - 6)..(7 * 4))
    BY <1>2
  <2> QED BY <2>1, <2>2
<1>8. (\E h \in Calendar!UsFixed : Observed(h[1], h[2]))
        <=> Observed(1, 1) \/ Observed(6, 19) \/ Observed(7, 4) \/ Observed(12, 25)
  <2> HIDE DEF Observed
  <2> QED BY DEF Calendar!UsFixed
<1> HIDE DEF Observed, Nth
<1> QED BY <1>3, <1>4, <1>5, <1>6, <1>7, <1>8 DEF Calendar!AmericanHoliday

LEMMA CzechHolidays ==
  ASSUME WalkInv
  PROVE  date.day \in Calendar!CzechMarketHolidays(date.year) <=> Calendar!CzechHoliday
<1> DEFINE y == date.year
<1>1. date.year \in Years
  BY DEF WalkInv
<1>2. date.day = Calendar!EasterSunday(y) - 2 <=> Calendar!EasterIn(2)
  BY 2 \in Int, EasterInIs
<1>3. date.day = Calendar!EasterSunday(y) + 1 <=> Calendar!EasterIn(-1)
  <2> DEFINE easter == Calendar!EasterSunday(y)
  <2>1. Calendar!EasterIn(-1) <=> date.day = easter - (-1)
    BY -1 \in Int, EasterInIs
  <2>2. easter \in Int
    BY <1>1, EasterIsADay
  <2> HIDE DEF easter
  <2>3. easter - (-1) = easter + 1
    BY <2>2
  <2> QED BY <2>1, <2>3 DEF easter
<1>4. ASSUME NEW h \in Calendar!CzechFixed
      PROVE  date.day = Calendar!Date(y, h[1], h[2]) <=> <<date.month, date.dom>> = h
  <2>1. h = <<h[1], h[2]>> /\ h[1] \in 1..12 /\ h[2] \in 1..28
    BY DEF Calendar!CzechFixed
  <2>2. h[2] \in 1..Calendar!DaysInMonth(date.year, h[1])
    BY <1>1, <2>1, MonthsFollow
  <2> QED BY <2>1, <2>2, OnADay
<1> QED BY <1>2, <1>3, <1>4 DEF Calendar!CzechMarketHolidays, Calendar!CzechHoliday

(***************************************************************************)
(* In every year, an exchange is held closed exactly on the weekends and   *)
(* the holidays of the civil calendar: holidays moved off a weekend,       *)
(* counted weekdays, and the days counted from Easter.                     *)
(***************************************************************************)
THEOREM CalendarIsRight ==
  ASSUME Calendar!Parameters
  PROVE  Calendar!Spec => []ClosedWhenDefined
<1>1. Calendar!Init => WalkInv
  BY WalkInit
<1>2. WalkInv /\ [Calendar!Next]_date => WalkInv'
  BY WalkStep
<1>3. WalkInv => ClosedWhenDefined
  <2> SUFFICES ASSUME WalkInv PROVE ClosedWhenDefined
    OBVIOUS
  <2>1. date.weekday = Calendar!Weekday(date.year, date.day) /\ date.weekday \in 0..6
    BY DEF WalkInv
  <2>2. ASSUME NEW x \in {"NYSE", "NASDAQ"}
        PROVE  Calendar!Evaluate(x, date.year, date.day) = "market_closed"
                 <=> date.weekday >= 5 \/ Calendar!AmericanHoliday
    <3>1. PICK c \in {"XNYS", "XNAS"} : Calendar!CalendarOf(x) = {c}
      BY DEF Calendar!CalendarOf
    <3>2. Calendar!IsTradingDay(c, date.year, date.day)
            <=> date.weekday < 5 /\ date.day \notin Calendar!UsMarketHolidays(date.year)
      BY <2>1, <3>1 DEF Calendar!IsTradingDay, Calendar!Holidays
    <3>3. Calendar!Evaluate(x, date.year, date.day) = "market_closed"
            <=> ~Calendar!IsTradingDay(c, date.year, date.day)
      BY <3>1 DEF Calendar!Evaluate
    <3> QED BY <2>1, <3>2, <3>3, AmericanHolidays
  <2>3. Calendar!Evaluate("PSE", date.year, date.day) = "market_closed"
          <=> date.weekday >= 5 \/ Calendar!CzechHoliday
    <3>1. Calendar!CalendarOf("PSE") = {"XPRA"}
      BY DEF Calendar!CalendarOf
    <3>2. Calendar!IsTradingDay("XPRA", date.year, date.day)
            <=> date.weekday < 5 /\ date.day \notin Calendar!CzechMarketHolidays(date.year)
      BY <2>1 DEF Calendar!IsTradingDay, Calendar!Holidays
    <3>3. Calendar!Evaluate("PSE", date.year, date.day) = "market_closed"
            <=> ~Calendar!IsTradingDay("XPRA", date.year, date.day)
      BY <3>1 DEF Calendar!Evaluate
    <3> QED BY <2>1, <3>2, <3>3, CzechHolidays
  <2> QED BY <2>2, <2>3 DEF ClosedWhenDefined, Calendar!ClosedWhenDefined
<1> QED BY <1>1, <1>2, <1>3, PTL DEF Calendar!Spec
=============================================================================
