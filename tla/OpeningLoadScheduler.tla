-------------------------- MODULE OpeningLoadScheduler --------------------------
(***************************************************************************)
(* Scheduling the opening loads of one trading day.  The worker daemon does *)
(* it at every tick, every trust-loop command does it first, and the two    *)
(* run at the same time: each run is one transaction under READ COMMITTED,  *)
(* with a savepoint around each insert.                                     *)
(*                                                                          *)
(* A unique index admits one non-terminal job per exchange and day, and     *)
(* another one load.  An insert that meets a row of a transaction still     *)
(* open waits for it to end; one that meets a committed row fails, and the  *)
(* run goes on.  A run that dies is rolled back.                            *)
(***************************************************************************)
EXTENDS Integers, FiniteSets

CONSTANTS
  Exchanges,  \* exchanges, numbered in the order of their codes
  Expected,   \* those the calendar expects to trade today
  Runners,    \* the processes that schedule
  Daemon,     \* the one that ticks forever; the others are commands
  MaxFaults,  \* bound on killed processes and failed statements
  MaxJobs     \* bound on the jobs an exchange gets in the day

ASSUME ExchangesAssumption == Exchanges \subseteq Nat /\ IsFiniteSet(Exchanges)
ASSUME ExpectedAssumption  == Expected \subseteq Exchanges
ASSUME RunnersAssumption   == Daemon \in Runners
ASSUME BoundsAssumption    == MaxFaults \in Nat /\ MaxJobs \in Nat \ {0}

Committed == "committed"
NoRunner  == "nobody"
NoJob     == 0

ASSUME CommittedAssumption == {Committed, NoRunner} \cap Runners = {}

VARIABLES
  active,    \* the exchanges with is_launch_active
  jobs,      \* load_jobs of each exchange's key, by id: state and writer
  loads,     \* exchange_day_load of each exchange: its job and writer
  pc,        \* where each runner is
  todo,      \* the exchanges each runner has still to consider
  job,       \* the job each runner has found for the one it considers
  enqueued,  \* enqueued_count of each run
  existing,  \* skipped_existing_count of each run
  scope,     \* history: how many exchanges each run set out to consider
  faults     \* how many processes were killed or statements failed

tables == <<jobs, loads>>
counts == <<enqueued, existing, scope>>
vars == <<active, tables, pc, todo, job, counts, faults>>

JobIds == 1..MaxJobs
NoJobRow == [state |-> "none", by |-> NoRunner]
NoLoad == [job |-> NoJob, by |-> NoRunner]
Writers == Runners \cup {Committed}

Init ==
  /\ active \in SUBSET Exchanges
  /\ jobs = [x \in Exchanges |-> [j \in JobIds |-> NoJobRow]]
  /\ loads = [x \in Exchanges |-> NoLoad]
  /\ pc = [r \in Runners |-> "idle"]
  /\ todo = [r \in Runners |-> {}]
  /\ job = [r \in Runners |-> NoJob]
  /\ enqueued = [r \in Runners |-> 0]
  /\ existing = [r \in Runners |-> 0]
  /\ scope = [r \in Runners |-> 0]
  /\ faults = 0

-----------------------------------------------------------------------------
(***************************************************************************)
(* What the transaction of runner r sees, and what stops it.               *)
(***************************************************************************)

\* Faulty variants: reads of uncommitted rows; no common order.
Sees_Dirty(r, writer) == writer # NoRunner
IsNext_NoOrder(r, x) ==
  x \in todo[r] /\ \A y \in todo[r] : IF r = Daemon THEN x <= y ELSE y <= x

Sees(r, writer) == writer \in {Committed, r}

\* The exchange r considers: the first of those left, by code.
IsNext(r, x) == x \in todo[r] /\ \A y \in todo[r] : x <= y

Active(x) == {j \in JobIds : jobs[x][j].state = "active"}
FreeIds(x) == {j \in JobIds : jobs[x][j] = NoJobRow}
NewId(x) == CHOOSE j \in FreeIds(x) : TRUE

\* The active jobs of x that r finds.
ActiveSeen(r, x) == {j \in Active(x) : Sees(r, jobs[x][j].by)}

\* The runners whose open transaction r's next insert has to wait for.
WaitsFor(r) ==
  {s \in Runners \ {r} : \E x \in todo[r] :
     /\ IsNext(r, x)
     /\ \/ pc[r] = "insertJob" /\ \E j \in Active(x) : jobs[x][j].by = s
        \/ pc[r] = "insertLoad" /\ loads[x].by = s}

-----------------------------------------------------------------------------
(***************************************************************************)
(* One run.                                                                *)
(***************************************************************************)

Goto(r, label) == pc' = [pc EXCEPT ![r] = label]

\* r is done with exchange x, and turns to the next one.
Leave(r, x) ==
  /\ todo' = [todo EXCEPT ![r] = @ \ {x}]
  /\ job' = [job EXCEPT ![r] = NoJob]
  /\ Goto(r, "check")

Skip(r, x) ==
  /\ Leave(r, x)
  /\ existing' = [existing EXCEPT ![r] = @ + 1]
  /\ UNCHANGED enqueued

\* The run reads the launch-active exchanges, once; those the calendar does
\* not expect to trade are skipped.
StartRun(r) ==
  /\ pc[r] = "idle"
  /\ todo' = [todo EXCEPT ![r] = active \cap Expected]
  /\ enqueued' = [enqueued EXCEPT ![r] = 0]
  /\ existing' = [existing EXCEPT ![r] = 0]
  /\ scope' = [scope EXCEPT ![r] = Cardinality(active \cap Expected)]
  /\ Goto(r, "check")
  /\ UNCHANGED <<active, tables, job, faults>>

\* A faulty variant: an active job is taken for a load.
CheckLoad_ByJob(r, x) ==
  /\ pc[r] = "check"
  /\ IsNext(r, x)
  /\ IF Sees(r, loads[x].by) \/ ActiveSeen(r, x) # {}
     THEN Skip(r, x)
     ELSE Goto(r, "findJob") /\ UNCHANGED <<todo, job, enqueued, existing>>
  /\ UNCHANGED <<active, tables, scope, faults>>

\* An exchange with a load is skipped.
CheckLoad(r, x) ==
  /\ pc[r] = "check"
  /\ IsNext(r, x)
  /\ IF Sees(r, loads[x].by)
     THEN Skip(r, x)
     ELSE Goto(r, "findJob") /\ UNCHANGED <<todo, job, enqueued, existing>>
  /\ UNCHANGED <<active, tables, scope, faults>>

\* An active job of the exchange's key is taken over.
FindJob(r, x) ==
  /\ pc[r] = "findJob"
  /\ IsNext(r, x)
  /\ \/ \E j \in ActiveSeen(r, x) :
          job' = [job EXCEPT ![r] = j] /\ Goto(r, "insertLoad")
     \/ /\ ActiveSeen(r, x) = {}
        /\ Goto(r, "insertJob")
        /\ UNCHANGED job
  /\ UNCHANGED <<active, tables, todo, counts, faults>>

\* A faulty variant: there is no unique index.
InsertJob_NoIndex(r, x) ==
  /\ pc[r] = "insertJob"
  /\ IsNext(r, x)
  /\ FreeIds(x) # {}
  /\ jobs' = [jobs EXCEPT ![x][NewId(x)] = [state |-> "active", by |-> r]]
  /\ job' = [job EXCEPT ![r] = NewId(x)]
  /\ Goto(r, "insertLoad")
  /\ UNCHANGED <<active, loads, todo, counts, faults>>

\* Otherwise a queued job is inserted, unless another run has committed one
\* since: the unique index rejects the insert.
InsertJob(r, x) ==
  /\ pc[r] = "insertJob"
  /\ IsNext(r, x)
  /\ WaitsFor(r) = {}
  /\ \/ /\ Active(x) = {}
        /\ jobs' = [jobs EXCEPT ![x][NewId(x)] = [state |-> "active", by |-> r]]
        /\ job' = [job EXCEPT ![r] = NewId(x)]
        /\ Goto(r, "insertLoad")
     \/ /\ Active(x) # {}
        /\ Goto(r, "findAgain")
        /\ UNCHANGED <<jobs, job>>
  /\ UNCHANGED <<active, loads, todo, counts, faults>>

\* A faulty variant: the job found again is not checked.
FindAgain_Unchecked(r, x) ==
  /\ pc[r] = "findAgain"
  /\ IsNext(r, x)
  /\ job' = [job EXCEPT ![r] = IF ActiveSeen(r, x) = {} THEN NoJob
                               ELSE CHOOSE j \in ActiveSeen(r, x) : TRUE]
  /\ Goto(r, "insertLoad")
  /\ UNCHANGED <<active, tables, todo, counts, faults>>

\* After the rejection the other run's job is taken over; if that one has
\* ended in between, the exchange is left for a later run.
FindAgain(r, x) ==
  /\ pc[r] = "findAgain"
  /\ IsNext(r, x)
  /\ \/ /\ \E j \in ActiveSeen(r, x) : job' = [job EXCEPT ![r] = j]
        /\ Goto(r, "insertLoad")
        /\ UNCHANGED <<todo, enqueued, existing>>
     \/ ActiveSeen(r, x) = {} /\ Skip(r, x)
  /\ UNCHANGED <<active, tables, scope, faults>>

\* Faulty variants: a load lost to another run is counted as enqueued; it is
\* overwritten.
InsertLoad_CountsLost(r, x) ==
  /\ pc[r] = "insertLoad"
  /\ IsNext(r, x)
  /\ WaitsFor(r) = {}
  /\ loads' = IF loads[x] = NoLoad
              THEN [loads EXCEPT ![x] = [job |-> job[r], by |-> r]] ELSE loads
  /\ enqueued' = [enqueued EXCEPT ![r] = @ + 1]
  /\ Leave(r, x)
  /\ UNCHANGED <<active, jobs, existing, scope, faults>>
InsertLoad_Overwrites(r, x) ==
  /\ pc[r] = "insertLoad"
  /\ IsNext(r, x)
  /\ WaitsFor(r) = {}
  /\ loads' = [loads EXCEPT ![x] = [job |-> job[r], by |-> r]]
  /\ enqueued' = [enqueued EXCEPT ![r] = @ + 1]
  /\ Leave(r, x)
  /\ UNCHANGED <<active, jobs, existing, scope, faults>>

\* The load is inserted with its job, unless another run has committed one.
InsertLoad(r, x) ==
  /\ pc[r] = "insertLoad"
  /\ IsNext(r, x)
  /\ WaitsFor(r) = {}
  /\ \/ /\ loads[x] = NoLoad
        /\ loads' = [loads EXCEPT ![x] = [job |-> job[r], by |-> r]]
        /\ enqueued' = [enqueued EXCEPT ![r] = @ + 1]
        /\ Leave(r, x)
        /\ UNCHANGED existing
     \/ /\ loads[x] # NoLoad
        /\ Skip(r, x)
        /\ UNCHANGED loads
  /\ UNCHANGED <<active, jobs, scope, faults>>

\* The insert of the load fails with an OperationalError, also while it
\* waits.  It is retried without the counters, which have no server default
\* any more: the NOT NULL constraint rejects the retry at once, and the
\* exchange is skipped as if it had a load.
InsertLoadFails(r, x) ==
  /\ pc[r] = "insertLoad"
  /\ IsNext(r, x)
  /\ faults < MaxFaults
  /\ faults' = faults + 1
  /\ Skip(r, x)
  /\ UNCHANGED <<active, tables, scope>>

\* The single commit of the run.
Commit(r) ==
  /\ pc[r] = "check"
  /\ todo[r] = {}
  /\ jobs' = [x \in Exchanges |-> [j \in JobIds |->
                IF jobs[x][j].by = r THEN [jobs[x][j] EXCEPT !.by = Committed]
                ELSE jobs[x][j]]]
  /\ loads' = [x \in Exchanges |->
                IF loads[x].by = r THEN [loads[x] EXCEPT !.by = Committed]
                ELSE loads[x]]
  /\ Goto(r, "idle")
  /\ UNCHANGED <<active, todo, job, counts, faults>>

\* The process of r is killed, or dies of an error nobody catches: its
\* transaction is rolled back.
Die(r) ==
  /\ pc[r] # "dead"
  /\ faults < MaxFaults
  /\ faults' = faults + 1
  /\ jobs' = [x \in Exchanges |-> [j \in JobIds |->
                IF jobs[x][j].by = r THEN NoJobRow ELSE jobs[x][j]]]
  /\ loads' = [x \in Exchanges |-> IF loads[x].by = r THEN NoLoad ELSE loads[x]]
  /\ todo' = [todo EXCEPT ![r] = {}]
  /\ job' = [job EXCEPT ![r] = NoJob]
  /\ Goto(r, "dead")
  /\ UNCHANGED <<active, counts>>

-----------------------------------------------------------------------------
(***************************************************************************)
(* What happens around the runs.                                           *)
(***************************************************************************)

\* The process is started again.
Restart(r) ==
  /\ pc[r] = "dead"
  /\ Goto(r, "idle")
  /\ UNCHANGED <<active, tables, todo, job, counts, faults>>

\* An administrator changes which exchanges are launch-active.
ChangeScope(requested) ==
  /\ active' = requested
  /\ UNCHANGED <<tables, pc, todo, job, counts, faults>>

\* Whoever executes the jobs brings a committed one to a terminal state (not
\* when no id is left for its successor: the bound never stops an insert).
FinishJob(x, j) ==
  /\ j \in Active(x)
  /\ jobs[x][j].by = Committed
  /\ FreeIds(x) # {}
  /\ jobs' = [jobs EXCEPT ![x][j].state = "terminal"]
  /\ UNCHANGED <<active, loads, pc, todo, job, counts, faults>>

-----------------------------------------------------------------------------
Advance(r) ==
  \/ \E x \in Exchanges : \/ CheckLoad(r, x)
                          \/ FindJob(r, x)
                          \/ InsertJob(r, x)
                          \/ FindAgain(r, x)
                          \/ InsertLoad(r, x)
  \/ Commit(r)

Next ==
  \/ \E r \in Runners : \/ StartRun(r)
                        \/ Advance(r)
                        \/ \E x \in Exchanges : InsertLoadFails(r, x)
                        \/ Die(r)
                        \/ Restart(r)
  \/ \E requested \in SUBSET Exchanges : ChangeScope(requested)
  \/ \E x \in Exchanges : \E j \in Active(x) : FinishJob(x, j)

\* A run that has begun goes on to its commit, and the daemon ticks again;
\* nobody promises to start a command, to restart a process or to finish a
\* job.
Fairness == WF_vars(StartRun(Daemon)) /\ \A r \in Runners : WF_vars(Advance(r))

Spec == Init /\ [][Next]_vars /\ Fairness

-----------------------------------------------------------------------------
(***************************************************************************)
(* Properties.                                                             *)
(***************************************************************************)

JobRow == [state : {"active", "terminal"}, by : Writers] \cup {NoJobRow}

\* Every variable stays in its domain.
TypeOK ==
  /\ active \in SUBSET Exchanges
  /\ jobs \in [Exchanges -> [JobIds -> JobRow]]
  /\ loads \in [Exchanges -> [job : JobIds, by : Writers] \cup {NoLoad}]
  /\ pc \in [Runners -> {"idle", "check", "findJob", "insertJob", "findAgain",
                         "insertLoad", "dead"}]
  /\ todo \in [Runners -> SUBSET Exchanges]
  /\ job \in [Runners -> JobIds \cup {NoJob}]
  /\ enqueued \in [Runners -> Nat]
  /\ existing \in [Runners -> Nat]
  /\ scope \in [Runners -> Nat]
  /\ faults \in 0..MaxFaults

\* A committed load refers to a committed job of its own exchange, even when
\* the run that inserted the job and the one that inserted the load are not
\* the same, and either may have been rolled back.
LoadHasCommittedJob ==
  \A x \in Exchanges :
    loads[x].by = Committed => jobs[x][loads[x].job].by = Committed

\* "Use locks to prevent duplicate active jobs for the same unit of work": two
\* runs that both found no active job never leave two of them, committed or
\* about to be.
OneActiveJob == \A x \in Exchanges : Cardinality(Active(x)) <= 1

\* Runs that wait for each other's uncommitted rows never do so in a circle,
\* whatever exchanges each of them saw as active: they all go through the
\* exchanges in one order, the job before the load.
NoWaitingCycle ==
  \A waiting \in (SUBSET Runners) \ {{}} :
    \E r \in waiting : WaitsFor(r) \cap waiting = {}

\* The counts a run reports at its commit are the facts: as many exchanges
\* were enqueued as loads are committed by it, and every exchange it set out
\* to consider was either enqueued or skipped.
ReportMatchesTables ==
  \A r \in Runners :
    pc[r] = "check" /\ todo[r] = {} =>
      /\ enqueued[r] = Cardinality({x \in Exchanges : loads[x].by = r})
      /\ enqueued[r] + existing[r] = scope[r]

\* A load, once committed, is never replaced, reassigned or lost by a run that
\* lost the race for it or died.
LoadIsKept ==
  [][\A x \in Exchanges : loads[x].by = Committed => loads'[x] = loads[x]]_vars

\* The committed rows, as everybody else sees them.
CommittedJobs ==
  [x \in Exchanges |-> [j \in JobIds |->
     IF jobs[x][j].by = Committed THEN jobs[x][j].state ELSE "none"]]
CommittedLoads ==
  [x \in Exchanges |-> IF loads[x].by = Committed THEN loads[x].job ELSE NoJob]

Schedule == INSTANCE DaySchedule
  WITH Trading <- Expected, Jobs <- JobIds,
       jobState <- CommittedJobs, loadJob <- CommittedLoads

\* What the committed tables say at any time is what the abstract schedule
\* promises: whatever a run inserts shows at its commit, all at once and only
\* for exchanges that trade; what a lost race, a failed insert or a killed run
\* leaves behind shows nowhere; and nothing committed changes but by a job's end.
ImplementsSchedule == Schedule!Spec

\* Again and again every exchange that trades today and is in scope has its load,
\* whatever races were lost, runs killed, and jobs left behind without a load, as
\* long as the daemon stays up.
EventuallyLoaded ==
  []<>(\/ pc[Daemon] = "dead"
       \/ \A x \in Expected \cap active : loads[x].by = Committed)

-----------------------------------------------------------------------------
\* Claims of the documents and comments that the code does not keep: TLC refutes
\* each of them (README, "Where the code and its documents disagree").

\* "Repeated scheduler runs do not create duplicate opening-load jobs for the
\* same exchange/day": an exchange whose load is committed has no committed
\* job to be done but the one its load refers to.
NoJobBesideTheLoad ==
  \A x \in Exchanges :
    loads[x].by = Committed =>
      \A j \in Active(x) : jobs[x][j].by = Committed => j = loads[x].job
=============================================================================
