------------------------------ MODULE DaySchedule ------------------------------
(***************************************************************************)
(* What scheduling the opening loads of a day promises to whoever looks at *)
(* the database, apart from how it keeps the promise: every run shows its  *)
(* jobs and loads at once, only for exchanges that trade; a job appears    *)
(* only where none is active and leaves only by being finished; a load     *)
(* appears once, with a job that is there, and stays as it is.             *)
(*                                                                         *)
(* The scheduler (OpeningLoadScheduler) is shown to implement it.          *)
(***************************************************************************)
CONSTANTS
  Exchanges,  \* the exchanges on record
  Trading,    \* those that trade on the day
  Jobs,       \* the job ids of an exchange
  NoJob       \* the job of no load

VARIABLES
  jobState,   \* exchange -> job id -> "none", "active" or "terminal"
  loadJob     \* exchange -> the job of its load, or NoJob

vars == <<jobState, loadJob>>

Init ==
  /\ jobState = [x \in Exchanges |-> [j \in Jobs |-> "none"]]
  /\ loadJob = [x \in Exchanges |-> NoJob]

\* The jobs of exchange x stay as they are, or it gets one.
Enqueued(x) ==
  \/ jobState'[x] = jobState[x]
  \/ /\ x \in Trading
     /\ \A j \in Jobs : jobState[x][j] # "active"
     /\ \E j \in Jobs : /\ jobState[x][j] = "none"
                        /\ jobState'[x] = [jobState[x] EXCEPT ![j] = "active"]

\* Its load stays as it is, or it gets one.
Loaded(x) ==
  \/ loadJob'[x] = loadJob[x]
  \/ /\ x \in Trading
     /\ loadJob[x] = NoJob
     /\ loadJob'[x] \in Jobs
     /\ jobState'[x][loadJob'[x]] # "none"

\* One run: jobs for some exchanges and loads for some, all at once.
Schedule ==
  /\ jobState' \in [Exchanges -> [Jobs -> {"none", "active", "terminal"}]]
  /\ loadJob' \in [Exchanges -> Jobs \cup {NoJob}]
  /\ \A x \in Exchanges : Enqueued(x) /\ Loaded(x)

\* A job comes to its end.
Finish(x, j) ==
  /\ jobState[x][j] = "active"
  /\ jobState' = [jobState EXCEPT ![x][j] = "terminal"]
  /\ UNCHANGED loadJob

Next ==
  \/ Schedule
  \/ \E x \in Exchanges, j \in Jobs : Finish(x, j)

Spec == Init /\ [][Next]_vars
=============================================================================
