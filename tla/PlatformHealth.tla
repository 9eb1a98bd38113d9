---------------------------- MODULE PlatformHealth ----------------------------
\* The worker daemon, its heartbeats, and the operator's health report with the
\* gauges it leaves behind.  The daemon beats twice and then schedules, each in a
\* transaction of its own; the report is made from three reads of the database.
\*
\* Time is counted in units shorter than a poll; TickTime bounds how long a tick of
\* the daemon takes, which nothing in the code does.
EXTENDS Integers, FiniteSets

CONSTANTS
  Poll,            \* worker_poll_seconds
  WorkerStale, SchedulerStale, QueueStale,   \* ages above these are stale
  TickTime,        \* bound on the duration of a tick of the daemon
  MaxTime,         \* bound on the clock
  MaxPending,      \* bound on the jobs in the queue
  MaxFaults, MaxRequests   \* bounds on kills and outages, and on requests

Windows ==
  /\ {Poll, WorkerStale, SchedulerStale, QueueStale, TickTime, MaxTime, MaxPending, MaxFaults, MaxRequests} \subseteq Nat
  /\ Poll + 2 * TickTime <= WorkerStale /\ WorkerStale <= SchedulerStale

VARIABLES
  now,
  up,         \* does the database answer
  daemon,     \* [at, since]: where it is in its tick, and since when
  steady,     \* history: it has beaten twice, and neither died nor lost the database since
  beats,      \* role -> its heartbeat, or Never
  pending,    \* creation times of the queued and retry_wait jobs
  request,    \* the health request the API is answering
  report,     \* the answer to the last request
  count,      \* history: faults and requests so far, for the bounds
  gauges      \* what the metrics store of the API process holds of the queue
vars == <<now, up, daemon, steady, beats, pending, request, report, count, gauges>>

Never == -1
NoAge == -1
NoRequest == [at |-> "none"]
NoReport == [status |-> "none"]
Roles == {"worker", "scheduler"}

Init ==
  /\ now = 0
  /\ up = TRUE
  /\ daemon = [at |-> "beat worker", since |-> 0]
  /\ steady = FALSE
  /\ beats = [r \in Roles |-> Never]
  /\ pending = {}
  /\ request = NoRequest
  /\ report = NoReport
  /\ count = [faults |-> 0, requests |-> 0]
  /\ gauges = [depth |-> 0, age |-> NoAge]

\* --------------------------------------------------------------- the environment

InTick == daemon.at \notin {"sleeping", "dead"}
Overdue ==
  \/ daemon.at = "sleeping" /\ now >= daemon.since + Poll
  \/ InTick /\ now >= daemon.since + TickTime

\* Time does not run past the end of a sleep, nor past the bound of a tick.
Tick ==
  /\ now < MaxTime /\ ~Overdue
  /\ now' = now + 1
  /\ UNCHANGED <<up, daemon, steady, beats, pending, request, report, gauges, count>>

Fault ==
  /\ count.faults < MaxFaults
  /\ count' = [count EXCEPT !.faults = @ + 1]

Database(answers) ==
  /\ up # answers
  /\ up' = answers
  /\ IF answers THEN UNCHANGED count ELSE Fault
  /\ steady' = (steady /\ answers)
  /\ UNCHANGED <<now, daemon, beats, pending, request, report, gauges>>

\* Jobs leave the queue: a worker takes them, or an operator cancels them.
TakeJob(created) ==
  /\ pending' = pending \ {created}
  /\ UNCHANGED <<now, up, daemon, steady, beats, request, report, gauges, count>>

\* -------------------------------------------------------------------- the daemon

Goto(place) == daemon' = [daemon EXCEPT !.at = place]

WakeUp ==
  /\ daemon.at = "sleeping" /\ now >= daemon.since + Poll
  /\ daemon' = [at |-> "beat worker", since |-> now]
  /\ UNCHANGED <<now, up, steady, beats, pending, request, report, gauges, count>>

\* A faulty variant: an existing heartbeat is left alone.
Upsert_InsertOnly(role) == [beats EXCEPT ![role] = IF @ = Never THEN now ELSE @]
Upsert(role) == [beats EXCEPT ![role] = now]

\* A heartbeat that cannot be written is skipped, and the second one with the first.
Beat(role, place, next) ==
  /\ daemon.at = place
  /\ IF up THEN beats' = Upsert(role) /\ Goto(next)
           ELSE Goto("scheduling") /\ UNCHANGED beats
  /\ steady' = (steady \/ (up /\ role = "scheduler"))
  /\ UNCHANGED <<now, up, pending, request, report, gauges, count>>

BeatWorker    == Beat("worker", "beat worker", "beat scheduler")
BeatScheduler == Beat("scheduler", "beat scheduler", "scheduling")

\* The scheduler may add a job.  Its database errors are caught by nobody.
Schedule(jobs) ==
  /\ daemon.at = "scheduling" /\ Cardinality(pending \cup jobs) <= MaxPending
  /\ IF up THEN /\ daemon' = [at |-> "sleeping", since |-> now]
                /\ pending' = pending \cup jobs
           ELSE daemon' = [at |-> "dead", since |-> now] /\ UNCHANGED pending
  /\ UNCHANGED <<now, up, steady, beats, request, report, gauges, count>>

Kill ==
  /\ daemon.at # "dead" /\ Fault
  /\ daemon' = [at |-> "dead", since |-> now]
  /\ steady' = FALSE
  /\ UNCHANGED <<now, up, beats, pending, request, report, gauges>>

Restart ==
  /\ daemon.at = "dead"
  /\ daemon' = [at |-> "beat worker", since |-> now]
  /\ UNCHANGED <<now, up, steady, beats, pending, request, report, gauges, count>>

\* ------------------------------------------------------------- the health request

Ask ==
  /\ request = NoRequest /\ count.requests < MaxRequests
  /\ count' = [count EXCEPT !.requests = @ + 1]
  /\ IF up THEN /\ request' = [at |-> "heartbeats", now |-> now, steady |-> FALSE, beats |-> beats]
                /\ report' = NoReport /\ UNCHANGED gauges
     ELSE /\ report' = [status |-> "error", database |-> FALSE]
          /\ gauges' = [gauges EXCEPT !.depth = 0]
          /\ UNCHANGED request
  /\ UNCHANGED <<now, up, daemon, steady, beats, pending>>

\* The database failed between two reads.
LoseDatabase ==
  /\ request # NoRequest /\ ~up
  /\ request' = NoRequest
  /\ report' = [status |-> "error", database |-> FALSE]
  /\ gauges' = [gauges EXCEPT !.depth = 0]
  /\ UNCHANGED <<now, up, daemon, steady, beats, pending, count>>

ReadHeartbeats ==
  /\ request.at = "heartbeats" /\ up
  /\ request' = [request EXCEPT !.at = "queue", !.beats = beats, !.steady = steady]
  /\ UNCHANGED <<now, up, daemon, steady, beats, pending, report, gauges, count>>

HeartbeatState(beat, at, staleAfter) ==
  IF beat = Never THEN "missing" ELSE IF at - beat > staleAfter THEN "stale" ELSE "ok"

OldestAge(at) ==
  IF pending = {} THEN NoAge
  ELSE LET oldest == CHOOSE c \in pending : \A d \in pending : c <= d
       IN IF at > oldest THEN at - oldest ELSE 0

QueueState(age) ==
  IF pending = {} THEN "empty" ELSE IF age > QueueStale THEN "stale" ELSE "ok"

\* A faulty variant: the scheduler's heartbeat stands for both roles.
Healthy_SchedulerOnly(worker, scheduler, queue) == scheduler = "ok" /\ queue # "stale"
Healthy(worker, scheduler, queue) == worker = "ok" /\ scheduler = "ok" /\ queue # "stale"

Answer ==
  /\ request.at = "queue" /\ up
  /\ LET worker    == HeartbeatState(request.beats["worker"], request.now, WorkerStale)
         scheduler == HeartbeatState(request.beats["scheduler"], request.now, SchedulerStale)
         age       == OldestAge(request.now)
         healthy   == Healthy(worker, scheduler, QueueState(age))
     IN /\ report' = [status |-> IF healthy THEN "ok" ELSE "error", database |-> TRUE,
                      worker |-> worker, scheduler |-> scheduler,
                      queue |-> QueueState(age), depth |-> Cardinality(pending), age |-> age]
        /\ gauges' = [depth |-> Cardinality(pending),
                      age |-> IF age = NoAge THEN gauges.age ELSE age]
  /\ request' = NoRequest
  /\ UNCHANGED <<now, up, daemon, steady, beats, pending, count>>

Next ==
  \/ Tick \/ \E answers \in BOOLEAN : Database(answers)
  \/ \E created \in pending : TakeJob(created)
  \/ WakeUp \/ BeatWorker \/ BeatScheduler \/ \E jobs \in {{}, {now}} : Schedule(jobs)
  \/ Kill \/ Restart
  \/ Ask \/ LoseDatabase \/ ReadHeartbeats \/ Answer

Spec == Init /\ [][Next]_vars

-------------------------------------------------------------------------------
\* A daemon that has been dead for longer than the worker's window is reported:
\* no report made from a later clock says all is well, whatever the jobs and the
\* scheduler's longer window say, and however the reads are spread.
DeadDaemonReported ==
  [][Answer /\ daemon.at = "dead" /\ request.now - daemon.since > WorkerStale
       => report'.status = "error"]_vars

\* A daemon that has beaten for both roles, and has not died or lost the database
\* since, is never reported stale or missing when ticks keep to TickTime: the window
\* covers a sleep and a slow tick at either end of it, whatever the order of the reads.
LiveDaemonIsNoAlarm ==
  [][Answer /\ request.steady => report'.worker = "ok" /\ report'.scheduler = "ok"]_vars

-----------------------------------------------------------------------------
\* Claims of the documents and comments that the code does not keep: TLC refutes
\* each of them (README, "Where the code and its documents disagree").

\* "Queue depth or oldest pending job age is reported from job records": the gauges
\* say what the report says.  The age of a queue that has emptied stays.
GaugesMatchReport ==
  report.status # "none" /\ report.database =>
    gauges.depth = report.depth /\ gauges.age = report.age

\* "Heartbeats are best-effort so local/dev ticks can run without a database": a tick
\* without one does not end the daemon.  It does, at the scheduling that follows.
TickSurvivesOutage ==
  [][\A jobs \in {{}, {now}} : Schedule(jobs) => daemon'.at # "dead"]_vars
===============================================================================
