--------------------------- MODULE LoadJobLifecycle ---------------------------
(***************************************************************************)
(* The jobs of load_jobs through their seven states.  Three parts of the   *)
(* code have to agree on which jobs are over: the transition table, the    *)
(* set of terminal states the scheduler filters by, and the partial unique *)
(* index that keeps a second job of a key out as long as one is not over.  *)
(*                                                                         *)
(* Nothing in the repository executes jobs yet; whoever does is bound to   *)
(* the transition table.                                                   *)
(***************************************************************************)
EXTENDS Integers, Sequences, FiniteSets

CONSTANTS
  Keys,     \* idempotency keys
  MaxJobs   \* bound on the jobs of one key

State == {"queued", "running", "retry_wait", "succeeded", "failed",
          "cancelled", "stale_abandoned"}
Terminal == {"succeeded", "failed", "cancelled"}

\* The states the index ignores.
Unindexed == {"succeeded", "failed", "cancelled"}

VARIABLE jobs   \* key -> the states of its jobs, in the order of their ids

Init == jobs = [k \in Keys |-> << >>]

\* A faulty variant: a failed job may be queued again.
Allowed_Requeue ==
  {<<"queued", s>> : s \in {"running", "cancelled"}}
    \cup {<<"running", s>> : s \in Terminal \cup {"retry_wait", "stale_abandoned"}}
    \cup {<<"retry_wait", s>> : s \in {"queued", "failed", "cancelled", "stale_abandoned"}}
    \cup {<<"stale_abandoned", s>> : s \in {"queued", "failed", "cancelled"}}
    \cup {<<"failed", "queued">>}

Allowed ==
  {<<"queued", s>> : s \in {"running", "cancelled"}}
    \cup {<<"running", s>> : s \in Terminal \cup {"retry_wait", "stale_abandoned"}}
    \cup {<<"retry_wait", s>> : s \in {"queued", "failed", "cancelled", "stale_abandoned"}}
    \cup {<<"stale_abandoned", s>> : s \in {"queued", "failed", "cancelled"}}

\* A state may always be set again to itself.
CanTransition(s, t) == s = t \/ <<s, t>> \in Allowed

Live(k) == {j \in DOMAIN jobs[k] : jobs[k][j] \notin Terminal}

\* What the unique index admits.
FitsIndex(table) ==
  \A k \in Keys : Cardinality({j \in DOMAIN table[k] : table[k][j] \notin Unindexed}) <= 1

\* The scheduler inserts a job for a key whose jobs are all over; a
\* concurrent insert is rejected by the index.
Enqueue(k) ==
  /\ Len(jobs[k]) < MaxJobs
  /\ Live(k) = {}
  /\ jobs' = [jobs EXCEPT ![k] = Append(@, "queued")]

Transition(k, j, s) ==
  /\ CanTransition(jobs[k][j], s)
  /\ jobs' = [jobs EXCEPT ![k][j] = s]

Next ==
  \E k \in Keys :
    \/ Enqueue(k)
    \/ \E j \in DOMAIN jobs[k], s \in State : Transition(k, j, s)

Spec == Init /\ [][Next]_jobs

-----------------------------------------------------------------------------
(***************************************************************************)
(* Properties.                                                             *)
(***************************************************************************)

\* No transition the table allows can be rejected by the index, whatever
\* other jobs its key has had before or has now: an executor never meets an
\* IntegrityError where the table let it go ahead.
AllowedFitsIndex ==
  \A k \in Keys : \A j \in DOMAIN jobs[k], s \in State :
    CanTransition(jobs[k][j], s) => FitsIndex([jobs EXCEPT ![k][j] = s])
=============================================================================
