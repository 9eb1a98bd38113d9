---------------------- MODULE OpeningLoadSchedulerProofs ----------------------
(***************************************************************************)
(* Proofs about OpeningLoadScheduler, for every finite set of exchanges,   *)
(* any set of runners and any bounds.                                      *)
(*                                                                         *)
(* What a runner holds uncommitted lies behind it: rows of exchanges it    *)
(* has passed, and at most the job of the one it is at (RowsBehind).  From *)
(* this follow that nobody waits in a circle, because whoever is waited    *)
(* for is ahead of whoever waits, and that the counts of a run are those   *)
(* of its rows.  JobsFit says of every load, committed or not, that its    *)
(* job is there for whoever sees the load.                                 *)
(***************************************************************************)
EXTENDS OpeningLoadScheduler, FiniteSetTheorems, WellFoundedInduction, TLAPS

-----------------------------------------------------------------------------
(***************************************************************************)
(* The inductive invariants.                                               *)
(***************************************************************************)

\* Runner r is in a run and has left exchange x behind.
Passed(r, x) == pc[r] \notin {"idle", "dead"} /\ \A y \in todo[r] : x < y

\* It has the job of x and is about to insert the load.
AtLoad(r, x) == pc[r] = "insertLoad" /\ IsNext(r, x)

RowsBehind ==
  \A r \in Runners, x \in Exchanges :
    /\ loads[x].by = r => Passed(r, x)
    /\ \A j \in JobIds : jobs[x][j].by = r => Passed(r, x) \/ AtLoad(r, x)

JobsFit ==
  \A x \in Exchanges :
    /\ \A r \in Runners : AtLoad(r, x) => job[r] \in JobIds /\ Sees(r, jobs[x][job[r]].by)
    /\ \A r \in Runners : loads[x].by = r => Sees(r, jobs[x][loads[x].job].by)
    /\ loads[x].by = Committed => jobs[x][loads[x].job].by = Committed

\* One job is active, or an id is left for one.
RoomForOne ==
  \A x \in Exchanges :
    /\ \A j, k \in Active(x) : j = k
    /\ Active(x) = {} => FreeIds(x) # {}

\* The loads a runner has inserted and not committed.
LoadsBy(r) == {x \in Exchanges : loads[x].by = r}

CountsFit ==
  \A r \in Runners :
    pc[r] \notin {"idle", "dead"} =>
      /\ enqueued[r] = Cardinality(LoadsBy(r))
      /\ enqueued[r] + existing[r] + Cardinality(todo[r]) = scope[r]

-----------------------------------------------------------------------------
(***************************************************************************)
(* Type correctness.                                                       *)
(***************************************************************************)

\* The marks of committed and missing rows are no runners.
LEMMA MarksAreNoRunners ==
  /\ Committed \notin Runners /\ NoRunner \notin Runners
  /\ Committed # NoRunner
  /\ NoLoad.by = NoRunner /\ NoJobRow.by = NoRunner
BY CommittedAssumption DEF Committed, NoRunner, NoLoad, NoJobRow

LEMMA FiniteTodo ==
  ASSUME TypeOK, NEW r \in Runners
  PROVE  IsFiniteSet(todo[r]) /\ Cardinality(todo[r]) \in Nat
BY ExchangesAssumption, FS_Subset, FS_CardinalityType DEF TypeOK

\* The end of a run leaves no load marked with its runner, and the others as they are.
LEMMA LoadsLetGo ==
  ASSUME TypeOK, NEW r \in Runners, Commit(r) \/ Die(r), NEW y \in Exchanges
  PROVE  IF loads[y].by = r THEN loads'[y].by \in {Committed, NoRunner}
         ELSE loads'[y] = loads[y]
<1>1. CASE loads[y].by = r
  <2>1. loads[y] \in [job : JobIds, by : Writers]
    BY <1>1, MarksAreNoRunners DEF TypeOK
  <2>2. [loads[y] EXCEPT !.by = Committed].by = Committed
    BY <2>1
  <2>3. loads'[y] = [loads[y] EXCEPT !.by = Committed] \/ loads'[y] = NoLoad
    BY <1>1 DEF Commit, Die
  <2>4. QED
    BY <1>1, <2>2, <2>3, MarksAreNoRunners
<1>2. CASE loads[y].by # r
  BY <1>2 DEF Commit, Die
<1>3. QED
  BY <1>1, <1>2

\* A skipped exchange leaves all variables in their domains.
LEMMA SkipTypeOK ==
  ASSUME TypeOK, NEW r \in Runners, NEW x \in Exchanges, Skip(r, x)
  PROVE  /\ pc' \in [Runners -> {"idle", "check", "findJob", "insertJob", "findAgain",
                                 "insertLoad", "dead"}]
         /\ todo' \in [Runners -> SUBSET Exchanges]
         /\ job' \in [Runners -> JobIds \cup {NoJob}]
         /\ existing' \in [Runners -> Nat]
         /\ enqueued' = enqueued
BY DEF TypeOK, Skip, Leave, Goto

LEMMA InitTypeOK == Init => TypeOK
BY BoundsAssumption DEF Init, TypeOK, JobRow, NoJobRow

LEMMA NextTypeOK == TypeOK /\ RoomForOne /\ JobsFit /\ [Next]_vars => TypeOK'
<1>1. SUFFICES ASSUME TypeOK, RoomForOne, JobsFit, [Next]_vars PROVE TypeOK'
  OBVIOUS
<1> USE DEF tables, counts
<1>2. ASSUME NEW r \in Runners, StartRun(r) PROVE TypeOK'
  <2>1. active \cap Expected \subseteq Exchanges
    BY <1>1 DEF TypeOK
  <2>2. Cardinality(active \cap Expected) \in Nat
    BY <2>1, ExchangesAssumption, FS_Subset, FS_CardinalityType
  <2>3. QED
    BY <1>1, <1>2, <2>1, <2>2 DEF StartRun, Goto, TypeOK
<1>3. ASSUME NEW r \in Runners, NEW x \in Exchanges, CheckLoad(r, x) PROVE TypeOK'
  <2>1. CASE Sees(r, loads[x].by)
    BY <1>1, <1>3, <2>1, SkipTypeOK DEF CheckLoad, TypeOK
  <2>2. CASE ~Sees(r, loads[x].by)
    BY <1>1, <1>3, <2>2 DEF CheckLoad, Goto, TypeOK
  <2>3. QED
    BY <2>1, <2>2
<1>4. ASSUME NEW r \in Runners, NEW x \in Exchanges, FindJob(r, x) PROVE TypeOK'
  <2>1. ActiveSeen(r, x) \subseteq JobIds
    BY DEF ActiveSeen, Active
  <2>2. QED
    BY <1>1, <1>4, <2>1 DEF FindJob, Goto, TypeOK
<1>5. ASSUME NEW r \in Runners, NEW x \in Exchanges, InsertJob(r, x) PROVE TypeOK'
  <2>1. CASE Active(x) = {}
    <3>1. NewId(x) \in JobIds
      BY <1>1, <2>1 DEF RoomForOne, NewId, FreeIds
    <3>2. [state |-> "active", by |-> r] \in JobRow
      BY DEF JobRow, Writers
    <3>3. jobs' = [jobs EXCEPT ![x][NewId(x)] = [state |-> "active", by |-> r]]
      BY <1>5, <2>1 DEF InsertJob
    <3>4. jobs' \in [Exchanges -> [JobIds -> JobRow]]
      BY <1>1, <3>1, <3>2, <3>3 DEF TypeOK
    <3>5. job' \in [Runners -> JobIds \cup {NoJob}]
      BY <1>1, <1>5, <2>1, <3>1 DEF InsertJob, TypeOK
    <3>6. QED
      BY <1>1, <1>5, <3>4, <3>5 DEF InsertJob, Goto, TypeOK
  <2>2. CASE Active(x) # {}
    BY <1>1, <1>5, <2>2 DEF InsertJob, Goto, TypeOK
  <2>3. QED
    BY <2>1, <2>2
<1>6. ASSUME NEW r \in Runners, NEW x \in Exchanges, FindAgain(r, x) PROVE TypeOK'
  <2>1. ActiveSeen(r, x) \subseteq JobIds
    BY DEF ActiveSeen, Active
  <2>2. CASE ActiveSeen(r, x) = {}
    BY <1>1, <1>6, <2>2, SkipTypeOK DEF FindAgain, TypeOK
  <2>3. CASE ActiveSeen(r, x) # {}
    BY <1>1, <1>6, <2>1, <2>3 DEF FindAgain, Goto, TypeOK
  <2>4. QED
    BY <2>2, <2>3
<1>7. ASSUME NEW r \in Runners, NEW x \in Exchanges, InsertLoad(r, x) PROVE TypeOK'
  <2>1. CASE loads[x] = NoLoad
    <3>1. [job |-> job[r], by |-> r] \in [job : JobIds, by : Writers]
      BY <1>1, <1>7 DEF InsertLoad, JobsFit, AtLoad, Writers
    <3>2. loads' \in [Exchanges -> [job : JobIds, by : Writers] \cup {NoLoad}]
      BY <1>1, <1>7, <2>1, <3>1 DEF InsertLoad, TypeOK
    <3>3. enqueued' \in [Runners -> Nat]
      BY <1>1, <1>7, <2>1 DEF InsertLoad, TypeOK
    <3>4. Leave(r, x) /\ UNCHANGED <<active, jobs, existing, scope, faults>>
      BY <1>7, <2>1 DEF InsertLoad
    <3>5. QED
      BY <1>1, <3>2, <3>3, <3>4 DEF Leave, Goto, TypeOK
  <2>2. CASE loads[x] # NoLoad
    BY <1>1, <1>7, <2>2, SkipTypeOK DEF InsertLoad, TypeOK
  <2>3. QED
    BY <2>1, <2>2
<1>8. ASSUME NEW r \in Runners, NEW x \in Exchanges, InsertLoadFails(r, x) PROVE TypeOK'
  <2>1. faults' \in 0..MaxFaults
    BY <1>1, <1>8, BoundsAssumption DEF InsertLoadFails, TypeOK
  <2>2. QED
    BY <1>1, <1>8, <2>1, SkipTypeOK DEF InsertLoadFails, TypeOK
<1>9. ASSUME NEW r \in Runners, Commit(r) PROVE TypeOK'
  <2>1. jobs' \in [Exchanges -> [JobIds -> JobRow]]
    <3>1. \A x \in Exchanges, j \in JobIds :
            jobs[x][j].by = r => [jobs[x][j] EXCEPT !.by = Committed] \in JobRow
      BY <1>1, MarksAreNoRunners DEF TypeOK, JobRow, Writers
    <3>2. QED
      BY <1>1, <1>9, <3>1 DEF Commit, TypeOK
  <2>2. loads' \in [Exchanges -> [job : JobIds, by : Writers] \cup {NoLoad}]
    BY <1>1, <1>9, MarksAreNoRunners DEF Commit, TypeOK, Writers
  <2>3. QED
    BY <1>1, <1>9, <2>1, <2>2 DEF Commit, Goto, TypeOK
<1>10. ASSUME NEW r \in Runners, Die(r) PROVE TypeOK'
  <2>1. jobs' \in [Exchanges -> [JobIds -> JobRow]]
    BY <1>1, <1>10 DEF Die, TypeOK, JobRow
  <2>2. loads' \in [Exchanges -> [job : JobIds, by : Writers] \cup {NoLoad}]
    BY <1>1, <1>10 DEF Die, TypeOK
  <2>3. faults' \in 0..MaxFaults
    BY <1>1, <1>10, BoundsAssumption DEF Die, TypeOK
  <2>4. QED
    BY <1>1, <1>10, <2>1, <2>2, <2>3 DEF Die, Goto, TypeOK
<1>11. ASSUME NEW r \in Runners, Restart(r) PROVE TypeOK'
  BY <1>1, <1>11 DEF Restart, Goto, TypeOK
<1>12. ASSUME NEW requested \in SUBSET Exchanges, ChangeScope(requested) PROVE TypeOK'
  BY <1>1, <1>12 DEF ChangeScope, TypeOK
<1>13. ASSUME NEW x \in Exchanges, NEW j \in Active(x), FinishJob(x, j) PROVE TypeOK'
  <2>1. j \in JobIds
    BY DEF Active
  <2>2. [jobs[x][j] EXCEPT !.state = "terminal"] \in JobRow
    BY <1>1, <1>13, <2>1 DEF Active, TypeOK, JobRow, NoJobRow
  <2>3. jobs' \in [Exchanges -> [JobIds -> JobRow]]
    BY <1>1, <1>13, <2>1, <2>2 DEF FinishJob, TypeOK
  <2>4. QED
    BY <1>1, <1>13, <2>3 DEF FinishJob, TypeOK
<1>14. CASE UNCHANGED vars
  BY <1>1, <1>14 DEF vars, TypeOK
<1>15. QED
  BY <1>1, <1>2, <1>3, <1>4, <1>5, <1>6, <1>7, <1>8, <1>9, <1>10, <1>11, <1>12, <1>13,
     <1>14 DEF Next, Advance

-----------------------------------------------------------------------------
(***************************************************************************)
(* What the steps do to the rows.                                          *)
(***************************************************************************)

\* A runner that turns from exchange x to the next one has passed x.
LEMMA LeavePasses ==
  ASSUME TypeOK, NEW r \in Runners, NEW x \in Exchanges,
         pc[r] \notin {"idle", "dead"}, IsNext(r, x), Leave(r, x)
  PROVE  /\ Passed(r, x)'
         /\ ~AtLoad(r, x)'
         /\ \A y \in Exchanges : Passed(r, y) => Passed(r, y)' /\ ~AtLoad(r, y)'
         /\ \A y \in Exchanges : AtLoad(r, y) => y = x
<1>1. /\ pc'[r] = "check"
      /\ todo'[r] = todo[r] \ {x}
  BY DEF Leave, Goto, TypeOK
<1>2. \A y, z \in Exchanges : y <= z /\ z <= y => y = z
  BY ExchangesAssumption
<1>3. \A y \in todo[r] : y \in Exchanges /\ (y # x => x < y)
  BY ExchangesAssumption DEF IsNext, TypeOK
<1>4. QED
  BY <1>1, <1>2, <1>3 DEF Passed, AtLoad, IsNext

\* Nothing changes for the others.
LEMMA OthersStay ==
  ASSUME TypeOK, NEW r \in Runners, NEW label, NEW left, NEW s \in Runners \ {r},
         pc' = [pc EXCEPT ![r] = label],
         todo' = [todo EXCEPT ![r] = left]
  PROVE  \A y \in Exchanges : /\ Passed(s, y)' <=> Passed(s, y)
                              /\ AtLoad(s, y)' <=> AtLoad(s, y)
BY DEF Passed, AtLoad, IsNext, TypeOK

-----------------------------------------------------------------------------
(***************************************************************************)
(* Room for one active job.                                                *)
(***************************************************************************)

LEMMA InitRoom == Init => RoomForOne
<1>1. 1 \in JobIds
  BY BoundsAssumption DEF JobIds
<1>2. QED
  BY <1>1 DEF Init, RoomForOne, Active, FreeIds, NoJobRow

LEMMA NextRoom == TypeOK /\ RoomForOne /\ [Next]_vars => RoomForOne'
<1>1. SUFFICES ASSUME TypeOK, RoomForOne, [Next]_vars PROVE RoomForOne'
  OBVIOUS
<1> USE DEF tables, counts
<1>2. ASSUME jobs' = jobs PROVE RoomForOne'
  BY <1>1, <1>2 DEF RoomForOne, Active, FreeIds
<1>3. ASSUME NEW r \in Runners, NEW x \in Exchanges, InsertJob(r, x), jobs' # jobs
      PROVE  RoomForOne'
  <2>1. Active(x) = {} /\ NewId(x) \in JobIds
    BY <1>1, <1>3 DEF InsertJob, RoomForOne, NewId, FreeIds
  <2>2. /\ \A j \in JobIds : jobs'[x][j] = IF j = NewId(x) THEN [state |-> "active", by |-> r]
                                           ELSE jobs[x][j]
        /\ \A y \in Exchanges \ {x} : jobs'[y] = jobs[y]
    BY <1>1, <1>3, <2>1 DEF InsertJob, TypeOK
  <2>3. Active(x)' = {NewId(x)}
    BY <2>1, <2>2 DEF Active
  <2>4. \A y \in Exchanges \ {x} : Active(y)' = Active(y) /\ FreeIds(y)' = FreeIds(y)
    BY <2>2 DEF Active, FreeIds
  <2>5. QED
    BY <1>1, <2>3, <2>4 DEF RoomForOne
<1>4. ASSUME NEW r \in Runners, Commit(r) PROVE RoomForOne'
  <2>1. \A x \in Exchanges, j \in JobIds :
          /\ jobs'[x][j].state = jobs[x][j].state
          /\ jobs[x][j] = NoJobRow => jobs'[x][j] = NoJobRow
    BY <1>1, <1>4, MarksAreNoRunners DEF Commit, TypeOK, JobRow
  <2>2. QED
    BY <1>1, <2>1 DEF RoomForOne, Active, FreeIds
<1>5. ASSUME NEW r \in Runners, Die(r) PROVE RoomForOne'
  <2>1. \A x \in Exchanges, j \in JobIds :
          jobs'[x][j] = jobs[x][j] \/ jobs'[x][j] = NoJobRow
    BY <1>5 DEF Die
  <2>2. \A x \in Exchanges : Active(x)' \subseteq Active(x) /\ FreeIds(x) \subseteq FreeIds(x)'
    BY <2>1 DEF Active, FreeIds, NoJobRow
  <2>3. ASSUME NEW x \in Exchanges, Active(x)' = {} PROVE FreeIds(x)' # {}
    <3>1. CASE Active(x) = {}
      BY <1>1, <2>2, <3>1 DEF RoomForOne
    <3>2. CASE Active(x) # {}
      <4>1. PICK j \in JobIds : jobs[x][j].state = "active"
        BY <3>2 DEF Active
      <4>2. jobs'[x][j] = NoJobRow
        BY <2>1, <2>3, <4>1 DEF Active
      <4>3. QED
        BY <4>2 DEF FreeIds
    <3>3. QED
      BY <3>1, <3>2
  <2>4. QED
    BY <1>1, <2>2, <2>3 DEF RoomForOne
<1>6. ASSUME NEW x \in Exchanges, NEW j \in Active(x), FinishJob(x, j) PROVE RoomForOne'
  <2>1. /\ jobs' = [jobs EXCEPT ![x][j].state = "terminal"]
        /\ j \in JobIds /\ jobs[x][j].state = "active"
    BY <1>6 DEF FinishJob, Active
  <2>2. /\ jobs'[x][j].state = "terminal"
        /\ \A k \in JobIds \ {j} : jobs'[x][k] = jobs[x][k]
        /\ \A y \in Exchanges \ {x} : jobs'[y] = jobs[y]
    BY <1>1, <2>1 DEF TypeOK, JobRow
  <2>3. Active(x)' \subseteq Active(x) /\ FreeIds(x)' # {}
    BY <1>6, <2>1, <2>2 DEF FinishJob, Active, FreeIds, NoJobRow
  <2>4. \A y \in Exchanges \ {x} : Active(y)' = Active(y) /\ FreeIds(y)' = FreeIds(y)
    BY <2>2 DEF Active, FreeIds
  <2>5. QED
    BY <1>1, <2>3, <2>4 DEF RoomForOne
<1>7. QED
  BY <1>1, <1>2, <1>3, <1>4, <1>5, <1>6
     DEF Next, Advance, StartRun, CheckLoad, FindJob, FindAgain, InsertLoad,
         InsertLoadFails, Restart, ChangeScope, vars

-----------------------------------------------------------------------------
(***************************************************************************)
(* A runner's uncommitted rows lie behind it.                              *)
(***************************************************************************)

\* Where the steps of r leave its uncommitted rows: as they were, with a new
\* one at the exchange it is at, or gone.
LEMMA StandBehind ==
  ASSUME TypeOK, RowsBehind, NEW r \in Runners, NEW label, NEW left,
         pc' = [pc EXCEPT ![r] = label],
         todo' = [todo EXCEPT ![r] = left],
         \A y \in Exchanges, s \in Runners \ {r} :
           /\ loads'[y].by = s => loads[y].by = s
           /\ \A j \in JobIds : jobs'[y][j].by = s => jobs[y][j].by = s,
         \A y \in Exchanges :
           /\ loads'[y].by = r => Passed(r, y)'
           /\ \A j \in JobIds : jobs'[y][j].by = r => Passed(r, y)' \/ AtLoad(r, y)'
  PROVE  RowsBehind'
<1>1. ASSUME NEW s \in Runners \ {r}, NEW y \in Exchanges
      PROVE  /\ loads'[y].by = s => Passed(s, y)'
             /\ \A j \in JobIds : jobs'[y][j].by = s => Passed(s, y)' \/ AtLoad(s, y)'
  <2>1. /\ Passed(s, y)' <=> Passed(s, y)
        /\ AtLoad(s, y)' <=> AtLoad(s, y)
    BY OthersStay
  <2>2. /\ loads'[y].by = s => loads[y].by = s
        /\ \A j \in JobIds : jobs'[y][j].by = s => jobs[y][j].by = s
    OBVIOUS
  <2>3. /\ loads[y].by = s => Passed(s, y)
        /\ \A j \in JobIds : jobs[y][j].by = s => Passed(s, y) \/ AtLoad(s, y)
    BY DEF RowsBehind
  <2>4. QED
    BY <2>1, <2>2, <2>3
<1>2. QED
  BY <1>1 DEF RowsBehind

LEMMA NextRowsBehind == TypeOK /\ RoomForOne /\ RowsBehind /\ [Next]_vars => RowsBehind'
<1>1. SUFFICES ASSUME TypeOK, RoomForOne, RowsBehind, [Next]_vars PROVE RowsBehind'
  OBVIOUS
<1> USE DEF tables, counts
\* Steps of r between its statements, and the skipping of an exchange.
<1>2. ASSUME NEW r \in Runners, NEW x \in Exchanges, IsNext(r, x),
             pc[r] \notin {"idle", "dead"}, Leave(r, x),
             jobs' = jobs, loads' = loads \/ loads' = [loads EXCEPT ![x] = [job |-> job[r], by |-> r]]
      PROVE  RowsBehind'
  <2>0. \A y \in Exchanges :
          loads'[y] = loads[y] \/ (y = x /\ loads'[y].by = r)
    BY <1>1, <1>2 DEF TypeOK
  <2>1. /\ \A y \in Exchanges : loads'[y].by = r => Passed(r, y)'
        /\ \A y \in Exchanges, s \in Runners \ {r} : loads'[y].by = s => loads[y].by = s
    BY <1>1, <1>2, <2>0, LeavePasses DEF RowsBehind
  <2>2. \A y \in Exchanges, j \in JobIds :
          jobs'[y][j].by = r => Passed(r, y)' \/ AtLoad(r, y)'
    BY <1>1, <1>2, LeavePasses DEF RowsBehind
  <2>3. QED
    BY <1>1, <1>2, <2>1, <2>2, StandBehind DEF Leave, Goto
<1>3. ASSUME NEW r \in Runners, NEW x \in Exchanges, IsNext(r, x), NEW label,
             pc[r] \in {"check", "findJob", "insertJob", "findAgain"},
             label \notin {"idle", "dead"}, Goto(r, label),
             UNCHANGED <<jobs, loads, todo>>
      PROVE  RowsBehind'
  <2>1. \A y \in Exchanges : ~AtLoad(r, y) /\ (Passed(r, y) => Passed(r, y)')
    BY <1>1, <1>3 DEF AtLoad, Passed, Goto, TypeOK
  <2>2. todo' = [todo EXCEPT ![r] = todo[r]]
    BY <1>1, <1>3 DEF TypeOK
  <2>3. \A y \in Exchanges :
          /\ loads'[y].by = r => Passed(r, y)'
          /\ \A j \in JobIds : jobs'[y][j].by = r => Passed(r, y)' \/ AtLoad(r, y)'
    BY <1>1, <1>3, <2>1 DEF RowsBehind
  <2>4. QED
    BY <1>1, <1>3, <2>2, <2>3, StandBehind DEF Goto
<1>4. ASSUME NEW r \in Runners, StartRun(r) PROVE RowsBehind'
  <2>1. \A y \in Exchanges : loads[y].by # r /\ \A j \in JobIds : jobs[y][j].by # r
    BY <1>1, <1>4 DEF StartRun, RowsBehind, Passed, AtLoad
  <2>2. QED
    BY <1>1, <1>4, <2>1, StandBehind DEF StartRun, Goto
<1>5. ASSUME NEW r \in Runners, NEW x \in Exchanges, CheckLoad(r, x) PROVE RowsBehind'
  BY <1>2, <1>3, <1>5 DEF CheckLoad, Skip
<1>6. ASSUME NEW r \in Runners, NEW x \in Exchanges, FindJob(r, x) PROVE RowsBehind'
  BY <1>3, <1>6 DEF FindJob
<1>7. ASSUME NEW r \in Runners, NEW x \in Exchanges, InsertJob(r, x) PROVE RowsBehind'
  <2>1. CASE Active(x) # {}
    BY <1>3, <1>7, <2>1 DEF InsertJob
  <2>2. CASE Active(x) = {}
    <3>1. NewId(x) \in JobIds
      BY <1>1, <2>2 DEF RoomForOne, NewId, FreeIds
    <3>2. \A y \in Exchanges, j \in JobIds :
            jobs'[y][j] = IF y = x /\ j = NewId(x) THEN [state |-> "active", by |-> r]
                          ELSE jobs[y][j]
      BY <1>1, <1>7, <2>2, <3>1 DEF InsertJob, TypeOK
    <3>3. /\ \A y \in Exchanges : ~AtLoad(r, y) /\ (Passed(r, y) => Passed(r, y)')
          /\ AtLoad(r, x)'
      BY <1>1, <1>7, <2>2 DEF InsertJob, AtLoad, Passed, IsNext, Goto, TypeOK
    <3>5. todo' = [todo EXCEPT ![r] = todo[r]] /\ loads' = loads
      BY <1>1, <1>7 DEF InsertJob, TypeOK
    <3>6. \A y \in Exchanges :
            /\ loads'[y].by = r => Passed(r, y)'
            /\ \A j \in JobIds : jobs'[y][j].by = r => Passed(r, y)' \/ AtLoad(r, y)'
      BY <1>1, <3>2, <3>3, <3>5 DEF RowsBehind
    <3>7. \A y \in Exchanges, s \in Runners \ {r} :
            /\ loads'[y].by = s => loads[y].by = s
            /\ \A j \in JobIds : jobs'[y][j].by = s => jobs[y][j].by = s
      BY <3>2, <3>5
    <3>8. pc' = [pc EXCEPT ![r] = "insertLoad"]
      BY <1>7, <2>2 DEF InsertJob, Goto
    <3>9. QED
      BY <1>1, <3>5, <3>6, <3>7, <3>8, StandBehind
  <2>3. QED
    BY <2>1, <2>2
<1>8. ASSUME NEW r \in Runners, NEW x \in Exchanges, FindAgain(r, x) PROVE RowsBehind'
  BY <1>2, <1>3, <1>8 DEF FindAgain, Skip
<1>9. ASSUME NEW r \in Runners, NEW x \in Exchanges,
             InsertLoad(r, x) \/ InsertLoadFails(r, x)
      PROVE  RowsBehind'
  BY <1>2, <1>9 DEF InsertLoad, InsertLoadFails, Skip
<1>10. ASSUME NEW r \in Runners, Commit(r) \/ Die(r) PROVE RowsBehind'
  <2>1. \A y \in Exchanges : IF loads[y].by = r THEN loads'[y].by \in {Committed, NoRunner}
                              ELSE loads'[y] = loads[y]
    BY <1>1, <1>10, LoadsLetGo
  <2>2. \A y \in Exchanges, j \in JobIds :
          IF jobs[y][j].by = r THEN jobs'[y][j].by \in {Committed, NoRunner}
          ELSE jobs'[y][j] = jobs[y][j]
    BY <1>1, <1>10, MarksAreNoRunners DEF Commit, Die, TypeOK, JobRow
  <2>3. todo' = [todo EXCEPT ![r] = {}]
    BY <1>1, <1>10 DEF Commit, Die, TypeOK
  <2>4. \A y \in Exchanges, s \in Runners \ {r} :
          /\ loads'[y].by = s => loads[y].by = s
          /\ \A j \in JobIds : jobs'[y][j].by = s => jobs[y][j].by = s
    BY <2>1, <2>2, MarksAreNoRunners
  <2>5. \A y \in Exchanges :
          /\ loads'[y].by = r => Passed(r, y)'
          /\ \A j \in JobIds : jobs'[y][j].by = r => Passed(r, y)' \/ AtLoad(r, y)'
    BY <2>1, <2>2, MarksAreNoRunners
  <2>6. PICK label : pc' = [pc EXCEPT ![r] = label]
    BY <1>10 DEF Commit, Die, Goto
  <2>7. QED
    BY <1>1, <2>3, <2>4, <2>5, <2>6, StandBehind
<1>11. ASSUME NEW r \in Runners, Restart(r) PROVE RowsBehind'
  <2>1. \A y \in Exchanges : loads[y].by # r /\ \A j \in JobIds : jobs[y][j].by # r
    BY <1>1, <1>11 DEF Restart, RowsBehind, Passed, AtLoad
  <2>2. todo' = [todo EXCEPT ![r] = todo[r]]
    BY <1>1, <1>11 DEF Restart, TypeOK
  <2>3. QED
    BY <1>1, <1>11, <2>1, <2>2, StandBehind DEF Restart, Goto
<1>12. ASSUME NEW x \in Exchanges, NEW j \in Active(x), FinishJob(x, j) PROVE RowsBehind'
  <2>1. \A y \in Exchanges, k \in JobIds : jobs'[y][k].by = jobs[y][k].by
    BY <1>1, <1>12 DEF FinishJob, Active, TypeOK, JobRow
  <2>2. QED
    BY <1>1, <1>12, <2>1 DEF FinishJob, RowsBehind, Passed, AtLoad, IsNext
<1>13. ASSUME UNCHANGED <<jobs, loads, pc, todo>> PROVE RowsBehind'
  BY <1>1, <1>13 DEF RowsBehind, Passed, AtLoad, IsNext
<1>14. QED
  BY <1>1, <1>4, <1>5, <1>6, <1>7, <1>8, <1>9, <1>10, <1>11, <1>12, <1>13
     DEF Next, Advance, ChangeScope, vars

-----------------------------------------------------------------------------
(***************************************************************************)
(* Every load has its job.                                                 *)
(***************************************************************************)

LEMMA NextJobsFit ==
  TypeOK /\ RoomForOne /\ RowsBehind /\ JobsFit /\ [Next]_vars => JobsFit'
<1>1. SUFFICES ASSUME TypeOK, RoomForOne, RowsBehind, JobsFit, [Next]_vars PROVE JobsFit'
  OBVIOUS
<1> USE DEF tables, counts
\* Steps of r that write no row.
<1>2. ASSUME NEW r \in Runners, NEW label, NEW left,
             UNCHANGED <<jobs, loads>>,
             pc' = [pc EXCEPT ![r] = label],
             todo' = [todo EXCEPT ![r] = left],
             \A s \in Runners \ {r} : job'[s] = job[s],
             \A y \in Exchanges : AtLoad(r, y)' =>
               job'[r] \in JobIds /\ Sees(r, jobs[y][job'[r]].by)
      PROVE  JobsFit'
  <2>1. ASSUME NEW y \in Exchanges, NEW s \in Runners, AtLoad(s, y)'
        PROVE  job'[s] \in JobIds /\ Sees(s, jobs[y][job'[s]].by)
    <3>1. CASE s = r
      BY <1>2, <2>1, <3>1
    <3>2. CASE s # r
      <4>1. AtLoad(s, y)
        BY <1>1, <1>2, <2>1, <3>2, OthersStay
      <4>2. QED
        BY <1>1, <1>2, <3>2, <4>1 DEF JobsFit
    <3>3. QED
      BY <3>1, <3>2
  <2>2. QED
    BY <1>1, <1>2, <2>1 DEF JobsFit, Sees
<1>3. ASSUME NEW r \in Runners, NEW x \in Exchanges, IsNext(r, x),
             pc[r] \notin {"idle", "dead"}, Leave(r, x), UNCHANGED <<jobs, loads>>
      PROVE  JobsFit'
  <2>1. \A y \in Exchanges : ~AtLoad(r, y)'
    BY <1>1, <1>3 DEF Leave, Goto, AtLoad, TypeOK
  <2>2. \A s \in Runners \ {r} : job'[s] = job[s]
    BY <1>1, <1>3 DEF Leave, TypeOK
  <2>3. QED
    BY <1>2, <1>3, <2>1, <2>2 DEF Leave, Goto
<1>4. ASSUME NEW r \in Runners, NEW label, label # "insertLoad", Goto(r, label),
             UNCHANGED <<jobs, loads, todo, job>>
      PROVE  JobsFit'
  <2>1. \A y \in Exchanges : ~AtLoad(r, y)'
    BY <1>1, <1>4 DEF Goto, AtLoad, TypeOK
  <2>2. todo' = [todo EXCEPT ![r] = todo[r]]
    BY <1>1, <1>4 DEF TypeOK
  <2>3. QED
    BY <1>2, <1>4, <2>1, <2>2 DEF Goto
\* r takes over an active job that it sees.
<1>5. ASSUME NEW r \in Runners, NEW x \in Exchanges, NEW j \in ActiveSeen(r, x),
             IsNext(r, x), job' = [job EXCEPT ![r] = j], Goto(r, "insertLoad"),
             UNCHANGED <<jobs, loads, todo>>
      PROVE  JobsFit'
  <2>1. /\ job'[r] = j /\ j \in JobIds /\ Sees(r, jobs[x][j].by)
        /\ \A s \in Runners \ {r} : job'[s] = job[s]
    BY <1>1, <1>5 DEF ActiveSeen, Active, TypeOK
  <2>2. \A y \in Exchanges : AtLoad(r, y)' => y = x
    BY <1>1, <1>5, ExchangesAssumption DEF AtLoad, IsNext, TypeOK
  <2>3. todo' = [todo EXCEPT ![r] = todo[r]]
    BY <1>1, <1>5 DEF TypeOK
  <2>4. QED
    BY <1>2, <1>5, <2>1, <2>2, <2>3 DEF Goto
<1>6. ASSUME NEW r \in Runners, StartRun(r) PROVE JobsFit'
  <2>1. \A y \in Exchanges : ~AtLoad(r, y)'
    BY <1>1, <1>6 DEF StartRun, Goto, AtLoad, TypeOK
  <2>2. QED
    BY <1>2, <1>6, <2>1 DEF StartRun, Goto
<1>7. ASSUME NEW r \in Runners, NEW x \in Exchanges, CheckLoad(r, x) PROVE JobsFit'
  BY <1>3, <1>4, <1>7 DEF CheckLoad, Skip
<1>8. ASSUME NEW r \in Runners, NEW x \in Exchanges, FindJob(r, x) PROVE JobsFit'
  BY <1>4, <1>5, <1>8 DEF FindJob
<1>9. ASSUME NEW r \in Runners, NEW x \in Exchanges, FindAgain(r, x) PROVE JobsFit'
  BY <1>3, <1>5, <1>9 DEF FindAgain, Skip
<1>10. ASSUME NEW r \in Runners, NEW x \in Exchanges, InsertJob(r, x) PROVE JobsFit'
  <2>1. CASE Active(x) # {}
    BY <1>4, <1>10, <2>1 DEF InsertJob
  <2>2. CASE Active(x) = {}
    <3>1. NewId(x) \in JobIds /\ jobs[x][NewId(x)] = NoJobRow
      BY <1>1, <2>2 DEF RoomForOne, NewId, FreeIds
    <3>2. \A y \in Exchanges, j \in JobIds :
            jobs'[y][j] = IF y = x /\ j = NewId(x) THEN [state |-> "active", by |-> r]
                          ELSE jobs[y][j]
      BY <1>1, <1>10, <2>2, <3>1 DEF InsertJob, TypeOK
    <3>3. \A y \in Exchanges, j \in JobIds, s \in Runners :
            Sees(s, jobs[y][j].by) => jobs'[y][j] = jobs[y][j]
      BY <3>1, <3>2, MarksAreNoRunners DEF Sees
    <3>4. /\ loads' = loads /\ job'[r] = NewId(x)
          /\ \A s \in Runners \ {r} : job'[s] = job[s]
          /\ pc' = [pc EXCEPT ![r] = "insertLoad"] /\ todo' = [todo EXCEPT ![r] = todo[r]]
      BY <1>1, <1>10, <2>2 DEF InsertJob, Goto, TypeOK
    <3>5. \A y \in Exchanges : AtLoad(r, y)' => y = x
      BY <1>1, <1>10, ExchangesAssumption DEF InsertJob, AtLoad, IsNext, TypeOK
    <3>6. ASSUME NEW y \in Exchanges, NEW s \in Runners, AtLoad(s, y)'
          PROVE  job'[s] \in JobIds /\ Sees(s, jobs'[y][job'[s]].by)
      <4>1. CASE s = r
        BY <3>1, <3>2, <3>4, <3>5, <3>6, <4>1 DEF Sees
      <4>2. CASE s # r
        <5>1. AtLoad(s, y)
          BY <1>1, <3>4, <3>6, <4>2, OthersStay
        <5>2. job[s] \in JobIds /\ Sees(s, jobs[y][job[s]].by)
          BY <1>1, <5>1 DEF JobsFit
        <5>3. QED
          BY <3>3, <3>4, <4>2, <5>2
      <4>3. QED
        BY <4>1, <4>2
    <3>7. ASSUME NEW y \in Exchanges
          PROVE  /\ \A s \in Runners : loads'[y].by = s => Sees(s, jobs'[y][loads'[y].job].by)
                 /\ loads'[y].by = Committed => jobs'[y][loads'[y].job].by = Committed
      <4>1. loads[y].by # NoRunner => loads[y].job \in JobIds
        BY <1>1 DEF TypeOK, NoLoad
      <4>2. QED
        BY <1>1, <3>1, <3>2, <3>3, <3>4, <4>1, MarksAreNoRunners DEF JobsFit
    <3>8. QED
      BY <3>6, <3>7 DEF JobsFit, Sees
  <2>3. QED
    BY <2>1, <2>2
<1>11. ASSUME NEW r \in Runners, NEW x \in Exchanges, InsertLoad(r, x) PROVE JobsFit'
  <2>1. CASE loads[x] # NoLoad
    BY <1>3, <1>11, <2>1 DEF InsertLoad, Skip
  <2>2. CASE loads[x] = NoLoad
    <3>1. job[r] \in JobIds /\ Sees(r, jobs[x][job[r]].by)
      BY <1>1, <1>11 DEF InsertLoad, JobsFit, AtLoad
    <3>2. /\ jobs' = jobs /\ Leave(r, x)
          /\ loads' = [loads EXCEPT ![x] = [job |-> job[r], by |-> r]]
      BY <1>11, <2>2 DEF InsertLoad
    <3>3. \A y \in Exchanges :
            loads'[y] = IF y = x THEN [job |-> job[r], by |-> r] ELSE loads[y]
      BY <1>1, <3>2 DEF TypeOK
    <3>4. ASSUME NEW y \in Exchanges, NEW s \in Runners, AtLoad(s, y)'
          PROVE  job'[s] \in JobIds /\ Sees(s, jobs[y][job'[s]].by)
      <4>1. s # r
        BY <1>1, <3>2, <3>4 DEF Leave, Goto, AtLoad, TypeOK
      <4>2. AtLoad(s, y) /\ job'[s] = job[s]
        BY <1>1, <3>2, <3>4, <4>1, OthersStay DEF Leave, Goto, TypeOK
      <4>3. QED
        BY <1>1, <4>2 DEF JobsFit
    <3>5. QED
      BY <1>1, <3>1, <3>2, <3>3, <3>4, MarksAreNoRunners DEF JobsFit, Sees
  <2>3. QED
    BY <2>1, <2>2
<1>12. ASSUME NEW r \in Runners, NEW x \in Exchanges, InsertLoadFails(r, x) PROVE JobsFit'
  BY <1>3, <1>12 DEF InsertLoadFails, Skip
<1>13. ASSUME NEW r \in Runners, Commit(r) \/ Die(r) PROVE JobsFit'
  <2>1. /\ \A y \in Exchanges, s \in Runners : AtLoad(s, y)' => s # r /\ AtLoad(s, y)
        /\ \A s \in Runners \ {r} : job'[s] = job[s]
    BY <1>1, <1>13 DEF Commit, Die, Goto, AtLoad, IsNext, TypeOK
  <2>2. \A y \in Exchanges, j \in JobIds, s \in Runners \ {r} :
          Sees(s, jobs[y][j].by) => jobs'[y][j].by = jobs[y][j].by
    BY <1>1, <1>13, MarksAreNoRunners DEF Commit, Die, Sees
  <2>3. \A y \in Exchanges, j \in JobIds :
          jobs[y][j].by = Committed => jobs'[y][j].by = Committed
    BY <1>1, <1>13, MarksAreNoRunners DEF Commit, Die
  <2>4. ASSUME NEW y \in Exchanges
        PROVE  /\ \A s \in Runners : loads'[y].by = s => Sees(s, jobs'[y][loads'[y].job].by)
               /\ loads'[y].by = Committed => jobs'[y][loads'[y].job].by = Committed
    <3>1. CASE loads[y].by = r
      <4>1. loads[y].job \in JobIds /\ Sees(r, jobs[y][loads[y].job].by)
        BY <1>1, <1>13, <3>1, MarksAreNoRunners DEF JobsFit, TypeOK
      <4>2. CASE Commit(r)
        <5>1. loads'[y].by = Committed /\ loads'[y].job = loads[y].job
          BY <1>1, <3>1, <4>2 DEF Commit, TypeOK
        <5>2. jobs'[y][loads[y].job].by = Committed
          BY <1>1, <4>1, <4>2, MarksAreNoRunners DEF Commit, Sees, TypeOK, JobRow
        <5>3. QED
          BY <5>1, <5>2, MarksAreNoRunners
      <4>3. CASE Die(r)
        BY <3>1, <4>3, MarksAreNoRunners DEF Die
      <4>4. QED
        BY <1>13, <4>2, <4>3
    <3>2. CASE loads[y].by # r
      <4>1. loads'[y] = loads[y]
        BY <1>13, <3>2 DEF Commit, Die
      <4>2. loads[y].by # NoRunner => loads[y].job \in JobIds
        BY <1>1 DEF TypeOK, NoLoad
      <4>3. QED
        BY <1>1, <2>2, <2>3, <3>2, <4>1, <4>2, MarksAreNoRunners DEF JobsFit, Sees
    <3>3. QED
      BY <3>1, <3>2
  <2>5. ASSUME NEW y \in Exchanges, NEW s \in Runners, AtLoad(s, y)'
        PROVE  job'[s] \in JobIds /\ Sees(s, jobs'[y][job'[s]].by)
    BY <1>1, <2>1, <2>2, <2>5 DEF JobsFit, Sees
  <2>6. QED
    BY <2>4, <2>5 DEF JobsFit, Sees
<1>14. ASSUME NEW r \in Runners, Restart(r) PROVE JobsFit'
  BY <1>4, <1>14 DEF Restart
<1>15. ASSUME NEW x \in Exchanges, NEW j \in Active(x), FinishJob(x, j) PROVE JobsFit'
  <2>1. \A y \in Exchanges, k \in JobIds : jobs'[y][k].by = jobs[y][k].by
    BY <1>1, <1>15 DEF FinishJob, Active, TypeOK, JobRow
  <2>2. \A y \in Exchanges, s \in Runners : AtLoad(s, y)' <=> AtLoad(s, y)
    BY <1>15 DEF FinishJob, AtLoad, IsNext
  <2>3. QED
    BY <1>1, <1>15, <2>1, <2>2 DEF FinishJob, JobsFit, Sees, TypeOK, NoLoad
<1>16. ASSUME UNCHANGED <<jobs, loads, pc, todo, job>> PROVE JobsFit'
  BY <1>1, <1>16 DEF JobsFit, AtLoad, IsNext, Sees
<1>17. QED
  BY <1>1, <1>6, <1>7, <1>8, <1>9, <1>10, <1>11, <1>12, <1>13, <1>14, <1>15, <1>16
     DEF Next, Advance, ChangeScope, vars

-----------------------------------------------------------------------------
(***************************************************************************)
(* The counts of a run.                                                    *)
(***************************************************************************)

LEMMA NextCountsFit ==
  TypeOK /\ RowsBehind /\ CountsFit /\ [Next]_vars => CountsFit'
<1>1. SUFFICES ASSUME TypeOK, RowsBehind, CountsFit, [Next]_vars PROVE CountsFit'
  OBVIOUS
<1> USE DEF tables, counts
\* The counts of the others stay as they are, and so do their loads.
<1>2. ASSUME NEW r \in Runners,
             \A s \in Runners \ {r} :
               /\ pc'[s] = pc[s] /\ enqueued'[s] = enqueued[s] /\ existing'[s] = existing[s]
               /\ todo'[s] = todo[s] /\ scope'[s] = scope[s] /\ LoadsBy(s)' = LoadsBy(s),
             pc'[r] \notin {"idle", "dead"} =>
               /\ enqueued'[r] = Cardinality(LoadsBy(r)')
               /\ enqueued'[r] + existing'[r] + Cardinality(todo'[r]) = scope'[r]
      PROVE  CountsFit'
  BY <1>1, <1>2 DEF CountsFit
<1>3. ASSUME NEW r \in Runners, NEW x \in Exchanges, IsNext(r, x), Leave(r, x)
      PROVE  /\ Cardinality(todo'[r]) = Cardinality(todo[r]) - 1
             /\ \A s \in Runners \ {r} : pc'[s] = pc[s] /\ todo'[s] = todo[s]
             /\ pc'[r] = "check"
  <2>1. /\ todo'[r] = todo[r] \ {x} /\ x \in todo[r]
        /\ \A s \in Runners \ {r} : pc'[s] = pc[s] /\ todo'[s] = todo[s]
        /\ pc'[r] = "check"
    BY <1>1, <1>3 DEF Leave, Goto, IsNext, TypeOK
  <2>2. IsFiniteSet(todo[r])
    BY <1>1, FiniteTodo
  <2>3. Cardinality(todo[r] \ {x}) = Cardinality(todo[r]) - 1
    BY <2>1, <2>2, FS_RemoveElement
  <2>4. QED
    BY <2>1, <2>3
\* An exchange is skipped.
<1>4. ASSUME NEW r \in Runners, NEW x \in Exchanges, IsNext(r, x), Skip(r, x),
             pc[r] \notin {"idle", "dead"}, UNCHANGED <<loads, scope>>
      PROVE  CountsFit'
  <2>1. /\ \A s \in Runners : LoadsBy(s)' = LoadsBy(s)
        /\ existing'[r] = existing[r] + 1
        /\ \A s \in Runners \ {r} : existing'[s] = existing[s]
        /\ UNCHANGED <<enqueued, scope>> /\ Leave(r, x)
    BY <1>1, <1>4 DEF Skip, LoadsBy, TypeOK
  <2>2. /\ enqueued[r] = Cardinality(LoadsBy(r))
        /\ enqueued[r] + existing[r] + Cardinality(todo[r]) = scope[r]
    BY <1>1, <1>4 DEF CountsFit
  <2>3. /\ enqueued[r] \in Nat /\ existing[r] \in Nat /\ scope[r] \in Nat
        /\ Cardinality(todo[r]) \in Nat
    BY <1>1, FiniteTodo DEF TypeOK
  <2>4. QED
    BY <1>2, <1>3, <1>4, <2>1, <2>2, <2>3
\* A step of r within an exchange.
<1>5. ASSUME NEW r \in Runners, NEW label, Goto(r, label),
             pc[r] \notin {"idle", "dead"}, UNCHANGED <<loads, todo, counts>>
      PROVE  CountsFit'
  <2>1. /\ \A s \in Runners : LoadsBy(s)' = LoadsBy(s)
        /\ \A s \in Runners \ {r} : pc'[s] = pc[s]
    BY <1>1, <1>5 DEF Goto, LoadsBy, TypeOK
  <2>2. QED
    BY <1>1, <1>5, <2>1 DEF CountsFit
<1>6. ASSUME NEW r \in Runners, StartRun(r) PROVE CountsFit'
  <2>1. LoadsBy(r) = {}
    BY <1>1, <1>6 DEF StartRun, RowsBehind, Passed, LoadsBy
  <2>2. /\ LoadsBy(r)' = {} /\ \A s \in Runners \ {r} : LoadsBy(s)' = LoadsBy(s)
        /\ enqueued'[r] = 0 /\ existing'[r] = 0
        /\ todo'[r] = active \cap Expected
        /\ scope'[r] = Cardinality(active \cap Expected)
    BY <1>1, <1>6, <2>1 DEF StartRun, LoadsBy, TypeOK
  <2>3. \A s \in Runners \ {r} :
          /\ pc'[s] = pc[s] /\ enqueued'[s] = enqueued[s] /\ existing'[s] = existing[s]
          /\ todo'[s] = todo[s] /\ scope'[s] = scope[s]
    BY <1>1, <1>6 DEF StartRun, Goto, TypeOK
  <2>4. Cardinality(active \cap Expected) \in Nat
    BY ExpectedAssumption, ExchangesAssumption, FS_Subset, FS_CardinalityType
  <2>5. /\ enqueued'[r] = Cardinality(LoadsBy(r)')
        /\ enqueued'[r] + existing'[r] + Cardinality(todo'[r]) = scope'[r]
    BY <2>2, <2>4, FS_EmptySet
  <2>6. QED
    BY <1>2, <2>2, <2>3, <2>5
<1>7. ASSUME NEW r \in Runners, NEW x \in Exchanges,
             CheckLoad(r, x) \/ FindAgain(r, x) \/ InsertLoadFails(r, x)
      PROVE  CountsFit'
  BY <1>4, <1>5, <1>7 DEF CheckLoad, FindAgain, InsertLoadFails
<1>8. ASSUME NEW r \in Runners, NEW x \in Exchanges, FindJob(r, x) \/ InsertJob(r, x)
      PROVE  CountsFit'
  BY <1>5, <1>8 DEF FindJob, InsertJob
<1>9. ASSUME NEW r \in Runners, NEW x \in Exchanges, InsertLoad(r, x) PROVE CountsFit'
  <2>1. CASE loads[x] # NoLoad
    BY <1>4, <1>9, <2>1 DEF InsertLoad
  <2>2. CASE loads[x] = NoLoad
    <3>1. /\ loads' = [loads EXCEPT ![x] = [job |-> job[r], by |-> r]]
          /\ enqueued' = [enqueued EXCEPT ![r] = @ + 1]
          /\ Leave(r, x) /\ UNCHANGED <<existing, scope>>
          /\ IsNext(r, x) /\ pc[r] \notin {"idle", "dead"}
      BY <1>9, <2>2 DEF InsertLoad
    <3>2. /\ x \notin LoadsBy(r)
          /\ LoadsBy(r)' = LoadsBy(r) \cup {x}
          /\ \A s \in Runners \ {r} : LoadsBy(s)' = LoadsBy(s)
      BY <1>1, <2>2, <3>1, MarksAreNoRunners DEF LoadsBy, TypeOK
    <3>3. IsFiniteSet(LoadsBy(r)) /\ Cardinality(LoadsBy(r)') = Cardinality(LoadsBy(r)) + 1
      BY <3>2, ExchangesAssumption, FS_Subset, FS_AddElement DEF LoadsBy
    <3>4. /\ enqueued'[r] = enqueued[r] + 1
          /\ \A s \in Runners \ {r} : enqueued'[s] = enqueued[s]
          /\ enqueued[r] \in Nat /\ existing[r] \in Nat /\ scope[r] \in Nat
          /\ Cardinality(todo[r]) \in Nat
      BY <1>1, <3>1, FiniteTodo DEF TypeOK
    <3>5. /\ enqueued[r] = Cardinality(LoadsBy(r))
          /\ enqueued[r] + existing[r] + Cardinality(todo[r]) = scope[r]
      BY <1>1, <3>1 DEF CountsFit
    <3>6. /\ Cardinality(todo'[r]) = Cardinality(todo[r]) - 1
          /\ \A s \in Runners \ {r} : pc'[s] = pc[s] /\ todo'[s] = todo[s]
      BY <1>3, <3>1
    <3>7. /\ enqueued'[r] = Cardinality(LoadsBy(r)')
          /\ enqueued'[r] + existing'[r] + Cardinality(todo'[r]) = scope'[r]
      BY <3>1, <3>3, <3>4, <3>5, <3>6
    <3>8. QED
      BY <1>2, <3>1, <3>2, <3>4, <3>6, <3>7
  <2>3. QED
    BY <2>1, <2>2
<1>10. ASSUME NEW r \in Runners, Commit(r) \/ Die(r) \/ Restart(r) PROVE CountsFit'
  <2>1. \A s \in Runners \ {r} : LoadsBy(s)' = LoadsBy(s)
    <3>1. CASE Restart(r)
      BY <3>1 DEF Restart, tables, LoadsBy
    <3>2. CASE Commit(r) \/ Die(r)
      <4>1. \A y \in Exchanges : IF loads[y].by = r THEN loads'[y].by \in {Committed, NoRunner}
                                  ELSE loads'[y] = loads[y]
        BY <1>1, <3>2, LoadsLetGo
      <4>2. \A s \in Runners \ {r}, y \in Exchanges : loads'[y].by = s <=> loads[y].by = s
        BY <4>1, MarksAreNoRunners
      <4>3. QED
        BY <4>2 DEF LoadsBy
    <3>3. QED
      BY <1>10, <3>1, <3>2
  <2>2. /\ pc'[r] \in {"idle", "dead"}
        /\ \A s \in Runners \ {r} : pc'[s] = pc[s] /\ todo'[s] = todo[s]
        /\ UNCHANGED counts
    BY <1>1, <1>10 DEF Commit, Die, Restart, Goto, TypeOK
  <2>3. QED
    BY <1>2, <2>1, <2>2
<1>11. ASSUME UNCHANGED <<loads, pc, todo, counts>> PROVE CountsFit'
  BY <1>1, <1>11 DEF CountsFit, LoadsBy
<1>12. QED
  BY <1>1, <1>6, <1>7, <1>8, <1>9, <1>10, <1>11
     DEF Next, Advance, ChangeScope, FinishJob, vars

-----------------------------------------------------------------------------
(***************************************************************************)
(* The invariant of the scheduler, and what follows from it.               *)
(***************************************************************************)

SchedulerInv == TypeOK /\ RoomForOne /\ RowsBehind /\ JobsFit /\ CountsFit

LEMMA InitSchedulerInv == Init => SchedulerInv
<1>1. SUFFICES ASSUME Init PROVE SchedulerInv
  OBVIOUS
<1>2. RowsBehind /\ JobsFit
  BY <1>1, MarksAreNoRunners DEF Init, RowsBehind, JobsFit, AtLoad
<1>3. CountsFit
  BY <1>1 DEF Init, CountsFit
<1>4. QED
  BY <1>1, <1>2, <1>3, InitTypeOK, InitRoom DEF SchedulerInv

LEMMA SchedulerInvariant == Spec => []SchedulerInv
<1>1. SchedulerInv /\ [Next]_vars => SchedulerInv'
  BY NextTypeOK, NextRoom, NextRowsBehind, NextJobsFit, NextCountsFit DEF SchedulerInv
<1>2. QED
  BY InitSchedulerInv, <1>1, PTL DEF Spec

\* Every reachable state is well typed, and the bound on jobs never stops an
\* insert.
THEOREM SchedulerTypeCorrect == Spec => []TypeOK
<1>1. SchedulerInv => TypeOK
  BY DEF SchedulerInv
<1>2. QED
  BY <1>1, SchedulerInvariant, PTL

\* Two runs never leave two active jobs for an exchange and day, however many
\* run at once and wherever they die.
THEOREM NoDuplicateActiveJob == Spec => []OneActiveJob
<1>1. SchedulerInv => OneActiveJob
  <2>1. SUFFICES ASSUME SchedulerInv, NEW x \in Exchanges
                 PROVE  Cardinality(Active(x)) <= 1
    BY DEF OneActiveJob
  <2>2. CASE Active(x) = {}
    BY <2>2, FS_EmptySet
  <2>3. CASE Active(x) # {}
    <3>1. PICK j \in Active(x) : TRUE
      BY <2>3
    <3>2. \A k \in Active(x) : k = j
      BY <2>1 DEF SchedulerInv, RoomForOne
    <3>3. Active(x) = {j}
      BY <3>1, <3>2
    <3>4. QED
      BY <3>3, FS_Singleton
  <2>4. QED
    BY <2>2, <2>3
<1>2. QED
  BY <1>1, SchedulerInvariant, PTL

\* A committed load refers to a committed job.
THEOREM LoadsHaveJobs == Spec => []LoadHasCommittedJob
<1>1. SchedulerInv => LoadHasCommittedJob
  BY DEF SchedulerInv, JobsFit, LoadHasCommittedJob
<1>2. QED
  BY <1>1, SchedulerInvariant, PTL

\* The counts a run reports are those of the rows it commits.
THEOREM ReportIsTrue == Spec => []ReportMatchesTables
<1>1. SchedulerInv => ReportMatchesTables
  <2>1. SUFFICES ASSUME SchedulerInv, NEW r \in Runners, pc[r] = "check", todo[r] = {}
                 PROVE  /\ enqueued[r] = Cardinality(LoadsBy(r))
                        /\ enqueued[r] + existing[r] = scope[r]
    BY DEF ReportMatchesTables, LoadsBy
  <2>2. /\ enqueued[r] = Cardinality(LoadsBy(r))
        /\ enqueued[r] + existing[r] + 0 = scope[r]
    BY <2>1, FS_EmptySet DEF SchedulerInv, CountsFit
  <2>3. enqueued[r] \in Nat /\ existing[r] \in Nat
    BY <2>1 DEF SchedulerInv, TypeOK
  <2>4. QED
    BY <2>2, <2>3
<1>2. QED
  BY <1>1, SchedulerInvariant, PTL

\* No run replaces, reassigns or loses a committed load.
THEOREM CommittedLoadIsKept == Spec => LoadIsKept
<1>1. SchedulerInv /\ [Next]_vars =>
        [\A x \in Exchanges : loads[x].by = Committed => loads'[x] = loads[x]]_vars
  <2>1. SUFFICES ASSUME SchedulerInv, [Next]_vars,
                        NEW x \in Exchanges, loads[x].by = Committed
                 PROVE  loads'[x] = loads[x]
    OBVIOUS
  <2>2. loads[x] # NoLoad
    BY <2>1, MarksAreNoRunners
  <2>3. ASSUME NEW r \in Runners, NEW y \in Exchanges, InsertLoad(r, y)
        PROVE  loads'[x] = loads[x]
    BY <2>1, <2>2, <2>3 DEF InsertLoad, SchedulerInv, TypeOK
  <2>4. ASSUME NEW r \in Runners, Commit(r) \/ Die(r) PROVE loads'[x] = loads[x]
    BY <2>1, <2>4, MarksAreNoRunners DEF Commit, Die
  <2>5. CASE loads' = loads
    BY <2>5
  <2>6. QED
    BY <2>1, <2>3, <2>4, <2>5
       DEF Next, Advance, StartRun, CheckLoad, FindJob, InsertJob, FindAgain,
           InsertLoadFails, Restart, ChangeScope, FinishJob, vars, tables
<1>2. QED
  BY <1>1, SchedulerInvariant, PTL DEF Spec, LoadIsKept

-----------------------------------------------------------------------------
(***************************************************************************)
(* The scheduler implements the abstract schedule.                         *)
(***************************************************************************)

\* Whatever a runner has still to consider, or has inserted, is of exchanges that
\* trade, and the jobs it has inserted are active: nobody else can end them.
OpenRows ==
  \A r \in Runners :
    /\ todo[r] \subseteq Expected
    /\ \A x \in Exchanges :
         /\ loads[x].by = r => x \in Expected
         /\ \A j \in JobIds : jobs[x][j].by = r => x \in Expected /\ jobs[x][j].state = "active"

LEMMA InitOpenRows == Init => OpenRows
BY MarksAreNoRunners DEF Init, OpenRows

\* A step that leaves the rows alone and adds nothing to consider.
LEMMA RowsStay ==
  ASSUME OpenRows, jobs' = jobs, loads' = loads,
         \A r \in Runners : todo'[r] \subseteq todo[r] \cup Expected
  PROVE  OpenRows'
BY DEF OpenRows

LEMMA NextOpenRows == TypeOK /\ RoomForOne /\ OpenRows /\ [Next]_vars => OpenRows'
<1>1. SUFFICES ASSUME TypeOK, RoomForOne, OpenRows, [Next]_vars PROVE OpenRows'
  OBVIOUS
<1> USE DEF tables, counts
<1>2. ASSUME NEW r \in Runners, StartRun(r) PROVE OpenRows'
  <2>1. \A s \in Runners : todo'[s] \subseteq todo[s] \cup Expected
    BY <1>1, <1>2 DEF StartRun, TypeOK
  <2>2. QED
    BY <1>1, <1>2, <2>1, RowsStay DEF StartRun
<1>3. ASSUME NEW r \in Runners, NEW x \in Exchanges, Leave(r, x)
      PROVE  \A s \in Runners : todo'[s] \subseteq todo[s]
  BY <1>1, <1>3 DEF Leave, TypeOK
<1>4. ASSUME NEW r \in Runners, NEW x \in Exchanges,
             CheckLoad(r, x) \/ FindJob(r, x) \/ FindAgain(r, x) \/ InsertLoadFails(r, x)
      PROVE  OpenRows'
  <2>1. \A s \in Runners : todo'[s] \subseteq todo[s]
    BY <1>3, <1>4 DEF CheckLoad, FindJob, FindAgain, InsertLoadFails, Skip
  <2>2. QED
    BY <1>1, <1>4, <2>1, RowsStay DEF CheckLoad, FindJob, FindAgain, InsertLoadFails
<1>5. ASSUME NEW r \in Runners, NEW x \in Exchanges, InsertJob(r, x) PROVE OpenRows'
  <2>1. x \in Expected
    BY <1>1, <1>5 DEF InsertJob, IsNext, OpenRows
  <2>2. CASE Active(x) = {}
    <3>1. /\ loads' = loads /\ todo' = todo
          /\ jobs' = [jobs EXCEPT ![x][NewId(x)] = [state |-> "active", by |-> r]]
      BY <1>5, <2>2 DEF InsertJob
    <3>2. \A y \in Exchanges, j \in JobIds :
            jobs'[y][j] = jobs[y][j] \/ (y = x /\ jobs'[y][j] = [state |-> "active", by |-> r])
      BY <1>1, <3>1 DEF TypeOK
    <3>3. QED
      BY <1>1, <2>1, <3>1, <3>2 DEF OpenRows
  <2>3. CASE Active(x) # {}
    BY <1>1, <1>5, <2>3, RowsStay DEF InsertJob
  <2>4. QED
    BY <2>2, <2>3
<1>6. ASSUME NEW r \in Runners, NEW x \in Exchanges, InsertLoad(r, x) PROVE OpenRows'
  <2>1. x \in Expected /\ jobs' = jobs
    BY <1>1, <1>6 DEF InsertLoad, IsNext, OpenRows
  <2>2. \A s \in Runners : todo'[s] \subseteq todo[s]
    BY <1>3, <1>6 DEF InsertLoad, Skip
  <2>3. \A y \in Exchanges : loads'[y] = loads[y] \/ y = x
    BY <1>1, <1>6 DEF InsertLoad, TypeOK
  <2>4. QED
    BY <1>1, <2>1, <2>2, <2>3 DEF OpenRows
<1>7. ASSUME NEW r \in Runners, Commit(r) \/ Die(r) PROVE OpenRows'
  <2>1. \A s \in Runners : todo'[s] \subseteq todo[s]
    BY <1>1, <1>7 DEF Commit, Die, TypeOK
  <2>2. \A x \in Exchanges, s \in Runners : loads'[x].by = s => loads[x].by = s
    BY <1>1, <1>7, LoadsLetGo, MarksAreNoRunners
  <2>3. ASSUME NEW x \in Exchanges, NEW j \in JobIds, NEW s \in Runners, jobs'[x][j].by = s
        PROVE  jobs'[x][j] = jobs[x][j]
    <3>1. CASE jobs[x][j].by = r
      <4>1. jobs[x][j] \in [state : {"active", "terminal"}, by : Writers]
        BY <1>1, <3>1, MarksAreNoRunners DEF TypeOK, JobRow
      <4>2. [jobs[x][j] EXCEPT !.by = Committed].by = Committed
        BY <4>1
      <4>3. jobs'[x][j] = [jobs[x][j] EXCEPT !.by = Committed] \/ jobs'[x][j] = NoJobRow
        BY <1>7, <3>1 DEF Commit, Die
      <4>4. QED
        BY <2>3, <4>2, <4>3, MarksAreNoRunners
    <3>2. CASE jobs[x][j].by # r
      BY <1>7, <3>2 DEF Commit, Die
    <3>3. QED
      BY <3>1, <3>2
  <2>4. QED
    BY <1>1, <2>1, <2>2, <2>3 DEF OpenRows
<1>8. ASSUME NEW x \in Exchanges, NEW j \in Active(x), FinishJob(x, j) PROVE OpenRows'
  <2>1. /\ loads' = loads /\ todo' = todo /\ j \in JobIds
        /\ jobs' = [jobs EXCEPT ![x][j].state = "terminal"]
        /\ jobs[x][j].by = Committed
    BY <1>8 DEF FinishJob, Active
  <2>2. \A y \in Exchanges, k \in JobIds :
          jobs'[y][k] = jobs[y][k] \/ jobs'[y][k].by = Committed
    BY <1>1, <2>1, MarksAreNoRunners DEF TypeOK, JobRow
  <2>3. QED
    BY <1>1, <2>1, <2>2, MarksAreNoRunners DEF OpenRows
<1>9. ASSUME (\E r \in Runners : Restart(r))
               \/ (\E requested \in SUBSET Exchanges : ChangeScope(requested))
               \/ UNCHANGED vars
      PROVE  OpenRows'
  BY <1>1, <1>9, RowsStay DEF Restart, ChangeScope, vars
<1>10. QED
  BY <1>1, <1>2, <1>4, <1>5, <1>6, <1>7, <1>8, <1>9 DEF Next, Advance

\* What a commit shows: of each exchange at most the one job that the runner
\* inserted, where no committed one was active, and its load with a job that is
\* committed by now.
LEMMA CommitSchedules ==
  ASSUME SchedulerInv, OpenRows, NEW r \in Runners, Commit(r)
  PROVE  Schedule!Schedule
<1> USE DEF SchedulerInv
<1>1. \A x \in Exchanges, j \in JobIds :
        /\ jobs[x][j] \in JobRow
        /\ jobs[x][j].by # r => jobs'[x][j] = jobs[x][j]
        /\ jobs[x][j].by = r => /\ jobs[x][j].state = "active"
                                /\ jobs'[x][j] = [state |-> "active", by |-> Committed]
  <2>1. ASSUME NEW x \in Exchanges, NEW j \in JobIds, jobs[x][j].by = r
        PROVE  jobs[x][j].state = "active"
               /\ jobs'[x][j] = [state |-> "active", by |-> Committed]
    <3>1. jobs[x][j] \in [state : {"active", "terminal"}, by : Writers]
      BY <2>1, MarksAreNoRunners DEF TypeOK, JobRow
    <3>2. jobs[x][j].state = "active"
      BY <2>1 DEF OpenRows
    <3>3. jobs'[x][j] = [jobs[x][j] EXCEPT !.by = Committed]
      BY <2>1 DEF Commit
    <3>4. QED
      BY <3>1, <3>2, <3>3
  <2>2. QED
    BY <2>1 DEF TypeOK, Commit
<1>2. \A x \in Exchanges :
        /\ loads[x] \in [job : JobIds, by : Writers] \cup {NoLoad}
        /\ loads[x].by # r => loads'[x] = loads[x]
        /\ loads[x].by = r => loads'[x] = [job |-> loads[x].job, by |-> Committed]
  <2>1. ASSUME NEW x \in Exchanges, loads[x].by = r
        PROVE  loads'[x] = [job |-> loads[x].job, by |-> Committed]
    <3>1. loads[x] \in [job : JobIds, by : Writers]
      BY <2>1, MarksAreNoRunners DEF TypeOK
    <3>2. loads'[x] = [loads[x] EXCEPT !.by = Committed]
      BY <2>1 DEF Commit
    <3>3. QED
      BY <3>1, <3>2
  <2>2. QED
    BY <2>1 DEF TypeOK, Commit
<1>3. \A x \in Exchanges, j \in JobIds :
        /\ CommittedJobs[x][j] = IF jobs[x][j].by = Committed THEN jobs[x][j].state ELSE "none"
        /\ CommittedJobs'[x][j] = IF jobs'[x][j].by = Committed THEN jobs'[x][j].state ELSE "none"
  BY DEF CommittedJobs
<1>4. \A x \in Exchanges :
        /\ CommittedLoads[x] = IF loads[x].by = Committed THEN loads[x].job ELSE NoJob
        /\ CommittedLoads'[x] = IF loads'[x].by = Committed THEN loads'[x].job ELSE NoJob
  BY DEF CommittedLoads
<1>5. /\ CommittedJobs' \in [Exchanges -> [JobIds -> {"none", "active", "terminal"}]]
      /\ \A x \in Exchanges : CommittedJobs[x] = [j \in JobIds |-> CommittedJobs[x][j]]
      /\ \A x \in Exchanges : CommittedJobs'[x] = [j \in JobIds |-> CommittedJobs'[x][j]]
  <2>1. ASSUME NEW x \in Exchanges, NEW j \in JobIds
        PROVE  (IF jobs'[x][j].by = Committed THEN jobs'[x][j].state ELSE "none")
                 \in {"none", "active", "terminal"}
    BY <1>1 DEF JobRow, NoJobRow
  <2>2. QED
    BY <2>1 DEF CommittedJobs
<1>6. CommittedLoads' \in [Exchanges -> JobIds \cup {NoJob}]
  <2>1. ASSUME NEW x \in Exchanges
        PROVE  (IF loads'[x].by = Committed THEN loads'[x].job ELSE NoJob) \in JobIds \cup {NoJob}
    <3>1. CASE loads[x].by = r
      <4>1. loads[x] \in [job : JobIds, by : Writers]
        BY <1>2, <3>1, MarksAreNoRunners
      <4>2. loads'[x].job = loads[x].job
        <5>1. loads'[x] = [job |-> loads[x].job, by |-> Committed]
          BY <1>2, <3>1
        <5>2. QED
          BY <5>1
      <4>3. QED
        BY <4>1, <4>2
    <3>2. CASE loads[x].by # r
      <4>1. loads'[x] \in [job : JobIds, by : Writers] \cup {NoLoad}
        BY <1>2, <3>2
      <4>2. QED
        BY <4>1, MarksAreNoRunners
    <3>3. QED
      BY <3>1, <3>2
  <2>2. QED
    BY <2>1 DEF CommittedLoads
<1> HIDE DEF CommittedJobs, CommittedLoads
<1>7. ASSUME NEW x \in Exchanges PROVE Schedule!Enqueued(x)
  <2>1. CASE \A j \in JobIds : jobs[x][j].by # r
    <3>1. \A j \in JobIds : CommittedJobs'[x][j] = CommittedJobs[x][j]
      BY <1>1, <1>3, <2>1
    <3>2. CommittedJobs'[x] = CommittedJobs[x]
      BY <1>5, <3>1
    <3>3. QED
      BY <3>2 DEF Schedule!Enqueued
  <2>2. CASE \E j \in JobIds : jobs[x][j].by = r
    <3>1. PICK j \in JobIds : jobs[x][j].by = r
      BY <2>2
    <3>2. x \in Expected
      BY <3>1 DEF OpenRows
    <3>3. \A k \in JobIds : jobs[x][k].state = "active" => k = j
      BY <1>1, <3>1 DEF RoomForOne, Active
    <3>4. \A k \in JobIds : CommittedJobs[x][k] # "active"
      BY <1>3, <3>1, <3>3, MarksAreNoRunners
    <3>5. CommittedJobs[x][j] = "none" /\ CommittedJobs'[x][j] = "active"
      BY <1>1, <1>3, <3>1, MarksAreNoRunners
    <3>6. \A k \in JobIds : k # j => CommittedJobs'[x][k] = CommittedJobs[x][k]
      BY <1>1, <1>3, <3>3
    <3>7. CommittedJobs'[x] = [CommittedJobs[x] EXCEPT ![j] = "active"]
      BY <1>5, <3>5, <3>6
    <3>8. QED
      BY <3>2, <3>4, <3>5, <3>7 DEF Schedule!Enqueued
  <2>3. QED
    BY <2>1, <2>2
<1>8. ASSUME NEW x \in Exchanges PROVE Schedule!Loaded(x)
  <2>1. CASE loads[x].by # r
    BY <1>2, <1>4, <2>1 DEF Schedule!Loaded
  <2>2. CASE loads[x].by = r
    <3>1. CommittedLoads[x] = NoJob /\ CommittedLoads'[x] = loads[x].job
      <4>1. loads'[x].by = Committed /\ loads'[x].job = loads[x].job
        <5>1. loads'[x] = [job |-> loads[x].job, by |-> Committed]
          BY <1>2, <2>2
        <5>2. QED
          BY <5>1
      <4>2. loads[x].by # Committed
        BY <2>2, MarksAreNoRunners
      <4>3. QED
        BY <1>4, <4>1, <4>2
    <3>2. x \in Expected /\ loads[x].job \in JobIds
      BY <1>2, <2>2, MarksAreNoRunners DEF OpenRows
    <3>3. jobs[x][loads[x].job].by \in {Committed, r}
      BY <2>2 DEF JobsFit, Sees
    <3>4. /\ jobs'[x][loads[x].job].by = Committed
          /\ jobs'[x][loads[x].job].state \in {"active", "terminal"}
      BY <1>1, <3>2, <3>3, MarksAreNoRunners DEF JobRow
    <3>5. CommittedJobs'[x][loads[x].job] # "none"
      BY <1>3, <3>2, <3>4
    <3>6. QED
      BY <3>1, <3>2, <3>5 DEF Schedule!Loaded
  <2>3. QED
    BY <2>1, <2>2
<1>9. QED
  BY <1>5, <1>6, <1>7, <1>8 DEF Schedule!Schedule

\* Runs that are not at their commit show nothing.
LEMMA NothingShown ==
  ASSUME \A x \in Exchanges, j \in JobIds :
           jobs'[x][j] = jobs[x][j] \/ Committed \notin {jobs[x][j].by, jobs'[x][j].by},
         \A x \in Exchanges :
           loads'[x] = loads[x] \/ Committed \notin {loads[x].by, loads'[x].by}
  PROVE  UNCHANGED Schedule!vars
BY DEF Schedule!vars, CommittedJobs, CommittedLoads

\* The committed tables are those of the abstract schedule: commits show jobs and
\* loads of trading exchanges at once, executors end jobs, and nothing else shows
\* (schedule_today_opening_load_jobs in the transactions of worker.py).
THEOREM SchedulerImplementsSchedule == Spec => ImplementsSchedule
<1>1. Init => Schedule!Init
  BY MarksAreNoRunners DEF Init, Schedule!Init, CommittedJobs, CommittedLoads
<1>2. SchedulerInv /\ OpenRows /\ [Next]_vars => [Schedule!Next]_(Schedule!vars)
  <2>1. SUFFICES ASSUME SchedulerInv, OpenRows, [Next]_vars
                 PROVE  Schedule!Next \/ UNCHANGED Schedule!vars
    OBVIOUS
  <2> USE DEF tables, counts, SchedulerInv
  <2>2. ASSUME NEW r \in Runners, Commit(r) PROVE Schedule!Next
    BY <2>1, <2>2, CommitSchedules DEF Schedule!Next
  <2>3. ASSUME NEW x \in Exchanges, NEW j \in Active(x), FinishJob(x, j) PROVE Schedule!Next
    <3>1. /\ j \in JobIds /\ loads' = loads
          /\ jobs[x][j].state = "active" /\ jobs[x][j].by = Committed
          /\ jobs' = [jobs EXCEPT ![x][j].state = "terminal"]
      BY <2>3 DEF FinishJob, Active
    <3>2. /\ jobs'[x][j].by = Committed /\ jobs'[x][j].state = "terminal"
          /\ \A y \in Exchanges, k \in JobIds : y # x \/ k # j => jobs'[y][k] = jobs[y][k]
      BY <2>1, <3>1, MarksAreNoRunners DEF TypeOK, JobRow
    <3>3. CommittedJobs[x][j] = "active"
      BY <3>1 DEF CommittedJobs
    <3>4. CommittedJobs' = [CommittedJobs EXCEPT ![x][j] = "terminal"]
      <4>1. \A y \in Exchanges \ {x} : CommittedJobs'[y] = CommittedJobs[y]
        BY <3>2 DEF CommittedJobs
      <4>2. CommittedJobs'[x] = [CommittedJobs[x] EXCEPT ![j] = "terminal"]
        <5>1. \A k \in JobIds :
                CommittedJobs'[x][k] = IF k = j THEN "terminal" ELSE CommittedJobs[x][k]
          BY <3>2 DEF CommittedJobs
        <5>2. /\ CommittedJobs[x] = [k \in JobIds |-> CommittedJobs[x][k]]
              /\ CommittedJobs'[x] = [k \in JobIds |-> CommittedJobs'[x][k]]
          BY DEF CommittedJobs
        <5> HIDE DEF CommittedJobs
        <5>3. QED
          BY <5>1, <5>2
      <4>3. /\ CommittedJobs = [y \in Exchanges |-> CommittedJobs[y]]
            /\ CommittedJobs' = [y \in Exchanges |-> CommittedJobs'[y]]
        BY DEF CommittedJobs
      <4> HIDE DEF CommittedJobs
      <4>4. QED
        BY <4>1, <4>2, <4>3
    <3>5. CommittedLoads' = CommittedLoads
      BY <3>1 DEF CommittedLoads
    <3>6. Schedule!Finish(x, j)
      BY <3>3, <3>4, <3>5 DEF Schedule!Finish
    <3>7. QED
      BY <3>1, <3>6 DEF Schedule!Next
  <2>4. ASSUME NEW r \in Runners, NEW x \in Exchanges, InsertJob(r, x)
        PROVE  UNCHANGED Schedule!vars
    <3>1. CASE Active(x) = {}
      <4>1. /\ loads' = loads
            /\ jobs' = [jobs EXCEPT ![x][NewId(x)] = [state |-> "active", by |-> r]]
        BY <2>4, <3>1 DEF InsertJob
      <4>2. NewId(x) \in JobIds /\ jobs[x][NewId(x)] = NoJobRow
        BY <2>1, <3>1 DEF RoomForOne, NewId, FreeIds
      <4>3. \A y \in Exchanges, j \in JobIds :
              \/ jobs'[y][j] = jobs[y][j]
              \/ jobs[y][j] = NoJobRow /\ jobs'[y][j].by = r
        BY <2>1, <4>1, <4>2 DEF TypeOK
      <4>4. QED
        BY <4>1, <4>3, MarksAreNoRunners, NothingShown
    <3>2. CASE Active(x) # {}
      BY <2>4, <3>2, NothingShown DEF InsertJob
    <3>3. QED
      BY <3>1, <3>2
  <2>5. ASSUME NEW r \in Runners, NEW x \in Exchanges, InsertLoad(r, x)
        PROVE  UNCHANGED Schedule!vars
    <3>1. \A y \in Exchanges :
            loads'[y] = loads[y] \/ (loads[y] = NoLoad /\ loads'[y].by = r)
      BY <2>1, <2>5 DEF InsertLoad, TypeOK
    <3>2. QED
      BY <2>5, <3>1, MarksAreNoRunners, NothingShown DEF InsertLoad
  <2>6. ASSUME NEW r \in Runners, Die(r) PROVE UNCHANGED Schedule!vars
    <3>1. \A x \in Exchanges, j \in JobIds :
            jobs'[x][j] = jobs[x][j] \/ (jobs[x][j].by = r /\ jobs'[x][j] = NoJobRow)
      BY <2>6 DEF Die
    <3>2. \A x \in Exchanges :
            loads'[x] = loads[x] \/ (loads[x].by = r /\ loads'[x] = NoLoad)
      BY <2>6 DEF Die
    <3>3. QED
      BY <3>1, <3>2, MarksAreNoRunners, NothingShown
  <2>7. CASE jobs' = jobs /\ loads' = loads
    BY <2>7, NothingShown
  <2>8. QED
    BY <2>1, <2>2, <2>3, <2>4, <2>5, <2>6, <2>7
       DEF Next, Advance, StartRun, CheckLoad, FindJob, FindAgain, InsertLoadFails,
           Restart, ChangeScope, vars
<1>3. SchedulerInv /\ OpenRows /\ [Next]_vars => OpenRows'
  BY NextOpenRows DEF SchedulerInv
<1>4. QED
  BY <1>1, <1>2, <1>3, SchedulerInvariant, InitOpenRows, PTL
     DEF Spec, ImplementsSchedule, Schedule!Spec

-----------------------------------------------------------------------------
(***************************************************************************)
(* Nobody waits in a circle.                                               *)
(***************************************************************************)

\* How far a runner is when it waits at exchange x: the job comes before the
\* load, and the exchanges come in their order.
Rank(r, x) == IF pc[r] = "insertLoad" THEN 2 * x + 1 ELSE 2 * x

\* Whoever is waited for, and waits itself, is ahead.
LEMMA WaitsForOneAhead ==
  ASSUME SchedulerInv, NEW r \in Runners, NEW s \in WaitsFor(r),
         NEW x \in Exchanges, IsNext(r, x),
         NEW y \in Exchanges, IsNext(s, y)
  PROVE  Rank(r, x) < Rank(s, y)
<1>1. PICK z \in Exchanges :
        /\ IsNext(r, z)
        /\ \/ pc[r] = "insertJob" /\ \E j \in JobIds : jobs[z][j].by = s
           \/ pc[r] = "insertLoad" /\ loads[z].by = s
  BY DEF WaitsFor, Active, SchedulerInv, TypeOK
<1>2. z = x
  BY <1>1, ExchangesAssumption DEF IsNext
<1>3. s \in Runners /\ x \in Nat /\ y \in Nat
  BY ExchangesAssumption DEF WaitsFor
<1>4. CASE Passed(s, x)
  <2>1. x < y
    BY <1>4 DEF Passed, IsNext
  <2>2. QED
    BY <1>3, <2>1 DEF Rank
<1>5. CASE AtLoad(s, x) /\ pc[r] = "insertJob"
  <2>1. x = y
    BY <1>3, <1>5, ExchangesAssumption DEF AtLoad, IsNext
  <2>2. QED
    BY <1>3, <1>5, <2>1 DEF Rank, AtLoad
<1>6. QED
  BY <1>1, <1>2, <1>3, <1>4, <1>5 DEF SchedulerInv, RowsBehind

\* A nonempty set of naturals has a least element.
LEMMA LeastOf ==
  ASSUME NEW S \in SUBSET Nat, S # {}
  PROVE  \E m \in S : \A n \in S : m <= n
<1>1. PICK m \in S : \A n \in S : <<n, m>> \notin OpToRel(<, Nat)
  BY NatLessThanWellFounded, WFMin
<1>2. \A n \in S : ~ (n < m)
  BY <1>1 DEF OpToRel
<1>3. QED
  BY <1>2

\* A finite nonempty one has a greatest element: the one with the fewest
\* elements above it.
LEMMA GreatestOf ==
  ASSUME NEW S \in SUBSET Nat, S # {}, IsFiniteSet(S)
  PROVE  \E m \in S : \A n \in S : n <= m
<1> DEFINE Above(m) == {n \in S : n > m}
           Sizes == {Cardinality(Above(m)) : m \in S}
<1>1. \A m \in S : IsFiniteSet(Above(m)) /\ Cardinality(Above(m)) \in Nat
  BY FS_Subset, FS_CardinalityType
<1>2. PICK m \in S : \A k \in S : Cardinality(Above(m)) <= Cardinality(Above(k))
  <2>1. Sizes \in SUBSET Nat /\ Sizes # {}
    BY <1>1
  <2>2. PICK c \in Sizes : \A d \in Sizes : c <= d
    BY <2>1, LeastOf
  <2>3. QED
    BY <2>2
<1>3. ASSUME NEW n \in S, n > m PROVE FALSE
  <2>1. Above(n) \subseteq Above(m) /\ Above(n) # Above(m)
    <3>1. n \in Nat /\ m \in Nat /\ n \in Above(m) /\ n \notin Above(n)
      BY <1>3
    <3>2. \A k \in Nat : k > n => k > m
      BY <1>3, <3>1
    <3>3. QED
      BY <3>1, <3>2
  <2>2. Cardinality(Above(n)) < Cardinality(Above(m))
    <3> HIDE DEF Above
    <3>1. Above(n) \in SUBSET Above(m)
      BY <2>1
    <3>2. Cardinality(Above(n)) <= Cardinality(Above(m)) /\ Cardinality(Above(n)) # Cardinality(Above(m))
      BY <1>1, <2>1, <3>1, FS_Subset
    <3>3. QED
      BY <1>1, <3>2
  <2>3. QED
    BY <1>1, <1>2, <2>2
<1>4. QED
  BY <1>3

\* However many runs wait for each other's uncommitted rows, one of them waits
\* for nobody who waits too: the one that is furthest ahead.
THEOREM NobodyWaitsInACircle == Spec => []NoWaitingCycle
<1>1. SchedulerInv => NoWaitingCycle
  <2>1. SUFFICES ASSUME SchedulerInv, NEW waiting \in SUBSET Runners, waiting # {},
                        \A r \in waiting : WaitsFor(r) \cap waiting # {}
                 PROVE  FALSE
    BY DEF NoWaitingCycle
  <2> DEFINE At == [r \in waiting |-> CHOOSE x \in Exchanges : IsNext(r, x)]
             Places == {At[r] : r \in waiting}
             Reached == {Rank(r, At[r]) : r \in waiting}
  <2>2. \A r \in waiting : At[r] \in Exchanges /\ IsNext(r, At[r])
    BY <2>1 DEF WaitsFor, SchedulerInv, TypeOK
  <2>3. Places \in SUBSET Exchanges
    BY <2>2
  <2>4. Places \in SUBSET Nat /\ Places # {} /\ IsFiniteSet(Places)
    <3>1. Places # {}
      BY <2>1
    <3> HIDE DEF Places
    <3>2. IsFiniteSet(Places)
      BY <2>3, ExchangesAssumption, FS_Subset
    <3>3. QED
      BY <2>3, <3>1, <3>2, ExchangesAssumption
  <2> HIDE DEF At
  <2>5. PICK furthest \in Places : \A x \in Places : x <= furthest
    <3> HIDE DEF Places
    <3> QED
      BY <2>4, GreatestOf
  <2>6. furthest \in Nat /\ \A r \in waiting : At[r] \in Nat /\ At[r] <= furthest
    BY <2>4, <2>5
  <2>7. \A r \in waiting : Rank(r, At[r]) \in 0..(2 * furthest + 1)
    BY <2>6 DEF Rank
  <2>8. Reached \in SUBSET Nat /\ Reached # {} /\ IsFiniteSet(Reached)
    <3>1. Reached \in SUBSET (0..(2 * furthest + 1))
      BY <2>7
    <3>2. 2 * furthest + 1 \in Int
      BY <2>6
    <3>3. IsFiniteSet(0..(2 * furthest + 1))
      BY <3>2, FS_Interval
    <3>4. Reached # {}
      BY <2>1
    <3> HIDE DEF Reached
    <3>5. IsFiniteSet(Reached)
      BY <3>1, <3>3, FS_Subset
    <3>6. QED
      BY <3>1, <3>4, <3>5
  <2>9. PICK top \in Reached : \A k \in Reached : k <= top
    <3> HIDE DEF Reached
    <3> QED
      BY <2>8, GreatestOf
  <2>10. PICK r \in waiting : top = Rank(r, At[r])
    BY <2>9
  <2>11. PICK s \in waiting : s \in WaitsFor(r)
    BY <2>1
  <2>12. Rank(r, At[r]) < Rank(s, At[s])
    BY <2>1, <2>2, <2>11, WaitsForOneAhead
  <2>13. Rank(s, At[s]) <= Rank(r, At[r])
    BY <2>9, <2>10
  <2>14. Rank(s, At[s]) \in Int /\ Rank(r, At[r]) \in Int
    BY <2>7
  <2>15. QED
    BY <2>12, <2>13, <2>14
<1>2. QED
  BY <1>1, SchedulerInvariant, PTL

=============================================================================
