---------------------------- MODULE SourceProbeRun ----------------------------
\* The commands that probe the sources, the records and the files they leave, and the
\* matrix of source roles derived from those files for the combined loader.
\*
\* A command is a process with one transaction.  Between the look-up of a source's
\* record and its insert or update another process may commit that record: the insert
\* then fails, and the update writes only the columns it found different when it looked.
\* A row that is written and not committed is locked.  All commands are given the same
\* database.
EXTENDS SourceProbeRules, FiniteSets

CONSTANTS
  Workers,      \* processes that run a command
  Commands,     \* of CommandNames
  Sources,      \* of AllSources: those of the instance
  Selections,   \* sequences of source codes an operator names
  Keys          \* run keys

CommandNames == {"worker", "non_keyed", "keyed_a", "keyed_b", "official", "macro"}
ASSUME Instance ==
  /\ Commands \subseteq CommandNames /\ Sources \subseteq AllSources
  /\ \A selection \in Selections :
       /\ selection \in Seq(Sources) /\ selection # <<>>
       /\ \A i, k \in DOMAIN selection : selection[i] = selection[k] => i = k

VARIABLES
  records,     \* committed: run key -> source -> evidence, or None
  job,         \* worker -> its command, or NoJob
  files,       \* family -> source -> evidence, or None: the file of its last run
  matrix,      \* source -> [evidence, probed], or None: the combined matrix
  mixed        \* history: sources an update ever met with another record than it read
vars == <<records, job, files, matrix, mixed>>

None == [available |-> FALSE, verdict |-> "none", role |-> NoRole]
NoJob == [at |-> "idle"]
NothingOf(sources) == [s \in sources |-> None]
Families == CommandNames \ {"worker"}

\* The probes a command registers, and the sources it lets an operator name.
Registered(command) ==
  CASE command \in {"worker", "non_keyed"} -> NonKeyed
    [] command = "keyed_a"  -> KeyedA
    [] command = "keyed_b"  -> KeyedB
    [] command = "official" -> Official
    [] command = "macro"    -> Macro
Nameable(command) ==
  IF command \in {"keyed_a", "official", "macro"} THEN Registered(command) ELSE AllSources

Init ==
  /\ records = [k \in Keys |-> NothingOf(Sources)]
  /\ job = [w \in Workers |-> NoJob]
  /\ files = [f \in Families |-> NothingOf(Sources)]
  /\ matrix = NothingOf(Sources)
  /\ mixed = {}

\* OPENFIGI takes a key, but registers a probe without secrets.
Keyable == KeyedA \cup KeyedB \cup {"OPENFIGI"}
SecretMode(source) == IF source \in KeyedA \cup KeyedB THEN "required" ELSE "none"

ElementsOf(seq) == {seq[i] : i \in DOMAIN seq}

\* An operator starts a command; keyed is the set of sources whose key is configured.
Start(w, command, key, selection, keyed) ==
  /\ job[w] = NoJob
  /\ ElementsOf(selection) \subseteq Nameable(command)
  /\ command = "macro" => ElementsOf(selection) = Macro
  /\ keyed \subseteq ElementsOf(selection) \cap Keyable
  /\ job' = [job EXCEPT ![w] =
       [at |-> "probing", command |-> command, key |-> key, keyed |-> keyed,
        todo |-> selection, named |-> ElementsOf(selection), outcome |-> None, read |-> None,
        writes |-> NothingOf(Sources), reported |-> NothingOf(Sources), overtaken |-> {},
        succeeded |-> {}, sent |-> {}]]
  /\ UNCHANGED <<records, files, matrix, mixed>>

\* -------------------------------------------------------------- one source of a run

Answers(source) == [1 .. Requests(source) -> Replies]
Outcomes == [s \in Sources |-> {Probe(s, answers) : answers \in Answers(s)}]
\* A provider that is sent a placeholder for a key returns no row.
Unkeyed == [s \in KeyedB \cap Sources |-> {Probe(s, <<r>>) : r \in {q \in Replies : ~HasRows(q)}}]

OutcomesIn(j, source) ==
  IF source \notin Registered(j.command) THEN {Rejected}
  ELSE IF source \in j.keyed THEN Outcomes[source]
  ELSE IF source \in KeyedA THEN {ForValidation(FALSE)}     \* not probed
  ELSE IF source \in KeyedB THEN Unkeyed[source]
  ELSE Outcomes[source]

\* A probe that returns evidence has succeeded, whatever the evidence.
Succeeds(j, source, outcome) ==
  source \in Registered(j.command) /\ (source \in KeyedA => source \in j.keyed) /\ outcome # Raised

Evidenced(outcome) == IF outcome = Raised THEN Rejected ELSE outcome

\* The probe, and the look-up of the source's record that follows it.
ProbeSource(w) ==
  LET j == job[w] IN
  /\ j.at = "probing" /\ j.todo # <<>>
  /\ \E outcome \in OutcomesIn(j, Head(j.todo)) :
       job' = [job EXCEPT
         ![w].at = "recording", ![w].outcome = Evidenced(outcome),
         ![w].read = records[j.key][Head(j.todo)],
         ![w].succeeded = IF Succeeds(j, Head(j.todo), outcome)
                          THEN @ \cup {Head(j.todo)} ELSE @,
         ![w].sent = IF SecretMode(Head(j.todo)) # "none" THEN @ \cup (j.keyed \cap {Head(j.todo)})
                     ELSE @]
  /\ UNCHANGED <<records, files, matrix, mixed>>

Locked(w, key, source) ==
  \E v \in Workers \ {w} : job[v].at # "idle" /\ job[v].key = key /\ job[v].writes[source] # None

Loses(w) ==
  LET j == job[w] IN j.read = None /\ records[j.key][Head(j.todo)] # None

\* Over the row as it is now the update writes the columns that differ from the row
\* that was read.
Columns == {"available", "verdict", "role"}
\* A faulty variant: a record that exists is left as it is.
Upserted_InsertOnly(read, stored, outcome) == IF read = None THEN outcome ELSE stored
Upserted(read, stored, outcome) ==
  IF read = None THEN outcome
  ELSE [c \in Columns |-> IF outcome[c] = read[c] THEN stored[c] ELSE outcome[c]]

RecordSource(w) ==
  LET j == job[w]
      source == Head(j.todo)
      stored == records[j.key][source]
      met == IF stored = j.read THEN {} ELSE {source}
  IN
  /\ j.at = "recording" /\ ~Locked(w, j.key, source) /\ ~Loses(w)
  /\ job' = [job EXCEPT
       ![w].at = "probing", ![w].todo = Tail(@),
       ![w].writes[source] = Upserted(j.read, stored, j.outcome),
       ![w].reported[source] = j.outcome, ![w].overtaken = @ \cup met,
       ![w].outcome = None, ![w].read = None]
  /\ mixed' = mixed \cup met
  /\ UNCHANGED <<records, files, matrix>>

\* ------------------------------------------------------------------ the end of a run

View(j) == [s \in Sources |-> IF j.writes[s] # None THEN j.writes[s] ELSE records[j.key][s]]
Probed(j) == j.at = "probing" /\ j.todo = <<>>
FileFirst(command) == command \in {"keyed_a", "official"}

WriteFile(w) ==
  LET j == job[w] IN
  /\ Probed(j) /\ FileFirst(j.command)
  /\ files' = [files EXCEPT ![j.command] = View(j)]
  /\ job' = [job EXCEPT ![w].at = "written"]
  /\ UNCHANGED <<records, matrix, mixed>>

Commit(w) ==
  LET j == job[w] IN
  /\ j.at = "written" \/ (Probed(j) /\ ~FileFirst(j.command))
  /\ records' = [records EXCEPT ![j.key] = View(j)]
  /\ job' = [job EXCEPT ![w] = IF j.at = "written" \/ j.command = "worker" THEN NoJob
                               ELSE [j EXCEPT !.at = "committed", !.writes = NothingOf(Sources)]]
  /\ UNCHANGED <<files, matrix, mixed>>

WriteFileAfter(w) ==
  LET j == job[w] IN
  /\ j.at = "committed"
  /\ files' = [files EXCEPT ![j.command] = records[j.key]]
  /\ job' = [job EXCEPT ![w] = NoJob]
  /\ UNCHANGED <<records, matrix, mixed>>

\* The unique constraint, a failing database or a kill: the transaction is lost.
Abort(w) ==
  /\ job[w].at # "idle"
  /\ job' = [job EXCEPT ![w] = NoJob]
  /\ UNCHANGED <<records, files, matrix, mixed>>

\* Later families overwrite earlier ones.
FamilyOrder == <<"non_keyed", "keyed_a", "keyed_b", "official", "macro">>
Naming(source) == {i \in DOMAIN FamilyOrder : files[FamilyOrder[i]][source] # None}
LastFamily(source) == FamilyOrder[CHOOSE i \in Naming(source) : \A k \in Naming(source) : k <= i]

Derive ==
  /\ matrix' = [s \in Sources |->
       IF Naming(s) = {} THEN None
       ELSE [evidence |-> files[LastFamily(s)][s], probed |-> s \in Registered(LastFamily(s))]]
  /\ UNCHANGED <<records, job, files, mixed>>

Next ==
  \/ \E w \in Workers :
       \/ \E command \in Commands, key \in Keys, selection \in Selections :
             \E keyed \in SUBSET (Keyable \cap ElementsOf(selection)) :
               Start(w, command, key, selection, keyed)
       \/ ProbeSource(w) \/ RecordSource(w)
       \/ WriteFile(w) \/ Commit(w) \/ WriteFileAfter(w) \/ Abort(w)
  \/ Derive

Spec == Init /\ [][Next]_vars

-------------------------------------------------------------------------------
\* What a run reports of each source it was asked for is what its commit records,
\* whatever the other sources' probes did and whatever the key had recorded before.
\* Excepted is a source whose record another command replaced between this run's
\* look-up and its update; one that was not on record at the look-up never is.
CommitRecordsReported ==
  [][\A w \in Workers : Commit(w) => \A s \in job[w].named :
       /\ job[w].reported[s] # None
       /\ s \in job[w].overtaken \/ records'[job[w].key][s] = job[w].reported[s]]_vars

\* The matrix drops the availability of a source before roles are given: still no
\* source is selectable for the loader whose evidence says it was not available,
\* unless an update ever mixed two probes of that source.
SelectableWasAvailable ==
  \A s \in Sources \ mixed :
    matrix[s] # None /\ Selectable(matrix[s].evidence.verdict, matrix[s].evidence.role)
      => matrix[s].evidence.available

-----------------------------------------------------------------------------
\* Claims of the documents and comments that the code does not keep: TLC refutes
\* each of them (README, "Where the code and its documents disagree").

\* "Persisted evidence records availability, speed notes, exchange usefulness, and
\* verdict for each source": what is committed of a source is what its probe reported.
RecordIsOfItsProbe ==
  [][\A w \in Workers : Commit(w) => \A s \in job[w].named :
       records'[job[w].key][s] = job[w].reported[s]]_vars

\* "Missing or optional provider secrets produce explicit, auditable skip/fail outcomes
\* rather than silent success": a keyed source without its key is not a success.
MissingKeyIsNoSuccess ==
  \A w \in Workers : job[w].at # "idle" =>
    job[w].succeeded \cap (KeyedA \cup KeyedB) \subseteq job[w].keyed

\* "OPENFIGI_API_KEY (optional, improves probe quota/availability)": a configured key
\* is sent by the probe.
OptionalKeyIsSent ==
  \A w \in Workers : job[w].at # "idle" =>
    job[w].succeeded \cap job[w].keyed \subseteq job[w].sent

\* "Run live source probes through worker runtime": the sources named are probed.
NamedSourceIsProbed ==
  \A w \in Workers : job[w].at = "recording" => Head(job[w].todo) \in Registered(job[w].command)

\* "Derive explicit verdicts and runtime roles from persisted live evidence": what is
\* recorded of a source reaches the matrix,
EvidenceReachesMatrix ==
  [][Derive => \A s \in Sources :
       (\E k \in Keys : records[k][s] # None) => matrix'[s] # None]_vars

\* what is in the matrix is recorded,
MatrixIsRecorded ==
  [][Derive => \A s \in Sources :
       matrix'[s] # None => \E k \in Keys : records[k][s] = matrix'[s].evidence]_vars

\* and it comes from a command that has a probe for the source.
MatrixIsLiveEvidence == \A s \in Sources : matrix[s] # None => matrix[s].probed
===============================================================================
