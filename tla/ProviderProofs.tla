--------------------------- MODULE ProviderProofs ---------------------------
(***************************************************************************)
(* Proofs about what becomes of providers' answers: the source probes, for *)
(* every number of processes, every set of run keys, selections and        *)
(* sources of the program; the selection of opening prices, for any        *)
(* providers, offers, policies and listings; the reliability scores, for   *)
(* any windows; and the validation runs, for any keys, exchanges and jobs  *)
(* beside them.  The last three are instances that share no state with the *)
(* probes or with one another, as in Providers.                            *)
(***************************************************************************)
EXTENDS Providers, Integers, Sequences, FiniteSets, FiniteSetTheorems,
        WellFoundedInduction, TLAPS

-----------------------------------------------------------------------------
(***************************************************************************)
(* What a probe may return: evidence that is available whenever its        *)
(* verdict lets the loader select the source.  No lemma looks at the       *)
(* replies: it is true of every combination of them.                       *)
(***************************************************************************)

Honest(e) == Selectable(e.verdict, e.role) => e.available
Honests == {e \in Evidence : Honest(e)}
Recorded == Honests \cup {None}

\* Only two verdicts let a source be selected.
LEMMA SelectableVerdicts ==
  ASSUME NEW verdict, NEW role, Selectable(verdict, role)
  PROVE  verdict \in {"promote", "fallback_only"}
BY DEF Selectable, RuntimeRole, LoaderRoles

LEMMA AvailableHonest ==
  ASSUME NEW verdict \in Verdicts, NEW role \in Roles
  PROVE  Available(verdict, role) \in Honests
BY DEF Available, Honests, Honest, Evidence

LEMMA ForValidationHonest ==
  ASSUME NEW available \in BOOLEAN
  PROVE  ForValidation(available) \in Honests
<1>1. ForValidation(available) \in Evidence
  BY DEF ForValidation, Evidence, Verdicts, Roles
<1>2. ~Selectable("validation_only", "validation_only")
  BY SelectableVerdicts
<1>3. QED
  BY <1>1, <1>2 DEF ForValidation, Honests, Honest

LEMMA RejectedHonest == Rejected \in Honests
<1>1. Rejected \in Evidence
  BY DEF Rejected, Evidence, Verdicts, Roles
<1>2. ~Selectable("reject", NoRole)
  BY SelectableVerdicts
<1>3. QED
  BY <1>1, <1>2 DEF Rejected, Honests, Honest

LEMMA NoneHonest == Honest(None) /\ None \notin Honests
<1>1. ~Selectable("none", NoRole)
  BY SelectableVerdicts
<1>2. None.verdict = "none" /\ None.role = NoRole
  BY DEF None
<1>3. None \notin Evidence
  BY <1>2 DEF Evidence, Verdicts
<1>4. QED
  BY <1>1, <1>2, <1>3 DEF Honest, Honests

\* A keyed-A probe is available as soon as it saw American rows, and nothing less is
\* promoted or made a fallback.
LEMMA KeyedAHonest ==
  ASSUME NEW source, NEW replies
  PROVE  KeyedAProbe(source, replies) \in Honests
<1> DEFINE us == HasRows(replies[Len(replies) - 1])
           czech == replies[Len(replies)]
           prague == czech.body = "rows" \/ (source = "EODHD" /\ HasRows(czech))
           throttled == source = "ALPHA_VANTAGE" /\ \E i \in DOMAIN replies : replies[i].body = "note"
           coverage == Coverage(us, prague)
           available == us \/ (prague /\ source \in {"EODHD", "ALPHA_VANTAGE"})
           verdict == IF throttled THEN "validation_only" ELSE coverage.verdict
           role == IF throttled THEN "validation_only" ELSE coverage.role
           rated == [available |-> available, verdict |-> verdict, role |-> role]
<1>1. KeyedAProbe(source, replies) =
        IF \E i \in DOMAIN replies : ~Ok(replies[i]) THEN ForValidation(FALSE) ELSE rated
  BY DEF KeyedAProbe
<1>2. /\ coverage.verdict \in {"promote", "fallback_only", "validation_only"}
      /\ coverage.role \in {"primary_discovery", "fallback_discovery", "validation_only"}
      /\ coverage.verdict # "validation_only" => us
  BY DEF Coverage
<1> HIDE DEF us, prague, throttled, coverage
<1>3. available \in BOOLEAN
  <2>1. available = TRUE \/ available = FALSE
    OBVIOUS
  <2>2. QED
    BY <2>1, Zenon
<1>4. verdict \in Verdicts /\ role \in Roles
  BY <1>2 DEF Verdicts, Roles, LoaderRoles
<1>5. ASSUME Selectable(verdict, role) PROVE available
  BY <1>2, <1>5, SelectableVerdicts
<1> HIDE DEF available, verdict, role
<1>6. rated \in Evidence
  BY <1>3, <1>4 DEF Evidence
<1>7. rated.available = available /\ rated.verdict = verdict /\ rated.role = role
  OBVIOUS
<1>8. rated \in Honests
  BY <1>5, <1>6, <1>7 DEF Honests, Honest
<1> HIDE DEF rated
<1>9. QED
  BY <1>1, <1>8, ForValidationHonest

LEMMA KeyedBHonest ==
  ASSUME NEW source, NEW reply
  PROVE  KeyedBProbe(source, reply) \in Honests \cup {Raised}
<1>1. /\ "fallback_only" \in Verdicts
      /\ "fallback_discovery" \in Roles
  BY DEF Verdicts, Roles, LoaderRoles
<1>2. QED
  BY <1>1, AvailableHonest, ForValidationHonest, RejectedHonest DEF KeyedBProbe

\* Every other probe is available whenever it returns a verdict that can be selected.
LEMMA OthersHonest ==
  ASSUME NEW replies, NEW reply, NEW other
  PROVE  /\ YFinance(replies) \in Honests
         /\ Stooq(reply) \in Honests
         /\ AkShare(reply) \in Honests
         /\ NasdaqTrader(reply) \in Honests
         /\ Nyse(reply, other) \in Honests
         /\ Pse(reply, other) \in Honests
         /\ OpenFigi(reply) \in Honests
         /\ NasdaqDataLink(reply) \in Honests
         /\ MacroProbe(reply) \in Honests \cup {Raised}
<1>1. /\ {"promote", "fallback_only", "not_for_universe_loader"} \subseteq Verdicts
      /\ {"primary_discovery", "fallback_discovery", "symbology_normalization",
          "metadata_enrichment", "not_for_universe_loader"} \subseteq Roles
  BY DEF Verdicts, Roles, LoaderRoles
<1>2. QED
  BY <1>1, AvailableHonest, ForValidationHonest, RejectedHonest
     DEF YFinance, Stooq, AkShare, NasdaqTrader, Nyse, Pse, OpenFigi, NasdaqDataLink, MacroProbe

LEMMA ProbeHonest ==
  ASSUME NEW source \in AllSources, NEW replies
  PROVE  Probe(source, replies) \in Honests \cup {Raised}
BY KeyedAHonest, KeyedBHonest, OthersHonest
   DEF Probe, AllSources, NonKeyed, KeyedA, KeyedB, Official, Macro

\* What is recorded of a source is evidence, and honest.
LEMMA OutcomeHonest ==
  ASSUME NEW j, NEW source \in Sources, NEW outcome \in OutcomesIn(j, source)
  PROVE  Evidenced(outcome) \in Honests
<1>1. source \in AllSources
  BY Instance
<1>2. outcome \in Honests \cup {Raised}
  <2>1. ASSUME outcome \in Outcomes[source] PROVE outcome \in Honests \cup {Raised}
    BY <1>1, <2>1, ProbeHonest DEF Outcomes
  <2>2. ASSUME source \in KeyedB, outcome \in Unkeyed[source] PROVE outcome \in Honests \cup {Raised}
    BY <1>1, <2>2, ProbeHonest DEF Unkeyed
  <2>3. QED
    BY <2>1, <2>2, ForValidationHonest, RejectedHonest DEF OutcomesIn
<1>3. QED
  BY <1>2, RejectedHonest DEF Evidenced

-----------------------------------------------------------------------------
(***************************************************************************)
(* The inductive invariant: of a source whose probes were never mixed,     *)
(* everything that is recorded, written, filed or about to be is honest;   *)
(* and of each source a run was asked for, its turn is still to come, or   *)
(* another command overtook it, or what it wrote is what it reports.       *)
(***************************************************************************)

Entries == [available : BOOLEAN, verdict : Verdicts \cup {"none"}, role : Roles]
Row == [Sources -> Entries]
Sound(row, unsure) == \A s \in Sources \ unsure : row[s] \in Recorded
Stages == {"probing", "recording", "written", "committed"}
Jobs == [at : Stages, command : CommandNames, key : Keys, keyed : SUBSET Sources,
         todo : Seq(Sources), named : SUBSET Sources, outcome : Recorded, read : Entries,
         writes : Row, reported : Row, overtaken : SUBSET Sources, succeeded : SUBSET Sources, sent : SUBSET Sources]

Recording(j) == j.at = "recording" => j.todo # <<>> /\ j.outcome \in Honests
Finishing(j) == j.at = "written" => j.todo = <<>>
Accounted(j) ==
  j.at \in {"probing", "recording", "written"} =>
    \A s \in j.named : \/ s \in ElementsOf(j.todo)
                      \/ (j.reported[s] # None /\ (s \in j.overtaken \/ j.writes[s] = j.reported[s]))
JobOK(j, unsure) == Recording(j) /\ Finishing(j) /\ Accounted(j) /\ Sound(j.writes, unsure)

Derived(entry) == entry = None \/ entry.evidence \in Recorded

ProbeInv ==
  /\ records \in [Keys -> Row] /\ \A k \in Keys : Sound(records[k], mixed)
  /\ files \in [Families -> Row] /\ \A f \in Families : Sound(files[f], mixed)
  /\ job \in [Workers -> {NoJob} \cup Jobs]
  /\ \A w \in Workers : job[w] # NoJob => JobOK(job[w], mixed)
  /\ \A s \in Sources \ mixed : Derived(matrix[s])

LEMMA RecordedIsAnEntry == Recorded \subseteq Entries /\ None \in Recorded /\ None \in Entries
<1>1. None \in Entries
  BY DEF None, Entries, Roles
<1>2. Evidence \subseteq Entries
  BY DEF Evidence, Entries
<1>3. QED
  BY <1>1, <1>2 DEF Recorded, Honests

LEMMA NothingIsARow == NothingOf(Sources) \in Row /\ \A m : Sound(NothingOf(Sources), m)
BY RecordedIsAnEntry DEF NothingOf, Row, Sound

LEMMA SoundStays ==
  ASSUME NEW row, NEW m, NEW n, Sound(row, m), m \subseteq n
  PROVE  Sound(row, n)
BY DEF Sound

LEMMA JobAt ==
  ASSUME ProbeInv, NEW w \in Workers, job[w].at \in Stages
  PROVE  job[w] \in Jobs /\ JobOK(job[w], mixed)
<1>1. job[w] \in {NoJob} \cup Jobs
  BY DEF ProbeInv
<1>2. NoJob.at \notin Stages
  BY DEF NoJob, Stages
<1>3. QED
  BY <1>1, <1>2 DEF ProbeInv

\* A step of one process that changes only its job, and what it records or files.
LEMMA OneJobMoves ==
  ASSUME ProbeInv, NEW w \in Workers, NEW next \in {NoJob} \cup Jobs,
         job' = [job EXCEPT ![w] = next], mixed \subseteq mixed',
         next # NoJob => JobOK(next, mixed'),
         records' \in [Keys -> Row], \A k \in Keys : Sound(records'[k], mixed'),
         files' \in [Families -> Row], \A f \in Families : Sound(files'[f], mixed'),
         UNCHANGED matrix
  PROVE  ProbeInv'
<1>1. job' \in [Workers -> {NoJob} \cup Jobs]
  BY DEF ProbeInv
<1>2. ASSUME NEW v \in Workers, job'[v] # NoJob PROVE JobOK(job'[v], mixed')
  <2>1. CASE v = w
    BY <1>2, <2>1 DEF ProbeInv
  <2>2. CASE v # w
    <3>1. job'[v] = job[v] /\ JobOK(job[v], mixed)
      BY <1>2, <2>2 DEF ProbeInv
    <3>2. QED
      BY <3>1, SoundStays DEF JobOK
  <2>3. QED
    BY <2>1, <2>2
<1>3. \A s \in Sources \ mixed' : Derived(matrix'[s])
  BY DEF ProbeInv
<1>4. \A v \in Workers : job'[v] # NoJob => JobOK(job'[v], mixed')
  BY <1>2
<1>5. QED
  BY <1>1, <1>3, <1>4 DEF ProbeInv

LEMMA InitProbeInv == Init => ProbeInv
<1>1. SUFFICES ASSUME Init PROVE ProbeInv
  OBVIOUS
<1>2. /\ records \in [Keys -> Row] /\ \A k \in Keys : Sound(records[k], mixed)
      /\ files \in [Families -> Row] /\ \A f \in Families : Sound(files[f], mixed)
      /\ job = [w \in Workers |-> NoJob]
  BY <1>1, NothingIsARow DEF Init
<1>3. \A s \in Sources \ mixed : Derived(matrix[s])
  BY <1>1 DEF Init, NothingOf, Derived
<1>4. QED
  BY <1>2, <1>3 DEF ProbeInv

LEMMA StartKeeps ==
  ASSUME ProbeInv, NEW w \in Workers, NEW command \in Commands, NEW key \in Keys,
         NEW selection \in Selections, NEW keyed \in SUBSET (Keyable \cap ElementsOf(selection)),
         Start(w, command, key, selection, keyed)
  PROVE  ProbeInv'
<1> DEFINE next ==
      [at |-> "probing", command |-> command, key |-> key, keyed |-> keyed,
       todo |-> selection, named |-> ElementsOf(selection), outcome |-> None, read |-> None,
       writes |-> NothingOf(Sources), reported |-> NothingOf(Sources), overtaken |-> {},
       succeeded |-> {}, sent |-> {}]
<1>1. /\ selection \in Seq(Sources) /\ command \in CommandNames
  BY Instance
<1>2. ElementsOf(selection) \subseteq Sources
  BY <1>1 DEF ElementsOf
<1>3. next \in Jobs
  BY <1>1, <1>2, NothingIsARow, RecordedIsAnEntry DEF Jobs, Stages
<1>4. JobOK(next, mixed)
  BY NothingIsARow DEF JobOK, Recording, Finishing, Accounted
<1>5. job' = [job EXCEPT ![w] = next]
  BY DEF Start
<1> HIDE DEF next
<1>6. QED
  BY <1>3, <1>4, <1>5, OneJobMoves DEF Start, ProbeInv

LEMMA ProbeSourceKeeps ==
  ASSUME ProbeInv, NEW w \in Workers, ProbeSource(w)
  PROVE  ProbeInv'
<1> DEFINE j == job[w]
           source == Head(j.todo)
<1>1. /\ j \in Jobs /\ JobOK(j, mixed) /\ j.at = "probing" /\ j.todo # <<>>
      /\ j.todo \in Seq(Sources) /\ source \in Sources
  BY JobAt DEF ProbeSource, Stages, Jobs
<1>2. PICK outcome \in OutcomesIn(j, source) :
        job' = [job EXCEPT
          ![w].at = "recording", ![w].outcome = Evidenced(outcome),
          ![w].read = records[j.key][source],
          ![w].succeeded = IF Succeeds(j, source, outcome) THEN @ \cup {source} ELSE @,
          ![w].sent = IF SecretMode(source) # "none" THEN @ \cup (j.keyed \cap {source}) ELSE @]
  BY DEF ProbeSource
<1> DEFINE read == records[j.key][source]
           succeeded == IF Succeeds(j, source, outcome) THEN j.succeeded \cup {source}
                        ELSE j.succeeded
           sent == IF SecretMode(source) # "none" THEN j.sent \cup (j.keyed \cap {source})
                   ELSE j.sent
           next == [j EXCEPT !.at = "recording", !.outcome = Evidenced(outcome), !.read = read,
                             !.succeeded = succeeded, !.sent = sent]
<1>3. Evidenced(outcome) \in Honests
  BY <1>1, OutcomeHonest
<1>4. read \in Entries
  BY <1>1 DEF ProbeInv, Row, Jobs
<1>5. succeeded \in SUBSET Sources /\ sent \in SUBSET Sources
  BY <1>1 DEF Jobs
<1>6. job' = [job EXCEPT ![w] = next]
  BY <1>2
<1> HIDE DEF read, succeeded, sent
<1>7. /\ next \in Jobs /\ next.at = "recording" /\ next.todo = j.todo
      /\ next.outcome = Evidenced(outcome) /\ next.named = j.named
      /\ next.reported = j.reported /\ next.writes = j.writes /\ next.overtaken = j.overtaken
  BY <1>1, <1>3, <1>4, <1>5 DEF Jobs, Stages, Recorded
<1>8. JobOK(next, mixed)
  BY <1>1, <1>3, <1>7 DEF JobOK, Recording, Finishing, Accounted
<1> HIDE DEF next
<1>9. QED
  BY <1>6, <1>7, <1>8, OneJobMoves DEF ProbeSource, ProbeInv

LEMMA UpsertedEntry ==
  ASSUME NEW read \in Entries, NEW stored \in Entries, NEW outcome \in Honests
  PROVE  /\ Upserted(read, stored, outcome) \in Entries
         /\ read = None \/ read = stored => Upserted(read, stored, outcome) = outcome
<1>1. outcome \in Entries /\ outcome = [c \in Columns |-> outcome[c]]
  BY RecordedIsAnEntry DEF Recorded, Entries, Columns, Honests, Evidence
<1>2. CASE read = None
  BY <1>1, <1>2 DEF Upserted
<1>3. CASE read # None
  <2> DEFINE new == [c \in Columns |-> IF outcome[c] = read[c] THEN stored[c] ELSE outcome[c]]
  <2>1. Upserted(read, stored, outcome) = new
    BY <1>3 DEF Upserted
  <2>2. /\ new["available"] \in BOOLEAN /\ new["verdict"] \in Verdicts \cup {"none"}
        /\ new["role"] \in Roles
    <3>1. /\ outcome["available"] \in BOOLEAN /\ stored["available"] \in BOOLEAN
          /\ outcome["verdict"] \in Verdicts \cup {"none"}
          /\ stored["verdict"] \in Verdicts \cup {"none"}
          /\ outcome["role"] \in Roles /\ stored["role"] \in Roles
      BY <1>1 DEF Entries
    <3>2. /\ new["available"] \in {outcome["available"], stored["available"]}
          /\ new["verdict"] \in {outcome["verdict"], stored["verdict"]}
          /\ new["role"] \in {outcome["role"], stored["role"]}
      BY DEF Columns
    <3>3. QED
      BY <3>1, <3>2
  <2>3. new \in Entries
    BY <2>2 DEF Entries, Columns
  <2>4. ASSUME read = stored PROVE new = outcome
    <3>1. \A c \in Columns : new[c] = outcome[c]
      BY <2>4
    <3>2. QED
      BY <1>1, <3>1
  <2>5. QED
    BY <1>3, <2>1, <2>3, <2>4
<1>4. QED
  BY <1>2, <1>3

LEMMA RecordSourceKeeps ==
  ASSUME ProbeInv, NEW w \in Workers, RecordSource(w)
  PROVE  ProbeInv'
<1> DEFINE j == job[w]
           source == Head(j.todo)
           stored == records[j.key][source]
           met == IF stored = j.read THEN {} ELSE {source}
           new == Upserted(j.read, stored, j.outcome)
           next == [j EXCEPT !.at = "probing", !.todo = Tail(j.todo),
                             !.writes = [j.writes EXCEPT ![source] = new],
                             !.reported = [j.reported EXCEPT ![source] = j.outcome],
                             !.overtaken = j.overtaken \cup met,
                             !.outcome = None, !.read = None]
<1>1. /\ j \in Jobs /\ JobOK(j, mixed) /\ j.at = "recording" /\ j.todo # <<>>
      /\ j.todo \in Seq(Sources) /\ source \in Sources /\ j.outcome \in Honests
      /\ j.writes \in Row /\ j.reported \in Row
      /\ stored \in Entries /\ j.read \in Entries /\ j.overtaken \subseteq Sources
  <2>1. j.at = "recording"
    BY DEF RecordSource
  <2>2. j \in Jobs /\ JobOK(j, mixed)
    BY <2>1, JobAt DEF Stages
  <2>3. j.todo # <<>> /\ j.outcome \in Honests
    BY <2>1, <2>2 DEF JobOK, Recording
  <2>4. /\ j.todo \in Seq(Sources) /\ j.writes \in Row /\ j.reported \in Row
        /\ j.read \in Entries /\ j.overtaken \subseteq Sources /\ j.key \in Keys
    BY <2>2 DEF Jobs
  <2>5. source \in Sources
    BY <2>3, <2>4
  <2>6. stored \in Entries
    BY <2>4, <2>5 DEF ProbeInv, Row
  <2>7. QED
    BY <2>1, <2>2, <2>3, <2>4, <2>5, <2>6
<1>2. new \in Entries /\ (met = {} => new = j.outcome) /\ met \subseteq {source}
  <2>1. new \in Entries /\ (j.read = None \/ j.read = stored => new = j.outcome)
    BY <1>1, UpsertedEntry
  <2> HIDE DEF new
  <2>2. met = {} => stored = j.read
    OBVIOUS
  <2>3. met \subseteq {source}
    OBVIOUS
  <2>4. QED
    BY <2>1, <2>2, <2>3
<1>3. job' = [job EXCEPT ![w] = next] /\ mixed' = mixed \cup met
  <2>1. job' = [job EXCEPT
          ![w].at = "probing", ![w].todo = Tail(@),
          ![w].writes[source] = new, ![w].reported[source] = j.outcome,
          ![w].overtaken = @ \cup met, ![w].outcome = None, ![w].read = None]
    BY DEF RecordSource
  <2>2. mixed' = mixed \cup met
    BY DEF RecordSource
  <2> HIDE DEF new, met
  <2>3. QED
    BY <1>1, <2>1, <2>2 DEF Jobs
<1> HIDE DEF new, met
<1>4. /\ [j.writes EXCEPT ![source] = new] \in Row
      /\ [j.reported EXCEPT ![source] = j.outcome] \in Row
      /\ Tail(j.todo) \in Seq(Sources) /\ j.overtaken \cup met \subseteq Sources
  BY <1>1, <1>2, RecordedIsAnEntry DEF Row, Recorded
<1>5. /\ next \in Jobs /\ next.at = "probing" /\ next.todo = Tail(j.todo)
      /\ next.named = j.named /\ next.overtaken = j.overtaken \cup met
      /\ next.writes = [j.writes EXCEPT ![source] = new]
      /\ next.reported = [j.reported EXCEPT ![source] = j.outcome]
  BY <1>1, <1>4, RecordedIsAnEntry DEF Jobs, Stages
<1> HIDE DEF next
<1>6. Accounted(next)
  <2>1. ASSUME NEW s \in j.named
        PROVE  \/ s \in ElementsOf(Tail(j.todo))
               \/ /\ next.reported[s] # None
                  /\ s \in next.overtaken \/ next.writes[s] = next.reported[s]
    <3>1. s \in Sources
      BY <1>1 DEF Jobs
    <3>2. CASE s = source
      <4>1. next.reported[s] = j.outcome /\ next.writes[s] = new
        BY <1>1, <1>5, <3>1, <3>2 DEF Row
      <4>2. j.outcome # None
        BY <1>1, NoneHonest
      <4>3. source \in met \/ new = j.outcome
        BY <1>2
      <4>4. QED
        BY <1>5, <3>2, <4>1, <4>2, <4>3
    <3>3. CASE s # source /\ s \in ElementsOf(j.todo)
      <4>1. PICK i \in DOMAIN j.todo : j.todo[i] = s
        BY <3>3 DEF ElementsOf
      <4>2. i \in 2 .. Len(j.todo)
        BY <1>1, <3>3, <4>1
      <4>3. i - 1 \in DOMAIN Tail(j.todo) /\ Tail(j.todo)[i - 1] = s
        BY <1>1, <4>1, <4>2
      <4>4. QED
        BY <4>3 DEF ElementsOf
    <3>4. CASE s # source /\ s \notin ElementsOf(j.todo)
      <4>1. j.reported[s] # None /\ (s \in j.overtaken \/ j.writes[s] = j.reported[s])
        BY <1>1, <3>4 DEF JobOK, Accounted
      <4>2. next.reported[s] = j.reported[s] /\ next.writes[s] = j.writes[s]
        BY <1>1, <1>5, <3>1, <3>4 DEF Row
      <4>3. QED
        BY <1>5, <4>1, <4>2
    <3>5. QED
      BY <3>2, <3>3, <3>4
  <2>2. QED
    BY <2>1, <1>5 DEF Accounted
<1>7. Sound(next.writes, mixed')
  <2>1. ASSUME NEW s \in Sources \ mixed' PROVE next.writes[s] \in Recorded
    <3>1. CASE s = source
      BY <1>1, <1>2, <1>3, <1>5, <2>1, <3>1 DEF Row, Recorded
    <3>2. CASE s # source
      BY <1>1, <1>3, <1>5, <2>1, <3>2 DEF Row, JobOK, Sound
    <3>3. QED
      BY <3>1, <3>2
  <2>2. QED
    BY <2>1 DEF Sound
<1>8. JobOK(next, mixed')
  BY <1>5, <1>6, <1>7 DEF JobOK, Recording, Finishing
<1>9. UNCHANGED <<records, files, matrix>> /\ mixed \subseteq mixed'
  BY <1>3 DEF RecordSource
<1>10. /\ records' \in [Keys -> Row] /\ \A k \in Keys : Sound(records'[k], mixed')
       /\ files' \in [Families -> Row] /\ \A f \in Families : Sound(files'[f], mixed')
  BY <1>9, SoundStays DEF ProbeInv
<1>11. QED
  BY <1>3, <1>5, <1>8, <1>9, <1>10, OneJobMoves

\* What a transaction sees of its run key is a row of the records.
LEMMA ViewIsARow ==
  ASSUME ProbeInv, NEW w \in Workers, job[w] \in Jobs
  PROVE  View(job[w]) \in Row /\ Sound(View(job[w]), mixed)
<1>1. job[w].key \in Keys /\ job[w].writes \in Row /\ job[w] # NoJob
  BY DEF Jobs, NoJob, Stages
<1>2. Sound(job[w].writes, mixed) /\ Sound(records[job[w].key], mixed)
  BY <1>1 DEF ProbeInv, JobOK
<1>3. QED
  BY <1>1, <1>2 DEF View, ProbeInv, Row, Sound

LEMMA WriteFileKeeps ==
  ASSUME ProbeInv, NEW w \in Workers, WriteFile(w)
  PROVE  ProbeInv'
<1> DEFINE j == job[w]
           next == [j EXCEPT !.at = "written"]
<1>1. j \in Jobs /\ JobOK(j, mixed) /\ j.at = "probing" /\ j.todo = <<>>
  BY JobAt DEF WriteFile, Probed, Stages
<1>2. job' = [job EXCEPT ![w] = next]
  BY DEF WriteFile
<1>3. /\ next \in Jobs /\ next.at = "written" /\ next.todo = j.todo /\ next.named = j.named
      /\ next.writes = j.writes /\ next.reported = j.reported /\ next.overtaken = j.overtaken
  BY <1>1 DEF Jobs, Stages
<1>4. JobOK(next, mixed)
  BY <1>1, <1>3 DEF JobOK, Recording, Finishing, Accounted
<1>5. files' \in [Families -> Row] /\ \A f \in Families : Sound(files'[f], mixed)
  BY <1>1, ViewIsARow DEF WriteFile, ProbeInv
<1> HIDE DEF next
<1>6. QED
  BY <1>2, <1>3, <1>4, <1>5, OneJobMoves DEF WriteFile, ProbeInv

LEMMA CommitKeeps ==
  ASSUME ProbeInv, NEW w \in Workers, Commit(w)
  PROVE  ProbeInv'
<1> DEFINE j == job[w]
           kept == [j EXCEPT !.at = "committed", !.writes = NothingOf(Sources)]
           next == IF j.at = "written" \/ j.command = "worker" THEN NoJob ELSE kept
<1>1. j \in Jobs /\ JobOK(j, mixed) /\ j.at \in {"probing", "written"} /\ j.todo = <<>>
  BY JobAt DEF Commit, Probed, Stages, JobOK, Finishing
<1>2. job' = [job EXCEPT ![w] = next]
  BY DEF Commit
<1>3. kept \in Jobs /\ kept.at = "committed" /\ kept.writes = NothingOf(Sources)
  BY <1>1, NothingIsARow DEF Jobs, Stages
<1>4. JobOK(kept, mixed)
  BY <1>3, NothingIsARow DEF JobOK, Recording, Finishing, Accounted
<1>5. records' \in [Keys -> Row] /\ \A k \in Keys : Sound(records'[k], mixed)
  BY <1>1, ViewIsARow DEF Commit, ProbeInv
<1> HIDE DEF kept
<1>6. next \in {NoJob} \cup Jobs /\ (next # NoJob => JobOK(next, mixed))
  BY <1>3, <1>4
<1> HIDE DEF next
<1>7. QED
  BY <1>2, <1>5, <1>6, OneJobMoves DEF Commit, ProbeInv

LEMMA WriteFileAfterKeeps ==
  ASSUME ProbeInv, NEW w \in Workers, WriteFileAfter(w)
  PROVE  ProbeInv'
<1>1. job[w] \in Jobs
  BY JobAt DEF WriteFileAfter, Stages
<1>2. files' \in [Families -> Row] /\ \A f \in Families : Sound(files'[f], mixed)
  BY <1>1 DEF WriteFileAfter, ProbeInv, Jobs
<1>3. QED
  BY <1>2, OneJobMoves DEF WriteFileAfter, ProbeInv

LEMMA AbortKeeps ==
  ASSUME ProbeInv, NEW w \in Workers, Abort(w)
  PROVE  ProbeInv'
BY OneJobMoves DEF Abort, ProbeInv

\* Every family has a place in the order, so the last one that names a source is one
\* that names it.
LEMMA LastFamilyIsAFamily ==
  ASSUME NEW source \in Sources, Naming(source) # {}
  PROVE  LastFamily(source) \in Families
<1> DEFINE Latest(i) == \A k \in Naming(source) : k <= i
<1>1. Naming(source) \subseteq 1 .. 5
  BY DEF Naming, FamilyOrder
<1>2. \E i \in Naming(source) : Latest(i)
  <2>1. Naming(source) \cap {1, 2, 3, 4, 5} # {}
    BY <1>1
  <2>2. CASE 5 \in Naming(source)
    BY <1>1, <2>2
  <2>3. CASE 5 \notin Naming(source) /\ 4 \in Naming(source)
    BY <1>1, <2>3
  <2>4. CASE Naming(source) \subseteq {1, 2, 3} /\ 3 \in Naming(source)
    BY <1>1, <2>4
  <2>5. CASE Naming(source) \subseteq {1, 2} /\ 2 \in Naming(source)
    BY <1>1, <2>5
  <2>6. CASE Naming(source) \subseteq {1}
    BY <1>1, <2>6
  <2>7. QED
    BY <1>1, <2>2, <2>3, <2>4, <2>5, <2>6
<1>3. (CHOOSE i \in Naming(source) : Latest(i)) \in 1 .. 5
  BY <1>1, <1>2
<1>4. \A i \in 1 .. 5 : FamilyOrder[i] \in Families
  BY DEF FamilyOrder, Families, CommandNames
<1>5. QED
  BY <1>3, <1>4 DEF LastFamily

LEMMA DeriveKeeps == ProbeInv /\ Derive => ProbeInv'
<1>1. SUFFICES ASSUME ProbeInv, Derive PROVE ProbeInv'
  OBVIOUS
<1>2. ASSUME NEW s \in Sources \ mixed PROVE Derived(matrix'[s])
  <2>1. CASE Naming(s) = {}
    BY <1>1, <1>2, <2>1 DEF Derive, Derived
  <2>2. CASE Naming(s) # {}
    <3>1. files[LastFamily(s)][s] \in Recorded
      BY <1>1, <1>2, <2>2, LastFamilyIsAFamily DEF ProbeInv, Sound
    <3>2. matrix'[s] = [evidence |-> files[LastFamily(s)][s],
                        probed |-> s \in Registered(LastFamily(s))]
      BY <1>1, <1>2, <2>2 DEF Derive
    <3>3. QED
      BY <3>1, <3>2 DEF Derived
  <2>3. QED
    BY <2>1, <2>2
<1>3. UNCHANGED <<records, job, files, mixed>>
  BY <1>1 DEF Derive
<1>4. QED
  BY <1>1, <1>2, <1>3 DEF ProbeInv

LEMMA NextProbeInv == ProbeInv /\ [Next]_vars => ProbeInv'
<1>1. SUFFICES ASSUME ProbeInv, [Next]_vars PROVE ProbeInv'
  OBVIOUS
<1>2. CASE UNCHANGED vars
  BY <1>1, <1>2 DEF vars, ProbeInv
<1>3. QED
  BY <1>1, <1>2, StartKeeps, ProbeSourceKeeps, RecordSourceKeeps, WriteFileKeeps, CommitKeeps,
     WriteFileAfterKeeps, AbortKeeps, DeriveKeeps DEF Next

LEMMA ProbeInvariant == Spec => []ProbeInv
BY InitProbeInv, NextProbeInv, PTL DEF Spec

-----------------------------------------------------------------------------
\* No source the matrix lets the loader select was unavailable when it was probed, for
\* every reply of every provider (build_combined_source_matrix drops the availability),
\* unless an update once met another record than it had read.
THEOREM SelectableIsAvailable == Spec => []SelectableWasAvailable
<1>1. ProbeInv => SelectableWasAvailable
  BY NoneHonest DEF ProbeInv, Derived, Recorded, Honests, Honest, SelectableWasAvailable
<1>2. QED
  BY <1>1, ProbeInvariant, PTL

\* What a run reports of the sources it was asked for is what its commit records, but
\* of those whose record was replaced between look-up and update
\* (run_live_source_probes, persist_source_validation_record).
THEOREM CommitsWhatItReports == Spec => CommitRecordsReported
<1>1. ASSUME ProbeInv, NEW w \in Workers, Commit(w), NEW s \in job[w].named
      PROVE  /\ job[w].reported[s] # None
             /\ s \in job[w].overtaken \/ records'[job[w].key][s] = job[w].reported[s]
  <2>1. /\ job[w] \in Jobs /\ JobOK(job[w], mixed) /\ job[w].todo = <<>>
        /\ job[w].at \in {"probing", "written"}
    BY <1>1, JobAt DEF Commit, Probed, Stages, JobOK, Finishing
  <2>2. /\ job[w].reported[s] # None
        /\ s \in job[w].overtaken \/ job[w].writes[s] = job[w].reported[s]
    BY <1>1, <2>1 DEF JobOK, Accounted, ElementsOf
  <2>3. s \in Sources /\ job[w].key \in Keys
    BY <1>1, <2>1 DEF Jobs
  <2>4. records'[job[w].key] = View(job[w])
    BY <1>1, <2>3 DEF Commit, ProbeInv
  <2>5. QED
    BY <2>2, <2>3, <2>4 DEF View
<1>2. ProbeInv /\ [Next]_vars =>
        [\A w \in Workers : Commit(w) => \A s \in job[w].named :
           /\ job[w].reported[s] # None
           /\ s \in job[w].overtaken \/ records'[job[w].key][s] = job[w].reported[s]]_vars
  BY <1>1
<1>3. QED
  BY <1>2, ProbeInvariant, PTL DEF Spec, CommitRecordsReported

-----------------------------------------------------------------------------
(***************************************************************************)
(* OpeningPriceSelection: the ranking.                                     *)
(***************************************************************************)

Ranking == [reliability : Int, history : Int, coverage : Int, order : Int]

LEMMA CriteriaAre ==
  /\ DOMAIN Selection!Criteria = 1..4
  /\ Selection!Criteria[1] = "reliability" /\ Selection!Criteria[2] = "history"
  /\ Selection!Criteria[3] = "coverage" /\ Selection!Criteria[4] = "order"
BY DEF Selection!Criteria

\* One ranking precedes another by the first criterion on which they differ.
LEMMA PrecedesMeaning ==
  ASSUME NEW a \in Ranking, NEW b \in Ranking
  PROVE  Selection!Precedes(a, b) <=>
           \/ a.reliability > b.reliability
           \/ a.reliability = b.reliability /\ a.history > b.history
           \/ a.reliability = b.reliability /\ a.history = b.history /\ a.coverage > b.coverage
           \/ a.reliability = b.reliability /\ a.history = b.history /\ a.coverage = b.coverage
                /\ a.order < b.order
<1> DEFINE First(i) == Selection!AgreeBefore(i, a, b) /\ Selection!Better(Selection!Criteria[i], a, b)
<1>1. Selection!Precedes(a, b) <=> \E i \in 1..4 : First(i)
  BY CriteriaAre DEF Selection!Precedes
<1>2. First(1) <=> a.reliability > b.reliability
  BY CriteriaAre DEF Selection!AgreeBefore, Selection!Better
<1>3. First(2) <=> a.reliability = b.reliability /\ a.history > b.history
  <2>1. 1..(2 - 1) = {1}
    OBVIOUS
  <2>2. QED
    BY <2>1, CriteriaAre DEF Selection!AgreeBefore, Selection!Better
<1>4. First(3) <=> a.reliability = b.reliability /\ a.history = b.history /\ a.coverage > b.coverage
  <2>1. 1..(3 - 1) = {1, 2}
    OBVIOUS
  <2>2. QED
    BY <2>1, CriteriaAre DEF Selection!AgreeBefore, Selection!Better
<1>5. First(4) <=> a.reliability = b.reliability /\ a.history = b.history /\ a.coverage = b.coverage
                     /\ a.order < b.order
  <2>1. 1..(4 - 1) = {1, 2, 3}
    OBVIOUS
  <2>2. QED
    BY <2>1, CriteriaAre DEF Selection!AgreeBefore, Selection!Better
<1> HIDE DEF First
<1>6. QED
  <2>1. (\E i \in 1..4 : First(i)) <=> First(1) \/ First(2) \/ First(3) \/ First(4)
    <3>1. 1..4 = {1, 2, 3, 4}
      OBVIOUS
    <3>2. QED
      BY <3>1
  <2>2. QED
    BY <1>1, <1>2, <1>3, <1>4, <1>5, <2>1

LEMMA PrecedesAsymmetric ==
  ASSUME NEW a \in Ranking, NEW b \in Ranking
  PROVE  ~(Selection!Precedes(a, b) /\ Selection!Precedes(b, a))
<1>1. /\ a.reliability \in Int /\ a.history \in Int /\ a.coverage \in Int /\ a.order \in Int
      /\ b.reliability \in Int /\ b.history \in Int /\ b.coverage \in Int /\ b.order \in Int
  BY DEF Ranking
<1>2. QED
  BY <1>1, PrecedesMeaning

\* Agreement before a criterion is mutual, and who is not preceded on it is the
\* better one if they differ.
LEMMA NotPreceded ==
  ASSUME NEW a \in Ranking, NEW b \in Ranking, ~Selection!Precedes(b, a),
         NEW i \in DOMAIN Selection!Criteria, Selection!AgreeBefore(i, a, b)
  PROVE  /\ ~Selection!Better(Selection!Criteria[i], b, a)
         /\ a[Selection!Criteria[i]] # b[Selection!Criteria[i]] =>
              Selection!Better(Selection!Criteria[i], a, b)
<1>1. Selection!AgreeBefore(i, b, a)
  BY DEF Selection!AgreeBefore
<1>2. ~Selection!Better(Selection!Criteria[i], b, a)
  BY <1>1 DEF Selection!Precedes
<1>3. a[Selection!Criteria[i]] \in Int /\ b[Selection!Criteria[i]] \in Int
  BY CriteriaAre DEF Ranking
<1>4. ASSUME a[Selection!Criteria[i]] # b[Selection!Criteria[i]]
      PROVE  Selection!Better(Selection!Criteria[i], a, b)
  <2>1. CASE Selection!Criteria[i] = "order"
    BY <1>2, <1>3, <1>4, <2>1 DEF Selection!Better
  <2>2. CASE Selection!Criteria[i] # "order"
    BY <1>2, <1>3, <1>4, <2>2 DEF Selection!Better
  <2>3. QED
    BY <2>1, <2>2
<1>5. QED
  BY <1>2, <1>4

LEMMA PrecedesTransitive ==
  ASSUME NEW a \in Ranking, NEW b \in Ranking, NEW c \in Ranking,
         Selection!Precedes(a, b), Selection!Precedes(b, c)
  PROVE  Selection!Precedes(a, c)
<1>1. /\ a.reliability \in Int /\ a.history \in Int /\ a.coverage \in Int /\ a.order \in Int
      /\ b.reliability \in Int /\ b.history \in Int /\ b.coverage \in Int /\ b.order \in Int
      /\ c.reliability \in Int /\ c.history \in Int /\ c.coverage \in Int /\ c.order \in Int
  BY DEF Ranking
<1>2. QED
  BY <1>1, PrecedesMeaning

\* Of two different rankings one precedes the other.
LEMMA PrecedesTotal ==
  ASSUME NEW a \in Ranking, NEW b \in Ranking, ~Selection!Precedes(a, b), a # b
  PROVE  Selection!Precedes(b, a)
<1>1. /\ a.reliability \in Int /\ a.history \in Int /\ a.coverage \in Int /\ a.order \in Int
      /\ b.reliability \in Int /\ b.history \in Int /\ b.coverage \in Int /\ b.order \in Int
  BY DEF Ranking
<1>2. \/ a.reliability # b.reliability \/ a.history # b.history
      \/ a.coverage # b.coverage \/ a.order # b.order
  BY DEF Ranking
<1>3. QED
  BY <1>1, <1>2, PrecedesMeaning

\* A nonempty set of natural numbers has a least element.
LEMMA LeastOf ==
  ASSUME NEW S \in SUBSET Nat, S # {}
  PROVE  \E m \in S : \A n \in S : m <= n
<1>1. PICK m \in S : \A n \in S : ~(<<n, m>> \in OpToRel(<, Nat))
  BY NatLessThanWellFounded, WFMin
<1>2. \A n \in S : ~(n < m)
  BY <1>1 DEF OpToRel
<1>3. QED
  BY <1>2

\* The best of finitely many keys is one of them that no other precedes: the one
\* with the fewest ahead of it is such a key.
LEMMA BestOfMany ==
  ASSUME NEW policy, NEW keys, IsFiniteSet(keys), keys # {},
         \A k \in keys : policy[k.candidate.provider] \in Ranking
  PROVE  /\ Selection!Best(policy, keys) \in keys
         /\ \A k \in keys :
              ~Selection!Precedes(policy[k.candidate.provider],
                                  policy[Selection!Best(policy, keys).candidate.provider])
<1> DEFINE rank(k) == policy[k.candidate.provider]
           ahead(k) == {o \in keys : Selection!Precedes(rank(o), rank(k))}
           sizes == {Cardinality(ahead(k)) : k \in keys}
           Unpreceded(k) == \A o \in keys : ~Selection!Precedes(rank(o), rank(k))
<1>1. \A k \in keys : IsFiniteSet(ahead(k)) /\ Cardinality(ahead(k)) \in Nat
  <2>1. ASSUME NEW k \in keys PROVE IsFiniteSet(ahead(k))
    <3>1. ahead(k) \in SUBSET keys
      OBVIOUS
    <3>2. QED
      BY <3>1, FS_Subset
  <2>2. QED
    BY <2>1, FS_CardinalityType
<1>2. sizes \in SUBSET Nat /\ sizes # {}
  BY <1>1
<1>3. PICK n \in sizes : \A m \in sizes : n <= m
  BY <1>2, LeastOf
<1>4. PICK k \in keys : Cardinality(ahead(k)) = n
  BY <1>3
<1>5. ASSUME NEW o \in keys, Selection!Precedes(rank(o), rank(k)) PROVE FALSE
  <2>1. rank(o) \in Ranking /\ rank(k) \in Ranking
    OBVIOUS
  <2>2. ahead(o) \in SUBSET ahead(k)
    <3>1. ASSUME NEW p \in keys, Selection!Precedes(rank(p), rank(o))
          PROVE  Selection!Precedes(rank(p), rank(k))
      <4>1. rank(p) \in Ranking
        OBVIOUS
      <4> HIDE DEF rank
      <4>2. QED
        BY <1>5, <2>1, <3>1, <4>1, PrecedesTransitive
    <3>2. QED
      BY <3>1
  <2>3. ahead(o) # ahead(k)
    <3>1. ~Selection!Precedes(rank(o), rank(o))
      BY <2>1, PrecedesAsymmetric
    <3>2. QED
      BY <1>5, <3>1
  <2>4. Cardinality(ahead(o)) \in Nat /\ Cardinality(ahead(k)) \in Nat /\ IsFiniteSet(ahead(k))
    BY <1>1
  <2>5. Cardinality(ahead(o)) \in sizes
    OBVIOUS
  <2> HIDE DEF ahead, sizes
  <2>6. Cardinality(ahead(o)) <= Cardinality(ahead(k)) /\ Cardinality(ahead(o)) # Cardinality(ahead(k))
    BY <2>2, <2>3, <2>4, FS_Subset
  <2>7. QED
    BY <1>3, <1>4, <2>4, <2>5, <2>6
<1>6. \E best \in keys : Unpreceded(best)
  BY <1>5
<1>7. Selection!Best(policy, keys) = CHOOSE best \in keys : Unpreceded(best)
  BY DEF Selection!Best
<1> HIDE DEF Unpreceded
<1>8. Unpreceded(Selection!Best(policy, keys)) /\ Selection!Best(policy, keys) \in keys
  BY <1>6, <1>7
<1>9. QED
  BY <1>8 DEF Unpreceded

-----------------------------------------------------------------------------
(***************************************************************************)
(* OpeningPriceSelection: what one call finds.                             *)
(***************************************************************************)

KeysOf(answer, audit) == [i \in DOMAIN answer |-> Selection!Key(answer[i], audit)]
KeySet(answer, audit) == {Selection!Key(c, audit) : c \in Selection!Range(answer)}

LEMMA AnswerShape ==
  ASSUME Selection!Parameters, NEW answer \in Selection!Answers
  PROVE  /\ Len(answer) \in Nat /\ DOMAIN answer = 1..Len(answer)
         /\ answer \in Seq(Offered)
         /\ answer # <<>> => Len(answer) > 0
<1>1. PICK n \in 0..MaxAnswer : answer \in [1..n -> Offered]
  BY DEF Selection!Answers, Selection!BoundedSeq, Selection!SeqOf
<1>2. n \in Nat
  BY DEF Selection!Parameters
<1>3. QED
  BY <1>1, <1>2

\* Of an answer that the call does not refuse, all candidates are of listings on
\* record and of providers with a policy.
LEMMA AcceptedAnswer ==
  ASSUME Selection!Parameters, NEW answer \in Selection!Answers,
         NEW policy \in Policies, Selection!Accepted(answer, policy)
  PROVE  \A c \in Selection!Range(answer) :
           c \in Offered /\ c.listing \in Listings /\ policy[c.provider] \in Ranking
<1>1. /\ Len(answer) \in Nat /\ DOMAIN answer = 1..Len(answer) /\ answer \in Seq(Offered)
      /\ \A i \in DOMAIN answer : answer[i] \in Offered
  BY AnswerShape
<1>2. \A i \in DOMAIN answer : answer[i].listing # Unknown
  <2> DEFINE unknown == {i \in DOMAIN answer : answer[i].listing = Unknown}
             first == CHOOSE i \in unknown : \A j \in unknown : i <= j
  <2>1. SUFFICES ASSUME unknown # {} PROVE FALSE
    OBVIOUS
  <2>2. \E i \in unknown : \A j \in unknown : i <= j
    <3>1. unknown \in SUBSET Nat
      BY <1>1
    <3> HIDE DEF unknown
    <3>2. QED
      BY <2>1, <3>1, LeastOf
  <2>3. first \in unknown
    BY <2>2
  <2>4. answer = SubSeq(answer, 1, first - 1)
    BY <2>1 DEF Selection!Accepted, Selection!KnownPrefix
  <2>5. first \in 1..Len(answer)
    BY <1>1, <2>3
  <2> HIDE DEF first
  <2>6. Len(SubSeq(answer, 1, first - 1)) = first - 1
    BY <1>1, <2>5
  <2>7. QED
    BY <1>1, <2>4, <2>5, <2>6
<1>3. ASSUME NEW i \in DOMAIN answer
      PROVE  answer[i].listing \in Listings /\ policy[answer[i].provider] \in Ranking
  <2>1. answer[i] \in Offered /\ answer[i].listing # Unknown
    BY <1>1, <1>2
  <2>2. answer[i].listing \in Listings
    BY <2>1 DEF Selection!Parameters, Selection!Candidate
  <2>3. answer[i].provider \in DOMAIN policy
    BY DEF Selection!Accepted, Selection!HasPolicy, Selection!Range
  <2>4. QED
    BY <2>2, <2>3 DEF Selection!Parameters, Ranking
<1>4. QED
  BY <1>1, <1>3 DEF Selection!Range

\* The keys of a call: finitely many, one of each candidate.
LEMMA KeysAreFinite ==
  ASSUME Selection!Parameters, NEW answer \in Selection!Answers, answer # <<>>, NEW audit
  PROVE  IsFiniteSet(KeySet(answer, audit)) /\ KeySet(answer, audit) # {}
<1> DEFINE n == Len(answer)
           keys == KeysOf(answer, audit)
<1>1. n \in Nat /\ n > 0 /\ DOMAIN answer = 1..n
  BY AnswerShape
<1>2. KeySet(answer, audit) = {keys[i] : i \in 1..n}
  BY <1>1 DEF KeySet, KeysOf, Selection!Range
<1> HIDE DEF n
<1>3. keys \in Surjection(1..n, KeySet(answer, audit))
  BY <1>1, <1>2 DEF Surjection, KeysOf
<1>4. IsFiniteSet(1..n)
  BY <1>1, FS_Interval
<1>5. IsFiniteSet(KeySet(answer, audit))
  BY <1>3, <1>4, FS_Surjection
<1>6. 1 \in 1..n
  BY <1>1
<1>7. QED
  BY <1>2, <1>5, <1>6

LEMMA KeysOfRange ==
  ASSUME NEW answer, NEW audit
  PROVE  Selection!Range(KeysOf(answer, audit))
           = KeySet(answer, audit)
BY DEF Selection!Range, KeysOf, KeySet

LEMMA KeyMeaning ==
  ASSUME NEW c, NEW audit
  PROVE  Selection!Key(c, audit).candidate = c
BY DEF Selection!Key

\* The winner is a candidate of the answer that none of them precedes.
LEMMA WinnerIsBest ==
  ASSUME Selection!Parameters, NEW answer \in Selection!Answers, answer # <<>>,
         NEW policy \in Policies, Selection!Accepted(answer, policy), NEW audit, NEW winner,
         winner = Selection!Winner(policy, KeysOf(answer, audit))
  PROVE  /\ winner.candidate \in Selection!Range(answer)
         /\ winner = Selection!Key(winner.candidate, audit)
         /\ winner.candidate.listing \in Listings
         /\ \A c \in Selection!Range(answer) :
              /\ policy[c.provider] \in Ranking
              /\ ~Selection!Precedes(policy[c.provider], policy[winner.candidate.provider])
<1>1. \A c \in Selection!Range(answer) : c.listing \in Listings /\ policy[c.provider] \in Ranking
  BY AcceptedAnswer
<1>2. \A c : Selection!Key(c, audit).candidate = c
  BY KeyMeaning
<1>3. winner = Selection!Best(policy, KeySet(answer, audit))
  BY KeysOfRange DEF Selection!Winner
<1>4. \A k \in KeySet(answer, audit) : policy[k.candidate.provider] \in Ranking
  BY <1>1, <1>2 DEF KeySet
<1>5. /\ winner \in KeySet(answer, audit)
      /\ \A k \in KeySet(answer, audit) :
           ~Selection!Precedes(policy[k.candidate.provider], policy[winner.candidate.provider])
  BY <1>3, <1>4, KeysAreFinite, BestOfMany
<1>6. QED
  BY <1>1, <1>2, <1>5 DEF KeySet

LEMMA SameCardinality ==
  ASSUME NEW S
  PROVE  Selection!Cardinality(S) = Cardinality(S)
BY DEF Selection!Cardinality, Cardinality

LEMMA RepeatedWinner ==
  ASSUME NEW policy, NEW keys,
         Cardinality({i \in DOMAIN keys : keys[i] = Selection!Winner(policy, keys)}) > 1
  PROVE  Selection!RunnerUp(policy, keys) = Selection!Winner(policy, keys)
BY SameCardinality DEF Selection!RunnerUp

\* The winner's criteria against those of the others, as the reason names them.
Explains(reason, policy, winner, answer) ==
  \A i \in DOMAIN Selection!Criteria : Selection!Criteria[i] = reason =>
    LET a == policy[winner.candidate.provider]
        others == {policy[c.provider] : c \in Selection!Range(answer) \ {winner.candidate}}
    IN  /\ \A b \in others :
             \E j \in 1..i : Selection!AgreeBefore(j, a, b)
                               /\ Selection!Better(Selection!Criteria[j], a, b)
        /\ \E b \in others : Selection!AgreeBefore(i, a, b)

\* The reason found between the winner and the runner-up.
LEMMA FirstDifference ==
  ASSUME NEW a \in Ranking, NEW b \in Ranking, ~Selection!Precedes(b, a),
         NEW i \in DOMAIN Selection!Criteria, NEW differ,
         differ = {j \in DOMAIN Selection!Criteria :
                     a[Selection!Criteria[j]] # b[Selection!Criteria[j]]},
         differ # {},
         Selection!Criteria[i] = Selection!Criteria[CHOOSE j \in differ : \A h \in differ : j <= h]
  PROVE  Selection!AgreeBefore(i, a, b) /\ Selection!Better(Selection!Criteria[i], a, b)
<1> DEFINE first == CHOOSE j \in differ : \A h \in differ : j <= h
<1>1. \E j \in differ : \A h \in differ : j <= h
  <2>1. differ \subseteq {1, 2, 3, 4}
    BY CriteriaAre
  <2>2. QED
    BY <2>1
<1>2. first \in differ /\ \A h \in differ : first <= h
  BY <1>1
<1> HIDE DEF first
<1>3. first \in 1..4 /\ i \in 1..4
  BY <1>2, CriteriaAre
<1>4. first = i
  <2>1. Selection!Criteria[i] = Selection!Criteria[first]
    BY DEF first
  <2>2. 1..4 = {1, 2, 3, 4}
    OBVIOUS
  <2>3. QED
    BY <1>3, <2>1, <2>2, CriteriaAre
<1>5. Selection!AgreeBefore(i, a, b)
  <2>1. ASSUME NEW j \in 1..(i - 1) PROVE a[Selection!Criteria[j]] = b[Selection!Criteria[j]]
    BY <1>2, <1>3, <1>4, CriteriaAre
  <2>2. QED
    BY <2>1 DEF Selection!AgreeBefore
<1>6. QED
  BY <1>2, <1>4, <1>5, NotPreceded

\* Who beats one that beats a third, beats the third at the earlier criterion of
\* the two.
LEMMA BeatsThrough ==
  ASSUME NEW a \in Ranking, NEW b \in Ranking, NEW c \in Ranking,
         NEW i \in DOMAIN Selection!Criteria, NEW k \in DOMAIN Selection!Criteria,
         Selection!AgreeBefore(i, a, b), Selection!Better(Selection!Criteria[i], a, b),
         Selection!AgreeBefore(k, b, c), Selection!Better(Selection!Criteria[k], b, c)
  PROVE  \E j \in 1..i : Selection!AgreeBefore(j, a, c)
                           /\ Selection!Better(Selection!Criteria[j], a, c)
<1> DEFINE name(j) == Selection!Criteria[j]
<1>1. i \in 1..4 /\ k \in 1..4
  BY CriteriaAre
<1>2. /\ \A j \in 1..(i - 1) : a[name(j)] = b[name(j)]
      /\ \A j \in 1..(k - 1) : b[name(j)] = c[name(j)]
  BY DEF Selection!AgreeBefore
<1>3. \A j \in 1..4 : a[name(j)] \in Int /\ b[name(j)] \in Int /\ c[name(j)] \in Int
  <2>1. 1..4 = {1, 2, 3, 4}
    OBVIOUS
  <2>2. QED
    BY <2>1, CriteriaAre DEF Ranking
<1> HIDE DEF name
<1>4. CASE k < i
  <2>1. \A j \in 1..(k - 1) : a[name(j)] = c[name(j)]
    BY <1>1, <1>2, <1>4
  <2>2. a[name(k)] = b[name(k)]
    BY <1>1, <1>2, <1>4
  <2>3. Selection!Better(name(k), a, c)
    BY <2>2 DEF Selection!Better, name
  <2>4. QED
    BY <1>1, <1>4, <2>1, <2>3 DEF Selection!AgreeBefore, name
<1>5. CASE i < k
  <2>1. \A j \in 1..(i - 1) : a[name(j)] = c[name(j)]
    BY <1>1, <1>2, <1>5
  <2>2. b[name(i)] = c[name(i)]
    BY <1>1, <1>2, <1>5
  <2>3. Selection!Better(name(i), a, c)
    BY <2>2 DEF Selection!Better, name
  <2>4. QED
    BY <1>1, <2>1, <2>3 DEF Selection!AgreeBefore, name
<1>6. CASE k = i
  <2>1. \A j \in 1..(i - 1) : a[name(j)] = c[name(j)]
    BY <1>1, <1>2, <1>6
  <2>2. Selection!Better(name(i), a, c)
    <3>1. Selection!Better(name(i), a, b) /\ Selection!Better(name(i), b, c)
      BY <1>6 DEF name
    <3>2. a[name(i)] \in Int /\ b[name(i)] \in Int /\ c[name(i)] \in Int
      BY <1>1, <1>3
    <3>3. CASE name(i) = "order"
      BY <3>1, <3>2, <3>3 DEF Selection!Better
    <3>4. CASE name(i) # "order"
      BY <3>1, <3>2, <3>4 DEF Selection!Better
    <3>5. QED
      BY <3>3, <3>4
  <2>3. QED
    BY <1>1, <2>1, <2>2 DEF Selection!AgreeBefore, name
<1>7. QED
  BY <1>1, <1>4, <1>5, <1>6

\* Where the runner-up is another than the winner, it is the best of the rest.
LEMMA RunnerUpIsSecond ==
  ASSUME Selection!Parameters, NEW answer \in Selection!Answers, answer # <<>>,
         NEW policy \in Policies, Selection!Accepted(answer, policy), NEW audit,
         NEW winner, winner = Selection!Winner(policy, KeysOf(answer, audit)),
         NEW second, second = Selection!RunnerUp(policy, KeysOf(answer, audit)),
         Len(KeysOf(answer, audit)) # 1, second # winner
  PROVE  /\ second.candidate \in Selection!Range(answer) \ {winner.candidate}
         /\ policy[second.candidate.provider] \in Ranking
         /\ \A c \in Selection!Range(answer) \ {winner.candidate} :
              ~Selection!Precedes(policy[c.provider], policy[second.candidate.provider])
<1> DEFINE keys == KeysOf(answer, audit)
           rest == KeySet(answer, audit) \ {winner}
           places == {i \in DOMAIN keys : keys[i] = winner}
<1>1. second = Selection!Best(policy, rest) /\ ~(Cardinality(places) > 1)
  BY RepeatedWinner, KeysOfRange, SameCardinality DEF Selection!RunnerUp
<1>2. \A c : Selection!Key(c, audit).candidate = c
  BY KeyMeaning
<1>3. winner = Selection!Key(winner.candidate, audit)
  BY WinnerIsBest
<1>4. rest # {}
  <2>1. SUFFICES ASSUME rest = {} PROVE FALSE
    OBVIOUS
  <2>2. Len(answer) \in Nat /\ DOMAIN answer = 1..Len(answer) /\ Len(answer) > 0
    BY AnswerShape
  <2>3. DOMAIN keys = 1..Len(answer) /\ Len(keys) = Len(answer)
    BY <2>2 DEF KeysOf
  <2>4. \A i \in DOMAIN keys : keys[i] = winner
    BY <2>1 DEF KeysOf, KeySet, Selection!Range
  <2>5. places = 1..Len(answer)
    BY <2>3, <2>4
  <2> HIDE DEF places
  <2>6. Cardinality(places) = Len(answer)
    BY <2>2, <2>5, FS_Interval
  <2>7. QED
    BY <1>1, <2>2, <2>3, <2>6
<1>5. IsFiniteSet(rest)
  <2>1. rest \in SUBSET KeySet(answer, audit)
    OBVIOUS
  <2>2. QED
    BY <2>1, KeysAreFinite, FS_Subset
<1>6. \A k \in rest : policy[k.candidate.provider] \in Ranking
  BY <1>2, AcceptedAnswer DEF KeySet
<1> HIDE DEF rest
<1>7. /\ second \in rest
      /\ \A k \in rest :
           ~Selection!Precedes(policy[k.candidate.provider], policy[second.candidate.provider])
  BY <1>1, <1>4, <1>5, <1>6, BestOfMany
<1>8. rest = {Selection!Key(c, audit) : c \in Selection!Range(answer) \ {winner.candidate}}
  BY <1>2, <1>3 DEF rest, KeySet
<1>9. QED
  BY <1>2, <1>6, <1>7, <1>8

LEMMA ReasonFits ==
  ASSUME Selection!Parameters, NEW answer \in Selection!Answers, answer # <<>>,
         NEW policy \in Policies, Selection!Accepted(answer, policy), NEW audit, NEW winner,
         winner = Selection!Winner(policy, KeysOf(answer, audit))
  PROVE  Explains(Selection!Reason(policy, KeysOf(answer, audit)), policy, winner, answer)
<1> DEFINE keys == KeysOf(answer, audit)
           reason == Selection!Reason(policy, keys)
           second == Selection!RunnerUp(policy, keys)
           a == policy[winner.candidate.provider]
           b == policy[second.candidate.provider]
           others == {policy[c.provider] : c \in Selection!Range(answer) \ {winner.candidate}}
           differ == {i \in DOMAIN Selection!Criteria :
                        a[Selection!Criteria[i]] # b[Selection!Criteria[i]]}
<1>1. \A i \in DOMAIN Selection!Criteria : Selection!Criteria[i] \notin {"single_candidate", "tiebreak"}
  <2>1. 1..4 = {1, 2, 3, 4}
    OBVIOUS
  <2>2. QED
    BY <2>1, CriteriaAre
<1>2. SUFFICES ASSUME Len(keys) # 1, differ # {} PROVE Explains(reason, policy, winner, answer)
  <2>1. Len(keys) = 1 => reason = "single_candidate"
    BY DEF Selection!Reason
  <2>2. Len(keys) # 1 /\ differ = {} => reason = "tiebreak"
    BY DEF Selection!Reason
  <2>3. QED
    BY <1>1, <2>1, <2>2 DEF Explains
<1>3. reason = Selection!Criteria[CHOOSE i \in differ : \A j \in differ : i <= j]
  BY <1>2 DEF Selection!Reason
<1>4. ASSUME second = winner PROVE FALSE
  BY <1>2, <1>4
<1>5. /\ second.candidate \in Selection!Range(answer) \ {winner.candidate}
      /\ b \in Ranking
      /\ \A o \in others : ~Selection!Precedes(o, b)
  BY <1>2, <1>4, RunnerUpIsSecond
<1>6. /\ a \in Ranking /\ ~Selection!Precedes(b, a)
      /\ b \in others /\ \A o \in others : o \in Ranking
  BY <1>5, WinnerIsBest
<1> HIDE DEF a, b, keys, reason, second, others
<1>7. ASSUME NEW i \in DOMAIN Selection!Criteria, Selection!Criteria[i] = reason
      PROVE  Selection!AgreeBefore(i, a, b) /\ Selection!Better(Selection!Criteria[i], a, b)
  BY <1>2, <1>3, <1>5, <1>6, <1>7, FirstDifference
<1>8. ASSUME NEW i \in DOMAIN Selection!Criteria, Selection!Criteria[i] = reason, NEW o \in others
      PROVE  \E j \in 1..i : Selection!AgreeBefore(j, a, o)
                               /\ Selection!Better(Selection!Criteria[j], a, o)
  <2>1. CASE o = b
    <3>1. i \in 1..i
      BY CriteriaAre
    <3>2. QED
      BY <1>7, <1>8, <2>1, <3>1
  <2>2. CASE o # b
    <3>1. Selection!Precedes(b, o)
      BY <1>5, <1>6, <2>2, PrecedesTotal
    <3>2. PICK k \in DOMAIN Selection!Criteria :
            Selection!AgreeBefore(k, b, o) /\ Selection!Better(Selection!Criteria[k], b, o)
      BY <3>1 DEF Selection!Precedes
    <3>3. QED
      BY <1>5, <1>6, <1>7, <1>8, <3>2, BeatsThrough
  <2>3. QED
    BY <2>1, <2>2
<1>9. QED
  BY <1>6, <1>7, <1>8 DEF Explains, a, reason, keys, others

-----------------------------------------------------------------------------
(***************************************************************************)
(* OpeningPriceSelection: the invariant.  The last call is remembered with *)
(* all that decided it; its rows and its price are there still, whatever   *)
(* attempts were logged and whatever calls failed since; and what links to *)
(* an attempt links to the one its call named, which is on record.         *)
(***************************************************************************)

\* A call that was accepted, with the winner and the reason it must have.
CallFits(call) ==
  /\ call.answer \in Selection!Answers /\ call.answer # <<>>
  /\ call.policy \in Policies
  /\ Selection!Accepted(call.answer, call.policy)
  /\ call.winner = Selection!Winner(call.policy, KeysOf(call.answer, call.audit))
  /\ call.reason = Selection!Reason(call.policy, KeysOf(call.answer, call.audit))

LinkFits(link, audit) ==
  link = Selection!None \/ (link = audit.attempt /\ audit.attempt \in logged)

\* The rows and the price it left.
CallKept(call) ==
  /\ \A c \in Selection!Range(call.answer) : Selection!Key(c, call.audit) \in DOMAIN rows
  /\ prices[call.winner.candidate.listing].value = call.winner.candidate.value
  /\ LinkFits(prices[call.winner.candidate.listing].attempt, call.audit)

RowsLinked == \A k \in DOMAIN rows : LinkFits(rows[k], k.audit)

SelectionInv ==
  /\ prices = [l \in Listings |-> prices[l]]
  /\ RowsLinked
  /\ \A call \in last : CallFits(call) /\ CallKept(call)

\* The prices with the winner's value in its place.
PricesWith(winner, audit) ==
  [prices EXCEPT ![winner.candidate.listing] =
     [value |-> winner.candidate.value, attempt |-> Selection!Link(audit)]]

\* Rows are never taken away, and those of the candidates are there.
LEMMA PersistedRows ==
  ASSUME NEW answer, NEW audit
  PROVE  DOMAIN Selection!Persisted(answer, audit)
           = DOMAIN rows \cup KeySet(answer, audit)
BY DEF Selection!Persisted, KeySet

\* A link made now fits, and differs from one that fits only in an attempt logged since.
LEMMA NewLink ==
  ASSUME NEW audit
  PROVE  /\ LinkFits(Selection!Link(audit), audit)
         /\ \A link : LinkFits(link, audit) =>
              Selection!LinkedSince(link, Selection!Link(audit), audit)
BY DEF LinkFits, Selection!Link, Selection!LinkedSince

LEMMA PersistedLinks ==
  ASSUME RowsLinked, NEW answer, NEW audit
  PROVE  LET after == Selection!Persisted(answer, audit) IN
         /\ \A k \in DOMAIN after : LinkFits(after[k], k.audit)
         /\ \A k \in DOMAIN rows : Selection!LinkedSince(rows[k], after[k], audit)
<1> DEFINE after == Selection!Persisted(answer, audit)
<1>1. \A c : Selection!Key(c, audit).audit = audit
  BY DEF Selection!Key
<1>2. ASSUME NEW k \in DOMAIN after PROVE LinkFits(after[k], k.audit)
  BY <1>1, <1>2, NewLink DEF Selection!Persisted, RowsLinked
<1>3. ASSUME NEW k \in DOMAIN rows PROVE Selection!LinkedSince(rows[k], after[k], audit)
  <2>1. k \in DOMAIN after
    BY <1>3, PersistedRows
  <2>2. CASE \E c \in Selection!Range(answer) : k = Selection!Key(c, audit)
    <3>1. after[k] = Selection!Link(audit) /\ k.audit = audit
      BY <1>1, <2>1, <2>2 DEF Selection!Persisted
    <3>2. QED
      BY <1>3, <3>1, NewLink DEF RowsLinked
  <2>3. CASE ~\E c \in Selection!Range(answer) : k = Selection!Key(c, audit)
    BY <2>1, <2>3 DEF Selection!Persisted, Selection!LinkedSince
  <2>4. QED
    BY <2>2, <2>3
<1>4. QED
  BY <1>2, <1>3

\* What one successful call leaves.
LEMMA SelectEffect ==
  ASSUME NEW request, NEW answer, NEW audit, NEW policy,
         Selection!Select(request, answer, audit, policy), NEW winner,
         winner = Selection!Winner(policy, KeysOf(answer, audit))
  PROVE  /\ answer # <<>> /\ Selection!Accepted(answer, policy)
         /\ DOMAIN rows'
              = DOMAIN rows \cup KeySet(answer, audit)
         /\ rows' = Selection!Persisted(answer, audit) /\ UNCHANGED logged
         /\ prices' = PricesWith(winner, audit)
         /\ last' = {[request |-> request, answer |-> answer, audit |-> audit,
                      policy |-> policy, winner |-> winner,
                      reason |-> Selection!Reason(policy, KeysOf(answer, audit))]}
BY PersistedRows DEF Selection!Select, KeysOf, PricesWith

LEMMA SelectKeeps ==
  ASSUME Selection!Parameters, SelectionInv, NEW request, NEW answer \in Selection!Answers,
         NEW audit, NEW policy \in Policies, Selection!Select(request, answer, audit, policy)
  PROVE  SelectionInv'
<1> DEFINE winner == Selection!Winner(policy, KeysOf(answer, audit))
           reason == Selection!Reason(policy, KeysOf(answer, audit))
           price == [value |-> winner.candidate.value, attempt |-> Selection!Link(audit)]
           called == [request |-> request, answer |-> answer, audit |-> audit,
                      policy |-> policy, winner |-> winner, reason |-> reason]
<1>1. /\ answer # <<>> /\ Selection!Accepted(answer, policy)
      /\ DOMAIN rows' = DOMAIN rows \cup KeySet(answer, audit)
      /\ rows' = Selection!Persisted(answer, audit) /\ UNCHANGED logged
      /\ prices' = [prices EXCEPT ![winner.candidate.listing] = price]
      /\ last' = {called}
  BY SelectEffect DEF PricesWith
<1>2. winner.candidate.listing \in Listings
  BY <1>1, WinnerIsBest
<1> HIDE DEF winner, reason, price
<1>3. prices = [l \in Listings |-> prices[l]]
  BY DEF SelectionInv
<1>4. /\ prices' = [l \in Listings |-> prices'[l]]
      /\ prices'[winner.candidate.listing] = price
  BY <1>1, <1>2, <1>3
<1>5. CallFits(called)
  BY <1>1 DEF CallFits, winner, reason
<1>6. CallKept(called)'
  <2>1. PICK link : link = Selection!Link(audit)
    OBVIOUS
  <2>2. LinkFits(link, audit)'
    BY <1>1, <2>1, NewLink DEF LinkFits
  <2>3. /\ prices'[winner.candidate.listing].value = winner.candidate.value
        /\ prices'[winner.candidate.listing].attempt = link
    BY <1>4, <2>1 DEF price
  <2>4. \A c \in Selection!Range(answer) : Selection!Key(c, audit) \in DOMAIN rows'
    BY <1>1 DEF KeySet
  <2>5. /\ (called.winner.candidate)' = winner.candidate
        /\ (called.answer)' = answer /\ (called.audit)' = audit
    BY DEF winner
  <2>6. /\ \A c \in Selection!Range(called.answer)' :
             Selection!Key(c, called.audit)' \in DOMAIN rows'
        /\ prices'[(called.winner.candidate)'.listing].value = (called.winner.candidate)'.value
        /\ LinkFits(prices[called.winner.candidate.listing].attempt, called.audit)'
    BY <2>2, <2>3, <2>4, <2>5 DEF LinkFits
  <2>7. QED
    BY <2>6 DEF CallKept
<1>7. RowsLinked'
  BY <1>1, PersistedLinks DEF SelectionInv, RowsLinked, LinkFits
<1>8. QED
  BY <1>1, <1>4, <1>5, <1>6, <1>7 DEF SelectionInv

LEMMA OtherStepsKeep ==
  ASSUME SelectionInv, UNCHANGED <<prices, last>>, DOMAIN rows \subseteq DOMAIN rows',
         logged \subseteq logged', RowsLinked'
  PROVE  SelectionInv'
<1>1. \A call : CallKept(call) => CallKept(call)'
  BY DEF CallKept, LinkFits
<1>2. QED
  BY <1>1 DEF SelectionInv

LEMMA NextSelectionInv ==
  Selection!Parameters /\ SelectionInv /\ [Selection!Next]_(Selection!vars) => SelectionInv'
<1>1. SUFFICES ASSUME Selection!Parameters, SelectionInv, [Selection!Next]_(Selection!vars)
               PROVE  SelectionInv'
  OBVIOUS
<1>2. ASSUME NEW answer, NEW audit, NEW policy, Selection!FailKeepingRows(answer, audit, policy)
      PROVE  SelectionInv'
  <2>1. UNCHANGED <<prices, last>> /\ rows' = Selection!Persisted(Selection!KnownPrefix(answer), audit)
    BY <1>2 DEF Selection!FailKeepingRows
  <2>2. DOMAIN rows \subseteq DOMAIN rows'
    BY <2>1, PersistedRows
  <2>3. UNCHANGED logged
    BY <1>2 DEF Selection!FailKeepingRows
  <2>4. RowsLinked'
    BY <1>1, <2>1, <2>3, PersistedLinks DEF SelectionInv, RowsLinked, LinkFits
  <2>5. QED
    BY <1>1, <2>1, <2>2, <2>3, <2>4, OtherStepsKeep
<1>3. ASSUME NEW a, Selection!LogAttempt(a) PROVE SelectionInv'
  <2>1. logged \subseteq logged' /\ UNCHANGED <<rows, prices, last>>
    BY <1>3 DEF Selection!LogAttempt
  <2>2. RowsLinked'
    BY <1>1, <2>1 DEF SelectionInv, RowsLinked, LinkFits
  <2>3. QED
    BY <1>1, <2>1, <2>2, OtherStepsKeep
<1>4. ASSUME UNCHANGED Selection!vars PROVE SelectionInv'
  BY <1>1, <1>4, OtherStepsKeep DEF Selection!vars, SelectionInv, RowsLinked, LinkFits
<1>5. QED
  BY <1>1, <1>2, <1>3, <1>4, SelectKeeps DEF Selection!Next

LEMMA SelectionInvariant == ASSUME Selection!Parameters PROVE Selection!Spec => []SelectionInv
<1>1. Selection!Init => SelectionInv
  BY DEF Selection!Init, SelectionInv, RowsLinked
<1>2. SelectionInv /\ [Selection!Next]_(Selection!vars) => SelectionInv'
  BY NextSelectionInv
<1>3. QED
  BY <1>1, <1>2, PTL DEF Selection!Spec

\* The price of the last call is the best candidate's, for any policies and any
\* order of the candidates, and stays so while other calls fail
\* (source_prioritization.py, prioritize_candidates; opening_load_worker.py).
THEOREM PriceIsTheBest ==
  ASSUME Selection!Parameters PROVE Selection!Spec => []PriceIsBest
<1>1. SelectionInv => PriceIsBest
  <2>1. SUFFICES ASSUME SelectionInv, NEW call \in last
        PROVE /\ prices[call.winner.candidate.listing].value = call.winner.candidate.value
              /\ \A i \in DOMAIN Selection!Criteria : \A c \in Selection!Range(call.answer) :
                   Selection!AgreeBefore(i, call.policy[call.winner.candidate.provider],
                                            call.policy[c.provider])
                   => ~Selection!Better(Selection!Criteria[i], call.policy[c.provider],
                                        call.policy[call.winner.candidate.provider])
    BY DEF PriceIsBest, Selection!PriceIsBest
  <2>2. CallFits(call) /\ CallKept(call)
    BY <2>1 DEF SelectionInv
  <2>3. /\ call.winner.candidate \in Selection!Range(call.answer)
        /\ \A c \in Selection!Range(call.answer) :
             /\ call.policy[c.provider] \in Ranking
             /\ ~Selection!Precedes(call.policy[c.provider],
                                    call.policy[call.winner.candidate.provider])
    BY <2>2, WinnerIsBest DEF CallFits
  <2>4. QED
    BY <2>2, <2>3, NotPreceded DEF CallKept
<1>2. QED
  BY <1>1, SelectionInvariant, PTL

\* The criterion given as the reason singles the winner out, and no earlier one
\* does (source_prioritization.py, the selection reason).
THEOREM ReasonIsTheCause ==
  ASSUME Selection!Parameters PROVE Selection!Spec => []ReasonExplains
<1>1. SelectionInv => ReasonExplains
  <2>1. SUFFICES ASSUME SelectionInv, NEW call \in last
                 PROVE  Explains(call.reason, call.policy, call.winner, call.answer)
    BY DEF ReasonExplains, Selection!ReasonExplains, Explains
  <2>2. CallFits(call)
    BY <2>1 DEF SelectionInv
  <2>3. QED
    BY <2>2, ReasonFits DEF CallFits
<1>2. QED
  BY <1>1, SelectionInvariant, PTL

\* The last call made again with the same audit adds no row and changes no value and no
\* link, but for links to its attempt when that was logged since
\* (candidate_value_persistence.py, the candidate key; opening_load_worker.py).
THEOREM RerunKeepsThePrice ==
  ASSUME Selection!Parameters PROVE Selection!Spec => RerunChangesNothing
<1> DEFINE Same(call) ==
      /\ DOMAIN rows' = DOMAIN rows
      /\ \A k \in DOMAIN rows : Selection!LinkedSince(rows[k], rows'[k], call.audit)
      /\ \A l \in Listings :
           /\ prices'[l].value = prices[l].value
           /\ Selection!LinkedSince(prices[l].attempt, prices'[l].attempt, call.audit)
<1>1. ASSUME SelectionInv, NEW call \in last,
             Selection!Select(call.request, call.answer, call.audit, call.policy)
      PROVE  Same(call)
  <2>1. CallFits(call) /\ CallKept(call) /\ prices = [l \in Listings |-> prices[l]]
    BY <1>1 DEF SelectionInv
  <2>2. /\ DOMAIN rows' = DOMAIN rows \cup KeySet(call.answer, call.audit)
        /\ rows' = Selection!Persisted(call.answer, call.audit)
        /\ prices' = PricesWith(call.winner, call.audit)
    <3>1. call.winner = Selection!Winner(call.policy, KeysOf(call.answer, call.audit))
      BY <2>1 DEF CallFits
    <3>2. QED
      BY <1>1, <3>1, SelectEffect
  <2>3. DOMAIN rows' = DOMAIN rows
    BY <2>1, <2>2 DEF CallKept, KeySet
  <2>4. \A k \in DOMAIN rows : Selection!LinkedSince(rows[k], rows'[k], call.audit)
    BY <1>1, <2>2, PersistedLinks DEF SelectionInv
  <2>5. ASSUME NEW l \in Listings
        PROVE  /\ prices'[l].value = prices[l].value
               /\ Selection!LinkedSince(prices[l].attempt, prices'[l].attempt, call.audit)
    <3>1. CASE l = call.winner.candidate.listing
      <4>1. /\ prices'[l] = [value |-> call.winner.candidate.value,
                             attempt |-> Selection!Link(call.audit)]
            /\ prices[l].value = call.winner.candidate.value
            /\ LinkFits(prices[l].attempt, call.audit)
        BY <2>1, <2>2, <2>5, <3>1 DEF CallKept, PricesWith
      <4>2. QED
        BY <4>1, NewLink
    <3>2. CASE l # call.winner.candidate.listing
      BY <2>1, <2>2, <2>5, <3>2 DEF PricesWith, Selection!LinkedSince
    <3>3. QED
      BY <3>1, <3>2
  <2>6. QED
    BY <2>3, <2>4, <2>5
<1>2. SelectionInv /\ [Selection!Next]_(Selection!vars) =>
        [\A call \in last :
           Selection!Select(call.request, call.answer, call.audit, call.policy) => Same(call)
        ]_(Selection!vars)
  BY <1>1
<1>3. QED
  BY <1>2, SelectionInvariant, PTL
     DEF Selection!Spec, RerunChangesNothing, Selection!RerunChangesNothing

-----------------------------------------------------------------------------
(***************************************************************************)
(* ReliabilityScore: a mean that is rounded at every fold.  Rounding half  *)
(* up does not leave an interval between whole numbers, so the mean stays  *)
(* between the extremes whatever was lost by earlier rounding.             *)
(***************************************************************************)

\* The quotient and its remainder.
LEMMA DivisionFits ==
  ASSUME NEW a \in Int, NEW n \in Nat \ {0}
  PROVE  a \div n \in Int /\ n * (a \div n) <= a /\ a < n * (a \div n) + n
OBVIOUS

\* What lies between whole multiples of n is rounded to between the factors.
LEMMA RoundedBetween ==
  ASSUME NEW a \in Int, NEW n \in Nat \ {0}, NEW low \in Int, NEW high \in Int,
         low * n <= a, a <= high * n
  PROVE  /\ Scores!RoundedQuotient(a, n) \in Int
         /\ low <= Scores!RoundedQuotient(a, n)
         /\ Scores!RoundedQuotient(a, n) <= high
<1> DEFINE q == Scores!RoundedQuotient(a, n)
<1>1. 2 * a + n \in Int /\ 2 * n \in Nat \ {0}
  OBVIOUS
<1>2. q \in Int /\ (2 * n) * q <= 2 * a + n /\ 2 * a + n < (2 * n) * q + 2 * n
  BY <1>1, DivisionFits DEF Scores!RoundedQuotient
<1> HIDE DEF q
<1>3. n * q \in Int /\ n * low \in Int /\ n * high \in Int
      /\ (2 * n) * q = 2 * (n * q) /\ low * n = n * low /\ high * n = n * high
  BY <1>2
<1>4. low <= q
  <2>1. CASE q + 1 <= low
    <3>1. n * (q + 1) <= n * low
      BY <1>2, <2>1
    <3>2. n * (q + 1) = n * q + n
      BY <1>2
    <3>3. QED
      BY <1>2, <1>3, <3>1, <3>2
  <2>2. QED
    BY <1>2, <2>1
<1>5. q <= high
  <2>1. CASE high + 1 <= q
    <3>1. n * (high + 1) <= n * q
      BY <1>2, <2>1
    <3>2. n * (high + 1) = n * high + n
      OBVIOUS
    <3>3. QED
      BY <1>2, <1>3, <3>1, <3>2
  <2>2. QED
    BY <1>2, <2>1
<1>6. QED
  BY <1>2, <1>4, <1>5 DEF q

\* The sum of a mean and one more score lies between the multiples of the new extremes.
LEMMA FoldBetween ==
  ASSUME NEW mean \in Int, NEW n \in Nat \ {0}, NEW s \in Int,
         NEW low \in Int, NEW high \in Int,
         low <= mean, mean <= high, low <= s, s <= high
  PROVE  mean * n + s \in Int /\ low * (n + 1) <= mean * n + s /\ mean * n + s <= high * (n + 1)
<1>1. low * n \in Int /\ mean * n \in Int /\ high * n \in Int
  OBVIOUS
<1>2. low * n <= mean * n /\ mean * n <= high * n
  OBVIOUS
<1>3. low * (n + 1) = low * n + low /\ high * (n + 1) = high * n + high
  OBVIOUS
<1>4. QED
  BY <1>1, <1>2, <1>3

Sums == [sum : Int, low : Int, high : Int, seen : SUBSET Windows]

MeanInv ==
  /\ score \in [Pairs -> [mean : Int, count : Nat, key : {w.key : w \in Windows} \cup {"none"}]]
  /\ folded \in [Pairs -> Sums]
  /\ MeanBetweenWindows

LEMMA WindowScoreIsInt ==
  ASSUME Scores!Parameters, NEW w \in Windows
  PROVE  Scores!WindowScore(w.rates) \in Int
<1>1. \A r \in Scores!Rates : w.rates[r] \in Int
  BY DEF Scores!Parameters
<1>2. QED
  BY <1>1 DEF Scores!WindowScore, Scores!Rates

LEMMA InitMean == Scores!Init => MeanInv
BY DEF Scores!Init, Scores!NoScore, Scores!One, MeanInv, Sums, MeanBetweenWindows, Scores!MeanBetweenWindows

\* Counting a score for a pair moves its mean to between the new extremes.
LEMMA CountKeeps ==
  ASSUME MeanInv, NEW p \in Pairs, NEW w \in Windows, NEW s \in Int, NEW mean \in Int,
         NEW count \in Nat, Scores!Count(p, w, s),
         score' = [score EXCEPT ![p] = [mean |-> mean, count |-> count, key |-> w.key]],
         (IF s < folded[p].low THEN s ELSE folded[p].low) <= mean,
         mean <= (IF s > folded[p].high THEN s ELSE folded[p].high)
  PROVE  MeanInv'
<1> DEFINE sums == [sum |-> folded[p].sum + s,
                    low |-> IF s < folded[p].low THEN s ELSE folded[p].low,
                    high |-> IF s > folded[p].high THEN s ELSE folded[p].high,
                    seen |-> folded[p].seen \cup {w}]
<1>1. folded[p] \in Sums
  BY DEF MeanInv
<1>2. sums \in Sums
  BY <1>1 DEF Sums
<1>3. folded' = [folded EXCEPT ![p] = sums]
  BY <1>1 DEF Scores!Count
<1>4. sums.low <= mean /\ mean <= sums.high
  OBVIOUS
<1> HIDE DEF sums
<1>5. QED
  BY <1>2, <1>3, <1>4 DEF MeanInv, MeanBetweenWindows, Scores!MeanBetweenWindows

LEMMA InsertKeeps ==
  ASSUME Scores!Parameters, MeanInv, NEW p \in Pairs, NEW w \in Windows, Scores!Insert(p, w)
  PROVE  MeanInv'
<1> DEFINE s == Scores!WindowScore(w.rates)
<1>1. s \in Int
  BY WindowScoreIsInt
<1>2. /\ score' = [score EXCEPT ![p] = [mean |-> s, count |-> 1, key |-> w.key]]
      /\ Scores!Count(p, w, s)
  BY DEF Scores!Insert
<1>3. folded[p].low \in Int /\ folded[p].high \in Int
  BY DEF MeanInv, Sums
<1> HIDE DEF s
<1>4. /\ (IF s < folded[p].low THEN s ELSE folded[p].low) <= s
      /\ s <= (IF s > folded[p].high THEN s ELSE folded[p].high)
  BY <1>1, <1>3
<1>5. 1 \in Nat
  OBVIOUS
<1>6. QED
  BY <1>1, <1>2, <1>4, <1>5, CountKeeps

LEMMA FoldKeeps ==
  ASSUME Scores!Parameters, MeanInv, NEW p \in Pairs, NEW w \in Windows, Scores!Fold(p, w)
  PROVE  MeanInv'
<1> DEFINE s == Scores!WindowScore(w.rates)
           n == score[p].count
           low == IF s < folded[p].low THEN s ELSE folded[p].low
           high == IF s > folded[p].high THEN s ELSE folded[p].high
           mean == Scores!RoundedQuotient(score[p].mean * n + s, n + 1)
<1>1. s \in Int
  BY WindowScoreIsInt
<1>2. n \in Nat \ {0}
  BY DEF MeanInv, Scores!Fold
<1>3. /\ score' = [score EXCEPT ![p] = [mean |-> mean, count |-> n + 1, key |-> w.key]]
      /\ Scores!Count(p, w, s)
  BY DEF Scores!Fold
<1>4. /\ folded[p].low \in Int /\ folded[p].high \in Int /\ score[p].mean \in Int
      /\ folded[p].low <= score[p].mean /\ score[p].mean <= folded[p].high
  BY <1>2 DEF MeanInv, Sums, MeanBetweenWindows, Scores!MeanBetweenWindows
<1> HIDE DEF s, n
<1>5. /\ low \in Int /\ high \in Int /\ low <= score[p].mean /\ score[p].mean <= high
      /\ low <= s /\ s <= high
  BY <1>1, <1>4
<1> HIDE DEF low, high
<1>6. /\ score[p].mean * n + s \in Int
      /\ low * (n + 1) <= score[p].mean * n + s
      /\ score[p].mean * n + s <= high * (n + 1)
  BY <1>1, <1>2, <1>4, <1>5, FoldBetween
<1>7. n + 1 \in Nat \ {0}
  BY <1>2
<1>8. mean \in Int /\ low <= mean /\ mean <= high
  BY <1>5, <1>6, <1>7, RoundedBetween
<1> HIDE DEF mean
<1>9. QED
  BY <1>1, <1>3, <1>7, <1>8, CountKeeps DEF low, high

LEMMA NextMean == Scores!Parameters /\ MeanInv /\ [Scores!Next]_(Scores!vars) => MeanInv'
<1>1. CASE UNCHANGED Scores!vars
  BY <1>1 DEF Scores!vars, MeanInv, MeanBetweenWindows, Scores!MeanBetweenWindows
<1>2. ASSUME NEW p \in Pairs, NEW w \in Windows, Scores!Replay(p, w), MeanInv
      PROVE  MeanInv'
  BY <1>2 DEF Scores!Replay, Scores!vars, MeanInv, MeanBetweenWindows, Scores!MeanBetweenWindows
<1>3. QED
  BY <1>1, <1>2, InsertKeeps, FoldKeeps DEF Scores!Next

\* A reliability score stays between the scores of the worst and the best window counted,
\* however often it was rounded (update_provider_exchange_reliability_score).
THEOREM MeanStaysBetween ==
  ASSUME Scores!Parameters PROVE Scores!Spec => []MeanBetweenWindows
<1>1. MeanInv /\ [Scores!Next]_(Scores!vars) => MeanInv'
  BY NextMean
<1>2. MeanInv => MeanBetweenWindows
  BY DEF MeanInv
<1>3. QED
  BY <1>1, <1>2, InitMean, PTL DEF Scores!Spec

-----------------------------------------------------------------------------
(***************************************************************************)
(* ValidationRun: a run holds, for every request that was answered,        *)
(* candidates that nobody else touches and the attempt of its symbol,      *)
(* which a later request for that symbol may have overwritten (Evident);   *)
(* a run that is past its requests and asked for quotes has one answered;  *)
(* and a key whose run is on record has no transaction any more.           *)
(***************************************************************************)

Fields == {"at", "requested", "turn", "fetched", "read", "buckets", "disagreed"}
Metrics == {"discovery_listing", "completeness_timeliness",
            "disagreement_benchmark", "calendar_validation"}

\* The attempt of an answered request is on record, and its candidate of each type.
AttemptSays(row, k, requested, n) ==
  /\ row # Validation!NoAttempt /\ Validation!SameAttempt(row, k, requested[n])
  /\ \/ row.kind = "success"
     \/ \E m \in DOMAIN requested : m > n /\ Validation!SameAttempt(row, k, requested[m])
HasAttempt(k, requested, n) ==
  \E i \in Validation!AttemptIds : AttemptSays(attempts[i], k, requested, n)
HasCandidates(k, l) ==
  \A type \in Validation!Types :
    \E c \in candidates : c.run = k /\ c.listing = l /\ c.type = type
Evident(k, requested, n) == HasAttempt(k, requested, n) /\ HasCandidates(k, requested[n].listing)

SessionFits(k, s) ==
  s # Validation!Idle =>
    /\ DOMAIN s = Fields
    /\ s.at \in {"requests", "failed", "succeeded"} \cup Metrics
    /\ s.turn \in Nat \ {0} /\ DOMAIN s.requested = 1 .. Len(s.requested)
    /\ \A n \in s.fetched : n \in DOMAIN s.requested /\ n < s.turn
    /\ s.at \in {"succeeded"} \cup Metrics /\ s.requested # <<>> => s.fetched # {}
    /\ \A n \in s.fetched : Evident(k, s.requested, n)

RecordFits(k, r) ==
  r # Validation!NoRun /\ r.state = "succeeded" /\ r.requested # <<>> =>
    \E n \in DOMAIN r.requested : Evident(k, r.requested, n)

RunInv ==
  /\ DOMAIN session = RunKeys /\ DOMAIN runs = RunKeys /\ DOMAIN attempts = Validation!AttemptIds
  /\ \A k \in RunKeys :
       /\ SessionFits(k, session[k])
       /\ RecordFits(k, runs[k])
       /\ runs[k] # Validation!NoRun => session[k] = Validation!Idle

\* The rows of run k are still there, and the attempts have not become more.
AttemptsKept(k) ==
  \A i \in Validation!AttemptIds :
    attempts[i].run = k \/ attempts'[i].run = k => attempts'[i] = attempts[i]
Kept(k) == AttemptsKept(k) /\ \A c \in candidates : c.run = k => c \in candidates'

LEMMA CandidatesStay ==
  ASSUME NEW k, NEW l, HasCandidates(k, l), \A c \in candidates : c.run = k => c \in candidates'
  PROVE  HasCandidates(k, l)'
BY DEF HasCandidates

LEMMA EvidenceKept ==
  ASSUME NEW k, NEW requested, NEW n, Kept(k), Evident(k, requested, n)
  PROVE  Evident(k, requested, n)'
<1>1. PICK i \in Validation!AttemptIds : AttemptSays(attempts[i], k, requested, n)
  BY DEF Evident, HasAttempt
<1>2. attempts'[i] = attempts[i]
  BY <1>1 DEF Kept, AttemptsKept, AttemptSays, Validation!SameAttempt
<1>3. HasAttempt(k, requested, n)'
  BY <1>1, <1>2 DEF HasAttempt, Validation!AttemptIds
<1>4. HasCandidates(k, requested[n].listing)'
  BY CandidatesStay DEF Kept, Evident
<1>5. QED
  BY <1>3, <1>4 DEF Evident

\* Whoever keeps his rows, his transaction and his record keeps what is said of him.
LEMMA BystanderKept ==
  ASSUME RunInv, NEW k \in RunKeys, Kept(k), session'[k] = session[k], runs'[k] = runs[k]
  PROVE  /\ SessionFits(k, session[k])'
         /\ RecordFits(k, runs[k])'
         /\ (runs[k] # Validation!NoRun => session[k] = Validation!Idle)'
<1>1. \A requested, n : Evident(k, requested, n) => Evident(k, requested, n)'
  BY EvidenceKept
<1>2. SessionFits(k, session[k])'
  BY <1>1 DEF RunInv, SessionFits
<1>3. RecordFits(k, runs[k])'
  BY <1>1 DEF RunInv, RecordFits
<1>4. QED
  BY <1>2, <1>3 DEF RunInv

\* A free id is in nobody's use.
LEMMA NewIdIsFree ==
  ASSUME Validation!Parameters, NEW table, Validation!FreeIds(table) # {}
  PROVE  /\ Validation!NewId(table) \in Validation!AttemptIds
         /\ table[Validation!NewId(table)] = Validation!NoAttempt
<1> DEFINE free == Validation!FreeIds(table)
<1>1. free \in SUBSET Nat /\ \A i \in free : table[i] = Validation!NoAttempt
  BY DEF Validation!FreeIds, Validation!AttemptIds
<1>2. PICK i \in free : \A j \in free : i <= j
  BY <1>1, LeastOf
<1>3. QED
  BY <1>1, <1>2 DEF Validation!NewId, Validation!FreeIds

\* Logging the attempt of a request leaves the rows of other runs alone, and those of
\* the run's earlier requests unless they were for the same symbol.
LEMMA LogEffect ==
  ASSUME Validation!Parameters, DOMAIN attempts = Validation!AttemptIds, NEW k \in RunKeys,
         NEW requested, DOMAIN requested = 1 .. Len(requested), NEW turn \in DOMAIN requested,
         NEW kind, Validation!LogAttempt(k, requested[turn], kind)
  PROVE  /\ DOMAIN attempts' = Validation!AttemptIds
         /\ \A q \in RunKeys : q # k => AttemptsKept(q)
         /\ kind = "success" => HasAttempt(k, requested, turn)'
         /\ \A n \in DOMAIN requested :
              n < turn /\ HasAttempt(k, requested, n) => HasAttempt(k, requested, n)'
<1> DEFINE request == requested[turn]
           table == Validation!Others(k, request)
           id == Validation!NewId(table)
           row == Validation!Attempt(k, request.exchange, request.symbol, kind)
<1>1. /\ attempts' = [table EXCEPT ![id] = row] /\ Validation!FreeIds(table) # {}
  BY DEF Validation!LogAttempt
<1>2. id \in Validation!AttemptIds /\ table[id] = Validation!NoAttempt
  BY <1>1, NewIdIsFree
<1>3. /\ DOMAIN table = Validation!AttemptIds
      /\ \A i \in Validation!AttemptIds :
           \/ table[i] = attempts[i]
           \/ /\ table[i] = Validation!NoAttempt /\ attempts[i] # Validation!NoAttempt
              /\ Validation!SameAttempt(attempts[i], k, request)
  BY DEF Validation!Others
<1>4. /\ row # Validation!NoAttempt /\ row.run = k /\ row.kind = kind
      /\ Validation!SameAttempt(row, k, request)
  BY DEF Validation!Attempt, Validation!NoAttempt, Validation!SameAttempt, Validation!Parameters
<1> HIDE DEF table, id, row
<1>5. /\ DOMAIN attempts' = Validation!AttemptIds /\ attempts'[id] = row
      /\ \A i \in Validation!AttemptIds : i # id => attempts'[i] = table[i]
  BY <1>1, <1>2, <1>3
<1>6. ASSUME NEW q \in RunKeys, q # k PROVE AttemptsKept(q)
  <2>1. ASSUME NEW i \in Validation!AttemptIds, attempts[i].run = q \/ attempts'[i].run = q
        PROVE  attempts'[i] = attempts[i]
    <3>1. q # "none" /\ Validation!NoAttempt.run = "none"
      BY DEF Validation!Parameters, Validation!NoAttempt
    <3>2. CASE i = id
      <4>1. attempts'[i].run = k
        BY <1>4, <1>5, <3>2
      <4>2. attempts[i].run = q
        BY <1>6, <2>1, <4>1
      <4>3. attempts[i] = Validation!NoAttempt \/ attempts[i].run = k
        BY <1>2, <1>3, <3>2 DEF Validation!SameAttempt
      <4>4. QED
        BY <1>6, <3>1, <4>2, <4>3
    <3>3. CASE i # id
      <4>1. attempts'[i] = table[i]
        BY <1>5, <3>3
      <4>2. CASE table[i] = attempts[i]
        BY <4>1, <4>2
      <4>3. CASE table[i] = Validation!NoAttempt /\ attempts[i].run = k
        BY <1>6, <2>1, <3>1, <4>1, <4>3
      <4>4. QED
        BY <1>3, <4>2, <4>3 DEF Validation!SameAttempt
    <3>4. QED
      BY <3>2, <3>3
  <2>2. QED
    BY <2>1 DEF AttemptsKept
<1>7. ASSUME kind = "success" PROVE HasAttempt(k, requested, turn)'
  <2>1. AttemptSays(attempts'[id], k, requested, turn)
    BY <1>4, <1>5, <1>7 DEF AttemptSays
  <2>2. QED
    BY <1>2, <2>1 DEF HasAttempt, Validation!AttemptIds
<1>8. ASSUME NEW n \in DOMAIN requested, n < turn, HasAttempt(k, requested, n)
      PROVE  HasAttempt(k, requested, n)'
  <2>1. PICK i \in Validation!AttemptIds : AttemptSays(attempts[i], k, requested, n)
    BY <1>8 DEF HasAttempt
  <2>2. CASE Validation!SameAttempt(attempts[i], k, request)
    <3>1. request.exchange = requested[n].exchange /\ request.symbol = requested[n].symbol
      BY <2>1, <2>2 DEF AttemptSays, Validation!SameAttempt
    <3>2. AttemptSays(row, k, requested, n)
      BY <1>4, <1>8, <3>1 DEF AttemptSays, Validation!SameAttempt
    <3>3. QED
      BY <1>2, <1>5, <3>2 DEF HasAttempt, Validation!AttemptIds
  <2>3. CASE ~Validation!SameAttempt(attempts[i], k, request)
    <3>1. table[i] = attempts[i]
      BY <1>3, <2>3
    <3>2. i # id
      BY <1>2, <2>1, <3>1 DEF AttemptSays
    <3>3. attempts'[i] = attempts[i]
      BY <1>5, <3>1, <3>2
    <3>4. QED
      BY <2>1, <3>3 DEF HasAttempt, Validation!AttemptIds
  <2>4. QED
    BY <2>2, <2>3
<1>9. QED
  BY <1>5, <1>6, <1>7, <1>8

LEMMA InitRuns == Validation!Init => RunInv
BY DEF Validation!Init, RunInv, SessionFits, RecordFits, Validation!AttemptIds

\* A step of the run under k that keeps what is said of k, and everybody else's rows.
LEMMA OneRunMoves ==
  ASSUME RunInv, NEW k \in RunKeys, NEW s, session'[k] = s, DOMAIN session' = RunKeys,
         \A q \in RunKeys : q # k => session'[q] = session[q],
         \A q \in RunKeys : q # k => Kept(q) /\ runs'[q] = runs[q],
         DOMAIN runs' = RunKeys, DOMAIN attempts' = Validation!AttemptIds,
         SessionFits(k, s)', RecordFits(k, runs[k])',
         runs'[k] # Validation!NoRun => s = Validation!Idle
  PROVE  RunInv'
<1>1. ASSUME NEW q \in RunKeys
      PROVE  /\ SessionFits(q, session[q])'
             /\ RecordFits(q, runs[q])'
             /\ (runs[q] # Validation!NoRun => session[q] = Validation!Idle)'
  <2>1. CASE q = k
    BY <2>1 DEF SessionFits
  <2>2. CASE q # k
    BY <2>2, BystanderKept
  <2>3. QED
    BY <2>1, <2>2
<1>2. QED
  BY <1>1 DEF RunInv

\* A step of an unfinished run that leaves the tables alone.
LEMMA StillGoing ==
  ASSUME RunInv, NEW k \in RunKeys, NEW s, session'[k] = s, DOMAIN session' = RunKeys,
         \A q \in RunKeys : q # k => session'[q] = session[q],
         session[k] # Validation!Idle \/ runs[k] = Validation!NoRun, SessionFits(k, s),
         UNCHANGED <<runs, candidates, attempts>>
  PROVE  RunInv'
<1>1. \A q \in RunKeys : Kept(q)
  BY DEF Kept, AttemptsKept
<1>2. \A q, requested, n : Evident(q, requested, n)' <=> Evident(q, requested, n)
  BY DEF Evident, HasAttempt, HasCandidates
<1>3. SessionFits(k, s)' /\ RecordFits(k, runs[k])'
  BY <1>2 DEF RunInv, SessionFits, RecordFits
<1>4. runs'[k] = Validation!NoRun
  BY DEF RunInv
<1>5. QED
  BY <1>1, <1>3, <1>4, OneRunMoves DEF RunInv

LEMMA StartOfRunKeeps ==
  ASSUME Validation!Parameters, RunInv, NEW k \in RunKeys, NEW xs,
         NEW requests \in RequestLists, NEW failing \in BOOLEAN,
         Validation!Start(k, xs, requests, failing)
  PROVE  RunInv'
<1> DEFINE s == [at |-> IF failing THEN "failed" ELSE IF requests # <<>> THEN "requests"
                        ELSE Validation!Steps[1],
                 requested |-> requests, turn |-> 1, fetched |-> {}, read |-> <<>>,
                 buckets |-> [x \in xs |-> [b \in Validation!Buckets |-> "pending"]],
                 disagreed |-> [x \in xs |-> {}]]
<1>1. /\ session'[k] = s /\ DOMAIN session' = RunKeys
      /\ \A q \in RunKeys : q # k => session'[q] = session[q]
      /\ UNCHANGED <<runs, candidates, attempts>>
  BY DEF Validation!Start, RunInv
<1>2. runs[k] = Validation!NoRun
  BY DEF Validation!Start, Validation!IsNew
<1>3. /\ DOMAIN s = Fields /\ s.requested = requests /\ s.fetched = {} /\ s.turn = 1
      /\ s.at = IF failing THEN "failed" ELSE IF requests # <<>> THEN "requests"
                ELSE "discovery_listing"
  BY DEF Fields, Validation!Steps
<1>4. DOMAIN requests = 1 .. Len(requests)
  BY DEF Validation!Parameters
<1> HIDE DEF s
<1>5. SessionFits(k, s)
  BY <1>3, <1>4 DEF SessionFits, Metrics
<1>6. QED
  BY <1>1, <1>2, <1>5, StillGoing

\* What a session at a step is.
LEMMA GoingOn ==
  ASSUME RunInv, NEW k \in RunKeys, session[k].at # "idle"
  PROVE  /\ session[k] # Validation!Idle /\ runs[k] = Validation!NoRun
         /\ DOMAIN session[k] = Fields /\ SessionFits(k, session[k])
         /\ session[k].turn \in Nat \ {0}
         /\ DOMAIN session[k].requested = 1 .. Len(session[k].requested)
         /\ \A n \in session[k].fetched :
              /\ n \in DOMAIN session[k].requested /\ n < session[k].turn
              /\ Evident(k, session[k].requested, n)
<1>1. session[k] # Validation!Idle
  BY DEF Validation!Idle
<1>2. QED
  BY <1>1 DEF RunInv, SessionFits

\* The turn is that of a request while there is one.
LEMMA TurnIsARequest ==
  ASSUME RunInv, NEW k \in RunKeys, Validation!Requesting(k)
  PROVE  /\ session[k].at = "requests"
         /\ session[k].turn \in DOMAIN session[k].requested
<1>1. session[k].at = "requests" /\ session[k].turn <= Len(session[k].requested)
  BY DEF Validation!Requesting
<1>2. /\ session[k].turn \in Nat \ {0}
      /\ DOMAIN session[k].requested = 1 .. Len(session[k].requested)
  BY <1>1, GoingOn
<1>3. QED
  BY <1>1, <1>2

\* A request dealt with: the run's answered requests so far stay evident, and this one
\* joins them when its attempt worked and its candidates are there.
LEMMA RequestKeeps ==
  ASSUME Validation!Parameters, RunInv, NEW k \in RunKeys, Validation!Requesting(k),
         NEW requested, requested = session[k].requested, NEW turn, turn = session[k].turn,
         NEW kind, Validation!LogAttempt(k, requested[turn], kind),
         NEW answered,
         \/ answered = {}
         \/ /\ answered = {turn} /\ kind = "success"
            /\ HasCandidates(k, requested[turn].listing)',
         NEW s, s = [session[k] EXCEPT !.turn = turn + 1,
                                       !.fetched = session[k].fetched \cup answered],
         session' = [session EXCEPT ![k] = s],
         candidates \subseteq candidates', runs' = runs
  PROVE  RunInv'
<1>1. /\ session[k].at = "requests" /\ turn \in DOMAIN requested /\ turn \in Nat
      /\ DOMAIN session[k] = Fields /\ DOMAIN requested = 1 .. Len(requested)
      /\ runs[k] = Validation!NoRun
      /\ \A n \in session[k].fetched :
           n \in DOMAIN requested /\ n < turn /\ Evident(k, requested, n)
  BY TurnIsARequest, GoingOn
<1>2. PICK fetched : fetched = session[k].fetched
  OBVIOUS
<1>3. /\ session'[k] = s /\ DOMAIN session' = RunKeys
      /\ \A q \in RunKeys : q # k => session'[q] = session[q]
  BY DEF RunInv
<1>4. /\ DOMAIN s = Fields /\ s.at = "requests" /\ s.requested = requested
      /\ s.turn = turn + 1 /\ s.fetched = fetched \cup answered
  BY <1>1, <1>2 DEF Fields
<1>5. /\ DOMAIN attempts' = Validation!AttemptIds
      /\ \A q \in RunKeys : q # k => AttemptsKept(q)
      /\ kind = "success" => HasAttempt(k, requested, turn)'
      /\ \A n \in DOMAIN requested :
           n < turn /\ HasAttempt(k, requested, n) => HasAttempt(k, requested, n)'
  BY <1>1, LogEffect DEF RunInv
<1>6. \A l : HasCandidates(k, l) => HasCandidates(k, l)'
  BY CandidatesStay
<1>7. \A n \in fetched : HasAttempt(k, requested, n)'
  BY <1>1, <1>2, <1>5 DEF Evident
<1>8. \A n \in fetched : HasCandidates(k, requested[n].listing)'
  BY <1>1, <1>2, <1>6 DEF Evident
<1>9. \A n \in s.fetched : HasAttempt(k, requested, n)' /\ HasCandidates(k, requested[n].listing)'
  BY <1>4, <1>5, <1>7, <1>8
<1>10. \A n \in s.fetched : n \in DOMAIN s.requested /\ n < s.turn
  BY <1>1, <1>2, <1>4
<1>11. SessionFits(k, s)'
  <2>1. \A n \in s.fetched : Evident(k, s.requested, n)'
    BY <1>4, <1>9 DEF Evident
  <2>2. QED
    BY <1>1, <1>4, <1>10, <2>1 DEF SessionFits, Metrics
<1>12. \A q \in RunKeys : q # k => Kept(q) /\ runs'[q] = runs[q]
  BY <1>5 DEF Kept
<1>13. RecordFits(k, runs[k])' /\ runs'[k] = Validation!NoRun
  BY <1>1 DEF RecordFits
<1>14. QED
  BY <1>3, <1>5, <1>11, <1>12, <1>13, OneRunMoves DEF RunInv

LEMMA FetchKeeps ==
  ASSUME Validation!Parameters, RunInv, NEW k \in RunKeys, NEW v, Validation!Fetch(k, v)
  PROVE  RunInv'
<1>1. PICK requested, turn, l :
        /\ requested = session[k].requested /\ turn = session[k].turn
        /\ l = requested[turn].listing
  OBVIOUS
<1>2. candidates' = candidates \cup {Validation!Quote(k, l, type, v) : type \in Validation!Types}
  BY <1>1 DEF Validation!Fetch, Validation!Request
<1>3. HasCandidates(k, l)'
  <2>1. ASSUME NEW type \in Validation!Types
        PROVE  \E c \in candidates' : c.run = k /\ c.listing = l /\ c.type = type
    <3>1. Validation!Quote(k, l, type, v) \in candidates'
      BY <1>2
    <3>2. QED
      BY <3>1 DEF Validation!Quote
  <2>2. QED
    BY <2>1 DEF HasCandidates, Validation!Types
<1>4. PICK s : s = [session[k] EXCEPT !.turn = turn + 1,
                                      !.fetched = session[k].fetched \cup {turn}]
  OBVIOUS
<1>5. session[k].at = "requests"
  BY DEF Validation!Fetch, Validation!Requesting
<1>6. DOMAIN session[k] = Fields /\ DOMAIN session = RunKeys
  BY <1>5, GoingOn DEF RunInv
<1>7. session' = [session EXCEPT ![k] = s]
  BY <1>1, <1>4, <1>6 DEF Validation!Fetch, Fields
<1>8. /\ Validation!Requesting(k) /\ Validation!LogAttempt(k, requested[turn], "success")
      /\ runs' = runs /\ candidates \subseteq candidates'
  BY <1>1, <1>2 DEF Validation!Fetch, Validation!Request
<1>9. QED
  BY <1>1, <1>3, <1>4, <1>7, <1>8, RequestKeeps

LEMMA FailFetchKeeps ==
  ASSUME Validation!Parameters, RunInv, NEW k \in RunKeys, Validation!FailFetch(k)
  PROVE  RunInv'
<1>1. PICK requested, turn : requested = session[k].requested /\ turn = session[k].turn
  OBVIOUS
<1>2. /\ Validation!Requesting(k) /\ Validation!LogAttempt(k, requested[turn], "error")
      /\ session' = [session EXCEPT ![k].turn = turn + 1]
      /\ runs' = runs /\ candidates' = candidates
  BY <1>1 DEF Validation!FailFetch, Validation!Request
<1>3. session[k].at = "requests"
  BY <1>2 DEF Validation!Requesting
<1>4. DOMAIN session[k] = Fields /\ DOMAIN session = RunKeys
  BY <1>3, GoingOn DEF RunInv
<1>5. PICK none : none = {}
  OBVIOUS
<1>6. PICK s : s = [session[k] EXCEPT !.turn = turn + 1,
                                      !.fetched = session[k].fetched \cup none]
  OBVIOUS
<1>7. session' = [session EXCEPT ![k] = s]
  BY <1>2, <1>4, <1>5, <1>6 DEF Fields
<1>8. candidates \subseteq candidates'
  BY <1>2
<1>9. runs' = runs /\ Validation!Requesting(k)
  BY <1>2
<1>10. PICK kind : kind = "error" /\ Validation!LogAttempt(k, requested[turn], kind)
  BY <1>2
<1>11. QED
  BY ONLY Validation!Parameters, RunInv, <1>1, <1>5, <1>6, <1>7, <1>8, <1>9, <1>10, RequestKeeps

\* An unfinished run that only moves on: failed, or past its requests with an answer.
LEMMA MovesOn ==
  ASSUME RunInv, NEW k \in RunKeys, NEW at, session[k].at = "requests",
         session' = [session EXCEPT ![k].at = at],
         at = "failed" \/ (at \in Metrics /\ session[k].fetched # {}),
         UNCHANGED <<runs, candidates, attempts>>
  PROVE  RunInv'
<1>0. PICK s : s = [session[k] EXCEPT !.at = at]
  OBVIOUS
<1>1. /\ session'[k] = s /\ DOMAIN session' = RunKeys
      /\ \A q \in RunKeys : q # k => session'[q] = session[q]
  BY <1>0 DEF RunInv
<1>2. /\ session[k] # Validation!Idle /\ DOMAIN session[k] = Fields
      /\ SessionFits(k, session[k])
  BY GoingOn
<1>3. /\ DOMAIN s = Fields /\ s.requested = session[k].requested /\ s.at = at
      /\ s.turn = session[k].turn /\ s.fetched = session[k].fetched
  BY <1>0, <1>2 DEF Fields
<1>4. SessionFits(k, s)
  BY <1>2, <1>3 DEF SessionFits, Metrics
<1>5. QED
  BY <1>1, <1>2, <1>4, StillGoing

LEMMA UnknownExchangeKeeps ==
  ASSUME RunInv, NEW k \in RunKeys, Validation!UnknownExchange(k)
  PROVE  RunInv'
BY MovesOn DEF Validation!UnknownExchange, Validation!Requesting

LEMMA AllFetchedKeeps ==
  ASSUME RunInv, NEW k \in RunKeys, Validation!AllFetched(k)
  PROVE  RunInv'
<1> DEFINE at == IF session[k].fetched = {} THEN "failed" ELSE "discovery_listing"
<1>1. /\ session[k].at = "requests" /\ session' = [session EXCEPT ![k].at = at]
      /\ UNCHANGED <<runs, candidates, attempts>>
  BY DEF Validation!AllFetched, Validation!RequestsDone, Validation!Steps
<1>2. at = "failed" \/ (at \in Metrics /\ session[k].fetched # {})
  BY DEF Metrics
<1> HIDE DEF at
<1>3. QED
  BY <1>1, <1>2, MovesOn

\* A metric changes where the run is, what it has read, and its report.
LEMMA MeasureKeeps ==
  ASSUME RunInv, NEW k \in RunKeys, session[k].at \in Metrics,
         session'[k].at \in {"succeeded"} \cup Metrics,
         DOMAIN session' = RunKeys, DOMAIN session'[k] = DOMAIN session[k],
         \A q \in RunKeys : q # k => session'[q] = session[q],
         session'[k].requested = session[k].requested,
         session'[k].turn = session[k].turn, session'[k].fetched = session[k].fetched,
         UNCHANGED <<runs, candidates, attempts>>
  PROVE  RunInv'
<1>1. PICK s : s = session'[k]
  OBVIOUS
<1>2. /\ session[k] # Validation!Idle /\ DOMAIN session[k] = Fields
      /\ SessionFits(k, session[k])
  BY GoingOn DEF Metrics
<1>3. SessionFits(k, s)
  BY <1>1, <1>2 DEF SessionFits
<1>4. QED
  BY <1>1, <1>2, <1>3, StillGoing

LEMMA StepsAre ==
  /\ Validation!Steps[1] = "discovery_listing" /\ Validation!Steps[2] = "completeness_timeliness"
  /\ Validation!Steps[3] = "disagreement_benchmark" /\ Validation!Steps[4] = "calendar_validation"
BY DEF Validation!Steps

LEMMA StepsFollow ==
  \A i \in 1..4 :
    /\ Validation!Steps[i] \in Metrics
    /\ (IF i = Len(Validation!Steps) THEN "succeeded" ELSE Validation!Steps[i + 1])
         \in {"succeeded"} \cup Metrics
BY DEF Validation!Steps, Metrics

LEMMA ReadListingsKeeps ==
  ASSUME RunInv, NEW k \in RunKeys, Validation!ReadListings(k)
  PROVE  RunInv'
<1>1. PICK seen : session' = [session EXCEPT ![k].read = seen]
  BY DEF Validation!ReadListings
<1>2. session[k].at \in Metrics /\ UNCHANGED <<runs, candidates, attempts>>
  BY StepsFollow DEF Validation!ReadListings
<1>3. DOMAIN session[k] = Fields /\ DOMAIN session = RunKeys
  BY <1>2, GoingOn DEF Metrics, RunInv
<1>4. /\ session'[k].at = session[k].at /\ DOMAIN session' = RunKeys
      /\ DOMAIN session'[k] = DOMAIN session[k]
      /\ \A q \in RunKeys : q # k => session'[q] = session[q]
      /\ session'[k].requested = session[k].requested
      /\ session'[k].turn = session[k].turn /\ session'[k].fetched = session[k].fetched
  BY <1>1, <1>3 DEF Fields
<1>5. QED
  BY <1>2, <1>4, MeasureKeeps

LEMMA MeasuresKeep ==
  ASSUME RunInv, NEW k \in RunKeys,
         \/ Validation!MeasureDiscovery(k) \/ Validation!MeasureCompleteness(k)
         \/ Validation!MeasureDisagreement(k) \/ Validation!MeasureCalendar(k)
  PROVE  RunInv'
<1> DEFINE after(i) == IF i = Len(Validation!Steps) THEN "succeeded" ELSE Validation!Steps[i + 1]
       Moved(i) ==
         \E b, d :
           /\ session[k].at = Validation!Steps[i]
           /\ session' = [session EXCEPT ![k].at = after(i), ![k].buckets = b, ![k].disagreed = d]
           /\ UNCHANGED <<runs, candidates, attempts>>
<1>1. ASSUME NEW i \in 1..4, Moved(i) PROVE RunInv'
  <2>1. PICK b, d :
          session' = [session EXCEPT ![k].at = after(i), ![k].buckets = b, ![k].disagreed = d]
    BY <1>1
  <2>2. /\ session[k].at \in Metrics /\ after(i) \in {"succeeded"} \cup Metrics
        /\ UNCHANGED <<runs, candidates, attempts>>
    BY <1>1, StepsFollow
  <2> HIDE DEF after
  <2>3. DOMAIN session[k] = Fields /\ DOMAIN session = RunKeys
    BY <2>2, GoingOn DEF Metrics, RunInv
  <2>4. /\ session'[k].at = after(i) /\ DOMAIN session' = RunKeys
        /\ DOMAIN session'[k] = DOMAIN session[k]
        /\ \A q \in RunKeys : q # k => session'[q] = session[q]
        /\ session'[k].requested = session[k].requested
        /\ session'[k].turn = session[k].turn /\ session'[k].fetched = session[k].fetched
    BY <2>1, <2>3 DEF Fields
  <2>5. QED
    BY <2>2, <2>4, MeasureKeeps
<1>2. CASE Validation!MeasureDiscovery(k)
  <2>1. Moved(1)
    BY <1>2 DEF Validation!MeasureDiscovery, Validation!Measure
  <2> HIDE DEF Moved
  <2>2. QED
    BY <1>1, <2>1
<1>3. CASE Validation!MeasureCompleteness(k)
  <2>1. Moved(2)
    BY <1>3 DEF Validation!MeasureCompleteness, Validation!Measure
  <2> HIDE DEF Moved
  <2>2. QED
    BY <1>1, <2>1
<1>4. CASE Validation!MeasureDisagreement(k)
  <2>1. Moved(3)
    BY <1>4 DEF Validation!MeasureDisagreement, Validation!Measure
  <2> HIDE DEF Moved
  <2>2. QED
    BY <1>1, <2>1
<1>5. CASE Validation!MeasureCalendar(k)
  <2>1. Moved(4)
    BY <1>5 DEF Validation!MeasureCalendar, Validation!Measure
  <2> HIDE DEF Moved
  <2>2. QED
    BY <1>1, <2>1
<1>6. QED
  BY <1>2, <1>3, <1>4, <1>5

LEMMA FinishRunKeeps ==
  ASSUME RunInv, NEW k \in RunKeys, Validation!Finish(k)
  PROVE  RunInv'
<1>1. /\ session'[k] = Validation!Idle /\ DOMAIN session' = RunKeys
      /\ \A q \in RunKeys : q # k => session'[q] = session[q]
      /\ session[k].at \in {"succeeded", "failed"}
      /\ UNCHANGED <<candidates, attempts>>
  BY DEF Validation!Finish, RunInv, Validation!Terminal
<1>2. /\ DOMAIN runs' = RunKeys /\ \A q \in RunKeys : q # k => runs'[q] = runs[q]
      /\ runs'[k].state = session[k].at /\ runs'[k].requested = session[k].requested
  BY DEF Validation!Finish, RunInv
<1>3. /\ SessionFits(k, session[k]) /\ session[k] # Validation!Idle
      /\ \A n \in session[k].fetched :
           n \in DOMAIN session[k].requested /\ Evident(k, session[k].requested, n)
  BY <1>1, GoingOn
<1>4. \A q : Kept(q)
  BY <1>1 DEF Kept, AttemptsKept
<1>5. RecordFits(k, runs[k])'
  <2>1. \A requested, n : Evident(k, requested, n) => Evident(k, requested, n)'
    BY <1>4, EvidenceKept
  <2>2. PICK requested : requested = session[k].requested
    OBVIOUS
  <2>3. session[k].at = "succeeded" /\ requested # <<>>
          => \E n \in DOMAIN requested : Evident(k, requested, n)
    BY <1>3, <2>2 DEF SessionFits
  <2>4. session[k].at = "succeeded" /\ requested # <<>>
          => \E n \in DOMAIN requested : Evident(k, requested, n)'
    BY <2>1, <2>3
  <2>5. QED
    BY <1>2, <2>2, <2>4 DEF RecordFits
<1>6. PICK s : s = Validation!Idle
  OBVIOUS
<1>7. SessionFits(k, s)'
  BY <1>6 DEF SessionFits
<1>8. QED
  BY <1>1, <1>2, <1>4, <1>5, <1>6, <1>7, OneRunMoves DEF RunInv, Validation!Idle

\* A roll-back takes the rows of its own run only.
LEMMA AbortedRows ==
  ASSUME Validation!Parameters, NEW k \in RunKeys, Validation!Abort(k),
         NEW q \in RunKeys, q # k
  PROVE  AttemptsKept(q)
<1>1. ASSUME NEW i \in Validation!AttemptIds, attempts[i].run = q \/ attempts'[i].run = q
      PROVE  attempts'[i] = attempts[i]
  <2>1. attempts'[i] = IF attempts[i].run = k THEN Validation!NoAttempt ELSE attempts[i]
    BY DEF Validation!Abort
  <2>2. Validation!NoAttempt.run = "none" /\ q # "none"
    BY DEF Validation!NoAttempt, Validation!Parameters
  <2>3. QED
    BY <1>1, <2>1, <2>2
<1>2. QED
  BY <1>1 DEF AttemptsKept

LEMMA AbortRunKeeps ==
  ASSUME Validation!Parameters, RunInv, NEW k \in RunKeys, Validation!Abort(k)
  PROVE  RunInv'
<1>1. /\ session'[k] = Validation!Idle /\ DOMAIN session' = RunKeys
      /\ \A q \in RunKeys : q # k => session'[q] = session[q]
      /\ session[k] # Validation!Idle
      /\ UNCHANGED runs
  BY DEF Validation!Abort, RunInv
<1>2. \A q \in RunKeys : q # k => Kept(q)
  BY AbortedRows DEF Kept, Validation!Abort
<1>3. DOMAIN attempts' = Validation!AttemptIds
  BY DEF Validation!Abort, Validation!AttemptIds
<1>4. runs'[k] = Validation!NoRun
  BY <1>1 DEF RunInv
<1>5. RecordFits(k, runs[k])'
  BY <1>4 DEF RecordFits
<1>6. PICK s : s = Validation!Idle
  OBVIOUS
<1>7. SessionFits(k, s)'
  BY <1>6 DEF SessionFits
<1>8. QED
  BY <1>1, <1>2, <1>3, <1>4, <1>5, <1>6, <1>7, OneRunMoves DEF RunInv, Validation!Idle

\* Other jobs add rows that are nobody's.
LEMMA OthersKeep ==
  ASSUME RunInv, \A k \in RunKeys : Kept(k), UNCHANGED <<runs, session>>,
         DOMAIN attempts' = Validation!AttemptIds
  PROVE  RunInv'
<1>1. ASSUME NEW k \in RunKeys
      PROVE  /\ SessionFits(k, session[k])'
             /\ RecordFits(k, runs[k])'
             /\ (runs[k] # Validation!NoRun => session[k] = Validation!Idle)'
  BY BystanderKept
<1>2. QED
  BY <1>1 DEF RunInv

LEMMA LoadKept ==
  ASSUME Validation!Parameters, RunInv, NEW o, Validation!Load(o), NEW k \in RunKeys
  PROVE  /\ Kept(k) /\ DOMAIN attempts' = Validation!AttemptIds
         /\ {c \in candidates' : c.run = k} = {c \in candidates : c.run = k}
<1> DEFINE id == Validation!NewId(attempts)
           row == Validation!Attempt("loads", ExchangeOf[o.listing], "none", o.kind)
<1>1. id \in Validation!AttemptIds /\ attempts[id] = Validation!NoAttempt
  BY NewIdIsFree DEF Validation!Load
<1>2. attempts' = [attempts EXCEPT ![id] = row]
  BY DEF Validation!Load
<1>3. row.run = "loads" /\ Validation!NoAttempt.run = "none"
  BY DEF Validation!Attempt, Validation!NoAttempt
<1> HIDE DEF id, row
<1>4. k # "loads" /\ k # "none"
  BY DEF Validation!Parameters
<1>5. /\ candidates \subseteq candidates'
      /\ \A c \in candidates' \ candidates : c.run = "loads"
  BY DEF Validation!Load
<1>6. AttemptsKept(k) /\ DOMAIN attempts' = Validation!AttemptIds
  BY <1>1, <1>2, <1>3, <1>4 DEF AttemptsKept, RunInv
<1>7. QED
  BY <1>4, <1>5, <1>6 DEF Kept

LEMMA LoadKeeps ==
  ASSUME Validation!Parameters, RunInv, NEW o, Validation!Load(o)
  PROVE  RunInv'
<1>1. DOMAIN attempts' = Validation!AttemptIds /\ UNCHANGED <<runs, session>>
  BY DEF Validation!Load, RunInv
<1>2. QED
  BY <1>1, LoadKept, OthersKeep

LEMMA NextRuns == Validation!Parameters /\ RunInv /\ [Validation!Next]_(Validation!vars) => RunInv'
<1>1. SUFFICES ASSUME Validation!Parameters, RunInv, [Validation!Next]_(Validation!vars)
               PROVE  RunInv'
  OBVIOUS
<1>2. ASSUME NEW k \in RunKeys, Validation!RunStep(k) PROVE RunInv'
  BY <1>1, <1>2, StartOfRunKeeps, FetchKeeps, FailFetchKeeps, UnknownExchangeKeeps,
     AllFetchedKeeps, MeasuresKeep, ReadListingsKeeps, FinishRunKeeps, AbortRunKeeps
     DEF Validation!RunStep
<1>3. CASE UNCHANGED <<runs, session, candidates, attempts>>
  BY <1>1, <1>3, OthersKeep DEF Kept, AttemptsKept, RunInv
<1>4. QED
  BY <1>1, <1>2, <1>3, LoadKeeps DEF Validation!Next, Validation!ChangeUniverse, Validation!vars

LEMMA RunInvariant == ASSUME Validation!Parameters PROVE Validation!Spec => []RunInv
<1>1. RunInv /\ [Validation!Next]_(Validation!vars) => RunInv'
  BY NextRuns
<1>2. QED
  BY <1>1, InitRuns, PTL DEF Validation!Spec

\* A run that asked for quotes and succeeded has on record the candidates of a request
\* and an attempt under its symbol, which worked unless a later request overwrote it
\* (orchestrate_launch_exchange_validation_run).
THEOREM SuccessHasEvidence ==
  ASSUME Validation!Parameters PROVE Validation!Spec => []SucceededMeansFetched
<1>1. ASSUME RunInv PROVE SucceededMeansFetched
  <2>1. ASSUME NEW k \in Validation!Recorded, runs[k].state = "succeeded",
               runs[k].requested # <<>>
        PROVE  \E n \in DOMAIN runs[k].requested : Evident(k, runs[k].requested, n)
    BY <1>1, <2>1 DEF RunInv, RecordFits, Validation!Recorded
  <2>2. QED
    BY <2>1
       DEF SucceededMeansFetched, Validation!SucceededMeansFetched, Evident, HasAttempt,
           HasCandidates, AttemptSays
<1>2. QED
  BY <1>1, RunInvariant, PTL

\* A step of the run under another key leaves the candidates of k alone.
LEMMA OthersCandidates ==
  ASSUME NEW k, NEW q, q # k, Validation!RunStep(q)
  PROVE  {c \in candidates' : c.run = k} = {c \in candidates : c.run = k}
<1>1. CASE \E v \in Quotes : Validation!Fetch(q, v)
  BY <1>1 DEF Validation!Fetch, Validation!Quote
<1>2. CASE Validation!Abort(q)
  BY <1>2 DEF Validation!Abort
<1>3. CASE UNCHANGED candidates
  BY <1>3
<1>4. QED
  BY <1>1, <1>2, <1>3
     DEF Validation!RunStep, Validation!Start, Validation!FailFetch, Validation!UnknownExchange,
         Validation!AllFetched, Validation!MeasureDiscovery, Validation!ReadListings,
         Validation!MeasureCompleteness, Validation!MeasureDisagreement,
         Validation!MeasureCalendar, Validation!Measure, Validation!Finish

\* Nor does it touch the attempts of k.
LEMMA OthersAttempts ==
  ASSUME Validation!Parameters, RunInv, NEW k \in RunKeys, NEW q \in RunKeys, q # k,
         Validation!RunStep(q)
  PROVE  AttemptsKept(k)
<1>1. ASSUME Validation!Requesting(q), NEW kind,
             Validation!LogAttempt(q, Validation!Request(q), kind)
      PROVE  AttemptsKept(k)
  <2>1. /\ session[q].turn \in DOMAIN session[q].requested
        /\ DOMAIN session[q].requested = 1 .. Len(session[q].requested)
    BY <1>1, TurnIsARequest, GoingOn
  <2>2. Validation!LogAttempt(q, session[q].requested[session[q].turn], kind)
    BY <1>1 DEF Validation!Request
  <2>3. QED
    BY <2>1, <2>2, LogEffect DEF RunInv
<1>2. CASE \E v \in Quotes : Validation!Fetch(q, v)
  BY <1>1, <1>2 DEF Validation!Fetch
<1>3. CASE Validation!FailFetch(q)
  BY <1>1, <1>3 DEF Validation!FailFetch
<1>4. CASE Validation!Abort(q)
  BY <1>4, AbortedRows
<1>5. CASE UNCHANGED attempts
  BY <1>5 DEF AttemptsKept
<1>6. QED
  BY <1>2, <1>3, <1>4, <1>5
     DEF Validation!RunStep, Validation!Start, Validation!UnknownExchange,
         Validation!AllFetched, Validation!MeasureDiscovery, Validation!ReadListings,
         Validation!MeasureCompleteness, Validation!MeasureDisagreement,
         Validation!MeasureCalendar, Validation!Measure, Validation!Finish

\* A run on record is never changed, done again or joined by further candidates or
\* attempts (_create_or_get_run_shell returns it as it is).
THEOREM RecordsAreFinal ==
  ASSUME Validation!Parameters PROVE Validation!Spec => RecordedRunIsFinal
<1> DEFINE Final(k) ==
      /\ runs'[k] = runs[k]
      /\ {c \in candidates' : c.run = k} = {c \in candidates : c.run = k}
      /\ \A i \in Validation!AttemptIds :
           attempts[i].run = k \/ attempts'[i].run = k => attempts'[i] = attempts[i]
<1>1. ASSUME RunInv, [Validation!Next]_(Validation!vars), NEW k \in Validation!Recorded
      PROVE  Final(k)
  <2>1. k \in RunKeys /\ runs[k] # Validation!NoRun /\ session[k] = Validation!Idle
    BY <1>1 DEF RunInv, Validation!Recorded
  <2>2. ~Validation!RunStep(k)
    <3>1. session[k].at = "idle"
      BY <2>1 DEF Validation!Idle
    <3>2. QED
      BY <2>1, <3>1, StepsAre
         DEF Validation!RunStep, Validation!Start, Validation!IsNew, Validation!Fetch,
             Validation!FailFetch, Validation!UnknownExchange, Validation!Requesting,
             Validation!AllFetched, Validation!RequestsDone, Validation!MeasureDiscovery,
             Validation!ReadListings, Validation!MeasureCompleteness,
             Validation!MeasureDisagreement, Validation!MeasureCalendar, Validation!Measure,
             Validation!Finish, Validation!Terminal, Validation!Abort
  <2>3. ASSUME NEW q \in RunKeys, Validation!RunStep(q) PROVE Final(k)
    <3>1. q # k
      BY <2>2, <2>3
    <3>2. runs'[k] = runs[k]
      BY <1>1, <2>1, <2>3, <3>1
         DEF RunInv, Validation!RunStep, Validation!Start, Validation!Fetch,
             Validation!FailFetch, Validation!UnknownExchange, Validation!AllFetched,
             Validation!MeasureDiscovery, Validation!ReadListings,
             Validation!MeasureCompleteness, Validation!MeasureDisagreement,
             Validation!MeasureCalendar, Validation!Measure, Validation!Finish, Validation!Abort
    <3>3. {c \in candidates' : c.run = k} = {c \in candidates : c.run = k}
      BY <2>3, <3>1, OthersCandidates
    <3>4. AttemptsKept(k)
      BY <1>1, <2>1, <2>3, <3>1, OthersAttempts
    <3>5. QED
      BY <3>2, <3>3, <3>4 DEF AttemptsKept
  <2>4. ASSUME NEW o \in Loads, Validation!Load(o) PROVE Final(k)
    BY <1>1, <2>1, <2>4, LoadKept DEF Validation!Load, Kept, AttemptsKept
  <2>5. CASE UNCHANGED <<runs, candidates, attempts>>
    BY <2>5
  <2>6. QED
    BY <1>1, <2>3, <2>4, <2>5 DEF Validation!Next, Validation!ChangeUniverse, Validation!vars
<1>2. RunInv /\ [Validation!Next]_(Validation!vars)
        => [\A k \in Validation!Recorded : Final(k)]_(Validation!vars)
  BY <1>1
<1>3. QED
  BY <1>2, RunInvariant, PTL DEF Validation!Spec, RecordedRunIsFinal, Validation!RecordedRunIsFinal

=============================================================================
