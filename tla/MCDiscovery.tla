----------------------------- MODULE MCDiscovery -----------------------------
\* A small instance of Discovery for TLC.  A behaviour moves one of the four parts and
\* the others stay where they began; every behaviour of each is there, once.
EXTENDS Discovery, TLC

VARIABLE part

priorityVars == <<prices, day, priority, command>>

ASSUME PriorityParameters == Priority!Parameters
ASSUME WalkParameters == Calendar!Parameters

MCInit ==
  /\ part \in {"universe", "priority", "calendar", "jobs"}
  /\ Init /\ Priority!Init /\ Calendar!Init /\ Jobs!Init

MCNext ==
  \/ part = "universe" /\ Next          /\ UNCHANGED <<part, priorityVars, date, jobs>>
  \/ part = "priority" /\ Priority!Next /\ UNCHANGED <<part, vars, date, jobs>>
  \/ part = "calendar" /\ Calendar!Next /\ UNCHANGED <<part, vars, priorityVars, jobs>>
  \/ part = "jobs"     /\ Jobs!Next     /\ UNCHANGED <<part, vars, priorityVars, date>>

MCSpec == MCInit /\ [][MCNext]_<<part, vars, priorityVars, date, jobs>>

\* The universe: three sources and a ticker.
ThreeSources == <<"NASDAQ_TRADER", "NYSE", "OPENFIGI">>
SampleOne    == [x \in Exchanges |-> "MSFT"]

\* Neither the commands nor the keys of the jobs are told apart.
Alike == Permutations(Commands) \cup Permutations(Keys)

\* The priority: the calendar of the first exchange has a holiday on the first day.
OneHoliday == [x \in Codes |-> IF x = 1 THEN 2..LastDay ELSE 1..LastDay]
===============================================================================
