--------------------------- MODULE ReliabilityScore ---------------------------
(***************************************************************************)
(* The reliability of a provider on an exchange: a running mean, kept to   *)
(* four decimals, of the scores of its outcome windows.  A window repeated *)
(* right after itself is not counted again; that is all the table knows of *)
(* the windows it has seen.                                                *)
(*                                                                         *)
(* Scores are counted in ten-thousandths, the rates of a window in         *)
(* hundredths, which makes the weights whole numbers.                      *)
(***************************************************************************)
EXTENDS Integers, FiniteSets

CONSTANTS
  Pairs,     \* pairs of a provider and an exchange
  Windows,   \* outcome windows of one pair, each with a key and six rates
  MaxCount   \* bound on the observations counted

Rates == {"match", "missing", "timely", "stale", "error", "disagree"}

Parameters ==
  /\ IsFiniteSet(Windows)
  /\ \A w \in Windows : w.rates \in [Rates -> 0..100]
  /\ MaxCount \in Nat \ {0}

One == 10000

\* The weighted score of one window.
WindowScore(r) ==
  35 * r["match"] + 20 * (100 - r["missing"]) + 15 * r["timely"]
    + 10 * (100 - r["stale"]) + 10 * (100 - r["error"]) + 10 * (100 - r["disagree"])

\* a / n, rounded half up, for a >= 0.
RoundedQuotient(a, n) == (2 * a + n) \div (2 * n)

VARIABLES
  score,   \* pair -> [mean, count, key], with count 0 when there is no row
  folded   \* history: pair -> the sum and the extremes of what was counted

vars == <<score, folded>>

NoScore == [mean |-> 0, count |-> 0, key |-> "none"]

Init ==
  /\ score = [p \in Pairs |-> NoScore]
  /\ folded = [p \in Pairs |-> [sum |-> 0, low |-> One, high |-> 0, seen |-> {}]]

\* The window's score s becomes part of what was counted for p.
Count(p, w, s) ==
  folded' = [folded EXCEPT
    ![p] = [sum |-> @.sum + s,
            low |-> IF s < @.low THEN s ELSE @.low,
            high |-> IF s > @.high THEN s ELSE @.high,
            seen |-> @.seen \cup {w}]]

\* The first window of a pair becomes its row.
Insert(p, w) ==
  /\ score[p] = NoScore
  /\ score' = [score EXCEPT ![p] =
                 [mean |-> WindowScore(w.rates), count |-> 1, key |-> w.key]]
  /\ Count(p, w, WindowScore(w.rates))

\* The window counted last comes again; only the time of the row changes.
Replay(p, w) ==
  /\ score[p].count > 0
  /\ score[p].key = w.key
  /\ UNCHANGED vars

\* A faulty variant: the new window is not among the observations divided by.
Fold_OldCount(p, w) ==
  LET n == score[p].count
  IN  /\ n \in 1..(MaxCount - 1)
      /\ score[p].key # w.key
      /\ score' = [score EXCEPT ![p] =
           [mean  |-> RoundedQuotient(score[p].mean * n + WindowScore(w.rates), n),
            count |-> n + 1,
            key   |-> w.key]]
      /\ Count(p, w, WindowScore(w.rates))

\* Any other window moves the mean.
Fold(p, w) ==
  LET n == score[p].count
  IN  /\ n \in 1..(MaxCount - 1)
      /\ score[p].key # w.key
      /\ score' = [score EXCEPT ![p] =
           [mean  |-> RoundedQuotient(score[p].mean * n + WindowScore(w.rates), n + 1),
            count |-> n + 1,
            key   |-> w.key]]
      /\ Count(p, w, WindowScore(w.rates))

Next == \E p \in Pairs, w \in Windows : Insert(p, w) \/ Replay(p, w) \/ Fold(p, w)

Spec == Init /\ [][Next]_vars

-----------------------------------------------------------------------------
(***************************************************************************)
(* Properties.                                                             *)
(***************************************************************************)

\* The mean stays between the worst and the best window that was counted:
\* sources are never ranked by a score none of their windows supports.
MeanBetweenWindows ==
  \A p \in Pairs : score[p].count > 0 =>
    folded[p].low <= score[p].mean /\ score[p].mean <= folded[p].high

-----------------------------------------------------------------------------
\* Claims of the documents and comments that the code does not keep: TLC refutes
\* each of them (README, "Where the code and its documents disagree").

\* "Repeated updates for same input window produce stable outcomes": a window
\* that has been counted changes nothing when it comes again.
ReplayedWindowStable ==
  [][\A p \in Pairs : \A w \in folded[p].seen :
       score'[p].key = w.key => score'[p] = score[p]]_vars
=============================================================================
