------------------------- MODULE OpeningPriceSelection -------------------------
(***************************************************************************)
(* The opening price of one day, listing by listing: an adapter answers a  *)
(* request with candidates, each is kept as a row under a key that hashes  *)
(* everything known about it, the candidates are ranked by the policy of   *)
(* their providers, and the winner's value becomes the price record, over  *)
(* whatever price there was.                                               *)
(*                                                                         *)
(* The adapter, the caller and its transaction are not in the repository:  *)
(* the adapter may answer anything its types admit, and a caller whose     *)
(* call raised an error may roll back or carry on and commit.              *)
(***************************************************************************)
EXTENDS Integers, Sequences, FiniteSets, SequencesExt

CONSTANTS
  Providers,   \* provider codes on record
  Listings,    \* listings on record
  Unknown,     \* a listing id that is not
  Values,      \* prices
  Attempts,    \* attempt keys
  Times,       \* times of a request
  Offered,     \* the candidates an adapter may answer with
  Policies,    \* the policies callers pass: provider -> ranking inputs
  MaxAnswer,   \* bound on the candidates of one answer
  MaxRows      \* bound on the candidate rows of the day

None == "none"
NoPrice == [value |-> 0, attempt |-> None]
Open == "current_day_unadjusted_open"
Close == "historical_adjusted_close"

VARIABLES
  logged,   \* the attempts logged so far
  rows,     \* candidate key -> the attempt its row is linked to, or None
  prices,   \* listing -> its price record, or NoPrice
  last      \* history: the last call that succeeded, if any, and its selection

vars == <<logged, rows, prices, last>>

Candidate ==
  [provider : Providers, listing : Listings \cup {Unknown}, type : {Open, Close},
   value : Values]

Answers == BoundedSeq(Offered, MaxAnswer)

Parameters ==
  /\ MaxAnswer \in Nat
  /\ Unknown \notin Listings
  /\ Offered \subseteq Candidate
  /\ \A policy \in Policies :
       /\ DOMAIN policy \subseteq Providers
       /\ \A p \in DOMAIN policy :
            policy[p] \in [reliability : Int, history : Int, coverage : Int, order : Int]

Audit == [requested : Times, attempt : Attempts \cup {None}]

\* A faulty variant: every call makes keys of its own.
Key_Numbered(c, audit) == [candidate |-> c, audit |-> audit, number |-> Cardinality(DOMAIN rows)]

\* The key of a candidate: every part of it, and the evidence of its request.
Key(c, audit) == [candidate |-> c, audit |-> audit]

Init ==
  /\ logged = {}
  /\ rows = << >>
  /\ prices = [l \in Listings |-> NoPrice]
  /\ last = {}

-----------------------------------------------------------------------------
(***************************************************************************)
(* Ranking.                                                                *)
(***************************************************************************)

Criteria == <<"reliability", "history", "coverage", "order">>

\* The higher the better, except for the fixed order.
Better(criterion, a, b) ==
  IF criterion = "order" THEN a.order < b.order ELSE a[criterion] > b[criterion]

\* a and b agree on the criteria before the i-th.
AgreeBefore(i, a, b) == \A j \in 1..(i - 1) : a[Criteria[j]] = b[Criteria[j]]

\* A faulty variant: the criteria are added up.
Precedes_Sum(a, b) ==
  a.reliability + a.history + a.coverage > b.reliability + b.history + b.coverage

Precedes(a, b) ==
  \E i \in DOMAIN Criteria : AgreeBefore(i, a, b) /\ Better(Criteria[i], a, b)

\* The best of a set of keys; equal ranks are separated by the keys' hashes.
Best(policy, keys) ==
  CHOOSE k \in keys :
    \A other \in keys :
      ~Precedes(policy[other.candidate.provider], policy[k.candidate.provider])

Winner(policy, keys) == Best(policy, Range(keys))

\* A faulty variant: behind the winner the candidates are not sorted.
RunnerUp_Any(policy, keys) ==
  LET first == Winner(policy, keys)
      again == Cardinality({i \in DOMAIN keys : keys[i] = first}) > 1
  IN  IF again THEN first ELSE SelectSeq(keys, LAMBDA k : k # first)[1]

\* Second in the ranking, where a repeated candidate takes two places.
RunnerUp(policy, keys) ==
  LET first == Winner(policy, keys)
      again == Cardinality({i \in DOMAIN keys : keys[i] = first}) > 1
  IN  IF again THEN first ELSE Best(policy, Range(keys) \ {first})

\* Why the winner won: the first criterion on which the two differ.
Reason(policy, keys) ==
  IF Len(keys) = 1 THEN "single_candidate"
  ELSE LET a == policy[Winner(policy, keys).candidate.provider]
           b == policy[RunnerUp(policy, keys).candidate.provider]
           differ == {i \in DOMAIN Criteria : a[Criteria[i]] # b[Criteria[i]]}
       IN  IF differ = {} THEN "tiebreak"
           ELSE Criteria[CHOOSE i \in differ : \A j \in differ : i <= j]

-----------------------------------------------------------------------------
(***************************************************************************)
(* One call.                                                               *)
(***************************************************************************)

\* An attempt that is not on record links to nothing.
Link(audit) == IF audit.attempt \in logged THEN audit.attempt ELSE None

\* The rows with those of the candidates among them: a row that is there
\* already is linked anew.
Persisted(candidates, audit) ==
  [k \in DOMAIN rows \cup {Key(c, audit) : c \in Range(candidates)} |->
     IF \E c \in Range(candidates) : k = Key(c, audit) THEN Link(audit) ELSE rows[k]]

\* The candidates before the first one of an unknown listing.
KnownPrefix(answer) ==
  LET unknown == {i \in DOMAIN answer : answer[i].listing = Unknown}
  IN  IF unknown = {} THEN answer
      ELSE SubSeq(answer, 1, (CHOOSE i \in unknown : \A j \in unknown : i <= j) - 1)

\* The candidates agree with each other; the request is not looked at.
SingleTarget(answer) ==
  /\ answer[1].type = Open
  /\ \A c \in Range(answer) : c.listing = answer[1].listing /\ c.type = answer[1].type

HasPolicy(policy, answer) == \A c \in Range(answer) : c.provider \in DOMAIN policy

Accepted(answer, policy) ==
  /\ KnownPrefix(answer) = answer
  /\ SingleTarget(answer)
  /\ HasPolicy(policy, answer)

\* The call selects a price and is committed.
Select(request, answer, audit, policy) ==
  /\ answer # <<>>
  /\ Accepted(answer, policy)
  /\ rows' = Persisted(answer, audit)
  /\ Cardinality(DOMAIN rows') <= MaxRows
  /\ LET keys == [i \in DOMAIN answer |-> Key(answer[i], audit)]
         winner == Winner(policy, keys)
     IN  /\ prices' = [prices EXCEPT ![winner.candidate.listing] =
                         [value |-> winner.candidate.value, attempt |-> Link(audit)]]
         /\ last' = {[request |-> request, answer |-> answer, audit |-> audit,
                      policy |-> policy, winner |-> winner,
                      reason |-> Reason(policy, keys)]}
  /\ UNCHANGED logged

\* The call raises an error after rows were written, and the caller commits
\* all the same; when it rolls back, as when the answer is empty, nothing is
\* changed.
FailKeepingRows(answer, audit, policy) ==
  /\ answer # <<>>
  /\ ~Accepted(answer, policy)
  /\ rows' = Persisted(KnownPrefix(answer), audit)
  /\ Cardinality(DOMAIN rows') <= MaxRows
  /\ UNCHANGED <<logged, prices, last>>

\* An attempt is logged, at any time before or after its candidates.
LogAttempt(a) ==
  /\ logged' = logged \cup {a}
  /\ UNCHANGED <<rows, prices, last>>

Next ==
  \/ \E a \in Attempts : LogAttempt(a)
  \/ \E answer \in Answers, audit \in Audit, policy \in Policies :
       \/ \E request \in Listings : Select(request, answer, audit, policy)
       \/ FailKeepingRows(answer, audit, policy)

Spec == Init /\ [][Next]_vars

-----------------------------------------------------------------------------
(***************************************************************************)
(* Properties.                                                             *)
(***************************************************************************)

\* No other candidate of the call ranks before the one whose value became
\* the price, whatever order the adapter gave them in and whatever other
\* calls, failed ones included, came since.
PriceIsBest ==
  \A call \in last :
    /\ prices[call.winner.candidate.listing].value = call.winner.candidate.value
    /\ \A i \in DOMAIN Criteria : \A c \in Range(call.answer) :
         LET a == call.policy[call.winner.candidate.provider]
             b == call.policy[c.provider]
         IN  AgreeBefore(i, a, b) => ~Better(Criteria[i], b, a)

\* The reason given explains the choice: the criteria up to the one named
\* single the winner out among all candidates of the call, not only from the
\* runner-up, and those before it do not.
ReasonExplains ==
  \A call \in last : \A i \in DOMAIN Criteria : Criteria[i] = call.reason =>
    LET a == call.policy[call.winner.candidate.provider]
        others == {call.policy[c.provider] :
                     c \in Range(call.answer) \ {call.winner.candidate}}
    IN  /\ \A b \in others :
             \E j \in 1..i : AgreeBefore(j, a, b) /\ Better(Criteria[j], a, b)
        /\ \E b \in others : AgreeBefore(i, a, b)

\* A link differs only in that the call's attempt, missing before, has been logged since.
LinkedSince(before, after, audit) ==
  after # before => before = None /\ after = audit.attempt

\* "Re-running the same instrument-day load remains idempotent": the last call made again
\* with the same answer and the same audit (its request time and its attempt) adds no row
\* and leaves every price and every link as it was, but for a link to the call's attempt
\* when that was logged in between.  Other calls may have failed since.
RerunChangesNothing ==
  [][\A call \in last :
       Select(call.request, call.answer, call.audit, call.policy) =>
         /\ DOMAIN rows' = DOMAIN rows
         /\ \A k \in DOMAIN rows : LinkedSince(rows[k], rows'[k], call.audit)
         /\ \A l \in Listings :
              /\ prices'[l].value = prices[l].value
              /\ LinkedSince(prices[l].attempt, prices'[l].attempt, call.audit)]_vars

-----------------------------------------------------------------------------
\* Claims of the documents and comments that the code does not keep: TLC refutes
\* each of them (README, "Where the code and its documents disagree").

\* "Selected opening value writes to price records with expected day/type
\* identity": a call writes the price of the listing it was made for.
PriceOfTheRequest == \A call \in last : call.winner.candidate.listing = call.request

\* "The system must retain audit evidence for candidate price values, the
\* selected source, and the reason the selected source won": the tables tell
\* which provider a price came from.
SelectedSourceRetained ==
  \A l \in Listings : prices[l] # NoPrice =>
    Cardinality({k.candidate.provider : k \in
      {r \in DOMAIN rows : /\ r.candidate.listing = l
                           /\ r.candidate.value = prices[l].value
                           /\ rows[r] = prices[l].attempt}}) <= 1
=============================================================================
