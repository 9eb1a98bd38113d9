----------------------------- MODULE MCProviders -----------------------------
\* Small instances of Providers for TLC.  A behaviour moves one of the four parts and
\* the others stay where they began; every behaviour of each is there, once.  The
\* source probes come in two instances: two processes that run the same family, and
\* one process with two families and the matrix.  So does the price selection: one
\* call with an answer of up to three candidates, and calls one after another with
\* up to two each.
EXTENDS Providers, TLC

CONSTANT First   \* the process of the second instance
VARIABLE part

probeVars == vars
runVars   == <<runs, session, supported, candidates, attempts>>
priceVars == <<logged, rows, prices, last>>
scoreVars == <<score, folded>>

ASSUME RunParameters == Validation!Parameters
ASSUME PriceParameters == Selection!Parameters
ASSUME ScoreParameters == Scores!Parameters

\* --------------------------------------------------------- the validation runs
\* One listing, of the exchange that is ranked second.

Cez == {"cez"}
TwoExchanges == {"NYSE", "PSE"}
OfPrague  == [l \in Cez |-> "PSE"]
ItsOwn    == [l \in Cez |-> l]
NyseFirst == [x \in TwoExchanges |-> IF x = "NYSE" THEN 1 ELSE 2]

Stored(v, benchmark, reference, kind) ==
  [listing |-> "cez", type |-> "current_day_unadjusted_open", value |-> v,
   benchmark |-> benchmark, reference |-> reference, kind |-> kind]
OneLoad == {Stored(2, 1, "agrees", "success")}

\* No request, one, one whose symbol is asked for again with a listing there is not, and
\* one after which an exchange is asked for that there is not.
Asked(x, l) == [exchange |-> x, symbol |-> "cez.cz", listing |-> l]
FourRequestLists ==
  {<<>>, <<Asked("PSE", "cez")>>,
   <<Asked("PSE", "cez"), Asked("PSE", "delisted")>>, <<Asked("PSE", "cez"), Asked("LSE", "cez")>>}

\* The runs under different keys differ in nothing else.
RunKeySymmetry == Permutations(RunKeys)

\* --------------------------------------------------------- the price selection
\* Policies that separate the providers by each criterion, that do not, and that
\* leave one out; candidates of all, one of the wrong type and one of no listing.

Ranked(r, h, c, o) == [reliability |-> r, history |-> h, coverage |-> c, order |-> o]
FourPolicies ==
  {[p \in Providers |-> CASE p = "A" -> Ranked(9, 0, 0, 2)
                          [] p = "B" -> Ranked(8, 5, 5, 1)
                          [] p = "C" -> Ranked(8, 5, 6, 3)],
   [p \in Providers |-> CASE p = "A" -> Ranked(9, 4, 5, 1)
                          [] p = "B" -> Ranked(9, 5, 4, 2)
                          [] p = "C" -> Ranked(8, 9, 9, 1)],
   [p \in {"A", "B"} |-> Ranked(9, 5, 5, IF p = "A" THEN 2 ELSE 1)],
   [p \in {"B", "C"} |-> Ranked(9, 5, 5, 1)]}

Priced(p, l, type, v) == [provider |-> p, listing |-> l, type |-> type, value |-> v]
Offers ==
  {Priced(p, l, "current_day_unadjusted_open", IF p = "B" THEN 2 ELSE 1) :
     p \in Providers, l \in Listings}
    \cup {Priced("A", Unknown, "current_day_unadjusted_open", 1)}
    \cup {Priced("B", l, "historical_adjusted_close", 1) : l \in Listings}

Short == {answer \in Selection!Answers : Len(answer) <= 2}

\* ------------------------------------------------------ the reliability scores
\* The best and the worst window, and two whose means do not come out even.

Rated(key, m, d) ==
  [key |-> key, rates |-> [r \in {"match", "missing", "timely", "stale", "error", "disagree"} |->
                             IF r \in {"match", "timely"} THEN m ELSE d]]
FourWindows ==
  {Rated("w1", 100, 0), Rated("w2", 0, 100), Rated("w3", 99, 7), Rated("w4", 33, 66)}

\* ------------------------------------------------------------- the composition

TwoFamilies == {<<"STOOQ", "FMP">>, <<"FMP", "STOOQ">>, <<"FMP">>}

MCInit ==
  /\ part \in Commands \cup {"matrix", "runs", "answers", "calls", "scores"}
  /\ Init /\ Validation!Init /\ Selection!Init /\ Scores!Init

MCNext ==
  \/ /\ part \in Commands
     /\ Next
     /\ \A w \in Workers : job'[w] # NoJob => job'[w].command = part
     /\ UNCHANGED <<part, runVars, priceVars, scoreVars>>
  \/ /\ part = "matrix"
     /\ Next
     /\ \A w \in Workers \ {First} : job'[w] = NoJob
     /\ UNCHANGED <<part, runVars, priceVars, scoreVars>>
  \/ part = "runs"   /\ Validation!Next /\ UNCHANGED <<part, probeVars, priceVars, scoreVars>>
  \/ /\ part = "answers"
     /\ \/ rows = << >> /\ Selection!Next
        \/ \E a \in Attempts : Selection!LogAttempt(a)
     /\ UNCHANGED <<part, probeVars, runVars, scoreVars>>
  \/ /\ part = "calls"
     /\ \/ \E a \in Attempts : Selection!LogAttempt(a)
        \/ \E answer \in Short, audit \in Selection!Audit, policy \in Policies :
             \/ \E request \in Listings : Selection!Select(request, answer, audit, policy)
             \/ Selection!FailKeepingRows(answer, audit, policy)
     /\ Cardinality(DOMAIN rows') <= 2
     /\ UNCHANGED <<part, probeVars, runVars, scoreVars>>
  \/ part = "scores" /\ Scores!Next     /\ UNCHANGED <<part, probeVars, runVars, priceVars>>

MCSpec == MCInit /\ [][MCNext]_<<part, probeVars, runVars, priceVars, scoreVars>>
===============================================================================
