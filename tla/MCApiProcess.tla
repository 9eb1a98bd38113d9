----------------------------- MODULE MCApiProcess -----------------------------
\* A small instance of ApiProcess for TLC.  A behaviour moves one of the three parts and
\* the others stay where they began; every behaviour of each is there, once.
EXTENDS ApiProcess

VARIABLE part

scopeVars  == <<active, thread, errors, due, asked>>
healthVars == <<now, up, daemon, steady, beats, pending, checking, report, count, gauges>>

ASSUME ReadParameters == Parameters
ASSUME ScopeParameters == Api!Parameters
ASSUME HealthParameters == Health!Windows

MCInit ==
  /\ part \in {"scope", "reads", "health"}
  /\ Init /\ Api!Init /\ Health!Init
  /\ part # "scope" => \A tab \in Api!Tables : Api!ScopeOf(active[tab]) = {}
  /\ part # "reads" => ~inProcess

MCNext ==
  \/ part = "reads"  /\ Next        /\ UNCHANGED <<part, scopeVars, healthVars>>
  \/ part = "scope"  /\ Api!Next    /\ UNCHANGED <<part, vars, healthVars>>
  \/ part = "health" /\ Health!Next /\ UNCHANGED <<part, vars, scopeVars>>

MCSpec == MCInit /\ [][MCNext]_<<part, vars, scopeVars, healthVars>>

\* The reads: all listings are of exchange 2, decided last; readers treat "failed" as "blocked".
OfTheLast == [l \in Listings |-> 2]

\* The requests.
ScopeTables == [tab \in {"supported-exchanges", "supported-instrument-types"} |->
                  IF tab = "supported-exchanges" THEN {"NYSE", "NASDAQ"} ELSE {"ETF"}]
Post(path, session, codes) ==
  [method |-> "POST", path |-> path, app |-> "none", session |-> session,
   wellFormed |-> TRUE, codes |-> codes]
Get(path, app, session) ==
  [Post(path, session, {}) EXCEPT !.method = "GET", !.app = app]
Garbled(r) == [r EXCEPT !.wellFormed = FALSE]

SettingScope ==
  {Post("supported-exchanges", "admin", codes) : codes \in SUBSET {"NYSE", "NASDAQ"}}
Others ==
  {Post("supported-exchanges", session, {"NYSE"}) : session \in {"none", "operator"}}
    \cup {Post("supported-instrument-types", "admin", codes) : codes \in {{"ETF"}, {"CRY"}}}
    \cup {Post("/admin/", "admin", {}), Garbled(Post("supported-exchanges", "admin", {})),
          Get("/", "none", "none"), Get("/app/", "wrong", "none"), Get("/operator/", "none", "admin")}
AllRequests == SettingScope \cup Others
===============================================================================
