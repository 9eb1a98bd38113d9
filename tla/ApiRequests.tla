----------------------------- MODULE ApiRequests -----------------------------
\* The HTTP server of the API: a thread a request, the credentials a path requires,
\* the two requests that set the launch scope, and the counter of refused requests.
\* What the app's and the operators' reads answer is in AppReadPath, OperatorLoadTable
\* and PlatformHealth: here they are the statuses they may end with.
EXTENDS Naturals, FiniteSets

CONSTANTS
  Threads,
  CodesOf,      \* scope table -> the codes on record
  Requests,     \* what clients send: [method, path, app, session, wellFormed, codes]
  MaxErrors     \* bound on the counted errors

Tables == DOMAIN CodesOf
AppTokens == {"none", "wrong", "app"}
Sessions  == {"none", "wrong", "operator", "admin"}
Paths == {"/health", "/app/", "/operator/", "/admin/", "/"} \cup Tables

Parameters ==
  /\ Tables \cap {"/health", "/app/", "/operator/", "/"} = {}
  /\ \A r \in Requests :
       /\ r.method \in {"GET", "POST"} /\ r.path \in Paths
       /\ r.app \in AppTokens /\ r.session \in Sessions
       /\ r.wellFormed \in BOOLEAN  \* an object, and what sets the scope has a list of distinct codes

VARIABLES
  active,     \* table -> code -> whether it is in the launch scope
  thread,     \* thread -> the request it serves, or Idle
  errors,     \* the process's counter of errors
  counted,    \* history: how many errors were to be counted
  asked       \* history: table -> the scopes that were set
vars == <<active, thread, errors, counted, asked>>

Idle == [at |-> "idle"]
ScopeOf(flags) == {c \in DOMAIN flags : flags[c]}

Init ==
  /\ active \in [Tables -> UNION {[CodesOf[tab] -> BOOLEAN] : tab \in Tables}]
  /\ \A tab \in Tables : active[tab] \in [CodesOf[tab] -> BOOLEAN]
  /\ thread = [t \in Threads |-> Idle]
  /\ errors = 0 /\ counted = 0
  /\ asked = [tab \in Tables |-> {ScopeOf(active[tab])}]

\* ------------------------------------------------------------------ authorization

RequiredBoundary(path) ==
  CASE path = "/app/"                    -> "app"
    [] path = "/operator/"               -> "operator"
    [] path \in {"/admin/"} \cup Tables  -> "admin"
    [] OTHER                             -> "none"

\* A faulty variant: any private session opens every private path.
Accepted_AnySession(boundary) ==
  IF boundary = "app" THEN {"app"} ELSE {"operator", "admin"}
Accepted(boundary) ==
  CASE boundary = "app"      -> {"app"}
    [] boundary = "operator" -> {"operator", "admin"}
    [] boundary = "admin"    -> {"admin"}

\* An app token is looked at on the app's paths only, a session on the private ones.
Authorize(r) ==
  LET boundary  == RequiredBoundary(r.path)
      presented == IF boundary = "app" THEN r.app ELSE r.session
  IN IF boundary = "none" \/ presented \in Accepted(boundary) THEN 200
     ELSE IF presented = "none" THEN 401
     ELSE 403

\* ------------------------------------------------------------------- the handlers

Goto(t, place) == thread' = [thread EXCEPT ![t].at = place]
Reply(t) == thread' = [thread EXCEPT ![t] = Idle]

Receive(t, r) ==
  /\ thread[t] = Idle /\ counted < MaxErrors
  /\ thread' = [thread EXCEPT ![t] =
       [at |-> IF Authorize(r) # 200 THEN "error"
               ELSE IF r.method = "POST" THEN "body" ELSE "get",
        request |-> r, seen |-> 0, read |-> <<>>, disturbed |-> FALSE]]
  /\ UNCHANGED <<active, errors, counted, asked>>

\* 401, 403 and the 404 of a path nobody serves are counted; 400, and the 404 of a read
\* that found nothing, are not.  An increment reads the counter and then writes it.
ReadCounter(t) ==
  /\ thread[t].at = "error"
  /\ thread' = [thread EXCEPT ![t].at = "count", ![t].seen = errors]
  /\ counted' = counted + 1
  /\ UNCHANGED <<active, errors, asked>>

WriteCounter(t) ==
  /\ thread[t].at = "count"
  /\ errors' = thread[t].seen + 1
  /\ Reply(t)
  /\ UNCHANGED <<active, counted, asked>>

\* The body is read before the path is looked at.
ReadBody(t) ==
  LET r == thread[t].request IN
  /\ thread[t].at = "body"
  /\ IF ~r.wellFormed THEN Reply(t)                      \* 400
     ELSE Goto(t, IF r.path \in Tables THEN "read" ELSE "error")
  /\ UNCHANGED <<active, errors, counted, asked>>

ReadRows(t) ==
  LET r == thread[t].request IN
  /\ thread[t].at = "read"
  /\ IF r.codes \subseteq CodesOf[r.path]
     THEN thread' = [thread EXCEPT ![t].at = "commit", ![t].read = active[r.path]]
     ELSE Reply(t)                                      \* 400
  /\ UNCHANGED <<active, errors, counted, asked>>

\* A faulty variant: codes are added to the scope and never taken out of it.
Requested_Added(codes, read, c) == read[c] \/ c \in codes
Requested(codes, read, c) == c \in codes

\* Only rows that differ from what was read are written.
CommitScope(t) ==
  LET r    == thread[t].request
      read == thread[t].read
      new  == [c \in CodesOf[r.path] |-> Requested(r.codes, read, c)]
  IN
  /\ thread[t].at = "commit"
  /\ active' = [active EXCEPT ![r.path] =
       [c \in CodesOf[r.path] |-> IF new[c] # read[c] THEN new[c] ELSE @[c]]]
  /\ asked' = [asked EXCEPT ![r.path] = @ \cup {r.codes}]
  /\ thread' = [u \in Threads |->
       IF u = t THEN [thread[t] EXCEPT !.at = "read back"]
       ELSE IF thread[u].at \in {"commit", "read back"} /\ thread[u].request.path = r.path
       THEN [thread[u] EXCEPT !.disturbed = TRUE]
       ELSE thread[u]]
  /\ UNCHANGED <<errors, counted>>

\* The reply is read in a second session: the scope as it is by then.
ReadBack(t) ==
  /\ thread[t].at = "read back"
  /\ Reply(t)
  /\ UNCHANGED <<active, errors, counted, asked>>

\* A read ends with its data, or with a status of its own; what nobody serves is an error.
Serve(t) ==
  /\ thread[t].at = "get"
  /\ IF thread[t].request.path = "/" THEN Goto(t, "error") ELSE Reply(t)
  /\ UNCHANGED <<active, errors, counted, asked>>

\* A database error is not a ValueError: the thread ends without a reply.
DatabaseFails(t) ==
  /\ thread[t].at \in {"read", "commit", "read back", "get"}
  /\ Reply(t)
  /\ UNCHANGED <<active, errors, counted, asked>>

Next ==
  \E t \in Threads :
    \/ \E r \in Requests : Receive(t, r)
    \/ ReadCounter(t) \/ WriteCounter(t)
    \/ ReadBody(t) \/ ReadRows(t) \/ CommitScope(t) \/ ReadBack(t)
    \/ Serve(t) \/ DatabaseFails(t)

Spec == Init /\ [][Next]_vars

-------------------------------------------------------------------------------
\* The scope changes by requests of admins alone, to codes on record: whatever other
\* requests a thread served before, and whatever they ended with.
OnlyAdminsChangeScope ==
  [][\A tab \in Tables : active'[tab] # active[tab] =>
       \E t \in Threads :
         /\ CommitScope(t)
         /\ thread[t].request.path = tab /\ thread[t].request.session = "admin"
         /\ thread[t].request.codes \subseteq CodesOf[tab]]_vars

\* A request nobody disturbed between its read of the table and its reply is answered
\* with the scope it asked for.
UndisturbedIsEchoed ==
  [][\A t \in Threads : ReadBack(t) /\ ~thread[t].disturbed =>
       ScopeOf(active[thread[t].request.path]) = thread[t].request.codes]_vars

-----------------------------------------------------------------------------
\* Claims of the documents and comments that the code does not keep: TLC refutes
\* each of them (README, "Where the code and its documents disagree").

\* "The system must allow the admin to define supported exchanges": the scope is one
\* that an admin set.
ScopeWasRequested == \A tab \in Tables : ScopeOf(active[tab]) \in asked[tab]

\* "Basic metric helpers exist for [the] API error rate": no counted error is lost.
NoErrorLost ==
  (\A t \in Threads : thread[t].at # "count") => errors = counted
===============================================================================
