--------------------------- MODULE ApiProcessProofs ---------------------------
(***************************************************************************)
(* Proofs about the API process: what it answers to readers (AppReadPath), *)
(* for every finite set of days and any exchanges and listings; when its   *)
(* health report raises an alarm (PlatformHealth), for any windows that    *)
(* fit the poll; and who sets the launch scope (ApiRequests), for any      *)
(* threads, scope tables and requests.  The last two are instances that    *)
(* share no state with the first (ApiProcess).                             *)
(***************************************************************************)
EXTENDS ApiProcess, Integers, FiniteSetTheorems, WellFoundedInduction, TLAPS

-----------------------------------------------------------------------------
(***************************************************************************)
(* AppReadPath: the history truths collects what was so during a request.  *)
(* The invariant says that each truth is sound in itself and lies between  *)
(* what the app was told before and what the tables say now (TruthsFit),   *)
(* and that what a request has learnt, read by read, is one of the truths  *)
(* of its exchange (AnswerFits).                                           *)
(***************************************************************************)

StatusOrNone == PublicationStatus \cup {NoRow}
DayOrNone    == Days \cup {NoDay}
Item   == [day : DayOrNone, status : StatusOrNone]
Truth  == [day : DayOrNone, status : StatusOrNone, committed : BOOLEAN,
           counted : SUBSET Prices]
Memory == [status : StatusOrNone, prices : SUBSET Prices, counted : SUBSET Prices]
Loop   == [day : DayOrNone, todo : SUBSET Exchanges,
           publication : [Loads -> StatusOrNone], counted : [Loads -> SUBSET Prices]]
Steps  == {"own_entry", "dictionary", "query", "prices", "respond"}
Asking == [kind : {"readiness", "prices"}, scope : SUBSET Exchanges, at : Steps,
           todo : SUBSET Exchanges, items : UNION {[s -> Item] : s \in SUBSET Exchanges},
           prices : SUBSET Prices, asked : Days]

TypeOK ==
  /\ inProcess \in BOOLEAN
  /\ publication \in [Loads -> StatusOrNone]
  /\ counted \in [Loads -> SUBSET Prices]
  /\ priced \in SUBSET Prices
  /\ loop \in Loop
  /\ runs \in Nat
  /\ memory \in [Loads -> Memory]
  /\ today \in Days
  /\ request \in Asking \cup {NoRequest}
  /\ request # NoRequest => request.items \in [request.scope -> Item]
  /\ truths \in [Exchanges -> SUBSET Truth]
  /\ told \in [Exchanges -> DayOrNone]

\* A load that is ready has prices counted, its own, and they are recorded.
ReadyIsPriced(pub, cnt) ==
  \A load \in Loads :
    pub[load] = "ready" => cnt[load] # {} /\ cnt[load] \subseteq PricesOf(load) \cap priced

TablesFit ==
  /\ ReadyIsPriced(publication, counted)
  /\ ReadyIsPriced(loop.publication, loop.counted)
  /\ \A load \in Loads : publication[load] # NoRow => loop.publication[load] # NoRow

MemoryFits ==
  /\ ~inProcess => \A load \in Loads : memory[load].status = NoRow
  /\ \A load \in Loads : memory[load].status = "ready" =>
       /\ memory[load].counted # {}
       /\ memory[load].counted \subseteq memory[load].prices
       /\ memory[load].prices \subseteq PricesOf(load) \cap priced

ToldFits == ~inProcess => \A x \in Exchanges : told[x] <= LatestOf(publication, x).day

\* If t says that x is ready, the prices counted for it are there.
Priced(t, x) ==
  t.status = "ready" => t.counted # {} /\ t.counted \subseteq PricesOf(<<x, t.day>>) \cap priced

\* As deployed, t was committed, and is no older than what the app was told.
InTime(t, x) ==
  ~inProcess => t.committed /\ told[x] <= t.day /\ t.day <= LatestOf(publication, x).day

TruthsFit ==
  request # NoRequest =>
    \A x \in Exchanges :
      /\ Current(publication, counted, x) \in truths[x]
      /\ Remembered(memory, x) \subseteq truths[x]
      /\ \A t \in truths[x] : Priced(t, x) /\ InTime(t, x)

Says(t, item) == item = [day |-> t.day, status |-> t.status]

AnswerFits ==
  request # NoRequest =>
    /\ request.kind = "prices" => \E x \in Exchanges : request.scope = {x}
    /\ request.at \in {"own_entry", "dictionary", "query"} => request.prices = {}
    /\ request.at = "query" =>
         \A x \in request.scope \ request.todo :
           \E t \in truths[x] : t.committed /\ Says(t, request.items[x])
    /\ request.at = "prices" =>
         \A x \in request.scope :
           \E t \in truths[x] : t.status = "ready" /\ Says(t, request.items[x])
    /\ request.at = "prices" => request.kind = "prices"
    /\ ReadinessIsCommitted
    /\ PricesComplete

AppInv == TypeOK /\ TablesFit /\ MemoryFits /\ ToldFits /\ TruthsFit /\ AnswerFits

-----------------------------------------------------------------------------
(***************************************************************************)
(* The operators the model is built from.                                  *)
(***************************************************************************)

\* A nonempty set of days has a last day, as Max computes it: the one with
\* the fewest days after it.
LEMMA LastDay ==
  ASSUME Parameters, NEW S \in SUBSET Days, S # {}
  PROVE  Max(S) \in S /\ \A d \in S : d <= Max(S)
<1> DEFINE After(m) == {n \in S : n > m}
           Sizes == {Cardinality(After(m)) : m \in S}
<1>1. S \in SUBSET Nat /\ IsFiniteSet(S)
  BY FS_Subset DEF Parameters
<1>2. \A m \in S : IsFiniteSet(After(m)) /\ Cardinality(After(m)) \in Nat
  BY <1>1, FS_Subset, FS_CardinalityType
<1>3. PICK m \in S : \A k \in S : Cardinality(After(m)) <= Cardinality(After(k))
  <2>1. Sizes \in SUBSET Nat /\ Sizes # {}
    BY <1>2
  <2>2. PICK c \in Sizes : \A d \in Sizes : <<d, c>> \notin OpToRel(<, Nat)
    <3> HIDE DEF Sizes
    <3> QED
      BY <2>1, NatLessThanWellFounded, WFMin
  <2>3. \A d \in Sizes : ~ (d < c)
    BY <2>1, <2>2 DEF OpToRel
  <2>4. PICK k \in S : c = Cardinality(After(k))
    BY <2>2
  <2>5. ASSUME NEW n \in S PROVE Cardinality(After(k)) <= Cardinality(After(n))
    <3>1. Cardinality(After(n)) \in Sizes
      OBVIOUS
    <3>2. ~ (Cardinality(After(n)) < Cardinality(After(k)))
      BY <2>3, <2>4, <3>1
    <3>3. Cardinality(After(n)) \in Nat /\ Cardinality(After(k)) \in Nat
      BY <1>2
    <3> HIDE DEF After
    <3>4. QED
      BY <3>2, <3>3
  <2>6. QED
    BY <2>5
<1>4. ASSUME NEW n \in S, n > m PROVE FALSE
  <2>1. After(n) \subseteq After(m) /\ After(n) # After(m)
    <3>1. n \in Nat /\ m \in Nat /\ n \in After(m) /\ n \notin After(n)
      BY <1>1, <1>4
    <3>2. \A k \in Nat : k > n => k > m
      BY <1>4, <3>1
    <3>3. QED
      BY <1>1, <3>1, <3>2
  <2>2. Cardinality(After(n)) < Cardinality(After(m))
    <3> HIDE DEF After
    <3>1. After(n) \in SUBSET After(m)
      BY <2>1
    <3>2. /\ Cardinality(After(n)) <= Cardinality(After(m))
          /\ Cardinality(After(n)) # Cardinality(After(m))
      BY <1>2, <2>1, <3>1, FS_Subset
    <3>3. QED
      BY <1>2, <3>2
  <2>3. Cardinality(After(m)) <= Cardinality(After(n))
    BY <1>3, <1>4
  <2>4. Cardinality(After(m)) \in Nat /\ Cardinality(After(n)) \in Nat
    BY <1>2, <1>4
  <2> HIDE DEF After
  <2>5. QED
    BY <2>2, <2>3, <2>4
<1>5. \A d \in S : m >= d
  BY <1>1, <1>4
<1>6. QED
  BY <1>1, <1>5 DEF Max

\* The load LatestOf reports has the latest day among those with a status.
LEMMA LatestMeaning ==
  ASSUME Parameters, NEW status \in [Loads -> StatusOrNone], NEW x \in Exchanges
  PROVE  /\ LatestOf(status, x) \in Item
         /\ LatestOf(status, x) # Nothing =>
              /\ LatestOf(status, x).day \in Days
              /\ LatestOf(status, x).status # NoRow
              /\ LatestOf(status, x).status = status[<<x, LatestOf(status, x).day>>]
         /\ \A d \in Days : status[<<x, d>>] # NoRow => d <= LatestOf(status, x).day
         /\ LatestOf(status, x).day \in Nat
<1> DEFINE days == {d \in Days : status[<<x, d>>] # NoRow}
<1>1. CASE days = {}
  BY <1>1 DEF LatestOf, Nothing, Item, DayOrNone, StatusOrNone, NoDay
<1>2. CASE days # {}
  <2>1. Max(days) \in days /\ \A d \in days : d <= Max(days)
    BY <1>2, LastDay
  <2>2. LatestOf(status, x) = [day |-> Max(days), status |-> status[<<x, Max(days)>>]]
    BY <1>2 DEF LatestOf
  <2>3. <<x, Max(days)>> \in Loads /\ Max(days) \in Days /\ Max(days) \in Nat
    BY <2>1 DEF Loads, Parameters
  <2>4. QED
    BY <2>1, <2>2, <2>3 DEF Item, DayOrNone
<1>3. QED
  BY <1>1, <1>2

\* Nothing is later once more loads have a status.
LEMMA LatestGrows ==
  ASSUME Parameters, NEW old \in [Loads -> StatusOrNone], NEW new \in [Loads -> StatusOrNone],
         \A load \in Loads : old[load] # NoRow => new[load] # NoRow,
         NEW x \in Exchanges
  PROVE  LatestOf(old, x).day <= LatestOf(new, x).day
<1>1. CASE LatestOf(old, x) = Nothing
  <2>1. LatestOf(new, x).day \in Nat
    BY LatestMeaning
  <2>2. LatestOf(old, x).day = 0
    BY <1>1 DEF Nothing, NoDay
  <2>3. QED
    BY <2>1, <2>2
<1>2. CASE LatestOf(old, x) # Nothing
  <2> DEFINE d == LatestOf(old, x).day
  <2>1. d \in Days /\ old[<<x, d>>] # NoRow
    BY <1>2, LatestMeaning
  <2>2. new[<<x, d>>] # NoRow
    BY <2>1 DEF Loads
  <2>3. QED
    BY <2>1, <2>2, LatestMeaning
<1>3. QED
  BY <1>1, <1>2

\* What the database says of an exchange is a truth of its kind.
LEMMA CurrentMeaning ==
  ASSUME Parameters, NEW pub \in [Loads -> StatusOrNone], NEW cnt \in [Loads -> SUBSET Prices],
         NEW x \in Exchanges
  PROVE  /\ Current(pub, cnt, x) \in Truth
         /\ Current(pub, cnt, x).committed
         /\ Current(pub, cnt, x).day = LatestOf(pub, x).day
         /\ Says(Current(pub, cnt, x), LatestOf(pub, x))
         /\ ReadyIsPriced(pub, cnt) /\ Current(pub, cnt, x).status = "ready" =>
              /\ Current(pub, cnt, x).counted # {}
              /\ Current(pub, cnt, x).counted
                   \subseteq PricesOf(<<x, Current(pub, cnt, x).day>>) \cap priced
<1> DEFINE latest == LatestOf(pub, x)
           fresh == Current(pub, cnt, x)
<1>1. latest \in Item
  BY LatestMeaning
<1>2. /\ fresh.day = latest.day /\ fresh.status = latest.status /\ fresh.committed
      /\ fresh.counted = IF latest = Nothing THEN {} ELSE cnt[<<x, latest.day>>]
      /\ fresh = [day |-> latest.day, status |-> latest.status, committed |-> TRUE,
                counted |-> fresh.counted]
  BY DEF Current
<1> HIDE DEF fresh
<1>3. CASE latest = Nothing
  <2>1. fresh.counted \in SUBSET Prices /\ fresh.status # "ready"
    BY <1>2, <1>3 DEF Nothing, NoRow
  <2>2. QED
    BY <1>1, <1>2, <2>1 DEF fresh, Truth, Item, Says
<1>4. CASE latest # Nothing
  <2>1. <<x, latest.day>> \in Loads /\ latest.status = pub[<<x, latest.day>>]
    BY <1>4, LatestMeaning DEF Loads
  <2>2. fresh.counted = cnt[<<x, latest.day>>]
    BY <1>2, <1>4
  <2>3. fresh \in Truth /\ Says(fresh, latest)
    BY <1>1, <1>2, <2>1, <2>2 DEF Truth, Item, Says
  <2>4. QED
    BY <1>2, <2>1, <2>2, <2>3 DEF fresh, ReadyIsPriced
<1>5. QED
  BY <1>3, <1>4

\* What a process has in its dictionaries of an exchange are truths of it.
LEMMA RememberedMeaning ==
  ASSUME Parameters, NEW mem \in [Loads -> Memory], NEW x \in Exchanges
  PROVE  /\ Remembered(mem, x) \subseteq Truth
         /\ \A t \in Remembered(mem, x) :
              t.day \in Days /\ t.status # NoRow
                /\ t.status = mem[<<x, t.day>>].status /\ t.counted = mem[<<x, t.day>>].counted
         /\ \A d \in Days : mem[<<x, d>>].status # NoRow =>
              [day |-> d, status |-> mem[<<x, d>>].status, committed |-> FALSE,
               counted |-> mem[<<x, d>>].counted] \in Remembered(mem, x)
<1>1. ASSUME NEW d \in Days PROVE mem[<<x, d>>] \in Memory
  BY DEF Loads
<1> DEFINE T(d) == [day |-> d, status |-> mem[<<x, d>>].status, committed |-> FALSE,
                    counted |-> mem[<<x, d>>].counted]
<1>2. Remembered(mem, x) = {T(d) : d \in {e \in Days : mem[<<x, e>>].status # NoRow}}
  BY DEF Remembered
<1>3. ASSUME NEW d \in Days
      PROVE  /\ T(d) \in Truth /\ T(d).day = d /\ T(d).status = mem[<<x, d>>].status
             /\ T(d).counted = mem[<<x, d>>].counted
  BY <1>1, <1>3 DEF Truth, Memory, DayOrNone
<1> HIDE DEF T
<1>4. QED
  <2>1. \A d \in Days : mem[<<x, d>>].status # NoRow => T(d) \in Remembered(mem, x)
    BY <1>2
  <2>2. \A t \in Remembered(mem, x) : \E d \in Days : t = T(d) /\ mem[<<x, d>>].status # NoRow
    BY <1>2
  <2>3. Remembered(mem, x) \subseteq Truth
    BY <1>3, <2>2
  <2>4. ASSUME NEW t \in Remembered(mem, x)
        PROVE  t.day \in Days /\ t.status # NoRow
                /\ t.status = mem[<<x, t.day>>].status /\ t.counted = mem[<<x, t.day>>].counted
    <3>1. PICK d \in Days : t = T(d) /\ mem[<<x, d>>].status # NoRow
      BY <2>2
    <3>2. t.day = d /\ t.status = mem[<<x, d>>].status /\ t.counted = mem[<<x, d>>].counted
      BY <1>3, <3>1
    <3>3. QED
      BY <3>1, <3>2
  <2>5. QED
    BY <2>1, <2>3, <2>4 DEF T

\* What becomes of a request q that reads: it is at another step and has
\* learnt other items.
Learnt(q, at, todo, items, prices) ==
  [q EXCEPT !.at = at, !.todo = todo, !.items = items, !.prices = prices]

LEMMA AskingStep ==
  ASSUME NEW q \in Asking, NEW at \in Steps, NEW todo \in SUBSET Exchanges,
         NEW items \in [q.scope -> Item], NEW prices \in SUBSET Prices
  PROVE  LET next == Learnt(q, at, todo, items, prices)
         IN  /\ next \in Asking /\ next # NoRequest
             /\ next.kind = q.kind /\ next.scope = q.scope
             /\ next.at = at /\ next.todo = todo /\ next.items = items /\ next.prices = prices
<1> DEFINE next == Learnt(q, at, todo, items, prices)
<1>1. items \in UNION {[s -> Item] : s \in SUBSET Exchanges}
  BY DEF Asking
<1>2. /\ next.kind = q.kind /\ next.scope = q.scope
      /\ next.at = at /\ next.todo = todo /\ next.items = items /\ next.prices = prices
  BY DEF Asking, Learnt
<1>3. next \in Asking
  BY <1>1 DEF Asking, Learnt
<1>4. next.kind # "none"
  BY <1>2 DEF Asking
<1>5. QED
  BY <1>2, <1>3, <1>4 DEF NoRequest

LEMMA AskingOrNone ==
  ASSUME TypeOK
  PROVE  /\ request = NoRequest <=> request.kind = "none"
         /\ request # NoRequest => request \in Asking /\ request.items \in [request.scope -> Item]
BY DEF TypeOK, Asking, NoRequest

\* The next read of the request leaves it at another step, with other items.
Learns(at, todo, items, prices) ==
  request' = Learnt(request, at, todo, items, prices)

LEMMA LearnsFields ==
  ASSUME request \in Asking, NEW at \in Steps, NEW todo \in SUBSET Exchanges,
         NEW items \in [request.scope -> Item], NEW prices \in SUBSET Prices,
         Learns(at, todo, items, prices)
  PROVE  /\ request' \in Asking /\ request' # NoRequest
         /\ request'.kind = request.kind /\ request'.scope = request.scope
         /\ request'.at = at /\ request'.todo = todo
         /\ request'.items = items /\ request'.prices = prices
<1> DEFINE next == Learnt(request, at, todo, items, prices)
<1>1. /\ next \in Asking /\ next # NoRequest
      /\ next.kind = request.kind /\ next.scope = request.scope
      /\ next.at = at /\ next.todo = todo /\ next.items = items /\ next.prices = prices
  BY AskingStep
<1>2. request' = next
  BY DEF Learns
<1> HIDE DEF next
<1>3. QED
  BY <1>1, <1>2

\* The latest entry of x in the dictionaries.
LatestEntry(x) == LatestOf([load \in Loads |-> memory[load].status], x)

\* An entry found is one of the truths the dictionaries tell.
LEMMA EntryMeaning ==
  ASSUME Parameters, TypeOK, NEW x \in Exchanges
  PROVE  /\ LatestEntry(x) \in Item
         /\ LatestEntry(x) # Nothing =>
              /\ <<x, LatestEntry(x).day>> \in Loads
              /\ memory[<<x, LatestEntry(x).day>>].status = LatestEntry(x).status
              /\ LatestEntry(x).status # NoRow
              /\ \E t \in Remembered(memory, x) :
                   /\ Says(t, LatestEntry(x))
                   /\ t.status = LatestEntry(x).status
                   /\ t.counted = memory[<<x, LatestEntry(x).day>>].counted
<1> DEFINE status == [load \in Loads |-> memory[load].status]
           row == LatestEntry(x)
<1>1. status \in [Loads -> StatusOrNone]
  BY DEF TypeOK, Memory
<1>2. /\ row \in Item
      /\ row # Nothing => row.day \in Days /\ row.status # NoRow /\ row.status = status[<<x, row.day>>]
  <2> HIDE DEF status
  <2>1. row = LatestOf(status, x)
    BY DEF LatestEntry, status
  <2>2. QED
    BY <1>1, <2>1, LatestMeaning
<1>3. ASSUME row # Nothing
      PROVE  /\ <<x, row.day>> \in Loads
             /\ memory[<<x, row.day>>].status = row.status
             /\ \E t \in Remembered(memory, x) :
                   /\ Says(t, row)
                   /\ t.status = row.status
                   /\ t.counted = memory[<<x, row.day>>].counted
  <2>1. row.day \in Days /\ row.status # NoRow /\ row.status = status[<<x, row.day>>]
    BY <1>2, <1>3
  <2>2. <<x, row.day>> \in Loads
    BY <2>1 DEF Loads
  <2>3. memory[<<x, row.day>>].status = row.status
    BY <2>1, <2>2
  <2> DEFINE t == [day |-> row.day, status |-> memory[<<x, row.day>>].status,
                   committed |-> FALSE, counted |-> memory[<<x, row.day>>].counted]
  <2> HIDE DEF row, status
  <2>4. t \in Remembered(memory, x)
    BY <2>1, <2>3, RememberedMeaning DEF TypeOK
  <2>5. row = [day |-> row.day, status |-> row.status]
    BY <1>2 DEF Item
  <2>6. QED
    BY <2>2, <2>3, <2>4, <2>5 DEF Says
<1>4. QED
  BY <1>2, <1>3

LEMMA OwnEntryCases ==
  ASSUME TypeOK, AnswerFits, FindOwnEntry
  PROVE  /\ request \in Asking /\ request.kind = "prices" /\ request.at = "own_entry"
         /\ \E x \in Exchanges :
              /\ request.scope = {x}
              /\ LET row == LatestEntry(x)
                     found == memory[<<x, row.day>>].prices
                 IN  \/ /\ row = Nothing
                        /\ Learns("dictionary", request.todo, request.items, request.prices)
                     \/ /\ row # Nothing /\ row.status # "ready"
                        /\ Learns("respond", request.todo, request.items, request.prices)
                     \/ /\ row # Nothing /\ row.status = "ready"
                        /\ \E at \in {"prices", "respond"} :
                             /\ at = "prices" <=> found = {}
                             /\ Learns(at, request.todo, [request.items EXCEPT ![x] = row], found)
<1>1. request # NoRequest /\ request \in Asking /\ request.kind = "prices" /\ request.at = "own_entry"
  BY AskingOrNone DEF FindOwnEntry
<1>2. PICK x \in Exchanges : request.scope = {x}
  BY <1>1 DEF AnswerFits
<1>3. x = CHOOSE y \in request.scope : TRUE
  BY <1>2
<1> DEFINE row == LatestEntry(x)
           found == memory[<<x, row.day>>].prices
<1>4. request' =
           CASE row = Nothing -> [request EXCEPT !.at = "dictionary"]
             [] row # Nothing /\ row.status # "ready" -> [request EXCEPT !.at = "respond"]
             [] OTHER -> [request EXCEPT !.items[x] = row, !.prices = found,
                            !.at = IF found = {} THEN "prices" ELSE "respond"]
  BY <1>3 DEF FindOwnEntry, LatestEntry
<1> HIDE DEF row, found
<1>5. \A a : [request EXCEPT !.at = a] =
        [request EXCEPT !.at = a, !.todo = request.todo, !.items = request.items,
                        !.prices = request.prices]
  BY <1>1 DEF Asking
<1>6. \A a : [request EXCEPT !.items[x] = row, !.prices = found, !.at = a] =
        [request EXCEPT !.at = a, !.todo = request.todo,
                        !.items = [request.items EXCEPT ![x] = row], !.prices = found]
  BY <1>1 DEF Asking
<1>7. CASE row = Nothing
  BY <1>1, <1>2, <1>4, <1>5, <1>7 DEF Learns, Learnt, row
<1>8. CASE row # Nothing /\ row.status # "ready"
  BY <1>1, <1>2, <1>4, <1>5, <1>8 DEF Learns, Learnt, row
<1>9. CASE row # Nothing /\ row.status = "ready"
  <2>1. Learns(IF found = {} THEN "prices" ELSE "respond", request.todo,
               [request.items EXCEPT ![x] = row], found)
    BY <1>4, <1>6, <1>9 DEF Learns, Learnt
  <2>2. QED
    BY <1>1, <1>2, <1>9, <2>1 DEF row, found
<1>10. QED
  BY <1>7, <1>8, <1>9

LEMMA DictionaryCases ==
  ASSUME TypeOK, LookUpDictionary
  PROVE  /\ request \in Asking /\ request.at = "dictionary"
         /\ \/ /\ \A load \in Loads : memory[load].status = NoRow
               /\ Learns("query", request.scope, request.items, request.prices)
            \/ LET items == [x \in request.scope |-> LatestEntry(x)]
               IN  /\ \E load \in Loads : memory[load].status # NoRow
                   /\ Learns(AfterReadiness(items), request.todo, items, request.prices)
<1>1. request \in Asking /\ request.at = "dictionary"
  BY AskingOrNone DEF LookUpDictionary, NoRequest
<1>2. \A a, td, is :
        /\ [request EXCEPT !.at = a, !.todo = td] =
             [request EXCEPT !.at = a, !.todo = td, !.items = request.items,
                             !.prices = request.prices]
        /\ [request EXCEPT !.at = a, !.items = is] =
             [request EXCEPT !.at = a, !.todo = request.todo, !.items = is,
                             !.prices = request.prices]
  BY <1>1 DEF Asking
<1> DEFINE items == [x \in request.scope |-> LatestEntry(x)]
<1>3. request' =
           IF \A load \in Loads : memory[load].status = NoRow
           THEN [request EXCEPT !.at = "query", !.todo = request.scope]
           ELSE [request EXCEPT !.at = AfterReadiness(items), !.items = items]
  BY DEF LookUpDictionary, LatestEntry
<1>4. QED
  BY <1>1, <1>2, <1>3 DEF Learns, Learnt

LEMMA QueryCase ==
  ASSUME TypeOK, NEW x, QueryReadiness(x)
  PROVE  /\ request \in Asking /\ request.at = "query" /\ x \in request.todo
         /\ LET items == [request.items EXCEPT ![x] = LatestOf(publication, x)]
            IN  Learns(IF request.todo = {x} THEN AfterReadiness(items) ELSE "query",
                       request.todo \ {x}, items, request.prices)
<1>1. request \in Asking /\ request.at = "query" /\ x \in request.todo
  BY AskingOrNone DEF QueryReadiness, QueryReadinessBy, NoRequest
<1>2. \A a, td, is : [request EXCEPT !.items = is, !.todo = td, !.at = a] =
        [request EXCEPT !.at = a, !.todo = td, !.items = is, !.prices = request.prices]
  BY <1>1 DEF Asking
<1> DEFINE items == [request.items EXCEPT ![x] = LatestOf(publication, x)]
<1>3. request' = [request EXCEPT !.items = items, !.todo = request.todo \ {x},
                       !.at = IF request.todo = {x} THEN AfterReadiness(items) ELSE "query"]
  BY <1>1 DEF QueryReadiness, QueryReadinessBy, Asking
<1>4. QED
  BY <1>1, <1>2, <1>3 DEF Learns, Learnt

LEMMA LoadPricesCase ==
  ASSUME TypeOK, AnswerFits, LoadPrices
  PROVE  /\ request \in Asking /\ request.at = "prices" /\ request.kind = "prices"
         /\ \E x \in Exchanges :
              /\ request.scope = {x}
              /\ Learns("respond", request.todo, request.items,
                        PricesOf(<<x, request.items[x].day>>) \cap priced)
<1>1. request # NoRequest /\ request \in Asking /\ request.at = "prices"
  BY AskingOrNone DEF LoadPrices, NoRequest
<1>2. PICK x \in Exchanges : request.scope = {x} /\ request.kind = "prices"
  BY <1>1 DEF AnswerFits
<1>3. x = CHOOSE y \in request.scope : TRUE
  BY <1>2
<1>4. request' = [request EXCEPT !.at = "respond",
                       !.prices = PricesOf(<<x, request.items[x].day>>) \cap priced]
  BY <1>3 DEF LoadPrices
<1>5. \A a, ps : [request EXCEPT !.at = a, !.prices = ps] =
        [request EXCEPT !.at = a, !.todo = request.todo, !.items = request.items, !.prices = ps]
  BY <1>1 DEF Asking
<1>6. QED
  BY <1>1, <1>2, <1>4, <1>5 DEF Learns, Learnt

-----------------------------------------------------------------------------
(***************************************************************************)
(* Type correctness.                                                       *)
(***************************************************************************)

LEMMA NoDayIsNoDay == ASSUME Parameters PROVE NoDay \notin Days /\ Days \subseteq Nat
BY DEF Parameters, NoDay

LEMMA InitTypeOK == ASSUME Parameters, Init PROVE TypeOK
<1>1. Min(Days) \in Days
  <2>1. PICK c \in Days : \A d \in Days : <<d, c>> \notin OpToRel(<, Nat)
    BY NatLessThanWellFounded, WFMin DEF Parameters
  <2>2. \A d \in Days : ~ (d < c)
    BY <2>1, NoDayIsNoDay DEF OpToRel
  <2>3. \A d \in Days : c =< d
    BY <2>2, NoDayIsNoDay
  <2>4. QED
    BY <2>3 DEF Min
<1>2. loop \in Loop
  BY DEF Init, NotRunning, Loop, DayOrNone, StatusOrNone
<1>3. memory \in [Loads -> Memory]
  BY DEF Init, Unlisted, Memory, StatusOrNone
<1>4. QED
  BY <1>1, <1>2, <1>3 DEF Init, TypeOK, StatusOrNone, DayOrNone, NoTruths

\* A request that learns types keeps its own.
LEMMA LearnsTypeOK ==
  ASSUME TypeOK, request \in Asking,
         NEW at \in Steps, NEW todo \in SUBSET Exchanges,
         NEW items \in [request.scope -> Item], NEW prices \in SUBSET Prices,
         Learns(at, todo, items, prices),
         UNCHANGED <<inProcess, database, loop, runs, memory, today, truths, told>>
  PROVE  TypeOK' /\ request' # NoRequest
<1>1. /\ request' \in Asking /\ request' # NoRequest
      /\ request'.scope = request.scope /\ request'.items = items
  BY LearnsFields
<1>2. QED
  BY <1>1 DEF TypeOK, database

LEMMA NextTypeOK == ASSUME Parameters, TypeOK, AnswerFits, [Next]_vars PROVE TypeOK'
<1> USE DEF database
<1>1. ASSUME NewDay PROVE TypeOK'
  BY <1>1 DEF NewDay, TypeOK
<1>2. ASSUME NEW p \in Prices, RecordPrice(p) PROVE TypeOK'
  BY <1>2 DEF RecordPrice, TypeOK
<1>3. ASSUME NEW day \in Days, StartRun(day) PROVE TypeOK'
  <2>1. loop' \in Loop
    BY <1>3 DEF StartRun, NotRunning, TypeOK, Loop, DayOrNone
  <2>2. QED
    BY <1>3, <2>1 DEF StartRun, TypeOK
<1>4. ASSUME NEW x \in Exchanges, NEW status \in Decisions, NEW set \in SUBSET Prices,
             DecideLoad(x, status, set)
      PROVE  TypeOK'
  <2> DEFINE load == <<x, loop.day>>
  <2>1. status \in StatusOrNone /\ load \in Loads /\ loop \in Loop
    BY <1>4 DEF DecideLoad, Parameters, StatusOrNone, PublicationStatus, TypeOK, Loop, DayOrNone, Loads
  <2>2. loop' \in Loop
    BY <1>4, <2>1 DEF DecideLoad, Loop
  <2>3. Refreshed(load, status, set) \in [Loads -> Memory]
    <3>1. [status |-> status, counted |-> set,
           prices |-> IF status = "ready" THEN PricesOf(load) \cap priced ELSE {}] \in Memory
      BY <2>1 DEF Memory, PricesOf
    <3>2. QED
      BY <2>1, <3>1 DEF Refreshed, TypeOK
  <2>4. memory' \in [Loads -> Memory]
    BY <1>4, <2>3 DEF DecideLoad, TypeOK
  <2>5. truths' \in [Exchanges -> SUBSET Truth]
    <3>1. Remembered(memory', x) \subseteq Truth
      BY <2>4, RememberedMeaning
    <3>2. truths' = Witnessed(Remembered(memory', x), x)
      BY <1>4 DEF DecideLoad
    <3>3. QED
      BY <3>1, <3>2 DEF Witnessed, TypeOK
  <2>6. QED
    BY <1>4, <2>2, <2>4, <2>5 DEF DecideLoad, TypeOK
<1>5. ASSUME CommitRun PROVE TypeOK'
  <2>1. /\ publication' \in [Loads -> StatusOrNone]
        /\ counted' \in [Loads -> SUBSET Prices]
    BY <1>5 DEF CommitRun, TypeOK, Loop
  <2>2. loop' \in Loop
    BY <1>5, <2>1 DEF CommitRun, NotRunning, Loop, DayOrNone
  <2>3. truths' \in [Exchanges -> SUBSET Truth]
    <3>1. \A x \in Exchanges : Current(publication', counted', x) \in Truth
      BY <2>1, CurrentMeaning
    <3>2. QED
      BY <1>5, <3>1 DEF CommitRun, TypeOK
  <2>4. QED
    BY <1>5, <2>1, <2>2, <2>3 DEF CommitRun, TypeOK
<1>6. ASSUME RollBackRun PROVE TypeOK'
  <2>1. loop' \in Loop
    BY <1>6 DEF RollBackRun, NotRunning, TypeOK, Loop, DayOrNone
  <2>2. QED
    BY <1>6, <2>1 DEF RollBackRun, TypeOK
<1>7. ASSUME RestartApi PROVE TypeOK'
  <2>1. loop' \in Loop
    BY <1>7 DEF RestartApi, NotRunning, TypeOK, Loop, DayOrNone
  <2>2. memory' \in [Loads -> Memory]
    BY <1>7 DEF RestartApi, Unlisted, Memory, StatusOrNone
  <2>3. QED
    BY <1>7, <2>1, <2>2 DEF RestartApi, NoTruths, TypeOK
<1>8. ASSUME NEW kind \in {"readiness", "prices"}, NEW scope \in SUBSET Exchanges,
             NEW first \in Steps, Begin(kind, scope, first)
      PROVE  TypeOK'
  <2> DEFINE none == [x \in scope |-> Nothing]
  <2>1. none \in [scope -> Item]
    BY DEF Nothing, Item, DayOrNone, StatusOrNone
  <2>2. request' \in Asking /\ request'.scope = scope /\ request'.items = none
    <3>1. none \in UNION {[s -> Item] : s \in SUBSET Exchanges}
      BY <2>1
    <3> HIDE DEF none
    <3>2. QED
      BY <1>8, <3>1 DEF Begin, Asking, TypeOK, none
  <2>3. truths' \in [Exchanges -> SUBSET Truth]
    <3>1. \A x \in Exchanges : /\ Current(publication, counted, x) \in Truth
                               /\ Remembered(memory, x) \subseteq Truth
      BY CurrentMeaning, RememberedMeaning DEF TypeOK
    <3>2. QED
      BY <1>8, <3>1 DEF Begin
  <2>4. QED
    BY <1>8, <2>1, <2>2, <2>3 DEF Begin, TypeOK
<1>9. ASSUME FindOwnEntry PROVE TypeOK'
  <2>1. request \in Asking /\ request.items \in [request.scope -> Item]
        /\ request.todo \in SUBSET Exchanges /\ request.prices \in SUBSET Prices
    BY <1>9, OwnEntryCases, AskingOrNone DEF Asking, NoRequest
  <2>2. PICK x, at, items, prices :
          /\ x \in Exchanges /\ at \in Steps
          /\ request.scope = {x}
          /\ Learns(at, request.todo, items, prices)
          /\ \/ items = request.items /\ prices = request.prices
             \/ /\ LatestEntry(x) # Nothing
                /\ items = [request.items EXCEPT ![x] = LatestEntry(x)]
                /\ prices = memory[<<x, LatestEntry(x).day>>].prices
    <3>1. PICK x \in Exchanges :
            /\ request.scope = {x}
            /\ \/ Learns("dictionary", request.todo, request.items, request.prices)
               \/ Learns("respond", request.todo, request.items, request.prices)
               \/ /\ LatestEntry(x) # Nothing
                  /\ \E at \in {"prices", "respond"} :
                       Learns(at, request.todo, [request.items EXCEPT ![x] = LatestEntry(x)],
                              memory[<<x, LatestEntry(x).day>>].prices)
      BY <1>9, OwnEntryCases
    <3>2. {"dictionary", "respond", "prices"} \subseteq Steps
      BY DEF Steps
    <3>3. QED
      BY <3>1, <3>2
  <2>3. items \in [request.scope -> Item] /\ prices \in SUBSET Prices
    BY <2>1, <2>2, EntryMeaning DEF TypeOK, Memory
  <2>4. QED
    BY <1>9, <2>1, <2>2, <2>3, LearnsTypeOK DEF FindOwnEntry
<1>10. ASSUME LookUpDictionary PROVE TypeOK'
  <2> DEFINE found == [x \in request.scope |-> LatestEntry(x)]
  <2>1. request \in Asking /\ request.items \in [request.scope -> Item]
        /\ request.todo \in SUBSET Exchanges /\ request.prices \in SUBSET Prices
        /\ request.scope \in SUBSET Exchanges
    BY <1>10, DictionaryCases, AskingOrNone DEF Asking, NoRequest
  <2>2. found \in [request.scope -> Item]
    BY <2>1, EntryMeaning
  <2>3. AfterReadiness(found) \in Steps
    BY DEF AfterReadiness, Steps
  <2> HIDE DEF found
  <2>4. \/ Learns("query", request.scope, request.items, request.prices)
        \/ Learns(AfterReadiness(found), request.todo, found, request.prices)
    BY <1>10, DictionaryCases DEF found
  <2>5. "query" \in Steps
    BY DEF Steps
  <2>6. QED
    BY <1>10, <2>1, <2>2, <2>3, <2>4, <2>5, LearnsTypeOK DEF LookUpDictionary
<1>11. ASSUME NEW x \in Exchanges, QueryReadiness(x) PROVE TypeOK'
  <2> DEFINE items == [request.items EXCEPT ![x] = LatestOf(publication, x)]
             at == IF request.todo = {x} THEN AfterReadiness(items) ELSE "query"
  <2>1. request \in Asking /\ request.items \in [request.scope -> Item]
        /\ request.todo \in SUBSET Exchanges /\ request.prices \in SUBSET Prices
    BY <1>11, QueryCase, AskingOrNone DEF Asking, NoRequest
  <2>2. items \in [request.scope -> Item]
    BY <2>1, LatestMeaning DEF TypeOK
  <2>3. at \in Steps /\ request.todo \ {x} \in SUBSET Exchanges
    BY <2>1 DEF AfterReadiness, Steps
  <2>4. Learns(at, request.todo \ {x}, items, request.prices)
    BY <1>11, QueryCase
  <2> HIDE DEF items, at
  <2>5. QED
    BY <1>11, <2>1, <2>2, <2>3, <2>4, LearnsTypeOK DEF QueryReadiness, QueryReadinessBy
<1>12. ASSUME LoadPrices PROVE TypeOK'
  <2>1. request \in Asking /\ request.items \in [request.scope -> Item]
        /\ request.todo \in SUBSET Exchanges
    BY <1>12, LoadPricesCase, AskingOrNone DEF Asking, NoRequest
  <2>2. PICK x \in Exchanges : Learns("respond", request.todo, request.items,
                        PricesOf(<<x, request.items[x].day>>) \cap priced)
    BY <1>12, LoadPricesCase
  <2>3. PricesOf(<<x, request.items[x].day>>) \cap priced \in SUBSET Prices /\ "respond" \in Steps
    BY DEF PricesOf, Steps
  <2>4. QED
    BY <1>12, <2>1, <2>2, <2>3, LearnsTypeOK DEF LoadPrices
<1>13. ASSUME Respond PROVE TypeOK'
  <2>1. \A x \in Reported : request.items[x].day \in DayOrNone
    BY <1>13, AskingOrNone DEF Respond, Reported, NoRequest, Item
  <2>2. QED
    BY <1>13, <2>1 DEF Respond, NoTruths, TypeOK
<1>14. ASSUME UNCHANGED vars PROVE TypeOK'
  BY <1>14 DEF vars, TypeOK
<1>15. QED
  BY <1>1, <1>2, <1>3, <1>4, <1>5, <1>6, <1>7, <1>8, <1>9, <1>10, <1>11, <1>12, <1>13, <1>14
     DEF Next, AskReadiness, AskPrices, Steps

-----------------------------------------------------------------------------
(***************************************************************************)
(* What each step does to the invariants.  The steps around a request let  *)
(* its truths grow; its own steps leave the world alone.                   *)
(***************************************************************************)

\* The steps that are no part of a request.
World ==
  \/ NewDay
  \/ \E p \in Prices : RecordPrice(p)
  \/ \E day \in Days : StartRun(day)
  \/ \E x \in Exchanges, status \in Decisions, set \in SUBSET Prices :
       DecideLoad(x, status, set)
  \/ CommitRun
  \/ RollBackRun

\* The reads of a request.
Reading ==
  \/ FindOwnEntry
  \/ LookUpDictionary
  \/ \E x \in Exchanges : QueryReadiness(x)
  \/ LoadPrices

LEMMA StepKinds ==
  ASSUME Next
  PROVE  \/ World
         \/ RestartApi
         \/ \E kind \in {"readiness", "prices"}, scope \in SUBSET Exchanges, first \in Steps :
              /\ Begin(kind, scope, first)
              /\ first \in {"own_entry", "dictionary"}
              /\ kind = "prices" => \E x \in Exchanges : scope = {x}
         \/ Reading
         \/ Respond
BY DEF Next, World, Reading, AskReadiness, AskPrices, Steps

LEMMA ReadingLeaves ==
  ASSUME Reading
  PROVE  UNCHANGED <<inProcess, database, loop, runs, memory, today, truths, told>>
BY DEF Reading, FindOwnEntry, LookUpDictionary, QueryReadiness, QueryReadinessBy, LoadPrices

LEMMA ReadingAsks == ASSUME TypeOK, AnswerFits, Reading PROVE request # NoRequest
BY AskingOrNone DEF Reading, FindOwnEntry, LookUpDictionary, QueryReadiness,
   QueryReadinessBy, LoadPrices, NoRequest

LEMMA InProcessFixed == ASSUME [Next]_vars PROVE inProcess' = inProcess
BY DEF Next, vars, NewDay, RecordPrice, StartRun, DecideLoad, CommitRun, RollBackRun,
   RestartApi, AskReadiness, AskPrices, Begin, FindOwnEntry, LookUpDictionary,
   QueryReadiness, QueryReadinessBy, LoadPrices, Respond

LEMMA PricedGrows == ASSUME [Next]_vars PROVE priced \subseteq priced'
BY DEF Next, vars, NewDay, RecordPrice, StartRun, DecideLoad, CommitRun, RollBackRun,
   RestartApi, AskReadiness, AskPrices, Begin, FindOwnEntry, LookUpDictionary,
   QueryReadiness, QueryReadinessBy, LoadPrices, Respond, database

LEMMA DatabaseFixed ==
  ASSUME [Next]_vars, ~CommitRun PROVE publication' = publication /\ counted' = counted
BY DEF Next, vars, NewDay, RecordPrice, StartRun, DecideLoad, RollBackRun,
   RestartApi, AskReadiness, AskPrices, Begin, FindOwnEntry, LookUpDictionary,
   QueryReadiness, QueryReadinessBy, LoadPrices, Respond, database

LEMMA InitTablesFit == ASSUME Init PROVE TablesFit /\ MemoryFits
BY DEF Init, TablesFit, MemoryFits, ReadyIsPriced, NotRunning, Unlisted, NoRow

LEMMA NextTablesFit ==
  ASSUME Parameters, TypeOK, TablesFit, [Next]_vars PROVE TablesFit'
<1> USE DEF database
<1>1. priced \subseteq priced'
  BY PricedGrows
<1>2. ASSUME NEW x \in Exchanges, NEW status \in Decisions, NEW set \in SUBSET Prices,
             DecideLoad(x, status, set)
      PROVE  TablesFit'
  <2> DEFINE load == <<x, loop.day>>
  <2>1. load \in Loads /\ loop \in Loop /\ status # NoRow
    BY <1>2 DEF DecideLoad, Parameters, NoRow, TypeOK, Loop, DayOrNone, Loads
  <2>2. /\ loop'.publication = [loop.publication EXCEPT ![load] = status]
        /\ loop'.counted = [loop.counted EXCEPT ![load] = set]
    BY <1>2, <2>1 DEF DecideLoad, Loop
  <2>3. set \subseteq PricesOf(load) /\ (status = "ready" => set # {} /\ set \subseteq priced)
    BY <1>2 DEF DecideLoad
  <2>4. UNCHANGED <<publication, counted, priced>>
    BY <1>2 DEF DecideLoad
  <2>5. \A l \in Loads : /\ loop'.publication[l] = IF l = load THEN status ELSE loop.publication[l]
                         /\ loop'.counted[l] = IF l = load THEN set ELSE loop.counted[l]
    BY <2>1, <2>2 DEF Loop
  <2>6. QED
    BY <2>1, <2>3, <2>4, <2>5 DEF TablesFit, ReadyIsPriced
<1>3. ASSUME CommitRun PROVE TablesFit'
  <2>1. /\ publication' = loop.publication /\ counted' = loop.counted /\ priced' = priced
        /\ loop'.publication = publication' /\ loop'.counted = counted'
    BY <1>3 DEF CommitRun, NotRunning
  <2>2. QED
    BY <2>1 DEF TablesFit, ReadyIsPriced
<1>4. CASE /\ UNCHANGED <<publication, counted>>
           /\ \/ loop' = loop
              \/ loop' = NotRunning
              \/ \E day \in Days : loop' = [NotRunning EXCEPT !.day = day, !.todo = Exchanges]
  <2>1. \/ loop'.publication = loop.publication /\ loop'.counted = loop.counted
        \/ loop'.publication = publication /\ loop'.counted = counted
    <3>1. CASE loop' = loop
      BY <3>1
    <3>2. CASE loop' = NotRunning
      BY <3>2 DEF NotRunning
    <3>3. ASSUME NEW day \in Days, loop' = [NotRunning EXCEPT !.day = day, !.todo = Exchanges]
          PROVE  loop'.publication = publication /\ loop'.counted = counted
      BY <3>3 DEF NotRunning
    <3>4. QED
      BY <1>4, <3>1, <3>2, <3>3
  <2>2. QED
    BY <1>1, <1>4, <2>1 DEF TablesFit, ReadyIsPriced
<1>5. QED
  BY <1>2, <1>3, <1>4
     DEF Next, vars, NewDay, RecordPrice, StartRun, RollBackRun,
   RestartApi, AskReadiness, AskPrices, Begin, FindOwnEntry, LookUpDictionary,
   QueryReadiness, QueryReadinessBy, LoadPrices, Respond

LEMMA NextMemoryFits ==
  ASSUME Parameters, TypeOK, MemoryFits, [Next]_vars PROVE MemoryFits'
<1>1. priced \subseteq priced' /\ inProcess' = inProcess
  BY PricedGrows, InProcessFixed
<1>2. ASSUME NEW x \in Exchanges, NEW status \in Decisions, NEW set \in SUBSET Prices,
             DecideLoad(x, status, set), inProcess
      PROVE  MemoryFits'
  <2> DEFINE load == <<x, loop.day>>
             entry == [status |-> status, counted |-> set,
                       prices |-> IF status = "ready" THEN PricesOf(load) \cap priced ELSE {}]
  <2>1. load \in Loads
    BY <1>2 DEF DecideLoad, Parameters, TypeOK, Loop, DayOrNone, Loads
  <2>2. set \subseteq PricesOf(load) /\ (status = "ready" => set # {} /\ set \subseteq priced)
    BY <1>2 DEF DecideLoad
  <2>3. entry.status = "ready" =>
             /\ entry.counted # {}
             /\ entry.counted \subseteq entry.prices
             /\ entry.prices \subseteq PricesOf(load) \cap priced
    BY <2>2
  <2>4. memory' = [memory EXCEPT ![load] = entry]
    BY <1>2 DEF DecideLoad, Refreshed
  <2> HIDE DEF entry
  <2>5. \A l \in Loads : memory'[l] = IF l = load THEN entry ELSE memory[l]
    BY <2>1, <2>4 DEF TypeOK
  <2>6. QED
    BY <1>1, <1>2, <2>3, <2>5 DEF MemoryFits
<1>3. CASE memory' = [x \in Loads |-> Unlisted]
  BY <1>3 DEF MemoryFits, Unlisted, NoRow
<1>4. CASE memory' = memory
  BY <1>1, <1>4 DEF MemoryFits
<1>5. QED
  BY <1>2, <1>3, <1>4
     DEF Next, vars, NewDay, RecordPrice, StartRun, DecideLoad, CommitRun, RollBackRun,
   RestartApi, AskReadiness, AskPrices, Begin, FindOwnEntry, LookUpDictionary,
   QueryReadiness, QueryReadinessBy, LoadPrices, Respond

\* The truths of a request only grow while it is served.
LEMMA WorldGrows ==
  ASSUME TypeOK, World
  PROVE  /\ request' = request /\ told' = told
         /\ request # NoRequest => \A x \in Exchanges : truths[x] \subseteq truths'[x]
<1>1. ASSUME NEW x \in Exchanges, NEW status \in Decisions, NEW set \in SUBSET Prices,
             DecideLoad(x, status, set)
      PROVE  /\ request' = request /\ told' = told
             /\ \A y \in Exchanges : truths[y] \subseteq truths'[y]
  BY <1>1 DEF DecideLoad, Witnessed, TypeOK
<1>2. ASSUME CommitRun
      PROVE  /\ request' = request /\ told' = told
             /\ request # NoRequest => \A x \in Exchanges : truths[x] \subseteq truths'[x]
  BY <1>2 DEF CommitRun
<1>3. CASE UNCHANGED <<request, truths, told>>
  BY <1>3
<1>4. QED
  BY <1>1, <1>2, <1>3 DEF World, NewDay, RecordPrice, StartRun, RollBackRun

\* What the app is told of an exchange was so during its request.
LEMMA ReportedWasSo ==
  ASSUME TypeOK, AnswerFits, ~inProcess, Respond, NEW x \in Reported
  PROVE  x \in Exchanges /\ \E t \in truths[x] : request.items[x].day = t.day
<1>1. Answering /\ request \in Asking /\ request # NoRequest /\ x \in request.scope
  BY AskingOrNone DEF Respond, Reported, Answering, NoRequest
<1>2. ReadinessIsCommitted /\ PricesComplete
  BY <1>1 DEF AnswerFits
<1>3. \E t \in truths[x] : request.items[x] = [day |-> t.day, status |-> t.status]
  <2>1. CASE request.kind = "prices"
    <3>1. request.prices # {}
      BY <2>1 DEF Reported
    <3>2. QED
      BY <1>1, <1>2, <2>1, <3>1 DEF PricesComplete
  <2>2. CASE request.kind = "readiness"
    BY <1>1, <1>2, <2>2 DEF ReadinessIsCommitted
  <2>3. QED
    BY <1>1, <2>1, <2>2 DEF Asking
<1>4. PICK t \in truths[x] : request.items[x] = [day |-> t.day, status |-> t.status]
  BY <1>3
<1>5. request.items[x].day = t.day
  BY <1>4
<1>6. QED
  BY <1>1, <1>5 DEF Asking

\* The days published only get later.
LEMMA CommitMovesOn ==
  ASSUME Parameters, TypeOK, TablesFit, [Next]_vars, NEW x \in Exchanges
  PROVE  LatestOf(publication, x).day <= LatestOf(publication', x).day
<1>1. CASE CommitRun
  <2>1. publication' = loop.publication /\ loop.publication \in [Loads -> StatusOrNone]
    BY <1>1 DEF CommitRun, TypeOK, Loop
  <2>2. QED
    BY <2>1, LatestGrows DEF TypeOK, TablesFit
<1>2. CASE ~CommitRun
  <2>1. publication' = publication /\ LatestOf(publication, x).day \in Nat
    BY <1>2, DatabaseFixed, LatestMeaning DEF TypeOK
  <2>2. QED
    BY <2>1
<1>3. QED
  BY <1>1, <1>2

LEMMA DaysAreNumbers ==
  ASSUME Parameters, TypeOK, NEW x \in Exchanges
  PROVE  /\ told[x] \in Nat
         /\ LatestOf(publication, x).day \in Nat
         /\ \A t \in truths[x] : t.day \in Nat
<1>1. DayOrNone \subseteq Nat
  BY DEF DayOrNone, NoDay, Parameters
<1>2. told[x] \in Nat
  BY <1>1 DEF TypeOK
<1>3. \A t \in truths[x] : t.day \in Nat
  <2>1. truths[x] \subseteq Truth
    BY DEF TypeOK
  <2>2. \A t \in Truth : t.day \in DayOrNone
    BY DEF Truth
  <2>3. QED
    BY <1>1, <2>1, <2>2
<1>4. QED
  BY <1>2, <1>3, LatestMeaning DEF TypeOK

\* As deployed, no answer takes the app back to an earlier day.
LEMMA ToldMovesOn ==
  ASSUME Parameters, TypeOK, TruthsFit, AnswerFits, [Next]_vars, ~inProcess, NEW x \in Exchanges
  PROVE  /\ told[x] <= told'[x]
         /\ told'[x] # told[x] => told'[x] <= LatestOf(publication, x).day
<1>1. CASE Respond /\ x \in Reported
  <2>1. PICK t \in truths[x] : request.items[x].day = t.day
    BY <1>1, ReportedWasSo
  <2>2. told'[x] = t.day
    BY <1>1, <2>1 DEF Respond
  <2>3. InTime(t, x)
    BY <1>1 DEF TruthsFit, Respond, NoRequest
  <2>4. QED
    BY <2>2, <2>3 DEF InTime
<1>2. CASE told'[x] = told[x]
  BY <1>2, DaysAreNumbers
<1>3. QED
  BY <1>1, <1>2
     DEF Next, vars, NewDay, RecordPrice, StartRun, DecideLoad, CommitRun, RollBackRun,
   RestartApi, AskReadiness, AskPrices, Begin, FindOwnEntry, LookUpDictionary,
   QueryReadiness, QueryReadinessBy, LoadPrices, Respond

LEMMA NextToldFits ==
  ASSUME Parameters, TypeOK, TypeOK', TablesFit, ToldFits, TruthsFit, AnswerFits, [Next]_vars
  PROVE  ToldFits'
<1>1. inProcess' = inProcess
  BY InProcessFixed
<1>2. ASSUME ~inProcess, NEW x \in Exchanges
      PROVE  told'[x] <= LatestOf(publication', x).day
  <2>1. told'[x] <= LatestOf(publication, x).day
    BY <1>2, ToldMovesOn DEF ToldFits
  <2>2. LatestOf(publication, x).day <= LatestOf(publication', x).day
    BY CommitMovesOn
  <2>3. LatestOf(publication, x).day \in Nat
    BY DaysAreNumbers
  <2>4. told'[x] \in Nat /\ LatestOf(publication', x).day \in Nat
    <3>1. DayOrNone \subseteq Nat /\ told' \in [Exchanges -> DayOrNone]
      BY NoDayIsNoDay DEF TypeOK, DayOrNone, NoDay
    <3>2. publication' \in [Loads -> StatusOrNone]
      BY DEF TypeOK
    <3>3. LatestOf(publication', x).day \in Nat
      BY <3>2, LatestMeaning
    <3>4. QED
      BY <3>1, <3>3
  <2>5. QED
    BY <2>1, <2>2, <2>3, <2>4
<1>3. QED
  BY <1>1, <1>2 DEF ToldFits

\* What the tables and the dictionaries say is sound.
LEMMA CurrentIsSound ==
  ASSUME Parameters, TypeOK, TablesFit, ToldFits, NEW x \in Exchanges
  PROVE  LET t == Current(publication, counted, x) IN Priced(t, x) /\ InTime(t, x)
<1> DEFINE t == Current(publication, counted, x)
<1>1. /\ t.committed /\ t.day = LatestOf(publication, x).day
      /\ Priced(t, x)
  BY CurrentMeaning DEF TypeOK, TablesFit, Priced
<1>2. QED
  BY <1>1, DaysAreNumbers DEF InTime, ToldFits

LEMMA RememberedIsSound ==
  ASSUME Parameters, TypeOK, MemoryFits, NEW x \in Exchanges, NEW t \in Remembered(memory, x)
  PROVE  Priced(t, x) /\ InTime(t, x)
<1>1. /\ t.day \in Days /\ t.status # NoRow /\ <<x, t.day>> \in Loads
      /\ t.status = memory[<<x, t.day>>].status
      /\ t.counted = memory[<<x, t.day>>].counted
  BY RememberedMeaning DEF TypeOK, Loads
<1>2. QED
  BY <1>1 DEF MemoryFits, Priced, InTime

LEMMA InitFits == ASSUME Parameters, Init PROVE ToldFits /\ TruthsFit /\ AnswerFits
<1>1. request = NoRequest
  BY DEF Init
<1>2. \A x \in Exchanges : told[x] <= LatestOf(publication, x).day
  <2>1. \A x \in Exchanges : LatestOf(publication, x).day \in Nat /\ told[x] = 0
    BY InitTypeOK, DaysAreNumbers DEF Init, NoDay
  <2>2. QED
    BY <2>1
<1>3. QED
  BY <1>1, <1>2 DEF ToldFits, TruthsFit, AnswerFits

LEMMA NextTruthsFit ==
  ASSUME Parameters, TypeOK, TypeOK', TablesFit, TablesFit', MemoryFits, MemoryFits',
         ToldFits, ToldFits', TruthsFit, AnswerFits, [Next]_vars
  PROVE  TruthsFit'
<1> USE DEF database
<1>1. priced \subseteq priced' /\ inProcess' = inProcess
  BY PricedGrows, InProcessFixed
<1>2. ASSUME request # NoRequest, UNCHANGED <<publication, counted, memory, truths, told>>
      PROVE  TruthsFit'
  BY <1>1, <1>2 DEF TruthsFit, Priced, InTime
<1>3. ASSUME NEW y \in Exchanges, NEW status \in Decisions, NEW set \in SUBSET Prices,
             DecideLoad(y, status, set)
      PROVE  TruthsFit'
  <2>1. SUFFICES ASSUME request # NoRequest, NEW x \in Exchanges
                 PROVE  /\ Current(publication, counted, x) \in truths'[x]
                        /\ Remembered(memory', x) \subseteq truths'[x]
                        /\ \A t \in truths'[x] : Priced(t, x)' /\ InTime(t, x)'
    BY <1>3 DEF TruthsFit, DecideLoad
  <2>2. UNCHANGED <<publication, counted, told, priced>>
    BY <1>3 DEF DecideLoad
  <2>3. /\ Current(publication, counted, x) \in truths[x]
        /\ Remembered(memory, x) \subseteq truths[x]
        /\ \A t \in truths[x] : Priced(t, x)' /\ InTime(t, x)'
    BY <1>1, <2>1, <2>2 DEF TruthsFit, Priced, InTime
  <2>4. CASE x = y
    <3>1. truths'[x] = truths[x] \cup Remembered(memory', x)
      BY <1>3, <2>1, <2>4 DEF DecideLoad, Witnessed, TypeOK
    <3>2. ASSUME NEW t \in Remembered(memory', x) PROVE Priced(t, x)' /\ InTime(t, x)'
      <4>1. /\ t.day \in Days /\ t.status # NoRow /\ <<x, t.day>> \in Loads
            /\ t.status = memory'[<<x, t.day>>].status
            /\ t.counted = memory'[<<x, t.day>>].counted
        BY RememberedMeaning DEF TypeOK, Loads
      <4>2. QED
        BY <4>1 DEF MemoryFits, Priced, InTime
    <3>3. QED
      BY <2>3, <3>1, <3>2
  <2>5. CASE x # y
    <3>1. truths'[x] = truths[x]
      BY <1>3, <2>1, <2>5 DEF DecideLoad, Witnessed, TypeOK
    <3>2. \A d \in Days : memory'[<<x, d>>] = memory[<<x, d>>]
      BY <1>3, <2>5 DEF DecideLoad, Refreshed, TypeOK, Loads
    <3>3. Remembered(memory', x) = Remembered(memory, x)
      BY <3>2 DEF Remembered
    <3>4. QED
      BY <2>3, <3>1, <3>3
  <2>6. QED
    BY <2>4, <2>5
<1>4. ASSUME CommitRun PROVE TruthsFit'
  <2>1. SUFFICES ASSUME request # NoRequest, NEW x \in Exchanges
                 PROVE  /\ Current(publication', counted', x) \in truths'[x]
                        /\ Remembered(memory, x) \subseteq truths'[x]
                        /\ \A t \in truths'[x] : Priced(t, x)' /\ InTime(t, x)'
    BY <1>4 DEF TruthsFit, CommitRun
  <2>2. UNCHANGED <<told, priced, memory>>
    BY <1>4 DEF CommitRun
  <2>3. truths'[x] = truths[x] \cup {Current(publication', counted', x)}
    BY <1>4, <2>1 DEF CommitRun
  <2>4. LatestOf(publication, x).day <= LatestOf(publication', x).day
    BY CommitMovesOn
  <2>5. LatestOf(publication', x).day \in Nat /\ publication' \in [Loads -> StatusOrNone]
        /\ counted' \in [Loads -> SUBSET Prices]
    BY LatestMeaning DEF TypeOK
  <2>6. ASSUME NEW fresh, fresh = Current(publication', counted', x)
        PROVE  Priced(fresh, x)' /\ InTime(fresh, x)'
    <3>1. ReadyIsPriced(publication', counted')
      BY <1>4 DEF CommitRun, TablesFit, ReadyIsPriced
    <3>2. fresh.committed /\ fresh.day = LatestOf(publication', x).day /\ Priced(fresh, x)
      BY <2>5, <2>6, <3>1, CurrentMeaning DEF Priced
    <3>3. ~inProcess => told'[x] <= fresh.day /\ fresh.day <= LatestOf(publication', x).day
      BY <1>1, <2>5, <3>2 DEF ToldFits
    <3>4. QED
      BY <1>1, <2>2, <3>2, <3>3 DEF Priced, InTime
  <2>7. ASSUME NEW t \in truths[x] PROVE Priced(t, x)' /\ InTime(t, x)'
    <3>1. Priced(t, x) /\ InTime(t, x)
      BY <2>1 DEF TruthsFit
    <3>2. t.day \in Nat /\ LatestOf(publication, x).day \in Nat
      BY DaysAreNumbers
    <3>3. QED
      BY <1>1, <2>2, <2>4, <2>5, <3>1, <3>2 DEF Priced, InTime
  <2>8. Remembered(memory, x) \subseteq truths[x]
    BY <2>1 DEF TruthsFit
  <2>9. QED
    BY <2>3, <2>6, <2>7, <2>8
<1>5. ASSUME NEW kind, NEW scope, NEW first, Begin(kind, scope, first) PROVE TruthsFit'
  <2>1. UNCHANGED <<inProcess, publication, counted, priced, memory, told>>
    BY <1>5 DEF Begin
  <2>2. ASSUME NEW x \in Exchanges
        PROVE  /\ Current(publication, counted, x) \in truths'[x]
               /\ Remembered(memory, x) \subseteq truths'[x]
               /\ \A t \in truths'[x] : Priced(t, x) /\ InTime(t, x)
    <3>1. truths'[x] = {Current(publication, counted, x)} \cup Remembered(memory, x)
      BY <1>5 DEF Begin
    <3>2. QED
      BY <3>1, CurrentIsSound, RememberedIsSound
  <2>3. QED
    BY <2>1, <2>2 DEF TruthsFit, Priced, InTime
<1>6. CASE request' = NoRequest
  BY <1>6 DEF TruthsFit
<1>7. CASE World
  <2>1. request' = request
    BY <1>7, WorldGrows
  <2>2. QED
    BY <1>2, <1>3, <1>4, <1>6, <1>7, <2>1
       DEF World, NewDay, RecordPrice, StartRun, RollBackRun
<1>8. CASE Reading
  BY <1>2, <1>8, ReadingLeaves, ReadingAsks
<1>9. CASE Next
  BY <1>5, <1>6, <1>7, <1>8, <1>9, StepKinds DEF Respond, RestartApi
<1>10. CASE UNCHANGED vars
  BY <1>2, <1>6, <1>10 DEF vars
<1>11. QED
  BY <1>9, <1>10

\* The steps around a request leave what it has learnt among the truths.
LEMMA GrowingAnswerFits ==
  ASSUME AnswerFits, request' = request, inProcess' = inProcess,
         request # NoRequest => \A x \in Exchanges : truths[x] \subseteq truths'[x],
         request # NoRequest => request.scope \in SUBSET Exchanges
  PROVE  AnswerFits'
<1>1. SUFFICES ASSUME request # NoRequest PROVE AnswerFits'
  BY DEF AnswerFits
<1>2. \A x \in request.scope : truths[x] \subseteq truths'[x]
  BY <1>1
<1>3. ReadinessIsCommitted' /\ PricesComplete'
  BY <1>1, <1>2 DEF AnswerFits, ReadinessIsCommitted, PricesComplete, Answering
<1>4. QED
  BY <1>1, <1>2, <1>3 DEF AnswerFits

LEMMA BeginAnswerFits ==
  ASSUME NEW kind, NEW scope, NEW first \in {"own_entry", "dictionary"},
         kind = "prices" => \E x \in Exchanges : scope = {x},
         Begin(kind, scope, first)
  PROVE  AnswerFits'
<1>1. /\ request'.kind = kind /\ request'.scope = scope /\ request'.at = first
      /\ request'.prices = {}
  BY DEF Begin
<1>2. ~ Answering'
  BY <1>1 DEF Answering
<1>3. QED
  BY <1>1, <1>2 DEF AnswerFits, ReadinessIsCommitted, PricesComplete

\* What PricesComplete says of an answer about x.
AnswersPrices(x, item, prices) ==
  \E t \in truths[x] :
    IF prices = {} THEN ~inProcess => t.status # "ready"
    ELSE /\ t.status = "ready" /\ t.counted # {}
         /\ Says(t, item)
         /\ t.counted \subseteq {p[1] : p \in prices} \X {t.day}

LEMMA PricesAnswerFits ==
  ASSUME NEW x \in Exchanges, UNCHANGED <<inProcess, truths>>,
         request'.kind = "prices", request'.scope = {x}, request'.at = "respond",
         AnswersPrices(x, request'.items[x], request'.prices)
  PROVE  AnswerFits'
<1>1. PricesComplete'
  BY DEF PricesComplete, AnswersPrices, Says
<1>2. ReadinessIsCommitted'
  BY DEF ReadinessIsCommitted
<1>3. QED
  BY <1>1, <1>2 DEF AnswerFits

\* The readiness of all exchanges in scope is known, and the request goes on.
LEMMA AfterReadinessFits ==
  ASSUME request # NoRequest, request \in Asking, AnswerFits,
         request.scope \in SUBSET Exchanges, request.prices = {},
         UNCHANGED <<inProcess, truths>>,
         NEW items \in [request.scope -> Item], NEW todo \in SUBSET Exchanges,
         Learns(AfterReadiness(items), todo, items, request.prices),
         \A x \in request.scope : items[x].status = "ready" =>
           \E t \in truths[x] : t.status = "ready" /\ Says(t, items[x]),
         ~inProcess => \A x \in request.scope :
           \E t \in truths[x] : t.committed /\ t.status = items[x].status /\ Says(t, items[x]),
         \A x \in request.scope : truths[x] # {}
  PROVE  AnswerFits'
<1>1. AfterReadiness(items) \in Steps
  BY DEF AfterReadiness, Steps
<1>2. /\ request'.kind = request.kind /\ request'.scope = request.scope
      /\ request'.at = AfterReadiness(items)
      /\ request'.items = items /\ request'.prices = {}
  <2>1. request.prices \in SUBSET Prices
    BY DEF Asking
  <2>2. QED
    BY <1>1, <2>1, LearnsFields
<1>3. CASE AfterReadiness(items) = "prices"
  <2>1. request.kind = "prices" /\ \A x \in request.scope : items[x].status = "ready"
    BY <1>3 DEF AfterReadiness
  <2>2. QED
    BY <1>2, <1>3, <2>1 DEF AnswerFits, ReadinessIsCommitted, PricesComplete, Answering
<1>4. CASE AfterReadiness(items) = "respond" /\ request.kind = "readiness"
  BY <1>2, <1>4 DEF AnswerFits, ReadinessIsCommitted, PricesComplete, Answering, Says
<1>5. CASE AfterReadiness(items) = "respond" /\ request.kind = "prices"
  <2>1. PICK x \in Exchanges : request.scope = {x}
    BY <1>5 DEF AnswerFits
  <2>2. items[x].status # "ready"
    BY <1>5, <2>1 DEF AfterReadiness
  <2>3. AnswersPrices(x, items[x], {})
    BY <2>1, <2>2 DEF AnswersPrices
  <2>4. QED
    BY <1>2, <1>5, <2>1, <2>3, PricesAnswerFits
<1>6. QED
  BY <1>3, <1>4, <1>5 DEF AfterReadiness, Asking

LEMMA ReadingAnswerFits ==
  ASSUME Parameters, TypeOK, MemoryFits, TruthsFit, AnswerFits, Reading
  PROVE  AnswerFits'
<1>1. /\ request # NoRequest /\ request \in Asking
      /\ UNCHANGED <<inProcess, database, loop, runs, memory, today, truths, told>>
      /\ request.items \in [request.scope -> Item] /\ request.scope \in SUBSET Exchanges
      /\ request.todo \in SUBSET Exchanges /\ request.prices \in SUBSET Prices
  BY ReadingAsks, ReadingLeaves, AskingOrNone DEF Asking
<1>2. \A x \in Exchanges :
        /\ Current(publication, counted, x) \in truths[x]
        /\ Remembered(memory, x) \subseteq truths[x]
        /\ \A t \in truths[x] : Priced(t, x) /\ InTime(t, x)
  BY <1>1 DEF TruthsFit
<1>3. CASE FindOwnEntry
  <2>1. PICK x \in Exchanges :
          /\ request.scope = {x}
          /\ LET row == LatestEntry(x)
                 found == memory[<<x, row.day>>].prices
             IN  \/ /\ row = Nothing
                    /\ Learns("dictionary", request.todo, request.items, request.prices)
                 \/ /\ row # Nothing /\ row.status # "ready"
                    /\ Learns("respond", request.todo, request.items, request.prices)
                 \/ /\ row # Nothing /\ row.status = "ready"
                    /\ \E at \in {"prices", "respond"} :
                         /\ at = "prices" <=> found = {}
                         /\ Learns(at, request.todo, [request.items EXCEPT ![x] = row], found)
    BY <1>3, OwnEntryCases
  <2> DEFINE row == LatestEntry(x)
             found == memory[<<x, row.day>>].prices
  <2>2. request.kind = "prices" /\ request.at = "own_entry" /\ request.prices = {}
    BY <1>1, <1>3, OwnEntryCases DEF AnswerFits
  <2>3. "dictionary" \in Steps /\ "respond" \in Steps /\ "prices" \in Steps
    BY DEF Steps
  <2>4. CASE Learns("dictionary", request.todo, request.items, request.prices)
    <3>1. /\ request'.kind = "prices" /\ request'.scope = {x} /\ request'.at = "dictionary"
          /\ request'.prices = {}
      <4>1. /\ request'.kind = request.kind /\ request'.scope = request.scope
            /\ request'.at = "dictionary" /\ request'.prices = request.prices
        BY <1>1, <2>3, <2>4, LearnsFields
      <4>2. QED
        BY <2>1, <2>2, <4>1
    <3>2. QED
      BY <3>1 DEF AnswerFits, ReadinessIsCommitted, PricesComplete, Answering
  <2>5. CASE /\ row # Nothing /\ row.status # "ready"
             /\ Learns("respond", request.todo, request.items, request.prices)
    <3>1. /\ request'.kind = "prices" /\ request'.scope = {x} /\ request'.at = "respond"
          /\ request'.prices = {}
      <4>1. /\ request'.kind = request.kind /\ request'.scope = request.scope
            /\ request'.at = "respond" /\ request'.prices = request.prices
        BY <1>1, <2>3, <2>5, LearnsFields
      <4>2. QED
        BY <2>1, <2>2, <4>1
    <3>2. PICK t \in truths[x] : t.status # "ready"
      BY <1>2, <2>5, EntryMeaning
    <3>3. AnswersPrices(x, request'.items[x], request'.prices)
      BY <3>1, <3>2 DEF AnswersPrices
    <3>4. QED
      BY <1>1, <3>1, <3>3, PricesAnswerFits
  <2>6. ASSUME row # Nothing, row.status = "ready", NEW at \in {"prices", "respond"},
               at = "prices" <=> found = {},
               Learns(at, request.todo, [request.items EXCEPT ![x] = row], found)
        PROVE  AnswerFits'
    <3>1. row \in Item /\ <<x, row.day>> \in Loads /\ memory[<<x, row.day>>].status = "ready"
      BY <2>6, EntryMeaning
    <3>2. found \in SUBSET Prices
      BY <3>1 DEF TypeOK, Memory
    <3>3. /\ memory[<<x, row.day>>].counted # {} /\ memory[<<x, row.day>>].counted \subseteq found
          /\ found \subseteq PricesOf(<<x, row.day>>)
      BY <3>1 DEF MemoryFits
    <3>4. PICK t \in truths[x] : /\ Says(t, row) /\ t.status = "ready"
                                 /\ t.counted = memory[<<x, row.day>>].counted
      BY <1>2, <2>6, EntryMeaning
    <3> HIDE DEF row, found
    <3>5. [request.items EXCEPT ![x] = row] \in [request.scope -> Item]
      BY <1>1, <3>1
    <3>6. /\ request'.kind = "prices" /\ request'.scope = {x} /\ request'.at = "respond"
          /\ request'.items = [request.items EXCEPT ![x] = row] /\ request'.prices = found
      <4>1. at = "respond" /\ at \in Steps
        BY <2>3, <2>6, <3>3
      <4>2. QED
        BY <1>1, <2>1, <2>2, <2>6, <3>2, <3>5, <4>1, LearnsFields
    <3>7. request'.items[x] = row
      BY <1>1, <2>1, <3>6
    <3>8. t.counted \subseteq {p[1] : p \in found} \X {t.day}
      <4>1. row.day = t.day
        BY <3>4 DEF Says
      <4>2. \A p \in found : p \in Prices /\ p[2] = t.day
        BY <3>3, <4>1 DEF PricesOf, LoadOf, Prices
      <4>3. QED
        BY <3>3, <3>4, <4>2 DEF Prices
    <3>9. AnswersPrices(x, request'.items[x], request'.prices)
      BY <3>3, <3>4, <3>6, <3>7, <3>8 DEF AnswersPrices
    <3>10. QED
      BY <1>1, <3>6, <3>9, PricesAnswerFits
  <2>7. QED
    BY <2>1, <2>4, <2>5, <2>6
<1>4. CASE LookUpDictionary
  <2> DEFINE items == [x \in request.scope |-> LatestEntry(x)]
  <2>1. /\ request.at = "dictionary" /\ request.prices = {}
        /\ \/ Learns("query", request.scope, request.items, request.prices)
           \/ /\ \E load \in Loads : memory[load].status # NoRow
              /\ Learns(AfterReadiness(items), request.todo, items, request.prices)
    BY <1>1, <1>4, DictionaryCases DEF AnswerFits
  <2>2. CASE Learns("query", request.scope, request.items, request.prices)
    <3>1. "query" \in Steps
      BY DEF Steps
    <3>2. /\ request'.kind = request.kind /\ request'.scope = request.scope
          /\ request'.at = "query" /\ request'.todo = request.scope /\ request'.prices = {}
      BY <1>1, <2>1, <2>2, <3>1, LearnsFields
    <3>3. QED
      BY <1>1, <3>2 DEF AnswerFits, ReadinessIsCommitted, PricesComplete, Answering
  <2>3. CASE /\ \E load \in Loads : memory[load].status # NoRow
             /\ Learns(AfterReadiness(items), request.todo, items, request.prices)
    <3>1. inProcess
      BY <2>3 DEF MemoryFits
    <3>2. items \in [request.scope -> Item]
      BY <1>1, EntryMeaning
    <3>3. ASSUME NEW x \in request.scope, items[x].status = "ready"
          PROVE  \E t \in truths[x] : t.status = "ready" /\ Says(t, items[x])
      <4>1. x \in Exchanges /\ LatestEntry(x) # Nothing /\ items[x] = LatestEntry(x)
        BY <1>1, <3>3 DEF Nothing, NoRow
      <4>2. QED
        BY <1>2, <3>3, <4>1, EntryMeaning
    <3> HIDE DEF items
    <3>4. QED
      BY <1>1, <1>2, <2>1, <2>3, <3>1, <3>2, <3>3, AfterReadinessFits
  <2>4. QED
    BY <2>1, <2>2, <2>3
<1>5. ASSUME NEW x \in Exchanges, QueryReadiness(x) PROVE AnswerFits'
  <2> DEFINE items == [request.items EXCEPT ![x] = LatestOf(publication, x)]
             at == IF request.todo = {x} THEN AfterReadiness(items) ELSE "query"
             t == Current(publication, counted, x)
  <2>1. /\ request.at = "query" /\ x \in request.todo /\ request.prices = {}
        /\ Learns(at, request.todo \ {x}, items, request.prices)
    BY <1>1, <1>5, QueryCase DEF AnswerFits
  <2>2. items \in [request.scope -> Item]
    BY <1>1, LatestMeaning DEF TypeOK
  <2>3. /\ t \in truths[x] /\ t.committed /\ Says(t, LatestOf(publication, x))
    BY <1>2, CurrentMeaning DEF TypeOK
  <2>4. ASSUME NEW y \in request.scope \ (request.todo \ {x})
        PROVE  \E u \in truths[y] : u.committed /\ Says(u, items[y])
    <3>1. CASE y = x
      BY <1>1, <2>3, <2>4, <3>1
    <3>2. CASE y # x
      <4>1. items[y] = request.items[y] /\ y \in request.scope \ request.todo
        BY <1>1, <2>4, <3>2
      <4>2. QED
        BY <1>1, <2>1, <4>1 DEF AnswerFits
    <3>3. QED
      BY <3>1, <3>2
  <2> HIDE DEF items, t
  <2>5. CASE request.todo = {x}
    <3>1. \A y \in request.scope : \E u \in truths[y] : u.committed /\ Says(u, items[y])
      BY <2>4, <2>5
    <3>2. ASSUME NEW y \in request.scope
          PROVE  \E u \in truths[y] : u.committed /\ u.status = items[y].status /\ Says(u, items[y])
      <4>1. PICK u \in truths[y] : u.committed /\ Says(u, items[y])
        BY <3>1
      <4>2. u.status = items[y].status
        BY <4>1 DEF Says
      <4>3. QED
        BY <4>1, <4>2
    <3>3. Learns(AfterReadiness(items), request.todo \ {x}, items, request.prices)
      BY <2>1, <2>5
    <3>4. QED
      BY <1>1, <1>2, <2>1, <2>2, <3>2, <3>3, AfterReadinessFits
  <2>6. CASE request.todo # {x}
    <3>1. Learns("query", request.todo \ {x}, items, request.prices) /\ "query" \in Steps
      BY <2>1, <2>6 DEF Steps
    <3>2. /\ request'.kind = request.kind /\ request'.scope = request.scope
          /\ request'.at = "query" /\ request'.todo = request.todo \ {x}
          /\ request'.items = items /\ request'.prices = {}
      BY <1>1, <2>1, <2>2, <3>1, LearnsFields
    <3>3. QED
      BY <1>1, <2>4, <3>2 DEF AnswerFits, ReadinessIsCommitted, PricesComplete, Answering
  <2>7. QED
    BY <2>5, <2>6
<1>6. CASE LoadPrices
  <2>1. /\ request.at = "prices" /\ request.kind = "prices"
    BY <1>6, LoadPricesCase
  <2>2. PICK x \in Exchanges :
              /\ request.scope = {x}
              /\ Learns("respond", request.todo, request.items,
                        PricesOf(<<x, request.items[x].day>>) \cap priced)
    BY <1>6, LoadPricesCase
  <2> DEFINE found == PricesOf(<<x, request.items[x].day>>) \cap priced
  <2>3. PICK t \in truths[x] : t.status = "ready" /\ Says(t, request.items[x])
    BY <1>1, <2>1, <2>2 DEF AnswerFits
  <2>4. request.items[x].day = t.day
    BY <2>3 DEF Says
  <2>5. t.counted # {} /\ t.counted \subseteq found
    BY <1>2, <2>3, <2>4 DEF Priced
  <2>6. t.counted \subseteq {p[1] : p \in found} \X {t.day}
    <3>1. \A p \in found : p \in Prices /\ p[2] = t.day
      BY <2>4 DEF PricesOf, LoadOf, Prices
    <3>2. QED
      BY <2>5, <3>1 DEF Prices
  <2>7. found \in SUBSET Prices /\ found # {} /\ "respond" \in Steps
    BY <2>5 DEF PricesOf, Steps
  <2>8. /\ request'.kind = "prices" /\ request'.scope = {x} /\ request'.at = "respond"
        /\ request'.items = request.items /\ request'.prices = found
    <3> HIDE DEF found
    <3>1. Learns("respond", request.todo, request.items, found)
      BY <2>2 DEF found
    <3>2. QED
      BY <1>1, <2>1, <2>2, <2>7, <3>1, LearnsFields
  <2> HIDE DEF found
  <2>9. AnswersPrices(x, request'.items[x], request'.prices)
    BY <2>3, <2>5, <2>6, <2>7, <2>8 DEF AnswersPrices
  <2>10. QED
    BY <1>1, <2>2, <2>8, <2>9, PricesAnswerFits
<1>7. QED
  BY <1>3, <1>4, <1>5, <1>6 DEF Reading

LEMMA NextAnswerFits ==
  ASSUME Parameters, TypeOK, MemoryFits, TruthsFit, AnswerFits, [Next]_vars
  PROVE  AnswerFits'
<1>1. inProcess' = inProcess
  BY InProcessFixed
<1>2. request # NoRequest => request.scope \in SUBSET Exchanges
  BY AskingOrNone DEF Asking
<1>3. CASE World
  BY <1>1, <1>2, <1>3, WorldGrows, GrowingAnswerFits
<1>4. CASE request' = NoRequest
  BY <1>4 DEF AnswerFits
<1>5. CASE UNCHANGED vars
  <2>1. request' = request /\ truths' = truths
    BY <1>5 DEF vars
  <2>2. QED
    BY <1>1, <1>2, <2>1, GrowingAnswerFits
<1>6. CASE Next
  BY <1>3, <1>4, <1>6, StepKinds, BeginAnswerFits, ReadingAnswerFits DEF Respond, RestartApi
<1>7. QED
  BY <1>5, <1>6

-----------------------------------------------------------------------------
(***************************************************************************)
(* The theorems.                                                           *)
(***************************************************************************)

LEMMA AppInvariant == ASSUME Parameters PROVE Spec => []AppInv
<1>1. Init => AppInv
  BY InitTypeOK, InitTablesFit, InitFits DEF AppInv
<1>2. AppInv /\ [Next]_vars => AppInv'
  <2>1. SUFFICES ASSUME AppInv, [Next]_vars PROVE AppInv'
    OBVIOUS
  <2>2. TypeOK' /\ TablesFit' /\ MemoryFits'
    BY <2>1, NextTypeOK, NextTablesFit, NextMemoryFits DEF AppInv
  <2>3. ToldFits'
    BY <2>1, <2>2, NextToldFits DEF AppInv
  <2>4. QED
    BY <2>1, <2>2, <2>3, NextTruthsFit, NextAnswerFits DEF AppInv
<1>3. QED
  BY <1>1, <1>2, PTL DEF Spec

\* As deployed, every readiness the app is answered was committed, at some
\* time between its request and the answer.
THEOREM AnsweredReadinessWasCommitted ==
  ASSUME Parameters PROVE Spec => []ReadinessIsCommitted
<1>1. AppInv => ReadinessIsCommitted
  BY DEF AppInv, AnswerFits, ReadinessIsCommitted, Answering, NoRequest
<1>2. QED
  BY <1>1, AppInvariant, PTL

\* The prices answered are of one load that was ready during the request, and
\* none counted for it is missing.
THEOREM AnsweredPricesAreComplete ==
  ASSUME Parameters PROVE Spec => []PricesComplete
<1>1. AppInv => PricesComplete
  BY DEF AppInv, AnswerFits, PricesComplete, Answering, NoRequest
<1>2. QED
  BY <1>1, AppInvariant, PTL

\* As deployed, the day the app is told of an exchange never goes back.
THEOREM AppNeverGoesBack == ASSUME Parameters PROVE Spec => DayNeverGoesBack
<1>1. AppInv /\ [Next]_vars =>
        [~inProcess => \A x \in Exchanges : told'[x] >= told[x]]_vars
  <2>1. SUFFICES ASSUME AppInv, [Next]_vars, ~inProcess, NEW x \in Exchanges
                 PROVE  told'[x] >= told[x]
    OBVIOUS
  <2>2. TypeOK'
    BY <2>1, NextTypeOK DEF AppInv
  <2>3. told[x] \in Nat /\ told'[x] \in Nat
    BY <2>1, <2>2, NoDayIsNoDay DEF AppInv, TypeOK, DayOrNone, NoDay
  <2>4. told[x] <= told'[x]
    BY <2>1, ToldMovesOn DEF AppInv
  <2>5. QED
    BY <2>3, <2>4
<1>2. QED
  BY <1>1, AppInvariant, PTL DEF Spec, DayNeverGoesBack

-----------------------------------------------------------------------------
(***************************************************************************)
(* PlatformHealth: the daemon's clock.  How old a heartbeat can be depends *)
(* on where the daemon is in its tick (Beaten); what a request has read of *)
(* the heartbeats was not older when it was read, and its clock does not   *)
(* move afterwards (HealthAsked).                                          *)
(***************************************************************************)

Places == {"beat worker", "beat scheduler", "scheduling", "sleeping", "dead"}
Clocks == Nat \cup {Health!Never}

HealthType ==
  /\ now \in Nat /\ up \in BOOLEAN /\ steady \in BOOLEAN
  /\ daemon \in [at : Places, since : Nat]
  /\ beats \in [Health!Roles -> Clocks]

\* The daemon is never late, and beats at the clock of its day.
OnTime ==
  /\ daemon.since <= now
  /\ \A r \in Health!Roles : beats[r] <= now
  /\ Health!InTick => now <= daemon.since + TickTime
  /\ daemon.at = "sleeping" => now <= daemon.since + Poll
  /\ daemon.at = "dead" => \A r \in Health!Roles : beats[r] <= daemon.since

\* How old the heartbeats of a steady daemon are, by its place.
Beaten ==
  /\ daemon.at = "beat scheduler" => beats["worker"] >= daemon.since
  /\ steady =>
       /\ up /\ daemon.at # "dead"
       /\ \A r \in Health!Roles : beats[r] # Health!Never
       /\ daemon.at = "beat worker" =>
            \A r \in Health!Roles : daemon.since - beats[r] <= Poll + TickTime
       /\ daemon.at = "beat scheduler" => daemon.since - beats["scheduler"] <= Poll + TickTime
       /\ daemon.at = "scheduling" => \A r \in Health!Roles : beats[r] >= daemon.since
       /\ daemon.at = "sleeping" =>
            \A r \in Health!Roles : daemon.since - beats[r] <= TickTime

\* What a request has read.
HealthAsked ==
  checking # Health!NoRequest =>
    /\ DOMAIN checking = {"at", "now", "steady", "beats"}
    /\ checking.at \in {"heartbeats", "queue"}
    /\ checking.now \in Nat /\ checking.now <= now
    /\ checking.at = "queue" =>
         \A r \in Health!Roles :
           /\ checking.beats[r] \in Clocks /\ checking.beats[r] <= beats[r]
           /\ checking.steady =>
                checking.beats[r] # Health!Never
                  /\ checking.now - checking.beats[r] <= WorkerStale

HealthInv == HealthType /\ OnTime /\ Beaten /\ HealthAsked

LEMMA HealthNumbers ==
  ASSUME Health!Windows
  PROVE  /\ Poll \in Nat /\ TickTime \in Nat /\ WorkerStale \in Nat /\ SchedulerStale \in Nat
         /\ Poll + 2 * TickTime <= WorkerStale /\ WorkerStale <= SchedulerStale
BY DEF Health!Windows

LEMMA TwoRoles == "worker" \in Health!Roles /\ "scheduler" \in Health!Roles
                    /\ \A r \in Health!Roles : r = "worker" \/ r = "scheduler"
BY DEF Health!Roles

LEMMA ClocksAreInts == Health!Never = -1 /\ \A c \in Clocks : c \in Int /\ c >= -1
BY DEF Clocks, Health!Never

\* The numbers of a state.
LEMMA HealthInts ==
  ASSUME HealthType
  PROVE  /\ now \in Nat /\ daemon.since \in Nat
         /\ beats["worker"] \in Int /\ beats["scheduler"] \in Int
         /\ \A r \in Health!Roles : beats[r] \in Clocks /\ beats[r] \in Int /\ beats[r] >= -1
BY TwoRoles, ClocksAreInts DEF HealthType

\* A steady daemon's heartbeats are within the worker's window.
LEMMA SteadyIsFresh ==
  ASSUME Health!Windows, HealthType, OnTime, Beaten, steady, NEW r \in Health!Roles
  PROVE  beats[r] \in Nat /\ now - beats[r] <= WorkerStale
<1>1. beats[r] \in Nat /\ now \in Nat /\ daemon.since \in Nat
  BY DEF HealthType, Beaten, Clocks
<1>2. daemon.at \in Places \ {"dead"}
  BY DEF HealthType, Beaten
<1>3. CASE daemon.at = "sleeping"
  BY <1>1, <1>3, HealthNumbers, HealthInts, TwoRoles, ClocksAreInts DEF OnTime, Beaten
<1>4. CASE daemon.at # "sleeping"
  <2>1. now <= daemon.since + TickTime
    BY <1>2, <1>4 DEF OnTime, Health!InTick
  <2>2. daemon.since - beats[r] <= Poll + TickTime
    <3>1. CASE daemon.at = "beat worker"
      BY <3>1 DEF Beaten
    <3>2. CASE daemon.at = "beat scheduler"
      <4>1. beats["worker"] >= daemon.since /\ daemon.since - beats["scheduler"] <= Poll + TickTime
        BY <3>2 DEF Beaten
      <4>2. CASE r = "worker"
        BY <1>1, <4>1, <4>2, HealthNumbers
      <4>3. CASE r = "scheduler"
        BY <4>1, <4>3
      <4>4. QED
        BY <4>2, <4>3, TwoRoles
    <3>3. CASE daemon.at = "scheduling"
      <4>1. beats[r] >= daemon.since
        BY <3>3 DEF Beaten
      <4>2. QED
        BY <1>1, <4>1, HealthNumbers
    <3>4. QED
      BY <1>2, <1>4, <3>1, <3>2, <3>3 DEF Places
  <2>3. QED
    BY <1>1, <2>1, <2>2, HealthNumbers, HealthInts, TwoRoles, ClocksAreInts
<1>5. QED
  BY <1>3, <1>4

LEMMA InitHealth == ASSUME Health!Windows PROVE Health!Init => HealthInv
<1>1. SUFFICES ASSUME Health!Init PROVE HealthInv
  OBVIOUS
<1>2. /\ now = 0 /\ up = TRUE /\ steady = FALSE /\ checking = Health!NoRequest
      /\ daemon = [at |-> "beat worker", since |-> 0]
      /\ beats = [r \in Health!Roles |-> Health!Never]
  BY <1>1 DEF Health!Init
<1>3. HealthType
  BY <1>2 DEF HealthType, Places, Clocks
<1>4. OnTime
  <2>1. daemon.at = "beat worker" /\ daemon.since = 0 /\ \A r \in Health!Roles : beats[r] = -1
    BY <1>2, ClocksAreInts
  <2>2. QED
    <3>1. /\ daemon.since <= now /\ now <= daemon.since + TickTime
          /\ now <= daemon.since + Poll
          /\ \A r \in Health!Roles : beats[r] <= now /\ beats[r] <= daemon.since
      <4>1. 0 <= 0 + TickTime /\ 0 <= 0 + Poll /\ -1 <= 0 /\ 0 <= 0
        BY HealthNumbers
      <4>2. QED
        BY <1>2, <2>1, <4>1
    <3>2. QED
      BY <3>1 DEF OnTime
<1>5. Beaten /\ HealthAsked
  BY <1>2 DEF Beaten, HealthAsked
<1>6. QED
  BY <1>3, <1>4, <1>5 DEF HealthInv

\* Steps that move neither the clock nor the heartbeats leave the request's reading.
LEMMA AskedKept ==
  ASSUME HealthAsked, HealthType, UNCHANGED checking, now' \in Nat, now <= now',
         \A r \in Health!Roles : beats'[r] \in Clocks /\ beats[r] <= beats'[r],
         Health!Windows
  PROVE  HealthAsked'
<1>1. \A r \in Health!Roles : beats[r] \in Int /\ beats'[r] \in Int
  BY HealthNumbers, HealthInts, TwoRoles, ClocksAreInts DEF HealthType, Clocks
<1>2. CASE checking = Health!NoRequest
  BY <1>2 DEF HealthAsked
<1>3. CASE checking # Health!NoRequest
  BY <1>1, <1>3, HealthNumbers, HealthInts, TwoRoles, ClocksAreInts DEF HealthAsked, HealthType, Clocks
<1>4. QED
  BY <1>2, <1>3

LEMMA TickKeeps ==
  ASSUME Health!Windows, HealthInv, Health!Tick
  PROVE  HealthInv'
<1>1. /\ now' = now + 1 /\ ~Health!Overdue
      /\ UNCHANGED <<up, daemon, steady, beats, checking>>
  BY DEF Health!Tick
<1>2. HealthType'
  BY <1>1 DEF HealthInv, HealthType
<1>3. OnTime'
  BY <1>1, HealthNumbers, HealthInts, TwoRoles, ClocksAreInts
     DEF HealthInv, HealthType, OnTime, Health!Overdue, Health!InTick, Clocks
<1>4. Beaten'
  BY <1>1 DEF HealthInv, Beaten
<1>5. \A r \in Health!Roles : beats'[r] \in Clocks /\ beats[r] <= beats'[r]
  BY <1>1, HealthNumbers, HealthInts, TwoRoles, ClocksAreInts DEF HealthInv, HealthType, Clocks
<1>6. HealthAsked'
  BY <1>1, <1>5, AskedKept DEF HealthInv, HealthType
<1>7. QED
  BY <1>2, <1>3, <1>4, <1>6 DEF HealthInv

\* Steps of the daemon and its surroundings at a standing clock.
LEMMA StandingClock ==
  ASSUME Health!Windows, HealthInv, HealthType', OnTime', Beaten',
         UNCHANGED <<now, checking>>, \A r \in Health!Roles : beats[r] <= beats'[r]
  PROVE  HealthInv'
BY AskedKept, HealthNumbers, HealthInts, TwoRoles, ClocksAreInts DEF HealthInv, HealthType

LEMMA SameBeats ==
  ASSUME Health!Windows, HealthInv, UNCHANGED beats
  PROVE  \A r \in Health!Roles : beats[r] <= beats'[r]
BY HealthNumbers, HealthInts, TwoRoles, ClocksAreInts DEF HealthInv, HealthType, Clocks

\* A step that puts the daemon somewhere from now on.
LEMMA DaemonMoved ==
  ASSUME Health!Windows, HealthInv, UNCHANGED <<now, beats>>, up' \in BOOLEAN, steady' \in BOOLEAN,
         NEW place \in Places, daemon' = [at |-> place, since |-> now]
  PROVE  HealthType' /\ OnTime'
<1>1. /\ now \in Nat /\ Poll \in Nat /\ TickTime \in Nat
      /\ \A r \in Health!Roles : beats[r] <= now
  BY HealthNumbers DEF HealthInv, HealthType, OnTime
<1>2. HealthType'
  BY <1>1 DEF HealthInv, HealthType
<1>3. daemon'.since = now /\ now' = now /\ beats' = beats /\ now <= now + Poll
        /\ now <= now + TickTime /\ now <= now
  BY <1>1
<1>4. OnTime'
  BY <1>1, <1>3 DEF OnTime
<1>5. QED
  BY <1>2, <1>4

LEMMA DatabaseKeeps ==
  ASSUME Health!Windows, HealthInv, NEW answers \in BOOLEAN, Health!Database(answers)
  PROVE  HealthInv'
<1>1. /\ up' = answers /\ steady' = (steady /\ answers)
      /\ UNCHANGED <<now, daemon, beats, checking>>
  BY DEF Health!Database
<1>2. HealthType' /\ OnTime'
  BY <1>1 DEF HealthInv, HealthType, OnTime, Health!InTick
<1>3. Beaten'
  BY <1>1 DEF HealthInv, Beaten
<1>4. QED
  BY <1>1, <1>2, <1>3, SameBeats, StandingClock

LEMMA WakeUpKeeps ==
  ASSUME Health!Windows, HealthInv, Health!WakeUp
  PROVE  HealthInv'
<1>1. /\ daemon.at = "sleeping" /\ daemon' = [at |-> "beat worker", since |-> now]
      /\ UNCHANGED <<now, up, steady, beats, checking>>
  BY DEF Health!WakeUp
<1>2. HealthType' /\ OnTime'
  BY <1>1, DaemonMoved DEF HealthInv, HealthType, Places
<1>3. Beaten'
  <2>1. daemon'.at = "beat worker" /\ daemon'.since = now
    BY <1>1
  <2>2. ASSUME steady, NEW r \in Health!Roles
        PROVE  beats[r] # Health!Never /\ now - beats[r] <= Poll + TickTime
    <3>1. /\ beats[r] # Health!Never /\ daemon.since - beats[r] <= TickTime
          /\ now <= daemon.since + Poll
      BY <1>1, <2>2 DEF HealthInv, Beaten, OnTime
    <3>2. now \in Nat /\ daemon.since \in Nat /\ beats[r] \in Int
      BY HealthInts DEF HealthInv
    <3>3. QED
      BY <3>1, <3>2, HealthNumbers
  <2>3. steady => up
    BY DEF HealthInv, Beaten
  <2>4. QED
    BY <1>1, <2>1, <2>2, <2>3 DEF Beaten
<1>4. QED
  BY <1>1, <1>2, <1>3, SameBeats, StandingClock

LEMMA BeatWorkerKeeps ==
  ASSUME Health!Windows, HealthInv, Health!BeatWorker
  PROVE  HealthInv'
<1>1. /\ daemon.at = "beat worker" /\ steady' = steady
      /\ UNCHANGED <<now, up, checking>>
  BY DEF Health!BeatWorker, Health!Beat, HealthInv, HealthType
<1>2. CASE up
  <2>1. /\ beats' = [beats EXCEPT !["worker"] = now]
        /\ daemon' = [daemon EXCEPT !.at = "beat scheduler"]
    BY <1>2 DEF Health!BeatWorker, Health!Beat, Health!Upsert, Health!Goto
  <2>2. /\ beats'["worker"] = now /\ beats'["scheduler"] = beats["scheduler"]
        /\ beats' \in [Health!Roles -> Clocks]
        /\ daemon' \in [at : Places, since : Nat]
        /\ daemon'.at = "beat scheduler" /\ daemon'.since = daemon.since
    BY <2>1, HealthNumbers, HealthInts, TwoRoles, ClocksAreInts DEF HealthInv, HealthType, Clocks, Places
  <2>3. HealthType'
    BY <1>1, <2>2 DEF HealthInv, HealthType
  <2>4. /\ now \in Nat /\ daemon.since \in Nat /\ daemon.since <= now
        /\ now <= daemon.since + TickTime
        /\ \A r \in Health!Roles : beats[r] \in Int /\ beats[r] <= now /\ beats[r] >= -1
    BY <1>1, HealthInts DEF HealthInv, OnTime, Health!InTick
  <2>5. \A r \in Health!Roles : beats'[r] <= now /\ beats[r] <= beats'[r]
    <3>1. now <= now /\ \A r \in Health!Roles : beats[r] <= beats[r]
      BY <2>4
    <3>2. QED
      BY <2>2, <2>4, <3>1, TwoRoles
  <2>6. OnTime'
    BY <1>1, <2>2, <2>4, <2>5 DEF OnTime
  <2>7. Beaten'
    <3>1. now >= daemon.since /\ now # Health!Never
      BY <2>4, ClocksAreInts
    <3>2. ASSUME steady
          PROVE  /\ up /\ \A r \in Health!Roles : beats[r] # Health!Never
                 /\ daemon.since - beats["scheduler"] <= Poll + TickTime
      BY <1>1, <3>2, TwoRoles DEF HealthInv, Beaten
    <3>3. steady => \A r \in Health!Roles : beats'[r] # Health!Never
      BY <2>2, <3>1, <3>2, TwoRoles
    <3>4. QED
      BY <1>1, <2>2, <3>1, <3>2, <3>3 DEF Beaten
  <2>8. QED
    BY <1>1, <2>3, <2>5, <2>6, <2>7, StandingClock
<1>3. CASE ~up
  <2>1. UNCHANGED beats /\ daemon' = [daemon EXCEPT !.at = "scheduling"]
    BY <1>3 DEF Health!BeatWorker, Health!Beat, Health!Goto
  <2>2. HealthType' /\ OnTime'
    BY <1>1, <2>1, HealthNumbers, HealthInts, TwoRoles, ClocksAreInts DEF HealthInv, HealthType, OnTime, Health!InTick, Places
  <2>3. Beaten'
    BY <1>1, <1>3, <2>1 DEF HealthInv, HealthType, Beaten
  <2>4. QED
    BY <1>1, <2>1, <2>2, <2>3, SameBeats, StandingClock
<1>4. QED
  BY <1>2, <1>3

LEMMA BeatSchedulerKeeps ==
  ASSUME Health!Windows, HealthInv, Health!BeatScheduler
  PROVE  HealthInv'
<1>1. /\ daemon.at = "beat scheduler" /\ steady' = (steady \/ up)
      /\ UNCHANGED <<now, up, checking>>
  BY DEF Health!BeatScheduler, Health!Beat, HealthInv, HealthType
<1>2. CASE up
  <2>1. /\ beats' = [beats EXCEPT !["scheduler"] = now]
        /\ daemon' = [daemon EXCEPT !.at = "scheduling"]
    BY <1>2 DEF Health!BeatScheduler, Health!Beat, Health!Upsert, Health!Goto
  <2>2. /\ beats'["scheduler"] = now /\ beats'["worker"] = beats["worker"]
        /\ beats' \in [Health!Roles -> Clocks]
        /\ daemon' \in [at : Places, since : Nat]
        /\ daemon'.at = "scheduling" /\ daemon'.since = daemon.since
    BY <2>1, HealthNumbers, HealthInts, TwoRoles, ClocksAreInts DEF HealthInv, HealthType, Clocks, Places
  <2>3. HealthType'
    BY <1>1, <2>2 DEF HealthInv, HealthType
  <2>4. /\ now \in Nat /\ daemon.since \in Nat /\ daemon.since <= now
        /\ now <= daemon.since + TickTime
        /\ \A r \in Health!Roles : beats[r] \in Int /\ beats[r] <= now /\ beats[r] >= -1
    BY <1>1, HealthInts DEF HealthInv, OnTime, Health!InTick
  <2>5. \A r \in Health!Roles : beats'[r] <= now /\ beats[r] <= beats'[r]
    <3>1. now <= now /\ \A r \in Health!Roles : beats[r] <= beats[r]
      BY <2>4
    <3>2. QED
      BY <2>2, <2>4, <3>1, TwoRoles
  <2>6. OnTime'
    BY <1>1, <2>2, <2>4, <2>5 DEF OnTime
  <2>7. Beaten'
    <3>1. beats["worker"] >= daemon.since
      BY <1>1 DEF HealthInv, Beaten
    <3>2. \A r \in Health!Roles : beats'[r] >= daemon.since /\ beats'[r] # Health!Never
      BY <2>2, <2>4, <3>1, TwoRoles, ClocksAreInts
    <3>3. QED
      BY <1>1, <1>2, <2>2, <3>2 DEF Beaten
  <2>8. QED
    BY <1>1, <2>3, <2>5, <2>6, <2>7, StandingClock
<1>3. CASE ~up
  <2>1. UNCHANGED beats /\ daemon' = [daemon EXCEPT !.at = "scheduling"]
    BY <1>3 DEF Health!BeatScheduler, Health!Beat, Health!Goto
  <2>2. HealthType' /\ OnTime'
    BY <1>1, <2>1, HealthNumbers, HealthInts, TwoRoles, ClocksAreInts DEF HealthInv, HealthType, OnTime, Health!InTick, Places
  <2>3. Beaten'
    BY <1>1, <1>3, <2>1 DEF HealthInv, HealthType, Beaten
  <2>4. QED
    BY <1>1, <2>1, <2>2, <2>3, SameBeats, StandingClock
<1>4. QED
  BY <1>2, <1>3

LEMMA ScheduleKeeps ==
  ASSUME Health!Windows, HealthInv, NEW jobs, Health!Schedule(jobs)
  PROVE  HealthInv'
<1>1. /\ daemon.at = "scheduling"
      /\ daemon' = [at |-> IF up THEN "sleeping" ELSE "dead", since |-> now]
      /\ UNCHANGED <<now, up, steady, beats, checking>>
  BY DEF Health!Schedule
<1>2. HealthType' /\ OnTime'
  BY <1>1, DaemonMoved DEF HealthInv, HealthType, Places
<1>3. Beaten'
  BY <1>1, HealthNumbers, HealthInts, TwoRoles, ClocksAreInts DEF HealthInv, HealthType, OnTime, Beaten, Clocks, Health!InTick
<1>4. QED
  BY <1>1, <1>2, <1>3, SameBeats, StandingClock

LEMMA KillKeeps ==
  ASSUME Health!Windows, HealthInv, Health!Kill
  PROVE  HealthInv'
<1>1. /\ daemon' = [at |-> "dead", since |-> now] /\ steady' = FALSE
      /\ UNCHANGED <<now, up, beats, checking>>
  BY DEF Health!Kill
<1>2. HealthType' /\ OnTime'
  BY <1>1, DaemonMoved DEF HealthInv, HealthType, Places
<1>3. Beaten'
  BY <1>1 DEF Beaten
<1>4. QED
  BY <1>1, <1>2, <1>3, SameBeats, StandingClock

LEMMA RestartKeeps ==
  ASSUME Health!Windows, HealthInv, Health!Restart
  PROVE  HealthInv'
<1>1. /\ daemon.at = "dead" /\ daemon' = [at |-> "beat worker", since |-> now]
      /\ UNCHANGED <<now, up, steady, beats, checking>>
  BY DEF Health!Restart
<1>2. HealthType' /\ OnTime'
  BY <1>1, DaemonMoved DEF HealthInv, HealthType, Places
<1>3. Beaten'
  BY <1>1 DEF HealthInv, Beaten
<1>4. QED
  BY <1>1, <1>2, <1>3, SameBeats, StandingClock

\* Steps of a health request read the daemon's state, and keep what it was.
LEMMA ReadersKeep ==
  ASSUME HealthInv, HealthAsked', UNCHANGED <<now, up, daemon, steady, beats>>
  PROVE  HealthInv'
BY DEF HealthInv, HealthType, OnTime, Beaten, Health!InTick

LEMMA AskKeeps ==
  ASSUME Health!Windows, HealthInv, Health!Ask
  PROVE  HealthInv'
<1>1. CASE up
  BY <1>1, ReadersKeep DEF Health!Ask, HealthInv, HealthType, HealthAsked
<1>2. CASE ~up
  BY <1>2, ReadersKeep DEF Health!Ask, HealthInv, HealthAsked
<1>3. QED
  BY <1>1, <1>2

LEMMA ReadHeartbeatsKeeps ==
  ASSUME Health!Windows, HealthInv, Health!ReadHeartbeats
  PROVE  HealthInv'
<1>1. /\ checking.at = "heartbeats"
      /\ checking' = [checking EXCEPT !.at = "queue", !.beats = beats, !.steady = steady]
      /\ UNCHANGED <<now, up, daemon, steady, beats>>
  BY DEF Health!ReadHeartbeats
<1>2. checking # Health!NoRequest
  BY <1>1 DEF Health!NoRequest
<1>3. /\ DOMAIN checking = {"at", "now", "steady", "beats"}
      /\ checking.now \in Nat /\ checking.now <= now
  BY <1>2 DEF HealthInv, HealthAsked
<1>4. /\ DOMAIN checking' = {"at", "now", "steady", "beats"}
      /\ checking'.at = "queue" /\ checking'.now = checking.now
      /\ checking'.beats = beats /\ checking'.steady = steady
  BY <1>1, <1>3
<1>5. \A r \in Health!Roles : beats[r] \in Clocks /\ beats[r] <= beats[r]
  BY HealthNumbers, HealthInts, TwoRoles, ClocksAreInts DEF HealthInv, HealthType, Clocks
<1>6. steady => \A r \in Health!Roles : beats[r] # Health!Never
                                          /\ checking.now - beats[r] <= WorkerStale
  <2>1. SUFFICES ASSUME steady, NEW r \in Health!Roles
                 PROVE  beats[r] # Health!Never /\ checking.now - beats[r] <= WorkerStale
    OBVIOUS
  <2>2. beats[r] \in Nat /\ now - beats[r] <= WorkerStale
    BY <2>1, SteadyIsFresh DEF HealthInv
  <2>3. QED
    BY <1>3, <2>2, HealthNumbers, HealthInts, TwoRoles, ClocksAreInts DEF HealthInv, HealthType
<1>7. HealthAsked'
  BY <1>1, <1>3, <1>4, <1>5, <1>6 DEF HealthAsked
<1>8. QED
  BY <1>1, <1>7, ReadersKeep

LEMMA AnswersKeep ==
  ASSUME HealthInv, Health!Answer \/ Health!LoseDatabase
  PROVE  HealthInv'
BY ReadersKeep DEF Health!Answer, Health!LoseDatabase, HealthAsked

LEMMA NextHealth == Health!Windows /\ HealthInv /\ [Health!Next]_(Health!vars) => HealthInv'
<1>1. SUFFICES ASSUME Health!Windows, HealthInv, [Health!Next]_(Health!vars) PROVE HealthInv'
  OBVIOUS
<1>2. CASE UNCHANGED <<now, up, daemon, steady, beats, checking>>
  BY <1>1, <1>2, ReadersKeep DEF HealthInv, HealthAsked
<1>3. QED
  BY <1>1, <1>2, TickKeeps, DatabaseKeeps, WakeUpKeeps, BeatWorkerKeeps, BeatSchedulerKeeps,
     ScheduleKeeps, KillKeeps, RestartKeeps, AskKeeps, ReadHeartbeatsKeeps, AnswersKeep
     DEF Health!Next, Health!TakeJob, Health!vars

LEMMA HealthInvariant == ASSUME Health!Windows PROVE Health!Spec => []HealthInv
<1>1. Health!Init => HealthInv
  BY InitHealth
<1>2. HealthInv /\ [Health!Next]_(Health!vars) => HealthInv'
  BY NextHealth
<1>3. QED
  BY <1>1, <1>2, PTL DEF Health!Spec

\* What a request answers of a role.
LEMMA AnsweredStates ==
  ASSUME HealthInv, Health!Answer
  PROVE  /\ checking # Health!NoRequest /\ checking.at = "queue"
         /\ report'.worker = Health!HeartbeatState(checking.beats["worker"], checking.now, WorkerStale)
         /\ report'.scheduler =
              Health!HeartbeatState(checking.beats["scheduler"], checking.now, SchedulerStale)
         /\ report'.worker # "ok" => report'.status = "error"
BY DEF Health!Answer, Health!Healthy, Health!NoRequest

\* A daemon dead for longer than the worker's window is reported, however the three reads of
\* the report are spread (collect_platform_health, upsert_heartbeat).
THEOREM DeadIsReported ==
  ASSUME Health!Windows PROVE Health!Spec => DeadDaemonReported
<1>1. ASSUME Health!Windows, HealthInv, Health!Answer, daemon.at = "dead",
             checking.now - daemon.since > WorkerStale
      PROVE  report'.status = "error"
  <2> DEFINE beat == checking.beats["worker"]
  <2>1. beat \in Clocks /\ beat <= beats["worker"] /\ checking.now \in Nat
    BY <1>1, AnsweredStates, HealthNumbers, HealthInts, TwoRoles, ClocksAreInts DEF HealthInv, HealthAsked
  <2>2. beats["worker"] \in Clocks /\ beats["worker"] <= daemon.since /\ daemon.since \in Nat
    BY <1>1, HealthNumbers, HealthInts, TwoRoles, ClocksAreInts DEF HealthInv, HealthType, OnTime
  <2>3. checking.now - beat > WorkerStale
    BY <1>1, <2>1, <2>2, HealthNumbers, HealthInts, TwoRoles, ClocksAreInts DEF Clocks
  <2>4. Health!HeartbeatState(beat, checking.now, WorkerStale) # "ok"
    BY <2>3 DEF Health!HeartbeatState
  <2>5. QED
    BY <1>1, <2>4, AnsweredStates
<1>2. HealthInv /\ [Health!Next]_(Health!vars)
        => [Health!Answer /\ daemon.at = "dead" /\ checking.now - daemon.since > WorkerStale
              => report'.status = "error"]_(Health!vars)
  BY <1>1
<1>3. QED
  BY <1>2, HealthInvariant, PTL DEF Health!Spec, DeadDaemonReported, Health!DeadDaemonReported

\* A daemon that keeps to its ticks is never reported missing or stale.
THEOREM LiveIsNoAlarm ==
  ASSUME Health!Windows PROVE Health!Spec => LiveDaemonIsNoAlarm
<1>1. ASSUME Health!Windows, HealthInv, Health!Answer, checking.steady
      PROVE  report'.worker = "ok" /\ report'.scheduler = "ok"
  <2>1. \A r \in Health!Roles :
          /\ checking.beats[r] \in Nat /\ checking.now \in Nat
          /\ checking.now - checking.beats[r] <= WorkerStale
    BY <1>1, AnsweredStates DEF HealthInv, HealthAsked, Clocks
  <2>2. \A r \in Health!Roles, w \in {WorkerStale, SchedulerStale} :
          Health!HeartbeatState(checking.beats[r], checking.now, w) = "ok"
    BY <2>1, HealthNumbers, HealthInts, TwoRoles, ClocksAreInts DEF Health!HeartbeatState
  <2>3. QED
    BY <1>1, <2>2, AnsweredStates, HealthNumbers, HealthInts, TwoRoles, ClocksAreInts
<1>2. HealthInv /\ [Health!Next]_(Health!vars)
        => [Health!Answer /\ checking.steady
              => report'.worker = "ok" /\ report'.scheduler = "ok"]_(Health!vars)
  BY <1>1
<1>3. QED
  BY <1>2, HealthInvariant, PTL DEF Health!Spec, LiveDaemonIsNoAlarm, Health!LiveDaemonIsNoAlarm

-----------------------------------------------------------------------------
(***************************************************************************)
(* ApiRequests: the inductive invariant.  The two properties speak of one  *)
(* step each; a commit is an admin's because the thread was let through    *)
(* when it received the request, and a reply echoes the request because    *)
(* nothing came between the read of the table, the commit and the reply.   *)
(***************************************************************************)

ThreadPlaces == {"error", "count", "body", "get", "read", "commit", "read back"}
Flags == UNION {[CodesOf[tab] -> BOOLEAN] : tab \in Api!Tables}
Serving == [at : ThreadPlaces, request : Requests, seen : Nat, read : {<<>>} \cup Flags,
            disturbed : BOOLEAN]

ApiType ==
  /\ errors \in Nat
  /\ thread \in [Threads -> {Api!Idle} \cup Serving]
  /\ active \in [Api!Tables -> Flags]
  /\ \A tab \in Api!Tables : active[tab] \in [CodesOf[tab] -> BOOLEAN]

\* Where a thread is says what it has passed already.
LetThrough(r) ==
  r.at \in {"body", "read", "commit", "read back"} => Api!Authorize(r.request) = 200
AtTable(r) ==
  r.at \in {"read", "commit", "read back"} => r.request.path \in Api!Tables
CodesChecked(r) ==
  r.at \in {"commit", "read back"} => r.request.codes \subseteq CodesOf[r.request.path]
ReadTable(r) ==
  r.at = "commit" => r.read \in [CodesOf[r.request.path] -> BOOLEAN]
Passed(r) == LetThrough(r) /\ AtTable(r) /\ CodesChecked(r) /\ ReadTable(r)

\* What an undisturbed thread read, or wrote, is still there.
Untouched(r) ==
  /\ r.at = "commit" /\ ~r.disturbed => r.read = active[r.request.path]
  /\ r.at = "read back" /\ ~r.disturbed => Api!ScopeOf(active[r.request.path]) = r.request.codes

ApiInv ==
  /\ ApiType
  /\ \A t \in Threads : Passed(thread[t]) /\ Untouched(thread[t])

LEMMA IdleIsHarmless == Passed(Api!Idle) /\ Untouched(Api!Idle)
BY DEF Api!Idle, Passed, LetThrough, AtTable, CodesChecked, ReadTable, Untouched

\* A thread that is at a place serves a request.
LEMMA ServingAt ==
  ASSUME ApiInv, NEW t \in Threads, thread[t].at \in ThreadPlaces
  PROVE  thread[t] \in Serving
<1>1. thread[t] \in {Api!Idle} \cup Serving
  BY DEF ApiInv, ApiType
<1>2. Api!Idle.at \notin ThreadPlaces
  BY DEF Api!Idle, ThreadPlaces
<1>3. QED
  BY <1>1, <1>2

\* A step that leaves the tables alone and moves one thread keeps the invariant when it
\* keeps what the invariant says of that thread.
LEMMA OneThreadMoves ==
  ASSUME ApiInv, NEW t \in Threads, NEW next \in {Api!Idle} \cup Serving,
         thread' = [thread EXCEPT ![t] = next], errors' \in Nat, UNCHANGED active,
         Passed(next), Untouched(next)
  PROVE  ApiInv'
<1>1. ApiType'
  BY DEF ApiInv, ApiType
<1>2. ASSUME NEW u \in Threads PROVE Passed(thread'[u]) /\ Untouched(thread'[u])
  BY <1>2 DEF ApiInv, ApiType
<1>3. ASSUME NEW u \in Threads PROVE Passed(thread[u])' /\ Untouched(thread[u])'
  <2>1. Passed(thread[u])'
    BY <1>2 DEF Passed, LetThrough, AtTable, CodesChecked, ReadTable
  <2>2. Untouched(thread[u])'
    BY <1>2 DEF Untouched
  <2>3. QED
    BY <2>1, <2>2
<1>4. QED
  BY <1>1, <1>3 DEF ApiInv

LEMMA ReplyKeeps ==
  ASSUME ApiInv, NEW t \in Threads, Api!Reply(t), errors' \in Nat, UNCHANGED active
  PROVE  ApiInv'
BY OneThreadMoves, IdleIsHarmless DEF Api!Reply

-----------------------------------------------------------------------------
LEMMA InitApiInv == Api!Init => ApiInv
<1>1. SUFFICES ASSUME Api!Init PROVE ApiInv
  OBVIOUS
<1>2. ApiType
  BY <1>1 DEF Api!Init, ApiType, Flags
<1>3. ASSUME NEW t \in Threads PROVE thread[t] = Api!Idle
  BY <1>1 DEF Api!Init
<1>4. QED
  BY <1>2, <1>3, IdleIsHarmless DEF ApiInv

LEMMA ReceiveKeeps ==
  ASSUME ApiInv, NEW t \in Threads, NEW r \in Requests, Api!Receive(t, r)
  PROVE  ApiInv'
<1> DEFINE next == [at |-> IF Api!Authorize(r) # 200 THEN "error"
                           ELSE IF r.method = "POST" THEN "body" ELSE "get",
                    request |-> r, seen |-> 0, read |-> <<>>, disturbed |-> FALSE]
<1>1. next \in Serving
  BY DEF Serving, ThreadPlaces
<1>2. Passed(next) /\ Untouched(next)
  BY DEF Passed, LetThrough, AtTable, CodesChecked, ReadTable, Untouched
<1>3. thread' = [thread EXCEPT ![t] = next]
  BY DEF Api!Receive
<1>4. errors' \in Nat /\ UNCHANGED active
  BY DEF Api!Receive, ApiInv, ApiType
<1>5. next \in {Api!Idle} \cup Serving
  BY <1>1
<1> HIDE DEF next
<1>6. QED
  BY <1>2, <1>3, <1>4, <1>5, OneThreadMoves

LEMMA ReadCounterKeeps ==
  ASSUME ApiInv, NEW t \in Threads, Api!ReadCounter(t)
  PROVE  ApiInv'
<1> DEFINE next == [thread[t] EXCEPT !.at = "count", !.seen = errors]
<1>1. thread[t] \in Serving
  BY ServingAt DEF Api!ReadCounter, ThreadPlaces
<1>2. next \in Serving /\ next.at = "count"
  BY <1>1 DEF Serving, ThreadPlaces, ApiInv, ApiType
<1>3. Passed(next) /\ Untouched(next)
  BY <1>2 DEF Passed, LetThrough, AtTable, CodesChecked, ReadTable, Untouched
<1>4. thread' = [thread EXCEPT ![t] = next]
  BY DEF Api!ReadCounter
<1>5. QED
  BY <1>2, <1>3, <1>4, OneThreadMoves DEF Api!ReadCounter, ApiInv, ApiType

LEMMA WriteCounterKeeps ==
  ASSUME ApiInv, NEW t \in Threads, Api!WriteCounter(t)
  PROVE  ApiInv'
<1>1. thread[t] \in Serving
  BY ServingAt DEF Api!WriteCounter, ThreadPlaces
<1>2. errors' \in Nat
  BY <1>1 DEF Api!WriteCounter, Serving
<1>3. QED
  BY <1>2, ReplyKeeps DEF Api!WriteCounter

LEMMA ReadBodyKeeps ==
  ASSUME ApiInv, NEW t \in Threads, Api!ReadBody(t)
  PROVE  ApiInv'
<1> DEFINE place == IF thread[t].request.path \in Api!Tables THEN "read" ELSE "error"
           next == [thread[t] EXCEPT !.at = place]
<1>1. CASE Api!Reply(t)
  BY <1>1, ReplyKeeps DEF Api!ReadBody, ApiInv, ApiType
<1>2. CASE Api!Goto(t, place)
  <2>1. thread[t] \in Serving /\ LetThrough(thread[t])
    BY ServingAt DEF Api!ReadBody, ThreadPlaces, ApiInv, Passed
  <2>2. next \in Serving /\ next.at = place /\ next.request = thread[t].request
    BY <2>1 DEF Serving, ThreadPlaces
  <2>3. Passed(next) /\ Untouched(next)
    BY <2>1, <2>2 DEF Api!ReadBody, Passed, LetThrough, AtTable, CodesChecked, ReadTable, Untouched
  <2>4. thread' = [thread EXCEPT ![t] = next]
    BY <1>2 DEF Api!Goto
  <2>5. QED
    BY <2>2, <2>3, <2>4, OneThreadMoves DEF Api!ReadBody, ApiInv, ApiType
<1>3. QED
  BY <1>1, <1>2 DEF Api!ReadBody

LEMMA ReadRowsKeeps ==
  ASSUME ApiInv, NEW t \in Threads, Api!ReadRows(t)
  PROVE  ApiInv'
<1> DEFINE path == thread[t].request.path
           next == [thread[t] EXCEPT !.at = "commit", !.read = active[path]]
<1>1. CASE Api!Reply(t)
  BY <1>1, ReplyKeeps DEF Api!ReadRows, ApiInv, ApiType
<1>2. CASE /\ thread' = [thread EXCEPT ![t].at = "commit", ![t].read = active[path]]
           /\ thread[t].request.codes \subseteq CodesOf[path]
  <2>1. thread[t] \in Serving /\ LetThrough(thread[t]) /\ path \in Api!Tables
    BY ServingAt DEF Api!ReadRows, ThreadPlaces, ApiInv, Passed, AtTable
  <2>2. active[path] \in [CodesOf[path] -> BOOLEAN] /\ active[path] \in Flags
    BY <2>1 DEF ApiInv, ApiType
  <2>3. /\ next \in Serving /\ next.at = "commit" /\ next.request = thread[t].request
        /\ next.read = active[path]
    BY <2>1, <2>2 DEF Serving, ThreadPlaces
  <2>4. Passed(next) /\ Untouched(next)
    BY <1>2, <2>1, <2>2, <2>3
       DEF Api!ReadRows, Passed, LetThrough, AtTable, CodesChecked, ReadTable, Untouched
  <2>5. thread' = [thread EXCEPT ![t] = next]
    BY <1>2
  <2>6. QED
    BY <2>3, <2>4, <2>5, OneThreadMoves DEF Api!ReadRows, ApiInv, ApiType
<1>3. QED
  BY <1>1, <1>2 DEF Api!ReadRows

LEMMA CommitScopeKeeps ==
  ASSUME ApiInv, NEW t \in Threads, Api!CommitScope(t)
  PROVE  ApiInv'
<1> DEFINE mine == thread[t]
           path == mine.request.path
           codes == mine.request.codes
           new == [c \in CodesOf[path] |-> Api!Requested(codes, mine.read, c)]
           table == [c \in CodesOf[path] |->
                       IF new[c] # mine.read[c] THEN new[c] ELSE active[path][c]]
           hit(u) == thread[u].at \in {"commit", "read back"} /\ thread[u].request.path = path
<1>1. /\ mine \in Serving /\ mine.at = "commit" /\ path \in Api!Tables /\ Passed(mine)
      /\ codes \subseteq CodesOf[path]
  BY ServingAt DEF Api!CommitScope, ThreadPlaces, ApiInv, Passed, AtTable, CodesChecked
<1>2. active' = [active EXCEPT ![path] = table]
  BY DEF Api!CommitScope
<1>3. table \in [CodesOf[path] -> BOOLEAN] /\ table \in Flags
  <2>1. active[path] \in [CodesOf[path] -> BOOLEAN]
    BY <1>1 DEF ApiInv, ApiType
  <2>2. ASSUME NEW c \in CodesOf[path] PROVE new[c] \in BOOLEAN /\ active[path][c] \in BOOLEAN
    <3>1. new[c] \in BOOLEAN
      <4>1. Api!Requested(codes, mine.read, c) \in BOOLEAN
        <5>1. (c \in codes) = TRUE \/ (c \in codes) = FALSE
          OBVIOUS
        <5>2. QED
          BY <5>1, Zenon DEF Api!Requested
      <4>2. new[c] = Api!Requested(codes, mine.read, c)
        BY <2>2, Zenon
      <4>3. QED
        BY <4>1, <4>2, Zenon
    <3>2. active[path][c] \in BOOLEAN
      BY <2>1, <2>2
    <3>3. QED
      BY <3>1, <3>2, Zenon
  <2> HIDE DEF new
  <2>3. ASSUME NEW c \in CodesOf[path]
        PROVE (IF new[c] # mine.read[c] THEN new[c] ELSE active[path][c]) \in BOOLEAN
    <3>1. CASE new[c] # mine.read[c]
      BY <2>2, <2>3, <3>1
    <3>2. CASE new[c] = mine.read[c]
      BY <2>2, <2>3, <3>2
    <3>3. QED
      BY <3>1, <3>2
  <2>4. table \in [CodesOf[path] -> BOOLEAN]
    BY <2>3, Zenon
  <2>5. QED
    BY <1>1, <2>4 DEF Flags
<1>4. /\ active' \in [Api!Tables -> Flags] /\ active'[path] = table
      /\ \A tab \in Api!Tables : active'[tab] \in [CodesOf[tab] -> BOOLEAN]
      /\ \A tab \in Api!Tables \ {path} : active'[tab] = active[tab]
  BY <1>1, <1>2, <1>3 DEF ApiInv, ApiType
<1>5. /\ thread'[t] = [mine EXCEPT !.at = "read back"]
      /\ thread'[t] \in Serving
      /\ thread'[t].at = "read back" /\ thread'[t].request = mine.request
      /\ thread'[t].disturbed = mine.disturbed
  BY <1>1 DEF Api!CommitScope, Serving, ThreadPlaces
<1>6. ASSUME NEW u \in Threads \ {t}, hit(u)
      PROVE  /\ thread[u] \in Serving
             /\ thread'[u] = [thread[u] EXCEPT !.disturbed = TRUE]
             /\ thread'[u] \in Serving
             /\ thread'[u].at = thread[u].at /\ thread'[u].request = thread[u].request
             /\ thread'[u].read = thread[u].read /\ thread'[u].disturbed
  <2>1. thread[u] \in Serving
    BY <1>6, ServingAt DEF ThreadPlaces
  <2>2. thread'[u] = [thread[u] EXCEPT !.disturbed = TRUE]
    BY <1>6 DEF Api!CommitScope
  <2>3. QED
    BY <2>1, <2>2 DEF Serving
<1>7. ASSUME NEW u \in Threads \ {t}, ~hit(u) PROVE thread'[u] = thread[u]
  BY <1>7 DEF Api!CommitScope
<1>8. ApiType'
  <2>1. thread' = [u \in Threads |-> thread'[u]]
    BY DEF Api!CommitScope
  <2>2. ASSUME NEW u \in Threads PROVE thread'[u] \in {Api!Idle} \cup Serving
    BY <1>5, <1>6, <1>7 DEF ApiInv, ApiType
  <2>3. thread' \in [Threads -> {Api!Idle} \cup Serving]
    BY <2>1, <2>2
  <2>4. QED
    BY <2>3, <1>4 DEF ApiInv, ApiType, Api!CommitScope
<1>9. ASSUME NEW u \in Threads PROVE Passed(thread[u])'
  <2>1. CASE u = t
    BY <1>1, <1>5, <2>1 DEF Passed, LetThrough, AtTable, CodesChecked, ReadTable
  <2>2. Passed(thread[u])
    BY DEF ApiInv
  <2>3. CASE u # t /\ hit(u)
    BY <1>6, <2>2, <2>3 DEF Passed, LetThrough, AtTable, CodesChecked, ReadTable
  <2>4. CASE u # t /\ ~hit(u)
    <3>1. thread'[u] = thread[u]
      BY <1>7, <2>4
    <3>2. QED
      BY <2>2, <3>1 DEF Passed, LetThrough, AtTable, CodesChecked, ReadTable
  <2>5. QED
    BY <2>1, <2>3, <2>4
<1>10. ASSUME NEW u \in Threads PROVE Untouched(thread[u])'
  <2>1. CASE u = t
    <3>1. CASE mine.disturbed
      BY <1>5, <2>1, <3>1 DEF Untouched
    <3>2. CASE ~mine.disturbed
      <4>1. mine.read = active[path]
        BY <1>1, <3>2 DEF ApiInv, Untouched
      <4>2. \A c \in CodesOf[path] : table[c] = (c \in codes)
        BY <4>1 DEF Api!Requested
      <4>3. Api!ScopeOf(table) = codes
        BY <1>1, <4>2 DEF Api!ScopeOf
      <4>4. QED
        BY <1>4, <1>5, <2>1, <4>3 DEF Untouched
    <3>3. QED
      BY <3>1, <3>2, <1>1 DEF Serving
  <2>2. CASE u # t /\ hit(u)
    BY <1>6, <2>2 DEF Untouched
  <2>3. CASE u # t /\ ~hit(u)
    <3>1. thread'[u] = thread[u] /\ Untouched(thread[u]) /\ AtTable(thread[u])
      BY <1>7, <2>3 DEF ApiInv, Passed
    <3>2. CASE thread[u].at \in {"commit", "read back"}
      BY <1>4, <2>3, <3>1, <3>2 DEF Untouched, AtTable
    <3>3. CASE thread[u].at \notin {"commit", "read back"}
      BY <3>1, <3>3 DEF Untouched
    <3>4. QED
      BY <3>2, <3>3
  <2>4. QED
    BY <2>1, <2>2, <2>3
<1>11. QED
  BY <1>8, <1>9, <1>10 DEF ApiInv

LEMMA ServeKeeps ==
  ASSUME ApiInv, NEW t \in Threads, Api!Serve(t)
  PROVE  ApiInv'
<1> DEFINE next == [thread[t] EXCEPT !.at = "error"]
<1>1. CASE Api!Reply(t)
  BY <1>1, ReplyKeeps DEF Api!Serve, ApiInv, ApiType
<1>2. CASE Api!Goto(t, "error")
  <2>1. next \in Serving /\ next.at = "error"
    BY ServingAt DEF Api!Serve, ThreadPlaces, Serving
  <2>2. Passed(next) /\ Untouched(next)
    BY <2>1 DEF Passed, LetThrough, AtTable, CodesChecked, ReadTable, Untouched
  <2>3. thread' = [thread EXCEPT ![t] = next]
    BY <1>2 DEF Api!Goto
  <2>4. QED
    BY <2>1, <2>2, <2>3, OneThreadMoves DEF Api!Serve, ApiInv, ApiType
<1>3. QED
  BY <1>1, <1>2 DEF Api!Serve

LEMMA NextApiInv == ApiInv /\ [Api!Next]_(Api!vars) => ApiInv'
<1>1. SUFFICES ASSUME ApiInv, [Api!Next]_(Api!vars) PROVE ApiInv'
  OBVIOUS
<1>2. ASSUME NEW t \in Threads, Api!ReadBack(t) \/ Api!DatabaseFails(t) PROVE ApiInv'
  BY <1>1, <1>2, ReplyKeeps DEF Api!ReadBack, Api!DatabaseFails, ApiInv, ApiType
<1>3. CASE UNCHANGED Api!vars
  BY <1>1, <1>3 DEF Api!vars, ApiInv, ApiType, Passed, LetThrough, AtTable, CodesChecked,
                    ReadTable, Untouched
<1>4. QED
  BY <1>1, <1>2, <1>3, ReceiveKeeps, ReadCounterKeeps, WriteCounterKeeps, ReadBodyKeeps,
     ReadRowsKeeps, CommitScopeKeeps, ServeKeeps DEF Api!Next

LEMMA ApiInvariant == Api!Spec => []ApiInv
BY InitApiInv, NextApiInv, PTL DEF Api!Spec

-----------------------------------------------------------------------------
\* Only an admin's session is let through to a table of the scope.
LEMMA TableNeedsAdmin ==
  ASSUME Api!Parameters, NEW r \in Requests, r.path \in Api!Tables, Api!Authorize(r) = 200
  PROVE  r.session = "admin"
<1>1. Api!RequiredBoundary(r.path) = "admin"
  BY DEF Api!RequiredBoundary, Api!Parameters
<1>2. r.session \in Api!Accepted("admin")
  BY <1>1 DEF Api!Authorize
<1>3. QED
  BY <1>2 DEF Api!Accepted

\* The launch scope changes by commits of admins alone, to codes on record
\* (authorize_path, set_supported_exchanges, set_supported_instrument_types).
THEOREM ScopeIsAdmins ==
  ASSUME Api!Parameters PROVE Api!Spec => OnlyAdminsChangeScope
<1> DEFINE ByAdmin(tab) ==
      \E t \in Threads :
         /\ Api!CommitScope(t)
         /\ thread[t].request.path = tab /\ thread[t].request.session = "admin"
         /\ thread[t].request.codes \subseteq CodesOf[tab]
<1>1. ASSUME ApiInv, [Api!Next]_(Api!vars), NEW tab \in Api!Tables, active'[tab] # active[tab]
      PROVE  ByAdmin(tab)
  <2>1. PICK t \in Threads : Api!CommitScope(t)
    BY <1>1 DEF Api!Next, Api!vars, Api!Receive, Api!ReadCounter, Api!WriteCounter,
                Api!ReadBody, Api!ReadRows, Api!ReadBack,
                Api!Serve, Api!DatabaseFails
  <2>2. thread[t] \in Serving /\ Passed(thread[t]) /\ thread[t].at = "commit"
    BY <1>1, <2>1, ServingAt DEF Api!CommitScope, ThreadPlaces, ApiInv
  <2>3. thread[t].request.path = tab
    BY <1>1, <2>1 DEF Api!CommitScope, ApiInv, ApiType
  <2>4. /\ thread[t].request.codes \subseteq CodesOf[tab]
        /\ Api!Authorize(thread[t].request) = 200
    BY <2>2, <2>3 DEF Passed, LetThrough, CodesChecked
  <2>5. thread[t].request.session = "admin"
    BY <2>2, <2>3, <2>4, TableNeedsAdmin DEF Serving
  <2>6. QED
    BY <2>1, <2>3, <2>4, <2>5
<1>2. ApiInv /\ [Api!Next]_(Api!vars)
        => [\A tab \in Api!Tables : active'[tab] # active[tab] => ByAdmin(tab)]_(Api!vars)
  BY <1>1
<1>3. QED
  BY <1>2, ApiInvariant, PTL DEF Api!Spec, OnlyAdminsChangeScope, Api!OnlyAdminsChangeScope

\* A request nobody disturbed is answered with the scope it asked for (set_supported_exchanges
\* commits in one session and reads its reply in another).
THEOREM UndisturbedEchoed == Api!Spec => UndisturbedIsEchoed
<1>1. ApiInv /\ [Api!Next]_(Api!vars) =>
        [\A t \in Threads : Api!ReadBack(t) /\ ~thread[t].disturbed =>
           Api!ScopeOf(active[thread[t].request.path]) = thread[t].request.codes]_(Api!vars)
  BY DEF ApiInv, Untouched, Api!ReadBack
<1>2. QED
  BY <1>1, ApiInvariant, PTL DEF Api!Spec, UndisturbedIsEchoed, Api!UndisturbedIsEchoed

=============================================================================
