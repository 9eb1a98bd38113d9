-------------------------- MODULE TrustLoopRaceProofs --------------------------
(***************************************************************************)
(* Proofs about TrustLoopRace, for any number of loops and of listings and *)
(* however the universe moves.                                             *)
(*                                                                         *)
(* A loop may commit in between another's decision and its commit.  What   *)
(* makes the decision hold nevertheless are the row locks: a loop that has *)
(* processed its listings has the outcome row of each of them locked, and  *)
(* so has the one that commits.  As they have a listing in common, they    *)
(* cannot both be that far (HoldsAll, Met), unless one has none at all and *)
(* writes no rows.                                                         *)
(***************************************************************************)
EXTENDS TrustLoopRace, OpeningLoadRulesProofs, FiniteSetTheorems, TLAPS

-----------------------------------------------------------------------------
(***************************************************************************)
(* The inductive invariant.                                                *)
(***************************************************************************)

\* The functions from a part of D to V.
Partial(D, V) == UNION {[S -> V] : S \in SUBSET D}

Values == LoadStatus \cup Nat
Class  == {"success", "missing"}
ClassOrNone == Class \cup {NoRow}
SomeColumns == Partial(Columns, Values)
SomeRows    == Partial(Listings, Class)
Quality     == CorrectnessResult \cup {NoRow}
Publication == PublicationStatus \cup {NoRow}

Table  == [load : [Columns -> Values], rows : [Listings -> ClassOrNone],
           quality : Quality, publication : Publication]
Writes == [load : SomeColumns, rows : SomeRows, quality : Quality, publication : Publication]
RowNames == {NoWant.row, LoadRow, QualityRow, PublicationRow} \cup {OutcomeRow(l) : l \in Listings}
Want     == [row : RowNames, insert : BOOLEAN, writes : Writes]

TypeOK ==
  /\ moves \in Nat
  /\ supported \in SUBSET Listings
  /\ priced \in SUBSET Listings
  /\ apart \in BOOLEAN
  /\ db \in Table
  /\ at \in [Loops -> Stages]
  /\ cache \in [Loops -> [Columns -> Values]]
  /\ \A p \in Loops : at[p] \notin {"off", "open"} => cache[p].eligible \in Nat
  /\ mine \in [Loops -> Writes]
  /\ held \in [Loops -> SUBSET RowNames]
  /\ want \in [Loops -> Want]
  /\ todo \in [Loops -> SUBSET Listings]
  /\ success \in [Loops -> SUBSET Listings]

\* No two loops hold the same row.
LocksExclusive == \A p, q \in Loops : p # q => held[p] \cap held[q] = {}

\* Loops that overlap were given a listing in common, or one of them none.
Met == ~apart => \A p, q \in Loops : Share(Given(p), Given(q))

Recording == {"listing", "counts", "decide", "commit"}

\* What loop p has written and is about to write: only successes of listings
\* with a price; ...
PricedOf(p) ==
  /\ \A l \in DOMAIN mine[p].rows : mine[p].rows[l] = "success" => l \in priced
  /\ \A l \in DOMAIN want[p].writes.rows :
       want[p].writes.rows[l] = "success" => l \in priced

\* ... and only outcome rows that it has locked, or is about to lock.
HoldsAll(p) ==
  /\ \A l \in DOMAIN mine[p].rows : OutcomeRow(l) \in held[p]
  /\ \A l \in DOMAIN want[p].writes.rows : want[p].row = OutcomeRow(l)

\* Only a loop that records was given listings, and one that was given none
\* has a denominator of zero.
GivenFits(p) ==
  /\ at[p] \notin Recording => Given(p) = {}
  /\ at[p] \in Recording /\ Given(p) = {} => cache[p].eligible = 0

\* Which writes p makes where.
WantsFit(p) ==
  /\ at[p] # "counts" =>
       want[p].writes.rows = <<>> /\ \A l \in Listings : want[p].row # OutcomeRow(l)
  /\ at[p] # "commit" =>
       want[p].writes.publication = NoRow /\ mine[p].publication = NoRow
  /\ at[p] \in {"decide", "commit"} => todo[p] = {}

\* Once its listings are processed p holds a status that fits the rows it
\* sees, unless it had none to process.
StatusFits(p) ==
  (/\ ~apart /\ at[p] \in {"listing", "decide", "commit"} /\ todo[p] = {}
   /\ cache[p].eligible # 0 /\ cache[p].status = "ready")
  => Failed(View(p).rows) = {}

Clean(rows) == RowsOf(rows) # {} /\ Failed(rows) = {}

\* The publication there will be once p has committed.
Publishing(p) ==
  IF want[p].writes.publication # NoRow THEN want[p].writes.publication
  ELSE IF mine[p].publication # NoRow THEN mine[p].publication
  ELSE db.publication

\* Where that is ready, what p will have committed is clean; and p only decides
\* so of a load with listings.
ReadyFits(p) ==
  /\ want[p].writes.publication = "ready" \/ mine[p].publication = "ready" =>
       cache[p].eligible # 0
  /\ ~apart /\ at[p] = "commit" /\ Publishing(p) = "ready" => Clean(View(p).rows)

LoopFits(p) ==
  PricedOf(p) /\ HoldsAll(p) /\ GivenFits(p) /\ WantsFit(p) /\ StatusFits(p) /\ ReadyFits(p)

\* The same of the committed tables.
TablesFit ==
  /\ \A l \in Listings : db.rows[l] = "success" => l \in priced
  /\ ~apart /\ db.publication = "ready" => Clean(db.rows)

RaceInv == TypeOK /\ LocksExclusive /\ Met /\ TablesFit /\ \A p \in Loops : LoopFits(p)

-----------------------------------------------------------------------------
(***************************************************************************)
(* The operators the model is built from.                                  *)
(***************************************************************************)

LEMMA LaidOverPartial ==
  ASSUME NEW D, NEW V,
         NEW f \in Partial(D, V), NEW g \in Partial(D, V)
  PROVE  /\ LaidOver(f, g) \in Partial(D, V)
         /\ DOMAIN LaidOver(f, g) = DOMAIN f \cup DOMAIN g
         /\ \A x \in DOMAIN LaidOver(f, g) :
              LaidOver(f, g)[x] = IF x \in DOMAIN f THEN f[x] ELSE g[x]
<1>1. /\ DOMAIN f \subseteq D /\ \A x \in DOMAIN f : f[x] \in V
      /\ DOMAIN g \subseteq D /\ \A x \in DOMAIN g : g[x] \in V
  BY DEF Partial
<1>2. LaidOver(f, g) \in [DOMAIN f \cup DOMAIN g -> V]
  BY <1>1 DEF LaidOver
<1>3. DOMAIN f \cup DOMAIN g \in SUBSET D
  BY <1>1
<1>4. QED
  BY <1>2, <1>3 DEF LaidOver, Partial

LEMMA LaidOverTotal ==
  ASSUME NEW D, NEW V, NEW W, V \subseteq W,
         NEW f \in Partial(D, V), NEW g \in [D -> W]
  PROVE  /\ LaidOver(f, g) \in [D -> W]
         /\ \A x \in D : LaidOver(f, g)[x] = IF x \in DOMAIN f THEN f[x] ELSE g[x]
<1>1. DOMAIN f \subseteq D /\ \A x \in DOMAIN f : f[x] \in V
  BY DEF Partial
<1>2. DOMAIN f \cup DOMAIN g = D
  BY <1>1
<1>3. QED
  BY <1>1, <1>2 DEF LaidOver

LEMMA NoWritesType ==
  /\ NoWrites \in Writes /\ NoWrites.rows = <<>> /\ NoWrites.publication = NoRow
  /\ NoWant \in Want /\ NoWant.writes = NoWrites
<1>1. <<>> \in [{} -> Values] /\ <<>> \in [{} -> Class]
  OBVIOUS
<1>2. <<>> \in SomeColumns /\ <<>> \in SomeRows
  BY <1>1 DEF SomeColumns, SomeRows, Partial
<1>3. NoRow \in Quality /\ NoRow \in Publication
  BY DEF Quality, Publication
<1>4. NoWrites \in Writes /\ NoWrites.rows = <<>> /\ NoWrites.publication = NoRow
  BY <1>2, <1>3 DEF NoWrites, Writes
<1>5. NoWant.row \in RowNames /\ NoWant.insert \in BOOLEAN /\ NoWant.writes = NoWrites
      /\ NoWant = [row |-> NoWant.row, insert |-> NoWant.insert, writes |-> NoWant.writes]
  BY DEF NoWant, RowNames
<1> HIDE DEF NoWant, NoWrites
<1>6. QED
  BY <1>4, <1>5 DEF Want

\* The rows have different names.
LEMMA RowsDiffer ==
  /\ \A l, m : OutcomeRow(l) = OutcomeRow(m) => l = m
  /\ \A l : OutcomeRow(l) \notin {NoWant.row, LoadRow, QualityRow, PublicationRow}
BY DEF OutcomeRow, LoadRow, QualityRow, PublicationRow, NoWant

LEMMA NewLoadType == NewLoad \in [Columns -> Values]
BY DEF NewLoad, Columns, Values, LoadStatus

\* Writes over a table.
LEMMA OverTable ==
  ASSUME NEW m \in Writes, NEW t \in Table
  PROVE  /\ Over(m, t) \in Table
         /\ \A l \in Listings : Over(m, t).rows[l] = IF l \in DOMAIN m.rows
                                                    THEN m.rows[l] ELSE t.rows[l]
         /\ Over(m, t).publication = IF m.publication = NoRow THEN t.publication
                                     ELSE m.publication
<1> DEFINE v == Over(m, t)
           f == m.rows
           g == t.rows
<1>1. /\ v.load = LaidOver(m.load, t.load)
      /\ v.rows = LaidOver(f, g)
      /\ v.quality = IF m.quality = NoRow THEN t.quality ELSE m.quality
      /\ v.publication = IF m.publication = NoRow THEN t.publication ELSE m.publication
      /\ v = [load |-> v.load, rows |-> v.rows, quality |-> v.quality, publication |-> v.publication]
  BY DEF Over
<1>2. v.load \in [Columns -> Values]
  <2>1. m.load \in Partial(Columns, Values) /\ t.load \in [Columns -> Values]
        /\ Values \subseteq Values
    BY DEF Writes, Table, SomeColumns
  <2>2. LaidOver(m.load, t.load) \in [Columns -> Values]
    BY <2>1, LaidOverTotal
  <2>3. QED
    BY <1>1, <2>2
<1>3. f \in Partial(Listings, Class) /\ g \in [Listings -> ClassOrNone] /\ Class \subseteq ClassOrNone
  BY DEF Writes, Table, SomeRows, ClassOrNone
<1> HIDE DEF f, g, v
<1>4. LaidOver(f, g) \in [Listings -> ClassOrNone]
  BY <1>3, LaidOverTotal
<1>5. ASSUME NEW l \in Listings
      PROVE  LaidOver(f, g)[l] = IF l \in DOMAIN f THEN f[l] ELSE g[l]
  BY <1>3 DEF LaidOver
<1>6. v.quality \in Quality /\ v.publication \in Publication
  BY <1>1 DEF Writes, Table
<1>7. v \in Table
  BY <1>1, <1>2, <1>4, <1>6 DEF Table
<1>8. QED
  BY <1>1, <1>5, <1>7 DEF v, f, g

\* What a loop sees is a table: its own writes over what is committed.
LEMMA ViewType ==
  ASSUME TypeOK, NEW p \in Loops
  PROVE  /\ View(p) \in Table
         /\ \A l \in Listings : View(p).rows[l] = IF l \in DOMAIN mine[p].rows
                                                 THEN mine[p].rows[l] ELSE db.rows[l]
         /\ View(p).publication = IF mine[p].publication = NoRow THEN db.publication
                                  ELSE mine[p].publication
<1>1. mine[p] \in Writes /\ db \in Table
  BY DEF TypeOK
<1>2. QED
  BY <1>1, OverTable DEF View

\* Writes over writes.
LEMMA OverType ==
  ASSUME NEW w \in Writes, NEW m \in Writes
  PROVE  /\ Over(w, m) \in Writes
         /\ DOMAIN Over(w, m).rows = DOMAIN w.rows \cup DOMAIN m.rows
         /\ \A l \in DOMAIN Over(w, m).rows :
              Over(w, m).rows[l] = IF l \in DOMAIN w.rows THEN w.rows[l] ELSE m.rows[l]
         /\ Over(w, m).publication = IF w.publication = NoRow THEN m.publication
                                     ELSE w.publication
<1>1. w.load \in SomeColumns /\ m.load \in SomeColumns /\ w.rows \in SomeRows /\ m.rows \in SomeRows
      /\ {w.quality, m.quality} \subseteq Quality /\ {w.publication, m.publication} \subseteq Publication
  BY DEF Writes
<1>2. LaidOver(w.load, m.load) \in SomeColumns
  <2>1. w.load \in Partial(Columns, Values) /\ m.load \in Partial(Columns, Values)
    BY <1>1 DEF SomeColumns
  <2>2. LaidOver(w.load, m.load) \in Partial(Columns, Values)
    BY <2>1, LaidOverPartial
  <2>3. QED
    BY <2>2 DEF SomeColumns
<1>3. /\ LaidOver(w.rows, m.rows) \in SomeRows
      /\ DOMAIN LaidOver(w.rows, m.rows) = DOMAIN w.rows \cup DOMAIN m.rows
      /\ \A l \in DOMAIN LaidOver(w.rows, m.rows) :
           LaidOver(w.rows, m.rows)[l] = IF l \in DOMAIN w.rows THEN w.rows[l] ELSE m.rows[l]
  <2>1. w.rows \in Partial(Listings, Class) /\ m.rows \in Partial(Listings, Class)
    BY <1>1 DEF SomeRows
  <2> DEFINE f == w.rows
             g == m.rows
  <2>2. f \in Partial(Listings, Class) /\ g \in Partial(Listings, Class)
    BY <2>1
  <2> HIDE DEF f, g
  <2>3. /\ LaidOver(f, g) \in Partial(Listings, Class)
        /\ DOMAIN LaidOver(f, g) = DOMAIN f \cup DOMAIN g
        /\ \A l \in DOMAIN LaidOver(f, g) :
             LaidOver(f, g)[l] = IF l \in DOMAIN f THEN f[l] ELSE g[l]
    BY <2>2, LaidOverPartial
  <2>4. QED
    BY <2>3 DEF SomeRows, f, g
<1>4. QED
  BY <1>1, <1>2, <1>3 DEF Over, Writes

\* The update of the load writes no row and no publication.
LEMMA UpdateOfType ==
  ASSUME NEW p \in Loops, NEW load \in [Columns -> Values], NEW touched
  PROVE  /\ UpdateOf(p, load, touched) \in Want
         /\ UpdateOf(p, load, touched).writes.rows = <<>>
         /\ UpdateOf(p, load, touched).writes.publication = NoRow
         /\ UpdateOf(p, load, touched).row \in {NoWant.row, LoadRow}
<1> DEFINE changed == {c \in Columns : load[c] # cache[p][c]}
           columns == [c \in changed |-> load[c]]
           w == [NoWrites EXCEPT !.load = columns]
<1>1. columns \in SomeColumns
  <2>1. changed \in SUBSET Columns /\ columns \in [changed -> Values]
    OBVIOUS
  <2> HIDE DEF changed, columns
  <2>2. QED
    BY <2>1 DEF SomeColumns, Partial
<1> HIDE DEF columns
<1>2. w \in Writes /\ w.rows = <<>> /\ w.publication = NoRow
  BY <1>1, NoWritesType DEF Writes, NoWrites
<1>3. NoWant \in Want /\ NoWant.writes.rows = <<>> /\ NoWant.writes.publication = NoRow
  BY NoWritesType
<1>4. LoadRow \in RowNames
  BY DEF RowNames
<1>5. UpdateOf(p, load, touched) = IF changed = {} /\ ~touched THEN NoWant
                                   ELSE [row |-> LoadRow, insert |-> FALSE, writes |-> w]
  BY DEF UpdateOf, columns
<1> HIDE DEF w, changed
<1>6. QED
  BY <1>2, <1>3, <1>4, <1>5 DEF Want

-----------------------------------------------------------------------------
(***************************************************************************)
(* Types.                                                                  *)
(***************************************************************************)

LEMMA NumbersAreValues == Nat \subseteq Values /\ LoadStatus \subseteq Values
BY DEF Values

LEMMA ClassifyRecorded ==
  ASSUME NEW l
  PROVE  LET class == Classify(IF l \in priced THEN {"has_selected_price"} ELSE {})
         IN  class \in Class /\ (class = "success" <=> l \in priced)
<1>1. CASE l \in priced
  BY <1>1 DEF Classify, Class
<1>2. CASE l \notin priced
  BY <1>2 DEF Classify, Class
<1>3. QED
  BY <1>1, <1>2

\* The supported listings and the rows can be counted.
LEMMA Countable ==
  ASSUME TypeOK, NEW p \in Loops
  PROVE  /\ Cardinality(supported) \in Nat
         /\ IsFiniteSet(Succeeded(View(p).rows)) /\ IsFiniteSet(Failed(View(p).rows))
         /\ Cardinality(Succeeded(View(p).rows)) \in Nat
         /\ Cardinality(Failed(View(p).rows)) \in Nat
<1>1. IsFiniteSet(Listings) /\ supported \subseteq Listings
  BY ListingsNumbered DEF TypeOK
<1>2. View(p).rows \in [Listings -> ClassOrNone]
  BY ViewType DEF Table
<1>3. Succeeded(View(p).rows) \subseteq Listings /\ Failed(View(p).rows) \subseteq Listings
  BY <1>2 DEF Succeeded, Failed
<1>4. IsFiniteSet(supported) /\ IsFiniteSet(Succeeded(View(p).rows))
      /\ IsFiniteSet(Failed(View(p).rows))
  BY <1>1, <1>3, FS_Subset
<1>5. QED
  BY <1>4, FS_CardinalityType

LEMMA RowsType ==
  ASSUME NEW S \in SUBSET Listings, NEW class \in Class
  PROVE  [m \in S |-> class] \in SomeRows
<1> DEFINE rows == [m \in S |-> class]
<1>1. rows \in [S -> Class]
  OBVIOUS
<1> HIDE DEF rows
<1>2. rows \in SomeRows
  BY <1>1 DEF SomeRows, Partial
<1>3. QED
  BY <1>2 DEF rows

\* The three kinds of writes a loop makes besides those of the load.
LEMMA RowWantType ==
  ASSUME NEW row \in RowNames, NEW insert \in BOOLEAN, NEW rows \in SomeRows
  PROVE  LET w == [NoWrites EXCEPT !.rows = rows]
         IN  /\ [row |-> row, insert |-> insert, writes |-> w] \in Want
             /\ w.rows = rows
             /\ w.publication = NoRow
<1> DEFINE w == [NoWrites EXCEPT !.rows = rows]
<1>1. w \in Writes /\ w.rows = rows /\ w.publication = NoRow
  BY NoWritesType DEF Writes, NoWrites
<1> HIDE DEF w
<1>2. [row |-> row, insert |-> insert, writes |-> w] \in Want
  BY <1>1 DEF Want
<1>3. QED
  BY <1>1, <1>2 DEF w

LEMMA QualityWantType ==
  ASSUME NEW row \in RowNames, NEW insert \in BOOLEAN, NEW result \in Quality
  PROVE  LET w == [NoWrites EXCEPT !.quality = result]
         IN  /\ [row |-> row, insert |-> insert, writes |-> w] \in Want
             /\ w.rows = <<>>
             /\ w.publication = NoRow
<1> DEFINE w == [NoWrites EXCEPT !.quality = result]
<1>1. w \in Writes /\ w.rows = <<>> /\ w.publication = NoRow
  BY NoWritesType DEF Writes, NoWrites
<1> HIDE DEF w
<1>2. [row |-> row, insert |-> insert, writes |-> w] \in Want
  BY <1>1 DEF Want
<1>3. QED
  BY <1>1, <1>2 DEF w

LEMMA PublicationWantType ==
  ASSUME NEW row \in RowNames, NEW insert \in BOOLEAN, NEW status \in Publication
  PROVE  LET w == [NoWrites EXCEPT !.publication = status]
         IN  /\ [row |-> row, insert |-> insert, writes |-> w] \in Want
             /\ w.rows = <<>>
             /\ w.publication = status
<1> DEFINE w == [NoWrites EXCEPT !.publication = status]
<1>1. w \in Writes /\ w.rows = <<>> /\ w.publication = status
  BY NoWritesType DEF Writes, NoWrites
<1> HIDE DEF w
<1>2. [row |-> row, insert |-> insert, writes |-> w] \in Want
  BY <1>1 DEF Want
<1>3. QED
  BY <1>1, <1>2 DEF w

-----------------------------------------------------------------------------
(***************************************************************************)
(* What a step of loop p leaves to the others.                             *)
(***************************************************************************)

\* The part of a loop that its fit is about.
SameLoop(q) == /\ at'[q] = at[q] /\ cache'[q] = cache[q] /\ mine'[q] = mine[q]
               /\ held'[q] = held[q] /\ want'[q] = want[q] /\ todo'[q] = todo[q]

OthersSame(p) == \A q \in Loops \ {p} : SameLoop(q)

LEMMA SameGiven ==
  ASSUME NEW q \in Loops, SameLoop(q)
  PROVE  Given(q)' = Given(q)
BY DEF SameLoop, Given

\* A loop that has processed its listings, of which it had some.
Settled(q) == /\ at[q] \in {"listing", "decide", "commit"} /\ todo[q] = {}
              /\ cache[q].eligible # 0

\* A loop that did not move still fits, if no price is lost, it sees the same
\* rows once it is settled, and what it is about to publish is still clean.
LEMMA SameLoopFits ==
  ASSUME NEW q \in Loops, LoopFits(q), SameLoop(q), apart => apart', priced \subseteq priced',
         ~apart' /\ Settled(q) => View(q)'.rows = View(q).rows,
         ~apart' /\ at[q] = "commit" /\ Publishing(q)' = "ready" => Clean(View(q)'.rows)
  PROVE  LoopFits(q)'
<1>1. PricedOf(q)' /\ HoldsAll(q)'
  BY DEF LoopFits, PricedOf, HoldsAll, SameLoop
<1>2. GivenFits(q)'
  BY SameGiven DEF LoopFits, GivenFits, SameLoop
<1>3. WantsFit(q)'
  BY DEF LoopFits, WantsFit, SameLoop
<1>4. StatusFits(q)'
  BY DEF LoopFits, StatusFits, SameLoop, Settled
<1>5. ReadyFits(q)'
  <2>1. Clean(View(q).rows)' <=> Clean(View(q)'.rows)
    OBVIOUS
  <2>2. QED
    BY <2>1 DEF LoopFits, ReadyFits, SameLoop
<1>6. QED
  BY <1>1, <1>2, <1>3, <1>4, <1>5 DEF LoopFits

\* A step of loop p that commits nothing.
LEMMA LoopStepFits ==
  ASSUME RaceInv, NEW p \in Loops, UNCHANGED market, db' = db, apart => apart', OthersSame(p),
         TypeOK', LocksExclusive', Met', LoopFits(p)'
  PROVE  RaceInv'
<1>1. TablesFit'
  BY DEF RaceInv, TablesFit, market
<1>2. ASSUME NEW q \in Loops
      PROVE  LoopFits(q)'
  <2>1. CASE q = p
    BY <2>1
  <2>2. CASE q # p
    <3>1. SameLoop(q) /\ LoopFits(q)
      BY <2>2 DEF OthersSame, RaceInv
    <3>2. View(q)'.rows = View(q).rows /\ Publishing(q)' = Publishing(q)
      BY <3>1 DEF View, Publishing, SameLoop
    <3>3. apart' \/ ~(at[q] = "commit" /\ Publishing(q) = "ready") \/ Clean(View(q).rows)
      BY <3>1 DEF LoopFits, ReadyFits
    <3>4. QED
      BY <3>1, <3>2, <3>3, SameLoopFits DEF market
  <2>3. QED
    BY <2>1, <2>2
<1>3. QED
  BY <1>1, <1>2 DEF RaceInv

\* A step of loop p that locks no row, gives it no listing, and commits nothing.
LEMMA LoopStepKeeps ==
  ASSUME RaceInv, NEW p \in Loops, UNCHANGED <<market, apart>>, db' = db, OthersSame(p),
         TypeOK', LoopFits(p)', held'[p] \subseteq held[p], Given(p)' \in {Given(p), {}}
  PROVE  RaceInv'
<1>1. LocksExclusive'
  BY DEF RaceInv, LocksExclusive, OthersSame, SameLoop
<1>2. Met'
  <2>1. \A q \in Loops : Given(q)' \in {Given(q), {}}
    BY SameGiven DEF OthersSame
  <2>2. QED
    BY <2>1 DEF RaceInv, Met, Share
<1>3. QED
  BY <1>1, <1>2, LoopStepFits

-----------------------------------------------------------------------------
(***************************************************************************)
(* The steps of a loop.                                                    *)
(***************************************************************************)

\* A loop that is off, or has just read the load, has nothing to fit but its
\* writes.
LEMMA EndFits ==
  ASSUME TypeOK, NEW p \in Loops, End(p)
  PROVE  /\ OthersSame(p)
         /\ LoopFits(p)'
         /\ held'[p] = {} /\ Given(p)' = {}
         /\ db' \in Table => TypeOK'
<1>1. OthersSame(p)
  BY DEF End, OthersSame, SameLoop, TypeOK
<1>2. /\ at'[p] = "off" /\ mine'[p] = NoWrites /\ want'[p] = NoWant /\ todo'[p] = {}
      /\ cache'[p] = NewLoad /\ held'[p] = {}
  BY DEF End, TypeOK
<1>3. /\ mine'[p].rows = <<>> /\ mine'[p].publication = NoRow
      /\ want'[p].writes.rows = <<>> /\ want'[p].writes.publication = NoRow
      /\ \A l : want'[p].row # OutcomeRow(l)
  BY <1>2, NoWritesType, RowsDiffer
<1>4. Given(p)' = {}
  BY <1>2, <1>3 DEF Given
<1>5. LoopFits(p)'
  <2>1. PricedOf(p)' /\ HoldsAll(p)' /\ GivenFits(p)'
    BY <1>2, <1>3, <1>4 DEF PricedOf, HoldsAll, GivenFits, Recording
  <2>2. WantsFit(p)' /\ StatusFits(p)'
    BY <1>2, <1>3 DEF WantsFit, StatusFits
  <2>3. ReadyFits(p)'
    BY <1>2, <1>3 DEF ReadyFits, NoRow
  <2>4. QED
    BY <2>1, <2>2, <2>3 DEF LoopFits
<1>6. ASSUME db' \in Table
      PROVE  TypeOK'
  <2>1. /\ moves' \in Nat /\ supported' \in SUBSET Listings /\ priced' \in SUBSET Listings
        /\ apart' \in BOOLEAN
    BY DEF TypeOK, End, market
  <2>2. /\ at' \in [Loops -> Stages] /\ mine' \in [Loops -> Writes] /\ want' \in [Loops -> Want]
    BY NoWritesType DEF TypeOK, End, Stages
  <2>3. held' \in [Loops -> SUBSET RowNames] /\ todo' \in [Loops -> SUBSET Listings]
        /\ success' \in [Loops -> SUBSET Listings]
    BY DEF TypeOK, End
  <2>4. cache' \in [Loops -> [Columns -> Values]]
    BY NewLoadType DEF TypeOK, End
  <2>5. \A q \in Loops : at'[q] \notin {"off", "open"} => cache'[q].eligible \in Nat
    BY <1>1, <1>2 DEF OthersSame, SameLoop, TypeOK
  <2>6. QED
    BY <1>6, <2>1, <2>2, <2>3, <2>4, <2>5 DEF TypeOK
<1>7. QED
  BY <1>1, <1>2, <1>4, <1>5, <1>6

\* A loop that dies leaves no trace.
LEMMA DeathKeeps ==
  ASSUME RaceInv, NEW p \in Loops, End(p), db' = db
  PROVE  RaceInv'
<1>1. TypeOK /\ db' \in Table
  BY DEF RaceInv, TypeOK
<1>2. OthersSame(p) /\ LoopFits(p)' /\ TypeOK' /\ held'[p] = {} /\ Given(p)' = {}
  BY <1>1, EndFits
<1>3. UNCHANGED <<market, apart>>
  BY DEF End
<1>4. QED
  BY <1>2, <1>3, LoopStepKeeps

LEMMA StartKeeps ==
  ASSUME RaceInv, NEW p \in Loops, Start(p)
  PROVE  RaceInv'
<1>1. TypeOK /\ LoopFits(p)
  BY DEF RaceInv
<1>2. at'[p] = "open" /\ cache'[p] = db.load /\ at[p] = "off"
      /\ mine' = mine /\ held' = held /\ want' = want /\ todo' = todo /\ db' = db
      /\ UNCHANGED <<market, apart>>
  BY <1>1 DEF Start, TypeOK
<1>3. OthersSame(p)
  BY <1>1 DEF Start, OthersSame, SameLoop, TypeOK
<1>4. TypeOK'
  <2>1. at' \in [Loops -> Stages] /\ cache' \in [Loops -> [Columns -> Values]]
    BY <1>1 DEF Start, TypeOK, Stages, Table
  <2>2. \A q \in Loops : at'[q] \notin {"off", "open"} => cache'[q].eligible \in Nat
    BY <1>1, <1>2, <1>3 DEF OthersSame, SameLoop, TypeOK
  <2>3. QED
    BY <1>1, <2>1, <2>2 DEF Start, TypeOK, market
<1>5. Given(p)' = Given(p)
  BY <1>2 DEF Given
<1>6. LoopFits(p)'
  <2>1. PricedOf(p)' /\ HoldsAll(p)'
    BY <1>1, <1>2 DEF LoopFits, PricedOf, HoldsAll, market
  <2>2. GivenFits(p)'
    BY <1>1, <1>2, <1>5 DEF LoopFits, GivenFits, Recording
  <2>3. StatusFits(p)'
    BY <1>2 DEF StatusFits
  <2>4. WantsFit(p)'
    BY <1>1, <1>2 DEF LoopFits, WantsFit
  <2>5. ReadyFits(p)'
    BY <1>1, <1>2 DEF LoopFits, WantsFit, ReadyFits, NoRow
  <2>6. QED
    BY <2>1, <2>2, <2>3, <2>4, <2>5 DEF LoopFits
<1>7. QED
  BY <1>2, <1>3, <1>4, <1>5, <1>6, LoopStepKeeps

\* Opening the load: every supported listing is still to be processed, and
\* without one the denominator is zero.
LEMMA OpenKeeps ==
  ASSUME RaceInv, NEW p \in Loops, Open(p)
  PROVE  RaceInv'
<1> DEFINE load == [cache[p] EXCEPT !.eligible = Cardinality(supported)]
<1>1. TypeOK /\ LoopFits(p) /\ at[p] = "open"
  BY DEF RaceInv, Open
<1>2. load \in [Columns -> Values] /\ load.eligible = Cardinality(supported)
      /\ Cardinality(supported) \in Nat
  <2>1. cache[p] \in [Columns -> Values] /\ Cardinality(supported) \in Nat
    BY <1>1, Countable DEF TypeOK
  <2>2. QED
    BY <2>1, NumbersAreValues DEF Columns
<1>3. /\ at' = [at EXCEPT ![p] = "listing"] /\ want' = [want EXCEPT ![p] = UpdateOf(p, load, FALSE)]
      /\ cache' = [cache EXCEPT ![p] = load] /\ todo' = [todo EXCEPT ![p] = supported]
      /\ apart' = (apart \/ \E q \in Loops : ~Share(supported, Given(q)))
      /\ UNCHANGED <<market, db, mine, held, success>>
  BY DEF Open, Then
<1> HIDE DEF load
<1>4. /\ UpdateOf(p, load, FALSE) \in Want
      /\ UpdateOf(p, load, FALSE).writes.rows = <<>>
      /\ UpdateOf(p, load, FALSE).writes.publication = NoRow
      /\ \A l : UpdateOf(p, load, FALSE).row # OutcomeRow(l)
  BY <1>2, UpdateOfType, RowsDiffer
<1>5. OthersSame(p)
  BY <1>1, <1>3 DEF OthersSame, SameLoop, TypeOK
<1>6. /\ at'[p] = "listing" /\ todo'[p] = supported /\ mine' = mine /\ cache'[p] = load
      /\ want'[p].writes.rows = <<>> /\ want'[p].writes.publication = NoRow
      /\ (\A l : want'[p].row # OutcomeRow(l)) /\ held' = held
      /\ db' = db /\ UNCHANGED market /\ (apart => apart')
  BY <1>1, <1>3, <1>4 DEF TypeOK
<1>7. TypeOK'
  <2>1. at' \in [Loops -> Stages] /\ cache' \in [Loops -> [Columns -> Values]]
        /\ want' \in [Loops -> Want] /\ todo' \in [Loops -> SUBSET Listings]
    BY <1>1, <1>2, <1>3, <1>4 DEF TypeOK, Stages
  <2>2. \A q \in Loops : at'[q] \notin {"off", "open"} => cache'[q].eligible \in Nat
    BY <1>1, <1>2, <1>5, <1>6 DEF OthersSame, SameLoop, TypeOK
  <2>3. QED
    BY <1>1, <1>3, <2>1, <2>2 DEF TypeOK, market
<1>8. Given(p) = {} /\ Given(p)' = supported
  <2>1. Given(p) = {}
    BY <1>1 DEF LoopFits, GivenFits, Recording
  <2>2. \A l \in Listings : OutcomeRow(l) \notin held[p]
    BY <2>1 DEF Given
  <2>3. QED
    BY <1>1, <1>6, <2>1, <2>2 DEF Given, TypeOK
<1>9. Met'
  <2>1. SUFFICES ASSUME ~apart', NEW q \in Loops, NEW r \in Loops
                 PROVE  Share(Given(q)', Given(r)')
    BY DEF Met
  <2>2. ~apart /\ \A t \in Loops : Share(supported, Given(t))
    BY <1>3, <2>1
  <2>3. \A t \in Loops \ {p} : Given(t)' = Given(t)
    BY <1>5, SameGiven DEF OthersSame
  <2>4. CASE q = p \/ r = p
    BY <1>8, <2>2, <2>3, <2>4 DEF Share
  <2>5. CASE q # p /\ r # p
    BY <2>2, <2>3, <2>5 DEF RaceInv, Met
  <2>6. QED
    BY <2>4, <2>5
<1>10. LoopFits(p)'
  <2>1. PricedOf(p)' /\ HoldsAll(p)'
    BY <1>1, <1>6 DEF LoopFits, PricedOf, HoldsAll, market
  <2>2. supported = {} => cache'[p].eligible = 0
    BY <1>2, <1>6, FS_EmptySet
  <2>3. GivenFits(p)' /\ WantsFit(p)' /\ StatusFits(p)'
    BY <1>1, <1>6, <1>8, <2>2 DEF LoopFits, GivenFits, WantsFit, StatusFits, Recording
  <2>4. ReadyFits(p)'
    BY <1>1, <1>6 DEF LoopFits, WantsFit, ReadyFits, NoRow
  <2>5. QED
    BY <2>1, <2>3, <2>4 DEF LoopFits
<1>11. LocksExclusive'
  BY <1>6 DEF RaceInv, LocksExclusive
<1>12. QED
  BY <1>5, <1>6, <1>7, <1>9, <1>10, <1>11, LoopStepFits

\* Recording a listing: its row is on its way, and it is no longer to be
\* processed.
LEMMA RecordKeeps ==
  ASSUME RaceInv, NEW p \in Loops, NEW l \in Listings, Record(p, l)
  PROVE  RaceInv'
<1> DEFINE class == Classify(IF l \in priced THEN {"has_selected_price"} ELSE {})
           insert == View(p).rows[l] = NoRow
           new == {m \in {l} : View(p).rows[m] # class}
           rows == [m \in new |-> class]
           w == [NoWrites EXCEPT !.rows = rows]
           write == [row |-> OutcomeRow(l), insert |-> insert, writes |-> w]
<1>1. TypeOK /\ LoopFits(p) /\ at[p] = "listing" /\ want[p] = NoWant /\ l \in todo[p]
  BY DEF RaceInv, Record
<1>2. /\ at' = [at EXCEPT ![p] = "counts"] /\ want' = [want EXCEPT ![p] = write]
      /\ todo' = [todo EXCEPT ![p] = todo[p] \ {l}]
      /\ success' = [success EXCEPT ![p] = IF l \in priced THEN success[p] \cup {l} ELSE success[p]]
      /\ UNCHANGED <<market, db, cache, mine, held, apart>>
  BY <1>1 DEF Record, Then, TypeOK
<1>3. class \in Class /\ (class = "success" <=> l \in priced)
  BY ClassifyRecorded
<1> HIDE DEF class
<1>4. OutcomeRow(l) \in RowNames /\ insert \in BOOLEAN
  BY DEF RowNames
<1> HIDE DEF insert
<1>5. /\ DOMAIN rows \subseteq {l} /\ \A m \in DOMAIN rows : rows[m] = class
      /\ write \in Want /\ w.rows = rows /\ w.publication = NoRow /\ write.writes = w
  <2>1. rows \in SomeRows
    <3>1. new \in SUBSET Listings
      OBVIOUS
    <3> HIDE DEF new
    <3>2. QED
      BY <1>3, <3>1, RowsType
  <2>2. DOMAIN rows \subseteq {l} /\ \A m \in DOMAIN rows : rows[m] = class
    OBVIOUS
  <2> HIDE DEF rows
  <2>3. QED
    BY <1>4, <2>1, <2>2, RowWantType
<1> HIDE DEF rows, w, write
<1>6. OthersSame(p)
  BY <1>1, <1>2 DEF OthersSame, SameLoop, TypeOK
<1>7. /\ at'[p] = "counts" /\ want'[p] = write /\ todo'[p] = todo[p] \ {l}
      /\ mine' = mine /\ cache' = cache /\ held' = held
      /\ db' = db /\ UNCHANGED <<market, apart>>
  BY <1>1, <1>2 DEF TypeOK
<1>8. TypeOK'
  <2>1. at' \in [Loops -> Stages] /\ want' \in [Loops -> Want]
        /\ todo' \in [Loops -> SUBSET Listings] /\ success' \in [Loops -> SUBSET Listings]
    BY <1>1, <1>2, <1>5 DEF TypeOK, Stages
  <2>2. \A q \in Loops : at'[q] \notin {"off", "open"} => cache'[q].eligible \in Nat
    BY <1>1, <1>6, <1>7 DEF OthersSame, SameLoop, TypeOK
  <2>3. QED
    BY <1>1, <1>2, <2>1, <2>2 DEF TypeOK, market
<1>9. Given(p)' = Given(p)
  <2>1. want[p].row = NoWant.row /\ want'[p].row = OutcomeRow(l)
    BY <1>1, <1>7 DEF write
  <2>2. QED
    BY <1>1, <1>7, <2>1, RowsDiffer DEF Given
<1>10. LoopFits(p)'
  <2>1. /\ \A m \in DOMAIN want'[p].writes.rows :
             m = l /\ (want'[p].writes.rows[m] = "success" => m \in priced)
        /\ want'[p].writes.publication = NoRow /\ want'[p].row = OutcomeRow(l)
    BY <1>3, <1>5, <1>7 DEF write
  <2>2. mine[p].publication = NoRow
    BY <1>1 DEF LoopFits, WantsFit
  <2>3. PricedOf(p)' /\ HoldsAll(p)'
    BY <1>1, <1>7, <2>1 DEF LoopFits, PricedOf, HoldsAll, market
  <2>4. GivenFits(p)'
    BY <1>1, <1>7, <1>9 DEF LoopFits, GivenFits, Recording
  <2>5. WantsFit(p)' /\ StatusFits(p)'
    BY <1>7, <2>1, <2>2 DEF WantsFit, StatusFits
  <2>6. ReadyFits(p)'
    BY <1>7, <2>1, <2>2 DEF ReadyFits, NoRow
  <2>7. QED
    BY <2>3, <2>4, <2>5, <2>6 DEF LoopFits
<1>11. QED
  BY <1>6, <1>7, <1>8, <1>9, <1>10, LoopStepKeeps

\* Refreshing the aggregate: the status fits the rows it is computed from.
LEMMA RefreshKeeps ==
  ASSUME RaceInv, NEW p \in Loops, Refresh(p)
  PROVE  RaceInv'
<1> DEFINE rows == View(p).rows
           status == AggregateStatus(rows, cache[p].eligible)
           load == [cache[p] EXCEPT !.status = status, !.succeeded = Cardinality(Succeeded(rows)),
                                    !.failed = Cardinality(Failed(rows))]
           write == UpdateOf(p, load, load.status \in CompletedStatus)
<1>1. TypeOK /\ LoopFits(p) /\ at[p] = "counts" /\ want[p] = NoWant
  BY DEF RaceInv, Refresh
<1>2. /\ at' = [at EXCEPT ![p] = "listing"] /\ want' = [want EXCEPT ![p] = write]
      /\ cache' = [cache EXCEPT ![p] = load]
      /\ UNCHANGED <<market, db, mine, held, todo, success, apart>>
  BY DEF Refresh, Then
<1>3. /\ status \in LoadStatus /\ (status = "ready" => Failed(rows) = {})
      /\ Cardinality(Succeeded(rows)) \in Nat /\ Cardinality(Failed(rows)) \in Nat
  BY <1>1, AggregateStatusMeaning, Countable
<1> HIDE DEF status
<1>4. /\ load \in [Columns -> Values] /\ load.eligible = cache[p].eligible /\ load.status = status
  <2>1. cache[p] \in [Columns -> Values]
    BY <1>1 DEF TypeOK
  <2>2. /\ status \in Values /\ Cardinality(Succeeded(rows)) \in Values
        /\ Cardinality(Failed(rows)) \in Values
    BY <1>3, NumbersAreValues
  <2> HIDE DEF rows
  <2>3. QED
    BY <2>1, <2>2 DEF Columns
<1> HIDE DEF load
<1>5. /\ write \in Want /\ write.writes.rows = <<>> /\ write.writes.publication = NoRow
      /\ \A l : write.row # OutcomeRow(l)
  BY <1>4, UpdateOfType, RowsDiffer
<1> HIDE DEF write
<1>6. OthersSame(p)
  BY <1>1, <1>2 DEF OthersSame, SameLoop, TypeOK
<1>7. /\ at'[p] = "listing" /\ want'[p] = write /\ cache'[p] = load
      /\ mine' = mine /\ todo' = todo /\ held' = held
      /\ db' = db /\ UNCHANGED <<market, apart>>
  BY <1>1, <1>2 DEF TypeOK
<1>8. TypeOK'
  <2>1. at' \in [Loops -> Stages] /\ want' \in [Loops -> Want]
        /\ cache' \in [Loops -> [Columns -> Values]]
    BY <1>1, <1>2, <1>4, <1>5 DEF TypeOK, Stages
  <2>2. cache[p].eligible \in Nat
    BY <1>1 DEF TypeOK
  <2>3. \A q \in Loops : at'[q] \notin {"off", "open"} => cache'[q].eligible \in Nat
    BY <1>1, <1>4, <1>6, <1>7, <2>2 DEF OthersSame, SameLoop, TypeOK
  <2>4. QED
    BY <1>1, <1>2, <2>1, <2>3 DEF TypeOK, market
<1>9. Given(p)' = Given(p)
  BY <1>1, <1>5, <1>7, RowsDiffer DEF Given
<1>10. LoopFits(p)'
  <2>1. want'[p].writes.rows = <<>> /\ want'[p].writes.publication = NoRow
    BY <1>5, <1>7
  <2>2. want[p].writes.rows = <<>> /\ mine[p].publication = NoRow
    BY <1>1, NoWritesType DEF LoopFits, WantsFit
  <2>3. PricedOf(p)' /\ HoldsAll(p)'
    BY <1>1, <1>7, <2>1 DEF LoopFits, PricedOf, HoldsAll, market
  <2>4. GivenFits(p)' /\ WantsFit(p)'
    BY <1>1, <1>4, <1>5, <1>7, <1>9, <2>1, <2>2 DEF LoopFits, GivenFits, WantsFit, Recording
  <2>5. StatusFits(p)'
    <3>1. View(p)' = View(p)
      BY <1>7 DEF View
    <3>2. cache'[p].status = "ready" => Failed(View(p).rows) = {}
      BY <1>3, <1>4, <1>7
    <3>3. QED
      BY <3>1, <3>2 DEF StatusFits
  <2>6. ReadyFits(p)'
    BY <1>7, <2>1, <2>2 DEF ReadyFits, NoRow
  <2>7. QED
    BY <2>3, <2>4, <2>5, <2>6 DEF LoopFits
<1>11. QED
  BY <1>6, <1>7, <1>8, <1>9, <1>10, LoopStepKeeps

\* The correctness check: no row and no publication is written.
LEMMA ValidateKeeps ==
  ASSUME RaceInv, NEW p \in Loops, Validate(p)
  PROVE  RaceInv'
<1> DEFINE verdict == Correctness(cache[p].eligible, 0, FALSE, FALSE)
           result == Changed(verdict, View(p).quality)
           insert == View(p).quality = NoRow
           check == [row |-> QualityRow, insert |-> insert,
                     writes |-> [NoWrites EXCEPT !.quality = result]]
           write == IF ValidationDue(p) THEN check ELSE NoWant
<1>1. TypeOK /\ LoopFits(p) /\ at[p] = "listing" /\ want[p] = NoWant /\ todo[p] = {}
  BY DEF RaceInv, Validate, ListingsDone
<1>2. /\ at' = [at EXCEPT ![p] = "decide"] /\ want' = [want EXCEPT ![p] = write]
      /\ UNCHANGED <<market, db, cache, mine, held, todo, success, apart>>
  BY DEF Validate, Then
<1>3. result \in Quality /\ QualityRow \in RowNames /\ insert \in BOOLEAN
  <2>1. verdict \in Quality
    BY CorrectnessType DEF Quality
  <2> HIDE DEF verdict
  <2>2. QED
    BY <2>1 DEF Changed, Quality, RowNames
<1> HIDE DEF result, insert
<1>4. /\ check \in Want /\ check.writes.rows = <<>> /\ check.writes.publication = NoRow
      /\ check.row = QualityRow
  BY <1>3, QualityWantType
<1> HIDE DEF check
<1>5. /\ write \in Want /\ write.writes.rows = <<>> /\ write.writes.publication = NoRow
      /\ \A l : write.row # OutcomeRow(l)
  BY <1>4, NoWritesType, RowsDiffer
<1> HIDE DEF write
<1>6. OthersSame(p)
  BY <1>1, <1>2 DEF OthersSame, SameLoop, TypeOK
<1>7. /\ at'[p] = "decide" /\ want'[p] = write /\ cache' = cache
      /\ mine' = mine /\ todo' = todo /\ held' = held
      /\ db' = db /\ UNCHANGED <<market, apart>>
  BY <1>1, <1>2 DEF TypeOK
<1>8. TypeOK'
  <2>1. at' \in [Loops -> Stages] /\ want' \in [Loops -> Want]
    BY <1>1, <1>2, <1>5 DEF TypeOK, Stages
  <2>2. \A q \in Loops : at'[q] \notin {"off", "open"} => cache'[q].eligible \in Nat
    BY <1>1, <1>6, <1>7 DEF OthersSame, SameLoop, TypeOK
  <2>3. QED
    BY <1>1, <1>2, <2>1, <2>2 DEF TypeOK, market
<1>9. Given(p)' = Given(p)
  BY <1>1, <1>5, <1>7, RowsDiffer DEF Given
<1>10. LoopFits(p)'
  <2>1. want'[p].writes.rows = <<>> /\ want'[p].writes.publication = NoRow
    BY <1>5, <1>7
  <2>2. want[p].writes.rows = <<>> /\ mine[p].publication = NoRow
    BY <1>1, NoWritesType DEF LoopFits, WantsFit
  <2>3. PricedOf(p)' /\ HoldsAll(p)'
    BY <1>1, <1>7, <2>1 DEF LoopFits, PricedOf, HoldsAll, market
  <2>4. GivenFits(p)' /\ WantsFit(p)'
    BY <1>1, <1>5, <1>7, <1>9, <2>1, <2>2 DEF LoopFits, GivenFits, WantsFit, Recording
  <2>5. StatusFits(p)'
    <3>1. View(p)' = View(p)
      BY <1>7 DEF View
    <3>2. QED
      BY <1>1, <1>7, <3>1 DEF StatusFits, LoopFits
  <2>6. ReadyFits(p)'
    BY <1>7, <2>1, <2>2 DEF ReadyFits, NoRow
  <2>7. QED
    BY <2>3, <2>4, <2>5, <2>6 DEF LoopFits
<1>11. QED
  BY <1>6, <1>7, <1>8, <1>9, <1>10, LoopStepKeeps

\* What a loop decides to publish as ready is clean: the coverage is above 99
\* percent of a denominator that is not zero, so there is a success.
LEMMA DecisionFits ==
  ASSUME TypeOK, NEW p \in Loops, LoopFits(p), at[p] = "decide",
         PublicationDecision(cache[p].status, View(p).rows, cache[p].eligible, View(p).quality)
           = "ready"
  PROVE  cache[p].eligible # 0 /\ (~apart => Clean(View(p).rows))
<1> DEFINE rows == View(p).rows
           eligible == cache[p].eligible
           many == Cardinality(Succeeded(rows))
<1>1. cache[p].status = "ready" /\ CoverageAbove99(rows, eligible)
  BY ReadyMeaning
<1>2. eligible \in Nat /\ many \in Nat
  BY Countable DEF TypeOK
<1>3. eligible > 0 /\ 100 * many > 99 * eligible
  BY <1>1 DEF CoverageAbove99
<1>4. many # 0 /\ eligible # 0
  <2> HIDE DEF many, eligible
  <2>1. QED
    BY <1>2, <1>3
<1>5. Succeeded(rows) # {}
  BY <1>4, FS_EmptySet
<1>6. RowsOf(rows) # {}
  BY <1>5 DEF RowsOf, Succeeded, NoRow
<1>7. ~apart => Failed(rows) = {}
  BY <1>1, <1>4 DEF LoopFits, WantsFit, StatusFits
<1>8. QED
  BY <1>4, <1>6, <1>7 DEF Clean

LEMMA DecideKeeps ==
  ASSUME RaceInv, NEW p \in Loops, Decide(p)
  PROVE  RaceInv'
<1> DEFINE status == PublicationDecision(cache[p].status, View(p).rows,
                                         cache[p].eligible, View(p).quality)
           new == Changed(status, View(p).publication)
           insert == View(p).publication = NoRow
           write == [row |-> PublicationRow, insert |-> insert,
                     writes |-> [NoWrites EXCEPT !.publication = new]]
<1>1. TypeOK /\ LoopFits(p) /\ at[p] = "decide" /\ want[p] = NoWant
  BY DEF RaceInv, Decide
<1>2. /\ at' = [at EXCEPT ![p] = "commit"] /\ want' = [want EXCEPT ![p] = write]
      /\ UNCHANGED <<market, db, cache, mine, held, todo, success, apart>>
  BY DEF Decide, Then
<1>3. /\ new \in Publication /\ PublicationRow \in RowNames /\ insert \in BOOLEAN
      /\ status # NoRow /\ new = IF status = View(p).publication THEN NoRow ELSE status
  <2>1. status \in PublicationStatus
    BY PublicationDecisionType
  <2> HIDE DEF status
  <2>2. QED
    BY <2>1 DEF Changed, Publication, PublicationStatus, NoRow, RowNames
<1>4. status = "ready" => cache[p].eligible # 0 /\ (~apart => Clean(View(p).rows))
  BY <1>1, DecisionFits
<1> HIDE DEF status, new, insert
<1>5. /\ write \in Want /\ write.writes.rows = <<>> /\ write.writes.publication = new
      /\ write.row = PublicationRow
  BY <1>3, PublicationWantType
<1> HIDE DEF write
<1>6. OthersSame(p)
  BY <1>1, <1>2 DEF OthersSame, SameLoop, TypeOK
<1>7. /\ at'[p] = "commit" /\ want'[p] = write /\ cache' = cache
      /\ mine' = mine /\ todo' = todo /\ held' = held
      /\ db' = db /\ UNCHANGED <<market, apart>>
  BY <1>1, <1>2 DEF TypeOK
<1>8. TypeOK'
  <2>1. at' \in [Loops -> Stages] /\ want' \in [Loops -> Want]
    BY <1>1, <1>2, <1>5 DEF TypeOK, Stages
  <2>2. \A q \in Loops : at'[q] \notin {"off", "open"} => cache'[q].eligible \in Nat
    BY <1>1, <1>6, <1>7 DEF OthersSame, SameLoop, TypeOK
  <2>3. QED
    BY <1>1, <1>2, <2>1, <2>2 DEF TypeOK, market
<1>9. Given(p)' = Given(p)
  BY <1>1, <1>5, <1>7, RowsDiffer DEF Given
<1>10. LoopFits(p)'
  <2>1. want'[p].writes.rows = <<>> /\ want'[p].writes.publication = new
        /\ \A l : want'[p].row # OutcomeRow(l)
    BY <1>5, <1>7, RowsDiffer
  <2>2. mine[p].publication = NoRow /\ todo[p] = {}
    BY <1>1 DEF LoopFits, WantsFit
  <2>3. PricedOf(p)' /\ HoldsAll(p)'
    BY <1>1, <1>7, <2>1 DEF LoopFits, PricedOf, HoldsAll, market
  <2>4. GivenFits(p)' /\ WantsFit(p)'
    BY <1>1, <1>7, <1>9, <2>1, <2>2 DEF LoopFits, GivenFits, WantsFit, Recording
  <2>5. View(p)' = View(p)
    BY <1>7 DEF View
  <2>6. StatusFits(p)'
    BY <1>1, <1>7, <2>2, <2>5 DEF StatusFits, LoopFits
  <2>7. ReadyFits(p)'
    <3>1. View(p).publication = db.publication
      BY <1>1, <2>2, ViewType
    <3>2. Publishing(p)' = status
      BY <1>3, <1>7, <2>1, <2>2, <3>1 DEF Publishing
    <3>3. Clean(View(p).rows)' <=> Clean(View(p).rows)
      BY <2>5
    <3>4. want'[p].writes.publication = "ready" \/ mine'[p].publication = "ready" => status = "ready"
      BY <1>3, <1>7, <2>1, <2>2 DEF NoRow
    <3>5. QED
      BY <1>4, <1>7, <3>2, <3>3, <3>4 DEF ReadyFits
  <2>8. QED
    BY <2>3, <2>4, <2>6, <2>7 DEF LoopFits
<1>11. QED
  BY <1>6, <1>7, <1>8, <1>9, <1>10, LoopStepKeeps

\* A statement that runs: the rows the loop sees change only while it records,
\* and the row it writes is locked by nobody else.
LEMMA WriteKeeps ==
  ASSUME RaceInv, NEW p \in Loops, Write(p)
  PROVE  RaceInv'
<1> DEFINE w == want[p].writes
           m == mine[p]
           now == Over(w, m)
<1>1. TypeOK /\ LoopFits(p)
  BY DEF RaceInv
<1>2. /\ mine' = [mine EXCEPT ![p] = now]
      /\ held' = [held EXCEPT ![p] = held[p] \cup {want[p].row}]
      /\ want' = [want EXCEPT ![p] = NoWant]
      /\ UNCHANGED <<market, db, at, cache, todo, success, apart>>
  BY DEF Write
<1>3. w \in Writes /\ m \in Writes /\ want[p].row \in RowNames
  BY <1>1 DEF TypeOK, Want
<1>4. /\ now \in Writes /\ DOMAIN now.rows = DOMAIN w.rows \cup DOMAIN m.rows
      /\ \A l \in DOMAIN now.rows :
           now.rows[l] = IF l \in DOMAIN w.rows THEN w.rows[l] ELSE m.rows[l]
      /\ now.publication = IF w.publication = NoRow THEN m.publication ELSE w.publication
  <2> HIDE DEF w, m
  <2>1. QED
    BY <1>3, OverType
<1> HIDE DEF now
<1>5. OthersSame(p)
  BY <1>1, <1>2 DEF OthersSame, SameLoop, TypeOK
<1>6. /\ mine'[p] = now /\ want'[p] = NoWant /\ held'[p] = held[p] \cup {want[p].row}
      /\ at' = at /\ cache' = cache /\ todo' = todo
      /\ db' = db /\ UNCHANGED <<market, apart>>
  BY <1>1, <1>2 DEF TypeOK
<1>7. TypeOK'
  <2>1. mine' \in [Loops -> Writes] /\ want' \in [Loops -> Want]
        /\ held' \in [Loops -> SUBSET RowNames]
    BY <1>1, <1>2, <1>3, <1>4, NoWritesType DEF TypeOK
  <2>2. QED
    BY <1>1, <1>2, <2>1 DEF TypeOK, market
<1>8. LocksExclusive'
  <2>1. \A q \in Loops \ {p} : held'[q] = held[q] /\ want[p].row \notin held[q]
    BY <1>5 DEF OthersSame, SameLoop, Write, Waits
  <2>2. QED
    BY <1>6, <2>1 DEF RaceInv, LocksExclusive
<1>9. want'[p].writes.rows = <<>> /\ want'[p].writes.publication = NoRow
      /\ \A l : want'[p].row # OutcomeRow(l)
  BY <1>6, NoWritesType, RowsDiffer
<1>10. Given(p)' = Given(p)
  BY <1>6, <1>9 DEF Given
<1>11. Met'
  <2>1. \A q \in Loops : Given(q)' = Given(q)
    BY <1>5, <1>10, SameGiven DEF OthersSame
  <2>2. QED
    BY <1>6, <2>1 DEF RaceInv, Met
<1>12. PricedOf(p)' /\ HoldsAll(p)'
  <2>1. PricedOf(p)'
    BY <1>1, <1>4, <1>6, <1>9 DEF LoopFits, PricedOf, market
  <2>2. HoldsAll(p)'
    BY <1>1, <1>4, <1>6, <1>9 DEF LoopFits, HoldsAll
  <2>3. QED
    BY <2>1, <2>2
<1>13. GivenFits(p)' /\ WantsFit(p)'
  BY <1>1, <1>4, <1>6, <1>9, <1>10 DEF LoopFits, GivenFits, WantsFit
<1>14. at[p] # "counts" => View(p)'.rows = View(p).rows
  <2>1. SUFFICES ASSUME at[p] # "counts"
                 PROVE  View(p)'.rows = View(p).rows
    OBVIOUS
  <2>2. DOMAIN w.rows = {}
    BY <1>1, <2>1 DEF LoopFits, WantsFit
  <2>3. View(p)' = Over(now, db) /\ db \in Table
    BY <1>1, <1>6 DEF View, TypeOK
  <2>4. /\ Over(now, db).rows \in [Listings -> ClassOrNone]
        /\ \A l \in Listings : Over(now, db).rows[l] = IF l \in DOMAIN now.rows
                                                      THEN now.rows[l] ELSE db.rows[l]
    BY <1>4, <2>3, OverTable DEF Table
  <2>5. /\ View(p).rows \in [Listings -> ClassOrNone]
        /\ \A l \in Listings : View(p).rows[l] = IF l \in DOMAIN m.rows
                                                THEN m.rows[l] ELSE db.rows[l]
    BY <1>1, ViewType DEF Table
  <2>6. \A l \in Listings : Over(now, db).rows[l] = View(p).rows[l]
    BY <1>4, <2>2, <2>4, <2>5
  <2>7. Over(now, db).rows = View(p).rows
    BY <2>4, <2>5, <2>6
  <2>8. QED
    BY <2>3, <2>7
<1>15. StatusFits(p)'
  BY <1>1, <1>6, <1>14 DEF LoopFits, StatusFits
<1>16. ReadyFits(p)'
  <2>1. mine'[p].publication = "ready" => w.publication = "ready" \/ m.publication = "ready"
    BY <1>4, <1>6
  <2>2. Publishing(p)' = Publishing(p)
    BY <1>4, <1>6, <1>9 DEF Publishing
  <2>3. at[p] = "commit" => (Clean(View(p).rows)' <=> Clean(View(p).rows))
    BY <1>14
  <2>4. QED
    BY <1>1, <1>6, <1>9, <2>1, <2>2, <2>3 DEF LoopFits, ReadyFits, NoRow
<1>17. LoopFits(p)'
  BY <1>12, <1>13, <1>15, <1>16 DEF LoopFits
<1>18. QED
  BY <1>5, <1>6, <1>7, <1>8, <1>11, <1>17, LoopStepFits

-----------------------------------------------------------------------------
(***************************************************************************)
(* What a commit leaves to the others.                                     *)
(***************************************************************************)

\* A loop that was given no listings has written no rows.
LEMMA BareWritesNothing ==
  ASSUME TypeOK, NEW p \in Loops, HoldsAll(p), Given(p) = {}
  PROVE  DOMAIN mine[p].rows = {} /\ View(p).rows = db.rows
<1>1. DOMAIN mine[p].rows \subseteq Listings
  BY DEF TypeOK, Writes, SomeRows, Partial
<1>2. DOMAIN mine[p].rows = {}
  BY <1>1 DEF HoldsAll, Given
<1>3. View(p).rows \in [Listings -> ClassOrNone] /\ db.rows \in [Listings -> ClassOrNone]
  BY ViewType DEF TypeOK, Table
<1>4. \A l \in Listings : View(p).rows[l] = db.rows[l]
  BY <1>2, ViewType
<1>5. View(p).rows = db.rows
  BY <1>3, <1>4
<1>6. QED
  BY <1>2, <1>5

\* Of two loops that have processed their listings one was given none: the row
\* of a listing they both were given would be locked by both.
LEMMA OneIsBare ==
  ASSUME RaceInv, ~apart, NEW p \in Loops, NEW q \in Loops, p # q,
         at[p] # "counts", at[q] # "counts", todo[p] = {}, todo[q] = {}
  PROVE  Given(p) = {} \/ Given(q) = {}
<1>1. SUFFICES ASSUME NEW l \in Given(p), l \in Given(q)
               PROVE  FALSE
  BY DEF RaceInv, Met, Share
<1>2. /\ l \in Listings
      /\ OutcomeRow(l) \in held[p] \cup {want[p].row}
      /\ OutcomeRow(l) \in held[q] \cup {want[q].row}
  BY <1>1 DEF Given
<1>3. want[p].row # OutcomeRow(l) /\ want[q].row # OutcomeRow(l)
  BY <1>2 DEF RaceInv, LoopFits, WantsFit
<1>4. OutcomeRow(l) \in held[p] /\ OutcomeRow(l) \in held[q]
  BY <1>2, <1>3
<1>5. QED
  BY <1>4 DEF RaceInv, LocksExclusive

\* So a settled loop sees the same rows whatever another commits.
LEMMA SettledSeesItsOwn ==
  ASSUME RaceInv, ~apart, NEW p \in Loops, NEW q \in Loops, Commit(p), q # p,
         at[q] # "counts", todo[q] = {}, Given(q) # {}
  PROVE  View(q)'.rows = View(q).rows /\ Given(p) = {} /\ View(p).rows = db.rows
<1>1. TypeOK /\ LoopFits(p) /\ at[p] = "commit"
  BY DEF RaceInv, Commit
<1>2. todo[p] = {}
  BY <1>1 DEF LoopFits, WantsFit
<1>3. Given(p) = {}
  BY <1>1, <1>2, OneIsBare
<1>4. View(p).rows = db.rows
  BY <1>1, <1>3, BareWritesNothing DEF LoopFits
<1>5. mine'[q] = mine[q] /\ db' = View(p)
  BY <1>1 DEF Commit, End, TypeOK
<1>6. View(q)'.rows = View(q).rows
  BY <1>4, <1>5 DEF View, Over
<1>7. QED
  BY <1>3, <1>4, <1>6

\* What another loop is about to publish as ready stays clean: either it sees
\* the same rows, and p, which has no listings, does not publish anything as
\* ready; or it has no listings itself, and leaves the publication and the rows
\* as p commits them.
LEMMA OthersStayClean ==
  ASSUME RaceInv, ~apart, NEW p \in Loops, NEW q \in Loops, Commit(p), q # p,
         SameLoop(q), TablesFit', ~apart', at[q] = "commit", Publishing(q)' = "ready"
  PROVE  Clean(View(q)'.rows)
<1>1. /\ TypeOK /\ LoopFits(p) /\ LoopFits(q) /\ at[p] = "commit" /\ want[p] = NoWant
      /\ db' = View(p)
  BY DEF RaceInv, Commit
<1>2. todo[q] = {}
  BY <1>1 DEF LoopFits, WantsFit
<1>3. CASE Given(q) # {}
  <2>1. /\ View(q)'.rows = View(q).rows /\ Given(p) = {}
    BY <1>2, <1>3, SettledSeesItsOwn
  <2>2. mine[p].publication # "ready"
    BY <1>1, <2>1 DEF LoopFits, GivenFits, ReadyFits, Recording
  <2>3. db'.publication = "ready" => db.publication = "ready"
    BY <1>1, <2>2, ViewType
  <2>4. Publishing(q) = "ready"
    BY <2>3 DEF Publishing, SameLoop
  <2>5. Clean(View(q).rows)
    BY <1>1, <2>4 DEF LoopFits, ReadyFits
  <2>6. QED
    BY <2>1, <2>5
<1>4. CASE Given(q) = {}
  <2>1. want[q].writes.publication # "ready" /\ mine[q].publication # "ready"
        /\ DOMAIN mine[q].rows = {}
    BY <1>1, <1>4, BareWritesNothing DEF LoopFits, GivenFits, ReadyFits, Recording
  <2>2. db'.publication = "ready"
    BY <2>1 DEF Publishing, SameLoop
  <2>3. Clean(db'.rows)
    BY <2>2 DEF TablesFit
  <2>4. mine'[q] = mine[q] /\ mine[q] \in Writes /\ View(p) \in Table
    BY <1>1, ViewType DEF SameLoop, TypeOK
  <2>5. View(q)'.rows = db'.rows
    <3> DEFINE m == mine[q]
               t == View(p)
    <3>1. m \in Writes /\ t \in Table /\ DOMAIN m.rows = {}
      BY <2>1, <2>4
    <3>2. View(q)' = Over(m, t) /\ db' = t
      BY <1>1, <2>4 DEF View
    <3> HIDE DEF m, t
    <3>3. Over(m, t).rows \in [Listings -> ClassOrNone] /\ t.rows \in [Listings -> ClassOrNone]
      BY <3>1, OverTable DEF Table
    <3>4. \A l \in Listings : Over(m, t).rows[l] = t.rows[l]
      BY <3>1, OverTable
    <3>5. Over(m, t).rows = t.rows
      BY <3>3, <3>4
    <3>6. QED
      BY <3>2, <3>5
  <2>6. QED
    BY <2>3, <2>5
<1>5. QED
  BY <1>3, <1>4

LEMMA CommitKeeps ==
  ASSUME RaceInv, NEW p \in Loops, Commit(p)
  PROVE  RaceInv'
<1>1. TypeOK /\ TablesFit /\ LoopFits(p) /\ at[p] = "commit" /\ want[p] = NoWant
  BY DEF RaceInv, Commit
<1>2. End(p) /\ db' = View(p) /\ UNCHANGED <<market, apart>>
  BY DEF Commit, End
<1>3. View(p) \in Table
  BY <1>1, ViewType
<1>4. OthersSame(p) /\ LoopFits(p)' /\ TypeOK' /\ held'[p] = {} /\ Given(p)' = {}
  BY <1>1, <1>2, <1>3, EndFits
<1>5. LocksExclusive'
  BY <1>4 DEF RaceInv, LocksExclusive, OthersSame, SameLoop
<1>6. Met'
  <2>1. \A q \in Loops : Given(q)' \in {Given(q), {}}
    BY <1>4, SameGiven DEF OthersSame
  <2>2. QED
    BY <1>2, <2>1 DEF RaceInv, Met, Share
<1>7. TablesFit'
  <2>1. \A l \in Listings : View(p).rows[l] = "success" => l \in priced
    BY <1>1, ViewType DEF TablesFit, LoopFits, PricedOf
  <2>2. ~apart /\ View(p).publication = "ready" => Clean(View(p).rows)
    <3>1. Publishing(p) = View(p).publication
      BY <1>1, NoWritesType, ViewType DEF Publishing
    <3>2. QED
      BY <1>1, <3>1 DEF LoopFits, ReadyFits
  <2>3. QED
    BY <1>2, <2>1, <2>2 DEF TablesFit, market
<1>8. ASSUME NEW q \in Loops
      PROVE  LoopFits(q)'
  <2>1. CASE q = p
    BY <1>4, <2>1
  <2>2. CASE q # p
    <3>1. SameLoop(q) /\ LoopFits(q)
      BY <1>4, <2>2 DEF OthersSame, RaceInv
    <3>2. ~apart' /\ Settled(q) => View(q)'.rows = View(q).rows
      <4>1. Settled(q) => Given(q) # {} /\ at[q] # "counts" /\ todo[q] = {}
        BY <3>1 DEF Settled, LoopFits, GivenFits, Recording
      <4>2. QED
        BY <1>2, <2>2, <4>1, SettledSeesItsOwn
    <3>3. ~apart' /\ at[q] = "commit" /\ Publishing(q)' = "ready" => Clean(View(q)'.rows)
      BY <1>2, <1>7, <2>2, <3>1, OthersStayClean
    <3>4. QED
      BY <1>2, <3>1, <3>2, <3>3, SameLoopFits DEF market
  <2>3. QED
    BY <2>1, <2>2
<1>9. QED
  BY <1>4, <1>5, <1>6, <1>7, <1>8 DEF RaceInv

-----------------------------------------------------------------------------
(***************************************************************************)
(* The steps of other processes.                                           *)
(***************************************************************************)

\* A new price, or another universe.
LEMMA MarketKeeps ==
  ASSUME RaceInv, UNCHANGED <<db, local, apart>>, moves' \in Nat,
         supported' \in SUBSET Listings, priced' \in SUBSET Listings,
         priced \subseteq priced'
  PROVE  RaceInv'
<1>1. TypeOK'
  BY DEF RaceInv, TypeOK, local
<1>2. ASSUME NEW q \in Loops
      PROVE  SameLoop(q) /\ Given(q)' = Given(q)
  <2>1. SameLoop(q)
    BY DEF SameLoop, local
  <2>2. QED
    BY <2>1, SameGiven
<1>3. LocksExclusive' /\ Met'
  BY <1>2 DEF RaceInv, LocksExclusive, Met, local
<1>4. TablesFit'
  BY DEF RaceInv, TablesFit
<1>5. ASSUME NEW q \in Loops
      PROVE  LoopFits(q)'
  <2>1. SameLoop(q) /\ LoopFits(q)
    BY <1>2 DEF RaceInv
  <2>2. View(q)'.rows = View(q).rows /\ Publishing(q)' = Publishing(q)
    BY DEF View, Publishing, local
  <2>3. ~apart /\ at[q] = "commit" /\ Publishing(q) = "ready" => Clean(View(q).rows)
    BY <2>1 DEF LoopFits, ReadyFits
  <2>4. ~apart' /\ Settled(q) => View(q)'.rows = View(q).rows
    BY <2>2
  <2>5. ~apart' /\ at[q] = "commit" /\ Publishing(q)' = "ready" => Clean(View(q)'.rows)
    BY <2>2, <2>3
  <2>6. QED
    BY <2>1, <2>4, <2>5, SameLoopFits
<1>6. QED
  BY <1>1, <1>3, <1>4, <1>5 DEF RaceInv

-----------------------------------------------------------------------------
(***************************************************************************)
(* The theorems.                                                           *)
(***************************************************************************)

LEMMA InitRace == Init => RaceInv
<1> SUFFICES ASSUME Init PROVE RaceInv
  OBVIOUS
<1>1. NoRow \in ClassOrNone /\ NoRow \in Quality /\ NoRow \in Publication
  BY DEF ClassOrNone, Quality, Publication
<1>2. db \in Table /\ db.publication = NoRow /\ \A l \in Listings : db.rows[l] = NoRow
  BY <1>1, NewLoadType DEF Init, Table
<1>3. TypeOK
  BY <1>2, NoWritesType, NewLoadType DEF Init, TypeOK, Stages
<1>4. TablesFit
  BY <1>2 DEF TablesFit, NoRow
<1>5. ASSUME NEW p \in Loops
      PROVE  LoopFits(p) /\ Given(p) = {}
  <2>1. /\ at[p] = "off" /\ mine[p].rows = <<>> /\ mine[p].publication = NoRow
        /\ todo[p] = {} /\ held[p] = {}
        /\ want[p].writes.rows = <<>> /\ want[p].writes.publication = NoRow
        /\ \A l : want[p].row # OutcomeRow(l)
    BY NoWritesType, RowsDiffer DEF Init
  <2>2. Given(p) = {}
    BY <2>1 DEF Given
  <2>3. PricedOf(p) /\ HoldsAll(p)
    BY <2>1 DEF PricedOf, HoldsAll
  <2>4. GivenFits(p) /\ WantsFit(p) /\ StatusFits(p)
    BY <2>1, <2>2 DEF GivenFits, WantsFit, StatusFits, Recording
  <2>5. ReadyFits(p)
    BY <2>1 DEF ReadyFits, NoRow
  <2>6. QED
    BY <2>2, <2>3, <2>4, <2>5 DEF LoopFits
<1>6. LocksExclusive /\ Met
  <2>1. LocksExclusive
    BY DEF Init, LocksExclusive
  <2>2. Met
    BY <1>5 DEF Met, Share
  <2>3. QED
    BY <2>1, <2>2
<1>7. QED
  BY <1>3, <1>4, <1>5, <1>6 DEF RaceInv

LEMMA NextRace ==
  ASSUME RaceInv, [Next]_vars
  PROVE  RaceInv'
<1>1. ASSUME NEW l \in Listings, PersistPrice(l)
      PROVE  RaceInv'
  <2>1. /\ UNCHANGED <<moves, db, local, apart>> /\ supported' = supported
        /\ priced \subseteq priced'
    BY <1>1 DEF PersistPrice
  <2>2. supported' \in SUBSET Listings /\ priced' \in SUBSET Listings /\ moves' \in Nat
    BY <1>1 DEF PersistPrice, RaceInv, TypeOK
  <2>3. QED
    BY <2>1, <2>2, MarketKeeps
<1>2. ASSUME NEW selected \in SUBSET Listings, ChangeUniverse(selected)
      PROVE  RaceInv'
  <2>1. /\ UNCHANGED <<db, local, apart>> /\ supported' = selected /\ priced' = priced
        /\ moves' = moves + 1
    BY <1>2 DEF ChangeUniverse
  <2>2. supported' \in SUBSET Listings /\ priced' \in SUBSET Listings /\ moves' \in Nat
    BY <2>1 DEF RaceInv, TypeOK
  <2>3. QED
    BY <2>1, <2>2, MarketKeeps
<1>3. ASSUME NEW p \in Loops,
             \/ Start(p) \/ Open(p) \/ Refresh(p) \/ Validate(p) \/ Decide(p) \/ Commit(p)
             \/ \E l \in Listings : Record(p, l)
             \/ Write(p) \/ RejectDuplicate(p) \/ RejectCoverage(p)
             \/ BreakDeadlock(p) \/ Crash(p)
      PROVE  RaceInv'
  <2>1. CASE Start(p)
    BY <2>1, StartKeeps
  <2>2. CASE Open(p)
    BY <2>2, OpenKeeps
  <2>3. CASE Refresh(p)
    BY <2>3, RefreshKeeps
  <2>4. CASE Validate(p)
    BY <2>4, ValidateKeeps
  <2>5. CASE Decide(p)
    BY <2>5, DecideKeeps
  <2>6. CASE Commit(p)
    BY <2>6, CommitKeeps
  <2>7. CASE \E l \in Listings : Record(p, l)
    BY <2>7, RecordKeeps
  <2>8. CASE Write(p)
    BY <2>8, WriteKeeps
  <2>9. CASE RejectDuplicate(p) \/ RejectCoverage(p) \/ BreakDeadlock(p) \/ Crash(p)
    <3>1. End(p) /\ db' = db
      BY <2>9 DEF RejectDuplicate, RejectCoverage, BreakDeadlock, Crash
    <3>2. QED
      BY <3>1, DeathKeeps
  <2>10. QED
    BY <1>3, <2>1, <2>2, <2>3, <2>4, <2>5, <2>6, <2>7, <2>8, <2>9
<1>4. CASE UNCHANGED vars
  <2>1. /\ UNCHANGED <<moves, db, local, apart>>
        /\ supported' = supported /\ priced' = priced
    BY <1>4 DEF vars, market
  <2>2. supported' \in SUBSET Listings /\ priced' \in SUBSET Listings /\ moves' \in Nat
    BY <2>1 DEF RaceInv, TypeOK
  <2>3. QED
    BY <2>1, <2>2, MarketKeeps
<1>5. QED
  BY <1>1, <1>2, <1>3, <1>4 DEF Next

\* A ready publication is over rows that are there, of which none is a failure
\* and all have a price.
LEMMA CleanTables == RaceInv => ReadyMeansClean
<1> SUFFICES ASSUME RaceInv, ~apart, db.publication = "ready"
             PROVE  /\ RowsOf(db.rows) # {}
                    /\ RowsOf(db.rows) \subseteq priced
                    /\ Failed(db.rows) = {}
  BY DEF ReadyMeansClean, CommittedReadyIsClean
<1>1. RowsOf(db.rows) # {} /\ Failed(db.rows) = {}
  BY DEF RaceInv, TablesFit, Clean
<1>2. db.rows \in [Listings -> ClassOrNone]
  BY DEF RaceInv, TypeOK, Table
<1>3. \A l \in RowsOf(db.rows) : l \in Listings /\ db.rows[l] = "success"
  BY <1>1, <1>2 DEF RowsOf, Failed, ClassOrNone, Class
<1>4. RowsOf(db.rows) \subseteq priced
  BY <1>3 DEF RaceInv, TablesFit
<1>5. QED
  BY <1>1, <1>4

\* Whichever loops wrote them, wherever others commit, wait, fail or die in
\* between, and however the universe moves: an exchange is committed as ready
\* only over outcome rows none of which is a failure and all of which have a
\* price, unless two loops overlapped that were given no listing in common
\* (jobs/opening_runtime_trust_loop.py has no lock that would exclude it).
THEOREM ReadyIsAlwaysClean == Spec => []ReadyMeansClean
<1>1. RaceInv /\ [Next]_vars => RaceInv'
  BY NextRace
<1>2. QED
  BY <1>1, InitRace, CleanTables, PTL DEF Spec

==============================================================================
