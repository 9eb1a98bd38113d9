------------------------- MODULE ExchangePublication -------------------------
(***************************************************************************)
(* What the opening load promises its readers, apart from how it keeps the *)
(* promise: a table of publication statuses that changes in atomic batches *)
(* of loads, never shows a load as ready unless every instrument that was  *)
(* counted for it has a price, and never takes back a closed day.          *)
(*                                                                         *)
(* The trust loop (OpeningTrustLoop) is shown to implement it.             *)
(***************************************************************************)
CONSTANTS
  Loads,     \* the exchange/day loads
  Prices,    \* the price records there can be
  LoadOf     \* price record -> the load that counts it

NoRow == "no_row"
PublicationStatus == {"ready", "blocked", "failed", "market_closed"}

VARIABLES
  publication,  \* load -> its publication status, or NoRow
  counted,      \* load -> the prices it was counted to need
  priced        \* the price records there are

vars == <<publication, counted, priced>>

Init ==
  /\ publication = [x \in Loads |-> NoRow]
  /\ counted = [x \in Loads |-> {}]
  /\ priced = {}

\* A price is recorded; none is ever removed.
RecordPrice(p) ==
  /\ priced' = priced \cup {p}
  /\ UNCHANGED <<publication, counted>>

\* The decision about load x is sound: the prices counted are its own, there
\* is at least one and none is missing if it becomes ready, and a load is
\* closed from its first decision on, or never.
SoundDecision(x) ==
  /\ publication'[x] \in PublicationStatus
  /\ counted'[x] \subseteq {p \in Prices : LoadOf[p] = x}
  /\ publication'[x] = "ready" => counted'[x] # {} /\ counted'[x] \subseteq priced
  /\ publication[x] = "market_closed" => publication'[x] = "market_closed"
  /\ publication'[x] = "market_closed" => publication[x] \in {NoRow, "market_closed"}

\* A batch of loads is decided at once; the others stay as they are.
Publish(batch) ==
  /\ publication' \in [Loads -> PublicationStatus \cup {NoRow}]
  /\ counted' \in [Loads -> SUBSET Prices]
  /\ \A x \in batch : SoundDecision(x)
  /\ \A x \in Loads \ batch : publication'[x] = publication[x] /\ counted'[x] = counted[x]
  /\ UNCHANGED priced

Next ==
  \/ \E p \in Prices : RecordPrice(p)
  \/ \E batch \in SUBSET Loads : Publish(batch)

Spec == Init /\ [][Next]_vars
=============================================================================
