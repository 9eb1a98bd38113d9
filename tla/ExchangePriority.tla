--------------------------- MODULE ExchangePriority ---------------------------
\* The exchange activity priority: each exchange is ranked by the average traded
\* value of its last trading days, for the ranking of listings of one entity.
\* Commands that recompute it may overlap with one another and with the jobs that
\* store historical prices.
EXTENDS Naturals, FiniteSets

CONSTANTS
  Exchanges,      \* codes; numbers stand for them in their order
  Expected,       \* exchange -> the days its calendar expects it to trade
  Turnovers,      \* what the closes of an exchange and day may sum up to
  TrailingDays,   \* how many days are averaged
  Commands,       \* recomputing commands that may overlap
  MaxDay          \* bound on the days

Parameters ==
  /\ Exchanges \subseteq Nat /\ IsFiniteSet(Exchanges) /\ Exchanges # {}
  /\ {TrailingDays, MaxDay} \subseteq Nat \ {0}
  /\ Expected \in [Exchanges -> SUBSET (1..MaxDay)]
  /\ Turnovers \subseteq Nat

VARIABLES
  prices,    \* exchange -> day -> the sum of its historical closes, or NoPrice
  today,
  priority,  \* exchange -> [rank, score], the score in thousandths
  command    \* command -> its session
vars == <<prices, today, priority, command>>

NoPrice  == 0
Unranked == 9999
Idle     == [at |-> "idle"]
Days     == 1..MaxDay

Init ==
  /\ prices = [x \in Exchanges |-> [d \in Days |-> NoPrice]]
  /\ today = 1
  /\ priority = [x \in Exchanges |-> [rank |-> Unranked, score |-> 0]]
  /\ command = [c \in Commands |-> Idle]

\* ------------------------------------------------------------ the trailing average

\* A faulty variant: prices of days the calendar has closed count too.
PricedDays_AnyDay(x) == {d \in Days : prices[x][d] # NoPrice}

\* The days of an exchange that have a close and are expected trading days.
PricedDays(x) == {d \in Days : prices[x][d] # NoPrice} \cap Expected[x]

LastOf(days) == {d \in days : Cardinality({e \in days : e > d}) < TrailingDays}

SumOver(x, days) ==
  LET total[d \in 0..MaxDay] ==
        IF d = 0 THEN 0 ELSE total[d - 1] + (IF d \in days THEN prices[x][d] ELSE 0)
  IN total[MaxDay]

\* Exact quotients are compared; without a day the average is 0.
Average(x, days) == [sum |-> SumOver(x, days), over |-> IF days = {} THEN 1 ELSE Cardinality(days)]
TrailingAverage(x) == Average(x, LastOf(PricedDays(x)))
Above(a, b) == a.sum * b.over > b.sum * a.over

\* Sorted by average, the larger first, and by code.
RankOf(x, avg) ==
  1 + Cardinality({y \in Exchanges :
        Above(avg[y], avg[x]) \/ (~Above(avg[x], avg[y]) /\ y < x)})

Best(avg) == CHOOSE x \in Exchanges : \A y \in Exchanges : ~Above(avg[y], avg[x])

ScoreOf(x, avg) ==
  LET base == avg[Best(avg)]
  IN IF base.sum = 0 THEN 0
     ELSE (1000 * avg[x].sum * base.over) \div (avg[x].over * base.sum)

\* --------------------------------------------------------------------- a command

Begin(c) ==
  /\ command[c] = Idle
  /\ command' = [command EXCEPT ![c] =
                   [at |-> "averaging", read |-> priority, left |-> Exchanges,
                    avg |-> [x \in Exchanges |-> [sum |-> 0, over |-> 1]]]]
  /\ UNCHANGED <<prices, today, priority>>

\* The next exchange's average, by statements of its own.
Measure(c) ==
  /\ command[c].at = "averaging" /\ command[c].left # {}
  /\ LET x == CHOOSE y \in command[c].left : \A z \in command[c].left : y <= z
     IN command' = [command EXCEPT ![c].left = @ \ {x}, ![c].avg[x] = TrailingAverage(x)]
  /\ UNCHANGED <<prices, today, priority>>

\* A column is written only when its value is not the one that was read.
Written(now, read, new) == IF new = read THEN now ELSE new

Commit(c) ==
  /\ command[c].at = "averaging" /\ command[c].left = {}
  /\ LET s == command[c]
     IN priority' = [x \in Exchanges |->
          [rank  |-> Written(priority[x].rank, s.read[x].rank, RankOf(x, s.avg)),
           score |-> Written(priority[x].score, s.read[x].score, ScoreOf(x, s.avg))]]
  /\ command' = [command EXCEPT ![c] = Idle]
  /\ UNCHANGED <<prices, today>>

Fail(c) ==
  /\ command[c] # Idle
  /\ command' = [command EXCEPT ![c] = Idle]
  /\ UNCHANGED <<prices, today, priority>>

\* ------------------------------------------------------------------ the prices

StorePrices(x, d, sum) ==
  /\ d <= today
  /\ prices' = [prices EXCEPT ![x][d] = sum]
  /\ UNCHANGED <<today, priority, command>>

NewDay ==
  /\ today < MaxDay
  /\ today' = today + 1
  /\ UNCHANGED <<prices, priority, command>>

Next ==
  \/ \E c \in Commands : Begin(c) \/ Measure(c) \/ Commit(c) \/ Fail(c)
  \/ \E x \in Exchanges, d \in Days, sum \in Turnovers : StorePrices(x, d, sum)
  \/ NewDay

Spec == Init /\ [][Next]_vars

-------------------------------------------------------------------------------
\* The ranking of the listings of one entity, which takes the rank of its exchange.
Listing == [home : BOOLEAN, turnover : {1, 2}, exchange : Exchanges, id : 1..2]

Before(a, b) ==
  IF a.home # b.home THEN a.home
  ELSE IF a.turnover # b.turnover THEN a.turnover > b.turnover
  ELSE IF priority[a.exchange].rank # priority[b.exchange].rank
       THEN priority[a.exchange].rank < priority[b.exchange].rank
  ELSE a.id < b.id

\* A command that measured the prices as they are, and read the priorities as they are,
\* makes the listing on the more active exchange win, of two that are otherwise alike,
\* whichever was created first: activity is the average over the last expected trading
\* days, prices of closed days left out, and only the columns that changed are written.
\* Where another command committed in between, a column left alone may keep its rank.
ActiveExchangeWins ==
  [][\A c \in Commands : Commit(c) /\ command[c].read = priority
       /\ (\A x \in Exchanges : command[c].avg[x] = Average(x, LastOf(PricedDays(x))))
       => LET activity(x) == Average(x, LastOf({d \in Expected[x] : prices[x][d] # NoPrice}))
          IN \A x, y \in Exchanges : Above(activity(x), activity(y)) =>
               \A a, b \in Listing :
                 /\ a.exchange = x /\ b.exchange = y
                 /\ a.home = b.home /\ a.turnover = b.turnover
                 => Before(a, b)']_vars
===============================================================================
