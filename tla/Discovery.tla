------------------------------ MODULE Discovery ------------------------------
\* What is to be loaded and when: the universe loader, the activity priority of
\* exchanges, the trading calendars and the load jobs.  The four share no state (the
\* calendar's answer is a constant of the priority), so the last three are instances
\* with variables of their own.
EXTENDS UniverseLoader

CONSTANTS
  Codes, TradingDays, Turnovers, TrailingDays, Commands, LastDay,   \* of the activity priority
  FirstYear, FirstWeekday, LastYear,                                \* of the calendars' walk
  Keys, MaxJobs                                                     \* of the load jobs

VARIABLES prices, day, priority, command, date, jobs

Priority == INSTANCE ExchangePriority
              WITH Exchanges <- Codes, Expected <- TradingDays, MaxDay <- LastDay, today <- day
Calendar == INSTANCE TradingCalendar
Jobs     == INSTANCE LoadJobLifecycle

\* The properties of the instances, stated in their modules: the listing on the more
\* active exchange wins; a date is closed when the civil calendar says so; the index of
\* load_jobs admits every transition the table allows.
ActiveExchangeWins == Priority!ActiveExchangeWins
ClosedWhenDefined  == Calendar!ClosedWhenDefined
AllowedFitsIndex   == Jobs!AllowedFitsIndex
===============================================================================
