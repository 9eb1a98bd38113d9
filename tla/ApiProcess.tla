----------------------------- MODULE ApiProcess -----------------------------
\* The API process: the app's reads beside committing trust loops, the requests that
\* set the launch scope, and the operator's health report beside the daemon.  The three
\* share no state, so the last two are instances with variables of their own.
EXTENDS AppReadPath

CONSTANTS
  Threads, CodesOf, Requests, MaxErrors,                     \* of the scope requests
  Poll, WorkerStale, SchedulerStale, QueueStale, TickTime,   \* of the health report
  MaxTime, MaxPending, MaxFaults, MaxRequests

VARIABLES
  active, thread, errors, due, asked,
  now, up, daemon, steady, beats, pending, checking, report, count, gauges

Api    == INSTANCE ApiRequests WITH counted <- due
Health == INSTANCE PlatformHealth WITH request <- checking

\* The properties of the instances, stated in their modules: the scope changes by
\* admins' requests alone and undisturbed ones are echoed; a dead daemon is reported and
\* a live one raises no alarm.
OnlyAdminsChangeScope == Api!OnlyAdminsChangeScope
UndisturbedIsEchoed   == Api!UndisturbedIsEchoed
DeadDaemonReported    == Health!DeadDaemonReported
LiveDaemonIsNoAlarm   == Health!LiveDaemonIsNoAlarm
===============================================================================
