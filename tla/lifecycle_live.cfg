SPECIFICATION LSpec
CONSTANTS
  c1 = c1
  c2 = c2
  Callers <- TwoCallers
  Ops <- Everything
  MaxLaunch = 2
  MaxReboots = 0
  MaxRestarts = 1
  AutoRestart = TRUE
  Readiness <- Pattern
  ConsoleStop = TRUE
  MaxCalls = 2
PROPERTY EveryTaskEnds
PROPERTY StoppingIsTransient
\* Without callers left to ask, or at the bounds, the system may stop.
CHECK_DEADLOCK FALSE
