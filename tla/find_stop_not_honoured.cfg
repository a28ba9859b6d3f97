SPECIFICATION HSpec
CONSTANTS
  c1 = c1
  Callers <- OneCaller
  Ops <- WebOps
  MaxLaunch = 2
  MaxReboots = 0
  MaxRestarts = 1
  AutoRestart = TRUE
  Readiness <- Pattern
  ConsoleStop = FALSE
PROPERTY StopIsHonoured
\* Without callers left to ask, or at the bounds, the system may stop.
CHECK_DEADLOCK FALSE
