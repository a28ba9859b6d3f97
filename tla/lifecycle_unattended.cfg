SPECIFICATION HSpec
CONSTANTS
  c1 = c1
  Callers <- OneCaller
  Ops <- WebStart
  MaxLaunch = 3
  MaxReboots = 0
  MaxRestarts = 1
  AutoRestart = TRUE
  Readiness <- Immediate
  ConsoleStop = TRUE
INVARIANT CrashLoopBounded
INVARIANT AtMostOneAlive
\* Without callers left to ask, or at the bounds, the system may stop.
CHECK_DEADLOCK FALSE
