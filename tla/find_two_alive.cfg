SPECIFICATION Spec
CONSTANTS
  c1 = c1
  c2 = c2
  Callers <- TwoCallers
  Ops <- StartStop
  MaxLaunch = 3
  MaxReboots = 0
  MaxRestarts = 1
  AutoRestart = FALSE
  Readiness <- Pattern
  ConsoleStop = FALSE
SYMMETRY CallerSymmetry
INVARIANT AtMostOneAlive
\* Without callers left to ask, or at the bounds, the system may stop.
CHECK_DEADLOCK FALSE
