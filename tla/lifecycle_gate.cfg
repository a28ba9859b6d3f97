SPECIFICATION Spec
CONSTANTS
  c1 = c1
  c2 = c2
  Callers <- OneCaller
  Ops <- Everything
  MaxLaunch = 2
  MaxReboots = 1
  MaxRestarts = 1
  AutoRestart = TRUE
  Readiness <- ReadyModes
  ConsoleStop = TRUE
INVARIANT TypeOK
INVARIANT StartSection
PROPERTY OnlyStaleForgetsLive
PROPERTY GateSpec
\* Without callers left to ask, or at the bounds, the system may stop.
CHECK_DEADLOCK FALSE
