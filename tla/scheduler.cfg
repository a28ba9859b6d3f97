SPECIFICATION Spec
CONSTANTS
  MaxTasks = 4
  NumReqs = 3
  NumRuns = 2
  MaxBoots = 2
  Kinds <- Mixed
  Created = {"other", "upOther", "start", "stop", "restart"}
  Chosen = {"none", "plain"}
  Runnable = TRUE
CONSTRAINT OneConcern
INVARIANT JobsMatchRows
INVARIANT UptimeFromLatestSync
 
\* When the manager is down for the last time nothing is left.
CHECK_DEADLOCK FALSE
