SPECIFICATION FairSpec
CONSTANTS
  NumOps = 3
  MaxCodes = 2
  Kinds <- TwoAndAStart
INVARIANT TypeOK
INVARIANT SteamSection
INVARIANT StartUpdatesOfflineServer
INVARIANT ActiveSnapshotHasOwner
PROPERTY OnlyOutsidersHideTheRunning
PROPERTY EveryOperationEnds
\* When every operation has ended and the server is stopped, nothing is left to do.
CHECK_DEADLOCK FALSE
