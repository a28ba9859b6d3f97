SPECIFICATION Spec
CONSTANTS
  NumReqs = 3
  Kinds <- Mixed
  Names = {a, b}
  Types = {"java", "steam"}
  MaxPort = 3
  MaxCrashes = 1
  MaxTries = 2
SYMMETRY Symmetry
CONSTRAINT OneConcern
INVARIANT TypeOK
INVARIANT SeenIsNotRepeated
INVARIANT RowsHaveDirectories
INVARIANT ProcessesHaveRows
INVARIANT FailedCreationIsMarked
\* When every request has ended and no server has an executable, nothing is left.
CHECK_DEADLOCK FALSE
