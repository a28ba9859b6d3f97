SPECIFICATION Spec
CONSTANTS
  Files = {"world"}
  ConfigFiles = {}
  WorldFiles = {"world"}
  MaxBackups = 1
  NumOps = 3
  MaxWrites = 2
  MaxSeconds = 1
  MaxReboots = 1
  Kinds <- ThenAny
INVARIANT TypeOK
INVARIANT RowsHaveArchives
INVARIANT ArchivesHaveOwners
INVARIANT RowsBounded
INVARIANT SkippedIsArchived
PROPERTY StoreSpec
