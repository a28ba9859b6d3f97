SPECIFICATION Spec
CONSTANTS
  Projects = {"a", "b", "c"}
  Supports <- Supporting
  Requires <- Chain
  Moving = {"b"}
  MaxVersion = 2
  Pack = {"a", "c"}
  Overrides = {"b"}
  AtStart = {"b"}
  NumOps = 3
  Kinds <- Mixed
  MaxCrashes = 1
INVARIANT FilesMatchRows
INVARIANT RequiredModsAreThere
INVARIANT ConflictsOfPresentMods
INVARIANT NewestIsSupported
\* When every operation has ended and nothing can be published, nothing is left.
CHECK_DEADLOCK FALSE
