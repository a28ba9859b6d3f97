SPECIFICATION Spec
CONSTANTS
  NumReqs = 3
  Kinds <- Mixed
  MaxBuild = 2
  MaxCrashes = 1
  Exes = {"server.jar", "other"}
  Loaders = {"direct", "installer", "bedrock"}
INVARIANT TypeOK
INVARIANT JarIsWhole
INVARIANT BroughtBack
INVARIANT EachBuildOnce
PROPERTY OnlyLateStartsLoseTheirJar
\* When every request has ended and the server is stopped without its executable, nothing is left.
CHECK_DEADLOCK FALSE
