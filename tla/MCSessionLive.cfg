\* No symmetry: it is unsound for liveness.
SPECIFICATION FairSpec
CONSTANTS
  Streams = {s1, s2}
  Configs = {c1}
  Dev = Dev
  Unknown = Unknown
PROPERTIES
  OperationsEnd
  LastOwnerFrees
