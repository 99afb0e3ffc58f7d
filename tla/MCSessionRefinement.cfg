\* No symmetry: Owner chooses a stream.
SPECIFICATION Spec
CONSTANTS
  Streams = {s1, s2}
  Configs = {c1, c2}
  Dev = Dev
  Unknown = Unknown
  Nobody = Nobody
  Reserved = Reserved
PROPERTY ImplementsLifecycle
