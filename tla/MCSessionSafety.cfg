\* Two streams contend for the claim of a device with two configurations.
SPECIFICATION Spec
CONSTANTS
  Streams = {s1, s2}
  Configs = {c1, c2}
  Dev = Dev
  Unknown = Unknown
SYMMETRY Symmetry
INVARIANTS
  TypeOK
  LeaseConserved
  ClaimConserved
  ShutdownAlone
  FlagMirrorsHardware
  QuietWhenStopped
  RunningStreamIsFed
  SnapshotIsProgrammed
  ClosedIsDown
