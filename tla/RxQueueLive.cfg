\* Without counters, so that behaviours need not end.
SPECIFICATION FairSpec
CONSTANTS
  TransferCount = 3
  MaxSamples = 3
  StatsBound = 0
  Modes = {"raw", "f32"}
PROPERTY ReadAnswered
