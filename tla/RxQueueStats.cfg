\* The counters against rx/mod.rs:31.
SPECIFICATION Spec
CONSTANTS
  TransferCount = 2
  MaxSamples = 2
  StatsBound = 3
  Modes = {"raw", "f32"}
INVARIANT DroppedNotDelivered
