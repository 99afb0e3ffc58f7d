\* Two kinds of stream, a pool of three buffers of up to three samples.
SPECIFICATION Spec
CONSTANTS
  TransferCount = 3
  MaxSamples = 3
  StatsBound = 2
  Modes = {"raw", "f32"}
INVARIANTS
  BuffersConserved
  DiscardIsOldPrefix
  NoStaleDelivery
  OffsetInCurrent
  CompletionsCounted
PROPERTY StatsStepwise
