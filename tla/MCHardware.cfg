CONSTANTS
  Boards <- MCBoards
  Configs <- MCConfigs
  Replies <- MCReplies
  MaxFaults = 2
  MaxFailures = 1
SPECIFICATION Spec
INVARIANTS
  ShadowMirrorsChip
  SettingsHeld
  TunerRestsWhenDirect
  AntennaFollowsFrequency
  GateClosedOnReturn
  PartsOffUnlessFailed
