SPECIFICATION Spec
CONSTANTS
  XTAL_HZ = 28800
  IF_HZ = 3570
  VCO_MAX = 1770000
  FREQUENCIES <- MCFrequencies
  RATES <- MCRates
  PPM_MAX = 4
  MILLION = 10000
  FRACTION = 512
  NCO = 65536
  RATIO_WORD = 4194304
  PPM_ONE = 16777216
  PPM_WORD = 16384
  CALIBRATION = 56000
  GAIN_MAX = 525
  Requests <- MCRequests
INVARIANTS
  ReportedIsProgrammed
  FrequencyClose
  DemodulatorWords
  GainClose
  PlanExists
CHECK_DEADLOCK FALSE
