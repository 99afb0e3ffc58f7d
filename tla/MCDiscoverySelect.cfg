SPECIFICATION Spec
CONSTANTS
  Openers = {o1}
  Devices <- MCDevices
  Traits <- MCTraits
  Calls <- MCCalls
  Hf = {o1}
  None = None
  WebUsb = TRUE
  MaxCalls = 2
  MaxPlugs = 2
INVARIANTS
  SelectedAsAsked
  DescriptorTrue
CHECK_DEADLOCK FALSE
