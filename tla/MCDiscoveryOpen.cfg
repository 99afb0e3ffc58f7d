SPECIFICATION Spec
CONSTANTS
  Openers = {o1, o2}
  Devices <- MCRivals
  Traits <- MCTraits
  Calls = {}
  Hf = {o1}
  None = None
  WebUsb = FALSE
  MaxCalls = 0
  MaxPlugs = 2
INVARIANTS
  Ownership
  PoweredIsOwned
PROPERTY KindTellsCause
CHECK_DEADLOCK FALSE
