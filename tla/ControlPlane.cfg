SPECIFICATION PlaneSafety
CONSTANTS
  Request = {disable, reload}
  RecoveryRequest = {disable}
  NoRequest = NoRequest
  Incarnations = 2
  MAX_CONTROL_PENDING = 1
  MAX_CONTROL_RECORDS = 2
  MAX_TICKET = 2
  Cli = {c1, c2}
  Plugin = {}
  None = None
  Disable = disable
  Reload = reload
SYMMETRY ClientSymmetry
INVARIANTS PlaneSound
CHECK_DEADLOCK FALSE
