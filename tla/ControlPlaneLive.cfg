SPECIFICATION PlaneSpec
CONSTANTS
  Request = {disable, reload}
  RecoveryRequest = {disable}
  NoRequest = NoRequest
  Incarnations = 1
  MAX_CONTROL_PENDING = 2
  MAX_CONTROL_RECORDS = 2
  MAX_TICKET = 4
  Cli = {c1}
  Plugin = {p1}
  None = None
  Disable = disable
  Reload = reload
INVARIANTS PlaneSound
PROPERTIES CommandsSettle
CHECK_DEADLOCK FALSE
