SPECIFICATION MCSpec
CONSTANTS
  Request = {disable, reload}
  RecoveryRequest = {disable}
  NoRequest = NoRequest
  Incarnations = 2
  MAX_CONTROL_PENDING = 2
  MAX_CONTROL_RECORDS = 2
  MAX_TICKET = 3
  MaxTxn = 2
  MaxTrouble = 1
  MaxCrashes = 2
  Ids = {"a"}
  Perms = {"p"}
  MaxVersion = 3
  Asks <- MCAsks
  Contract <- MCContract
  MaxBatches = 1
  MaxEdits = 1
  MaxChecks = 1
  MaxPublished = 1
  Owners = {"o"}
  Exchanges = {1}
  MaxKeys = 2
  MaxOps = 2
  MAX_LEASES = 2
  Callers = {c1, c2}
  OperationKeys = {"k"}
  Params = {"x", "y"}
  Data = {"a", "b"}
  MaxProcesses = 2
  MaxSequence = 1
  MaxCalls = 3
  MAX_ENTRIES = 1
SYMMETRY CallerSymmetry
INVARIANTS BrokerSound InstallSound  TrafficSound ProcessesSound
PROPERTIES JobOrder InstallSettles ResultsUnderLease
CHECK_DEADLOCK FALSE
