SPECIFICATION MCSpec
CONSTANTS
  Owner = {a, b}
  Runner = {m1, m2}
  Task = {n1, n2}
  Claim = {k1, k2}
  OperationKey = {x}
  Input = {i}
  Caller = {c1, c2}
  None = None
  MAX_RUNNING = 2
  OWNER_RUNNERS = 1
  OWNER_TASKS = 2
  MAX_RUNNERS = 2
  MAX_TASKS = 2
  Windows = {m1, m2}
  Sources = {"s1", "s2"}
  Keys = {k1, k2}
  Refs = {n1, n2}
  Origins = {c1, c2}
  MAX_KEYS = 1
  MAX_CHANGES = 2
  MAX_CREDENTIALS = 2
  MaxRevision = 3
  Releases = {"v1", "v2"}
  Legacy = {"v1"}
  PermissionsOf <- MCPermissionsOf
  MaxInstalls = 2
  MaxKills = 3
  MaxUserEdits = 2
  MaxCombined = 2
  MaxNative = 1
  SETTLED = 2
  Plugins = {"x", "y"}
  Paths = {"home", "a", "a/b", "core"}
  Within <- MCWithin
  Guarded = {"core"}
  MaxMoves = 2
  MaxEdits = 1
SYMMETRY MCSymmetry
INVARIANTS ServicesSound SeedSound  RemovalSound
PROPERTIES TasksSound
CHECK_DEADLOCK FALSE
