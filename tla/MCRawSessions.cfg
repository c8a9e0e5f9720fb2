SPECIFICATION RawSpec
CONSTANTS
  Provider = {"codlet", "host:a"}
  Descriptor = {}
  Key = {}
  KeyOf <- MCKeyOf
  RuntimeKey = {}
  Target = {t}
  Runtime = "runtime"
  None = None
  MaxGeneration = 1
  MaxEpoch = 2
  Plugin = {"a"}
  HostEntry <- MCEntry
  RendererEntry <- MCEntry
  Builtin = "codlet"
  BuiltinProvides = {}
  Session = {1, 2}
  TargetOf <- MCTargetOf
  MaxDocument = 1
  MaxContext = 1
  MaxId = 1
  MaxRoutes = 1
  MaxDepth = 1
  MAX_HANDLES = 1
  MAX_RAW_SESSIONS = 2
  MAX_TARGETS = 1
  MAX_RENDERER_INVOCATIONS = 1
  MAX_ENTRY_IDENTITIES = 4
  Request = {1, 2, 3}
  This <- MCOwner
  MAX_PENDING = 2
INVARIANTS RawSound
PROPERTIES RetirementEnds
CHECK_DEADLOCK FALSE
