SPECIFICATION CoreSpec
CONSTANTS
  Provider <- MCProvider
  Descriptor <- MCDescriptor
  Key <- MCDescriptor
  KeyOf <- MCKeyOf
  RuntimeKey = {"ping", "task"}
  Target = {t}
  Runtime = Runtime
  None = None
  MaxGeneration = 2
  MaxEpoch = 6
  Plugin <- MCPlugin
  HostEntry <- MCHostEntry
  RendererEntry <- MCRendererEntry
  Builtin = "codlet"
  BuiltinProvides = {"ping"}
  Session = {w1}
  ManagedSession = {}
  TargetOf <- MCTargetOf
  Manifests <- MCCallManifests
  MaxDocument = 1
  MaxContext = 1
  MaxId = 2
  MaxRoutes = 2
  MaxDepth = 2
  MaxEvents = 0
  MaxNavigations = 0
  MAX_HANDLES = 1
  MAX_RAW_SESSIONS = 1
  MAX_TARGETS = 1
  MAX_RENDERER_INVOCATIONS = 1
  MAX_ENTRY_IDENTITIES = 4
PROPERTIES ManagedRpcSound
CHECK_DEADLOCK FALSE
