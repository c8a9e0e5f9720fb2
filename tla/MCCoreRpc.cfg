SPECIFICATION CoreSpec
CONSTANTS
  Provider <- MCProvider
  Descriptor <- MCDescriptor
  Key <- MCDescriptor
  KeyOf <- MCKeyOf
  RuntimeKey = {"ping", "task"}
  Target = {t}
  Runtime = Runtime
  None = None
  MaxGeneration = 1
  MaxEpoch = 6
  Plugin <- MCPlugin
  HostEntry <- MCHostEntry
  RendererEntry <- MCRendererEntry
  Builtin = "codlet"
  BuiltinProvides = {"ping"}
  Session = {m1, w1}
  ManagedSession = {m1}
  TargetOf <- MCTargetOf
  Manifests <- MCManifests
  MaxDocument = 2
  MaxContext = 1
  MaxId = 2
  MaxRoutes = 1
  MaxDepth = 2
  MaxEvents = 1
  MaxNavigations = 1
  MAX_HANDLES = 1
  MAX_RAW_SESSIONS = 1
  MAX_TARGETS = 1
  MAX_RENDERER_INVOCATIONS = 1
  MAX_ENTRY_IDENTITIES = 4
PROPERTIES ManagedRpcSound
CHECK_DEADLOCK FALSE
