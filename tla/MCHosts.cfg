SPECIFICATION HostsSpec
CONSTANTS
  QUEUE_FRAMES = 1
  MAX_HOST_PENDING_REQUESTS = 2
  MaxId = 1
  MaxFrames = 1
  HostPlugin = {p}
  MaxGeneration = 2
  MaxOperations = 2
  COMMAND_QUEUE = 2
  MAX_OPERATIONS = 2
  MAX_HOSTS = 2
  MAX_RETIRED = 0
  Packages = {"a", "b"}
  DependsOn <- MCDependsOn
  HasHost = {"a", "b"}
  HasPage = {"b"}
  Native = {"a"}
  MaxGen = 3
  MaxSource = 2
  MaxReceipts = 3
  MaxRegEdits = 1
  Sources <- MCSources
  Uses <- MCUses
  Hosted = {"a"}
  Broken = {2}
  MaxContent = 2
  MaxSaves = 2
  MaxRefusals = 1
  MaxTurns = 1
  MAX_SOURCES_PER_POLL = 1
  Owner = {a, b}
  Topic = {t1, t2}
  Subscription = {s1, s2}
  Capability = {x}
  Caller = {c1}
  None = None
  MaxSequence = 3
  Size = {1, 2}
  MAX_EVENTS = 2
  MAX_BYTES = 3
  MAX_PAGE = 1
  MAX_TOPICS = 1
  OWNER_TOPICS = 1
  MAX_SUBSCRIPTIONS = 2
  OWNER_SUBSCRIPTIONS = 1
  Ids = {"a", "b"}
  Gui = "a"
  Dirs = {"x", "y"}
  Procs = {"cli", "run"}
  MaxCommits = 2
  MaxDirEdits = 1
  MaxStages = 2
SYMMETRY HostsSymmetry
INVARIANTS SupervisorSound HostsSound PackagesSound WatchSound EventsSound
PROPERTIES  RegistryKept
CHECK_DEADLOCK FALSE
