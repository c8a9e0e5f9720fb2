SPECIFICATION MCSpec
CONSTANTS
  Provider = {m1, m2}
  Descriptor <- MCDescriptor
  Key <- MCKey
  KeyOf <- MCKeyOf
  RuntimeKey = {"ping"}
  Target = {t}
  Runtime = Runtime
  None = None
  MaxGeneration = 1
  MaxEpoch = 3
  MaxLeases = 1
  Calls = {1, 2}
  Methods = {"runner", "watch", "dialog", "write", "shortcut", "profile", "fetch"}
  Rendered = {"runner", "dialog"}
  MaxGen = 2
  MaxEvents = 1
  WORKERS = 2
  MAX_QUEUE = 1
  MAX_PENDING = 2
  MAX_COMMANDS = 1
  Launchers = {m1, m2}
  Shared = FALSE
  MaxPackage = 3
  MaxStarts = 1
  Targets <- MCTargets
  Order <- MCOrder
  Requires <- MCRequires
  WorldLimit = 10
  MaxDoc = 2
  MaxSessions = 2
  MaxOps = 1
  MaxFaults = 1
  MaxMoves = 1
  MAX_RAW_QUEUED_WRITES = 1
  MaxRequests = 1
  Closers = {m1, m2}
  PayloadFile <- MCFiles
  FileOrder <- MCFileOrder
  MaxJobs = 1
  MaxRuns = 2
  MaxQueue = 1
  Cores = {"p", "q"}
  Digests = {"x", "y"}
  Candidates <- MCCandidates
  BundledIn = {}
  DirIds = {m1, m2}
  MaxDeaths = 1
  ATTEMPTS = 1
SYMMETRY MCSymmetry
INVARIANTS LeasesSound  LaunchSound  ConnectionSound RuntimeUpdateSound ProvisionSound
PROPERTIES StaleForever WritesUnderOwner
CHECK_DEADLOCK FALSE
