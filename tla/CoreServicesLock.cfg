SPECIFICATION SvcSpec
CONSTANTS
    Calls = {1}
    Methods = {"write"}
    Rendered = {}
    MaxGen = 1
    MaxEvents = 1
    WORKERS = 1
    MAX_QUEUE = 1
    MAX_PENDING = 1
    MAX_COMMANDS = 1
INVARIANTS
    RevocationCompletes
CHECK_DEADLOCK FALSE
