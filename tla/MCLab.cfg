SPECIFICATION MCSpec
CONSTANTS
  MaxRuns = 2
  MaxLabEdits = 1
  Offered <- MCOffered
  N = 4
  Graph <- MCGraph
  Pages = {"t1", "t2"}
  MaxSess = 2
  MaxWebMoves = 2
  EventCapacity = 1
INVARIANTS  OrderSound StopsForACycle TargetsSound
CHECK_DEADLOCK FALSE
