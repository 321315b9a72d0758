SPECIFICATION FairSpec
CONSTANTS
  None = None
  r1 = r1
  r2 = r2
  r3 = r3
  s1 = s1
  s2 = s2
  Requests = {r1, r2, r3}
  Sessions = {s1, s2}
  Workloads <- MCWorkloads
  Limit = 1
  AgentTools = {"read", "write", "mcp"}
  SessionKinds = {"read", "write", "shell", "mcp"}
INVARIANT OneTurn TurnsOnOpenHandle ContextIsTurn TurnGetsItsOwn OneHandle SlotsAreShared CreatedStaysOnRecord ClientOfThisLife
PROPERTY EveryRequestEnds
CHECK_DEADLOCK FALSE
