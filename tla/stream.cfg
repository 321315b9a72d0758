SPECIFICATION FairSpec
CONSTANTS
  None = None
  r1 = r1
  r2 = r2
  r3 = r3
  Requests = {r1, r2, r3}
  Connections = {1, 2}
  Ids = {"owner", "member", "guest"}
  Tenants = {"bank", "other"}
  Workloads <- MCWorkloads
  Limit = 2
INVARIANT OnceInOrder NothingMissed NoListenerLeft TimelineTellsStatus 
PROPERTY EveryCallEnds
CHECK_DEADLOCK FALSE
