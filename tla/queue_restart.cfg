SPECIFICATION FairSpec
CONSTANTS
  None = None
  Submissions = {m1, m2}
  Keys = {k1, k2}
  Jobs = {j1}
  Requests = {r1}
  MaxRequests = 1
  MaxCrashes = 1
PROPERTY QueueDrains
CHECK_DEADLOCK FALSE
