SPECIFICATION Spec
CONSTANTS
  None = None
  Submissions = {m1, m2}
  Keys = {k1, k2}
  Jobs = {}
  Requests = {r1, r2}
  MaxRequests = 2
  MaxCrashes = 1
SYMMETRY Symmetry
INVARIANT AnsweredFirst RetryReuses OneTurn RunningIsDriven NoLostWakeup
CHECK_DEADLOCK FALSE
