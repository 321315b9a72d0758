SPECIFICATION FairSpec
CONSTANTS
  a = a
  b = b
  d = d
  None = None
  Handlers = {h1}
  Tasks = {t1}
  Commands = {a}
  Verdict <- MixedVerdict
  Faults = {"executor_error"}
  InputPauses = FALSE
  MaxData = 0

PROPERTY ApprovalIsDelivered
CHECK_DEADLOCK FALSE
