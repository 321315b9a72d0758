SPECIFICATION Spec
CONSTANTS
  a = a
  b = b
  d = d
  None = None
  Handlers = {h1}
  Tasks = {t1, t2}
  Commands = {a, b}
  Verdict <- ApprovalVerdict
  Faults = {}
  InputPauses = FALSE
  MaxData = 0

INVARIANT ApprovedIsExecuted
CHECK_DEADLOCK FALSE
