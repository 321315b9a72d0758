SPECIFICATION Spec
CONSTANTS
  a = a
  b = b
  d = d
  None = None
  Handlers = {h1, h2}
  Tasks = {t1, t2}
  Commands = {a}
  Verdict <- MixedVerdict
  Faults = {"crash", "executor_error"}
  InputPauses = FALSE
  MaxData = 1
SYMMETRY Symmetry
INVARIANT OneCallPerApproval
PROPERTY KeepsPromise
CHECK_DEADLOCK FALSE
