SPECIFICATION FairSpec
CONSTANTS
  a = a
  b = b
  d = d
  None = None
  Handlers = {h1}
  Tasks = {t1, t2}
  Commands = {a, b, d}
  Verdict <- MixedVerdict
  Faults = {}
  InputPauses = TRUE
  MaxData = 0

PROPERTY WaitingSettles
CHECK_DEADLOCK FALSE
