SPECIFICATION FairSpec
CONSTANTS
  draft = draft
  check = check
  review = review
  send = send
  notify = notify
  blocked = blocked
  abort = abort
  done = done
  h1 = h1
  h2 = h2
  p1 = p1
  p2 = p2
  None = None
  Nodes = {draft, check, review, send, notify, blocked, abort, done}
  Start = draft
  Type <- FlowType
  Route <- FlowRoute
  Verdict <- FlowVerdict
  MaxSteps = 6
  Handlers = {h1, h2}
  Processes = {p1, p2}
  Deployments <- Usual
  Tasks = {t1, t2, t3}
INVARIANT WaitingIsDecidable OneCallPerStep
PROPERTY KeepsFlowPromise FlowEnds ResolutionIsDelivered
CHECK_DEADLOCK FALSE
