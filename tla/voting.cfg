SPECIFICATION FairSpec
CONSTANTS
  pm = pm
  risk = risk
  ann = ann
  bob = bob
  cy = cy
  p1 = p1
  p2 = p2
  r1 = r1
  None = None
  Approvers = {ann, bob, cy}
  Initiator = ann
  Delegates = {cy}
  Holds <- PeoplesRoles
  Policies <- EveryStrategy
  Requests = {r1, r2}
  Processes = {p1, p2}
  Placements <- TogetherOrApart
  MaxCrashes = 1
INVARIANT ApprovedIsEarned VotesConverge RejectionWins InOrder
PROPERTY TaskCloses
CHECK_DEADLOCK FALSE
