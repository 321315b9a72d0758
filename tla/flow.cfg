SPECIFICATION Spec
CONSTANTS
  None = None
  Lower <- MCLower
  Inherited = {"constructor"}
  Cases <- MCCases
  MaxSteps = 4
INVARIANT NeverStuck CanFinish SearchIsReachability RunsWhatWasPrepared ReviewIsNarrower NothingIgnored LintAgreesWithLoad
CHECK_DEADLOCK FALSE
