SPECIFICATION Spec
CONSTANTS
  Seeds = {"seed1"}
  MaxTickets = 1
  MaxCandidates = 1
  Starts = 2
  Mishaps = 1
INVARIANT
  RedTeamOnCleanTree
CHECK_DEADLOCK FALSE
