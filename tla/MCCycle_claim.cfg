SPECIFICATION Spec
CONSTANTS
  Seeds = {"seed1"}
  MaxTickets = 1
  MaxCandidates = 1
  Starts = 1
  Mishaps = 0
INVARIANT
  OwnRunTrusted
CHECK_DEADLOCK FALSE
