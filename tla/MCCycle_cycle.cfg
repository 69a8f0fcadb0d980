SPECIFICATION FairSpec
CONSTANTS
  Seeds = {"seed1"}
  MaxTickets = 1
  MaxCandidates = 1
  Starts = 2
  Mishaps = 1
INVARIANTS
  TicketHasRun
  RunsApart
  WaitsForDispatched
  AcceptedIsRecorded
  EndIsRecorded
  StopRules
PROPERTIES
  CycleEnds
CHECK_DEADLOCK FALSE
