SPECIFICATION Spec
CONSTANTS
  Procs = {"minimize", "replay"}
  Histories <- OneFile
  Seeds = 1
  Checks = {"c", "d"}
  Sizes <- Sessions
  Gates <- TheGates
  Signings <- OneKilled
  Sites = {"s1", "s2"}
  Moves = {"s2"}
  TieSites = {"s1"}
  Jobs = 2
  Campaigns <- NoCampaigns
  Candidates = {"rt1"}
  Sweeps = {"m1"}
  Props <- TheProps
  MaxRuns = 2
INVARIANTS Restored
CHECK_DEADLOCK FALSE
