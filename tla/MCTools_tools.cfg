SPECIFICATION FairSpec
CONSTANTS
  Procs = {"minimize", "replay"}
  Histories <- OneFile
  Seeds = 3
  Checks = {"c", "d"}
  Sizes <- Sessions
  Gates <- TheGates
  Signings <- TwoSignings
  Sites = {"s1", "s2"}
  Moves = {"s2"}
  TieSites = {"s1"}
  Jobs = 2
  Campaigns <- TwoCampaigns
  Candidates = {"rt1", "rt2"}
  Sweeps = {"m1"}
  Props <- TheProps
  MaxRuns = 2
INVARIANTS
  OwnVerdict
  Minimal
  BlamesTheCommit
  OnlyPrimaryExplains
  StableEarned
  ProvenCurrent
  ReportEarned
  MeasuredOnce
  VerdictEarned
PROPERTIES CommandEnds
CHECK_DEADLOCK FALSE
