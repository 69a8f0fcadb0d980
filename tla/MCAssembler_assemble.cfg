SPECIFICATION Spec
CONSTANTS
  Words = 6
  Sources <- AllSources
  Defines <- AllDefines
INVARIANTS
  ConditionsNest
  TargetsResolve
  NearestCycles
  ImageInPlace
  AcceptsWellFormed
CHECK_DEADLOCK FALSE
