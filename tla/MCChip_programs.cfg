SPECIFICATION FairSpec
CONSTANTS
  Words = 8
  UiValues = {165}
  UioValues <- NoHostGo
  SramImages <- ProgramImages
  SramReads = {255}
INVARIANTS
  TypeOK
  FetchCoherent
  StageInv
PROPERTIES
  ImplementsIsa
  ProgramProtected
  KeepsGoing
