SPECIFICATION HFairSpec
CONSTANTS
  Words = 16
  SramImages <- BlankSram
  SramReads = {255}
  Sessions <- RetryOrEcho
  Patience = 25
  HoldCycles = 4
INVARIANTS
  BootInStep
  AckIsCommit
  NoHostError
  EchoesInOrder
  HandshakeWindows
PROPERTIES
  WholeImage
  NothingBeyond
  SessionEnds
