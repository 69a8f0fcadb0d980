SPECIFICATION HSpec
CONSTANTS
  Words = 512
  SramImages <- BlankSram
  SramReads = {255}
  Sessions <- FullImage
  Patience = 8
  HoldCycles = 4
INVARIANT
  NoHostError
