SPECIFICATION Spec
CONSTANTS
  Words = 1
  UiValues = {0, 24}
  UioValues <- BootPins
  SramImages <- BootImages
  SramReads = {255}
INVARIANTS
  LoadInv
PROPERTIES
  ImplementsIsa
  StartReleased
