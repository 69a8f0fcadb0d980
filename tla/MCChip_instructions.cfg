SPECIFICATION Spec
CONSTANTS
  Words = 8
  UiValues = {0, 165}
  UioValues <- StartHeld
  SramImages <- InstrImages
  SramReads = {255}
PROPERTIES
  ImplementsIsa
