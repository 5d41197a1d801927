CONSTANTS
  Texts <- SomeTexts
  HALT <- SomeHalt
  Depth = 16
SPECIFICATION Spec
INVARIANTS Inv LinesInOrder
PROPERTIES SamplesMidBit TextArrives
