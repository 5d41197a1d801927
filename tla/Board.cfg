CONSTANTS
  p1 = p1
  p2 = p2
  Page <- MCPage
  Bounds <- MCBounds
SPECIFICATION Spec
INVARIANTS Inv LinesShownOnce InputsInOrder
PROPERTIES OutputsReachPage InputsReachDesign
