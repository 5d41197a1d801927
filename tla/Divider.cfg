SPECIFICATION Spec
CONSTANTS
    Width = 3
    Operands = {0, 1, 3, 4, 6, 7}
INVARIANTS
    Inv
PROPERTIES
    ImplementsDivUnit
    Answered
