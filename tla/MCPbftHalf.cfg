SPECIFICATION Spec
CONSTANTS
    n1 = n1  n2 = n2  n3 = n3  n4 = n4
    a = a  b = b  None = None
    nodes <- Four
    Byzantine <- SecondIsByzantine
    Value <- AandB
    Input <- Anything
    MaxView = 1
    MaxCrashes = 2
    MaxHalfEntries = 2
SYMMETRY Symmetry
INVARIANTS Agreement
CHECK_DEADLOCK FALSE
