SPECIFICATION Spec
CONSTANTS
    n1 = n1  n2 = n2  n3 = n3
    Node <- Three
    Primary = n1
    MaxWrites = 2
    MaxRemoves = 0
    MaxEmpty = 0
    MaxLate = 2
    MaxCrashes = 0
    MaxDying = 1
SYMMETRY Symmetry
INVARIANTS RegularRegister
CHECK_DEADLOCK FALSE
