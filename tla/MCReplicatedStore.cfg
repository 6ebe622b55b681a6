SPECIFICATION Spec
CONSTANTS
    n1 = n1  n2 = n2  n3 = n3
    Node <- Three
    Primary = n1
    MaxWrites = 2
    MaxRemoves = 1
    MaxEmpty = 1
    MaxLate = 2
    MaxCrashes = 1
    MaxDying = 1
SYMMETRY Symmetry
VIEW Read
INVARIANTS RegularRead
PROPERTIES NeverRegress
CHECK_DEADLOCK FALSE
