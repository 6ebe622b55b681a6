SPECIFICATION EitherSpec
CONSTANTS
    n1 = n1  n2 = n2  n3 = n3  n4 = n4
    a = a  b = b  None = None
    nodes <- Four
    Byzantine <- SecondIsByzantine
    Value <- AandB
    Input <- OneFirst
    MaxView = 1
    MaxCrashes = 2
    MaxHalfEntries = 1
SYMMETRY Later
INVARIANTS TypeOK Agreement OneCertificate LockIn
PROPERTIES NothingTurnsBack
CHECK_DEADLOCK FALSE
