SPECIFICATION LiarSpec
CONSTANTS
    n1 = n1  n2 = n2  n3 = n3  n4 = n4
    a = a  b = b  None = None
    Node <- Four
    Byzantine <- LastIsByzantine
    Forged <- Everything
    Sender = n4
    Msg <- AandB
    MaxBcasts = 0
SYMMETRY Symmetry
VIEW Read
INVARIANTS TypeOK Consistency
CHECK_DEADLOCK FALSE
