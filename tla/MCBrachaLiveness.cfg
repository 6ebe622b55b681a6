SPECIFICATION EitherSpec
CONSTANTS
    n1 = n1  n2 = n2  n3 = n3  n4 = n4
    a = a  b = b  None = None
    Node <- Four
    Byzantine <- LastIsByzantine
    Forged <- OtherContent
    Sender = n1
    Msg <- AandB
    MaxBcasts = 1
INVARIANTS Integrity
PROPERTIES Validity TotalityOfALie
CHECK_DEADLOCK FALSE
