SPECIFICATION SpecStale
CONSTANTS
  l = l  y = y  x = x  z = z  q = q  k = k  v1 = v1  v2 = v2
  None = None  Nil = Nil
  Server <- Nodes  Key <- Keys  Val <- Vals
  Cmd <- TwoCmds  Reserved <- NoCmds  Split <- NoCmds  Garbled <- SetA
  Standing <- Standers
  MaxLog = 1  MaxFaults = 0  MaxElections <- ThreeTimeouts
CHECK_DEADLOCK FALSE
INVARIANTS CommittedAgree
