SPECIFICATION Spec
CONSTANTS
  n1 = n1  n2 = n2  n3 = n3  x = x  v1 = v1  v2 = v2
  None = None  Nil = Nil
  Server <- Nodes  Key <- Keys  Val <- Vals
  Cmd <- ThreeCmds  Reserved <- SetBOnly  Split <- NoCmds  Garbled <- Noop
  Standing <- Two
  MaxLog = 2  MaxFaults = 1  MaxElections <- TwoToOne
SYMMETRY SymmetryOfTwo
INVARIANTS KvIsReplay
PROPERTIES ImplementsCommittedLog
