SPECIFICATION Spec
CONSTANTS
  n1 = n1  n2 = n2  n3 = n3  x = x  v1 = v1  v2 = v2
  None = None  Nil = Nil
  Server <- Nodes  Key <- Keys  Val <- Vals
  Cmd <- TwoCmds  Reserved <- NoCmds  Split <- DelOnly  Garbled <- Noop
  Standing <- Two
  MaxLog = 1  MaxFaults = 2  MaxElections <- FourToOne
SYMMETRY SymmetryOfTwo
INVARIANTS TypeOK ElectionSafety CommitWithinLog CommittedAgree LeaderCompleteness
PROPERTIES VoteIsKept
