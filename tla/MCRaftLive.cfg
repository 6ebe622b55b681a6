SPECIFICATION FairSpec
CONSTANTS
  n1 = n1  n2 = n2  n3 = n3  x = x  v1 = v1  v2 = v2
  None = None  Nil = Nil
  Server <- Nodes  Key <- Keys  Val <- Vals
  Cmd <- OneCmd  Reserved <- NoCmds  Split <- NoCmds  Garbled <- Noop
  Standing <- Nodes
  MaxLog = 1  MaxFaults = 0  MaxElections <- TwoTimeouts
PROPERTIES OwnTermCommits
