SPECIFICATION EitherSpec
CONSTANTS
    N = 3
    Transfers <- PayAmongThree
    CrashTransfers <- OnePayOfThree
    MaxTransfers = 3
    MaxDeaths = 2
    MaxCoordinators = 0
INVARIANTS TypeOK Solvent CommitIsSafe Agreement Conserved SafeAcrossRestarts
PROPERTIES ImplementsAtomicCommit EveryTransferEnds EveryDoubtEnds
CHECK_DEADLOCK FALSE
