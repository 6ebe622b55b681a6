SPECIFICATION EnsembleSpec
CONSTANTS
    Actor = {1, 2, 3, 4}
    Node = {1, 2, 3}
    Casts <- TwoAndOne
    MaxCrashes = 1
    Funds <- TwoAccounts
    OptimisticJobs <- Drafted
    SnapshotJobs <- Versioned
    SkewJobs <- Skewed
    LockedFunds <- TwoSmallOnes
    LockingJobs <- Locked
    Popper = {1, 2, 3}
    Script <- PushAndPop
    Null = Null
    None = None
    Counting = {1, 2}
    MaxCounts = 2
    MaxCounters = 3
    Shelf = {1, 2}
    Fruit = {"apple"}
    MaxCalls = 3
    MaxSets = 2
INVARIANTS CausalOrder DeliveredPrefix Isolated NothingLost ShowsWhatItHeard HoldsWhatIsLeft
PROPERTIES ReachesEverybody LeaderEmerges EveryoneFinishes ImplementsStack
CHECK_DEADLOCK FALSE
