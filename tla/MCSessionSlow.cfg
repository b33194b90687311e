SPECIFICATION Spec
CONSTANTS
    N = 3
    Weight <- MCWeight
    CandidateSrc <- MCCandidateSrc
    RoundCandidates = 1
    MaxRoundAttempts = 1
    Quorums <- WeightQuorums
    ChainAuthor <- MCChainAuthor
    Hears <- MCHears
    Attempts = {1024, 1025}
    MonotoneClock = TRUE
    IdleBlocks = FALSE
    Opening <- MCOpening
    MayApprove <- MCMayApprove
    MaxBlocks <- MCMaxBlocks
    MaxRound = 0
INVARIANTS
    MergeIsJoin
    RealIsReplicated
    LocksAreBacked
PROPERTIES
    ImplementsVoting
CHECK_DEADLOCK FALSE
