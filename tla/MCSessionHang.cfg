SPECIFICATION Spec
CONSTANTS
    N = 3
    Weight <- MCWeight
    CandidateSrc <- MCCandidateSrc
    RoundCandidates = 1
    MaxRoundAttempts = 4
    Quorums <- WeightQuorums
    ChainAuthor <- MCChainAuthor
    Hears <- MCHears
    Attempts = {1024, 1025}
    MonotoneClock = FALSE
    IdleBlocks = TRUE
    Opening <- MCOpening
    MayApprove <- MCMayApprove
    MaxBlocks <- MCMaxBlocks
    MaxRound = 0
INVARIANTS
    NeverHangs
CHECK_DEADLOCK FALSE
