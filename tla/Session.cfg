SPECIFICATION FairSpec
CONSTANTS
    Tasks = {"a", "b"}
    Kinds = {"read", "setting", "lock", "unlatch"}
    Cooldown = TRUE
    WriteAttempts = 2
INVARIANTS
    TypeOK
    ArmedWaitHasOwner
    StagedWaitListens
    NoFutureResolvedTwice
PROPERTIES
    RequestsEndInSilence
    RecordedAnswerReturns
    AttemptKeepsContract
