SPECIFICATION Spec
CONSTANTS
    Operations = {"lock", "unlatch"}
    Reports = {"LOCKED", "UNLOCKING", "JAMMED"}
    Attempts = 2
    AuthLatch = 2
    AlwaysConnected = FALSE
    Keycodes = TRUE
    Faults = {"retryable", "final"}
    Restarts = FALSE
INVARIANTS
    TypeOK
    HoldIsTheJams
    WindowOnlyDuringExchange
    FailureIsOnDisplay
PROPERTIES
    CommandNotRepeated
    AnswerStands
    JamNotHidden
    RetryEndsUnderPrecedence
    AttemptKeepsContract
