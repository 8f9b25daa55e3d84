SPECIFICATION FairSpec
CONSTANTS
    Operations = {"securemode", "unlock"}
    Reports = {"LOCKED", "SECUREMODE", "LOCKING", "UNLOCKING", "JAMMED"}
    Attempts = 2
    AuthLatch = 1
    AlwaysConnected = FALSE
    Keycodes = FALSE
    Faults = {"retryable", "final"}
    Restarts = FALSE
PROPERTIES
    OperationEnds
    OwedPollRuns
INVARIANTS
    SecureAgreesWithLock
    SeenMeansSettled
