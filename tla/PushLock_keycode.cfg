SPECIFICATION Spec
CONSTANTS
    Operations = {"lock"}
    Reports = {"LOCKED"}
    Attempts = 2
    AuthLatch = 2
    AlwaysConnected = FALSE
    Keycodes = TRUE
    Faults = {"retryable"}
    Restarts = FALSE
INVARIANT FollowUpPollRuns
