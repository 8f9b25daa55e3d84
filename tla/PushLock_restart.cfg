SPECIFICATION Spec
CONSTANTS
    Operations = {"lock"}
    Reports = {"LOCKED", "JAMMED"}
    Attempts = 2
    AuthLatch = 2
    AlwaysConnected = TRUE
    Keycodes = FALSE
    Faults = {"retryable", "auth", "final"}
    Restarts = TRUE
INVARIANTS
    PollOwedIsArmed
    JamForgottenWhileStopped
    LatchIsShown
PROPERTY ReconnectNotLost
