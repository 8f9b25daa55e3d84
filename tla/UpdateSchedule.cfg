SPECIFICATION Spec
CONSTANTS
    KeepAlive = 6
    IdleDisconnect = 8
    Margin = 1
    Hold = 3
    Coalesce = 1
    ReconnectBackoff = 1
    MaxReconnectBackoff = 3
    RequestDelays = {0, 1, 3}
    OperationDefer = 1
    TaskDefer = 2
INVARIANTS
    LinkKeptAlive
    PacedByBackoff
PROPERTIES
    NotPostponed
