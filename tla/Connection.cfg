SPECIFICATION FairSpec
CONSTANTS
    Restarts = TRUE
    Links = {"l1", "l2", "l3"}
INVARIANTS
    TypeOK
    AtMostOneLink
    NoLinkLeaks
PROPERTIES
    OperationKeepsItsLink
    StoppedLinkCloses
