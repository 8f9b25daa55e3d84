SPECIFICATION Spec
CONSTANTS
    Restarts = FALSE
    Links = {"l1", "l2", "l3"}
INVARIANT RequestIsKeyed
