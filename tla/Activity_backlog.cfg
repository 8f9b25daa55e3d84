SPECIFICATION Spec
CONSTANTS
    MaxReads = 2
    MaxOverruns = 2
    Threshold = 2
    MaxConsumers = 2
    MaxRecords = 3
INVARIANT BacklogNeverDelivered
