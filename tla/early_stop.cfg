\* The client stops while the context of the question is collected.
SPECIFICATION Spec
CONSTANTS
    MaxEvents = 1
INVARIANTS
    EarlyStopIsRefunded
CHECK_DEADLOCK FALSE
