\* One question, streamed, stopped, refunded or stored.
SPECIFICATION LiveSpec
CONSTANTS
    MaxEvents = 4
INVARIANTS
    TypeOK
    RefundIsDue
    StopIsRefunded
    HistoryAgrees
PROPERTIES
    StopSettles
\* The turn ends.
CHECK_DEADLOCK FALSE
