\* Statuses that may arrive out of timestamp order.
CONSTANTS
    c1 = c1
    c2 = c2
    Clusters <- MCClusters
    MaxChanges = 3
    MaxStatuses = 3
    MaxTs = 3
    MsgBuffer = 1
    Reorder = TRUE
    StreamFaults = FALSE
SPECIFICATION Spec
INVARIANT ShowsNewestStatus
\* Once the server has sent its last message and the channel is drained,
\* the UI waits for input: a quiet terminal, not a deadlock.
CHECK_DEADLOCK FALSE
