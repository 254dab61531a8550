\* Two clusters, three changes (create, delete, re-create), three statuses
\* that may arrive older than one already sent, failing streams.
CONSTANTS
    c1 = c1
    c2 = c2
    Clusters <- MCClusters
    MaxChanges = 3
    MaxStatuses = 3
    MaxTs = 3
    MsgBuffer = 1
    Reorder = TRUE
    StreamFaults = TRUE
SPECIFICATION Spec
INVARIANT RowsMirrorClusters
PROPERTY TableConverges
\* Once the server has sent its last message and the channel is drained,
\* the UI waits for input: a quiet terminal, not a deadlock.
CHECK_DEADLOCK FALSE
