\* Three clusters, six management-plane changes, two process deaths, hooks never fail.
CONSTANTS
    c1 = c1
    c2 = c2
    c3 = c3
    Clusters <- MCClusters
    MaxChanges = 6
    MaxCrashes = 2
    HookFaults = FALSE
SPECIFICATION Spec
SYMMETRY ClusterSymmetry
INVARIANT EvaluatorsFollowClusters
\* Once the management plane has made its last change the plugin idles on
\* the watch stream: a quiet system, not a deadlock.
CHECK_DEADLOCK FALSE
