\* Three clusters, five management-plane changes, hooks may fail, two process deaths.
CONSTANTS
    c1 = c1
    c2 = c2
    c3 = c3
    Clusters <- MCClusters
    MaxChanges = 5
    MaxCrashes = 2
    HookFaults = TRUE
SPECIFICATION Spec
PROPERTY ConsumerEventuallyProvisioned
\* Once the management plane has made its last change the plugin idles on
\* the watch stream: a quiet system, not a deadlock.
CHECK_DEADLOCK FALSE
