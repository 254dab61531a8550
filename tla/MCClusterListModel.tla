------------------------- MODULE MCClusterListModel -------------------------
EXTENDS ClusterListModel

CONSTANTS c1, c2

MCClusters == {c1, c2}
=============================================================================
