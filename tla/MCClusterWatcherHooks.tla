------------------------ MODULE MCClusterWatcherHooks ------------------------
(***************************************************************************)
(* Instantiates ClusterWatcherHooks for TLC with three clusters, so that  *)
(* the events of one cluster interleave with the hooks of the others and  *)
(* a restart replays Created events in every order of two or more.        *)
(***************************************************************************)
EXTENDS ClusterWatcherHooks, TLC

CONSTANTS c1, c2, c3

MCClusters == {c1, c2, c3}

(* Clusters are interchangeable: no code path compares cluster ids.       *)
ClusterSymmetry == Permutations(MCClusters)
=============================================================================
