-------------------------- MODULE ProviderDetection --------------------------
(***************************************************************************)
(* Kubernetes distribution detection, pkg/providers/detection.go.          *)
(*                                                                         *)
(* Detect lists the nodes and returns the provider of the first node whose *)
(* Spec.ProviderID contains "k3s" or "rke2", or which carries the          *)
(* rke.cattle.io/internal-ip annotation.  A node is abstracted to the      *)
(* scheme of its provider ID (the distribution or a cloud), the markers    *)
(* that occur in the rest of the ID (a node name can contain "k3s"), and   *)
(* the annotation.  The variables hold the input: the state space is every *)
(* node list up to MaxNodes long and the outcome of List.                  *)
(***************************************************************************)
EXTENDS Naturals, Sequences, SequencesExt

CONSTANTS MaxNodes

VARIABLES nodes, listOk

vars == <<nodes, listOk>>

Unknown == 0
K3S == 1
RKE2 == 2
RKE == 3

Provider == {Unknown, K3S, RKE2, RKE}

Markers == {"k3s", "rke2"}

Node == [scheme : Markers \cup {"cloud"},
         hostHas : SUBSET Markers,
         rkeAnnotation : BOOLEAN]

(* strings.Contains(node.Spec.ProviderID, s): the scheme is followed by     *)
(* "://" and the node's host name.                                         *)
ProviderIDContains(n, s) == n.scheme = s \/ s \in n.hostHas

(* The provider one node's checks select, Unknown if none matches.         *)
NodeProvider(n) ==
    IF ProviderIDContains(n, "k3s") THEN K3S
    ELSE IF ProviderIDContains(n, "rke2") THEN RKE2
    ELSE IF n.rkeAnnotation THEN RKE
    ELSE Unknown

(* The loop over nodes.Items: the first node that matches decides.         *)
RECURSIVE DetectLoop(_)
DetectLoop(items) ==
    IF items = << >> THEN Unknown
    ELSE IF NodeProvider(Head(items)) # Unknown
         THEN NodeProvider(Head(items))
         ELSE DetectLoop(Tail(items))

Detect(ok, items) ==
    IF ~ok THEN [provider |-> Unknown, err |-> TRUE]
    ELSE [provider |-> DetectLoop(items), err |-> FALSE]

ContainerRuntime(p) == IF p = RKE THEN "docker" ELSE "containerd"

String(p) ==
    CASE p = K3S  -> "k3s"
      [] p = RKE2 -> "rke2"
      [] p = RKE  -> "rke"
      [] OTHER    -> "unknown"

-----------------------------------------------------------------------------

Init ==
    /\ nodes \in UNION {[1 .. k -> Node] : k \in 0 .. MaxNodes}
    /\ listOk \in BOOLEAN

Next == UNCHANGED vars

Spec == Init /\ [][Next]_vars

-----------------------------------------------------------------------------
(* Properties                                                              *)

(* The distribution a node really runs: its provider ID scheme, or RKE     *)
(* for a cloud node that the RKE annotation marks.                         *)
Distro(n) ==
    IF n.scheme # "cloud" THEN n.scheme
    ELSE IF n.rkeAnnotation THEN "rke" ELSE "unknown"

(* The runtime each distribution ships with.                               *)
RuntimeOf(d) == IF d = "rke" THEN "docker" ELSE "containerd"

(* On a cluster whose nodes all run one distribution, Detect names that    *)
(* distribution and ContainerRuntime picks the runtime it ships with.      *)
UniformClusterDetected ==
    LET d == Distro(nodes[1])
    IN (listOk /\ nodes # << >> /\ \A i \in DOMAIN nodes : Distro(nodes[i]) = d)
          => /\ String(Detect(listOk, nodes).provider) = d
             /\ ContainerRuntime(Detect(listOk, nodes).provider) = RuntimeOf(d)
====
