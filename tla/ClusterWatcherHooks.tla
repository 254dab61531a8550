------------------------- MODULE ClusterWatcherHooks -------------------------
(***************************************************************************)
(* The Event Router (ManagementWatcherHooks: RegisterEvent, HandleEvent)  *)
(* and its wiring as the Cluster Lifecycle Provisioner                    *)
(* (newClusterWatcherHooks) in plugins/alerting/pkg/alerting/impl.go.     *)
(*                                                                         *)
(* The management plane creates, updates and deletes clusters and emits   *)
(* one WatchEvent per change.  The plugin hands each event to HandleEvent,*)
(* which runs, in registration order, the hooks of every case whose       *)
(* predicate matches.  Hooks provision a durable consumer (persisted in   *)
(* JetStream) and start or tear down the two default condition evaluators *)
(* of the cluster (in memory).  A failed consumer creation panics: the    *)
(* process dies, and on restart the watch stream replays a Created event  *)
(* for every existing cluster.                                            *)
(***************************************************************************)
EXTENDS Naturals, Sequences, SequencesExt

CONSTANTS
    Clusters,     \* cluster ids (model values)
    MaxChanges,   \* bound on changes the management plane makes
    MaxCrashes,   \* bound on process deaths
    HookFaults    \* may hooks fail?

ASSUME MaxChanges \in Nat /\ MaxCrashes \in Nat /\ HookFaults \in BOOLEAN

VARIABLES
    registered,   \* clusters the management plane knows
    watch,        \* WatchEvents not yet handed to HandleEvent
    consumers,    \* clusters with a durable replay consumer
    evaluators,   \* running default evaluators, as <<cluster, condition>>
    todo,         \* HandleEvent: hooks of the current event still to run
    current,      \* HandleEvent: the event being handled
    up,           \* the plugin process is running
    changes,      \* management-plane changes so far
    crashes       \* process deaths so far

vars == <<registered, watch, consumers, evaluators, todo, current, up,
          changes, crashes>>

EventTypes == {"Created", "Updated", "Deleted"}

WatchEvent == [type : EventTypes, cluster : Clusters]

(* The default conditions createDefaultDisconnect and                     *)
(* createDefaultCapabilityHealth start for a cluster.                     *)
Conditions == {"disconnect", "capability"}

Hook == {"consumer", "createDisconnect", "createCapability",
         "deleteDisconnect", "deleteCapability"}

createClusterEvent(e) == e.type = "Created"

deleteClusterEvent(e) == e.type = "Deleted"

(* RegisterEvent appends a (predicate, hooks) case; a predicate is the    *)
(* set of events it accepts.                                              *)
RegisterEvent(cases, filter, hooks) ==
    Append(cases, [filter |-> filter, hooks |-> hooks])

(* Mutant of Cases: the teardown case matches updates instead.           *)
CasesDeleteOnUpdate ==
    LET created == RegisterEvent(<< >>,
                      {e \in WatchEvent : createClusterEvent(e)},
                      <<"consumer", "createDisconnect", "createCapability">>)
    IN RegisterEvent(created,
                     {e \in WatchEvent : e.type = "Updated"},
                     <<"deleteDisconnect", "deleteCapability">>)

(* The cases newClusterWatcherHooks registers, in order.                  *)
Cases ==
    LET created == RegisterEvent(<< >>,
                      {e \in WatchEvent : createClusterEvent(e)},
                      <<"consumer", "createDisconnect", "createCapability">>)
    IN RegisterEvent(created,
                     {e \in WatchEvent : deleteClusterEvent(e)},
                     <<"deleteDisconnect", "deleteCapability">>)

(* The hooks HandleEvent runs for e: those of every matching case, in     *)
(* registration order.                                                    *)
MatchedHooks(cases, e) ==
    FlattenSeq([i \in DOMAIN cases |->
                   IF e \in cases[i].filter THEN cases[i].hooks ELSE << >>])

(* A hook's effect on the evaluators of cluster c when it succeeds.       *)
HookEffect(h, c, evs) ==
    CASE h = "createDisconnect" -> evs \cup {<<c, "disconnect">>}
      [] h = "createCapability" -> evs \cup {<<c, "capability">>}
      [] h = "deleteDisconnect" -> evs \ {<<c, "disconnect">>}
      [] h = "deleteCapability" -> evs \ {<<c, "capability">>}
      [] OTHER                  -> evs

HookOutcomes == IF HookFaults THEN BOOLEAN ELSE {TRUE}

-----------------------------------------------------------------------------
(* The management plane                                                   *)

Emit(type, c) == watch' = Append(watch, [type |-> type, cluster |-> c])

ClusterCreated(c) ==
    /\ changes < MaxChanges /\ c \notin registered
    /\ registered' = registered \cup {c}
    /\ Emit("Created", c)
    /\ changes' = changes + 1
    /\ UNCHANGED <<consumers, evaluators, todo, current, up, crashes>>

ClusterUpdated(c) ==
    /\ changes < MaxChanges /\ c \in registered
    /\ Emit("Updated", c)
    /\ changes' = changes + 1
    /\ UNCHANGED <<registered, consumers, evaluators, todo, current, up,
                   crashes>>

ClusterDeleted(c) ==
    /\ changes < MaxChanges /\ c \in registered
    /\ registered' = registered \ {c}
    /\ Emit("Deleted", c)
    /\ changes' = changes + 1
    /\ UNCHANGED <<consumers, evaluators, todo, current, up, crashes>>

-----------------------------------------------------------------------------
(* HandleEvent, one hook at a time                                        *)

(* The next event from the watch stream; its matching hooks are queued.   *)
HandleEvent ==
    /\ up /\ todo = << >> /\ watch # << >>
    /\ current' = Head(watch)
    /\ watch' = Tail(watch)
    /\ todo' = MatchedHooks(Cases, Head(watch))
    /\ UNCHANGED <<registered, consumers, evaluators, up, changes, crashes>>

(* Mutant of ConsumerHook: an error is logged and the next hook runs.     *)
ConsumerHookNoPanic ==
    /\ up /\ todo # << >> /\ Head(todo) = "consumer"
    /\ \E ok \in HookOutcomes :
          consumers' = IF ok THEN consumers \cup {current.cluster}
                       ELSE consumers
    /\ todo' = Tail(todo)
    /\ UNCHANGED <<registered, watch, evaluators, current, up, changes,
                   crashes>>

(* NewDurableReplayConsumer for the cluster; an error panics.             *)
ConsumerHook ==
    /\ up /\ todo # << >> /\ Head(todo) = "consumer"
    /\ \E ok \in IF crashes < MaxCrashes THEN HookOutcomes ELSE {TRUE} :
          IF ok
          THEN /\ consumers' = consumers \cup {current.cluster}
               /\ todo' = Tail(todo)
               /\ UNCHANGED <<evaluators, up, crashes>>
          ELSE /\ up' = FALSE
               /\ evaluators' = {}
               /\ todo' = << >>
               /\ crashes' = crashes + 1
               /\ UNCHANGED consumers
    /\ UNCHANGED <<registered, watch, current, changes>>

(* Any other hook: its error is discarded and the next hook runs.         *)
EvaluatorHook ==
    /\ up /\ todo # << >> /\ Head(todo) # "consumer"
    /\ \E ok \in HookOutcomes :
          evaluators' = IF ok THEN HookEffect(Head(todo), current.cluster,
                                              evaluators)
                        ELSE evaluators
    /\ todo' = Tail(todo)
    /\ UNCHANGED <<registered, watch, consumers, current, up, changes,
                   crashes>>

-----------------------------------------------------------------------------
(* Process death and restart                                              *)

(* The process dies between two steps: evaluators stop with it.          *)
Crash ==
    /\ up /\ crashes < MaxCrashes
    /\ up' = FALSE
    /\ evaluators' = {}
    /\ todo' = << >>
    /\ crashes' = crashes + 1
    /\ UNCHANGED <<registered, watch, consumers, current, changes>>

(* A new process opens a new watch, which starts with a Created event for *)
(* every existing cluster, in some order.                                 *)
Restart ==
    /\ ~up
    /\ up' = TRUE
    /\ \E order \in SetToSeqs(registered) :
          watch' = [i \in DOMAIN order |->
                      [type |-> "Created", cluster |-> order[i]]]
    /\ UNCHANGED <<registered, consumers, evaluators, todo, current, changes,
                   crashes>>

-----------------------------------------------------------------------------

Init ==
    /\ registered = {}
    /\ watch = << >>
    /\ consumers = {}
    /\ evaluators = {}
    /\ todo = << >>
    /\ current = [type |-> "Created", cluster |-> CHOOSE c \in Clusters : TRUE]
    /\ up = TRUE
    /\ changes = 0
    /\ crashes = 0

Next ==
    \/ \E c \in Clusters : ClusterCreated(c) \/ ClusterUpdated(c)
                            \/ ClusterDeleted(c)
    \/ HandleEvent \/ ConsumerHook \/ EvaluatorHook
    \/ Crash \/ Restart

Spec == Init /\ [][Next]_vars /\ WF_vars(HandleEvent \/ ConsumerHook
                                          \/ EvaluatorHook \/ Restart)

-----------------------------------------------------------------------------
(* Properties                                                             *)

TypeOK ==
    /\ registered \subseteq Clusters
    /\ watch \in Seq(WatchEvent)
    /\ consumers \subseteq Clusters
    /\ evaluators \subseteq Clusters \X Conditions
    /\ todo \in Seq(Hook)
    /\ current \in WatchEvent
    /\ up \in BOOLEAN
    /\ changes \in 0 .. MaxChanges /\ crashes \in 0 .. MaxCrashes

(* Once every WatchEvent has been handled, the running default evaluators *)
(* are exactly the two conditions of every registered cluster: a Created  *)
(* starts both, a Deleted stops both, an Updated changes nothing, and a   *)
(* restarted process rebuilds them from the replayed Created events.      *)
EvaluatorsFollowClusters ==
    (up /\ todo = << >> /\ watch = << >>)
        => evaluators = registered \X Conditions

(* Every registered cluster eventually has its durable replay consumer,   *)
(* even when creating it fails: the hook panics, and the restarted        *)
(* process's watch replays the cluster's Created event.                   *)
ConsumerEventuallyProvisioned ==
    \A c \in Clusters :
        (c \in registered) ~> (c \in consumers \/ c \notin registered)
=============================================================================
