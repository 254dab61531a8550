--------------------------- MODULE ClusterListModel ---------------------------
(***************************************************************************)
(* The cluster list of the opni terminal UI, pkg/opni/ui/clusters.go.      *)
(*                                                                         *)
(* ClusterListWatcher.Run opens two server streams, WatchClusters and      *)
(* WatchClusterHealthStatus, and runs one goroutine per stream that        *)
(* forwards every message into the Messages channel; a Recv error sends    *)
(* tea.Quit and ends that goroutine.  The bubbletea runtime hands every    *)
(* message of the channel, in order, to ClusterListModel.Update, which     *)
(* keeps one row per cluster and parks a health status that arrives before *)
(* its cluster in lateJoinHealthStatus; after every message it rebuilds    *)
(* the table the user sees.                                                *)
(*                                                                         *)
(* A cluster is a model value; its labels and capabilities are abstracted  *)
(* to a version that every Updated event increases.  A health status is    *)
(* abstracted to its timestamp in 1..MaxTs; 0 stands for a nil status.     *)
(***************************************************************************)
EXTENDS Naturals, Sequences, SequencesExt

CONSTANTS
    Clusters,      \* cluster ids (model values)
    MaxChanges,    \* bound on management-plane changes
    MaxStatuses,   \* bound on health statuses the server sends
    MaxTs,         \* health timestamps are 1..MaxTs
    MsgBuffer,     \* capacity of the Messages channel
    Reorder,       \* may a status older than one already sent follow it?
    StreamFaults   \* may Recv on a stream fail?

ASSUME /\ MaxChanges \in Nat /\ MaxStatuses \in Nat
       /\ MaxTs \in Nat \ {0} /\ MsgBuffer \in Nat \ {0}
       /\ Reorder \in BOOLEAN /\ StreamFaults \in BOOLEAN

VARIABLES
    registered,    \* server: clusters that exist
    version,       \* server: current version of every cluster
    lastTs,        \* server: timestamp of the last status sent per cluster
    clusterStream, \* WatchClusters messages not yet received
    statusStream,  \* WatchClusterHealthStatus messages not yet received
    changes,       \* server: events put on the cluster stream
    statuses,      \* server: statuses put on the status stream
    clusterPc,     \* forwarding goroutine of the cluster stream
    statusPc,      \* forwarding goroutine of the status stream
    messages,      \* the Messages channel
    rows,          \* ClusterListModel.rows
    lateJoin,      \* ClusterListModel.lateJoinHealthStatus (0: no entry)
    table,         \* the rows last passed to table.SetRows
    received,      \* newest status timestamp Update has seen per cluster
    quit           \* the program has quit

vars == <<registered, version, lastTs, clusterStream, statusStream,
          changes, statuses, clusterPc, statusPc, messages, rows, lateJoin,
          table, received, quit>>

server == <<registered, version, lastTs, changes, statuses>>

client == <<clusterPc, statusPc, messages, rows, lateJoin, table, received,
            quit>>

EventMsg == [kind : {"Created", "Updated", "Deleted"}, cluster : Clusters,
             version : 0 .. MaxChanges]

StatusMsg == [kind : {"status"}, cluster : Clusters, ts : 1 .. MaxTs]

QuitMsg == [kind |-> "quit"]

Row == [id : Clusters, version : 0 .. MaxChanges, health : 0 .. MaxTs]

(* Health.NewerThan: a strictly later timestamp.                           *)
NewerThan(h, ts) == h > ts

(* The status column: Summary() of the health, or "(unknown)".             *)
Summary(h) == IF h = 0 THEN [known |-> FALSE, at |-> 0]
                       ELSE [known |-> TRUE, at |-> h]

(* The table.Row built for every row after each message; labels and       *)
(* capabilities are represented by the cluster version they come from.    *)
Render(rs) == [i \in DOMAIN rs |-> [id |-> rs[i].id,
                                    labels |-> rs[i].version,
                                    status |-> Summary(rs[i].health)]]

-----------------------------------------------------------------------------
(* The management server                                                   *)

Emit(type, c, v) ==
    /\ clusterStream' = Append(clusterStream,
                               [kind |-> type, cluster |-> c, version |-> v])
    /\ changes' = changes + 1

ServerCreate(c) ==
    /\ changes < MaxChanges /\ c \notin registered
    /\ registered' = registered \cup {c}
    /\ version' = [version EXCEPT ![c] = 0]
    /\ Emit("Created", c, 0)
    /\ UNCHANGED <<lastTs, statusStream, statuses, client>>

ServerUpdate(c) ==
    /\ changes < MaxChanges /\ c \in registered
    /\ version' = [version EXCEPT ![c] = @ + 1]
    /\ Emit("Updated", c, version[c] + 1)
    /\ UNCHANGED <<registered, lastTs, statusStream, statuses, client>>

ServerDelete(c) ==
    /\ changes < MaxChanges /\ c \in registered
    /\ registered' = registered \ {c}
    /\ Emit("Deleted", c, version[c])
    /\ UNCHANGED <<version, lastTs, statusStream, statuses, client>>

(* A health status of a known cluster; timestamps grow unless Reorder.     *)
ServerStatus(c) ==
    /\ statuses < MaxStatuses /\ c \in registered
    /\ \E ts \in IF Reorder THEN 1 .. MaxTs ELSE lastTs[c] + 1 .. MaxTs :
          /\ statusStream' = Append(statusStream,
                                    [kind |-> "status", cluster |-> c,
                                     ts |-> ts])
          /\ lastTs' = [lastTs EXCEPT ![c] = ts]
    /\ statuses' = statuses + 1
    /\ UNCHANGED <<registered, version, clusterStream, changes, client>>

-----------------------------------------------------------------------------
(* ClusterListWatcher.Run: one forwarding goroutine per stream              *)

CanSend == Len(messages) < MsgBuffer

(* msg, err := clusterStream.Recv(); w.Messages <- msg                      *)
ForwardCluster ==
    /\ clusterPc = "recv" /\ clusterStream # << >> /\ CanSend
    /\ messages' = Append(messages, Head(clusterStream))
    /\ clusterStream' = Tail(clusterStream)
    /\ UNCHANGED <<server, statusStream, clusterPc, statusPc, rows, lateJoin,
                   table, received, quit>>

(* Mutant of ClusterRecvFailed: the goroutine returns without tea.Quit.   *)
ClusterRecvFailedNoQuit ==
    /\ StreamFaults /\ clusterPc = "recv"
    /\ clusterPc' = "done"
    /\ UNCHANGED <<server, clusterStream, statusStream, statusPc, messages,
                   rows, lateJoin, table, received, quit>>

(* Recv fails: the goroutine goes on to send tea.Quit.                     *)
ClusterRecvFailed ==
    /\ StreamFaults /\ clusterPc = "recv"
    /\ clusterPc' = "quit"
    /\ UNCHANGED <<server, clusterStream, statusStream, statusPc, messages,
                   rows, lateJoin, table, received, quit>>

(* w.Messages <- tea.Quit(); return err                                    *)
ClusterSendQuit ==
    /\ clusterPc = "quit" /\ CanSend
    /\ messages' = Append(messages, QuitMsg)
    /\ clusterPc' = "done"
    /\ UNCHANGED <<server, clusterStream, statusStream, statusPc, rows,
                   lateJoin, table, received, quit>>

(* msg, err := statusStream.Recv(); w.Messages <- msg                       *)
ForwardStatus ==
    /\ statusPc = "recv" /\ statusStream # << >> /\ CanSend
    /\ messages' = Append(messages, Head(statusStream))
    /\ statusStream' = Tail(statusStream)
    /\ UNCHANGED <<server, clusterStream, clusterPc, statusPc, rows, lateJoin,
                   table, received, quit>>

StatusRecvFailed ==
    /\ StreamFaults /\ statusPc = "recv"
    /\ statusPc' = "quit"
    /\ UNCHANGED <<server, clusterStream, statusStream, clusterPc, messages,
                   rows, lateJoin, table, received, quit>>

StatusSendQuit ==
    /\ statusPc = "quit" /\ CanSend
    /\ messages' = Append(messages, QuitMsg)
    /\ statusPc' = "done"
    /\ UNCHANGED <<server, clusterStream, statusStream, clusterPc, rows,
                   lateJoin, table, received, quit>>

-----------------------------------------------------------------------------
(* ClusterListModel.Update, one message of the channel per step            *)

(* The first row of cluster c, 0 if there is none.                         *)
RowOf(rs, c) == SelectInSeq(rs, LAMBDA r : r.id = c)

(* Created: take the parked status, if any, and append a row.              *)
OnCreated(m) ==
    /\ rows' = Append(rows, [id |-> m.cluster, version |-> m.version,
                             health |-> lateJoin[m.cluster]])
    /\ lateJoin' = [lateJoin EXCEPT ![m.cluster] = 0]

(* Updated: replace the cluster of the first matching row.                 *)
OnUpdated(m) ==
    /\ rows' = LET i == RowOf(rows, m.cluster)
               IN IF i = 0 THEN rows
                  ELSE [rows EXCEPT ![i].version = m.version]
    /\ UNCHANGED lateJoin

(* Mutant of OnDeleted: the slice is rejoined at i instead of i+1.        *)
OnDeletedKeepsRow(m) ==
    /\ rows' = rows
    /\ UNCHANGED lateJoin

(* Deleted: cut the first matching row out of the slice.                   *)
OnDeleted(m) ==
    /\ rows' = LET i == RowOf(rows, m.cluster)
               IN IF i = 0 THEN rows ELSE RemoveAt(rows, i)
    /\ UNCHANGED lateJoin

(* A health status: the loop skips (continue) a matching row whose health  *)
(* is newer and sets the first other matching row; if none was set, the    *)
(* status is parked in lateJoinHealthStatus.                               *)
OnStatus(m) ==
    LET i == SelectInSeq(rows, LAMBDA r : r.id = m.cluster
                                  /\ ~(r.health # 0
                                       /\ NewerThan(r.health, m.ts)))
    IN IF i # 0
       THEN /\ rows' = [rows EXCEPT ![i].health = m.ts]
            /\ UNCHANGED lateJoin
       ELSE /\ lateJoin' = [lateJoin EXCEPT ![m.cluster] = m.ts]
            /\ UNCHANGED rows

(* tea.Quit from a forwarding goroutine: the program stops.                *)
OnQuit ==
    /\ quit' = TRUE
    /\ UNCHANGED <<rows, lateJoin, table, received>>

Update ==
    /\ ~quit /\ messages # << >>
    /\ LET m == Head(messages)
       IN \/ /\ m.kind = "quit"
             /\ OnQuit
          \/ /\ m.kind # "quit"
             /\ \/ m.kind = "Created" /\ OnCreated(m)
                \/ m.kind = "Updated" /\ OnUpdated(m)
                \/ m.kind = "Deleted" /\ OnDeleted(m)
                \/ m.kind = "status" /\ OnStatus(m)
             /\ received' = IF m.kind = "status"
                            THEN [received EXCEPT ![m.cluster] =
                                     IF @ < m.ts THEN m.ts ELSE @]
                            ELSE received
             /\ table' = Render(rows')
             /\ UNCHANGED quit
    /\ messages' = Tail(messages)
    /\ UNCHANGED <<server, clusterStream, statusStream, clusterPc, statusPc>>

(* The user presses q or ctrl+c: Update returns tea.Quit before the table  *)
(* is rebuilt.                                                             *)
KeyQuit ==
    /\ ~quit
    /\ quit' = TRUE
    /\ UNCHANGED <<server, clusterStream, statusStream, clusterPc, statusPc,
                   messages, rows, lateJoin, table, received>>

-----------------------------------------------------------------------------

Init ==
    /\ registered = {}
    /\ version = [c \in Clusters |-> 0]
    /\ lastTs = [c \in Clusters |-> 0]
    /\ clusterStream = << >> /\ statusStream = << >>
    /\ changes = 0 /\ statuses = 0
    /\ clusterPc = "recv" /\ statusPc = "recv"
    /\ messages = << >>
    /\ rows = << >>
    /\ lateJoin = [c \in Clusters |-> 0]
    /\ table = << >>
    /\ received = [c \in Clusters |-> 0]
    /\ quit = FALSE

Server ==
    \E c \in Clusters : \/ ServerCreate(c) \/ ServerUpdate(c)
                        \/ ServerDelete(c) \/ ServerStatus(c)

Watcher ==
    \/ ForwardCluster \/ ClusterSendQuit \/ ForwardStatus \/ StatusSendQuit

Next ==
    \/ Server
    \/ Watcher \/ ClusterRecvFailed \/ StatusRecvFailed
    \/ Update \/ KeyQuit

(* The two goroutines and the bubbletea event loop are scheduled whenever  *)
(* they can run; the server, stream failures and the user are not forced.  *)
Spec == Init /\ [][Next]_vars /\ WF_vars(Watcher) /\ WF_vars(Update)

-----------------------------------------------------------------------------
(* Properties                                                              *)

TypeOK ==
    /\ registered \subseteq Clusters
    /\ clusterStream \in Seq(EventMsg) /\ statusStream \in Seq(StatusMsg)
    /\ rows \in Seq(Row)
    /\ lateJoin \in [Clusters -> 0 .. MaxTs]
    /\ received \in [Clusters -> 0 .. MaxTs]
    /\ clusterPc \in {"recv", "quit", "done"}
    /\ statusPc \in {"recv", "quit", "done"}
    /\ Len(messages) <= MsgBuffer

(* No cluster event is waiting in the stream or in the channel.            *)
ClusterEventsDrained ==
    /\ clusterStream = << >>
    /\ \A i \in DOMAIN messages : messages[i].kind = "status"

(* The table lists every existing cluster exactly once, with its latest   *)
(* labels.                                                                 *)
TableMirrorsServer ==
    LET ids == [i \in DOMAIN table |-> table[i].id]
    IN /\ IsInjective(ids)
       /\ Range(ids) = registered
       /\ \A i \in DOMAIN table : table[i].labels = version[ids[i]]

(* Once every cluster event the server sent has gone through Update, the   *)
(* table mirrors the server: Created appends, Updated rewrites the row in   *)
(* place and Deleted cuts it out of rows, however the status stream        *)
(* interleaves.                                                            *)
RowsMirrorClusters ==
    (~quit /\ clusterPc = "recv" /\ ClusterEventsDrained) => TableMirrorsServer

(* Whatever status the table shows for a cluster is the newest one Update  *)
(* has received for it, including one parked in lateJoinHealthStatus      *)
(* before the cluster's row was (re-)created.                              *)
ShowsNewestStatus ==
    \A i \in DOMAIN table :
        table[i].status.known => table[i].status.at = received[table[i].id]

(* The table the user sees eventually mirrors the server for good, unless *)
(* the program quits: the two forwarding goroutines keep the channel       *)
(* moving, the event loop drains it, and a stream that fails makes its     *)
(* goroutine send tea.Quit rather than leave events undelivered.           *)
TableConverges == <>[](quit \/ TableMirrorsServer)
====
