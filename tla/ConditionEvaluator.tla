------------------------- MODULE ConditionEvaluator -------------------------
(***************************************************************************)
(* One InternalConditionEvaluator of plugins/alerting/pkg/alerting/impl.go *)
(* for a single condition id: its two goroutines (SubscriberLoop and       *)
(* EvaluateLoop), the in-memory firing flag they share, the two KV stores  *)
(* (States, Incidents) it persists to, the JetStream subscription that     *)
(* feeds it, the alert manager its hooks drive, and process crashes and    *)
(* restarts that run CalculateInitialState again.                          *)
(*                                                                         *)
(* Time is kept as ages relative to the present: every timestamp is        *)
(* stored as "how long ago", saturating at MaxAge = EvaluateDuration + 1,  *)
(* because the code only ever asks "is now - ts > evaluateDuration" and    *)
(* "are two timestamps equal".  The clock (Advance) ages every timestamp   *)
(* at once, so the model needs no bound on time.                           *)
(***************************************************************************)
EXTENDS Naturals, Sequences

CONSTANTS
    EvaluateDuration,  \* evaluateDuration: unhealthy time before firing
    EvaluateInterval,  \* evaluateInterval: period of the evaluate ticker
    MaxMsgs,           \* bound on health messages the agent publishes
    MaxCrashes,        \* bound on process crashes
    DecodeFaults,      \* may a published message fail json.Unmarshal?
    StorageFaults,     \* may KV reads and writes fail?
    NotFound,          \* model value: nats.ErrKeyNotFound for a key
    None               \* model value: no value in a local variable

ASSUME /\ EvaluateDuration \in Nat \ {0}
       /\ EvaluateInterval \in Nat \ {0}
       /\ MaxMsgs \in Nat /\ MaxCrashes \in Nat
       /\ DecodeFaults \in BOOLEAN /\ StorageFaults \in BOOLEAN

VARIABLES
    firing,            \* internalConditionState.inMemoryFiring
    states,            \* States() store: CachedState of this condition
    incidents,         \* Incidents() store: this condition's intervals
    stream,            \* messages on the condition's stream subject
    acked,             \* history: highest stream position acknowledged
    delivered,         \* messages pushed into msgCh by the subscription
    subPc,             \* where the SubscriberLoop goroutine is
    incoming,          \* SubscriberLoop local: incomingState
    evalPc,            \* where the EvaluateLoop goroutine is
    lastKnown,         \* EvaluateLoop local: lastKnownState of the tick
    tickIn,            \* time until the evaluate ticker fires
    parentDone,        \* parentCtx cancelled
    evalDone,          \* evaluationCtx cancelled
    crashes,           \* crashes so far
    alertActive,       \* the alert is active at the alert manager
    applied            \* history: stream positions UpdateState was run on

vars == <<firing, states, incidents, stream, acked, delivered, subPc,
          incoming, evalPc, lastKnown, tickIn, parentDone, evalDone,
          crashes, alertActive, applied>>

MaxAge == EvaluateDuration + 1

Age == 0 .. MaxAge

Older(a) == IF a < MaxAge THEN a + 1 ELSE a

(* alertingv1.CachedState: Healthy, Firing, Timestamp (as an age).        *)
CachedState == [healthy : BOOLEAN, firing : BOOLEAN, age : Age]

(* The zero Timestamp (Unix epoch) is older than any threshold.            *)
DefaultCachedState == [healthy |-> FALSE, firing |-> FALSE, age |-> MaxAge]

(* Incident intervals, abstracted to what the properties tell apart: the  *)
(* state of the most recent interval and whether any earlier interval was *)
(* left open.                                                             *)
IncidentIntervals == [last : {"none", "open", "closed"}, strayOpen : BOOLEAN]

NewIncidentIntervals == [last |-> "none", strayOpen |-> FALSE]

(* OpenInterval(id, ts) appends an interval with an open end.             *)
OpenInterval(ivs) ==
    [last |-> "open", strayOpen |-> ivs.strayOpen \/ ivs.last = "open"]

(* CloseInterval(id, ts) sets the end of the most recent interval.        *)
CloseInterval(ivs) ==
    IF ivs.last = "none" THEN ivs ELSE [ivs EXCEPT !.last = "closed"]

(* A health message on the stream: payload health, agent timestamp, and  *)
(* whether its bytes decode as T.                                         *)
Message == [healthy : BOOLEAN, age : Age, decoded : BOOLEAN]

(* healthOnMessage(status); a status that failed to decode is the zero T, *)
(* whose health is false and whose timestamp is the zero Timestamp.       *)
HealthOnMessage(m) ==
    IF m.decoded THEN [healthy |-> m.healthy, age |-> m.age]
                 ELSE [healthy |-> FALSE, age |-> MaxAge]

(* Outcomes of a KV operation: TRUE is success.                           *)
Outcomes == IF StorageFaults THEN BOOLEAN ELSE {TRUE}

(* States().IsDiff(ctx, id, s): a missing key or any differing field.     *)
IsDiff(cur, s) == cur = NotFound \/ cur # s

(* The States store after UpdateState(ctx, s) whose Put has outcome ok;   *)
(* stateLock makes the IsDiff and the Put one step.                       *)
UpdateState(s, ok) == IF IsDiff(states, s) /\ ok THEN s ELSE states

EvaluationCancelled == evalDone \/ parentDone

(* IsFiring and SetFiring: firingLock makes each read and write atomic.   *)
IsFiring == firing

SetFiring(b) == firing' = b

-----------------------------------------------------------------------------
(* The environment: the agent, the clock, shutdown and crashes.           *)

(* The agent publishes a health message stamped with the current time.   *)
Publish ==
    /\ Len(stream) < MaxMsgs
    /\ \E h \in BOOLEAN, d \in IF DecodeFaults THEN BOOLEAN ELSE {TRUE} :
          stream' = Append(stream, [healthy |-> h, age |-> 0, decoded |-> d])
    /\ UNCHANGED <<applied, firing, states, incidents, acked, delivered,
                   subPc, incoming, evalPc, lastKnown, tickIn,
                   parentDone, evalDone, crashes, alertActive>>

(* One unit of time passes: every timestamp ages and the ticker counts.  *)
Advance ==
    /\ states' = IF states = NotFound THEN NotFound
                 ELSE [states EXCEPT !.age = Older(@)]
    /\ stream' = [i \in DOMAIN stream |-> [stream[i] EXCEPT !.age = Older(@)]]
    /\ incoming' = IF incoming = None THEN None
                   ELSE [incoming EXCEPT !.age = Older(@)]
    /\ tickIn' = IF tickIn > 0 THEN tickIn - 1 ELSE 0
    /\ UNCHANGED <<applied, firing, incidents, acked, delivered, subPc,
                   evalPc, lastKnown, parentDone, evalDone, crashes,
                   alertActive>>

(* The plugin's parent context is cancelled; evaluationCtx derives from it.*)
CancelParent ==
    /\ ~parentDone
    /\ parentDone' = TRUE
    /\ evalDone' = TRUE
    /\ UNCHANGED <<applied, firing, states, incidents, stream, acked,
                   delivered, subPc, incoming, evalPc, lastKnown,
                   tickIn, crashes, alertActive>>

(* The process dies: memory is lost, the stores, the stream, its ack      *)
(* floor and the alert manager survive.  The evaluator is rebuilt by the  *)
(* next cluster-created event with fresh contexts.                        *)
Crash ==
    /\ crashes < MaxCrashes
    /\ ~parentDone
    /\ subPc # "none"
    /\ crashes' = crashes + 1
    /\ firing' = FALSE
    /\ subPc' = "none"
    /\ evalPc' = "none"
    /\ incoming' = None
    /\ lastKnown' = None
    /\ evalDone' = FALSE
    /\ UNCHANGED <<applied, states, incidents, stream, acked, delivered,
                   tickIn, parentDone, alertActive>>

-----------------------------------------------------------------------------
(* CalculateInitialState, then both loops started by WatchEvents.  No     *)
(* goroutine runs for this condition meanwhile, so it is one step.        *)

CalculateInitialState ==
    /\ subPc = "none" /\ evalPc = "none"
    /\ \E incGetOk, incPutOk, stGetOk, stPutOk, updOk \in Outcomes :
         LET createIncidents == incidents = NotFound /\ incGetOk
             incFailed       == createIncidents /\ ~incPutOk
             createState     == states = NotFound /\ stGetOk
             stFailed        == createState /\ ~stPutOk
             recovered       == IF states # NotFound /\ stGetOk
                                THEN states ELSE DefaultCachedState
         IN /\ incidents' = IF createIncidents /\ incPutOk
                            THEN NewIncidentIntervals ELSE incidents
            /\ IF incFailed \/ stFailed
               THEN /\ evalDone' = TRUE
                    /\ UNCHANGED <<firing, states>>
               ELSE /\ firing' = recovered.firing
                    /\ states' = IF createState THEN DefaultCachedState
                                 ELSE UpdateState(recovered, updOk)
                    /\ UNCHANGED evalDone
    /\ subPc' = "bootstrap"
    /\ evalPc' = "idle"
    /\ tickIn' = EvaluateInterval
    /\ UNCHANGED <<applied, stream, acked, delivered, incoming,
                   lastKnown, parentDone, crashes, alertActive>>

-----------------------------------------------------------------------------
(* SubscriberLoop                                                         *)

(* Mutant of Subscribe: the consumer delivers only messages published    *)
(* from now on (DeliverNew).                                              *)
SubscribeDeliverNew ==
    /\ subPc = "bootstrap"
    /\ subPc' = "recv"
    /\ delivered' = Len(stream)
    /\ UNCHANGED <<applied, firing, states, incidents, stream, acked,
                   incoming, evalPc, lastKnown, tickIn, parentDone,
                   evalDone, crashes, alertActive>>

(* A bootstrap tick whose ChanSubscribe succeeds.  The call names only    *)
(* the subject (neither nats.Durable nor nats.Bind, and the evaluator's   *)
(* durableConsumer config is never used), so JetStream creates an         *)
(* ephemeral consumer with the default DeliverAll policy: it pushes the   *)
(* stream from its first message.  A failed attempt changes nothing.      *)
Subscribe ==
    /\ subPc = "bootstrap"
    /\ subPc' = "recv"
    /\ delivered' = 0
    /\ UNCHANGED <<applied, firing, states, incidents, stream, acked,
                   incoming, evalPc, lastKnown, tickIn, parentDone,
                   evalDone, crashes, alertActive>>

(* A message from msgCh: decode (a failure is only logged), health from   *)
(* healthOnMessage, and the firing flag read through IsFiring.            *)
Receive ==
    /\ subPc = "recv"
    /\ delivered < Len(stream)
    /\ LET obs == HealthOnMessage(stream[delivered + 1])
       IN incoming' = [healthy |-> obs.healthy, firing |-> IsFiring,
                       age |-> obs.age]
    /\ delivered' = delivered + 1
    /\ subPc' = "update"
    /\ UNCHANGED <<applied, firing, states, incidents, stream, acked, evalPc,
                   lastKnown, tickIn, parentDone, evalDone, crashes,
                   alertActive>>

(* c.UpdateState(c.evaluationCtx, &incomingState)                         *)
SubscriberUpdate ==
    /\ subPc = "update"
    /\ \E ok \in Outcomes : states' = UpdateState(incoming, ok)
    /\ applied' = applied \cup {delivered}
    /\ subPc' = "ack"
    /\ UNCHANGED <<firing, incidents, stream, acked, delivered, incoming,
                   evalPc, lastKnown, tickIn, parentDone, evalDone,
                   crashes, alertActive>>

(* msg.Ack() of the message at position delivered.                       *)
SubscriberAck ==
    /\ subPc = "ack"
    /\ acked' = IF delivered > acked THEN delivered ELSE acked
    /\ subPc' = "recv"
    /\ incoming' = None
    /\ UNCHANGED <<applied, firing, states, incidents, stream, delivered,
                   evalPc, lastKnown, tickIn, parentDone, evalDone,
                   crashes, alertActive>>

(* Either select sees a done context: return, and the deferred            *)
(* cancelEvaluation cancels evaluationCtx.                                *)
SubscriberExit ==
    /\ subPc \in {"bootstrap", "recv"}
    /\ EvaluationCancelled
    /\ subPc' = "exited"
    /\ evalDone' = TRUE
    /\ UNCHANGED <<applied, firing, states, incidents, stream, acked,
                   delivered, incoming, evalPc, lastKnown, tickIn,
                   parentDone, crashes, alertActive>>

-----------------------------------------------------------------------------
(* EvaluateLoop: one action per branch of a ticker.C case.                *)

TickFires ==
    /\ evalPc = "idle"
    /\ tickIn = 0
    /\ tickIn' = EvaluateInterval

(* Mutant of UnhealthyFor: the threshold compared with >= instead of >.   *)
UnhealthyForAtThreshold(st) == ~st.healthy /\ st.age >= EvaluateDuration

UnhealthyFor(st) == ~st.healthy /\ st.age > EvaluateDuration

(* States().Get fails: continue until the next tick.                      *)
TickReadFailed ==
    /\ TickFires
    /\ states = NotFound \/ (StorageFaults /\ states # NotFound)
    /\ UNCHANGED <<applied, firing, states, incidents, stream, acked,
                   delivered, subPc, incoming, evalPc, lastKnown,
                   parentDone, evalDone, crashes, alertActive>>

(* States().Get succeeds.  The read takes no lock, and the elapsed time   *)
(* is computed from it at once; what the tick does next depends on this  *)
(* copy, while the SubscriberLoop may already persist a newer state.      *)
TickRead ==
    /\ TickFires
    /\ states # NotFound
    /\ lastKnown' = states
    /\ evalPc' = "decide"
    /\ UNCHANGED <<applied, firing, states, incidents, stream, acked,
                   delivered, subPc, incoming, parentDone, evalDone, crashes,
                   alertActive>>

(* Unhealthy past evaluateDuration: triggerHook, then, if not already     *)
(* firing, SetFiring(true) and go on to persist and open an interval.     *)
TickTrigger ==
    /\ evalPc = "decide"
    /\ UnhealthyFor(lastKnown)
    /\ alertActive' = TRUE
    /\ SetFiring(TRUE)
    /\ evalPc' = IF IsFiring THEN "idle" ELSE "persist"
    /\ lastKnown' = IF IsFiring THEN None ELSE lastKnown
    /\ UNCHANGED <<applied, states, incidents, stream, acked, delivered,
                   subPc, incoming, tickIn, parentDone, evalDone,
                   crashes>>

(* Unhealthy, but not yet for evaluateDuration: SetFiring(false).         *)
TickPending ==
    /\ evalPc = "decide"
    /\ ~lastKnown.healthy
    /\ ~UnhealthyFor(lastKnown)
    /\ SetFiring(FALSE)
    /\ evalPc' = "idle"
    /\ lastKnown' = None
    /\ UNCHANGED <<applied, states, incidents, stream, acked, delivered,
                   subPc, incoming, tickIn, parentDone, evalDone,
                   crashes, alertActive>>

(* Mutant of TickResolve: the in-memory flag is not cleared.              *)
TickResolveKeepsFiring ==
    /\ evalPc = "decide"
    /\ lastKnown.healthy
    /\ firing
    /\ evalPc' = "close"
    /\ lastKnown' = None
    /\ UNCHANGED <<applied, firing, states, incidents, stream, acked,
                   delivered, subPc, incoming, tickIn, parentDone,
                   evalDone, crashes, alertActive>>

(* Healthy after having fired: SetFiring(false), then close and resolve.  *)
TickResolve ==
    /\ evalPc = "decide"
    /\ lastKnown.healthy
    /\ IsFiring
    /\ SetFiring(FALSE)
    /\ evalPc' = "close"
    /\ lastKnown' = None
    /\ UNCHANGED <<applied, states, incidents, stream, acked, delivered,
                   subPc, incoming, tickIn, parentDone, evalDone,
                   crashes, alertActive>>

(* Healthy and not firing: nothing to do.                                 *)
TickHealthy ==
    /\ evalPc = "decide"
    /\ lastKnown.healthy
    /\ ~IsFiring
    /\ evalPc' = "idle"
    /\ lastKnown' = None
    /\ UNCHANGED <<applied, firing, states, incidents, stream, acked,
                   delivered, subPc, incoming, tickIn, parentDone,
                   evalDone, crashes, alertActive>>

(* UpdateState of {lastKnownState.Healthy, IsFiring(), Now()}.            *)
EvaluatePersist ==
    /\ evalPc = "persist"
    /\ \E ok \in Outcomes :
          states' = UpdateState([healthy |-> lastKnown.healthy,
                                 firing |-> IsFiring, age |-> 0], ok)
    /\ evalPc' = "open"
    /\ lastKnown' = None
    /\ UNCHANGED <<applied, firing, incidents, stream, acked, delivered,
                   subPc, incoming, tickIn, parentDone,
                   evalDone, crashes, alertActive>>

(* Incidents().OpenInterval(ctx, id, Now()); an error is only logged.     *)
EvaluateOpen ==
    /\ evalPc = "open"
    /\ \E ok \in Outcomes :
          incidents' = IF ok /\ incidents # NotFound
                       THEN OpenInterval(incidents) ELSE incidents
    /\ evalPc' = "idle"
    /\ UNCHANGED <<applied, firing, states, stream, acked, delivered, subPc,
                   incoming, lastKnown, tickIn, parentDone, evalDone,
                   crashes, alertActive>>

(* Mutant of EvaluateClose: the interval is never closed.                 *)
EvaluateCloseSkipped ==
    /\ evalPc = "close"
    /\ evalPc' = "resolve"
    /\ UNCHANGED <<applied, firing, states, incidents, stream, acked,
                   delivered, subPc, incoming, lastKnown, tickIn,
                   parentDone, evalDone, crashes, alertActive>>

(* Incidents().CloseInterval(ctx, id, Now()); an error is only logged.    *)
EvaluateClose ==
    /\ evalPc = "close"
    /\ \E ok \in Outcomes :
          incidents' = IF ok /\ incidents # NotFound
                       THEN CloseInterval(incidents) ELSE incidents
    /\ evalPc' = "resolve"
    /\ UNCHANGED <<applied, firing, states, stream, acked, delivered, subPc,
                   incoming, lastKnown, tickIn, parentDone, evalDone,
                   crashes, alertActive>>

(* resolveHook(ctx, id, labels, annotations)                              *)
EvaluateResolve ==
    /\ evalPc = "resolve"
    /\ alertActive' = FALSE
    /\ evalPc' = "idle"
    /\ UNCHANGED <<applied, firing, states, incidents, stream, acked,
                   delivered, subPc, incoming, lastKnown, tickIn,
                   parentDone, evalDone, crashes>>

(* The select sees a done context: return and cancelEvaluation.           *)
(* Mutant of EvaluateExit: the loop selects on the parent context instead  *)
(* of the evaluation context.                                             *)
EvaluateExitOnParent ==
    /\ evalPc = "idle"
    /\ parentDone
    /\ evalPc' = "exited"
    /\ evalDone' = TRUE
    /\ UNCHANGED <<applied, firing, states, incidents, stream, acked,
                   delivered, subPc, incoming, lastKnown, tickIn,
                   parentDone, crashes, alertActive>>

EvaluateExit ==
    /\ evalPc = "idle"
    /\ EvaluationCancelled
    /\ evalPc' = "exited"
    /\ evalDone' = TRUE
    /\ UNCHANGED <<applied, firing, states, incidents, stream, acked,
                   delivered, subPc, incoming, lastKnown, tickIn,
                   parentDone, crashes, alertActive>>

-----------------------------------------------------------------------------

Init ==
    /\ firing = FALSE
    /\ states = NotFound
    /\ incidents = NotFound
    /\ stream = << >>
    /\ acked = 0
    /\ delivered = 0
    /\ subPc = "none"
    /\ incoming = None
    /\ evalPc = "none"
    /\ lastKnown = None
    /\ tickIn = EvaluateInterval
    /\ parentDone = FALSE
    /\ evalDone = FALSE
    /\ crashes = 0
    /\ alertActive = FALSE
    /\ applied = {}

SubscriberLoop ==
    \/ Subscribe \/ Receive \/ SubscriberUpdate \/ SubscriberAck
    \/ SubscriberExit

EvaluateLoop ==
    \/ TickReadFailed \/ TickRead \/ TickTrigger \/ TickPending \/ TickResolve
    \/ TickHealthy \/ EvaluatePersist \/ EvaluateOpen \/ EvaluateClose
    \/ EvaluateResolve \/ EvaluateExit

Environment == Publish \/ Advance \/ CancelParent \/ Crash

Next == CalculateInitialState \/ SubscriberLoop \/ EvaluateLoop \/ Environment

(* The Go scheduler runs every runnable goroutine eventually, and time    *)
(* passes.  A select picks uniformly among its ready cases, so a loop     *)
(* that keeps returning to a select whose Done case is ready takes it.    *)
(* The agent, shutdown and crashes are not forced to happen.              *)
Fairness ==
    /\ WF_vars(CalculateInitialState)
    /\ WF_vars(SubscriberLoop)
    /\ WF_vars(EvaluateLoop)
    /\ SF_vars(SubscriberExit)
    /\ SF_vars(EvaluateExit)
    /\ WF_vars(Advance)

Spec == Init /\ [][Next]_vars /\ Fairness

-----------------------------------------------------------------------------
(* Properties                                                             *)

TypeOK ==
    /\ firing \in BOOLEAN
    /\ states \in CachedState \cup {NotFound}
    /\ incidents \in IncidentIntervals \cup {NotFound}
    /\ stream \in Seq(Message) /\ Len(stream) <= MaxMsgs
    /\ acked \in 0 .. Len(stream) /\ delivered \in 0 .. Len(stream)
    /\ subPc \in {"none", "bootstrap", "recv", "update", "ack", "exited"}
    /\ incoming \in CachedState \cup {None}
    /\ evalPc \in {"none", "idle", "decide", "persist", "open", "close", "resolve",
                   "exited"}
    /\ lastKnown \in CachedState \cup {None}
    /\ tickIn \in 0 .. EvaluateInterval
    /\ parentDone \in BOOLEAN /\ evalDone \in BOOLEAN
    /\ crashes \in 0 .. MaxCrashes
    /\ alertActive \in BOOLEAN

PersistedHealthy == states # NotFound /\ states.healthy

IncidentOpen == incidents # NotFound /\ incidents.last = "open"

(* Between ticks, the alert raised at the alert manager by triggerHook is *)
(* active exactly when the most recent incident interval is open: the     *)
(* trigger path opens one, the resolve path closes it before resolveHook. *)
AlertMatchesIncident ==
    evalPc \in {"idle", "exited"} => (alertActive <=> IncidentOpen)

(* Once the persisted state says healthy, the EvaluateLoop clears the     *)
(* in-memory firing flag unless the state turns unhealthy again first or  *)
(* the evaluator is shut down.                                            *)
HealthyClearsFiring ==
    PersistedHealthy ~> (~firing \/ ~PersistedHealthy \/ evalPc = "exited")

(* Once the persisted state says healthy, the alert raised at the alert   *)
(* manager is eventually resolved (spec 4.3 step 3: "resolution happens   *)
(* immediately upon the next healthy observation"), unless the state      *)
(* turns unhealthy again first or the evaluator is shut down.  This is    *)
(* about the EvaluateLoop's trigger path, which persists Timestamp: Now() *)
(* and so restarts the unhealthy-duration clock it reads on the next tick.*)
HealthyResolvesAlert ==
    PersistedHealthy ~> (~alertActive \/ ~PersistedHealthy \/ evalPc = "exited")

(* Every message the agent publishes is eventually run through            *)
(* UpdateState, across process crashes, unless the evaluator is cancelled *)
(* (a failed CalculateInitialState cancels it for good): the              *)
(* SubscriberLoop acknowledges a message only after UpdateState, and a    *)
(* restarted subscription resumes from the durable consumer's ack floor.  *)
EveryMessageApplied ==
    \A i \in 1 .. MaxMsgs :
        (Len(stream) >= i) ~> (i \in applied \/ EvaluationCancelled)

(* resolveHook is only invoked for an alert that triggerHook raised and   *)
(* that has not been resolved since.  This is about the resolve path,     *)
(* which clears the in-memory flag but never persists Firing: false, and  *)
(* about CalculateInitialState, which restores the in-memory flag from    *)
(* the persisted one after a restart.                                     *)
ResolveOnlyActive == [][EvaluateResolve => alertActive]_vars

(* A message that fails to decode leaves the persisted state as it was    *)
(* (spec 4.3 and 8: "no state update this cycle").  This is about the     *)
(* SubscriberLoop, which logs the json.Unmarshal error and carries on.    *)
MalformedMessageIgnored ==
    [][SubscriberUpdate /\ ~stream[delivered].decoded => UNCHANGED states]_vars

(* CalculateInitialState never replaces a persisted CachedState: a        *)
(* restart resumes what was stored (spec 4.3).  This is about a States()  *)
(* Get that fails with an error other than key-not-found.                 *)
StartupKeepsState ==
    [][CalculateInitialState /\ states # NotFound => states' = states]_vars

(* A restarted SubscriberLoop is never handed a message it acknowledged   *)
(* before the restart: the durable consumer "redelivers unacknowledged    *)
(* messages after restart" (spec 2 and glossary), and SubscriberLoop     *)
(* acks each message after UpdateState.  This is about the subscription   *)
(* that SubscriberLoop opens with ChanSubscribe at each start.            *)
ReplaysOnlyUnacked == [][Receive => delivered >= acked]_vars

(* Once an evaluator's context is cancelled (by shutdown or by a failed   *)
(* CalculateInitialState) both of its goroutines return, whatever step   *)
(* they are in and however many messages and ticks compete with ctx.Done *)
(* in their selects, unless the process dies first.                      *)
ShutdownCompletes ==
    \A k \in 0 .. MaxCrashes :
        (EvaluationCancelled /\ subPc # "none" /\ crashes = k)
            ~> ((subPc = "exited" /\ evalPc = "exited") \/ crashes > k)


-----------------------------------------------------------------------------
(* Refinement: the evaluator implements AlertPolicy.  The persisted state *)
(* and the alert manager map to themselves; the evaluator is "evaluating" *)
(* while its EvaluateLoop waits in its select, and the state it read is   *)
(* lastKnownState while it decides what the tick does.  A cancelled       *)
(* context does not stop a tick: select may still pick ticker.C.          *)

AP == INSTANCE AlertPolicy
        WITH stored <- states,
             alert <- alertActive,
             evaluating <- evalPc = "idle",
             read <- IF evalPc = "decide" THEN lastKnown ELSE None,
             NoTick <- None

(* The evaluator calls triggerHook only for a state its tick read         *)
(* unhealthy for longer than evaluateDuration, however the               *)
(* SubscriberLoop's writes land between the unlocked Get and the hook;   *)
(* and, as long as no storage read fails, a waiting evaluator keeps       *)
(* reading the persisted state and raises an alert it is obliged to.     *)
(* This is about the ticker case of EvaluateLoop: its Get, its elapsed-  *)
(* time test and its triggerHook call.                                    *)
ImplementsAlertPolicy == AP!Spec

=============================================================================
