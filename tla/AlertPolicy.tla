---------------------------- MODULE AlertPolicy ----------------------------
(***************************************************************************)
(* What one alerting condition evaluator promises the alert manager       *)
(* (spec 4.3), with nothing of how.  A waiting evaluator keeps reading    *)
(* the persisted CachedState (Read); a state it read that has been        *)
(* unhealthy for longer than evaluateDuration obliges it to raise the     *)
(* alert (Raise), and it raises the alert for no other reason.  The state *)
(* read is a snapshot: spec 5 lets the message-driven writer persist a    *)
(* newer state before the evaluator acts on what it read.  Everything    *)
(* that leaves the alert alone (messages, writes, the clock, starting and *)
(* stopping) is one Environment step.                                     *)
(*                                                                         *)
(* ConditionEvaluator implements this module through the refinement      *)
(* mapping in its definition AP.                                          *)
(***************************************************************************)
EXTENDS Naturals

CONSTANTS
    EvaluateDuration,  \* evaluateDuration, in units of time
    NotFound,          \* no CachedState persisted yet
    NoTick             \* the evaluator is not acting on a read state

VARIABLES
    stored,      \* the persisted CachedState, its timestamp as an age
    alert,       \* the alert is active at the alert manager
    evaluating,  \* the evaluator is running and waiting for its next tick
    read         \* the state the evaluator read and is acting on, or NoTick

vars == <<stored, alert, evaluating, read>>

MaxAge == EvaluateDuration + 1

CachedState == [healthy : BOOLEAN, firing : BOOLEAN, age : 0 .. MaxAge]

UnhealthyTooLong(s) ==
    s \notin {NotFound, NoTick} /\ ~s.healthy /\ s.age > EvaluateDuration

(* The evaluator has read a state it must alert on, and has not yet.      *)
MustRaise == ~alert /\ UnhealthyTooLong(read)

Init ==
    /\ stored = NotFound
    /\ alert = FALSE
    /\ evaluating = FALSE
    /\ read = NoTick

(* A waiting evaluator reads the persisted state.                         *)
Read ==
    /\ evaluating
    /\ stored # NotFound
    /\ read' = stored
    /\ evaluating' = FALSE
    /\ UNCHANGED <<stored, alert>>

(* The alert is raised for a state read unhealthy past the threshold.     *)
Raise ==
    /\ MustRaise
    /\ alert' = TRUE
    /\ read' = NoTick
    /\ evaluating' \in BOOLEAN
    /\ UNCHANGED stored

(* The evaluator is done with a state that does not oblige it to raise.   *)
Decide ==
    /\ read # NoTick
    /\ ~MustRaise
    /\ read' = NoTick
    /\ evaluating' \in BOOLEAN
    /\ UNCHANGED <<stored, alert>>

(* The alert is resolved.                                                 *)
Resolve ==
    /\ alert
    /\ alert' = FALSE
    /\ evaluating' \in BOOLEAN
    /\ UNCHANGED <<stored, read>>

(* Anything that leaves the alert as it is; a state read is dropped only  *)
(* by an evaluator that stops.                                            *)
Environment ==
    /\ stored' \in CachedState \cup {NotFound}
    /\ evaluating' \in BOOLEAN
    /\ read' \in {read, NoTick}
    /\ read' = NoTick /\ read # NoTick => ~evaluating'
    /\ UNCHANGED alert

Next == Read \/ Raise \/ Decide \/ Resolve \/ Environment

(* A waiting evaluator keeps reading, and does not sit on a state it must *)
(* alert on.                                                              *)
Spec == Init /\ [][Next]_vars /\ WF_vars(Read) /\ WF_vars(Raise)

=============================================================================
