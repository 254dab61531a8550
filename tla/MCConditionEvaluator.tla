------------------------ MODULE MCConditionEvaluator ------------------------
(***************************************************************************)
(* Instantiates ConditionEvaluator for TLC.  evaluateDuration is two      *)
(* ticks of the clock and evaluateInterval one, so I < D as the spec asks *)
(* and an unhealthy state passes the threshold after two ticks.           *)
(***************************************************************************)
EXTENDS ConditionEvaluator

MCEvaluateDuration == 2
MCEvaluateInterval == 1
=============================================================================
