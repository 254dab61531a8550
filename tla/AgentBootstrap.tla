---------------------------- MODULE AgentBootstrap ----------------------------
(***************************************************************************)
(* runMonitoringAgent and configureBootstrap, pkg/opni/commands/agent.go:  *)
(* how the monitoring agent finds and loads its config file, and the      *)
(* bootstrapper and trust strategy it starts with, chosen from the        *)
(* AgentConfig in that file.                                              *)
(*                                                                         *)
(* Every call into a library (FindConfig, LoadObjectsFromFile, DecodePin,  *)
(* ReadFile, ParsePEMEncodedCert, StrategyConfig.Build, ParseHex,         *)
(* agentv1.New) is reduced to its outcome, which is                        *)
(* part of the input.  The variables hold the input; there is one state    *)
(* per input.                                                              *)
(***************************************************************************)
EXTENDS Naturals, Sequences, SequencesExt

CONSTANTS
    Nil,         \* a nil pointer
    MaxItems,    \* bound on pins and CA cert paths in the config
    MaxObjects   \* bound on AgentConfig objects in the config file

VARIABLES
    configFlag,  \* --config was given
    findResult,  \* outcome of config.FindConfig
    loadOk,      \* config.LoadObjectsFromFile succeeds
    objects,     \* the AgentConfig objects of the file, in file order
    buildOk,     \* trust.StrategyConfig.Build succeeds
    newOk        \* agentv1.New succeeds

vars == <<configFlag, findResult, loadOk, objects, buildOk, newOk>>

TrustStrategies == {"pkp", "cacerts", "insecure", ""}

SeqsUpTo(S, n) == UNION {[1 .. k -> S] : k \in 0 .. n}

(* Spec.Bootstrap: nil, or an in-cluster address or a token with pins and *)
(* CA cert paths; each pin, path and the token is reduced to the outcome  *)
(* of decoding, reading and parsing it.                                    *)
BootstrapSpec ==
    [inCluster : BOOLEAN,
     pins : SeqsUpTo({"ok", "bad"}, MaxItems),
     caCerts : SeqsUpTo({"ok", "unreadable", "malformed"}, MaxItems),
     tokenOk : BOOLEAN]

AgentConfig == [bootstrap : BootstrapSpec \cup {Nil},
                trustStrategy : TrustStrategies]

Result(b, t, err) == [bootstrapper |-> b, trust |-> t, err |-> err]

Fail == Result(Nil, Nil, TRUE)

(* The trust strategy of the switch on conf.Spec.TrustStrategy; Nil when   *)
(* no case matches.  A pin that fails to decode, a CA cert that cannot be  *)
(* read or parsed, or a failing Build returns the error.                   *)
TrustFor(bs, strategy, build) ==
    CASE strategy = "pkp" ->
            IF (\E i \in DOMAIN bs.pins : bs.pins[i] = "bad") \/ ~build
            THEN Fail ELSE Result(Nil, "pkp", FALSE)
      [] strategy = "cacerts" ->
            IF (\E i \in DOMAIN bs.caCerts : bs.caCerts[i] # "ok") \/ ~build
            THEN Fail ELSE Result(Nil, "cacerts", FALSE)
      [] strategy = "insecure" ->
            IF ~build THEN Fail ELSE Result(Nil, "insecure", FALSE)
      [] OTHER -> Result(Nil, Nil, FALSE)

(* configureBootstrap: an in-cluster address wins; otherwise the trust    *)
(* strategy is built and the token parsed, and any error is returned.     *)
ConfigureBootstrap(conf, build) ==
    IF conf.bootstrap = Nil THEN Fail
    ELSE IF conf.bootstrap.inCluster THEN Result("inCluster", Nil, FALSE)
    ELSE LET t == TrustFor(conf.bootstrap, conf.trustStrategy, build)
         IN IF t.err \/ ~conf.bootstrap.tokenOk THEN Fail
            ELSE Result("client", t.trust, FALSE)

(* objects.Visit assigns every AgentConfig in turn: the last one wins,    *)
(* and the pointer stays nil when the file holds none.                    *)
VisitAgentConfig(objs) == IF objs = << >> THEN Nil ELSE Last(objs)

Outcome(o, b) == [outcome |-> o, bootstrapper |-> b.bootstrapper,
                  trust |-> b.trust]

(* runMonitoringAgent: a Fatal exits the process, a nil config panics in  *)
(* configureBootstrap, a failing agentv1.New is logged and the goroutine  *)
(* returns; otherwise the agent serves with the bootstrapper.             *)
RunMonitoringAgent(flag, find, load, objs, build, created) ==
    LET conf == VisitAgentConfig(objs)
        b    == ConfigureBootstrap(conf, build)
    IN CASE ~flag /\ find # "found" -> Outcome("fatal", Fail)
         [] ~load                    -> Outcome("fatal", Fail)
         [] conf = Nil               -> Outcome("panic", Fail)
         [] b.err                    -> Outcome("fatal", Fail)
         [] ~created                 -> Outcome("stopped", b)
         [] OTHER                    -> Outcome("serving", b)

-----------------------------------------------------------------------------

Init ==
    /\ configFlag \in BOOLEAN
    /\ findResult \in {"found", "notFound", "failed"}
    /\ loadOk \in BOOLEAN
    /\ objects \in SeqsUpTo(AgentConfig, MaxObjects)
    /\ buildOk \in BOOLEAN
    /\ newOk \in BOOLEAN

Next == UNCHANGED vars

Spec == Init /\ [][Next]_vars

-----------------------------------------------------------------------------
(* Properties                                                              *)

(* A monitoring agent that runMonitoringAgent leaves serving with a token  *)
(* bootstrapper (configureBootstrap returned no error) carries a trust    *)
(* strategy to verify the gateway with.                                   *)
TokenBootstrapHasTrust ==
    LET r == RunMonitoringAgent(configFlag, findResult, loadOk, objects,
                                buildOk, newOk)
    IN r.outcome = "serving" /\ r.bootstrapper = "client" => r.trust # Nil

====
