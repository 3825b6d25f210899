------------------------------ MODULE MCIntake ------------------------------
(***************************************************************************)
(* The parts of the agent that take records in and decide what may enter,  *)
(* each with its own state.  Which component runs is chosen at the start and *)
(* the others stay where they are, so the states of the run are those of   *)
(* the components side by side, and each property is checked of its own.   *)
(***************************************************************************)
EXTENDS SplitWal, IngestQueue, AckTable, HecRequests, HttpServer, OtlpGrpc, OtlpHttp, FileTail,
        Tenancy, Policy, MCInputs

-----------------------------------------------------------------------------
(* IngestQueue                                                             *)

MCRecord == {"d", "i", "w"}
MCClassOf == [d |-> "Debug", i |-> "Info", w |-> "WarnPlus"]

-----------------------------------------------------------------------------
(* HecRequests                                                             *)

Good == [form |-> "ok", index |-> "none", field |-> "none", structured |-> FALSE, inner |-> "none", words |-> <<"info", "key=value", "error">>]
Post == [path |-> "event", auth |-> "good", browser |-> FALSE, channel |-> "one", encoding |-> "gzip", body |-> "whole",
         query |-> [index |-> "main"], events |-> <<Good>>]

MCHecInputs ==
    {Post,
     [Post EXCEPT !.events = <<Good, [Good EXCEPT !.form = "blank"]>>],
     [Post EXCEPT !.events = <<Good, [Good EXCEPT !.index = "lost", !.structured = TRUE]>>],
     [Post EXCEPT !.path = "raw", !.channel = "none", !.events = <<Good, [Good EXCEPT !.form = "garbled"]>>],
     [Post EXCEPT !.auth = "bad"], [Post EXCEPT !.auth = "none"],
     [Post EXCEPT !.channel = "twice"], [Post EXCEPT !.encoding = "other"],
     [Post EXCEPT !.body = "large"], [Post EXCEPT !.body = "unreadable"], [Post EXCEPT !.body = "stalled"],
     [Post EXCEPT !.path = "ack"], [Post EXCEPT !.path = "ack", !.auth = "bad"],
     [Post EXCEPT !.path = "health"]}

-----------------------------------------------------------------------------
(* OtlpHttp                                                                *)

Str(s) == [kind |-> "string", of |-> s]
MCResource == [n |-> 1, attrs |-> <<[key |-> "service.name", value |-> Str("web")], [key |-> "", value |-> Str("x")]>>]
MCScope(body, t) == [n |-> 2, records |-> <<[time |-> 0, observed |-> t, severity |-> 0, text |-> 17, body |-> body,
                     attrs |-> <<[key |-> "k", value |-> [kind |-> "int", of |-> "1"]]>>]>>]
List == [kind |-> "array", of |-> <<Str("a"), Str("b")>>]

(* The same export with its fields in two orders, and in JSON.             *)
MCMessages(body, t) == {<< <<MCResource, MCScope(body, t)>> >>, << <<MCScope(body, t), MCResource>> >>}
MCExportsOf(id, body, t) ==
    {[shape |-> "export", json |-> json, id |-> id, message |-> message] : json \in BOOLEAN, message \in MCMessages(body, t)}

MCPosts ==
    MCExportsOf(1, Str("b"), 0) \cup MCExportsOf(2, List, 2)
    \cup {[shape |-> s, json |-> FALSE, id |-> 0, message |-> <<>>] :
            s \in {"other_path", "wrong_type", "unauthorized", "too_large", "unreadable", "malformed", "wrong_tenant"}}

(* With a body of bytes.                                                   *)
MCBytes == MCExportsOf(3, [kind |-> "bytes", of |-> "b"], 1)

-----------------------------------------------------------------------------
(* Tenancy                                                                 *)

MCAcme == [id |-> "acme", unknown |-> "default", indexes |-> <<"default", "pay">>]
MCBeta == [id |-> "beta", unknown |-> "refuse", indexes |-> <<"main", "audit">>]
MCTenancies == {<<MCAcme, MCBeta>>, <<[MCAcme EXCEPT !.indexes = <<"default">>]>>}
(* The own tenant leaves the config.                                       *)
MCMovedConfigs == {<<MCAcme, MCBeta>>, <<MCBeta>>}
MCPrincipals ==
    {[id |-> "sentry-key-1", kind |-> "ingest", tenant |-> None, indexes |-> AllIndexes, at |-> "sentry"],
     [id |-> "auditor", kind |-> "node", tenant |-> "beta", indexes |-> {"audit"}, at |-> None],
     [id |-> "copy", kind |-> "replica", tenant |-> "acme", indexes |-> AllIndexes, at |-> None]}
MCTokens ==
    {[id |-> "svc", kind |-> "ingest", tenant |-> "acme", indexes |-> {"pay"}, failure |-> None],
     [id |-> "old", kind |-> "ingest", tenant |-> "beta", indexes |-> AllIndexes, failure |-> "expired"]}
MCRecords ==
    {[tenant |-> None, index |-> None, severity |-> 1],
     [tenant |-> None, index |-> "pay", severity |-> 2],
     [tenant |-> "beta", index |-> "audit", severity |-> 0],
     [tenant |-> None, index |-> "main", severity |-> 3]}
MCBuckets == <<[name |-> "warn", min |-> 3], [name |-> "debug", min |-> 0], [name |-> "info", min |-> 2]>>

-----------------------------------------------------------------------------
(* Policy                                                                  *)

CONSTANTS o1, o2

TwoBuckets(info, error, pushdown, capacity) ==
    [retention |-> <<[name |-> "info", secs |-> info], [name |-> "error", secs |-> error]>>,
     pushdown |-> pushdown, capacity |-> capacity]

OneBucket(info) == [retention |-> <<[name |-> "info", secs |-> info]>>, pushdown |-> TRUE, capacity |-> 2]

MCConfigFiles == {TwoBuckets(2, 2, TRUE, 2), TwoBuckets(2, 1, TRUE, 2)}

MCDocuments == {OneBucket(2), TwoBuckets(1, 2, FALSE, 1)}

-----------------------------------------------------------------------------
VARIABLE focus    \* the component that runs

IntakeParts == {"SplitWal", "IngestQueue", "AckTable", "HecRequests", "HttpServer", "OtlpGrpc", "OtlpHttp",
    "FileTail", "Globs", "Tenancy", "Policy"}

(* The components that do not run stay in one initial state.               *)
IntakeInit ==
    /\ focus \in IntakeParts
    /\ focus # "FileTail" => at = 0 /\ from_end = FALSE
    /\ focus # "Tenancy" => tenancy = CHOOSE some \in Configs : TRUE
    /\ configFile = CHOOSE some \in ConfigFiles : TRUE
    /\ Init
    /\ QueueInit
    /\ AckInit
    /\ HecInit
    /\ HttpInit
    /\ GrpcInit
    /\ OtlpInit
    /\ TailInit
    /\ GlobInit
    /\ TenancyInit
    /\ PolicyInit

IntakeStill ==
    /\ UNCHANGED focus
    /\ focus # "SplitWal" => UNCHANGED walVars
    /\ focus # "IngestQueue" => UNCHANGED queueVars
    /\ focus # "AckTable" => UNCHANGED ackTableVars
    /\ focus # "HecRequests" => UNCHANGED hecVars
    /\ focus # "HttpServer" => UNCHANGED httpVars
    /\ focus # "OtlpGrpc" => UNCHANGED grpcVars
    /\ focus # "OtlpHttp" => UNCHANGED otlpVars
    /\ focus # "FileTail" => UNCHANGED allTailVars
    /\ focus # "Globs" => UNCHANGED globVars
    /\ focus # "Tenancy" => UNCHANGED tenancyVars
    /\ focus # "Policy" => UNCHANGED policyVars

(* Bound: one config file to begin with, which is edited between two       *)
(* processes.                                                              *)
FirstFile == policyCrashes = 0 => UNCHANGED configFile

IntakeNext ==
    \/ focus = "SplitWal" /\ IntakeStill /\ Next
    \/ focus = "IngestQueue" /\ IntakeStill /\ QueueNext
    \/ focus = "AckTable" /\ IntakeStill /\ AckNext
    \/ focus = "HecRequests" /\ IntakeStill /\ HecNext
    \/ focus = "HttpServer" /\ IntakeStill /\ HttpNext
    \/ focus = "OtlpGrpc" /\ IntakeStill /\ GrpcNext
    \/ focus = "OtlpHttp" /\ IntakeStill /\ OtlpNext
    \/ focus = "FileTail" /\ IntakeStill /\ TailNext
    \/ focus = "Globs" /\ IntakeStill /\ GlobNext
    \/ focus = "Tenancy" /\ IntakeStill /\ TenancyNext
    \/ focus = "Policy" /\ IntakeStill /\ PolicyNext /\ FirstFile

IntakeVars == <<focus, walVars, queueVars, ackTableVars, hecVars, httpVars, grpcVars, otlpVars, allTailVars, globVars,
    tenancyVars, policyVars>>

IntakeSpec == IntakeInit /\ [][IntakeNext]_IntakeVars

(* A producer never stays in submit: a slot opens, the wait for one ends   *)
(* at its bound, or the channel is closed (queue.rs).                      *)
NeverBlocksHere == focus = "IngestQueue" /\ QueueFairness => NeverBlocks
=============================================================================
