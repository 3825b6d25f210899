------------------------------- MODULE MCLive -------------------------------
(***************************************************************************)
(* The components that promise something will happen, each with its own    *)
(* state.  Which component runs is chosen at the start and the others stay *)
(* where they are; the fairness a property assumes is that of its own      *)
(* component, so it is stated with the property.                           *)
(***************************************************************************)
EXTENDS SplitWal, AckTable, MCPeerIngest, PeerSync, FileTail, PartsEdge, Replicate, Auth,
        HttpServer, Forward, OtlpGrpc, Sentry, MCInputs

-----------------------------------------------------------------------------
VARIABLE focus    \* the component that runs

LiveParts == {"SplitWal", "AckTable", "PeerIngest", "PeerSync", "FileTail", "PartsEdge", "Replicate", "Auth",
    "HttpServer", "Forward", "OtlpGrpc", "Sentry", "Globs"}

(* The components that do not run stay in one initial state.               *)
LiveInit ==
    /\ focus \in LiveParts
    /\ focus # "FileTail" => at = 0 /\ from_end = FALSE
    /\ focus # "PartsEdge" => content = [f \in Files |-> CHOOSE some \in Contents : TRUE]
    /\ focus # "Replicate" => source = {}
    /\ Init
    /\ AckInit
    /\ PeerInit
    /\ PeerSyncInit
    /\ TailInit
    /\ PartsEdgeInit
    /\ ReplicateInit
    /\ AuthInit
    /\ HttpInit
    /\ ForwardInit
    /\ GrpcInit
    /\ SentryInit
    /\ GlobInit

LiveStill ==
    /\ UNCHANGED focus
    /\ focus # "SplitWal" => UNCHANGED walVars
    /\ focus # "AckTable" => UNCHANGED ackTableVars
    /\ focus # "PeerIngest" => UNCHANGED peerVars
    /\ focus # "PeerSync" => UNCHANGED syncVars
    /\ focus # "FileTail" => UNCHANGED allTailVars
    /\ focus # "PartsEdge" => UNCHANGED partsEdgeVars
    /\ focus # "Replicate" => UNCHANGED replicateVars
    /\ focus # "Auth" => UNCHANGED authVars
    /\ focus # "HttpServer" => UNCHANGED httpVars
    /\ focus # "Forward" => UNCHANGED forwardVars
    /\ focus # "OtlpGrpc" => UNCHANGED grpcVars
    /\ focus # "Sentry" => UNCHANGED sentryVars
    /\ focus # "Globs" => UNCHANGED globVars

LiveNext ==
    \/ focus = "SplitWal" /\ LiveStill /\ Next
    \/ focus = "AckTable" /\ LiveStill /\ AckNext
    \/ focus = "PeerIngest" /\ LiveStill /\ PeerNext
    \/ focus = "PeerSync" /\ LiveStill /\ PeerSyncNext
    \/ focus = "FileTail" /\ LiveStill /\ TailNext
    \/ focus = "PartsEdge" /\ LiveStill /\ PartsEdgeNext
    \/ focus = "Replicate" /\ LiveStill /\ ReplicateNext
    \/ focus = "Auth" /\ LiveStill /\ AuthNext
    \/ focus = "HttpServer" /\ LiveStill /\ HttpNext
    \/ focus = "Forward" /\ LiveStill /\ ForwardNext
    \/ focus = "OtlpGrpc" /\ LiveStill /\ GrpcNext
    \/ focus = "Sentry" /\ LiveStill /\ SentryNext
    \/ focus = "Globs" /\ LiveStill /\ GlobNext

LiveVars == <<focus, walVars, ackTableVars, peerVars, syncVars, allTailVars, partsEdgeVars, replicateVars, authVars,
    httpVars, forwardVars, grpcVars, sentryVars, globVars>>

LiveSpec == LiveInit /\ [][LiveNext]_LiveVars

(* What is taken is served, under the fairness of its component: a record  *)
(* is acknowledged and reaches a closed segment, a batch and a request are *)
(* answered, what is spooled is sent and settled, a line is stored (and    *)
(* twice only after a crash), a part that is gone is retired and one that  *)
(* is listed is copied, and the keys of the broker arrive (wal.rs,         *)
(* hec/ack.rs, peer.rs, sync.rs, tail.rs, parts_edge.rs,                   *)
(* parts/replicate.rs, auth.rs, otlp/grpc.rs, sentry.rs).                  *)
LiveServes ==
    /\ focus = "SplitWal" /\ Fairness => TakenIsAcked /\ LateSegmentCloses
    /\ focus = "AckTable" /\ AckFairness => IssuedIsAnswered
    /\ focus = "PeerIngest" /\ PeerFairness => EveryRequestAnswered
    /\ focus = "PeerSync" /\ PeerSyncFairness => SpooledIsAnswered
    /\ focus = "FileTail" /\ TailFairness => LinesAreStored
    /\ focus = "PartsEdge" /\ PartsEdgeFairness => GoneIsRetired
    /\ focus = "Replicate" /\ ReplicateFairness => ListedIsCopied
    /\ focus = "Auth" /\ AuthFairness => KeysCatchUp
    /\ focus = "OtlpGrpc" /\ GrpcFairness => CallsAreAnswered
    /\ focus = "Sentry" /\ SentryFairness => SpooledIsSettled
    /\ []EmittedOnce

(* What is told to stop stops, and nothing waits for ever: a backfill, a   *)
(* match and a connection end, and the agent, the sender, the listener,    *)
(* the forwarder and the relay shut down (main.rs, sync.rs, tail.rs,       *)
(* bounded_http.rs, sentry.rs).                                            *)
LiveEnds ==
    /\ focus = "PeerIngest" /\ PeerFairness => ShutdownEnds
    /\ focus = "PeerSync" /\ PeerSyncFairness => FetchEnds /\ SenderEnds
    /\ focus = "HttpServer" /\ HttpFairness => ThreadsEnd /\ ServerShutdownEnds
    /\ focus = "Forward" /\ ForwardFairness => ForwardStops
    /\ focus = "Sentry" /\ SentryFairness => RelayEnds
    /\ focus = "Globs" /\ GlobFairness => GlobEnds
=============================================================================
