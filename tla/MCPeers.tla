------------------------------ MODULE MCPeers -------------------------------
(***************************************************************************)
(* The parts that send to other systems and receive from peers, each with  *)
(* its own state.  Which component runs is chosen at the start and         *)
(* the others stay where they are, so the states of the run are those of   *)
(* the components side by side, and each property is checked of its own.   *)
(***************************************************************************)
EXTENDS MCPeerIngest, PeerSync, PeerPlanner, PeerSignals, PeerHops, PartsEdge, Ring, Forward,
        Sentry, MCInputs

-----------------------------------------------------------------------------
(* PeerPlanner                                                             *)

MCSeverity == <<9, 9, 9, 17>>
MCServiceOf == <<"a", "a", "b", "a">>
MCTemplateOf == <<1, 1, 2, 1>>
MCPercentOf == <<80, 80, 80, 80>>
MCConfigs == {[fidelity |-> 50, min_severity |-> 0, anomaly_boost |-> b] : b \in BOOLEAN}

-----------------------------------------------------------------------------
(* PeerSignals                                                             *)

MCPairs == {<<"a", 1>>, <<"a", 2>>}

-----------------------------------------------------------------------------
(* PeerHops                                                                *)

(* A ring of two and a node that feeds it.                                 *)
MCHopNodes == {"a", "b", "edge"}
MCHopLinks == {<<"edge", "a">>, <<"a", "b">>, <<"b", "a">>}
MCHopEvents ==
    {[id |-> "plain", attrs |-> <<>>],
     [id |-> "named", attrs |-> <<Origin("a"), Hops(1)>>]}

-----------------------------------------------------------------------------
(* Ring                                                                    *)

(* A traced request, and a service's line that only a thread identifies.   *)
MCLineSources == {
    [trace |-> "t", request |-> "r", thread |-> "h", service |-> "s"],
    [trace |-> "none", request |-> "none", thread |-> "h", service |-> "s"]}

-----------------------------------------------------------------------------
VARIABLE focus    \* the component that runs

PeersParts == {"PeerIngest", "PeerSync", "PeerPlanner", "PeerSignals", "PeerHops", "PartsEdge", "Ring",
    "Forward", "Sentry"}

(* The components that do not run stay in one initial state.               *)
PeersInit ==
    /\ focus \in PeersParts
    /\ focus # "PeerPlanner" => cfg = CHOOSE some \in PlannerConfigs : TRUE
    /\ focus # "PartsEdge" => content = [f \in Files |-> CHOOSE some \in Contents : TRUE]
    /\ PeerInit
    /\ PeerSyncInit
    /\ PlannerInit
    /\ SignalsInit
    /\ HopInit
    /\ PartsEdgeInit
    /\ RingInit
    /\ ForwardInit
    /\ SentryInit

PeersStill ==
    /\ UNCHANGED focus
    /\ focus # "PeerIngest" => UNCHANGED peerVars
    /\ focus # "PeerSync" => UNCHANGED syncVars
    /\ focus # "PeerPlanner" => UNCHANGED allPlannerVars
    /\ focus # "PeerSignals" => UNCHANGED signalVars
    /\ focus # "PeerHops" => UNCHANGED hopVars
    /\ focus # "PartsEdge" => UNCHANGED partsEdgeVars
    /\ focus # "Ring" => UNCHANGED ringVars
    /\ focus # "Forward" => UNCHANGED forwardVars
    /\ focus # "Sentry" => UNCHANGED sentryVars

PeersNext ==
    \/ focus = "PeerIngest" /\ PeersStill /\ PeerNext
    \/ focus = "PeerSync" /\ PeersStill /\ PeerSyncNext
    \/ focus = "PeerPlanner" /\ PeersStill /\ PlannerNext
    \/ focus = "PeerSignals" /\ PeersStill /\ SignalsNext
    \/ focus = "PeerHops" /\ PeersStill /\ HopNext
    \/ focus = "PartsEdge" /\ PeersStill /\ PartsEdgeNext
    \/ focus = "Ring" /\ PeersStill /\ RingNext
    \/ focus = "Forward" /\ PeersStill /\ ForwardNext
    \/ focus = "Sentry" /\ PeersStill /\ SentryNext

PeersVars == <<focus, peerVars, syncVars, allPlannerVars, signalVars, hopVars, partsEdgeVars, ringVars, forwardVars,
    sentryVars>>

PeersSpec == PeersInit /\ [][PeersNext]_PeersVars
=============================================================================
