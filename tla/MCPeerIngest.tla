---------------------------- MODULE MCPeerIngest ----------------------------
(***************************************************************************)
(* Instances of PeerIngest for TLC.                                        *)
(***************************************************************************)
EXTENDS PeerIngest

MCRecord == {"d", "i", "w"}
MCClassOf == [d |-> "Debug", i |-> "Info", w |-> "WarnPlus"]

(* Two senders, one with a batch of two records that can be shed apart.    *)
MCBatchOf == [s1 |-> {"d", "w"}, s2 |-> {"i"}]

(* One sender with one record.                                             *)
MCOneBatch == [s1 |-> {"w"}]
=============================================================================
