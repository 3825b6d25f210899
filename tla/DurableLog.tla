----------------------------- MODULE DurableLog -----------------------------
(***************************************************************************)
(* What the write-ahead log promises its clients, independently of how it  *)
(* is laid out in files: a record whose acknowledgement was published is   *)
(* never lost, and no record is lost while the process runs.  Only a crash *)
(* or a write error that ends the writer may drop a record, and only one   *)
(* that was not acknowledged.                                              *)
(*                                                                         *)
(* SplitWal (the two logs of wal.rs) and Merge (the same logs emptied into *)
(* Parquet files by merge.rs) are both shown to implement this.            *)
(***************************************************************************)
CONSTANT Record

VARIABLES
    stored,     \* records the system holds, in memory or on disk
    acked,      \* records a sender was told it may forget
    healthy     \* the process is up and its writer has not failed

dvars == <<stored, acked, healthy>>

DInit == stored = {} /\ acked = {} /\ healthy = FALSE

Start ==
    /\ ~healthy
    /\ healthy' = TRUE
    /\ UNCHANGED <<stored, acked>>

(* The writer takes records over from the ingest queue.                    *)
Accept ==
    /\ healthy
    /\ \E S \in SUBSET Record : stored' = stored \cup S
    /\ UNCHANGED <<acked, healthy>>

(* Acknowledgements are published only for records the system holds.       *)
Acknowledge ==
    /\ healthy
    /\ \E S \in SUBSET stored : acked' = acked \cup S
    /\ UNCHANGED <<stored, healthy>>

(* A crash or a write error loses records, never an acknowledged one.      *)
Fail ==
    /\ healthy
    /\ healthy' = FALSE
    /\ \E K \in SUBSET stored : acked \subseteq K /\ stored' = K
    /\ UNCHANGED acked

DNext == Start \/ Accept \/ Acknowledge \/ Fail

DSpec == DInit /\ [][DNext]_dvars
=============================================================================
