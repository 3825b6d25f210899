------------------------------- MODULE MCMerge ------------------------------
(***************************************************************************)
(* Instances of Merge for TLC.                                             *)
(***************************************************************************)
EXTENDS Merge

CONSTANTS p1, p2

(* A segment closes with its second record, or, in the second instance,    *)
(* with every record: more segments, hence more files to compact.          *)
MCSegmentRecords == [l \in Logs |-> 2]
MCOneRecordSegments == [l \in Logs |-> 1]

ByParity == [r \in Records |-> IF r % 2 = 1 THEN p1 ELSE p2]
InOne == [r \in Records |-> p1]

MCTwo == {ByParity}
MCOne == {InOne}

(* A policy change moves every record to the other partition.              *)
MCMoved == {InOne, [r \in Records |-> p2]}
=============================================================================
