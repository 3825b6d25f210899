------------------------------- MODULE Merge --------------------------------
(***************************************************************************)
(* The maintenance thread of main.rs beside the writer of SplitWal:        *)
(* merge.rs empties closed WAL segments into one Parquet file per          *)
(* partition, compact.rs rewrites the files of a partition into one, and   *)
(* the catalog records both.  The process may crash between any two of     *)
(* their steps, and stops cleanly through a last pass over every segment.  *)
(*                                                                         *)
(* A Parquet file is written under a temporary name, synced and renamed,   *)
(* so it appears in one step; a temporary file left by a crash is invisible*)
(* to every reader and not modelled.  A file's contents are the records it *)
(* holds (`rows`) and those of them it holds more than once (`twice`).     *)
(*                                                                         *)
(* The catalog is SQLite in WAL mode with synchronous=NORMAL: a commit     *)
(* outlives the process at once, but a power loss may take back the last   *)
(* ones, those after the last checkpoint, while files and unlinks made     *)
(* after them stay.  `durable` is what a power loss would leave, and       *)
(* `committed`, a history variable, what every commit together has made.   *)
(*                                                                         *)
(* The end of maintenance_pass deletes files by policy (retention and the  *)
(* disk budget); that is a decision to give data up, not a way to lose it, *)
(* and has a module of its own, Reclaim.                                   *)
(***************************************************************************)
EXTENDS SplitWal

CONSTANTS
    Partitions,   \* (tenant, index, hour, level, node) directories of the store
    Layouts,      \* partitionings the live policy may choose: SUBSET [Nat -> Partitions]
    MinFiles,     \* CompactConfig::min_files
    MaxCompacted, \* CompactConfig::max_partitions
    MaxFaults     \* bound: I/O and catalog errors, and commits no checkpoint has synced

ASSUME MergeAssumption ==
    /\ Layouts # {}
    /\ \A f \in Layouts : \A r \in Records : f[r] \in Partitions
    /\ MinFiles \in Nat \ {0, 1}
    /\ MaxCompacted \in Nat
    /\ MaxFaults \in Nat

VARIABLES
    files,      \* the Parquet files of the store
    catalog,    \* rows of the catalog's `files` table
    faults,     \* errors met, and commits left unsynced, so far
    merged,     \* UUIDs in the catalog's `merged_segments` table
    durable,    \* the two tables as a power loss would leave them
    committed,  \* history: the `files` table, had no commit been lost
    layout,     \* the live policy's partitioning
    phase,      \* PHASE_WRITER_DONE has been stored
    mpc,        \* where the maintenance thread is
    final,      \* writer_done as read at the start of this pass
    limit,      \* the active ids as read at the start of this pass
    mlayout,    \* the policy snapshot of this pass
    mlog,       \* the log merge_all is working on
    queue,      \* segments of its listing still to be looked at
    cur,        \* the segment being merged
    todo,       \* partitions of cur not yet written; compaction inputs not yet unlinked
    entries,    \* files written for cur (or by compaction), not yet in the catalog
    fresh,      \* partitions written to during this pass
    compacted,  \* partitions compacted in this pass
    clean       \* nothing failed in this pass

storeVars == <<files, catalog, merged, durable, committed>>
passVars == <<final, limit, mlayout, mlog, queue, cur, todo, entries, fresh, compacted, clean>>
mergeVars == <<storeVars, layout, phase, mpc, passVars, faults>>
vars == <<walVars, mergeVars>>

File == [part : Partitions, id : Nat, ms : Nat, rows : SUBSET Nat, twice : SUBSET Nat]

NoSegment == [log |-> "main", id |-> 0, uuid |-> 0, ms |-> 0, hdr |-> FALSE, recs |-> {}]

MergeSteps == {"idle", "readLate", "list", "take", "write", "commit", "remove",
               "compact", "record", "unlink", "exited"}

(* The catalog, and what of it is synced.                                  *)
CatalogTypeOK ==
    /\ catalog \in SUBSET File
    /\ durable \in [catalog : SUBSET File, merged : SUBSET Nat]

MergeTypeOK ==
    /\ files \in SUBSET File
    /\ faults \in Nat
    /\ merged \in SUBSET Nat
    /\ committed \in SUBSET File
    /\ layout \in Layouts
    /\ phase \in BOOLEAN
    /\ mpc \in MergeSteps
    /\ final \in BOOLEAN
    /\ limit \in [Logs -> Nat]
    /\ mlayout \in Layouts
    /\ mlog \in Logs
    /\ queue \in SUBSET Segment
    /\ cur \in Segment \cup {NoSegment}
    /\ todo \in SUBSET (Partitions \cup File)
    /\ entries \in SUBSET File
    /\ fresh \in SUBSET Partitions
    /\ compacted \in SUBSET Partitions
    /\ clean \in BOOLEAN

-----------------------------------------------------------------------------
(* Mutant of PathOf: named by the segment id alone, which both logs use.   *)
PathOfIdOnly(f) == <<f.part, f.id>>

(* file_name_for_segment keeps twelve hex digits of a UUIDv7, which are    *)
(* its millisecond timestamp: a path is the partition, the segment id and  *)
(* that millisecond.                                                       *)
PathOf(f) == <<f.part, f.id, f.ms>>

(* A rename, or an upsert keyed on the path, replaces what was there.      *)
Put(table, f) == {g \in table : PathOf(g) # PathOf(f)} \cup {f}

PutAll(table, fs) == {g \in table : \A f \in fs : PathOf(g) # PathOf(f)} \cup fs

Rows(fs) == UNION {f.rows : f \in fs}

(* Rows that reading all of fs would return more than once.                *)
Repeated(fs) ==
    (UNION {f.twice : f \in fs})
        \cup {r \in Rows(fs) : \E f, g \in fs : f # g /\ r \in f.rows /\ r \in g.rows}

-----------------------------------------------------------------------------
(* What a local that holds a layout holds outside a pass.                  *)
AnyLayout == CHOOSE f \in Layouts : TRUE

MergeInit ==
    /\ Init
    /\ files = {}
    /\ catalog = {}
    /\ faults = 0
    /\ merged = {}
    /\ durable = [catalog |-> {}, merged |-> {}]
    /\ committed = {}
    /\ layout \in Layouts
    /\ phase = FALSE
    /\ mpc = "idle"
    /\ final = FALSE
    /\ limit = [l \in Logs |-> 0]
    /\ mlayout = AnyLayout
    /\ mlog = "main"
    /\ queue = {}
    /\ cur = NoSegment
    /\ todo = {}
    /\ entries = {}
    /\ fresh = {}
    /\ compacted = {}
    /\ clean = FALSE

(* The admin API stores a new policy.                                      *)
ChangePolicy ==
    /\ \E f \in Layouts \ {layout} : layout' = f
    /\ UNCHANGED <<walVars, storeVars, phase, mpc, passVars, faults>>

(* The main thread has joined the writer and stores the phase.  A writer   *)
(* that ended with an error makes the process exit instead.                *)
WriterJoined ==
    /\ wpc = "done"
    /\ ~phase
    /\ phase' = TRUE
    /\ UNCHANGED <<walVars, storeVars, layout, mpc, passVars, faults>>

(* maintenance_pass: the phase, the policy and the main log's active id.   *)
(* A pass that finds id 0 does nothing.                                    *)
StartPass ==
    /\ mpc = "idle"
    /\ wpc # "down"
    /\ phase \/ active["main"] # 0
    /\ final' = phase
    /\ mlayout' = layout
    /\ limit' = [limit EXCEPT !["main"] = active["main"]]
    /\ mlog' = "main"
    /\ fresh' = {}
    /\ clean' = TRUE
    /\ mpc' = IF phase THEN "list" ELSE "readLate"
    /\ UNCHANGED <<walVars, storeVars, layout, phase, queue, cur, todo, entries, compacted, faults>>

ReadLateActive ==
    /\ mpc = "readLate"
    /\ limit' = [limit EXCEPT !["late"] = active["late"]]
    /\ mpc' = "list"
    /\ UNCHANGED <<walVars, storeVars, layout, phase, final, mlayout, mlog, queue, cur, todo, entries, fresh, compacted, clean, faults>>

(* Mutant of Eligible: the published segment itself is taken as closed.    *)
EligibleUpToActive(s) == final \/ s.id <= limit[s.log]

(* The segments merge_all may touch.                                       *)
Eligible(s) == final \/ s.id < limit[s.log]

(* merge_all lists the directory once.                                     *)
ListSegments ==
    /\ mpc = "list"
    /\ queue' = {s \in segs : s.log = mlog /\ Eligible(s)}
    /\ mpc' = "take"
    /\ UNCHANGED <<walVars, storeVars, layout, phase, final, limit, mlayout, mlog, cur, todo, entries, fresh, compacted, clean, faults>>

(* A call of the maintenance thread that may fail, within the bound.       *)
Try(ok) ==
    /\ ok \/ faults < MaxFaults
    /\ faults' = IF ok THEN faults ELSE faults + 1
    /\ clean' = (clean /\ ok)

First(s) == s \in queue /\ \A x \in queue : s.id <= x.id

(* The file at the path of s, if it could be removed.                      *)
RemoveSegment(s, ok) ==
    segs' = IF ok THEN {x \in segs : ~(x.log = s.log /\ x.id = s.id)} ELSE segs

(* Mutant of IsSegmentMerged: looked up by the segment's number.           *)
IsSegmentMergedById(s) == s.id \in merged

(* is_segment_merged                                                       *)
IsSegmentMerged(s) == s.uuid \in merged

(* A segment without a header, or already in merged_segments, is removed.  *)
SkipSegment(s) ==
    /\ mpc = "take"
    /\ First(s)
    /\ ~s.hdr \/ IsSegmentMerged(s)
    /\ \E ok \in BOOLEAN : RemoveSegment(s, ok) /\ Try(ok)
    /\ queue' = queue \ {s}
    /\ UNCHANGED <<wal, made, clock, wpc, stopping, late, total, base, published, active, starts, acked>>
    /\ UNCHANGED <<storeVars, layout, phase, mpc, final, limit, mlayout, mlog, cur, todo, entries, fresh, compacted>>

(* Any other segment is replayed as it is on disk now.                     *)
ReplaySegment(s) ==
    /\ mpc = "take"
    /\ First(s)
    /\ s.hdr /\ ~IsSegmentMerged(s)
    /\ \E x \in segs :
          /\ x.log = s.log /\ x.id = s.id
          /\ cur' = x
          /\ todo' = {mlayout[r] : r \in x.recs}
          /\ mpc' = IF x.recs = {} THEN "commit" ELSE "write"
    /\ queue' = queue \ {s}
    /\ entries' = {}
    /\ UNCHANGED <<walVars, storeVars, layout, phase, final, limit, mlayout, mlog, fresh, compacted, clean, faults>>

(* Mutant of WritePartition: the file is named after the time it is        *)
(* written, not after the segment.                                         *)
WritePartitionNamedNow(p) ==
    /\ mpc = "write"
    /\ p \in todo
    /\ LET f == [part |-> p, id |-> cur.id, ms |-> clock,
                 rows |-> {r \in cur.recs : mlayout[r] = p}, twice |-> {}]
       IN  /\ files' = Put(files, f)
           /\ entries' = entries \cup {f}
    /\ todo' = todo \ {p}
    /\ fresh' = fresh \cup {p}
    /\ mpc' = IF todo = {p} THEN "commit" ELSE "write"
    /\ UNCHANGED <<walVars, catalog, merged, durable, committed, layout, phase, final, limit, mlayout, mlog, queue, cur, compacted, clean, faults>>

(* One partition of the segment is written to its deterministic path.      *)
WritePartition(p) ==
    /\ mpc = "write"
    /\ p \in todo
    /\ LET f == [part |-> p, id |-> cur.id, ms |-> cur.ms,
                 rows |-> {r \in cur.recs : mlayout[r] = p}, twice |-> {}]
       IN  /\ files' = Put(files, f)
           /\ entries' = entries \cup {f}
    /\ todo' = todo \ {p}
    /\ fresh' = fresh \cup {p}
    /\ mpc' = IF todo = {p} THEN "commit" ELSE "write"
    /\ UNCHANGED <<walVars, catalog, merged, durable, committed, layout, phase, final, limit, mlayout, mlog, queue, cur, compacted, clean, faults>>

(* A commit is in SQLite's own log; the checkpoint that syncs it comes     *)
(* before a power loss can, or, within the bound, does not.                *)
Checkpointed ==
    \/ durable' = [catalog |-> catalog', merged |-> merged'] /\ UNCHANGED faults
    \/ faults < MaxFaults /\ faults' = faults + 1 /\ UNCHANGED durable

(* Mutant of CommitMerge: the marker is committed before the files.        *)
CommitMarkerOnly ==
    /\ mpc = "commit"
    /\ merged' = merged \cup {cur.uuid}
    /\ mpc' = "remove"
    /\ UNCHANGED <<walVars, files, catalog, durable, committed, layout, phase, passVars, faults>>

(* commit_merge: the files and the segment's marker in one transaction.    *)
CommitMerge ==
    /\ mpc = "commit"
    /\ catalog' = PutAll(catalog, entries)
    /\ committed' = PutAll(committed, entries)
    /\ merged' = merged \cup {cur.uuid}
    /\ Checkpointed
    /\ mpc' = "remove"
    /\ UNCHANGED <<walVars, files, layout, phase, passVars>>

RemoveMerged ==
    /\ mpc = "remove"
    /\ \E ok \in BOOLEAN : RemoveSegment(cur, ok) /\ Try(ok)
    /\ mpc' = "take"
    /\ cur' = NoSegment
    /\ entries' = {}
    /\ UNCHANGED <<wal, made, clock, wpc, stopping, late, total, base, published, active, starts, acked>>
    /\ UNCHANGED <<storeVars, layout, phase, final, limit, mlayout, mlog, queue, todo, fresh, compacted>>

(* The end of a listing: the late spool follows the main log.              *)
EndOfLog ==
    /\ mpc = "take"
    /\ queue = {}
    /\ mlog' = "late"
    /\ mpc' = IF mlog = "main" THEN "list" ELSE "compact"
    /\ UNCHANGED <<walVars, storeVars, layout, phase, final, limit, mlayout, queue, cur, todo, entries, fresh, compacted, clean, faults>>

(* An I/O or catalog error ends both merges of the pass; compaction still  *)
(* runs.  After the commit it is save_templates that may fail, and then    *)
(* the segment stays.                                                      *)
MergeFails ==
    /\ mpc \in {"list", "write", "commit", "remove"} \/ (mpc = "take" /\ queue # {})
    /\ mpc' = "compact"
    /\ queue' = {}
    /\ cur' = NoSegment
    /\ todo' = {}
    /\ entries' = {}
    /\ Try(FALSE)
    /\ UNCHANGED <<walVars, storeVars, layout, phase, final, limit, mlayout, mlog, fresh, compacted>>

-----------------------------------------------------------------------------
(* compact: at least MinFiles files of one partition, as found on disk,    *)
(* become one with id 0.  While the writer runs, a partition written to    *)
(* lately is left alone (`quiet`); size limits may leave out any file.     *)
WriteCompacted(p, inputs) ==
    /\ mpc = "compact"
    /\ inputs \subseteq {f \in files : f.part = p}
    /\ Cardinality(inputs) >= MinFiles
    /\ ~final => p \notin fresh
    /\ p \notin compacted /\ Cardinality(compacted) < MaxCompacted
    /\ \E t \in Ticks :
          LET f == [part |-> p, id |-> 0, ms |-> clock + t, rows |-> Rows(inputs), twice |-> Repeated(inputs)]
          IN  /\ clock' = clock + t
              /\ files' = Put(files, f)
              /\ entries' = {f}
    /\ todo' = inputs
    /\ compacted' = compacted \cup {p}
    /\ mpc' = "record"
    /\ UNCHANGED <<segs, wal, made, wpc, stopping, late, total, base, published, active, starts, acked>>
    /\ UNCHANGED <<catalog, merged, durable, committed, layout, phase, final, limit, mlayout, mlog, queue, cur, fresh, clean, faults>>

(* The files table after a compaction: the output in, the inputs out.      *)
Replaced(table) == {g \in PutAll(table, entries) : \A f \in todo : PathOf(g) # PathOf(f)}

(* Mutant of RecordCompaction: the inputs' rows are not deleted.           *)
RecordOutputOnly ==
    /\ mpc = "record"
    /\ catalog' = PutAll(catalog, entries)
    /\ committed' = PutAll(committed, entries)
    /\ UNCHANGED merged
    /\ Checkpointed
    /\ mpc' = "unlink"
    /\ UNCHANGED <<walVars, files, layout, phase, passVars>>

(* record_compaction: one transaction.                                     *)
RecordCompaction ==
    /\ mpc = "record"
    /\ catalog' = Replaced(catalog)
    /\ committed' = Replaced(committed)
    /\ UNCHANGED merged
    /\ Checkpointed
    /\ mpc' = "unlink"
    /\ UNCHANGED <<walVars, files, layout, phase, passVars>>

(* The inputs are unlinked one by one; a failure is ignored.               *)
UnlinkInput(f) ==
    /\ mpc = "unlink"
    /\ f \in todo
    /\ \E ok \in BOOLEAN :
          /\ files' = IF ok THEN {g \in files : PathOf(g) # PathOf(f)} ELSE files
          /\ Try(ok)
    /\ todo' = todo \ {f}
    /\ entries' = {}
    /\ mpc' = IF todo = {f} THEN "compact" ELSE "unlink"
    /\ UNCHANGED <<walVars, catalog, merged, durable, committed, layout, phase, final, limit, mlayout, mlog, queue, cur, fresh, compacted>>

(* The locals of maintenance_pass outside a pass.                          *)
NoPass ==
    /\ final' = FALSE
    /\ limit' = [l \in Logs |-> 0]
    /\ mlayout' = AnyLayout
    /\ mlog' = "main"
    /\ queue' = {}
    /\ cur' = NoSegment
    /\ todo' = {}
    /\ entries' = {}
    /\ fresh' = {}
    /\ compacted' = {}

(* The pass is over, after compaction or when recording its output failed  *)
(* (the output then stays on disk).  The pass that saw the phase is the    *)
(* last one.                                                               *)
EndPass ==
    /\ mpc \in {"compact", "record"}
    /\ Try(mpc = "compact")
    /\ mpc' = IF final THEN "exited" ELSE "idle"
    /\ NoPass
    /\ UNCHANGED <<walVars, storeVars, layout, phase>>

-----------------------------------------------------------------------------
(* A crash takes the maintenance thread with it.                           *)
ThreadGone ==
    /\ phase' = FALSE
    /\ mpc' = "idle"
    /\ clean' = FALSE
    /\ NoPass
    /\ UNCHANGED <<files, durable, committed, layout, faults>>

(* The process is killed and the catalog stays as it is, or the machine    *)
(* loses power and the catalog comes back as its last checkpoint.          *)
ProcessCrash ==
    /\ Crash \/ \E l \in Logs : CrashInCreate(l)
    /\ \/ UNCHANGED <<catalog, merged>>
       \/ catalog' = durable.catalog /\ merged' = durable.merged
    /\ ThreadGone

(* Catalog::rebuild, run by the offline commands: one row per file found.  *)
Rebuild ==
    /\ wpc = "down"
    /\ catalog' = files
    /\ committed' = files
    /\ UNCHANGED merged
    /\ Checkpointed
    /\ UNCHANGED <<walVars, files, layout, phase, mpc, passVars>>

MaintenanceNext ==
    \/ StartPass \/ ReadLateActive \/ ListSegments
    \/ \E s \in queue : SkipSegment(s) \/ ReplaySegment(s)
    \/ \E p \in Partitions : WritePartition(p)
    \/ CommitMerge \/ RemoveMerged \/ EndOfLog \/ MergeFails
    \/ \E p \in Partitions, inputs \in SUBSET files : WriteCompacted(p, inputs)
    \/ RecordCompaction
    \/ \E f \in todo : UnlinkInput(f)
    \/ EndPass

MergeNext ==
    \/ WriterNext /\ UNCHANGED mergeVars
    \/ MaintenanceNext
    \/ WriterJoined
    \/ ChangePolicy
    \/ ProcessCrash
    \/ Rebuild

MergeSpec == MergeInit /\ [][MergeNext]_vars

-----------------------------------------------------------------------------
(* Properties.                                                             *)

(* A power loss has taken commits back, and no rebuild or later commit has *)
(* brought them back.                                                      *)
Behind == catalog # committed

(* An acknowledged record is on disk, in a WAL segment or in a file of the *)
(* store, at every step of merge, commit, delete, compaction, crash and    *)
(* restart, so that Catalog::rebuild finds it; and a reader reaches it     *)
(* through the catalog, unless a power loss has taken back the commit that *)
(* listed its file.                                                        *)
AckedReachable ==
    /\ acked \subseteq OnDisk \cup Rows(files)
    /\ ~Behind => acked \subseteq OnDisk \cup Rows(catalog)

(* Every file the catalog lists is on disk, and so are the rows it was     *)
(* listed with: there, in another file, or in a segment still to be        *)
(* merged.  (After a rebuild a new policy may write a listed file over     *)
(* with fewer rows before the segment is committed again.)  A catalog that *)
(* a power loss has set back may list inputs of a compaction that are      *)
(* gone; the rows it lists are on disk all the same, in the output.        *)
CatalogOnDisk ==
    /\ ~Behind => \A g \in catalog : \E f \in files : PathOf(f) = PathOf(g)
    /\ Rows(catalog) \subseteq OnDisk \cup Rows(files)

(* The merger never reads or deletes a segment the writer has open, and    *)
(* deletes nothing the writer could still append to (merge.rs skips every  *)
(* id at or above the published one).                                      *)
MergerAvoidsOpenSegment ==
    \A s \in queue \cup {cur} : Running => \A l \in Logs : s.uuid # wal[l].uuid \/ s.uuid = 0

(* No row is stored twice: a segment merged again after a crash or an      *)
(* error rewrites the files of the first attempt.                          *)
NoDuplicateRows == Repeated(files) = {}

(* A clean stop leaves nothing behind: when the last pass met no error,    *)
(* every record is in the store and the WAL holds none.                    *)
CleanStopMergesAll == mpc = "exited" /\ clean => OnDisk = {}

(* What is on disk stays there, in a segment or in the store: no rename,   *)
(* unlink or crash loses a row.  A file written over another holds its     *)
(* rows or leaves them in the segment it is written from, a segment is     *)
(* removed only when its rows are in files, and compaction removes its     *)
(* inputs only when their rows are in the output.                          *)
StoreKeepsRows == [][OnDisk \cup Rows(files) \subseteq OnDisk' \cup Rows(files')]_vars

(* Merge implements DurableLog: moving records to Parquet loses none that  *)
(* was acknowledged.                                                       *)
DurableStore == INSTANCE DurableLog WITH
    Record <- Records,
    stored <- OnDisk \cup Buffered \cup late \cup Rows(files),
    healthy <- wpc \notin {"down", "failed"}

MergeImplementsDurableLog == DurableStore!DSpec

(* What the maintenance thread keeps to at every step beside the writer:   *)
(* an acknowledged record can be reached, an open segment is left alone,   *)
(* and after a clean stop no record waits in the WAL.                      *)
MergeInv == CatalogTypeOK /\ MergeTypeOK /\ AckedReachable /\ MergerAvoidsOpenSegment /\ CleanStopMergesAll
=============================================================================
