------------------------------ MODULE SplitWal ------------------------------
(***************************************************************************)
(* The write-ahead log of wal.rs: two logs ("main" and the late spool)     *)
(* behind one writer thread, group commit, segment rolls, the published    *)
(* synced-record count, crashes and reopening.                             *)
(*                                                                         *)
(* A record is its position in the order the writer takes records from the *)
(* ingest queue: 1, 2, 3, ...  A frame is the set of records one append    *)
(* wrote.  A segment on disk holds the records of its synced frames; the   *)
(* frames written since the last fdatasync are in the writer's `buf`, and  *)
(* a crash keeps a prefix of them (a torn tail is cut by the reader).      *)
(* Sizes are counted in records.                                           *)
(***************************************************************************)
EXTENDS Naturals, FiniteSets

CONSTANTS
    SegmentRecords,   \* [Logs -> Nat]: wal_segment_bytes and late_segment_bytes
    SameMs,           \* may two segments be created within one millisecond?
    BatchMax,         \* bound: records per batch
    MaxRecords,       \* bound: records ever handed to the writer
    MaxStarts         \* bound: times the process is started

Logs == {"main", "late"}

ASSUME SplitWalAssumption ==
    /\ SegmentRecords \in [Logs -> Nat \ {0}]
    /\ SameMs \in BOOLEAN
    /\ BatchMax \in Nat
    /\ MaxRecords \in Nat
    /\ MaxStarts \in Nat

VARIABLES
    segs,        \* the segment files on disk, of both directories
    wal,         \* the two WalWriter structs
    made,        \* segments ever created: the next UUID
    clock,       \* the millisecond part of the newest UUIDv7
    wpc,         \* where the writer thread is
    stopping,    \* the writer has seen `stop` and takes its last batch
    late,        \* the late part of the batch being appended
    total,       \* records ever taken from the queue
    base,        \* value of total when this process started
    published,   \* the synced-record count acks are judged against
    active,      \* the segment ids published for the maintenance thread
    starts,      \* times the process was started
    acked        \* history: records covered by a published count

walVars == <<segs, wal, made, clock, wpc, stopping, late, total, base, published, active, starts, acked>>

Records == 1 .. MaxRecords
Frames == SUBSET Nat

Segment == [log : Logs, id : Nat \ {0}, uuid : Nat, ms : Nat, hdr : BOOLEAN, recs : SUBSET Nat]

(* The fields of struct WalWriter: the open segment's id and UUID, its     *)
(* length, the frames not yet synced, and the three record counts.         *)
WalWriter == [id : Nat, uuid : Nat, len : Nat, buf : SUBSET Frames,
              written : Nat, synced : Nat, reported : Nat]

ClosedWriter == [id |-> 0, uuid |-> 0, len |-> 0, buf |-> {}, written |-> 0, synced |-> 0, reported |-> 0]

ClosedWriters == [l \in Logs |-> ClosedWriter]

WriterSteps == {"down", "openLate", "idle", "late", "sync", "publish", "activeLate", "activeMain",
                "drain", "lastSync", "lastPublish", "failed", "done"}

TypeOK ==
    /\ segs \in SUBSET Segment
    /\ wal \in [Logs -> WalWriter]
    /\ made \in Nat
    /\ clock \in Nat
    /\ wpc \in WriterSteps
    /\ stopping \in BOOLEAN
    /\ late \in SUBSET Nat
    /\ total \in Nat
    /\ base \in Nat
    /\ published \in Nat
    /\ active \in [Logs -> Nat]
    /\ starts \in Nat
    /\ acked \in SUBSET Nat

-----------------------------------------------------------------------------
(* The methods of WalWriter, as functions on the writer's state            *)
(* st = [segs, wal, made, clock].                                          *)

State == [segs |-> segs, wal |-> wal, made |-> made, clock |-> clock]

Ticks == IF SameMs THEN {0, 1} ELSE {1}

Become(st) ==
    /\ segs' = st.segs
    /\ wal' = st.wal
    /\ made' = st.made
    /\ clock' = st.clock

(* create_segment: a new file with a fresh UUID, header synced.            *)
CreateSegment(st, l, id, tick) ==
    [segs |-> st.segs \cup {[log |-> l, id |-> id, uuid |-> st.made + 1, ms |-> st.clock + tick,
                             hdr |-> TRUE, recs |-> {}]},
     wal |-> [st.wal EXCEPT ![l] = [@ EXCEPT !.id = id, !.uuid = st.made + 1, !.len = 0]],
     made |-> st.made + 1,
     clock |-> st.clock + tick]

(* The records of frames fs reach the file the writer has open.            *)
Flush(ss, w, fs) == {IF s.uuid = w.uuid THEN [s EXCEPT !.recs = @ \cup UNION fs] ELSE s : s \in ss}

(* WalWriter::sync                                                         *)
SyncLog(st, l) ==
    [segs |-> Flush(st.segs, st.wal[l], st.wal[l].buf),
     wal |-> [st.wal EXCEPT ![l] = [@ EXCEPT !.buf = {}, !.synced = st.wal[l].written]],
     made |-> st.made,
     clock |-> st.clock]

(* Mutant of Roll: the old file is dropped without a sync, and counted.    *)
RollUnsynced(st, l, tick) ==
    CreateSegment([st EXCEPT !.wal = [@ EXCEPT ![l] = [@ EXCEPT !.buf = {}, !.synced = st.wal[l].written]]],
                  l, st.wal[l].id + 1, tick)

(* WalWriter::roll                                                         *)
Roll(st, l, tick) == CreateSegment(SyncLog(st, l), l, st.wal[l].id + 1, tick)

(* WalWriter::append: one frame, then a roll when the segment is full.     *)
Grown(st, l, recs) ==
    [segs |-> st.segs,
     wal |-> [st.wal EXCEPT ![l] = [@ EXCEPT !.buf = st.wal[l].buf \cup {recs},
                                             !.len = st.wal[l].len + Cardinality(recs),
                                             !.written = st.wal[l].written + Cardinality(recs)]],
     made |-> st.made,
     clock |-> st.clock]

AppendLog(st, l, recs, tick) ==
    IF recs = {} THEN st
    ELSE IF st.wal[l].len + Cardinality(recs) >= SegmentRecords[l] THEN Roll(Grown(st, l, recs), l, tick)
    ELSE Grown(st, l, recs)

(* WalWriter::roll_if_due, for the late spool.  current_started is set by  *)
(* the first append of a segment and cleared by a roll, so it is nonzero   *)
(* exactly when the segment holds a record; `due` is the clock's verdict.  *)
RollIfDue(st, due, tick) == IF due /\ st.wal["late"].len > 0 THEN Roll(st, "late", tick) ELSE st

(* WalWriter::maybe_sync without its result: `elapsed` says whether the    *)
(* byte or time threshold has been crossed.                                *)
MaybeSyncLog(st, l, elapsed) == IF st.wal[l].buf # {} /\ elapsed THEN SyncLog(st, l) ELSE st

(* What the two maybe_sync calls return, or'ed.                            *)
Advanced(st) == \E l \in Logs : st.wal[l].synced > st.wal[l].reported

Reported(st) ==
    [segs |-> st.segs,
     wal |-> [l \in Logs |-> [st.wal[l] EXCEPT !.reported = st.wal[l].synced]],
     made |-> st.made,
     clock |-> st.clock]

(* Mutant of SyncBoth: the late spool is forgotten.                        *)
SyncMainOnly(st) == MaybeSyncLog(st, "main", TRUE)

(* SplitWal::sync                                                          *)
SyncBoth(st) == MaybeSyncLog(MaybeSyncLog(st, "main", TRUE), "late", TRUE)

(* The count SplitWal::sync and SplitWal::maybe_sync return.               *)
RecordsWritten == wal["main"].written + wal["late"].written

-----------------------------------------------------------------------------
(* What is where.                                                          *)

OnDisk == UNION {s.recs : s \in segs}

Buffered == UNION (wal["main"].buf \cup wal["late"].buf)

Running == wpc \in WriterSteps \ {"down", "failed", "done"}

-----------------------------------------------------------------------------
Init ==
    /\ segs = {}
    /\ wal = ClosedWriters
    /\ made = 0
    /\ clock = 0
    /\ wpc = "down"
    /\ stopping = FALSE
    /\ late = {}
    /\ total = 0
    /\ base = 0
    /\ published = 0
    /\ active = [l \in Logs |-> 0]
    /\ starts = 0
    /\ acked = {}

(* WalWriter::open takes the id after the last file in the directory, or 1 *)
(* when the directory is empty.                                            *)
NextId(l) ==
    LET ids == {s.id : s \in {x \in segs : x.log = l}}
    IN  IF ids = {} THEN 1 ELSE 1 + CHOOSE i \in ids : \A j \in ids : j <= i

(* SplitWal::open, the main log first.  Every count starts from zero.      *)
OpenMain ==
    /\ wpc = "down"
    /\ starts < MaxStarts
    /\ \E t \in Ticks : Become(CreateSegment(State, "main", NextId("main"), t))
    /\ starts' = starts + 1
    /\ base' = total
    /\ published' = 0
    /\ active' = [l \in Logs |-> 0]
    /\ stopping' = FALSE
    /\ wpc' = "openLate"
    /\ UNCHANGED <<late, total, acked>>

OpenLate ==
    /\ wpc = "openLate"
    /\ \E t \in Ticks : Become(CreateSegment(State, "late", NextId("late"), t))
    /\ wpc' = "activeLate"
    /\ UNCHANGED <<stopping, late, total, base, published, active, starts, acked>>

(* SplitWal::append of the next n records, those in L being older than the *)
(* late cutoff: the on-time part goes to the main log.                     *)
AppendMain(n, L, next) ==
    /\ total + n <= MaxRecords
    /\ L \subseteq total + 1 .. total + n
    /\ \E t \in Ticks : Become(AppendLog(State, "main", (total + 1 .. total + n) \ L, t))
    /\ total' = total + n
    /\ late' = L
    /\ wpc' = IF L # {} THEN "late" ELSE next
    /\ UNCHANGED <<base, published, active, starts, acked>>

(* A pass of the writer loop starts with a batch from the queue, possibly  *)
(* empty.  A pass that sees both an empty batch and `stop` is the last.    *)
Pass(n, L, stop) ==
    /\ wpc = "idle"
    /\ AppendMain(n, L, "sync")
    /\ stopping' = (stop /\ n = 0)

(* The drain of what is left in the queue, on the way out.                 *)
Drain(n, L) ==
    /\ wpc = "drain"
    /\ AppendMain(n, L, "lastSync")
    /\ UNCHANGED stopping

(* The late part of SplitWal::append: append_at, which first rolls a       *)
(* segment that is due.                                                    *)
AppendLate ==
    /\ wpc = "late"
    /\ \E due \in BOOLEAN, t1, t2 \in Ticks :
          Become(AppendLog(RollIfDue(State, due, t1), "late", late, t2))
    /\ late' = {}
    /\ wpc' = IF stopping THEN "lastSync" ELSE "sync"
    /\ UNCHANGED <<stopping, total, base, published, active, starts, acked>>

(* Mutant of MaybeSync: only a sync done by the call itself is reported,   *)
(* not the one of an earlier roll inside append.                           *)
MaybeSyncOwnOnly(due, elapsedMain, elapsedLate) ==
    /\ wpc = "sync"
    /\ \E t \in Ticks :
       \E rolled \in {RollIfDue(State, due, t)} :
       \E st \in {MaybeSyncLog(MaybeSyncLog(rolled, "main", elapsedMain), "late", elapsedLate)} :
          LET own == \E l \in Logs : st.wal[l].synced > rolled.wal[l].synced
          IN  /\ Become(IF own THEN SyncBoth(Reported(st)) ELSE Reported(st))
              /\ wpc' = IF own THEN "publish" ELSE "activeLate"
    /\ UNCHANGED <<stopping, late, total, base, published, active, starts, acked>>

(* SplitWal::maybe_sync.  Each \E over a singleton names the state after   *)
(* one of its calls.                                                       *)
MaybeSync(due, elapsedMain, elapsedLate) ==
    /\ wpc = "sync"
    /\ \E t \in Ticks :
       \E rolled \in {RollIfDue(State, due, t)} :
       \E st \in {MaybeSyncLog(MaybeSyncLog(rolled, "main", elapsedMain), "late", elapsedLate)} :
       \E new \in {IF Advanced(st) THEN SyncBoth(Reported(st)) ELSE Reported(st)} :
          /\ Become(new)
          /\ wpc' = IF Advanced(st) THEN "publish" ELSE "activeLate"
    /\ UNCHANGED <<stopping, late, total, base, published, active, starts, acked>>

(* The sync after the drain.                                               *)
LastSync ==
    /\ wpc = "lastSync"
    /\ Become(SyncBoth(State))
    /\ wpc' = "lastPublish"
    /\ UNCHANGED <<stopping, late, total, base, published, active, starts, acked>>

(* WalAcks::publish: from here on a HEC poll or a peer request may answer  *)
(* for the first `published` records of this process.  After the last one  *)
(* the writer returns and drops its two logs, which have nothing unsynced. *)
Publish ==
    /\ wpc \in {"publish", "lastPublish"}
    /\ published' = RecordsWritten
    /\ acked' = acked \cup (base + 1 .. base + RecordsWritten)
    /\ wpc' = IF wpc = "publish" THEN "activeLate" ELSE "done"
    /\ wal' = IF wpc = "publish" THEN wal ELSE ClosedWriters
    /\ UNCHANGED <<segs, made, clock, stopping, late, total, base, active, starts>>

(* publish_active: the late id first, then the main id.                    *)
PublishActive(l) ==
    /\ wpc = IF l = "late" THEN "activeLate" ELSE "activeMain"
    /\ active' = [active EXCEPT ![l] = wal[l].id]
    /\ wpc' = IF l = "late" THEN "activeMain" ELSE IF stopping THEN "drain" ELSE "idle"
    /\ UNCHANGED <<segs, wal, made, clock, stopping, late, total, base, published, starts, acked>>

(* What may be left of a log's unsynced frames when its last sync does not *)
(* happen or does not succeed: those up to some record k.                  *)
Survivors(l) == {{f \in wal[l].buf : \A r \in f : r <= k} : k \in 0 .. total}

Torn(kept) == Flush(Flush(segs, wal["main"], kept["main"]), wal["late"], kept["late"])

(* A write or sync error ends the writer thread; the Drop of each          *)
(* WalWriter still tries to sync, and may fail too.  Records of the batch  *)
(* at hand that reached no log are gone.  Nothing is published any more.   *)
WriterError ==
    /\ wpc \in {"openLate", "idle", "late", "sync", "drain", "lastSync"}
    /\ \E m \in Survivors("main"), n \in Survivors("late") :
          segs' = Torn([main |-> m, late |-> n])
    /\ wal' = ClosedWriters
    /\ late' = {}
    /\ wpc' = "failed"
    /\ UNCHANGED <<made, clock, stopping, total, base, published, active, starts, acked>>

(* The process is gone; `torn` is the set of segment files left behind     *)
(* without a header.                                                       *)
CrashLeaving(kept, torn) ==
    /\ segs' = Torn(kept) \cup torn
    /\ made' = made + Cardinality(torn)
    /\ wal' = ClosedWriters
    /\ wpc' = "down"
    /\ stopping' = FALSE
    /\ late' = {}
    /\ published' = 0
    /\ active' = [l \in Logs |-> 0]
    /\ UNCHANGED <<clock, total, base, acked>>

(* kill -9, power loss, or the process exiting.                            *)
Crash ==
    /\ wpc # "down"
    /\ \E m \in Survivors("main"), n \in Survivors("late") :
          CrashLeaving([main |-> m, late |-> n], {})
    /\ UNCHANGED starts

(* The same in the middle of create_segment, for a roll (which has synced  *)
(* its log first) or for the first segment of a start.                     *)
CrashInCreate(l) ==
    /\ \/ Running /\ UNCHANGED starts
       \/ wpc = "down" /\ l = "main" /\ starts < MaxStarts /\ starts' = starts + 1
    /\ \E m \in Survivors("main"), n \in Survivors("late") :
          /\ IF l = "main" THEN m = wal["main"].buf ELSE n = wal["late"].buf
          /\ CrashLeaving([main |-> m, late |-> n],
                          {[log |-> l, id |-> NextId(l), uuid |-> made + 1, ms |-> clock,
                            hdr |-> FALSE, recs |-> {}]})

WriterNext ==
    \/ OpenMain \/ OpenLate
    \/ \E n \in 0 .. BatchMax, L \in SUBSET Records :
          \/ \E stop \in BOOLEAN : Pass(n, L, stop)
          \/ Drain(n, L)
    \/ AppendLate
    \/ \E due, elapsedMain, elapsedLate \in BOOLEAN : MaybeSync(due, elapsedMain, elapsedLate)
    \/ LastSync \/ Publish
    \/ \E l \in Logs : PublishActive(l)
    \/ WriterError

Next ==
    \/ WriterNext
    \/ Crash
    \/ \E l \in Logs : CrashInCreate(l)

Spec == Init /\ [][Next]_walVars

-----------------------------------------------------------------------------
(* Properties.                                                             *)

(* A published synced-record count never covers a record that is still in  *)
(* a buffer: every record a sender was told it may forget is in a segment  *)
(* on disk, through rolls, write errors, crashes and restarts              *)
(* (SplitWal::maybe_sync publishes only with both logs synced).            *)
AckedDurable == acked \subseteq OnDisk

(* Nothing that is on disk waits for a publish that will not come: once a  *)
(* pass is over, either some frame is still unsynced or the published      *)
(* count is the whole count.  A sync done by a roll inside append counts   *)
(* too (WalWriter::maybe_sync reports it through reported_records).        *)
SyncedIsPublished == wpc = "idle" /\ Buffered = {} => published = RecordsWritten

(* What the maintenance thread relies on: a segment below the published    *)
(* active id is never written again, nor is any segment of an earlier      *)
(* process (merge.rs skips ids >= active and reads the rest unlocked).     *)
ClosedSegmentsFrozen ==
    [][\A s \in segs : (s.id < active[s.log] \/ wpc = "down") => s \in segs']_walVars

(* SplitWal implements DurableLog.                                         *)
Durable == INSTANCE DurableLog WITH
    Record <- Records,
    stored <- OnDisk \cup Buffered \cup late,
    healthy <- wpc \notin {"down", "failed"}

ImplementsDurableLog == Durable!DSpec

-----------------------------------------------------------------------------
(* Fairness: a started writer keeps looping (next_batch returns within its *)
(* timeout), and each of the three clock conditions of maybe_sync, once    *)
(* true, stays true until it is acted on.                                  *)
WriterLoop ==
    \/ OpenLate
    \/ \E n \in 0 .. BatchMax, L \in SUBSET Records : Pass(n, L, FALSE) \/ Drain(n, L)
    \/ AppendLate
    \/ \E due, elapsedMain, elapsedLate \in BOOLEAN : MaybeSync(due, elapsedMain, elapsedLate)
    \/ LastSync \/ Publish
    \/ \E l \in Logs : PublishActive(l)

Fairness ==
    /\ WF_walVars(WriterLoop)
    /\ SF_walVars(\E b1, b2 \in BOOLEAN : MaybeSync(TRUE, b1, b2))
    /\ SF_walVars(\E b1, b2 \in BOOLEAN : MaybeSync(b1, TRUE, b2))
    /\ SF_walVars(\E b1, b2 \in BOOLEAN : MaybeSync(b1, b2, TRUE))

FairSpec == Spec /\ Fairness

(* Every record the writer took is acknowledged, unless the writer stops   *)
(* running first: neither the size of the traffic nor which log a record   *)
(* fell in can leave it unpublished for ever.                              *)
TakenIsAcked ==
    \A r \in Records : (Running /\ base < r /\ r <= total) ~> (r \in acked \/ ~Running)

(* A record of the late spool reaches a segment the merge may take, even   *)
(* when no further late record arrives (roll_if_due on every pass).        *)
LateSegmentCloses ==
    \A r \in Records : (Running /\ r \in late)
        ~> (~Running \/ \E s \in segs : r \in s.recs /\ s.id < active[s.log])

(* What the writer keeps to at every step: no published count covers a     *)
(* record that is not on disk.                                             *)
WalInv == TypeOK /\ AckedDurable

(* What run_wal_writer publishes is true for those who read it: the synced *)
(* count is never ahead of what is on disk, nor behind it once a pass is   *)
(* over, and a segment below the active ids no longer changes.             *)
PublishedIsTrue == [](AckedDurable /\ SyncedIsPublished) /\ ClosedSegmentsFrozen
=============================================================================
