------------------------------ MODULE PeerSync ------------------------------
(***************************************************************************)
(* Peer sync (sync.rs): the tap behind the WAL writer, the control the     *)
(* admin API writes, the manual fetch, and the sender thread that moves    *)
(* records from the tap's channel to the spool and from the spool to the   *)
(* peer.  A record is a number and travels in a frame of its own.          *)
(*                                                                         *)
(* Which records the dial leaves out is PeerPlanner's; here the planner    *)
(* may leave out any record, and add one of its own at a tick.  The length *)
(* of a backoff is left out: a wait may end at any time.                   *)
(***************************************************************************)
EXTENDS Spool

CONSTANTS
    MaxOffered,     \* bound: records offered, fetched and made by the planner
    TAP_CAPACITY,   \* the channel's capacity
    FRAMES_PER_PASS,
    MaxTargets,     \* bound: changes of the settings
    MaxFetches      \* bound: manual fetches

ASSUME PeerSyncAssumption ==
    /\ {MaxOffered, MaxTargets, MaxFetches} \subseteq Nat
    /\ {TAP_CAPACITY, FRAMES_PER_PASS} \subseteq Nat \ {0}
    (* run_tuned makes a segment an eighth of the spool; a frame fits.     *)
    /\ SegmentBytes < MaxTotalBytes /\ HEADER_BYTES + FRAME_OVERHEAD + 1 < MaxTotalBytes

VARIABLES
    rx,             \* the tap's channel: items [kind, record]
    syncActive,         \* SyncControl::active
    target,         \* SyncControl::target is set
    epoch,          \* SyncControl::epoch
    setting,        \* the value set_target is storing, or "no"
    syncStop,           \* sync_stop
    recordsMade,           \* records so far
    counted,        \* records tap_dropped, dropped_records or the planner count
    leftOut,        \* records left out with no count: floor, loop, not encodable
    withdrawn,      \* records taken while there was no target
    lostItems,      \* items that went with the channel or the fetch
    rejected,       \* frames the peer will never take
    got,            \* [records -> Nat]: how often the peer received each
    sender,         \* where the sender is
    syncStopping,       \* its local: stop, as read at the top of the loop
    seen_epoch,     \* its local
    waiting,        \* now < next_attempt
    todo,           \* what peek returned and deliver has not sent
    backfill,       \* the manual fetch: status and cancel flag
    fetchHeld,      \* the record its thread has read and not sent, or 0
    fetches         \* fetches started

controlVars == <<syncActive, target, epoch, setting>>
dropVars == <<counted, leftOut, withdrawn, lostItems>>
countVars == <<recordsMade, dropVars, rejected, got>>
fetchVars == <<backfill, fetchHeld, fetches>>
senderVars == <<sender, syncStopping, seen_epoch, waiting, todo>>
syncVars == <<rx, controlVars, syncStop, countVars, senderVars, fetchVars, spoolVars>>

SenderSteps == {"top", "take", "flush", "deliver", "last", "lastDeliver", "done"}
FetchStates == {"none", "starting", "running", "done", "cancelled", "error"}

Received == {r \in 1 .. MaxOffered : got[r] > 0}

PeerSyncTypeOK ==
    /\ SpoolTypeOK
    /\ Len(rx) <= TAP_CAPACITY
    /\ syncActive \in BOOLEAN /\ target \in BOOLEAN /\ syncStop \in BOOLEAN
    /\ setting \in {"no", "on", "off"}
    /\ epoch \in 0 .. MaxTargets + 1 /\ seen_epoch \in 0 .. epoch
    /\ recordsMade \in 0 .. MaxOffered
    /\ UNION {counted, leftOut, withdrawn, rejected, Received} \subseteq 1 .. recordsMade
    /\ sender \in SenderSteps
    /\ syncStopping \in BOOLEAN /\ waiting \in BOOLEAN
    /\ Len(todo) <= FRAMES_PER_PASS
    /\ backfill.state \in FetchStates /\ backfill.cancel \in BOOLEAN
    /\ fetches \in 0 .. MaxFetches
    /\ fetchHeld \in 0 .. recordsMade /\ (fetchHeld # 0 => backfill.state = "running")

PeerSyncInit ==
    /\ SpoolInit
    /\ rx = <<>>
    /\ syncActive = TRUE /\ target = TRUE /\ epoch = 1 /\ setting = "no"
    /\ syncStop = FALSE
    /\ recordsMade = 0
    /\ counted = {} /\ leftOut = {} /\ withdrawn = {} /\ lostItems = {} /\ rejected = {}
    /\ got = [r \in 1 .. MaxOffered |-> 0]
    /\ sender = "top" /\ syncStopping = FALSE /\ seen_epoch = 1 /\ waiting = FALSE /\ todo = <<>>
    /\ backfill = [state |-> "none", cancel |-> FALSE]
    /\ fetchHeld = 0 /\ fetches = 0

NewRecord == recordsMade + 1

Item(kind, r) == [kind |-> kind, record |-> r]

(* The items in the channel, and the one the fetch has in hand.            *)
TapItems == {rx[i] : i \in DOMAIN rx}

FetchItem == {Item("backfill", h) : h \in {fetchHeld} \ {0}}

-----------------------------------------------------------------------------
(* The write path and the admin API.                                       *)

(* offer, by the WAL writer, which has ended when sync_stop is set: a      *)
(* channel that is full, or has no receiver, sheds the record and counts.  *)
offer ==
    /\ syncActive /\ recordsMade < MaxOffered
    /\ ~syncStop
    /\ recordsMade' = NewRecord
    /\ IF Len(rx) < TAP_CAPACITY /\ sender # "done"
       THEN rx' = Append(rx, Item("live", NewRecord)) /\ UNCHANGED counted
       ELSE counted' = counted \cup {NewRecord} /\ UNCHANGED rx
    /\ UNCHANGED <<controlVars, syncStop, leftOut, withdrawn, lostItems, rejected, got, senderVars, fetchVars, spoolVars>>

(* set_target stores the active flag first, then the target and the epoch. *)
set_target(on) ==
    /\ setting = "no" /\ epoch <= MaxTargets
    /\ setting' = IF on THEN "on" ELSE "off"
    /\ syncActive' = on
    /\ UNCHANGED <<rx, target, epoch, syncStop, countVars, senderVars, fetchVars, spoolVars>>

set_target_ends ==
    /\ setting # "no"
    /\ target' = (setting = "on")
    /\ epoch' = epoch + 1
    /\ setting' = "no"
    /\ UNCHANGED <<rx, syncActive, syncStop, countVars, senderVars, fetchVars, spoolVars>>

(* start_backfill: one at a time, under the status lock; the cancel flag   *)
(* is cleared afterwards, by the same call.                                *)
start_backfill ==
    /\ target /\ fetches < MaxFetches
    /\ backfill.state \notin {"starting", "running"}
    /\ backfill' = [backfill EXCEPT !.state = "starting"]
    /\ fetches' = fetches + 1
    /\ UNCHANGED <<rx, controlVars, syncStop, countVars, senderVars, fetchHeld, spoolVars>>

BackfillSpawned ==
    /\ backfill.state = "starting"
    /\ backfill' = [state |-> "running", cancel |-> FALSE]
    /\ UNCHANGED <<rx, controlVars, syncStop, countVars, senderVars, fetchHeld, fetches, spoolVars>>

cancel_backfill ==
    /\ ~backfill.cancel
    /\ backfill' = [backfill EXCEPT !.cancel = TRUE]
    /\ UNCHANGED <<rx, controlVars, syncStop, countVars, senderVars, fetchHeld, fetches, spoolVars>>

(* scan_each reads a chunk, and the thread looks at the cancel flag.       *)
BackfillReads ==
    /\ backfill.state = "running" /\ fetchHeld = 0 /\ ~backfill.cancel
    /\ recordsMade < MaxOffered
    /\ recordsMade' = NewRecord
    /\ fetchHeld' = NewRecord
    /\ UNCHANGED <<rx, controlVars, syncStop, dropVars, rejected, got, senderVars, backfill, fetches, spoolVars>>

(* The blocking send: it waits for room, whatever becomes of the cancel    *)
(* flag meanwhile.                                                         *)
BackfillSends ==
    /\ fetchHeld # 0
    /\ sender # "done" /\ Len(rx) < TAP_CAPACITY
    /\ rx' = Append(rx, Item("backfill", fetchHeld))
    /\ fetchHeld' = 0
    /\ UNCHANGED <<controlVars, syncStop, countVars, senderVars, backfill, fetches, spoolVars>>

(* The status a scan that ends without an error leaves.                    *)
ScanOver == backfill' = [backfill EXCEPT !.state = IF backfill.cancel THEN "cancelled" ELSE "done"]

(* The sender has returned and the channel has no receiver: the send       *)
(* fails, and the scan is over.                                            *)
BackfillSendFails ==
    /\ fetchHeld # 0 /\ sender = "done"
    /\ lostItems' = lostItems \cup FetchItem
    /\ fetchHeld' = 0
    /\ ScanOver
    /\ UNCHANGED <<rx, controlVars, syncStop, recordsMade, counted, leftOut, withdrawn, rejected, got, senderVars, fetches, spoolVars>>

(* Between two chunks: all of the range was sent, the fetch was cancelled, *)
(* or the store could not be read.                                         *)
BackfillEnds ==
    /\ backfill.state = "running" /\ fetchHeld = 0
    /\ \/ ScanOver
       \/ ~backfill.cancel /\ backfill' = [backfill EXCEPT !.state = "error"]
    /\ UNCHANGED <<rx, controlVars, syncStop, countVars, senderVars, fetchHeld, fetches, spoolVars>>

SyncShutdown ==
    /\ ~syncStop
    /\ syncStop' = TRUE
    /\ UNCHANGED <<rx, controlVars, countVars, senderVars, fetchVars, spoolVars>>

-----------------------------------------------------------------------------
(* The sender, run_tuned.                                                  *)

(* Another epoch than the last one seen ends the wait the old settings     *)
(* had earned.                                                             *)
LoopTop ==
    /\ sender = "top" /\ usable
    /\ syncStopping' = syncStop
    /\ seen_epoch' = epoch
    /\ waiting' = (waiting /\ epoch = seen_epoch)
    /\ sender' = "take"
    /\ UNCHANGED <<rx, controlVars, syncStop, countVars, todo, fetchVars, spoolVars>>

(* push_frames: a frame the spool does not take is counted as dropped.     *)
push_frames(r) ==
    \E taken \in BOOLEAN :
        /\ push(r, taken)
        /\ counted' = IF taken THEN counted ELSE counted \cup {r}

(* enqueue: without a target the item is dropped.  The planner keeps a     *)
(* live record for a rollup, which counts it; a record below the floor, or *)
(* one that loops or cannot be encoded, is passed over and counted nowhere.*)
enqueue ==
    /\ sender = "take" /\ rx # <<>>
    /\ rx' = Tail(rx)
    /\ LET r == Head(rx).record
       IN  \/ /\ ~target
              /\ withdrawn' = withdrawn \cup {r}
              /\ UNCHANGED <<counted, leftOut, spoolVars>>
           \/ /\ target /\ Head(rx).kind = "live"
              /\ counted' = counted \cup {r}
              /\ UNCHANGED <<leftOut, withdrawn, spoolVars>>
           \/ /\ target
              /\ leftOut' = leftOut \cup {r}
              /\ UNCHANGED <<counted, withdrawn, spoolVars>>
           \/ /\ target
              /\ push_frames(r)
              /\ UNCHANGED <<leftOut, withdrawn>>
    /\ UNCHANGED <<controlVars, syncStop, recordsMade, lostItems, rejected, got, senderVars, fetchVars>>

Closing == syncStopping

(* The channel is empty: closing is decided, and the tick pushes what the  *)
(* planner has due, if anything.                                           *)
SenderDrained ==
    /\ sender = "take" /\ rx = <<>>
    /\ sender' = IF Closing THEN "last" ELSE "flush"
    /\ \/ /\ syncActive /\ recordsMade < MaxOffered
          /\ recordsMade' = NewRecord
          /\ push_frames(NewRecord)
       \/ UNCHANGED <<recordsMade, counted, spoolVars>>
    /\ UNCHANGED <<rx, controlVars, syncStop, leftOut, withdrawn, lostItems, rejected, got, syncStopping, seen_epoch, waiting, todo, fetchVars>>

(* spool.sync, whose error is only noted; then deliver takes the frames of *)
(* this pass, unless a wait is on or there is no target.  In the last      *)
(* round it does so whatever the wait.                                     *)
FlushTap ==
    /\ sender \in {"flush", "last"}
    /\ \E ok \in BOOLEAN : sync(ok)
    /\ LET last == sender = "last"
           pass == target /\ (~waiting \/ last)
       IN  /\ todo' = IF pass THEN peek(FRAMES_PER_PASS) ELSE <<>>
           /\ sender' = IF last THEN "lastDeliver" ELSE "deliver"
    /\ UNCHANGED <<rx, controlVars, syncStop, countVars, syncStopping, seen_epoch, waiting, fetchVars>>

(* send_frame: what an answer means for the frame.                         *)
OutcomeOf(status) ==
    CASE status \in {200, 508} -> "Delivered"
      [] status \in {401, 403} -> "Unauthorized"
      [] status \in {400, 413, 415, 422} -> "Rejected"
      [] status \in {429, 503} -> "Busy"
      [] OTHER -> "Retry"

(* No answer is 0, whether or not the peer has taken the frame.            *)
Answers == {200, 508, 401, 413, 503, 500, 404, 0}

Answered(status) == OutcomeOf(status) \in {"Delivered", "Rejected"}

(* A frame the peer answered for good moves the cursor, and a cursor that  *)
(* cannot be written ends the pass.                                        *)
DeliverFrame ==
    /\ sender \in {"deliver", "lastDeliver"} /\ todo # <<>>
    /\ \E status \in Answers, ok \in BOOLEAN :
          /\ Answered(status)
          /\ status = 0 => spoolFaults < MaxSpoolFaults
          /\ got' = IF OutcomeOf(status) = "Delivered" THEN [got EXCEPT ![Head(todo).frame] = @ + 1] ELSE got
          /\ rejected' = IF OutcomeOf(status) = "Rejected" THEN rejected \cup {Head(todo).frame} ELSE rejected
          /\ commit(Head(todo).end, ok)
          /\ todo' = IF ok THEN Tail(todo) ELSE <<>>
          /\ waiting' = (waiting \/ ~ok)
    /\ UNCHANGED <<rx, controlVars, syncStop, recordsMade, dropVars, sender, syncStopping, seen_epoch, fetchVars>>

(* Any other answer leaves the frame and ends the pass.                    *)
DeliverFails ==
    /\ sender \in {"deliver", "lastDeliver"} /\ todo # <<>>
    /\ \E status \in Answers :
          /\ ~Answered(status)
          /\ \/ status = 0 /\ got' = [got EXCEPT ![Head(todo).frame] = @ + 1]
             \/ UNCHANGED got
    /\ Faulty(FALSE)
    /\ todo' = <<>>
    /\ waiting' = TRUE
    /\ UNCHANGED <<segments, onDisk, write_segment, cursor, cursorFile, accepted, hidden, gone, usable>>
    /\ UNCHANGED <<rx, controlVars, syncStop, recordsMade, dropVars, rejected, sender, syncStopping, seen_epoch, fetchVars>>

(* The pass is over.  After the last one the sender returns, and what a    *)
(* fetch has sent since the channel was found empty goes with it.          *)
PassEnds ==
    /\ sender \in {"deliver", "lastDeliver"} /\ todo = <<>>
    /\ \/ sender = "deliver" /\ sender' = "top" /\ UNCHANGED <<rx, lostItems>>
       \/ /\ sender = "lastDeliver" /\ sender' = "done"
          /\ rx' = <<>> /\ lostItems' = lostItems \cup TapItems
    /\ UNCHANGED <<controlVars, syncStop, recordsMade, counted, leftOut, withdrawn, rejected, got, syncStopping,
                   seen_epoch, waiting, todo, fetchVars, spoolVars>>

WaitEnds ==
    /\ waiting /\ sender # "done"
    /\ waiting' = FALSE
    /\ UNCHANGED <<rx, controlVars, syncStop, countVars, sender, syncStopping, seen_epoch, todo, fetchVars, spoolVars>>

(* The agent dies and starts again: the channel, the fetch and the planner *)
(* are gone, and nothing counts what they held; the settings are read      *)
(* back, and a spool that does not open ends the sender at once.           *)
SyncRestart ==
    /\ ~syncStop
    /\ CrashAndOpen \/ CrashInRoll
    /\ rx' = <<>>
    /\ lostItems' = lostItems \cup TapItems \cup FetchItem
    /\ syncActive' = target /\ setting' = "no"
    /\ sender' = IF usable' THEN "top" ELSE "done"
    /\ syncStopping' = FALSE /\ seen_epoch' = epoch /\ waiting' = FALSE /\ todo' = <<>>
    /\ backfill' = [state |-> "none", cancel |-> FALSE] /\ fetchHeld' = 0
    /\ UNCHANGED <<target, epoch, syncStop, recordsMade, counted, leftOut, withdrawn, rejected, got, fetches>>

SenderNext == LoopTop \/ enqueue \/ SenderDrained \/ FlushTap \/ DeliverFrame \/ DeliverFails \/ PassEnds

FetchNext == BackfillSpawned \/ BackfillReads \/ BackfillSends \/ BackfillSendFails \/ BackfillEnds

PeerSyncNext ==
    \/ offer
    \/ \E on \in BOOLEAN : set_target(on)
    \/ set_target_ends
    \/ start_backfill \/ cancel_backfill
    \/ FetchNext
    \/ SyncShutdown
    \/ SenderNext
    \/ WaitEnds
    \/ SyncRestart

-----------------------------------------------------------------------------
(* Properties.                                                             *)

Reachable == FramesOf(Undelivered)

FrameSettled == Received \cup rejected

(* No frame the spool took is passed over: until the peer has answered for *)
(* it, it is behind the cursor and readable, through rolls, unlinked       *)
(* segments, failed syncs and commits and restarts.  Only what a crash     *)
(* took before the sync, and what was appended behind a tear or before the *)
(* cursor of a shortened file, is not (see NothingDropped).                *)
AcceptedIsKept == accepted \ (gone \cup hidden) \subseteq FrameSettled \cup Reachable

(* sync.rs, lines 6-7: "a peer outage, a restart or a crash resends and    *)
(* never drops".  What was synced, or written after the restart, is        *)
(* answered or still to be sent.                                           *)
NothingDropped == accepted \ gone \subseteq FrameSettled \cup Reachable

(* The peer receives a frame again only after something failed: a lost     *)
(* answer, a cursor that was not written, a crash.                         *)
ResendsNeedFaults == \A r \in Received : got[r] <= 1 + spoolFaults

(* A spool that has been drained gives its room back: when nothing is left *)
(* to send, the next frame is taken.                                       *)
DrainedHasRoom == Reachable = {} /\ spoolFaults = 0 => ~NoRoom

(* Records that will never be sent, and those on their way to the spool.   *)
NeverSent == counted \cup leftOut \cup withdrawn \cup {i.record : i \in lostItems}

OnTheWay == {i.record : i \in TapItems \cup FetchItem}

(* Every record offered or fetched is in the spool, on its way there, or   *)
(* dropped, and never two of them: what the counters call dropped was not  *)
(* sent, and none disappears between the tap and the spool.  A live record *)
(* goes with the channel in a crash only, never at a shutdown, which waits *)
(* for the channel and lets no record in after it.                         *)
OfferedAccounted ==
    /\ 1 .. recordsMade = NeverSent \cup accepted \cup OnTheWay
    /\ NeverSent \cap accepted = {} /\ OnTheWay \cap (NeverSent \cup accepted) = {}
    /\ spoolFaults = 0 => \A i \in lostItems : i.kind = "backfill"

(* The threads keep running; a wait ends, and set_target returns.          *)
PeerSyncFairness ==
    /\ WF_syncVars(SenderNext) /\ WF_syncVars(WaitEnds)
    /\ WF_syncVars(set_target_ends)
    /\ WF_syncVars(FetchNext)

PeerSyncSpec == PeerSyncInit /\ [][PeerSyncNext]_syncVars /\ PeerSyncFairness

(* A frame in the spool is eventually answered, or lost to a fault, if     *)
(* failures end, the settings keep a target and the agent runs on.         *)
SpooledIsAnswered ==
    \A r \in 1 .. MaxOffered :
        r \in Reachable ~> (r \in FrameSettled \cup gone \/ ~target \/ syncStop \/ ~usable)

(* A fetch comes to an end though it waits for room in the channel, which  *)
(* the sender makes, or for a sender that has returned; and so does the    *)
(* sender once it is told.                                                 *)
FetchEnds == backfill.state = "running" ~> backfill.state # "running"

SenderEnds == syncStop ~> sender = "done"

(* What sync.rs keeps to: what was spooled is there until it is answered,  *)
(* is sent again only after a fault, a drained spool has room, and each    *)
(* record offered is accounted for.                                        *)
PeerSyncInv ==
    /\ PeerSyncTypeOK
    /\ AcceptedIsKept
    /\ ResendsNeedFaults
    /\ DrainedHasRoom
    /\ OfferedAccounted
=============================================================================
