------------------------------ MODULE AckTable ------------------------------
(***************************************************************************)
(* HEC indexer acknowledgement: the request threads of hec.rs, the ack     *)
(* table of hec/ack.rs, and the two threads that feed it, the record path  *)
(* of main.rs (which binds a batch to a record count) and the WAL writer   *)
(* (which publishes how many records are on disk).                         *)
(*                                                                         *)
(* A batch is its sequence number and the records of it that the ingest    *)
(* queue accepts.  Records that are shed, refused or cut off by the record *)
(* cap are not in `enqueued`, and the record path binds the batch all the  *)
(* same, unlike a peer's: an ack speaks of the accepted records only, and  *)
(* of a batch with none it is TRUE at once.  The table lives in memory: a  *)
(* crash empties it, while the clients keep the ids they were given        *)
(* (`receipts`).                                                           *)
(***************************************************************************)
EXTENDS Naturals, Sequences, FiniteSets

CONSTANTS
    Threads,          \* request threads of the HEC receiver
    Channels,         \* X-Splunk-Request-Channel values
    NoChannel,        \* a request without one
    MaxOutstanding,   \* MAX_OUTSTANDING_PER_CHANNEL
    HandoffCapacity,  \* capacity of the channel to the record path
    AckBatchMax,         \* bound: records of a batch
    MaxBatches,       \* bound: batches per process
    MaxAckStarts         \* bound: processes

ASSUME AckTableAssumption ==
    /\ IsFiniteSet(Threads)
    /\ NoChannel \notin Channels
    /\ MaxOutstanding \in Nat \ {0}
    /\ HandoffCapacity \in Nat \ {0}
    /\ AckBatchMax \in Nat
    /\ MaxBatches \in Nat
    /\ MaxAckStarts \in Nat \ {0}

VARIABLES
    channels,     \* Inner::channels
    watermarks,   \* Inner::watermarks: batch -> records that must be synced
    next_batch,   \* the next batch sequence
    ackReq,       \* where each request thread is
    handoff,      \* batches on their way to the record path
    work,         \* the batch the record path is submitting, 0 for none
    left,         \* records of it still to be submitted
    recordsEnqueued, \* records the ingest queue has accepted
    ackSynced,    \* records the WAL writer has published as synced
    ackStarts,       \* processes started so far
    given,        \* history: the batches of each channel's ids, in order
    last,         \* history: last WAL position of each batch bound so far
    receipts      \* history: the ids clients hold, with the batch they mean

tableVars == <<channels, watermarks, next_batch>>
pipeVars == <<handoff, work, left, recordsEnqueued, ackSynced>>
histVars == <<given, last, receipts>>
ackTableVars == <<tableVars, ackReq, pipeVars, ackStarts, histVars>>

AckRequestSteps == {"idle", "send", "load", "issue", "reply", "refused"}

Idle == [at |-> "idle", channel |-> NoChannel, seq |-> 0, seen |-> 0, id |-> 0]

AckTypeOK ==
    /\ \A c \in Channels :
          /\ channels[c].next_id \in Nat
          /\ channels[c].durable_floor \in 0 .. channels[c].next_id
          /\ DOMAIN channels[c].pending = channels[c].durable_floor .. channels[c].next_id - 1
          /\ \A i \in DOMAIN channels[c].pending : channels[c].pending[i] \in 1 .. MaxBatches
    /\ DOMAIN watermarks \subseteq 1 .. MaxBatches
    /\ \A s \in DOMAIN watermarks : watermarks[s] \in Nat
    /\ next_batch \in Nat \ {0}
    /\ ackReq \in [Threads -> [at : AckRequestSteps, channel : Channels \cup {NoChannel},
                            seq : Nat, seen : Nat, id : Nat]]
    /\ handoff \in Seq(1 .. MaxBatches)
    /\ work \in 0 .. MaxBatches
    /\ left \in 0 .. AckBatchMax
    /\ recordsEnqueued \in Nat
    /\ ackSynced \in 0 .. recordsEnqueued
    /\ ackStarts \in 1 .. MaxAckStarts

-----------------------------------------------------------------------------
NewChannel == [next_id |-> 0, durable_floor |-> 0, pending |-> <<>>]

AckInit ==
    /\ channels = [c \in Channels |-> NewChannel]
    /\ watermarks = <<>>
    /\ next_batch = 1
    /\ ackReq = [t \in Threads |-> Idle]
    /\ handoff = <<>>
    /\ work = 0
    /\ left = 0
    /\ recordsEnqueued = 0
    /\ ackSynced = 0
    /\ ackStarts = 1
    /\ given = [c \in Channels |-> <<>>]
    /\ last = <<>>
    /\ receipts = {}

(* A batch is durable when it is bound and its count has been reached.     *)
AckDurable(seq, s) == seq \in DOMAIN watermarks /\ s >= watermarks[seq]

(* has_capacity                                                            *)
HasCapacity(c) == Cardinality(DOMAIN channels[c].pending) < MaxOutstanding

AckGoto(t, step) == ackReq' = [ackReq EXCEPT ![t] = [@ EXCEPT !.at = step]]

(* A request is parsed and authorised, finds room among the channel's      *)
(* outstanding acks and takes a sequence number; or is answered 503.       *)
CheckCapacity(t, c) ==
    /\ ackReq[t].at = "idle"
    /\ IF c = NoChannel \/ HasCapacity(c)
       THEN /\ next_batch <= MaxBatches
            /\ next_batch' = next_batch + 1
            /\ ackReq' = [ackReq EXCEPT ![t] = [Idle EXCEPT !.at = "send", !.channel = c, !.seq = next_batch]]
       ELSE /\ ackReq' = [ackReq EXCEPT ![t] = [Idle EXCEPT !.at = "refused", !.channel = c]]
            /\ UNCHANGED next_batch
    /\ UNCHANGED <<channels, watermarks, pipeVars, ackStarts, histVars>>

(* The sink hands the batch to the record path.                            *)
Accepted(t) ==
    /\ ackReq[t].at = "send"
    /\ Len(handoff) < HandoffCapacity
    /\ handoff' = Append(handoff, ackReq[t].seq)
    /\ AckGoto(t, IF ackReq[t].channel = NoChannel THEN "reply" ELSE "load")
    /\ UNCHANGED <<tableVars, work, left, recordsEnqueued, ackSynced, ackStarts, histVars>>

(* The sink finds no room in the ingest queue, or none in the channel.     *)
AckBusy(t) ==
    /\ ackReq[t].at = "send"
    /\ AckGoto(t, "refused")
    /\ UNCHANGED <<tableVars, pipeVars, ackStarts, histVars>>

(* issue loads the synced count before it takes the lock.                  *)
LoadSynced(t) ==
    /\ ackReq[t].at = "load"
    /\ ackReq' = [ackReq EXCEPT ![t] = [@ EXCEPT !.at = "issue", !.seen = ackSynced]]
    /\ UNCHANGED <<tableVars, pipeVars, ackStarts, histVars>>

(* Mutant of NewFloor: the floor jumps over an id that is not durable.     *)
NewFloorJumps(chan, s) ==
    CHOOSE f \in chan.durable_floor .. chan.next_id :
        /\ \A g \in f .. chan.next_id - 1 : ~AckDurable(chan.pending[g], s)
        /\ f = chan.durable_floor \/ AckDurable(chan.pending[f - 1], s)

(* retire_durable_prefix stops at the first pending id that is not durable.*)
NewFloor(chan, s) ==
    CHOOSE f \in chan.durable_floor .. chan.next_id :
        /\ f = chan.next_id \/ (f \in DOMAIN chan.pending /\ ~AckDurable(chan.pending[f], s))
        /\ \A g \in chan.durable_floor .. f - 1 :
              g \in DOMAIN chan.pending => AckDurable(chan.pending[g], s)

TakenOut(f, S) == [x \in DOMAIN f \ S |-> f[x]]

Retired(chan, s) ==
    [next_id |-> chan.next_id,
     durable_floor |-> NewFloor(chan, s),
     pending |-> TakenOut(chan.pending, chan.durable_floor .. NewFloor(chan, s) - 1)]

(* issue: the next id of the channel, then retirement from the bottom,     *)
(* which drops each retired id's watermark with it.                        *)
Issue(t) ==
    /\ ackReq[t].at = "issue"
    /\ LET c == ackReq[t].channel
           old == channels[c]
           chan == [old EXCEPT !.next_id = @ + 1,
                               !.pending = [i \in DOMAIN old.pending \cup {old.next_id} |->
                                               IF i = old.next_id THEN ackReq[t].seq ELSE old.pending[i]]]
           new == Retired(chan, ackReq[t].seen)
           gone == {chan.pending[i] : i \in DOMAIN chan.pending \ DOMAIN new.pending}
       IN  /\ channels' = [channels EXCEPT ![c] = new]
           /\ watermarks' = TakenOut(watermarks, gone)
           /\ ackReq' = [ackReq EXCEPT ![t] = [@ EXCEPT !.at = "reply", !.id = old.next_id]]
           /\ given' = [given EXCEPT ![c] = Append(@, ackReq[t].seq)]
    /\ UNCHANGED <<next_batch, pipeVars, ackStarts, last, receipts>>

(* The response reaches the client.                                        *)
Reply(t) ==
    /\ ackReq[t].at \in {"reply", "refused"}
    /\ ackReq' = [ackReq EXCEPT ![t] = Idle]
    /\ receipts' = IF ackReq[t].at = "reply" /\ ackReq[t].channel # NoChannel
                   THEN receipts \cup {[channel |-> ackReq[t].channel, id |-> ackReq[t].id,
                                        batch |-> <<ackStarts, ackReq[t].seq>>]}
                   ELSE receipts
    /\ UNCHANGED <<tableVars, pipeVars, ackStarts, given, last>>

-----------------------------------------------------------------------------
(* The record path takes a batch; n of its records will be accepted by the *)
(* queue, the rest is shed, refused or cut off.                            *)
TakeBatch(n) ==
    /\ work = 0
    /\ handoff # <<>>
    /\ work' = Head(handoff)
    /\ handoff' = Tail(handoff)
    /\ left' = n
    /\ UNCHANGED <<tableVars, ackReq, recordsEnqueued, ackSynced, ackStarts, histVars>>

SubmitRecord ==
    /\ left > 0
    /\ left' = left - 1
    /\ recordsEnqueued' = recordsEnqueued + 1
    /\ UNCHANGED <<tableVars, ackReq, handoff, work, ackSynced, ackStarts, histVars>>

(* bind, for every batch, whether or not an ack was asked for.             *)
Bind ==
    /\ work # 0
    /\ left = 0
    /\ watermarks' = [s \in DOMAIN watermarks \cup {work} |-> IF s = work THEN recordsEnqueued ELSE watermarks[s]]
    /\ last' = [b \in DOMAIN last \cup {<<ackStarts, work>>} |-> IF b = <<ackStarts, work>> THEN recordsEnqueued ELSE last[b]]
    /\ work' = 0
    /\ UNCHANGED <<channels, next_batch, ackReq, handoff, left, recordsEnqueued, ackSynced, ackStarts, given, receipts>>

(* The writer publishes the count of some prefix of the queue.             *)
PublishSyncedCount(n) ==
    /\ ackSynced < n /\ n <= recordsEnqueued
    /\ ackSynced' = n
    /\ UNCHANGED <<tableVars, ackReq, handoff, work, left, recordsEnqueued, ackStarts, histVars>>

(* What a poll is answered (query changes nothing).  The code loads        *)
(* `synced` before the lock; the count only grows, so an older value       *)
(* answers TRUE no more often.                                             *)
Query(c, id) ==
    \/ id < channels[c].durable_floor
    \/ id \in DOMAIN channels[c].pending /\ AckDurable(channels[c].pending[id], ackSynced)

(* The process dies and is started again; what was synced stays on disk.   *)
Restart ==
    /\ ackStarts < MaxAckStarts
    /\ ackStarts' = ackStarts + 1
    /\ channels' = [c \in Channels |-> NewChannel]
    /\ watermarks' = <<>>
    /\ next_batch' = 1
    /\ ackReq' = [t \in Threads |-> Idle]
    /\ handoff' = <<>>
    /\ work' = 0
    /\ left' = 0
    /\ recordsEnqueued' = 0
    /\ ackSynced' = 0
    /\ given' = [c \in Channels |-> <<>>]
    /\ last' = [b \in {x \in DOMAIN last : last[x] <= ackSynced \/ x[1] # ackStarts} |-> 0]
    /\ UNCHANGED receipts

RequestNext(t) ==
    \/ \E c \in Channels \cup {NoChannel} : CheckCapacity(t, c)
    \/ Accepted(t) \/ AckBusy(t) \/ LoadSynced(t) \/ Issue(t) \/ Reply(t)

RecordPath == (\E n \in 0 .. AckBatchMax : TakeBatch(n)) \/ SubmitRecord \/ Bind

Writer == \E n \in 1 .. MaxBatches * AckBatchMax : PublishSyncedCount(n)

AckNext ==
    \/ \E t \in Threads : RequestNext(t)
    \/ RecordPath
    \/ Writer
    \/ Restart

AckSpec == AckInit /\ [][AckNext]_ackTableVars

-----------------------------------------------------------------------------
(* Properties.                                                             *)

(* Every record of the batch that the queue accepted is on disk.  (After a *)
(* restart `last` keeps the batches that had reached the disk, at 0.)      *)
AckOnDisk(b) == b \in DOMAIN last /\ last[b] <= ackSynced

(* An ack answers TRUE only for a batch whose submission has ended, and    *)
(* whose last accepted record is synced, whether the id is still pending   *)
(* or was retired below the floor, and in whatever order batches were      *)
(* issued, bound and synced.  It says nothing of a record the queue did    *)
(* not accept, although hec/ack.rs tells clients they may forget the batch.*)
AnsweredIsDurable ==
    \A c \in Channels : \A i \in 1 .. Len(given[c]) :
        Query(c, i - 1) => AckOnDisk(<<ackStarts, given[c][i]>>)

(* An ack that has answered TRUE never answers FALSE again in the life of  *)
(* the process: retirement is invisible to a client that polls once more.  *)
AckNeverReverts ==
    [][ackStarts' = ackStarts =>
          \A c \in Channels : \A i \in 0 .. channels[c].next_id - 1 : Query(c, i) => Query(c, i)']_ackTableVars

(* A client that polls an id it holds and is answered TRUE may forget the  *)
(* batch it got that id for: what the queue accepted of it is on disk,     *)
(* across restarts of the process too.                                     *)
ToldIsOnDisk == \A r \in receipts : Query(r.channel, r.id) => AckOnDisk(r.batch)

(* hec/ack.rs, lines 4-11, of every record a client sent: the batches that *)
(* are answered TRUE, AckBatchMax records each, are on disk.  It does not  *)
(* hold: Bind does not look at how many records the queue accepted.        *)
AckMeansStored ==
    LET answered == UNION {{given[c][i] : i \in {j \in 1 .. Len(given[c]) : Query(c, j - 1)}} : c \in Channels}
    IN  AckBatchMax * Cardinality(answered) <= ackSynced

-----------------------------------------------------------------------------
(* Fairness: a request thread that has started runs on, and so do the      *)
(* record path and the writer (which syncs within its interval); clients   *)
(* retry a refused request.                                                *)
AckFairness ==
    /\ WF_ackTableVars(RecordPath)
    /\ WF_ackTableVars(Writer)
    /\ \A t \in Threads : WF_ackTableVars(Accepted(t) \/ AckBusy(t) \/ LoadSynced(t) \/ Issue(t) \/ Reply(t))
    /\ \A c \in Channels : WF_ackTableVars(\E t \in Threads : CheckCapacity(t, c))

AckFairSpec == AckSpec /\ AckFairness

(* An issued ack becomes TRUE: every batch that was accepted is bound and  *)
(* synced, or the process dies.                                            *)
IssuedIsAnswered ==
    \A c \in Channels, i \in 0 .. MaxBatches - 1, n \in 1 .. MaxAckStarts :
        (ackStarts = n /\ i < channels[c].next_id) ~> (ackStarts # n \/ Query(c, i))

(* A channel at its limit takes batches again once the WAL has caught up.  *)
ChannelReopens == \A c \in Channels : ~HasCapacity(c) ~> HasCapacity(c)

(* What the table gives a client: true means that every accepted record of *)
(* the batch is on disk, and stays true.                                   *)
AckPromise ==
    /\ [](AckTypeOK /\ AnsweredIsDurable)
    /\ AckNeverReverts
=============================================================================
