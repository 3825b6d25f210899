----------------------------- MODULE PeerIngest -----------------------------
(***************************************************************************)
(* How a record from another instance reaches the disk: the request        *)
(* threads of peer.rs, the tickets they wait on (WalAcks), the main loop   *)
(* of main.rs that submits their batches to the ingest queue, the WAL      *)
(* writer at the other end of the queue, and the shutdown of all of them.  *)
(*                                                                         *)
(* The queue is the one of IngestQueue, with the main loop as its only     *)
(* producer.  The WAL is the sequence of records appended, of which the    *)
(* first `synced` are on disk (SplitWal says how).  Each sender has one    *)
(* batch and resends it until it hears 200.  A record is its event id.     *)
(***************************************************************************)
EXTENDS IngestQueue

CONSTANTS
    Senders,
    BatchOf,        \* [Senders -> SUBSET Record]
    PeerPending,    \* PEER_PENDING_BATCHES, capacity of the channel to the main loop
    MaxAbandoned,   \* MAX_ABANDONED
    MaxCount,       \* max_records of the command line, 0 for none
    MaxTickets,     \* bound: tickets issued
    Signals,        \* may SIGTERM arrive?
    Failures,       \* may the WAL writer meet an I/O error?
    Pressures       \* values the maintenance thread may publish: is it critical?

Main == "main"

ASSUME PeerIngestAssumption ==
    /\ Producers = {Main}
    /\ IsFiniteSet(Senders)
    /\ BatchOf \in [Senders -> SUBSET Record]
    /\ PeerPending \in Nat \ {0}
    /\ MaxAbandoned \in Nat
    /\ MaxCount \in Nat
    /\ MaxTickets \in Nat
    /\ Signals \in BOOLEAN /\ Failures \in BOOLEAN
    /\ Pressures \subseteq BOOLEAN /\ FALSE \in Pressures

VARIABLES
    req,         \* where each sender's request is, what it keeps of its batch, its ticket
    tickets,     \* AcksInner::tickets: ticket -> watermark, if bound
    abandoned,   \* AcksInner::abandoned: <<ticket, ids>>, oldest first
    waitClosed,  \* AcksInner::closed
    issued,      \* tickets issued so far
    remembered,  \* the dedupe log
    pending,     \* the channel to the main loop: <<ticket, records>>
    loop,        \* where the main thread is
    ticket,      \* the ticket of the batch being submitted
    rest,        \* its records not yet processed
    count,       \* records processed
    pressure,    \* critical disk pressure
    stop,        \* the stop flag
    peerWpc,         \* where the WAL writer is
    walog,       \* records appended to the WAL
    synced,      \* how many of them the writer has published as synced
    givenUp,     \* history: records counted as shed, closed or refused
    ok           \* history: senders that heard 200

ackVars == <<tickets, abandoned, waitClosed, issued, remembered>>
loopVars == <<pending, loop, ticket, rest, count>>
writerVars == <<peerWpc, walog, synced>>
peerVars == <<queueVars, req, ackVars, loopVars, pressure, stop, writerVars, givenUp, ok>>

NoRequest == [at |-> "idle", keep |-> {}, ticket |-> 0]

(* An Option is a set of at most one value.                                *)
Unbound == {}
Bound(w) == {w}

RequestSteps == {"idle", "settled", "room", "send", "wait", "save"}
LoopSteps == {"pass", "submit", "closing", "shutdown", "joining", "ended"}
PeerWriterSteps == {"run", "empty", "last", "final", "drop", "done", "failed"}

PeerTypeOK ==
    /\ QueueTypeOK
    /\ req \in [Senders -> [at : RequestSteps, keep : SUBSET Record, ticket : 0 .. MaxTickets]]
    /\ DOMAIN tickets \subseteq 1 .. issued
    /\ \A t \in DOMAIN tickets : tickets[t] \in {Unbound} \cup {Bound(w) : w \in 0 .. MaxReceived}
    /\ abandoned \in Seq((1 .. issued) \X SUBSET Record)
    /\ Len(abandoned) <= MaxAbandoned
    /\ waitClosed \in BOOLEAN
    /\ issued \in 0 .. MaxTickets
    /\ remembered \subseteq Record
    /\ pending \in Seq((1 .. issued) \X SUBSET Record)
    /\ loop \in LoopSteps
    /\ ticket \in 0 .. issued
    /\ rest \subseteq Record
    /\ count \in Nat
    /\ pressure \in BOOLEAN
    /\ stop \in BOOLEAN
    /\ peerWpc \in PeerWriterSteps
    /\ walog \in Seq(Record)
    /\ synced \in 0 .. Len(walog)
    /\ givenUp \subseteq Record
    /\ ok \subseteq Senders

PeerInit ==
    /\ QueueInit
    /\ req = [s \in Senders |-> NoRequest]
    /\ tickets = <<>>
    /\ abandoned = <<>>
    /\ waitClosed = FALSE
    /\ issued = 0
    /\ remembered = {}
    /\ pending = <<>>
    /\ loop = "pass"
    /\ ticket = 0
    /\ rest = {}
    /\ count = 0
    /\ pressure = FALSE
    /\ stop = FALSE
    /\ peerWpc = "run"
    /\ walog = <<>>
    /\ synced = 0
    /\ givenUp = {}
    /\ ok = {}

-----------------------------------------------------------------------------
(* PeerHandler::ingest.                                                    *)

DurableTicket(t) == t \in DOMAIN tickets /\ \E w \in tickets[t] : synced >= w

Without(f, S) == [t \in DOMAIN f \ S |-> f[t]]

Answer(s) == req' = [req EXCEPT ![s] = NoRequest]

(* An abandoned batch that has synced since its request gave up.           *)
Settled(a) == DurableTicket(a[1])

(* VecDeque::retain: the entries that stay, in their order.                *)
Retained(entries, gone) ==
    LET stay == {i \in DOMAIN entries : entries[i] \notin gone}
        rank(i) == Cardinality({j \in stay : j <= i})
    IN  [k \in 1 .. Cardinality(stay) |-> entries[CHOOSE i \in stay : rank(i) = k]]

(* settle takes them out of the table; a new request starts with it.  An   *)
(* entry whose ticket is gone is kept, and is never durable.               *)
Settle(s) ==
    /\ req[s].at = "idle"
    /\ s \notin ok
    /\ loop \in {"pass", "submit", "closing"}
    /\ issued + Cardinality({x \in Senders : req[x].at \in {"settled", "room", "send"}}) < MaxTickets
    /\ LET late == {abandoned[i] : i \in {j \in DOMAIN abandoned : Settled(abandoned[j])}}
       IN  /\ abandoned' = Retained(abandoned, late)
           /\ tickets' = Without(tickets, {a[1] : a \in late})
           /\ req' = [req EXCEPT ![s] = [at |-> "settled", keep |-> UNION {a[2] : a \in late}, ticket |-> 0]]
    /\ UNCHANGED <<queueVars, waitClosed, issued, remembered, loopVars, pressure, stop, writerVars, givenUp, ok>>

(* Their ids are saved, and the batch is filtered by the dedupe log.       *)
Dedupe(s) ==
    /\ req[s].at = "settled"
    /\ remembered' = remembered \cup req[s].keep
    /\ req' = [req EXCEPT ![s] = [at |-> "room", keep |-> BatchOf[s] \ remembered', ticket |-> 0]]
    /\ UNCHANGED <<queueVars, tickets, abandoned, waitClosed, issued, loopVars, pressure, stop, writerVars, givenUp, ok>>

(* All of the batch was a resend: 200.                                     *)
AllDuplicates(s) ==
    /\ req[s].at = "room"
    /\ req[s].keep = {}
    /\ Answer(s)
    /\ ok' = ok \cup {s}
    /\ UNCHANGED <<queueVars, ackVars, loopVars, pressure, stop, writerVars, givenUp>>

(* The sink asks whether the ingest queue has room for all of the batch,   *)
(* and answers 503 when it has not.                                        *)
CheckRoom(s) ==
    /\ req[s].at = "room"
    /\ req[s].keep # {}
    /\ IF Capacity - Len(queue) < Cardinality(req[s].keep)
       THEN Answer(s)
       ELSE req' = [req EXCEPT ![s] = [@ EXCEPT !.at = "send"]]
    /\ UNCHANGED <<queueVars, ackVars, loopVars, pressure, stop, writerVars, givenUp, ok>>

(* It issues a ticket and queues the batch; or finds the channel full,     *)
(* forgets the ticket and answers 503.                                     *)
SendPending(s) ==
    /\ req[s].at = "send"
    /\ issued' = issued + 1
    /\ IF Len(pending) < PeerPending
       THEN /\ tickets' = [t \in DOMAIN tickets \cup {issued'} |-> IF t = issued' THEN Unbound ELSE tickets[t]]
            /\ pending' = Append(pending, <<issued', req[s].keep>>)
            /\ req' = [req EXCEPT ![s] = [@ EXCEPT !.at = "wait", !.ticket = issued']]
       ELSE /\ Answer(s)
            /\ UNCHANGED <<tickets, pending>>
    /\ UNCHANGED <<queueVars, abandoned, waitClosed, remembered, loop, ticket, rest, count, pressure, stop, writerVars, givenUp, ok>>

(* WalAcks::wait: the shutdown is looked at first, then the WAL.           *)
WaitClosed(s) ==
    /\ req[s].at = "wait"
    /\ waitClosed
    /\ tickets' = Without(tickets, {req[s].ticket})
    /\ Answer(s)
    /\ UNCHANGED <<queueVars, abandoned, waitClosed, issued, remembered, loopVars, pressure, stop, writerVars, givenUp, ok>>

WaitSynced(s) ==
    /\ req[s].at = "wait"
    /\ ~waitClosed
    /\ DurableTicket(req[s].ticket)
    /\ tickets' = Without(tickets, {req[s].ticket})
    /\ req' = [req EXCEPT ![s] = [@ EXCEPT !.at = "save"]]
    /\ UNCHANGED <<queueVars, abandoned, waitClosed, issued, remembered, loopVars, pressure, stop, writerVars, givenUp, ok>>

Evicted(all) == IF Len(all) > MaxAbandoned THEN 1 ELSE 0

(* The bound passes: abandon keeps the ticket and the ids, evicting the    *)
(* oldest beyond the limit, and the answer is 503.                         *)
WaitTimedOut(s) ==
    /\ req[s].at = "wait"
    /\ ~waitClosed
    /\ ~DurableTicket(req[s].ticket)
    /\ LET all == Append(abandoned, <<req[s].ticket, req[s].keep>>)
       IN  /\ abandoned' = SubSeq(all, Evicted(all) + 1, Len(all))
           /\ tickets' = Without(tickets, {all[i][1] : i \in 1 .. Evicted(all)})
    /\ Answer(s)
    /\ UNCHANGED <<queueVars, waitClosed, issued, remembered, loopVars, pressure, stop, writerVars, givenUp, ok>>

(* The ids are saved, then 200.                                            *)
SaveIds(s) ==
    /\ req[s].at = "save"
    /\ remembered' = remembered \cup req[s].keep
    /\ Answer(s)
    /\ ok' = ok \cup {s}
    /\ UNCHANGED <<queueVars, tickets, abandoned, waitClosed, issued, loopVars, pressure, stop, writerVars, givenUp>>

-----------------------------------------------------------------------------
(* The main loop of run().                                                 *)

TakePending ==
    /\ loop = "pass"
    /\ pending # <<>>
    /\ ticket' = Head(pending)[1]
    /\ rest' = Head(pending)[2]
    /\ pending' = Tail(pending)
    /\ loop' = "submit"
    /\ UNCHANGED <<queueVars, req, ackVars, count, pressure, stop, writerVars, givenUp, ok>>

CapReached == MaxCount > 0 /\ count >= MaxCount

AtRest == sub[Main].at = "idle"

(* process: DEBUG is refused under critical pressure, anything else is     *)
(* submitted.                                                              *)
ProcessRecord(r) ==
    /\ loop = "submit"
    /\ AtRest
    /\ r \in rest
    /\ ~CapReached
    /\ rest' = rest \ {r}
    /\ count' = count + 1
    /\ IF pressure /\ ClassOf[r] = "Debug"
       THEN givenUp' = givenUp \cup {r} /\ UNCHANGED queueVars
       ELSE Submit(Main, r) /\ UNCHANGED givenUp
    /\ UNCHANGED <<req, ackVars, pending, loop, ticket, pressure, stop, writerVars, ok>>

(* The rest of submit.                                                     *)
SubmitStep ==
    /\ Send(Main) \/ Full(Main) \/ Timeout(Main) \/ Disconnected(Main)
          \/ CountEnqueued(Main) \/ CountClosed(Main) \/ Shed(Main)
    /\ givenUp' = IF sub[Main].at \in {"closed", "shed"} THEN givenUp \cup {sub[Main].record} ELSE givenUp
    /\ UNCHANGED <<req, ackVars, loopVars, pressure, stop, writerVars, ok>>

(* Mutant of Watermark: what the writer has taken so far.                  *)
WatermarkTaken == taken

(* The count a batch is bound to.                                          *)
Watermark == enqueued

(* bind, unless the request has already given its ticket up.               *)
BindTicket ==
    /\ loop = "submit"
    /\ AtRest
    /\ rest = {}
    /\ ~CapReached
    /\ tickets' = IF ticket \in DOMAIN tickets THEN [tickets EXCEPT ![ticket] = Bound(Watermark)] ELSE tickets
    /\ loop' = "pass"
    /\ ticket' = 0
    /\ UNCHANGED <<queueVars, req, abandoned, waitClosed, issued, remembered, pending, rest, count, pressure, stop, writerVars, givenUp, ok>>

(* The loop ends: at the end of a pass that finds the stop flag set, or in *)
(* the middle of a batch at the record cap.  The waiters are woken.        *)
EndLoop ==
    /\ \/ loop = "pass" /\ stop
       \/ loop = "submit" /\ AtRest /\ CapReached
    /\ loop' = "closing"
    /\ waitClosed' = TRUE
    /\ ticket' = 0
    /\ rest' = {}
    /\ UNCHANGED <<queueVars, req, tickets, abandoned, issued, remembered, pending, count, pressure, stop, writerVars, givenUp, ok>>

(* The receiver stops accepting and lets the requests in flight finish.    *)
ShutdownReceiver ==
    /\ loop = "closing"
    /\ loop' = "shutdown"
    /\ UNCHANGED <<queueVars, req, ackVars, pending, ticket, rest, count, pressure, stop, writerVars, givenUp, ok>>

(* Mutant of StopWriter: the flag is left to the signal handler.           *)
StopWriterBySignal ==
    /\ loop = "shutdown"
    /\ \A s \in Senders : req[s].at = "idle"
    /\ loop' = "joining"
    /\ UNCHANGED <<queueVars, req, ackVars, pending, ticket, rest, count, pressure, stop, writerVars, givenUp, ok>>

(* Then the writer is told to finish.                                      *)
StopWriter ==
    /\ loop = "shutdown"
    /\ \A s \in Senders : req[s].at = "idle"
    /\ loop' = "joining"
    /\ stop' = TRUE
    /\ UNCHANGED <<queueVars, req, ackVars, pending, ticket, rest, count, pressure, writerVars, givenUp, ok>>

JoinWriter ==
    /\ loop = "joining"
    /\ peerWpc \in {"done", "failed"}
    /\ loop' = "ended"
    /\ UNCHANGED <<queueVars, req, ackVars, pending, ticket, rest, count, pressure, stop, writerVars, givenUp, ok>>

(* SIGTERM sets the flag that both loops read.                             *)
Signal ==
    /\ Signals
    /\ ~stop
    /\ stop' = TRUE
    /\ UNCHANGED <<queueVars, req, ackVars, loopVars, pressure, writerVars, givenUp, ok>>

SetPressure ==
    /\ pressure' \in Pressures \ {pressure}
    /\ UNCHANGED <<queueVars, req, ackVars, loopVars, stop, writerVars, givenUp, ok>>

-----------------------------------------------------------------------------
(* The WAL writer thread.                                                  *)

(* A batch is taken and appended.                                          *)
AppendBatch(n) ==
    /\ peerWpc = "run"
    /\ Take(n)
    /\ walog' = walog \o SubSeq(queue, 1, n)
    /\ UNCHANGED <<req, ackVars, loopVars, pressure, stop, peerWpc, synced, givenUp, ok>>

(* maybe_sync synced, and the count is published.                          *)
PublishSynced ==
    /\ peerWpc \in {"run", "empty"}
    /\ synced < Len(walog)
    /\ synced' = Len(walog)
    /\ UNCHANGED <<queueVars, req, ackVars, loopVars, pressure, stop, peerWpc, walog, givenUp, ok>>

(* next_batch_lingering times out on an empty queue.                       *)
EmptyBatch ==
    /\ peerWpc = "run"
    /\ queue = <<>>
    /\ peerWpc' = "empty"
    /\ UNCHANGED <<queueVars, req, ackVars, loopVars, pressure, stop, walog, synced, givenUp, ok>>

(* The flag is read after the empty batch.                                 *)
CheckStop ==
    /\ peerWpc = "empty"
    /\ peerWpc' = IF stop THEN "last" ELSE "run"
    /\ UNCHANGED <<queueVars, req, ackVars, loopVars, pressure, stop, walog, synced, givenUp, ok>>

(* drain, with whatever the main loop has sent since.                      *)
DrainQueue ==
    /\ peerWpc = "last"
    /\ IF queue = <<>> THEN UNCHANGED queueVars ELSE Take(Len(queue))
    /\ walog' = walog \o queue
    /\ peerWpc' = "final"
    /\ UNCHANGED <<req, ackVars, loopVars, pressure, stop, synced, givenUp, ok>>

(* The last sync and publish.                                              *)
LastPublish ==
    /\ peerWpc = "final"
    /\ synced' = Len(walog)
    /\ peerWpc' = "drop"
    /\ UNCHANGED <<queueVars, req, ackVars, loopVars, pressure, stop, walog, givenUp, ok>>

(* The thread returns, and its end of the queue goes with it.              *)
WriterReturns ==
    /\ peerWpc = "drop"
    /\ DropConsumer
    /\ peerWpc' = "done"
    /\ UNCHANGED <<req, ackVars, loopVars, pressure, stop, walog, synced, givenUp, ok>>

(* An I/O error ends the thread; nobody looks at it before the shutdown.   *)
WriterFails ==
    /\ Failures
    /\ peerWpc \in {"run", "empty", "last", "final"}
    /\ DropConsumer
    /\ peerWpc' = "failed"
    /\ UNCHANGED <<req, ackVars, loopVars, pressure, stop, walog, synced, givenUp, ok>>

RequestRuns(s) ==
    Dedupe(s) \/ AllDuplicates(s) \/ CheckRoom(s) \/ SendPending(s)
        \/ WaitClosed(s) \/ WaitSynced(s) \/ WaitTimedOut(s) \/ SaveIds(s)

MainLoop ==
    \/ TakePending \/ SubmitStep \/ BindTicket
    \/ \E r \in Record : ProcessRecord(r)
    \/ EndLoop \/ ShutdownReceiver \/ StopWriter \/ JoinWriter

PeerWriterLoop ==
    \/ \E n \in 1 .. Capacity : AppendBatch(n)
    \/ EmptyBatch \/ CheckStop \/ DrainQueue \/ LastPublish \/ WriterReturns

PeerNext ==
    \/ \E s \in Senders : Settle(s) \/ RequestRuns(s)
    \/ MainLoop
    \/ PeerWriterLoop \/ PublishSynced \/ WriterFails
    \/ Signal \/ SetPressure

PeerSpec == PeerInit /\ [][PeerNext]_peerVars

-----------------------------------------------------------------------------
(* Properties.                                                             *)

Stored == {walog[i] : i \in 1 .. synced}

Acknowledged == UNION {BatchOf[s] : s \in ok}

(* A 200 never stands for a record that is merely on its way: each record  *)
(* it covers is on disk, or is one the pipeline counted as dropped.  What  *)
(* was in the channel, in the queue or unsynced when the writer failed or  *)
(* the process stopped was not acknowledged.                               *)
AckedOrCounted == Acknowledged \subseteq Stored \cup givenUp

(* The same for the dedupe log: an id in it makes a resend a duplicate, so *)
(* an id saved too early, by the request or by settle after a timeout,     *)
(* would lose the record.                                                  *)
RememberedOrCounted == remembered \subseteq Stored \cup givenUp

(* A ticket is bound to a count the writer will reach: nothing is bound    *)
(* beyond the records that entered the queue, in order.                    *)
TicketsReachable ==
    peerWpc \in {"run", "empty", "last"} =>
        \A t \in DOMAIN tickets : \A w \in tickets[t] : w <= Len(walog) + Len(queue)

(* A 200 means the WAL has these records on disk.                          *)
OkMeansOnDisk == Acknowledged \subseteq Stored

-----------------------------------------------------------------------------
(* Fairness: every thread runs on, and waits end at their bound.  Nothing  *)
(* is assumed of the disk: the writer may never sync before its last pass. *)
PeerFairness ==
    /\ \A s \in Senders : WF_peerVars(RequestRuns(s))
    /\ WF_peerVars(MainLoop)
    /\ WF_peerVars(PeerWriterLoop)

PeerFairSpec == PeerSpec /\ PeerFairness

(* Every request is answered: no wait outlives its bound, the shutdown or  *)
(* the writer.                                                             *)
EveryRequestAnswered == \A s \in Senders : (req[s].at # "idle") ~> (req[s].at = "idle")

(* The shutdown comes to an end: the receiver waits for the requests, they *)
(* for the WAL, the main thread for the writer, and none for each other.   *)
ShutdownEnds == (loop = "closing" \/ stop) ~> (loop = "ended")

(* What peer.rs keeps to: a 200, and an entry of the dedupe log, stand for *)
(* records on disk or counted as dropped, and a ticket can be reached by   *)
(* the writer.                                                             *)
PeerInv == PeerTypeOK /\ AckedOrCounted /\ RememberedOrCounted /\ TicketsReachable
=============================================================================
