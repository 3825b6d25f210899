---------------------------- MODULE IngestQueue -----------------------------
(***************************************************************************)
(* The bounded ingest queue of queue.rs: any number of producers call      *)
(* submit, one consumer takes batches.  A full queue sheds DEBUG and INFO  *)
(* at once and lets WARN and above wait for a bounded time.  The counters  *)
(* are separate atomics, updated before and after the channel operation,   *)
(* so every step of submit is an action of its own.                        *)
(***************************************************************************)
EXTENDS Naturals, Sequences, FiniteSets

CONSTANTS
    Producers,     \* threads holding a clone of IngestQueue
    Record,        \* the records they submit
    ClassOf,       \* [Record -> LevelClass]
    Capacity,      \* channel(capacity)
    MaxReceived    \* bound: calls of submit

LevelClass == {"Debug", "Info", "WarnPlus"}

ASSUME IngestQueueAssumption ==
    /\ IsFiniteSet(Producers)
    /\ ClassOf \in [Record -> LevelClass]
    /\ Capacity \in Nat \ {0}
    /\ MaxReceived \in Nat

VARIABLES
    queue,       \* the channel's contents
    open,        \* the consumer still holds the receiving end
    taken,       \* records the consumer has received
    discarded,   \* records in the channel when the consumer was dropped
    received, enqueued, dropped_debug, dropped_info, dropped_critical, closed,
    sub          \* where each producer is inside submit, and with which record

counters == <<received, enqueued, dropped_debug, dropped_info, dropped_critical, closed>>
queueVars == <<queue, open, taken, discarded, counters, sub>>

SubmitSteps == {"idle", "trySend", "wait", "sent", "shed", "closed"}

NoCall == [at |-> "idle"]

QueueTypeOK ==
    /\ queue \in Seq(Record)
    /\ open \in BOOLEAN
    /\ taken \in Nat
    /\ discarded \in Nat
    /\ received \in Nat
    /\ enqueued \in Nat
    /\ dropped_debug \in Nat
    /\ dropped_info \in Nat
    /\ dropped_critical \in Nat
    /\ closed \in Nat
    /\ sub \in [Producers -> {NoCall} \cup [at : SubmitSteps \ {"idle"}, record : Record]]

QueueInit ==
    /\ queue = <<>>
    /\ open = TRUE
    /\ taken = 0
    /\ discarded = 0
    /\ received = 0
    /\ enqueued = 0
    /\ dropped_debug = 0
    /\ dropped_info = 0
    /\ dropped_critical = 0
    /\ closed = 0
    /\ sub = [p \in Producers |-> NoCall]

Goto(p, step) == sub' = [sub EXCEPT ![p] = [at |-> step, record |-> sub[p].record]]

(* submit counts the record before it looks at the channel.                *)
Submit(p, r) ==
    /\ sub[p].at = "idle"
    /\ received < MaxReceived
    /\ received' = received + 1
    /\ sub' = [sub EXCEPT ![p] = [at |-> "trySend", record |-> r]]
    /\ UNCHANGED <<queue, open, taken, discarded, enqueued, dropped_debug, dropped_info, dropped_critical, closed>>

(* try_send, or send_timeout before its deadline, finds room.              *)
Send(p) ==
    /\ sub[p].at \in {"trySend", "wait"}
    /\ open
    /\ Len(queue) < Capacity
    /\ queue' = Append(queue, sub[p].record)
    /\ Goto(p, "sent")
    /\ UNCHANGED <<open, taken, discarded, counters>>

(* Mutant of Full: a full channel stays full for WARN and above, as if     *)
(* send_timeout had already given up, without being counted.               *)
FullReturns(p) ==
    /\ sub[p].at = "trySend"
    /\ open
    /\ Len(queue) >= Capacity
    /\ IF ClassOf[sub[p].record] = "WarnPlus"
       THEN sub' = [sub EXCEPT ![p] = NoCall]
       ELSE Goto(p, "shed")
    /\ UNCHANGED <<queue, open, taken, discarded, counters>>

(* try_send finds the channel full: only WARN and above wait.              *)
Full(p) ==
    /\ sub[p].at = "trySend"
    /\ open
    /\ Len(queue) >= Capacity
    /\ Goto(p, IF ClassOf[sub[p].record] = "WarnPlus" THEN "wait" ELSE "shed")
    /\ UNCHANGED <<queue, open, taken, discarded, counters>>

(* Mutant of Timeout: `send` in place of send_timeout.                     *)
TimeoutNever(p) ==
    /\ sub[p].at = "wait"
    /\ FALSE
    /\ UNCHANGED queueVars

(* send_timeout gives up; the channel was full until its deadline.         *)
Timeout(p) ==
    /\ sub[p].at = "wait"
    /\ open
    /\ Len(queue) >= Capacity
    /\ Goto(p, "shed")
    /\ UNCHANGED <<queue, open, taken, discarded, counters>>

(* Either call finds the receiving end gone.                               *)
Disconnected(p) ==
    /\ sub[p].at \in {"trySend", "wait"}
    /\ ~open
    /\ Goto(p, "closed")
    /\ UNCHANGED <<queue, open, taken, discarded, counters>>

Return(p) == sub' = [sub EXCEPT ![p] = NoCall]

(* submit counts what happened to the record, and returns.                 *)
CountEnqueued(p) ==
    /\ sub[p].at = "sent"
    /\ enqueued' = enqueued + 1
    /\ Return(p)
    /\ UNCHANGED <<queue, open, taken, discarded, received, dropped_debug, dropped_info, dropped_critical, closed>>

CountClosed(p) ==
    /\ sub[p].at = "closed"
    /\ closed' = closed + 1
    /\ Return(p)
    /\ UNCHANGED <<queue, open, taken, discarded, received, enqueued, dropped_debug, dropped_info, dropped_critical>>

Shed(p) ==
    /\ sub[p].at = "shed"
    /\ LET class == ClassOf[sub[p].record]
       IN  /\ dropped_debug' = IF class = "Debug" THEN dropped_debug + 1 ELSE dropped_debug
           /\ dropped_info' = IF class = "Info" THEN dropped_info + 1 ELSE dropped_info
           /\ dropped_critical' = IF class = "WarnPlus" THEN dropped_critical + 1 ELSE dropped_critical
    /\ Return(p)
    /\ UNCHANGED <<queue, open, taken, discarded, received, enqueued, closed>>

(* next_batch_lingering and drain: the consumer takes the first n records. *)
Take(n) ==
    /\ open
    /\ n \in 1 .. Len(queue)
    /\ queue' = SubSeq(queue, n + 1, Len(queue))
    /\ taken' = taken + n
    /\ UNCHANGED <<open, discarded, counters, sub>>

(* The writer thread returns and drops the consumer; what is still in the  *)
(* channel goes with it.                                                   *)
DropConsumer ==
    /\ open
    /\ open' = FALSE
    /\ discarded' = discarded + Len(queue)
    /\ queue' = <<>>
    /\ UNCHANGED <<taken, counters, sub>>

ProducerNext(p) ==
    \/ \E r \in Record : Submit(p, r)
    \/ Send(p) \/ Full(p) \/ Timeout(p) \/ Disconnected(p)
    \/ CountEnqueued(p) \/ CountClosed(p) \/ Shed(p)

QueueNext ==
    \/ \E p \in Producers : ProducerNext(p)
    \/ \E n \in 1 .. Capacity : Take(n)
    \/ DropConsumer

QueueSpec == QueueInit /\ [][QueueNext]_queueVars

-----------------------------------------------------------------------------
(* Properties.                                                             *)

Inside(steps) == {p \in Producers : sub[p].at \in steps}

Busy == SubmitSteps \ {"idle"}

(* Calls of submit in progress, and those between a send and its count.    *)
InCall == Cardinality(Inside(Busy))
Uncounted == Cardinality(Inside({"sent"}))

Dropped == dropped_debug + dropped_info + dropped_critical + closed

(* accounts_for_everything, at every moment and not only when the          *)
(* producers are at rest: what submit has counted as received is enqueued, *)
(* counted as lost, or still inside a call.                                *)
AccountsForEverything ==
    received = enqueued + Dropped + InCall

(* What was counted as enqueued is in the channel or was taken out of it:  *)
(* nothing is lost or counted twice on the way to the writer, except what  *)
(* the channel held when the writer went away.                             *)
EnqueuedIsConserved ==
    enqueued + Uncounted = taken + Len(queue) + discarded

(* No producer stays inside submit: the bounded wait ends, whatever the    *)
(* consumer does.                                                          *)
NeverBlocks == \A p \in Producers : (sub[p].at # "idle") ~> (sub[p].at = "idle")

(* A thread inside submit runs on; the deadline of send_timeout passes.    *)
QueueFairness ==
    \A p \in Producers :
        WF_queueVars(Send(p) \/ Full(p) \/ Timeout(p) \/ Disconnected(p)
                      \/ CountEnqueued(p) \/ CountClosed(p) \/ Shed(p))

QueueFairSpec == QueueSpec /\ QueueFairness

(* What the queue keeps to at every step: each record received is counted  *)
(* once, and each one enqueued is where the counters say.                  *)
QueueInv == QueueTypeOK /\ AccountsForEverything /\ EnqueuedIsConserved
=============================================================================
