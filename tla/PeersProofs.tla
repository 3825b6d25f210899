---------------------------- MODULE PeersProofs -----------------------------
(***************************************************************************)
(* Proofs about what a peer and an edge are promised: IngestQueue (every   *)
(* record is counted once), PeerIngest (an answer of 200 is true),         *)
(* PeerHops (records do not go round for ever) and PartsEdge (a part the   *)
(* edge has recorded is one the other side confirmed).                     *)
(***************************************************************************)
EXTENDS PeerIngest, PeerHops, PartsEdge, FiniteSetTheorems,
        SequenceTheorems, WellFoundedInduction, TLAPS

-----------------------------------------------------------------------------
(* IngestQueue, for any finite set of producers, any capacity and any      *)
(* records.                                                                *)

Call == [at : Busy, record : Record]

QInv == QueueTypeOK /\ AccountsForEverything /\ EnqueuedIsConserved

(* The set of producers inside submit is finite, so it can be counted.     *)
LEMMA InsideFinite ==
    ASSUME NEW steps
    PROVE  IsFiniteSet(Inside(steps)) /\ Cardinality(Inside(steps)) \in Nat
<1>1. IsFiniteSet(Inside(steps))
  BY IngestQueueAssumption, FS_Subset, Inside(steps) \subseteq Producers DEF Inside
<1>2. QED
  BY <1>1, FS_CardinalityType

(* A producer that starts a call adds one to the calls in progress, one    *)
(* that returns takes one away, and a move inside the call changes nothing.*)
LEMMA InCallChange ==
    ASSUME NEW p \in Producers
    PROVE  /\ p \notin Inside(Busy) /\ Inside(Busy)' = Inside(Busy) \cup {p} => InCall' = InCall + 1
           /\ p \in Inside(Busy) /\ Inside(Busy)' = Inside(Busy) \ {p} => InCall' = InCall - 1
           /\ Inside(Busy)' = Inside(Busy) => InCall' = InCall
           /\ InCall \in Nat
<1>1. InCall' = Cardinality(Inside(Busy)')
  BY DEF InCall
<1>2. QED
  BY <1>1, InsideFinite, FS_AddElement, FS_RemoveElement DEF InCall

(* The same for the producers between their send and their count.          *)
LEMMA UncountedChange ==
    ASSUME NEW p \in Producers
    PROVE  /\ p \notin Inside({"sent"}) /\ Inside({"sent"})' = Inside({"sent"}) \cup {p}
                 => Uncounted' = Uncounted + 1
           /\ p \in Inside({"sent"}) /\ Inside({"sent"})' = Inside({"sent"}) \ {p}
                 => Uncounted' = Uncounted - 1
           /\ Inside({"sent"})' = Inside({"sent"}) => Uncounted' = Uncounted
           /\ Uncounted \in Nat
<1>1. Uncounted' = Cardinality(Inside({"sent"})')
  BY DEF Uncounted
<1>2. QED
  BY <1>1, InsideFinite, FS_AddElement, FS_RemoveElement DEF Uncounted

(* Where p is after a step that moves only p, in terms of where it was.    *)
LEMMA Move ==
    ASSUME QueueTypeOK, NEW p \in Producers, NEW c,
           sub' = [sub EXCEPT ![p] = c], NEW steps
    PROVE  Inside(steps)' = IF c.at \in steps THEN Inside(steps) \cup {p} ELSE Inside(steps) \ {p}
BY DEF Inside, QueueTypeOK

(* A producer that stays in a set of steps, or out of it, does not change  *)
(* the producers inside.                                                   *)
LEMMA Stay ==
    ASSUME QueueTypeOK, NEW p \in Producers, NEW c,
           sub' = [sub EXCEPT ![p] = c], NEW steps, c.at \in steps <=> p \in Inside(steps)
    PROVE  Inside(steps)' = Inside(steps)
BY DEF Inside, QueueTypeOK

(* The initial states satisfy the accounting.                              *)
LEMMA QInvInit == QueueInit => QInv
<1> SUFFICES ASSUME QueueInit PROVE QInv
  OBVIOUS
<1>1. QueueTypeOK
  BY DEF QueueInit, QueueTypeOK, NoCall, SubmitSteps
<1>2. Inside(Busy) = {} /\ Inside({"sent"}) = {}
  BY DEF QueueInit, Inside, Busy, NoCall
<1>3. InCall = 0 /\ Uncounted = 0
  BY <1>2, FS_EmptySet DEF InCall, Uncounted
<1>4. QED
  BY <1>1, <1>3 DEF QueueInit, QInv, AccountsForEverything, EnqueuedIsConserved, Dropped

(* Each step of submit keeps the accounting.                               *)
LEMMA QInvProducer ==
    ASSUME QInv, NEW p \in Producers, ProducerNext(p)
    PROVE  QInv'
<1>t. QueueTypeOK
  BY DEF QInv
<1>n. InCall \in Nat /\ Uncounted \in Nat /\ Dropped \in Nat
  BY <1>t, InCallChange, UncountedChange DEF Dropped, QueueTypeOK
<1>a. received = enqueued + Dropped + InCall
  BY DEF QInv, AccountsForEverything
<1>e. enqueued + Uncounted = taken + Len(queue) + discarded
  BY DEF QInv, EnqueuedIsConserved
<1>l. Len(queue) \in Nat
  BY <1>t DEF QueueTypeOK
<1>i. ASSUME sub[p].at = "idle" PROVE p \notin Inside(Busy) /\ p \notin Inside({"sent"})
  BY <1>i DEF Inside, Busy
<1>b. ASSUME sub[p].at # "idle" PROVE sub[p] \in Call /\ p \in Inside(Busy)
  BY <1>b, <1>t DEF QueueTypeOK, Inside, Call, Busy, NoCall, SubmitSteps
<1>1. ASSUME NEW r \in Record, Submit(p, r) PROVE QInv'
  <2> DEFINE c == [at |-> "trySend", record |-> r]
  <2>1. sub' = [sub EXCEPT ![p] = c] /\ c.at \in Busy /\ c.at \notin {"sent"}
    BY <1>1 DEF Submit, Busy, SubmitSteps
  <2>2. p \notin Inside(Busy) /\ p \notin Inside({"sent"})
    BY <1>1, <1>i DEF Submit
  <2>3. Inside(Busy)' = Inside(Busy) \cup {p} /\ Inside({"sent"})' = Inside({"sent"})
    <3>1. Inside(Busy)' = Inside(Busy) \cup {p}
      BY <2>1, <1>t, Move
    <3>2. Inside({"sent"})' = Inside({"sent"}) \ {p}
      BY <2>1, <1>t, Move
    <3>3. QED
      BY <3>1, <3>2, <2>2
  <2>4. InCall' = InCall + 1 /\ Uncounted' = Uncounted
    BY <2>2, <2>3, InCallChange, UncountedChange
  <2>5. QueueTypeOK'
    BY <1>1, <1>t DEF Submit, QueueTypeOK, SubmitSteps
  <2>6. QED
    BY <1>1, <1>a, <1>e, <1>n, <1>t, <2>3, <2>4, <2>5
       DEF Submit, QInv, AccountsForEverything, EnqueuedIsConserved, Dropped, QueueTypeOK
<1>2. ASSUME Send(p) PROVE QInv'
  <2> DEFINE c == [at |-> "sent", record |-> sub[p].record]
  <2>1. sub' = [sub EXCEPT ![p] = c] /\ c.at \in Busy /\ c.at \in {"sent"}
    BY <1>2 DEF Send, Goto, Busy, SubmitSteps
  <2>2. sub[p] \in Call /\ p \in Inside(Busy) /\ p \notin Inside({"sent"})
    BY <1>2, <1>b DEF Send, Inside
  <2>3. Inside(Busy)' = Inside(Busy)
    BY <2>1, <2>2, <1>t, Stay
  <2>4. Inside({"sent"})' = Inside({"sent"}) \cup {p}
    BY <2>1, <1>t, Move
  <2>5. InCall' = InCall /\ Uncounted' = Uncounted + 1
    BY <2>2, <2>3, <2>4, InCallChange, UncountedChange
  <2>6. Len(queue') = Len(queue) + 1 /\ queue' \in Seq(Record)
    BY <1>2, <1>t, <2>2 DEF Send, QueueTypeOK, Call
  <2>7. QueueTypeOK'
    BY <1>2, <1>t, <2>2, <2>6 DEF Send, Goto, QueueTypeOK, SubmitSteps, Call, counters
  <2>8. Dropped' = Dropped /\ UNCHANGED <<received, enqueued, taken, discarded>>
    BY <1>2 DEF Send, counters, Dropped
  <2>9. received' = enqueued' + Dropped' + InCall'
    BY <1>a, <2>5, <2>8
  <2>10. enqueued' + Uncounted' = taken' + Len(queue') + discarded'
    BY <1>e, <1>n, <1>t, <1>l, <2>5, <2>6, <2>8 DEF QueueTypeOK
  <2>11. QED
    BY <2>7, <2>9, <2>10 DEF QInv, AccountsForEverything, EnqueuedIsConserved
<1>3. ASSUME Full(p) \/ Timeout(p) \/ Disconnected(p) PROVE QInv'
  <2>1. PICK step \in {"wait", "shed", "closed"} : Goto(p, step)
    BY <1>3 DEF Full, Timeout, Disconnected
  <2> DEFINE c == [at |-> step, record |-> sub[p].record]
  <2>2. sub' = [sub EXCEPT ![p] = c] /\ c.at \in Busy /\ c.at \notin {"sent"}
    BY <2>1 DEF Goto, Busy, SubmitSteps
  <2>3. sub[p] \in Call /\ p \in Inside(Busy) /\ p \notin Inside({"sent"})
    BY <1>3, <1>b DEF Full, Timeout, Disconnected, Inside
  <2>4. Inside(Busy)' = Inside(Busy)
    BY <2>2, <2>3, <1>t, Stay
  <2>5. Inside({"sent"})' = Inside({"sent"})
    BY <2>2, <2>3, <1>t, Stay
  <2>9. InCall' = InCall /\ Uncounted' = Uncounted
    BY <2>4, <2>5, InCallChange, UncountedChange
  <2>6. UNCHANGED <<queue, open, taken, discarded, counters>>
    BY <1>3 DEF Full, Timeout, Disconnected
  <2>7. QueueTypeOK'
    BY <2>2, <2>3, <2>6, <1>t DEF QueueTypeOK, SubmitSteps, Call, Busy, counters
  <2>8. QED
    BY <1>a, <1>e, <2>9, <2>6, <2>7
       DEF QInv, AccountsForEverything, EnqueuedIsConserved, Dropped, counters
<1>4. ASSUME CountEnqueued(p) PROVE QInv'
  <2>1. sub' = [sub EXCEPT ![p] = NoCall] /\ NoCall.at \notin Busy /\ NoCall.at \notin {"sent"}
    BY <1>4 DEF CountEnqueued, Return, NoCall, Busy
  <2>2. p \in Inside(Busy) /\ p \in Inside({"sent"})
    BY <1>4, <1>b DEF CountEnqueued, Inside
  <2>3. Inside(Busy)' = Inside(Busy) \ {p} /\ Inside({"sent"})' = Inside({"sent"}) \ {p}
    BY <2>1, <1>t, Move
  <2>4. InCall' = InCall - 1 /\ Uncounted' = Uncounted - 1
    BY <2>2, <2>3, InCallChange, UncountedChange
  <2>5. QueueTypeOK'
    BY <1>4, <1>t DEF CountEnqueued, Return, QueueTypeOK
  <2>6. QED
    BY <1>4, <1>a, <1>e, <1>n, <1>t, <1>l, <2>4, <2>5
       DEF CountEnqueued, QInv, AccountsForEverything, EnqueuedIsConserved, Dropped, QueueTypeOK
<1>5. ASSUME CountClosed(p) \/ Shed(p) PROVE QInv'
  <2>1. sub' = [sub EXCEPT ![p] = NoCall] /\ NoCall.at \notin Busy /\ NoCall.at \notin {"sent"}
    BY <1>5 DEF CountClosed, Shed, Return, NoCall, Busy
  <2>2. sub[p] \in Call /\ p \in Inside(Busy) /\ p \notin Inside({"sent"})
    BY <1>5, <1>b DEF CountClosed, Shed, Inside
  <2>3. Inside(Busy)' = Inside(Busy) \ {p}
    BY <2>1, <1>t, Move
  <2>4. Inside({"sent"})' = Inside({"sent"})
    BY <2>1, <2>2, <1>t, Stay
  <2>5. InCall' = InCall - 1 /\ Uncounted' = Uncounted
    BY <2>2, <2>3, <2>4, InCallChange, UncountedChange
  <2>6. ClassOf[sub[p].record] \in LevelClass
    BY <2>2, IngestQueueAssumption DEF Call
  <2>7. QueueTypeOK' /\ Dropped' = Dropped + 1
    <3>1. CASE CountClosed(p)
      BY <3>1, <1>t DEF CountClosed, Return, QueueTypeOK, Dropped
    <3>2. CASE Shed(p)
      BY <3>2, <1>t, <2>6 DEF Shed, Return, QueueTypeOK, Dropped, LevelClass
    <3>3. QED
      BY <1>5, <3>1, <3>2
  <2>8. UNCHANGED <<queue, taken, discarded, received, enqueued>>
    BY <1>5 DEF CountClosed, Shed
  <2>9. QED
    BY <1>a, <1>e, <1>n, <1>t, <2>5, <2>7, <2>8
       DEF QInv, AccountsForEverything, EnqueuedIsConserved, QueueTypeOK
<1>6. QED
  BY <1>1, <1>2, <1>3, <1>4, <1>5 DEF ProducerNext

(* So do the consumer's steps.                                             *)
LEMMA QInvConsumer ==
    ASSUME QInv, (\E n \in Nat : Take(n)) \/ DropConsumer
    PROVE  QInv'
<1>t. QueueTypeOK
  BY DEF QInv
<1>l. Len(queue) \in Nat
  BY <1>t DEF QueueTypeOK
<1>n. Uncounted \in Nat
  BY InsideFinite DEF Uncounted
<1>s. ASSUME sub' = sub PROVE InCall' = InCall /\ Uncounted' = Uncounted
  BY <1>s DEF InCall, Uncounted, Inside
<1>1. ASSUME NEW n \in Nat, Take(n) PROVE QInv'
  <2>1. n \in 1 .. Len(queue) /\ n \in Nat
    BY <1>1 DEF Take
  <2>2. Len(queue') = Len(queue) - n /\ queue' \in Seq(Record)
    BY <1>1, <1>t, <1>l, <2>1 DEF Take, QueueTypeOK
  <2>3. QueueTypeOK'
    BY <1>1, <1>t, <2>1, <2>2 DEF Take, QueueTypeOK, counters
  <2>4. /\ InCall' = InCall /\ Uncounted' = Uncounted /\ Dropped' = Dropped
        /\ UNCHANGED <<received, enqueued, discarded>> /\ taken' = taken + n
    BY <1>1, <1>s DEF Take, counters, Dropped
  <2>5. received' = enqueued' + Dropped' + InCall'
    BY <2>4 DEF QInv, AccountsForEverything
  <2>6. enqueued' + Uncounted' = taken' + Len(queue') + discarded'
    BY <1>t, <1>l, <1>n, <2>1, <2>2, <2>4 DEF QInv, EnqueuedIsConserved, QueueTypeOK
  <2>7. QED
    BY <2>3, <2>5, <2>6 DEF QInv, AccountsForEverything, EnqueuedIsConserved
<1>2. ASSUME DropConsumer PROVE QInv'
  <2>1. Len(queue') = 0 /\ queue' \in Seq(Record)
    BY <1>2 DEF DropConsumer
  <2>2. /\ InCall' = InCall /\ Uncounted' = Uncounted /\ Dropped' = Dropped
        /\ UNCHANGED <<received, enqueued, taken>> /\ discarded' = discarded + Len(queue)
    BY <1>2, <1>s DEF DropConsumer, counters, Dropped
  <2>3. discarded' \in Nat
    BY <1>t, <1>l, <2>2 DEF QueueTypeOK
  <2>4. QueueTypeOK'
    BY <1>2, <1>t, <2>1, <2>3 DEF DropConsumer, QueueTypeOK, counters
  <2>5. received' = enqueued' + Dropped' + InCall'
    BY <2>2 DEF QInv, AccountsForEverything
  <2>6. enqueued' + Uncounted' = taken' + Len(queue') + discarded'
    BY <1>t, <1>l, <1>n, <2>1, <2>2 DEF QInv, EnqueuedIsConserved, QueueTypeOK
  <2>7. QED
    BY <2>4, <2>5, <2>6 DEF QInv, AccountsForEverything, EnqueuedIsConserved
<1>3. QED
  BY <1>1, <1>2

(* The invariant is inductive.                                             *)
LEMMA QInvStep == QInv /\ [QueueNext]_queueVars => QInv'
<1> SUFFICES ASSUME QInv, [QueueNext]_queueVars PROVE QInv'
  OBVIOUS
<1>1. CASE QueueNext
  <2>1. 1 .. Capacity \subseteq Nat
    BY IngestQueueAssumption
  <2> QED BY <1>1, <2>1, QInvProducer, QInvConsumer DEF QueueNext
<1>2. CASE UNCHANGED queueVars
  BY <1>2 DEF queueVars, counters, QInv, QueueTypeOK, AccountsForEverything, EnqueuedIsConserved,
              Dropped, InCall, Uncounted, Inside
<1>3. QED
  BY <1>1, <1>2

LEMMA QInvAlways == QueueSpec => []QInv
BY QInvInit, QInvStep, PTL DEF QueueSpec

(* Every variable of the queue keeps its type.                             *)
THEOREM QueueTypeCorrect == QueueSpec => []QueueTypeOK
<1>1. QInv => QueueTypeOK
  BY DEF QInv
<1>2. QED
  BY <1>1, QInvAlways, PTL

(* Whatever the producers, the capacity and the interleaving, a record     *)
(* that submit counted is enqueued, counted as lost, or still in a call    *)
(* (StatsSnapshot::accounts_for_everything).                               *)
THEOREM QueueAccounting == QueueSpec => []AccountsForEverything
<1>1. QInv => AccountsForEverything
  BY DEF QInv
<1>2. QED
  BY <1>1, QInvAlways, PTL

(* The `enqueued` counter, which acknowledgements are bound to, is exactly *)
(* the number of records that entered the channel, up to the producers     *)
(* between their send and their count.                                     *)
THEOREM QueueConservation == QueueSpec => []EnqueuedIsConserved
<1>1. QInv => EnqueuedIsConserved
  BY DEF QInv
<1>2. QED
  BY <1>1, QInvAlways, PTL

(* The invariant the runs check of the queue, from its three parts: every  *)
(* record given to submit is counted once, and every one enqueued is in    *)
(* the channel, taken, or was there when the consumer went (queue.rs).     *)
THEOREM QueueInvariant == QueueSpec => []QueueInv
<1>1. QueueTypeOK /\ AccountsForEverything /\ EnqueuedIsConserved => QueueInv
  BY DEF QueueInv
<1>2. QED
  BY <1>1, QueueTypeCorrect, QueueAccounting, QueueConservation, PTL

-----------------------------------------------------------------------------
(* PeerIngest. The argument follows a record from the request that claims  *)
(* it to the count its ticket is bound to: while the ticket is unbound the *)
(* record is in the channel to the main loop, in the loop's hands, in      *)
(* submit, or already sent; once it is bound to w, the record is among the *)
(* first w that entered the queue, or was given up, or the writer is gone  *)
(* short of w and w is never reached. The queue keeps count, see above.    *)

(* The writer holds its end of the queue.                                  *)
WriterAlive == peerWpc \in {"run", "empty", "last", "final", "drop"}

(* Everything that ever entered the channel.                               *)
SentSoFar == taken + Len(queue) + discarded

(* Record r is counted as given up, or is among the first w records that   *)
(* entered the channel and not lost with it, or w is out of reach.         *)
Covered(r, w) ==
    \/ r \in givenUp
    \/ \E i \in DOMAIN walog : walog[i] = r /\ i <= w
    \/ open /\ \E i \in DOMAIN queue : queue[i] = r /\ Len(walog) + i <= w
    \/ ~open /\ Len(walog) < w

(* What a sender need not send again: on disk, or counted as given up.     *)
Safe == Stored \cup givenUp

(* The queue and the writer at its end.                                    *)
Flow ==
    /\ QInv
    /\ received <= MaxReceived
    /\ open <=> WriterAlive
    /\ open => discarded = 0
    /\ taken = Len(walog)
    /\ walog \in Seq(Record)
    /\ synced \in 0 .. Len(walog)
    /\ peerWpc \in PeerWriterSteps
    /\ givenUp \subseteq Record

(* The main loop is submitting record r.                                   *)
Submitting(r) == sub[Main].at \in {"trySend", "wait", "shed", "closed"} /\ sub[Main].record = r

(* What requests, waiting or given up, rely on a ticket for.               *)
Claims ==
    {<<req[s].ticket, req[s].keep>> : s \in {x \in Senders : req[x].at = "wait"}}
        \cup {abandoned[i] : i \in DOMAIN abandoned}

(* A bound ticket says enough: once the writer has synced that many, every *)
(* record claimed by it is safe. No ticket is bound to more than was ever  *)
(* sent.                                                                   *)
Bindings ==
    /\ \A c \in Claims : c[1] \in DOMAIN tickets =>
          \A w \in tickets[c[1]] : \A r \in c[2] : Covered(r, w)
    /\ \A t \in DOMAIN tickets : \A w \in tickets[t] : w <= SentSoFar

(* A ticket that is not bound yet: its batch is in the channel to the main *)
(* loop, or the loop is submitting it, and each of its records is still to *)
(* be processed, in submit, or already within what was sent.               *)
OnTheWay ==
    /\ \A i \in DOMAIN pending : \A c \in Claims : c[1] = pending[i][1] => c[2] \subseteq pending[i][2]
    /\ loop = "submit" => \A c \in Claims : c[1] = ticket =>
          \A r \in c[2] : r \in rest \/ Submitting(r) \/ Covered(r, SentSoFar)

(* What a request keeps once it has synced is safe, what it left out of    *)
(* its batch is remembered, and what is remembered, or was answered with   *)
(* 200, is safe.                                                           *)
Answers ==
    /\ \A s \in Senders : req[s].at \in {"settled", "save"} => req[s].keep \subseteq Safe
    /\ \A s \in Senders : req[s].at \in {"room", "send", "wait", "save"} =>
          BatchOf[s] \subseteq req[s].keep \cup remembered
    /\ remembered \subseteq Safe
    /\ \A s \in ok : BatchOf[s] \subseteq Safe

(* The requests that may yet issue a ticket; Settle counts them against    *)
(* the bound.                                                              *)
Asking == {s \in Senders : req[s].at \in {"settled", "room", "send"}}

(* The bound on tickets holds, and a request waits for a ticket that was   *)
(* issued.                                                                 *)
Tickets ==
    /\ issued + Cardinality(Asking) <= MaxTickets
    /\ \A s \in Senders : req[s].at = "wait" => req[s].ticket \in 1 .. issued

(* The types of what the requests and the main loop keep.                  *)
LedgerTypeOK ==
    /\ req \in [Senders -> [at : RequestSteps, keep : SUBSET Record, ticket : 0 .. MaxTickets]]
    /\ DOMAIN tickets \subseteq 1 .. issued
    /\ \A t \in DOMAIN tickets : tickets[t] \in {Unbound} \cup {Bound(w) : w \in 0 .. MaxReceived}
    /\ abandoned \in Seq((1 .. issued) \X SUBSET Record)
    /\ Len(abandoned) <= MaxAbandoned
    /\ waitClosed \in BOOLEAN
    /\ issued \in 0 .. MaxTickets
    /\ remembered \subseteq Record
    /\ pending \in Seq((1 .. issued) \X SUBSET Record)
    /\ loop \in LoopSteps
    /\ ticket \in 0 .. issued
    /\ rest \subseteq Record
    /\ count \in Nat
    /\ pressure \in BOOLEAN
    /\ stop \in BOOLEAN
    /\ ok \subseteq Senders

(* The inductive invariant: the receiver, the main loop and the writer.    *)
PeerInvariant == Flow /\ LedgerTypeOK /\ Bindings /\ OnTheWay /\ Answers /\ Tickets

(* Every nonempty set of numbers has a least element.                      *)
LEMMA LeastExists ==
    ASSUME NEW S \in SUBSET Nat, S # {}
    PROVE  \E m \in S : \A i \in S : m <= i
<1>1. PICK m \in S : \A y \in S : ~(<<y, m>> \in OpToRel(<, Nat))
  BY NatLessThanWellFounded, WFMin
<1>2. \A y \in S : ~(y < m)
  BY <1>1 DEF OpToRel
<1>3. QED
  BY <1>2

(* The k-th of a set of numbers, by counting those up to each.             *)
LEMMA RankExists ==
    ASSUME NEW n \in Nat, NEW stay, \A j \in stay : j \in 1 .. n, NEW k \in 1 .. Cardinality(stay)
    PROVE  \E i \in stay : Cardinality({j \in stay : j <= i}) = k
<1> DEFINE upto(i) == {j \in stay : j <= i}
           size(i) == Cardinality(upto(i))
           C == {i \in 0 .. n : k <= size(i)}
<1>0. \A j \in stay : j \in Nat /\ 1 <= j /\ j <= n
  OBVIOUS
<1>1. ASSUME NEW i \in 0 .. n PROVE IsFiniteSet(upto(i)) /\ size(i) \in Nat
  <2>1. IsFiniteSet(1 .. n)
    BY FS_Interval
  <2>2. upto(i) \subseteq 1 .. n
    BY <1>0
  <2> QED BY <2>1, <2>2, FS_Subset, FS_CardinalityType
<1>2. upto(n) = stay
  BY <1>0
<1>3. size(0) = 0
  <2>1. upto(0) = {}
    BY <1>0
  <2> QED BY <2>1, FS_EmptySet
<1>4. size(n) \in Nat /\ k \in Nat /\ 1 <= k /\ k <= size(n)
  <2>1. size(n) = Cardinality(stay) /\ size(n) \in Nat
    BY <1>1, <1>2
  <2> HIDE DEF size
  <2> QED BY <2>1
<1>5. ASSUME NEW i \in 1 .. n, i \notin stay PROVE upto(i) = upto(i - 1)
  BY <1>0, <1>5
<1>6. ASSUME NEW i \in 1 .. n, i \in stay PROVE upto(i) = upto(i - 1) \cup {i} /\ i \notin upto(i - 1)
  <2>1. i \notin upto(i - 1)
    BY <1>6
  <2>2. \A j \in stay : j <= i <=> j <= i - 1 \/ j = i
    BY <1>0, <1>6
  <2> QED BY <1>6, <2>1, <2>2
<1>7. ASSUME NEW i \in 1 .. n, i \in stay PROVE size(i) = size(i - 1) + 1
  <2>1. IsFiniteSet(upto(i - 1)) /\ i - 1 \in 0 .. n
    BY <1>1
  <2> HIDE DEF upto
  <2> QED BY <1>6, <1>7, <2>1, FS_AddElement
<1>8. ASSUME NEW i \in 1 .. n, i \notin stay PROVE size(i) = size(i - 1)
  BY <1>5, <1>8
<1>9. \A i \in 0 .. n : size(i) \in Nat
  BY <1>1
<1> HIDE DEF size
<1>10. PICK m \in C : \A i \in C : m <= i
  <2>1. C \in SUBSET Nat /\ n \in C
    BY <1>4
  <2> HIDE DEF C
  <2> QED BY <2>1, LeastExists
<1>11. m \in 1 .. n /\ m - 1 \in 0 .. n /\ size(m - 1) < k /\ k <= size(m)
  <2>1. m \in 0 .. n /\ k <= size(m) /\ m # 0
    BY <1>3, <1>4
  <2>2. m - 1 \in 0 .. n /\ m - 1 \notin C
    BY <1>10, <2>1
  <2> QED BY <1>9, <2>1, <2>2, <1>4
<1>12. m \in stay /\ size(m) = k
  BY <1>4, <1>7, <1>8, <1>9, <1>11
<1> QED BY <1>12 DEF size

(* retain keeps some of the entries, no other, and no more than there were. *)
LEMMA RetainedMeans ==
    ASSUME NEW S, NEW entries \in Seq(S), NEW gone
    PROVE  LET left == Retained(entries, gone)
           IN  /\ left \in Seq(S)
               /\ Len(left) <= Len(entries)
               /\ \A k \in DOMAIN left : \E i \in DOMAIN entries : left[k] = entries[i] /\ entries[i] \notin gone
<1> DEFINE n == Len(entries)
           stay == {i \in DOMAIN entries : entries[i] \notin gone}
           at(k) == CHOOSE i \in stay : Cardinality({j \in stay : j <= i}) = k
           left == [k \in 1 .. Cardinality(stay) |-> entries[at(k)]]
<1>1. n \in Nat /\ stay \in SUBSET (1 .. n) /\ DOMAIN entries = 1 .. n
  OBVIOUS
<1>2. Cardinality(stay) \in Nat /\ Cardinality(stay) <= n
  <2> HIDE DEF n, stay
  <2>1. IsFiniteSet(1 .. n) /\ Cardinality(1 .. n) = n
    <3>1. n >= 1 \/ n = 0
      BY <1>1
    <3>2. Cardinality(1 .. n) = IF 1 > n THEN 0 ELSE n - 1 + 1
      BY <1>1, FS_Interval
    <3> QED BY <1>1, <3>1, <3>2, FS_Interval
  <2>2. IsFiniteSet(stay) /\ Cardinality(stay) <= Cardinality(1 .. n)
    BY <1>1, <2>1, FS_Subset
  <2> QED BY <2>1, <2>2, FS_CardinalityType
<1>3. ASSUME NEW k \in 1 .. Cardinality(stay) PROVE at(k) \in stay
  <2>1. \A j \in stay : j \in 1 .. n
    BY <1>1
  <2> HIDE DEF n, stay
  <2> QED BY <1>1, <1>3, <2>1, RankExists
<1>4. \A k \in 1 .. Cardinality(stay) : at(k) \in DOMAIN entries /\ entries[at(k)] \notin gone
  BY <1>3
<1>5. Retained(entries, gone) = left
  BY DEF Retained
<1> HIDE DEF at, stay
<1>6. left \in [1 .. Cardinality(stay) -> S]
  BY <1>1, <1>4
<1>7. left \in Seq(S) /\ Len(left) = Cardinality(stay) /\ DOMAIN left = 1 .. Cardinality(stay)
  BY <1>2, <1>6
<1>8. \A k \in DOMAIN left : left[k] = entries[at(k)] /\ at(k) \in DOMAIN entries /\ entries[at(k)] \notin gone
  BY <1>4, <1>7
<1> HIDE DEF left
<1> QED BY <1>2, <1>5, <1>7, <1>8

-----------------------------------------------------------------------------
(* What every step does to the records under way: none that was covered or *)
(* safe ceases to be, and nothing leaves the channel uncounted.            *)
Grows ==
    /\ \A r : \A w \in Nat : Covered(r, w) => Covered(r, w)'
    /\ Safe \subseteq Safe'
    /\ SentSoFar' \in Nat /\ SentSoFar <= SentSoFar'

(* The counts of the queue and the log are numbers.                        *)
LEMMA FlowTypes ==
    ASSUME Flow
    PROVE  /\ queue \in Seq(Record) /\ Len(queue) \in Nat /\ taken \in Nat /\ discarded \in Nat
           /\ walog \in Seq(Record) /\ Len(walog) \in Nat /\ synced \in Nat /\ synced <= Len(walog)
           /\ enqueued \in Nat /\ SentSoFar \in Nat /\ open \in BOOLEAN
           /\ DOMAIN queue = 1 .. Len(queue) /\ DOMAIN walog = 1 .. Len(walog)
<1>1. /\ queue \in Seq(Record) /\ taken \in Nat /\ discarded \in Nat /\ enqueued \in Nat /\ open \in BOOLEAN
      /\ walog \in Seq(Record) /\ synced \in 0 .. Len(walog)
  BY DEF Flow, QInv, QueueTypeOK
<1>2. Len(queue) \in Nat /\ Len(walog) \in Nat
  BY <1>1
<1> QED BY <1>1, <1>2 DEF SentSoFar

(* More records in the channel cover no less.                              *)
LEMMA CoveredMore ==
    ASSUME Flow, NEW r, NEW v \in Nat, NEW w \in Nat, v <= w, Covered(r, v)
    PROVE  Covered(r, w)
<1>1. Len(walog) \in Nat /\ DOMAIN walog \subseteq Nat /\ DOMAIN queue \subseteq Nat
  BY FlowTypes
<1> QED BY <1>1 DEF Covered

(* Covered up to a count that was synced is safe.                          *)
LEMMA SyncedIsSafe ==
    ASSUME Flow, NEW r, NEW w \in Nat, w <= synced, Covered(r, w)
    PROVE  r \in Safe
<1>1. Len(walog) \in Nat /\ DOMAIN walog = 1 .. Len(walog) /\ DOMAIN queue \subseteq 1 .. Len(queue)
      /\ synced \in Nat /\ synced <= Len(walog) /\ Len(queue) \in Nat
  BY FlowTypes
<1>2. ~(~open /\ Len(walog) < w)
  BY <1>1
<1>3. ~\E i \in DOMAIN queue : queue[i] = r /\ Len(walog) + i <= w
  BY <1>1
<1>4. CASE r \in givenUp
  BY <1>4 DEF Safe
<1>5. CASE \E i \in DOMAIN walog : walog[i] = r /\ i <= w
  <2>1. PICK i \in DOMAIN walog : walog[i] = r /\ i <= w
    BY <1>5
  <2>2. i \in 1 .. synced
    BY <1>1, <2>1
  <2> QED BY <2>1, <2>2 DEF Safe, Stored
<1> QED BY <1>2, <1>3, <1>4, <1>5 DEF Covered

(* A step that moves no record.                                            *)
LEMMA FlowQuiet ==
    ASSUME Flow, UNCHANGED <<queueVars, walog, synced>>, givenUp \subseteq givenUp', givenUp' \subseteq Record,
           peerWpc' \in PeerWriterSteps, WriterAlive' <=> WriterAlive
    PROVE  Flow' /\ Grows
<1>1. QInv'
  <2>1. [QueueNext]_queueVars
    OBVIOUS
  <2> QED BY <2>1, QInvStep DEF Flow
<1>2. Flow'
  BY <1>1 DEF Flow, queueVars, counters
<1>3. SentSoFar' = SentSoFar /\ Safe \subseteq Safe'
  BY DEF SentSoFar, Safe, Stored, queueVars, counters
<1>4. SentSoFar \in Nat
  BY FlowTypes
<1>5. \A r, w : Covered(r, w) => Covered(r, w)'
  BY DEF Covered, queueVars, counters
<1> QED BY <1>2, <1>3, <1>4, <1>5 DEF Grows

(* A step of submit.                                                       *)
LEMMA FlowProducer ==
    ASSUME Flow, ProducerNext(Main), UNCHANGED <<walog, synced, peerWpc>>,
           givenUp \subseteq givenUp', givenUp' \subseteq Record
    PROVE  Flow' /\ Grows
<1>1. QInv'
  BY PeerIngestAssumption, QInvProducer DEF Flow
<1>2. UNCHANGED <<open, taken, discarded>>
  BY DEF ProducerNext, Submit, Send, Full, Timeout, Disconnected, CountEnqueued, CountClosed, Shed
<1>3. received' <= MaxReceived
  <2>1. received \in Nat /\ MaxReceived \in Nat /\ received <= MaxReceived
    BY IngestQueueAssumption DEF Flow, QInv, QueueTypeOK
  <2>2. received' = received \/ (received < MaxReceived /\ received' = received + 1)
    BY DEF ProducerNext, Submit, Send, Full, Timeout, Disconnected, CountEnqueued, CountClosed, Shed, counters
  <2> QED BY <2>1, <2>2
<1>4. queue' = queue \/ \E x \in Record : queue' = Append(queue, x)
  <2>1. CASE Send(Main)
    <3>1. sub[Main] \in Call
      BY <2>1, PeerIngestAssumption DEF Flow, QInv, QueueTypeOK, Send, NoCall, Call, Busy, SubmitSteps
    <3> QED BY <2>1, <3>1 DEF Send, Call
  <2>2. CASE ~Send(Main)
    BY <2>2 DEF ProducerNext, Submit, Full, Timeout, Disconnected, CountEnqueued, CountClosed, Shed
  <2> QED BY <2>1, <2>2
<1>5. Len(queue') >= Len(queue) /\ \A i \in DOMAIN queue : i \in DOMAIN queue' /\ queue'[i] = queue[i]
  BY <1>4, FlowTypes
<1>6. Flow'
  BY <1>1, <1>2, <1>3 DEF Flow, WriterAlive
<1>7. SentSoFar' \in Nat /\ SentSoFar <= SentSoFar'
  <2>1. Len(queue') \in Nat
    BY <1>4, FlowTypes
  <2> QED BY <1>2, <1>5, <2>1, FlowTypes DEF SentSoFar
<1>8. Safe \subseteq Safe'
  BY DEF Safe, Stored
<1>9. ASSUME NEW r, NEW w \in Nat, Covered(r, w) PROVE Covered(r, w)'
  BY <1>2, <1>5, <1>9 DEF Covered
<1> QED BY <1>6, <1>7, <1>8, <1>9 DEF Grows

(* The writer takes the first n records and appends them to the log.       *)
LEMMA FlowTake ==
    ASSUME Flow, NEW n \in Nat, Take(n), walog' = walog \o SubSeq(queue, 1, n),
           UNCHANGED <<synced, givenUp>>, peerWpc' \in PeerWriterSteps, WriterAlive' <=> WriterAlive
    PROVE  Flow' /\ Grows
<1>1. QInv'
  BY QInvConsumer DEF Flow
<1>2. /\ open /\ n \in 1 .. Len(queue) /\ queue' = SubSeq(queue, n + 1, Len(queue))
      /\ taken' = taken + n /\ UNCHANGED <<open, discarded, received>>
  BY DEF Take, counters
<1>3. /\ SubSeq(queue, 1, n) \in Seq(Record) /\ Len(SubSeq(queue, 1, n)) = n
      /\ \A i \in 1 .. n : SubSeq(queue, 1, n)[i] = queue[i]
  BY <1>2, FlowTypes
<1> DEFINE head == SubSeq(queue, 1, n)
<1> HIDE DEF head
<1>4. /\ walog' \in Seq(Record) /\ Len(walog') = Len(walog) + n
      /\ \A i \in 1 .. Len(walog) : walog'[i] = walog[i]
      /\ \A i \in 1 .. n : walog'[Len(walog) + i] = queue[i]
  BY <1>3, FlowTypes DEF head
<1>5. /\ Len(queue') = Len(queue) - n /\ queue' \in Seq(Record)
      /\ \A k \in 1 .. Len(queue) - n : queue'[k] = queue[n + k]
  <2>1. queue \in Seq(Record) /\ Len(queue) \in Nat /\ n \in 1 .. Len(queue)
    BY <1>2, FlowTypes
  <2>2. queue' \in Seq(Record) /\ Len(queue') = Len(queue) - n
    BY <1>2, <2>1
  <2>3. ASSUME NEW k \in 1 .. Len(queue) - n PROVE queue'[k] = queue[n + k]
    BY <1>2, <2>1
  <2> QED BY <2>2, <2>3
<1>6. Flow'
  <2>1. taken' = Len(walog') /\ synced' \in 0 .. Len(walog')
    BY <1>2, <1>4, FlowTypes DEF Flow
  <2> QED BY <1>1, <1>2, <1>4, <2>1 DEF Flow
<1>7. SentSoFar' = SentSoFar
  <2>1. Len(queue) \in Nat /\ taken \in Nat /\ discarded \in Nat
    BY FlowTypes
  <2>2. SentSoFar' = taken' + Len(queue') + discarded'
    BY DEF SentSoFar
  <2>3. taken' = taken + n /\ Len(queue') = Len(queue) - n /\ discarded' = discarded
    BY <1>2, <1>5
  <2>4. taken' + Len(queue') + discarded' = taken + Len(queue) + discarded
    BY ONLY <2>1, <2>3, n \in Nat
  <2> QED BY <2>2, <2>4 DEF SentSoFar
<1>8. Safe \subseteq Safe'
  <2>1. \A i \in 1 .. synced : walog'[i] = walog[i]
    BY <1>4, FlowTypes
  <2> QED BY <2>1 DEF Safe, Stored
<1>9. ASSUME NEW r, NEW w \in Nat, Covered(r, w) PROVE Covered(r, w)'
  <2>1. CASE \E i \in DOMAIN walog : walog[i] = r /\ i <= w
    <3>1. PICK i \in DOMAIN walog : walog[i] = r /\ i <= w
      BY <2>1
    <3>2. i \in DOMAIN walog' /\ walog'[i] = r
      BY <1>2, <1>4, <3>1, FlowTypes
    <3> QED BY <3>1, <3>2 DEF Covered
  <2>2. CASE \E i \in DOMAIN queue : queue[i] = r /\ Len(walog) + i <= w
    <3>1. PICK i \in DOMAIN queue : queue[i] = r /\ Len(walog) + i <= w
      BY <2>2
    <3>2. i \in 1 .. Len(queue)
      BY <3>1, FlowTypes
    <3>3. CASE i <= n
      <4>1. Len(walog) + i \in DOMAIN walog' /\ walog'[Len(walog) + i] = r
        <5>1. i \in 1 .. n /\ Len(walog) \in Nat
          BY <3>2, <3>3, FlowTypes
        <5>2. Len(walog) + i \in 1 .. Len(walog')
          BY <1>4, <5>1
        <5> QED BY <1>4, <3>1, <5>1, <5>2
      <4> QED BY <3>1, <4>1 DEF Covered
    <3>4. CASE ~(i <= n)
      <4>1. i - n \in 1 .. Len(queue') /\ queue'[i - n] = r /\ Len(walog') + (i - n) <= w
        <5>1. i - n \in 1 .. Len(queue) - n /\ n + (i - n) = i /\ Len(walog) \in Nat
          BY <3>2, <3>4, FlowTypes
        <5>2. queue'[i - n] = queue[i]
          BY <1>5, <5>1
        <5> QED BY <1>4, <1>5, <3>1, <3>2, <5>1, <5>2
      <4>2. i - n \in DOMAIN queue'
        BY <1>5, <4>1
      <4> QED BY <1>2, <4>1, <4>2 DEF Covered
    <3> QED BY <3>3, <3>4
  <2>3. CASE r \in givenUp
    BY <2>3 DEF Covered
  <2> QED BY <1>2, <1>9, <2>1, <2>2, <2>3 DEF Covered
<1> QED BY <1>6, <1>7, <1>8, <1>9, FlowTypes DEF Grows

(* The writer goes, and the channel with it.                               *)
LEMMA FlowDrop ==
    ASSUME Flow, DropConsumer, UNCHANGED <<walog, synced, givenUp>>, peerWpc' \in {"done", "failed"}
    PROVE  Flow' /\ Grows
<1>1. QInv'
  BY QInvConsumer DEF Flow
<1>2. /\ open /\ open' = FALSE /\ queue' = <<>> /\ discarded' = discarded + Len(queue)
      /\ UNCHANGED <<taken, received>>
  BY DEF DropConsumer, counters
<1>3. Flow'
  BY <1>1, <1>2 DEF Flow, WriterAlive, PeerWriterSteps
<1>4. SentSoFar' = SentSoFar
  BY <1>2, FlowTypes DEF SentSoFar
<1>5. Safe' = Safe
  BY DEF Safe, Stored
<1>6. ASSUME NEW r, NEW w \in Nat, Covered(r, w) PROVE Covered(r, w)'
  <2>1. CASE \E i \in DOMAIN queue : queue[i] = r /\ Len(walog) + i <= w
    <3>1. Len(walog) < w
      BY <2>1, FlowTypes
    <3> QED BY <1>2, <3>1 DEF Covered
  <2> QED BY <1>2, <1>6, <2>1 DEF Covered
<1> QED BY <1>3, <1>4, <1>5, <1>6, FlowTypes DEF Grows

(* The writer publishes what it has synced.                                *)
LEMMA FlowPublish ==
    ASSUME Flow, synced' = Len(walog), UNCHANGED <<queueVars, walog, givenUp>>,
           peerWpc' \in PeerWriterSteps, WriterAlive' <=> WriterAlive
    PROVE  Flow' /\ Grows
<1>1. QInv'
  <2>1. [QueueNext]_queueVars
    OBVIOUS
  <2> QED BY <2>1, QInvStep DEF Flow
<1>2. Flow'
  BY <1>1, FlowTypes DEF Flow, queueVars, counters
<1>3. SentSoFar' = SentSoFar
  BY DEF SentSoFar, queueVars, counters
<1>4. Safe \subseteq Safe'
  <2>1. 1 .. synced \subseteq 1 .. synced'
    BY FlowTypes
  <2> QED BY <2>1 DEF Safe, Stored
<1>5. \A r, w : Covered(r, w) => Covered(r, w)'
  BY DEF Covered, queueVars, counters
<1> QED BY <1>2, <1>3, <1>4, <1>5, FlowTypes DEF Grows

-----------------------------------------------------------------------------
(* The inductive invariant implies the one the runs check: a sender that   *)
(* heard 200 has every record of its batch on disk or counted as given up. *)
LEMMA PeerInvariantImplies == PeerInvariant => PeerInv
<1> SUFFICES ASSUME PeerInvariant PROVE PeerInv
  OBVIOUS
<1>1. PeerTypeOK
  BY DEF PeerInvariant, LedgerTypeOK, Flow, QInv, PeerTypeOK
<1>2. AckedOrCounted /\ RememberedOrCounted
  BY DEF PeerInvariant, Answers, AckedOrCounted, RememberedOrCounted, Acknowledged, Safe
<1>3. TicketsReachable
  <2>1. ASSUME peerWpc \in {"run", "empty", "last"} PROVE SentSoFar = Len(walog) + Len(queue)
    <3>1. discarded = 0 /\ taken = Len(walog) /\ Len(walog) \in Nat /\ Len(queue) \in Nat
      BY <2>1, FlowTypes DEF PeerInvariant, Flow, WriterAlive
    <3> QED BY <3>1 DEF SentSoFar
  <2> QED BY <2>1 DEF PeerInvariant, Bindings, TicketsReachable
<1> QED BY <1>1, <1>2, <1>3 DEF PeerInv

(* It holds before the first request.                                      *)
LEMMA PeerInitInvariant == PeerInit => PeerInvariant
<1> SUFFICES ASSUME PeerInit PROVE PeerInvariant
  OBVIOUS
<1> USE DEF PeerInit
<1>1. QInv
  BY QInvInit
<1>2. Flow
  BY <1>1, IngestQueueAssumption DEF Flow, QueueInit, WriterAlive, PeerWriterSteps
<1>3. LedgerTypeOK
  <2>1. req \in [Senders -> [at : RequestSteps, keep : SUBSET Record, ticket : 0 .. MaxTickets]]
    BY PeerIngestAssumption DEF NoRequest, RequestSteps
  <2>2. DOMAIN tickets = {} /\ <<>> \in Seq((1 .. issued) \X SUBSET Record) /\ Len(abandoned) = 0
    OBVIOUS
  <2>3. issued \in 0 .. MaxTickets /\ ticket \in 0 .. issued /\ MaxAbandoned \in Nat
    BY PeerIngestAssumption
  <2>4. \A t \in DOMAIN tickets : tickets[t] \in {Unbound} \cup {Bound(w) : w \in 0 .. MaxReceived}
    BY <2>2
  <2>5. DOMAIN tickets \subseteq 1 .. issued /\ Len(abandoned) <= MaxAbandoned
    BY <2>2, <2>3
  <2>6. /\ waitClosed \in BOOLEAN /\ pressure \in BOOLEAN /\ stop \in BOOLEAN /\ loop \in LoopSteps
        /\ count \in Nat /\ remembered \subseteq Record /\ rest \subseteq Record /\ ok \subseteq Senders
    BY DEF LoopSteps
  <2>7. abandoned \in Seq((1 .. issued) \X SUBSET Record) /\ pending \in Seq((1 .. issued) \X SUBSET Record)
    BY <2>2
  <2> HIDE DEF PeerInit
  <2> QED BY <2>1, <2>3, <2>4, <2>5, <2>6, <2>7 DEF LedgerTypeOK
<1>4. Claims = {}
  BY DEF Claims, NoRequest
<1>5. Bindings /\ OnTheWay
  BY <1>4 DEF Bindings, OnTheWay
<1>6. Answers
  BY DEF Answers, NoRequest
<1>7. Tickets
  <2>1. Asking = {}
    BY DEF Asking, NoRequest
  <2>2. Cardinality(Asking) = 0
    BY <2>1, FS_EmptySet
  <2> QED BY <2>2, PeerIngestAssumption DEF Tickets, NoRequest
<1> QED BY <1>2, <1>3, <1>5, <1>6, <1>7 DEF PeerInvariant

(* Watermarks are numbers.                                                 *)
LEMMA WatermarkTypes ==
    ASSUME LedgerTypeOK, NEW t \in DOMAIN tickets, NEW w \in tickets[t]
    PROVE  w \in Nat
<1>1. w \in 0 .. MaxReceived
  BY DEF LedgerTypeOK, Unbound, Bound
<1> QED BY <1>1, IngestQueueAssumption

(* Tickets that stay bound as they were keep what they promise.            *)
LEMMA BindingsKept ==
    ASSUME LedgerTypeOK, Bindings, Flow, Grows, Claims' \subseteq Claims,
           \A t \in DOMAIN tickets' : t \in DOMAIN tickets /\ tickets'[t] = tickets[t]
    PROVE  Bindings'
<1>1. ASSUME NEW c \in Claims', c[1] \in DOMAIN tickets', NEW w \in tickets'[c[1]], NEW r \in c[2]
      PROVE  Covered(r, w)'
  <2>1. c \in Claims /\ c[1] \in DOMAIN tickets /\ w \in tickets[c[1]]
    BY <1>1
  <2>2. Covered(r, w) /\ w \in Nat
    BY <2>1, WatermarkTypes DEF Bindings
  <2> QED BY <2>2 DEF Grows
<1>2. ASSUME NEW t \in DOMAIN tickets', NEW w \in tickets'[t] PROVE w <= SentSoFar'
  <2>1. w \in Nat /\ w <= SentSoFar
    BY <1>2, WatermarkTypes DEF Bindings
  <2> QED BY <2>1, FlowTypes DEF Grows
<1> QED BY <1>1, <1>2 DEF Bindings

(* So do the batches on their way.                                         *)
LEMMA PendingKept ==
    ASSUME OnTheWay, Claims' \subseteq Claims, pending' = pending
    PROVE  \A i \in DOMAIN pending' : \A c \in Claims' : c[1] = pending'[i][1] => c[2] \subseteq pending'[i][2]
BY DEF OnTheWay

(* A batch being submitted, over a step that leaves the loop and the       *)
(* claims alone.                                                           *)
LEMMA LoopKept ==
    ASSUME OnTheWay, Flow, Grows, Claims' \subseteq Claims, UNCHANGED <<loop, ticket>>,
           \A r : r \in rest => r \in rest' \/ Submitting(r)' \/ Covered(r, SentSoFar)',
           \A r : Submitting(r) => Submitting(r)' \/ Covered(r, SentSoFar)'
    PROVE  loop' = "submit" => \A c \in Claims' : c[1] = ticket' =>
               \A r \in c[2] : r \in rest' \/ Submitting(r)' \/ Covered(r, SentSoFar)'
<1> SUFFICES ASSUME loop' = "submit", NEW c \in Claims', c[1] = ticket', NEW r \in c[2]
             PROVE  r \in rest' \/ Submitting(r)' \/ Covered(r, SentSoFar)'
  OBVIOUS
<1>1. r \in rest \/ Submitting(r) \/ Covered(r, SentSoFar)
  BY DEF OnTheWay
<1>2. CASE Covered(r, SentSoFar)
  <2>1. PICK v \in Nat : v = SentSoFar
    BY FlowTypes
  <2>2. PICK w \in Nat : w = SentSoFar'
    BY DEF Grows
  <2>3. Covered(r, v) /\ v <= w
    BY <1>2, <2>1, <2>2 DEF Grows
  <2>4. Covered(r, w)'
    BY <2>3, CoveredMore DEF Grows
  <2> QED BY <2>2, <2>4 DEF Covered
<1> QED BY <1>1, <1>2

(* What was answered stays safe, since nothing safe is ever lost.          *)
LEMMA AnswersKept ==
    ASSUME Answers, Grows, UNCHANGED <<req, remembered, ok>>
    PROVE  Answers'
BY DEF Answers, Grows

(* The bound on tickets, over a step that leaves the requests alone.       *)
LEMMA TicketsKept ==
    ASSUME Tickets, UNCHANGED <<req, issued>>
    PROVE  Tickets'
BY DEF Tickets, Asking

(* A step of the queue or the writer alone.                                *)
LEMMA LedgerKept ==
    ASSUME PeerInvariant, Flow', Grows, UNCHANGED <<req, ackVars, loopVars, ok>>,
           pressure' \in BOOLEAN, stop' \in BOOLEAN,
           \A r : Submitting(r) => Submitting(r)' \/ Covered(r, SentSoFar)'
    PROVE  PeerInvariant'
<1>1. Flow /\ LedgerTypeOK /\ Bindings /\ OnTheWay /\ Answers /\ Tickets
  BY DEF PeerInvariant
<1>2. UNCHANGED <<tickets, abandoned, waitClosed, issued, remembered, pending, loop, ticket, rest, count>>
  BY DEF ackVars, loopVars
<1>3. Claims' = Claims
  BY <1>2 DEF Claims
<1>4. LedgerTypeOK'
  BY <1>1, <1>2 DEF LedgerTypeOK
<1>5. Bindings'
  BY <1>1, <1>2, <1>3, BindingsKept
<1>6. OnTheWay'
  <2>1. \A i \in DOMAIN pending' : \A c \in Claims' : c[1] = pending'[i][1] => c[2] \subseteq pending'[i][2]
    BY <1>1, <1>2, <1>3, PendingKept
  <2>2. loop' = "submit" => \A c \in Claims' : c[1] = ticket' =>
               \A r \in c[2] : r \in rest' \/ Submitting(r)' \/ Covered(r, SentSoFar)'
    BY <1>1, <1>2, <1>3, LoopKept
  <2> QED BY <2>1, <2>2 DEF OnTheWay
<1>7. Answers' /\ Tickets'
  BY <1>1, <1>2, AnswersKept, TicketsKept
<1> QED BY <1>4, <1>5, <1>6, <1>7 DEF PeerInvariant

-----------------------------------------------------------------------------
(* The WAL writer, the signal and the disk pressure.                       *)
LEMMA WriterKeeps ==
    ASSUME PeerInvariant, PeerWriterLoop \/ PublishSynced \/ WriterFails \/ Signal \/ SetPressure
    PROVE  PeerInvariant'
<1> USE DEF PeerWriterSteps, WriterAlive
<1>0. Flow /\ givenUp \subseteq Record /\ peerWpc \in PeerWriterSteps /\ pressure \in BOOLEAN /\ stop \in BOOLEAN
  BY DEF PeerInvariant, Flow, LedgerTypeOK
<1>1. UNCHANGED <<req, ackVars, loopVars, ok, sub>> /\ pressure' \in BOOLEAN /\ stop' \in BOOLEAN
  BY <1>0, PeerIngestAssumption
     DEF PeerWriterLoop, PublishSynced, WriterFails, Signal, SetPressure, AppendBatch, EmptyBatch, CheckStop,
         DrainQueue, LastPublish, WriterReturns, Take, DropConsumer, queueVars, writerVars
<1>2. Flow' /\ Grows
  <2>1. CASE \E n \in 1 .. Capacity : AppendBatch(n)
    <3>1. PICK n \in 1 .. Capacity : AppendBatch(n)
      BY <2>1
    <3>2. n \in Nat
      BY IngestQueueAssumption
    <3> QED BY <1>0, <3>1, <3>2, FlowTake DEF AppendBatch
  <2>2. CASE PublishSynced \/ LastPublish
    BY <1>0, <2>2, FlowPublish DEF PublishSynced, LastPublish
  <2>3. CASE EmptyBatch \/ CheckStop \/ Signal \/ SetPressure
    BY <1>0, <2>3, FlowQuiet DEF EmptyBatch, CheckStop, Signal, SetPressure, writerVars
  <2>4. CASE DrainQueue
    <3>1. /\ peerWpc = "last" /\ peerWpc' = "final" /\ UNCHANGED <<synced, givenUp>>
          /\ IF queue = <<>> THEN UNCHANGED queueVars ELSE Take(Len(queue))
          /\ walog' = walog \o queue
      BY <2>4 DEF DrainQueue
    <3>2. CASE queue = <<>>
      <4>1. walog' = walog
        BY <1>0, <3>1, <3>2, FlowTypes
      <4> QED BY <1>0, <3>1, <3>2, <4>1, FlowQuiet
    <3>3. CASE queue # <<>>
      <4>1. SubSeq(queue, 1, Len(queue)) = queue /\ Len(queue) \in Nat
        BY <1>0, FlowTypes
      <4>2. Take(Len(queue)) /\ walog' = walog \o SubSeq(queue, 1, Len(queue))
        BY <3>1, <3>3, <4>1
      <4> QED BY <1>0, <3>1, <4>1, <4>2, FlowTake
    <3> QED BY <3>2, <3>3
  <2>5. CASE WriterReturns \/ WriterFails
    BY <1>0, <2>5, FlowDrop DEF WriterReturns, WriterFails
  <2> QED BY <2>1, <2>2, <2>3, <2>4, <2>5 DEF PeerWriterLoop
<1>3. \A r : Submitting(r) => Submitting(r)' \/ Covered(r, SentSoFar)'
  BY <1>1 DEF Submitting
<1> QED BY <1>1, <1>2, <1>3, LedgerKept

(* The rest of submit.                                                     *)
LEMMA SubmitKeeps ==
    ASSUME PeerInvariant, SubmitStep
    PROVE  PeerInvariant'
<1>0. Flow /\ givenUp \subseteq Record /\ pressure \in BOOLEAN /\ stop \in BOOLEAN
  BY DEF PeerInvariant, Flow, LedgerTypeOK
<1>1. UNCHANGED <<req, ackVars, loopVars, ok, walog, synced, peerWpc, pressure, stop>>
  BY DEF SubmitStep, writerVars
<1>2. ProducerNext(Main)
  BY DEF SubmitStep, ProducerNext
<1>3. givenUp' = IF sub[Main].at \in {"closed", "shed"} THEN givenUp \cup {sub[Main].record} ELSE givenUp
  BY DEF SubmitStep
<1>4. sub \in [Producers -> {NoCall} \cup [at : SubmitSteps \ {"idle"}, record : Record]] /\ Main \in Producers
  BY <1>0, PeerIngestAssumption DEF Flow, QInv, QueueTypeOK
<1>5. ASSUME sub[Main].at # "idle" PROVE sub[Main].record \in Record
  BY <1>4, <1>5 DEF NoCall
<1>6. Flow' /\ Grows
  BY <1>0, <1>1, <1>2, <1>3, <1>5, FlowProducer
<1>7. ASSUME NEW r, Submitting(r) PROVE Submitting(r)' \/ Covered(r, SentSoFar)'
  <2>1. sub[Main].record = r /\ sub[Main].at \in {"trySend", "wait", "shed", "closed"}
    BY <1>7 DEF Submitting
  <2>2. CASE Send(Main)
    <3>1. open' = open /\ open /\ queue' = Append(queue, r) /\ taken' = taken /\ discarded' = discarded
      BY <2>1, <2>2 DEF Send
    <3>2. queue \in Seq(Record) /\ r \in Record /\ Len(queue) \in Nat /\ Len(walog) \in Nat /\ taken = Len(walog)
          /\ discarded \in Nat
      BY <1>0, <1>5, <2>1, FlowTypes DEF Flow
    <3>3. Len(queue) + 1 \in DOMAIN queue' /\ queue'[Len(queue) + 1] = r /\ Len(queue') = Len(queue) + 1
      BY <3>1, <3>2
    <3>4. Len(walog') + (Len(queue) + 1) <= SentSoFar'
      BY <1>1, <3>1, <3>2, <3>3 DEF SentSoFar
    <3> QED BY <3>1, <3>3, <3>4 DEF Covered
  <2>3. CASE Full(Main) \/ Timeout(Main) \/ Disconnected(Main)
    <3>1. PICK step \in {"wait", "shed", "closed"} : Goto(Main, step)
      BY <2>3 DEF Full, Timeout, Disconnected
    <3>2. sub'[Main] = [at |-> step, record |-> r]
      BY <1>4, <2>1, <3>1 DEF Goto
    <3> QED BY <3>2 DEF Submitting
  <2>4. CASE CountEnqueued(Main)
    BY <2>1, <2>4 DEF CountEnqueued
  <2>5. CASE CountClosed(Main) \/ Shed(Main)
    <3>1. r \in givenUp'
      BY <1>3, <2>1, <2>5 DEF CountClosed, Shed
    <3> QED BY <3>1 DEF Covered
  <2> QED BY <2>2, <2>3, <2>4, <2>5 DEF SubmitStep
<1> QED BY <1>0, <1>1, <1>6, <1>7, LedgerKept

(* A record of the batch is refused, or its submit begins.                 *)
LEMMA ProcessKeeps ==
    ASSUME PeerInvariant, NEW x \in Record, ProcessRecord(x)
    PROVE  PeerInvariant'
<1>0. Flow /\ LedgerTypeOK /\ Bindings /\ OnTheWay /\ Answers /\ Tickets /\ givenUp \subseteq Record
  BY DEF PeerInvariant, Flow
<1>1. /\ sub[Main].at = "idle" /\ rest' = rest \ {x} /\ count' = count + 1
      /\ UNCHANGED <<req, tickets, abandoned, waitClosed, issued, remembered, pending, loop, ticket,
                     pressure, stop, peerWpc, walog, synced, ok>>
  BY DEF ProcessRecord, AtRest, ackVars, writerVars
<1>2. /\ Flow' /\ Grows
      /\ Submitting(x)' \/ x \in givenUp'
  <2>1. CASE pressure /\ ClassOf[x] = "Debug"
    <3>1. givenUp' = givenUp \cup {x} /\ UNCHANGED queueVars
      BY <2>1 DEF ProcessRecord
    <3>2. peerWpc' \in PeerWriterSteps /\ (WriterAlive' <=> WriterAlive)
      BY <1>0, <1>1 DEF Flow, WriterAlive
    <3> QED BY <1>0, <1>1, <3>1, <3>2, FlowQuiet
  <2>2. CASE ~(pressure /\ ClassOf[x] = "Debug")
    <3>1. Submit(Main, x) /\ givenUp' = givenUp
      BY <2>2 DEF ProcessRecord
    <3>2. ProducerNext(Main)
      BY <3>1 DEF ProducerNext
    <3>3. sub'[Main] = [at |-> "trySend", record |-> x]
      BY <1>0, <3>1, PeerIngestAssumption DEF Submit, Flow, QInv, QueueTypeOK
    <3> QED BY <1>0, <1>1, <3>1, <3>2, <3>3, FlowProducer DEF Submitting
  <2> QED BY <2>1, <2>2
<1>3. Claims' = Claims
  BY <1>1 DEF Claims
<1>4. LedgerTypeOK'
  BY <1>0, <1>1 DEF LedgerTypeOK
<1>5. Bindings'
  BY <1>0, <1>1, <1>2, <1>3, BindingsKept
<1>6. OnTheWay'
  <2>1. \A i \in DOMAIN pending' : \A c \in Claims' : c[1] = pending'[i][1] => c[2] \subseteq pending'[i][2]
    BY <1>0, <1>1, <1>3, PendingKept
  <2>2. \A r : r \in rest => r \in rest' \/ Submitting(r)' \/ Covered(r, SentSoFar)'
    <3>1. x \in givenUp' => Covered(x, SentSoFar)'
      BY DEF Covered
    <3> QED BY <1>1, <1>2, <3>1
  <2>3. \A r : Submitting(r) => Submitting(r)' \/ Covered(r, SentSoFar)'
    BY <1>1 DEF Submitting
  <2>4. loop' = "submit" => \A c \in Claims' : c[1] = ticket' =>
               \A r \in c[2] : r \in rest' \/ Submitting(r)' \/ Covered(r, SentSoFar)'
    BY <1>0, <1>1, <1>2, <1>3, <2>2, <2>3, LoopKept
  <2> QED BY <2>1, <2>4 DEF OnTheWay
<1>7. Answers' /\ Tickets'
  BY <1>0, <1>1, <1>2, AnswersKept, TicketsKept
<1> QED BY <1>2, <1>4, <1>5, <1>6, <1>7 DEF PeerInvariant

(* A batch moves from the channel to the loop with all its records.        *)
LEMMA TakePendingKeeps ==
    ASSUME PeerInvariant, TakePending
    PROVE  PeerInvariant'
<1>0. Flow /\ LedgerTypeOK /\ Bindings /\ OnTheWay /\ Answers /\ Tickets
  BY DEF PeerInvariant
<1>1. /\ pending # <<>> /\ ticket' = Head(pending)[1] /\ rest' = Head(pending)[2] /\ pending' = Tail(pending)
      /\ loop' = "submit"
      /\ UNCHANGED <<queueVars, req, tickets, abandoned, waitClosed, issued, remembered, count, pressure, stop,
                     peerWpc, walog, synced, givenUp, ok>>
  BY DEF TakePending, ackVars, writerVars
<1> DEFINE Batch == (1 .. issued) \X SUBSET Record
<1>2. pending \in Seq(Batch) /\ issued \in Nat
  BY <1>0, PeerIngestAssumption DEF LedgerTypeOK
<1>3. 1 \in DOMAIN pending /\ Head(pending) = pending[1] /\ Head(pending) \in Batch
  BY <1>1, <1>2
<1>4. Tail(pending) \in Seq(Batch) /\ \A i \in DOMAIN Tail(pending) : i + 1 \in DOMAIN pending /\ Tail(pending)[i] = pending[i + 1]
  BY <1>1, <1>2
<1>5. Flow' /\ Grows
  BY <1>0, <1>1, FlowQuiet DEF Flow, WriterAlive
<1>6. Claims' = Claims
  BY <1>1 DEF Claims
<1>7. LedgerTypeOK'
  <2>1. ticket' \in 0 .. issued /\ rest' \subseteq Record
    BY <1>1, <1>2, <1>3
  <2> QED BY <1>0, <1>1, <1>4, <2>1 DEF LedgerTypeOK, LoopSteps
<1>8. Bindings'
  BY <1>0, <1>1, <1>5, <1>6, BindingsKept
<1>9. OnTheWay'
  BY <1>0, <1>1, <1>3, <1>4, <1>6 DEF OnTheWay
<1>10. Answers' /\ Tickets'
  BY <1>0, <1>1, <1>5, AnswersKept, TicketsKept
<1> QED BY <1>5, <1>7, <1>8, <1>9, <1>10 DEF PeerInvariant

(* The ticket is bound when nothing of its batch is under way any more.    *)
LEMMA BindKeeps ==
    ASSUME PeerInvariant, BindTicket
    PROVE  PeerInvariant'
<1>0. Flow /\ LedgerTypeOK /\ Bindings /\ OnTheWay /\ Answers /\ Tickets
  BY DEF PeerInvariant
<1>1. /\ loop = "submit" /\ sub[Main].at = "idle" /\ rest = {} /\ loop' = "pass" /\ ticket' = 0
      /\ tickets' = IF ticket \in DOMAIN tickets THEN [tickets EXCEPT ![ticket] = Bound(enqueued)] ELSE tickets
      /\ UNCHANGED <<queueVars, req, abandoned, waitClosed, issued, remembered, pending, rest, count, pressure, stop,
                     peerWpc, walog, synced, givenUp, ok>>
  BY DEF BindTicket, AtRest, Watermark, ackVars, writerVars
<1>2. SentSoFar = enqueued /\ enqueued \in Nat
  <2>1. Inside({"sent"}) = {}
    BY <1>1, PeerIngestAssumption DEF Inside
  <2>2. Uncounted = 0
    BY <2>1, FS_EmptySet DEF Uncounted
  <2> QED BY <1>0, <2>2, FlowTypes DEF Flow, QInv, EnqueuedIsConserved, SentSoFar
<1>3. enqueued \in 0 .. MaxReceived
  <2>1. received \in Nat /\ enqueued \in Nat /\ Dropped \in Nat /\ received <= MaxReceived
    BY <1>0 DEF Flow, QInv, QueueTypeOK, Dropped
  <2>2. received = enqueued + Dropped + InCall /\ InCall \in Nat
    BY <1>0, InsideFinite DEF Flow, QInv, AccountsForEverything, InCall
  <2> QED BY <2>1, <2>2, IngestQueueAssumption
<1>4. Flow' /\ Grows
  BY <1>0, <1>1, FlowQuiet DEF Flow, WriterAlive
<1>5. Claims' = Claims
  BY <1>1 DEF Claims
<1>6. /\ DOMAIN tickets' = DOMAIN tickets
      /\ \A t \in DOMAIN tickets : tickets'[t] = tickets[t] \/ (t = ticket /\ tickets'[t] = Bound(enqueued))
  BY <1>1
<1>7. LedgerTypeOK'
  <2>1. \A t \in DOMAIN tickets' : tickets'[t] \in {Unbound} \cup {Bound(w) : w \in 0 .. MaxReceived}
    BY <1>0, <1>3, <1>6 DEF LedgerTypeOK
  <2>2. ticket' \in 0 .. issued
    BY <1>0, <1>1 DEF LedgerTypeOK
  <2> QED BY <1>0, <1>1, <1>6, <2>1, <2>2 DEF LedgerTypeOK, LoopSteps
<1>8. Bindings'
  <2>1. ASSUME NEW c \in Claims', c[1] \in DOMAIN tickets', NEW w \in tickets'[c[1]], NEW r \in c[2]
        PROVE  Covered(r, w)'
    <3>1. CASE w \in tickets[c[1]]
      <4>1. Covered(r, w) /\ w \in Nat
        BY <1>0, <1>5, <1>6, <2>1, <3>1, WatermarkTypes DEF Bindings
      <4> QED BY <1>4, <4>1 DEF Grows
    <3>2. CASE w \notin tickets[c[1]]
      <4>1. c[1] = ticket /\ w = enqueued
        BY <1>6, <2>1, <3>2 DEF Bound
      <4>2. Covered(r, SentSoFar)
        BY <1>0, <1>1, <1>5, <2>1, <4>1 DEF OnTheWay, Submitting
      <4>3. Covered(r, w) /\ w \in Nat
        BY <1>2, <4>1, <4>2
      <4> QED BY <1>4, <4>3 DEF Grows
    <3> QED BY <3>1, <3>2
  <2>2. ASSUME NEW t \in DOMAIN tickets', NEW w \in tickets'[t] PROVE w <= SentSoFar'
    <3>1. SentSoFar' = SentSoFar
      BY <1>1 DEF SentSoFar, queueVars, counters
    <3>2. w \in tickets[t] \/ w = enqueued
      BY <1>6, <2>2 DEF Bound
    <3> QED BY <1>0, <1>2, <1>6, <3>1, <3>2 DEF Bindings
  <2> QED BY <2>1, <2>2 DEF Bindings
<1>9. OnTheWay'
  BY <1>0, <1>1, <1>5 DEF OnTheWay
<1>10. Answers' /\ Tickets'
  BY <1>0, <1>1, <1>4, AnswersKept, TicketsKept
<1> QED BY <1>4, <1>7, <1>8, <1>9, <1>10 DEF PeerInvariant

(* The loop ends, and the shutdown takes its course.                       *)
LEMMA ShutdownKeeps ==
    ASSUME PeerInvariant, EndLoop \/ ShutdownReceiver \/ StopWriter \/ JoinWriter
    PROVE  PeerInvariant'
<1>0. Flow /\ LedgerTypeOK /\ Bindings /\ OnTheWay /\ Answers /\ Tickets
  BY DEF PeerInvariant
<1>1. /\ loop' \in {"closing", "shutdown", "joining", "ended"}
      /\ ticket' \in {ticket, 0} /\ rest' \in {rest, {}}
      /\ waitClosed' = waitClosed \/ waitClosed' = TRUE
      /\ stop' = stop \/ stop' = TRUE
      /\ UNCHANGED <<queueVars, req, tickets, abandoned, issued, remembered, pending, count, pressure,
                     peerWpc, walog, synced, givenUp, ok>>
  BY DEF EndLoop, ShutdownReceiver, StopWriter, JoinWriter, ackVars, writerVars
<1>2. Flow' /\ Grows
  BY <1>0, <1>1, FlowQuiet DEF Flow, WriterAlive
<1>3. Claims' = Claims
  BY <1>1 DEF Claims
<1>4. LedgerTypeOK'
  <2>1. ticket' \in 0 .. issued
    BY <1>0, <1>1 DEF LedgerTypeOK
  <2>2. rest' \subseteq Record /\ loop' \in LoopSteps
    BY <1>0, <1>1 DEF LedgerTypeOK, LoopSteps
  <2>3. waitClosed' \in BOOLEAN /\ stop' \in BOOLEAN
    BY <1>0, <1>1 DEF LedgerTypeOK
  <2> QED BY <1>0, <1>1, <2>1, <2>2, <2>3 DEF LedgerTypeOK
<1>5. Bindings'
  BY <1>0, <1>1, <1>2, <1>3, BindingsKept
<1>6. OnTheWay'
  BY <1>0, <1>1, <1>3 DEF OnTheWay
<1>7. Answers' /\ Tickets'
  BY <1>0, <1>1, <1>2, AnswersKept, TicketsKept
<1> QED BY <1>2, <1>4, <1>5, <1>6, <1>7 DEF PeerInvariant

-----------------------------------------------------------------------------
(* The requests.                                                           *)

(* There are finitely many requests.                                       *)
LEMMA AskingFinite == IsFiniteSet(Asking) /\ Cardinality(Asking) \in Nat
BY PeerIngestAssumption, FS_Subset, FS_CardinalityType, Asking \subseteq Senders DEF Asking

(* Where a request may yet issue a ticket.                                 *)
AskingSteps == {"settled", "room", "send"}

(* How many requests may still issue a ticket.                             *)
LEMMA AskingChange ==
    ASSUME LedgerTypeOK, NEW s \in Senders, NEW e, req' = [req EXCEPT ![s] = e]
    PROVE  /\ Asking' = IF e.at \in AskingSteps THEN Asking \cup {s} ELSE Asking \ {s}
           /\ Cardinality(Asking') = Cardinality(Asking) + (IF e.at \in AskingSteps THEN 1 ELSE 0)
                                                         - (IF s \in Asking THEN 1 ELSE 0)
<1>1. Asking' = IF e.at \in AskingSteps THEN Asking \cup {s} ELSE Asking \ {s}
  BY DEF Asking, AskingSteps, LedgerTypeOK
<1>2. CASE e.at \in AskingSteps
  <2>1. Cardinality(Asking \cup {s}) = IF s \in Asking THEN Cardinality(Asking) ELSE Cardinality(Asking) + 1
    BY AskingFinite, FS_AddElement
  <2> QED BY <1>1, <1>2, <2>1, AskingFinite
<1>3. CASE e.at \notin AskingSteps
  <2>1. Cardinality(Asking \ {s}) = IF s \in Asking THEN Cardinality(Asking) - 1 ELSE Cardinality(Asking)
    BY AskingFinite, FS_RemoveElement
  <2> QED BY <1>1, <1>3, <2>1, AskingFinite
<1> QED BY <1>1, <1>2, <1>3

(* A step of a request that binds nothing and sends nothing.               *)
LEMMA RequestKept ==
    ASSUME PeerInvariant, NEW s \in Senders, NEW e, req' = [req EXCEPT ![s] = e],
           e.at # "wait", LedgerTypeOK',
           UNCHANGED <<queueVars, walog, synced, peerWpc, givenUp, issued, pending, loop, ticket, rest>>,
           Claims' \subseteq Claims,
           \A t \in DOMAIN tickets' : t \in DOMAIN tickets /\ tickets'[t] = tickets[t],
           remembered \subseteq remembered', remembered' \subseteq Safe,
           e.at \in {"settled", "save"} => e.keep \subseteq Safe,
           e.at \in {"room", "send", "save"} => BatchOf[s] \subseteq e.keep \cup remembered',
           \A x \in ok' : x \in ok \/ BatchOf[x] \subseteq Safe,
           e.at \in AskingSteps => s \in Asking \/ issued + Cardinality(Asking) < MaxTickets
    PROVE  PeerInvariant'
<1>0. Flow /\ LedgerTypeOK /\ Bindings /\ OnTheWay /\ Answers /\ Tickets
  BY DEF PeerInvariant
<1>1. Flow' /\ Grows
  BY <1>0, FlowQuiet DEF Flow, WriterAlive
<1>2. Bindings'
  BY <1>0, <1>1, BindingsKept
<1>3. OnTheWay'
  <2>1. \A i \in DOMAIN pending' : \A c \in Claims' : c[1] = pending'[i][1] => c[2] \subseteq pending'[i][2]
    BY <1>0, PendingKept
  <2>2. \A r : Submitting(r) => Submitting(r)'
    BY DEF Submitting, queueVars
  <2>3. loop' = "submit" => \A c \in Claims' : c[1] = ticket' =>
               \A r \in c[2] : r \in rest' \/ Submitting(r)' \/ Covered(r, SentSoFar)'
    BY <1>0, <1>1, <2>2, LoopKept
  <2> QED BY <2>1, <2>3 DEF OnTheWay
<1>4. \A x \in Senders : req'[x] = IF x = s THEN e ELSE req[x]
  BY <1>0 DEF LedgerTypeOK
<1>5. Answers'
  <2>1. Safe \subseteq Safe'
    BY <1>1 DEF Grows
  <2>2. \A x \in Senders : req'[x].at \in {"settled", "save"} => req'[x].keep \subseteq Safe'
    BY <1>0, <1>4, <2>1 DEF Answers
  <2>3. \A x \in Senders : req'[x].at \in {"room", "send", "wait", "save"} =>
            BatchOf[x] \subseteq req'[x].keep \cup remembered'
    BY <1>0, <1>4 DEF Answers
  <2>4. \A x \in ok' : BatchOf[x] \subseteq Safe'
    BY <1>0, <2>1 DEF Answers
  <2> QED BY <2>1, <2>2, <2>3, <2>4 DEF Answers
<1>6. Tickets'
  <2>1. \A x \in Senders : req'[x].at = "wait" => req'[x].ticket \in 1 .. issued'
    BY <1>0, <1>4 DEF Tickets
  <2>2. issued' + Cardinality(Asking') <= MaxTickets
    <3>1. /\ Cardinality(Asking') = Cardinality(Asking) + (IF e.at \in AskingSteps THEN 1 ELSE 0)
                                                        - (IF s \in Asking THEN 1 ELSE 0)
          /\ Cardinality(Asking) \in Nat
      BY <1>0, AskingChange, AskingFinite
    <3>2. issued \in Nat /\ MaxTickets \in Nat /\ issued + Cardinality(Asking) <= MaxTickets
      BY <1>0, PeerIngestAssumption DEF LedgerTypeOK, Tickets
    <3> QED BY <3>1, <3>2
  <2> QED BY <2>1, <2>2 DEF Tickets
<1> QED BY <1>1, <1>2, <1>3, <1>5, <1>6 DEF PeerInvariant

(* What a sender's request may be.                                         *)
Request == [at : RequestSteps, keep : SUBSET Record, ticket : 0 .. MaxTickets]

(* The types after a request's step that leaves the loop alone.            *)
LEMMA LedgerTypesKept ==
    ASSUME LedgerTypeOK, NEW s \in Senders, NEW e \in Request, req' = [req EXCEPT ![s] = e],
           DOMAIN tickets' \subseteq DOMAIN tickets,
           \A t \in DOMAIN tickets' : tickets'[t] = tickets[t],
           abandoned' \in Seq((1 .. issued) \X SUBSET Record), Len(abandoned') <= MaxAbandoned,
           remembered' \subseteq Record, ok' \subseteq Senders,
           UNCHANGED <<waitClosed, issued, pending, loop, ticket, rest, count, pressure, stop>>
    PROVE  LedgerTypeOK'
<1>1. req' \in [Senders -> Request]
  BY DEF LedgerTypeOK, Request
<1>2. /\ DOMAIN tickets' \subseteq 1 .. issued
      /\ \A t \in DOMAIN tickets' : tickets'[t] \in {Unbound} \cup {Bound(w) : w \in 0 .. MaxReceived}
  BY DEF LedgerTypeOK
<1> QED BY <1>1, <1>2 DEF LedgerTypeOK, Request

(* Where another request's step leaves the claims.                         *)
LEMMA ClaimsKept ==
    ASSUME LedgerTypeOK, NEW s \in Senders, NEW e, req' = [req EXCEPT ![s] = e], e.at # "wait",
           \A k \in DOMAIN abandoned' : abandoned'[k] \in Claims
    PROVE  Claims' \subseteq Claims
<1>1. \A x \in Senders : req'[x] = IF x = s THEN e ELSE req[x]
  BY DEF LedgerTypeOK
<1>2. {<<req'[x].ticket, req'[x].keep>> : x \in {y \in Senders : req'[y].at = "wait"}} \subseteq Claims
  BY <1>1 DEF Claims
<1> QED BY <1>2 DEF Claims

(* A ticket that is durable makes what was claimed with it safe.           *)
LEMMA DurableIsSafe ==
    ASSUME Flow, LedgerTypeOK, Bindings, NEW c \in Claims, DurableTicket(c[1])
    PROVE  c[2] \subseteq Safe
<1>1. PICK w \in tickets[c[1]] : c[1] \in DOMAIN tickets /\ synced >= w
  BY DEF DurableTicket
<1>2. w \in Nat
  BY <1>1, WatermarkTypes
<1>3. \A r \in c[2] : Covered(r, w)
  BY <1>1 DEF Bindings
<1>4. synced \in Nat /\ w <= synced
  BY <1>1, <1>2, FlowTypes
<1> QED BY <1>2, <1>3, <1>4, SyncedIsSafe

(* A new request takes the abandoned batches that have synced since: what  *)
(* it is about to remember is safe, and the others stay in their order.    *)
LEMMA SettleKeeps ==
    ASSUME PeerInvariant, NEW s \in Senders, Settle(s)
    PROVE  PeerInvariant'
<1>0. Flow /\ LedgerTypeOK /\ Bindings /\ OnTheWay /\ Answers /\ Tickets
  BY DEF PeerInvariant
<1> DEFINE late == {abandoned[i] : i \in {j \in DOMAIN abandoned : Settled(abandoned[j])}}
           keep == UNION {a[2] : a \in late}
           e == [at |-> "settled", keep |-> keep, ticket |-> 0]
<1>1. /\ req[s].at = "idle"
      /\ issued + Cardinality(Asking) < MaxTickets
      /\ abandoned' = Retained(abandoned, late) /\ tickets' = Without(tickets, {a[1] : a \in late})
      /\ req' = [req EXCEPT ![s] = e]
      /\ UNCHANGED <<queueVars, waitClosed, issued, remembered, pending, loop, ticket, rest, count, pressure, stop,
                     peerWpc, walog, synced, givenUp, ok>>
  BY DEF Settle, Asking, loopVars, writerVars
<1>2. abandoned \in Seq((1 .. issued) \X SUBSET Record) /\ Len(abandoned) \in Nat /\ MaxAbandoned \in Nat
      /\ Len(abandoned) <= MaxAbandoned
  BY <1>0, PeerIngestAssumption DEF LedgerTypeOK
<1>3. \A a \in late : a \in Claims /\ DurableTicket(a[1]) /\ a[2] \subseteq Record
  BY <1>2 DEF Claims, Settled
<1> HIDE DEF late
<1>4. keep \subseteq Safe /\ keep \subseteq Record
  <2>1. \A a \in late : a[2] \subseteq Safe
    BY <1>0, <1>3, DurableIsSafe
  <2> QED BY <1>3, <2>1
<1>5. e \in Request /\ e.at = "settled" /\ e.keep = keep
  BY <1>4, PeerIngestAssumption DEF Request, RequestSteps
<1> HIDE DEF e, keep
<1>6. /\ abandoned' \in Seq((1 .. issued) \X SUBSET Record)
      /\ Len(abandoned') <= Len(abandoned) /\ Len(abandoned') \in Nat
      /\ \A k \in DOMAIN abandoned' : \E i \in DOMAIN abandoned : abandoned'[k] = abandoned[i]
  BY <1>1, <1>2, RetainedMeans
<1>7. /\ DOMAIN tickets' \subseteq DOMAIN tickets
      /\ \A t \in DOMAIN tickets' : tickets'[t] = tickets[t]
  BY <1>1 DEF Without
<1>8. LedgerTypeOK'
  <2>1. Len(abandoned') <= MaxAbandoned
    BY <1>2, <1>6
  <2>2. remembered' \subseteq Record /\ ok' \subseteq Senders
    BY <1>0, <1>1 DEF LedgerTypeOK
  <2> QED BY <1>0, <1>1, <1>5, <1>6, <1>7, <2>1, <2>2, LedgerTypesKept
<1>9. Claims' \subseteq Claims
  <2>1. \A k \in DOMAIN abandoned' : abandoned'[k] \in Claims
    BY <1>6 DEF Claims
  <2> QED BY <1>0, <1>1, <1>5, <2>1, ClaimsKept
<1>10. remembered' = remembered /\ remembered \subseteq Safe /\ ok' = ok
  BY <1>0, <1>1 DEF Answers
<1> QED BY <1>1, <1>4, <1>5, <1>7, <1>8, <1>9, <1>10, RequestKept

(* The steps that leave tickets and claims alone, or take a claim away.    *)
LEMMA AskingKeeps ==
    ASSUME PeerInvariant, NEW s \in Senders, Dedupe(s) \/ AllDuplicates(s) \/ CheckRoom(s) \/ SaveIds(s)
    PROVE  PeerInvariant'
<1>0. Flow /\ LedgerTypeOK /\ Bindings /\ OnTheWay /\ Answers /\ Tickets /\ s \in Senders
  BY DEF PeerInvariant
<1>1. UNCHANGED <<queueVars, tickets, abandoned, waitClosed, issued, pending, loop, ticket, rest, count, pressure, stop,
                  peerWpc, walog, synced, givenUp>>
  BY DEF Dedupe, AllDuplicates, CheckRoom, SaveIds, ackVars, loopVars, writerVars
<1>2. req[s] \in Request /\ BatchOf[s] \subseteq Record /\ remembered \subseteq Record /\ ok \subseteq Senders
      /\ NoRequest \in Request
  BY <1>0, PeerIngestAssumption DEF LedgerTypeOK, Request, NoRequest, RequestSteps
<1>3. remembered \subseteq Safe /\ \A x \in ok : BatchOf[x] \subseteq Safe
  BY <1>0 DEF Answers
<1>4. PICK e \in Request :
         /\ req' = [req EXCEPT ![s] = e] /\ e.at # "wait"
         /\ remembered \subseteq remembered' /\ remembered' \subseteq Safe /\ remembered' \subseteq Record
         /\ e.at \in {"settled", "save"} => e.keep \subseteq Safe
         /\ e.at \in {"room", "send", "save"} => BatchOf[s] \subseteq e.keep \cup remembered'
         /\ ok' \subseteq Senders /\ \A x \in ok' : x \in ok \/ BatchOf[x] \subseteq Safe
         /\ e.at \in AskingSteps => s \in Asking
  <2>1. CASE Dedupe(s)
    <3> DEFINE e == [at |-> "room", keep |-> BatchOf[s] \ remembered', ticket |-> 0]
    <3>1. req[s].at = "settled" /\ remembered' = remembered \cup req[s].keep /\ req' = [req EXCEPT ![s] = e] /\ ok' = ok
      BY <2>1 DEF Dedupe
    <3>2. e \in Request
      BY <1>2, PeerIngestAssumption DEF Request, RequestSteps
    <3>3. req[s].keep \subseteq Safe /\ req[s].keep \subseteq Record /\ s \in Asking
      BY <1>0, <1>2, <3>1 DEF Answers, Request, Asking
    <3> QED BY <1>2, <1>3, <3>1, <3>2, <3>3
  <2>2. CASE AllDuplicates(s)
    <3>1. req[s].at = "room" /\ req[s].keep = {} /\ req' = [req EXCEPT ![s] = NoRequest] /\ ok' = ok \cup {s}
          /\ remembered' = remembered
      BY <2>2 DEF AllDuplicates, Answer, ackVars
    <3>2. BatchOf[s] \subseteq Safe
      BY <1>0, <1>3, <3>1 DEF Answers
    <3> QED BY <1>2, <1>3, <3>1, <3>2 DEF NoRequest, AskingSteps
  <2>3. CASE CheckRoom(s)
    <3> DEFINE e == [req[s] EXCEPT !.at = "send"]
    <3>1. /\ req[s].at = "room" /\ remembered' = remembered /\ ok' = ok
          /\ req' = [req EXCEPT ![s] = NoRequest] \/ req' = [req EXCEPT ![s] = e]
      BY <2>3 DEF CheckRoom, Answer, ackVars
    <3>2. e \in Request /\ e.at = "send" /\ e.keep = req[s].keep
      BY <1>2 DEF Request, RequestSteps
    <3>3. BatchOf[s] \subseteq req[s].keep \cup remembered /\ s \in Asking
      BY <1>0, <3>1 DEF Answers, Asking
    <3> HIDE DEF e
    <3>4. CASE req' = [req EXCEPT ![s] = NoRequest]
      BY <1>2, <1>3, <3>1, <3>4 DEF NoRequest, AskingSteps
    <3>5. CASE req' = [req EXCEPT ![s] = e]
      BY <1>2, <1>3, <3>1, <3>2, <3>3, <3>5 DEF AskingSteps
    <3> QED BY <3>1, <3>4, <3>5
  <2>4. CASE SaveIds(s)
    <3>1. req[s].at = "save" /\ remembered' = remembered \cup req[s].keep /\ req' = [req EXCEPT ![s] = NoRequest]
          /\ ok' = ok \cup {s}
      BY <2>4 DEF SaveIds, Answer
    <3>2. req[s].keep \subseteq Safe /\ req[s].keep \subseteq Record /\ BatchOf[s] \subseteq req[s].keep \cup remembered
      BY <1>0, <1>2, <3>1 DEF Answers, Request
    <3> QED BY <1>2, <1>3, <3>1, <3>2 DEF NoRequest, AskingSteps
  <2> QED BY <2>1, <2>2, <2>3, <2>4
<1>5. LedgerTypeOK'
  <2>1. abandoned' \in Seq((1 .. issued) \X SUBSET Record) /\ Len(abandoned') <= MaxAbandoned
    BY <1>0, <1>1 DEF LedgerTypeOK
  <2> QED BY <1>0, <1>1, <1>4, <2>1, LedgerTypesKept
<1>6. Claims' \subseteq Claims
  <2>1. \A k \in DOMAIN abandoned' : abandoned'[k] \in Claims
    BY <1>1 DEF Claims
  <2> QED BY <1>0, <1>4, <2>1, ClaimsKept
<1> QED BY <1>1, <1>4, <1>5, <1>6, RequestKept

(* What is left of a sequence without its first n entries.                 *)
LEMMA DropFirst ==
    ASSUME NEW S, NEW q \in Seq(S), NEW n \in 0 .. Len(q)
    PROVE  /\ SubSeq(q, n + 1, Len(q)) \in Seq(S)
           /\ Len(SubSeq(q, n + 1, Len(q))) = Len(q) - n
           /\ \A k \in 1 .. Len(q) - n : SubSeq(q, n + 1, Len(q))[k] = q[n + k] /\ n + k \in 1 .. Len(q)
<1>1. Len(q) \in Nat /\ n \in Nat /\ n <= Len(q)
  OBVIOUS
<1>2. SubSeq(q, n + 1, Len(q)) \in Seq(S) /\ Len(SubSeq(q, n + 1, Len(q))) = Len(q) - n
  BY <1>1
<1>3. ASSUME NEW k \in 1 .. Len(q) - n
      PROVE  SubSeq(q, n + 1, Len(q))[k] = q[n + k] /\ n + k \in 1 .. Len(q)
  <2>1. (n + 1) + k - 1 = n + k /\ n + k \in 1 .. Len(q)
    BY <1>1
  <2> QED BY <1>1, <2>1
<1> QED BY <1>2, <1>3

(* A wait ends.                                                            *)
LEMMA WaitKeeps ==
    ASSUME PeerInvariant, NEW s \in Senders, WaitClosed(s) \/ WaitSynced(s) \/ WaitTimedOut(s)
    PROVE  PeerInvariant'
<1>0. Flow /\ LedgerTypeOK /\ Bindings /\ OnTheWay /\ Answers /\ Tickets
  BY DEF PeerInvariant
<1> DEFINE Batch == (1 .. issued) \X SUBSET Record
           claim == <<req[s].ticket, req[s].keep>>
<1>1. /\ req[s].at = "wait"
      /\ UNCHANGED <<queueVars, waitClosed, issued, remembered, pending, loop, ticket, rest, count, pressure, stop,
                     peerWpc, walog, synced, givenUp, ok>>
  BY DEF WaitClosed, WaitSynced, WaitTimedOut, loopVars, writerVars
<1>2. req[s] \in Request /\ NoRequest \in Request /\ NoRequest.at = "idle"
  BY <1>0, PeerIngestAssumption DEF LedgerTypeOK, Request, NoRequest, RequestSteps
<1>3. claim \in Claims /\ claim \in Batch /\ BatchOf[s] \subseteq req[s].keep \cup remembered
  BY <1>0, <1>1, <1>2 DEF Claims, Tickets, Request, Answers
<1>4. abandoned \in Seq(Batch) /\ Len(abandoned) \in Nat /\ Len(abandoned) <= MaxAbandoned /\ MaxAbandoned \in Nat
      /\ \A k \in DOMAIN abandoned : abandoned[k] \in Claims
  BY <1>0, PeerIngestAssumption DEF LedgerTypeOK, Claims
<1>5. PICK gone : tickets' = Without(tickets, gone)
  <2>1. CASE WaitClosed(s) \/ WaitSynced(s)
    BY <2>1 DEF WaitClosed, WaitSynced
  <2>2. CASE WaitTimedOut(s)
    BY <2>2 DEF WaitTimedOut
  <2> QED BY <2>1, <2>2
<1>6. /\ DOMAIN tickets' \subseteq DOMAIN tickets
      /\ \A t \in DOMAIN tickets' : tickets'[t] = tickets[t]
  BY <1>5 DEF Without
<1>7. /\ abandoned' \in Seq(Batch) /\ Len(abandoned') <= MaxAbandoned
      /\ \A k \in DOMAIN abandoned' : abandoned'[k] \in Claims
  <2>1. CASE WaitClosed(s) \/ WaitSynced(s)
    BY <1>4, <2>1 DEF WaitClosed, WaitSynced
  <2>2. CASE WaitTimedOut(s)
    <3> DEFINE all == Append(abandoned, claim)
               n == Evicted(all)
    <3>1. abandoned' = SubSeq(all, n + 1, Len(all))
      BY <2>2 DEF WaitTimedOut
    <3> HIDE DEF claim
    <3>2. all \in Seq(Batch) /\ Len(all) = Len(abandoned) + 1 /\ \A k \in 1 .. Len(all) : all[k] \in Claims
      <4>1. all \in Seq(Batch) /\ Len(all) = Len(abandoned) + 1
        BY <1>3, <1>4
      <4>2. ASSUME NEW k \in 1 .. Len(abandoned) + 1 PROVE all[k] \in Claims
        BY <1>3, <1>4
      <4> QED BY <4>1, <4>2
    <3>3. n \in {0, 1} /\ Len(all) - n <= MaxAbandoned
      BY <1>4, <3>2 DEF Evicted
    <3> HIDE DEF all, n
    <3>4. abandoned' \in Seq(Batch) /\ Len(abandoned') = Len(all) - n
      <4>1. n \in 0 .. Len(all)
        BY <1>4, <3>2, <3>3
      <4> HIDE DEF Batch
      <4> QED BY <3>1, <3>2, <4>1, DropFirst
    <3>5. ASSUME NEW k \in 1 .. Len(all) - n PROVE abandoned'[k] \in Claims
      <4>1. n \in 0 .. Len(all)
        BY <1>4, <3>2, <3>3
      <4>2. abandoned'[k] = all[n + k] /\ n + k \in 1 .. Len(all)
        <5> HIDE DEF Batch
        <5> QED BY <3>1, <3>2, <4>1, DropFirst
      <4> QED BY <3>2, <4>2
    <3>6. DOMAIN abandoned' = 1 .. Len(all) - n
      BY <3>4
    <3> QED BY <3>3, <3>4, <3>5, <3>6
  <2> QED BY <2>1, <2>2
<1>8. PICK e \in Request : /\ req' = [req EXCEPT ![s] = e] /\ e.at \in {"idle", "save"}
                           /\ e.at = "save" => e.keep = req[s].keep /\ e.keep \subseteq Safe
  <2>1. CASE WaitClosed(s) \/ WaitTimedOut(s)
    BY <1>2, <2>1 DEF WaitClosed, WaitTimedOut, Answer
  <2>2. CASE WaitSynced(s)
    <3> DEFINE e == [req[s] EXCEPT !.at = "save"]
    <3>1. e \in Request /\ e.at = "save" /\ e.keep = req[s].keep /\ req' = [req EXCEPT ![s] = e]
      BY <1>2, <2>2 DEF Request, RequestSteps, WaitSynced
    <3>2. claim[2] \subseteq Safe
      <4>1. DurableTicket(claim[1])
        BY <2>2 DEF WaitSynced
      <4> HIDE DEF claim
      <4> QED BY <1>0, <1>3, <4>1, DurableIsSafe
    <3>3. req[s].keep \subseteq Safe
      BY <3>2
    <3> HIDE DEF e
    <3> QED BY <3>1, <3>3
  <2> QED BY <2>1, <2>2
<1>9. LedgerTypeOK'
  <2>1. remembered' \subseteq Record /\ ok' \subseteq Senders
    BY <1>0, <1>1 DEF LedgerTypeOK
  <2> QED BY <1>0, <1>1, <1>6, <1>7, <1>8, <2>1, LedgerTypesKept
<1>10. Claims' \subseteq Claims
  BY <1>0, <1>7, <1>8, ClaimsKept
<1>11. remembered' = remembered /\ remembered \subseteq Safe /\ ok' = ok
  BY <1>0, <1>1 DEF Answers
<1>12. e.at = "save" => BatchOf[s] \subseteq e.keep \cup remembered'
  BY <1>3, <1>8, <1>11
<1>13. e.at # "wait" /\ e.at \notin AskingSteps /\ e.at \notin {"settled", "room", "send"}
  BY <1>8 DEF AskingSteps
<1> QED BY <1>1, <1>6, <1>8, <1>9, <1>10, <1>11, <1>12, <1>13, RequestKept

(* A sequence over a set is one over any larger set.                       *)
LEMMA SeqWider ==
    ASSUME NEW A, NEW B, A \subseteq B, NEW q \in Seq(A)
    PROVE  q \in Seq(B)
<1>1. q \in [1 .. Len(q) -> B] /\ Len(q) \in Nat
  OBVIOUS
<1> QED BY <1>1

(* A ticket is issued, and the batch queued under it or refused.           *)
LEMMA SendPendingKeeps ==
    ASSUME PeerInvariant, NEW s \in Senders, SendPending(s)
    PROVE  PeerInvariant'
<1>0. Flow /\ LedgerTypeOK /\ Bindings /\ OnTheWay /\ Answers /\ Tickets
  BY DEF PeerInvariant
<1> DEFINE new == issued + 1
           keep == req[s].keep
           Batch == (1 .. issued) \X SUBSET Record
           BatchNow == (1 .. new) \X SUBSET Record
<1>1. /\ req[s].at = "send" /\ issued' = new
      /\ UNCHANGED <<queueVars, abandoned, waitClosed, remembered, loop, ticket, rest, count, pressure, stop,
                     peerWpc, walog, synced, givenUp, ok>>
  BY DEF SendPending, writerVars
<1>2. issued \in Nat /\ req[s] \in Request /\ keep \subseteq Record /\ MaxTickets \in Nat
  BY <1>0, PeerIngestAssumption DEF LedgerTypeOK, Request
<1>3. new + (Cardinality(Asking) - 1) <= MaxTickets /\ new \in 1 .. MaxTickets
  <2>1. s \in Asking
    BY <1>1 DEF Asking
  <2>2. Cardinality(Asking) \in Nat /\ Cardinality(Asking) # 0
    BY <2>1, AskingFinite, FS_EmptySet
  <2>3. issued + Cardinality(Asking) <= MaxTickets
    BY <1>0 DEF Tickets
  <2> QED BY <1>2, <2>2, <2>3
<1>4. abandoned \in Seq(Batch) /\ pending \in Seq(Batch) /\ Batch \subseteq BatchNow
  BY <1>0, <1>2 DEF LedgerTypeOK
<1>5. abandoned \in Seq(BatchNow) /\ pending \in Seq(BatchNow)
  <2> HIDE DEF Batch, BatchNow
  <2> QED BY <1>4, SeqWider
<1>6. \A c \in Claims : c[1] \in 1 .. issued
  BY <1>0, <1>4 DEF Claims, Tickets
<1>7. \A t \in DOMAIN tickets : t \in 1 .. issued
  BY <1>0 DEF LedgerTypeOK
<1>8. PICK e \in Request :
         /\ req' = [req EXCEPT ![s] = e]
         /\ e.at \in {"idle", "wait"}
         /\ e.at = "wait" => e.ticket = new /\ e.keep = keep
         /\ \/ e.at = "idle" /\ tickets' = tickets /\ pending' = pending
            \/ /\ e.at = "wait" /\ pending' = Append(pending, <<new, keep>>)
               /\ tickets' = [t \in DOMAIN tickets \cup {new} |-> IF t = new THEN Unbound ELSE tickets[t]]
  <2>1. CASE Len(pending) < PeerPending
    <3> DEFINE e == [req[s] EXCEPT !.at = "wait", !.ticket = new]
    <3>1. /\ req' = [req EXCEPT ![s] = e] /\ pending' = Append(pending, <<new, keep>>)
          /\ tickets' = [t \in DOMAIN tickets \cup {new} |-> IF t = new THEN Unbound ELSE tickets[t]]
      BY <1>1, <2>1 DEF SendPending
    <3>2. e \in Request /\ e.at = "wait" /\ e.ticket = new /\ e.keep = keep
      <4>1. new \in 0 .. MaxTickets
        BY <1>2, <1>3
      <4>2. PICK f : f = new
        OBVIOUS
      <4>3. e = [req[s] EXCEPT !.at = "wait", !.ticket = f] /\ f \in 0 .. MaxTickets
        BY <4>1, <4>2
      <4> HIDE DEF new
      <4> QED BY <1>2, <4>2, <4>3 DEF Request, RequestSteps
    <3> HIDE DEF e
    <3> QED BY <3>1, <3>2
  <2>2. CASE ~(Len(pending) < PeerPending)
    <3>1. req' = [req EXCEPT ![s] = NoRequest] /\ tickets' = tickets /\ pending' = pending
      BY <2>2 DEF SendPending, Answer
    <3>2. NoRequest \in Request /\ NoRequest.at = "idle"
      BY PeerIngestAssumption DEF Request, NoRequest, RequestSteps
    <3> QED BY <3>1, <3>2
  <2> QED BY <2>1, <2>2
<1>9. \A x \in Senders : req'[x] = IF x = s THEN e ELSE req[x]
  BY <1>0, <1>8 DEF LedgerTypeOK
<1>10. Flow' /\ Grows
  BY <1>0, <1>1, FlowQuiet DEF Flow, WriterAlive
<1>11. \A c \in Claims' : c \in Claims \/ (e.at = "wait" /\ c = <<new, keep>>)
  BY <1>1, <1>8, <1>9 DEF Claims
<1>12. \A t \in DOMAIN tickets' : (t \in DOMAIN tickets /\ tickets'[t] = tickets[t]) \/ (t = new /\ tickets'[t] = Unbound)
  BY <1>8
<1>13. LedgerTypeOK'
  <2>1. req' \in [Senders -> Request]
    BY <1>0, <1>8 DEF LedgerTypeOK, Request
  <2>2. pending' \in Seq(BatchNow)
    <3>1. <<new, keep>> \in BatchNow
      BY <1>2
    <3> HIDE DEF BatchNow
    <3>2. CASE pending' = pending
      BY <1>5, <3>2
    <3>3. CASE pending' = Append(pending, <<new, keep>>)
      <4>1. PICK b : b = <<new, keep>>
        OBVIOUS
      <4>2. b \in BatchNow /\ pending' = Append(pending, b)
        BY <3>1, <3>3, <4>1
      <4> QED BY ONLY <1>5, <4>2
    <3> QED BY <1>8, <3>2, <3>3
  <2>3. DOMAIN tickets' \subseteq 1 .. new
    BY <1>2, <1>7, <1>12
  <2>4. \A t \in DOMAIN tickets' : tickets'[t] \in {Unbound} \cup {Bound(w) : w \in 0 .. MaxReceived}
    BY <1>0, <1>12 DEF LedgerTypeOK
  <2>5. issued' \in 0 .. MaxTickets /\ ticket' \in 0 .. issued'
    BY <1>0, <1>1, <1>2, <1>3 DEF LedgerTypeOK
  <2> QED BY <1>0, <1>1, <1>5, <2>1, <2>2, <2>3, <2>4, <2>5 DEF LedgerTypeOK, Request
<1>14. Bindings'
  <2>1. ASSUME NEW c \in Claims', c[1] \in DOMAIN tickets', NEW w \in tickets'[c[1]], NEW r \in c[2]
        PROVE  Covered(r, w)'
    <3>1. c[1] \in DOMAIN tickets /\ w \in tickets[c[1]]
      BY <1>12, <2>1 DEF Unbound
    <3>2. c \in Claims
      <4>1. c[1] # new
        BY <1>2, <1>7, <3>1
      <4> QED BY <1>11, <4>1
    <3>3. Covered(r, w) /\ w \in Nat
      BY <1>0, <2>1, <3>1, <3>2, WatermarkTypes DEF Bindings
    <3> QED BY <1>10, <3>3 DEF Grows
  <2>2. ASSUME NEW t \in DOMAIN tickets', NEW w \in tickets'[t] PROVE w <= SentSoFar'
    <3>1. t \in DOMAIN tickets /\ w \in tickets[t]
      BY <1>12, <2>2 DEF Unbound
    <3>2. w \in Nat /\ w <= SentSoFar
      BY <1>0, <3>1, WatermarkTypes DEF Bindings
    <3> QED BY <1>0, <1>10, <3>2, FlowTypes DEF Grows
  <2> QED BY <2>1, <2>2 DEF Bindings
<1>15. OnTheWay'
  <2>1. ASSUME NEW i \in DOMAIN pending', NEW c \in Claims', c[1] = pending'[i][1]
        PROVE  c[2] \subseteq pending'[i][2]
    <3>1. CASE i \in DOMAIN pending /\ pending'[i] = pending[i]
      <4>1. pending[i][1] \in 1 .. issued
        BY <1>4, <3>1
      <4>2. c \in Claims
        BY <1>2, <1>11, <2>1, <3>1, <4>1
      <4> QED BY <1>0, <2>1, <3>1, <4>2 DEF OnTheWay
    <3>2. CASE ~(i \in DOMAIN pending /\ pending'[i] = pending[i])
      <4>1. pending'[i] = <<new, keep>>
        <5>1. pending' = Append(pending, <<new, keep>>)
          BY <1>8, <2>1, <3>2
        <5>2. PICK b : b = <<new, keep>>
          OBVIOUS
        <5>3. pending' = Append(pending, b) /\ pending \in Seq(Batch)
          BY <1>4, <5>1, <5>2
        <5> HIDE DEF Batch
        <5>4. i \in 1 .. Len(pending) + 1 /\ \A k \in 1 .. Len(pending) : k \in DOMAIN pending /\ pending'[k] = pending[k]
          BY ONLY <2>1, <5>3
        <5>5. i = Len(pending) + 1 /\ pending'[Len(pending) + 1] = b
          BY ONLY <3>2, <5>3, <5>4
        <5> QED BY <5>2, <5>5
      <4>2. c = <<new, keep>>
        BY <1>2, <1>6, <1>11, <2>1, <4>1
      <4> QED BY <4>1, <4>2
    <3> QED BY <3>1, <3>2
  <2>2. ASSUME loop' = "submit", NEW c \in Claims', c[1] = ticket', NEW r \in c[2]
        PROVE  r \in rest' \/ Submitting(r)' \/ Covered(r, SentSoFar)'
    <3>1. c \in Claims
      BY <1>0, <1>1, <1>2, <1>11, <2>2 DEF LedgerTypeOK
    <3>2. r \in rest \/ Submitting(r) \/ Covered(r, SentSoFar)
      BY <1>0, <1>1, <2>2, <3>1 DEF OnTheWay
    <3>3. SentSoFar' = SentSoFar /\ SentSoFar \in Nat
      BY <1>0, <1>1, FlowTypes DEF SentSoFar, queueVars
    <3>4. Submitting(r) => Submitting(r)'
      BY <1>1 DEF Submitting, queueVars
    <3>5. Covered(r, SentSoFar) => Covered(r, SentSoFar)'
      BY <1>1 DEF Covered, SentSoFar, queueVars
    <3> QED BY <1>1, <3>2, <3>4, <3>5
  <2> QED BY <2>1, <2>2 DEF OnTheWay
<1>16. Answers'
  <2>1. BatchOf[s] \subseteq keep \cup remembered
    BY <1>0, <1>1 DEF Answers
  <2>2. Safe \subseteq Safe'
    BY <1>10 DEF Grows
  <2>3. \A x \in Senders : req'[x].at \in {"settled", "save"} => req'[x].keep \subseteq Safe'
    BY <1>0, <1>8, <1>9, <2>2 DEF Answers
  <2>4. \A x \in Senders : req'[x].at \in {"room", "send", "wait", "save"} =>
            BatchOf[x] \subseteq req'[x].keep \cup remembered'
    BY <1>0, <1>1, <1>8, <1>9, <2>1 DEF Answers
  <2> QED BY <1>0, <1>1, <2>2, <2>3, <2>4 DEF Answers
<1>17. Tickets'
  <2>1. Cardinality(Asking') = Cardinality(Asking) - 1
    <3>1. s \in Asking /\ e.at \notin AskingSteps
      BY <1>1, <1>8 DEF Asking, AskingSteps
    <3>2. Cardinality(Asking') = Cardinality(Asking) + (IF e.at \in AskingSteps THEN 1 ELSE 0)
                                                     - (IF s \in Asking THEN 1 ELSE 0)
      <4>1. req' = [req EXCEPT ![s] = e] /\ LedgerTypeOK
        BY <1>0, <1>8
      <4> QED BY ONLY <4>1, s \in Senders, AskingChange
    <3>3. Cardinality(Asking) \in Nat
      BY AskingFinite
    <3> QED BY ONLY <3>1, <3>2, <3>3
  <2>2. \A x \in Senders : req'[x].at = "wait" => req'[x].ticket \in 1 .. new
    BY <1>0, <1>2, <1>8, <1>9 DEF Tickets
  <2> QED BY <1>1, <1>3, <2>1, <2>2 DEF Tickets
<1> QED BY <1>10, <1>13, <1>14, <1>15, <1>16, <1>17 DEF PeerInvariant

(* Every step of a request, the main loop or the writer keeps it.          *)
LEMMA PeerStep == PeerInvariant /\ [PeerNext]_peerVars => PeerInvariant'
<1> SUFFICES ASSUME PeerInvariant, [PeerNext]_peerVars PROVE PeerInvariant'
  OBVIOUS
<1>1. ASSUME NEW s \in Senders, Settle(s) \/ RequestRuns(s) PROVE PeerInvariant'
  BY <1>1, SettleKeeps, AskingKeeps, WaitKeeps, SendPendingKeeps DEF RequestRuns
<1>2. CASE MainLoop
  BY <1>2, TakePendingKeeps, SubmitKeeps, BindKeeps, ProcessKeeps, ShutdownKeeps DEF MainLoop
<1>3. CASE PeerWriterLoop \/ PublishSynced \/ WriterFails \/ Signal \/ SetPressure
  BY <1>3, WriterKeeps
<1>4. CASE UNCHANGED peerVars
  <2>1. Flow' /\ Grows
    BY <1>4, FlowQuiet DEF PeerInvariant, Flow, WriterAlive, peerVars, writerVars
  <2>2. UNCHANGED <<req, ackVars, loopVars, ok, sub>> /\ pressure' \in BOOLEAN /\ stop' \in BOOLEAN
    BY <1>4 DEF PeerInvariant, LedgerTypeOK, peerVars, queueVars
  <2>3. \A r : Submitting(r) => Submitting(r)' \/ Covered(r, SentSoFar)'
    BY <2>2 DEF Submitting
  <2> QED BY <2>1, <2>2, <2>3, LedgerKept
<1> QED BY <1>1, <1>2, <1>3, <1>4 DEF PeerNext

(* A sender that heard 200 for its batch has every record of it on disk,   *)
(* or the agent counted the record as shed, closed or refused under        *)
(* pressure; the dedupe log holds only such records, so a resend that is   *)
(* taken for a duplicate loses nothing. For any senders, batches, queue    *)
(* and channel sizes, record cap, number of abandoned batches kept, and    *)
(* pressure, with timeouts, a shutdown or a failing writer at any point    *)
(* (PeerHandler::ingest, WalAcks, run).                                    *)
THEOREM PeerSafe == PeerSpec => []PeerInv
<1>1. PeerInit => PeerInvariant
  BY PeerInitInvariant
<1>2. PeerInvariant /\ [PeerNext]_peerVars => PeerInvariant'
  BY PeerStep
<1>3. PeerInvariant => PeerInv
  BY PeerInvariantImplies
<1> QED BY <1>1, <1>2, <1>3, PTL DEF PeerSpec

-----------------------------------------------------------------------------
(* PeerHops. The hop count a copy carries is at least the number of links  *)
(* it came by, so a bound on the count bounds the way; and the copy at the *)
(* node a record came in at never leaves, so that a message that comes     *)
(* back there names that node as its origin. Between the check of a        *)
(* message and the save of its id another one may be let in: such pairs    *)
(* are told apart (`overlapped`), and every other second copy meets the id *)
(* in the window.                                                          *)

(* The attributes a sender writes: one origin and one count.               *)
Stamp(o, h) == <<Origin(o), Hops(h)>>

(* What a message or a stored copy of a record carries, once it has been   *)
(* sent: at least one hop for each link it came by, and the node it came   *)
(* in at.                                                                  *)
Carries(x) ==
    \E o, h : /\ x.attrs = Stamp(o, h)
              /\ h \in Nat /\ Len(x.path) <= h + 1
              /\ x.id \in Honest => o = x.path[1]

(* A way through the nodes that ends at n.                                 *)
Way(path, n) == path \in Seq(HopNodes) /\ Len(path) > 0 /\ path[Len(path)] = n

(* A copy as its client sent it.                                           *)
Root(c) == Len(c.path) = 1

(* A stored copy: where it is and how it came, the attributes of its       *)
(* client or those of its last sender, and a bounded way.                  *)
Copies ==
    \A c \in copies :
        /\ c.node \in HopNodes /\ Way(c.path, c.node)
        /\ \E e \in HopEvents : c.id = e.id /\ (Root(c) => c.attrs = e.attrs)
        /\ ~Root(c) => Carries(c) /\ (c.id \in Honest => c.node # c.path[1])
        /\ Len(c.path) <= MAX_HOPS

(* The messages on the wire and in the hands of a receiver.                *)
Posted == travelling \cup kept \cup unsaved

(* A message and a copy are about one record at one node.                  *)
About(m, c) == m.to = c.node /\ m.id = c.id

(* A message comes from a stored copy and carries a stamp.                 *)
Messages ==
    /\ \A m \in Posted :
          /\ m = [to |-> m.to, id |-> m.id, attrs |-> m.attrs, path |-> m.path, resent |-> m.resent]
          /\ m.to \in HopNodes /\ Way(m.path, m.to) /\ Len(m.path) > 1
          /\ \E e \in HopEvents : m.id = e.id
          /\ Carries(m)
    /\ \A m \in kept : ~IsLoop(m.attrs, m.to)
    /\ \A s \in toSend : s[1] \in copies /\ s[2] \in HopNodes

(* What came in at a node is stored there, and no other record has its id. *)
Roots ==
    /\ \A c, d \in copies : c.id = d.id => c.path[1] = d.path[1]
    /\ \A c, d \in copies : c.id = d.id /\ Root(c) /\ Root(d) => c = d
    /\ \A m \in Posted : \E c \in copies : c.id = m.id /\ c.path[1] = m.path[1]

(* Until a receiver forgets, it remembers what it stored or is still about *)
(* to save the id.                                                         *)
Remembered ==
    /\ dedupe \in [HopNodes -> SUBSET {e.id : e \in HopEvents}]
    /\ forgets \in Nat
    /\ forgets = 0 => \A c \in copies : ~Root(c) => c.id \in dedupe[c.node] \/ \E m \in unsaved : About(m, c)

(* A message that was let in beside another, or after a copy, is told.     *)
Overlaps ==
    forgets = 0 => /\ \A m, n \in kept : m.to = n.to /\ m.id = n.id => m = n \/ <<m.to, m.id>> \in overlapped
                   /\ \A m \in kept, c \in copies : ~Root(c) /\ About(m, c) => <<m.to, m.id>> \in overlapped

(* The inductive invariant.                                                *)
HopsInvariant == Copies /\ Messages /\ Roots /\ Remembered /\ Overlaps /\ StopsAfterOneLap

(* What provenance reads of a stamp is what the sender wrote.              *)
LEMMA StampRead ==
    ASSUME NEW o, NEW h
    PROVE  /\ Provenance(Stamp(o, h)) = {[origin |-> {o}, hops |-> h]}
           /\ Len(Stamp(o, h)) = 2
<1> DEFINE attrs == Stamp(o, h)
<1>1. /\ DOMAIN attrs = {1, 2} /\ Len(attrs) = 2
      /\ attrs[1].key = "origin" /\ attrs[1].kind = "whole" /\ attrs[1].value = o
      /\ attrs[2].key = "hops" /\ attrs[2].kind = "whole" /\ attrs[2].value = h
  BY DEF Stamp, Origin, Hops
<1> HIDE DEF attrs
<1>2. Readable(attrs)
  BY <1>1 DEF Readable
<1>3. ValuesOf(attrs, "origin") = {o} /\ ValuesOf(attrs, "hops") = {h}
  <2>1. {j \in DOMAIN attrs : attrs[j].key = "origin"} = {1}
    BY <1>1
  <2>2. {j \in DOMAIN attrs : attrs[j].key = "hops"} = {2}
    BY <1>1
  <2> QED BY <1>1, <2>1, <2>2 DEF ValuesOf
<1>4. (CHOOSE n \in {h} \cup {0} : {h} \subseteq {n}) = h
  <2>1. \A n : n \in {h} \cup {0} /\ {h} \subseteq {n} <=> n = h
    OBVIOUS
  <2> QED BY <2>1
<1>5. Provenance(attrs) = {[origin |-> {o}, hops |-> h]}
  BY <1>2, <1>3, <1>4 DEF Provenance
<1> QED BY <1>1, <1>5 DEF attrs

(* What it reads of a client's record, if it reads it: a count from 0 up,  *)
(* and no origin when the client wrote none.                               *)
LEMMA EventRead ==
    ASSUME NEW e \in HopEvents, NEW p \in Provenance(e.attrs)
    PROVE  /\ p.hops \in Nat
           /\ Provenance(e.attrs) = {p}
           /\ e.attrs = <<>> => p.origin = {}
<1> DEFINE vals == ValuesOf(e.attrs, "hops")
           n == CHOOSE x \in vals \cup {0} : vals \subseteq {x}
<1>1. /\ Readable(e.attrs) /\ p = [origin |-> ValuesOf(e.attrs, "origin"), hops |-> n]
      /\ Provenance(e.attrs) = {p}
  BY DEF Provenance
<1>2. vals \subseteq Nat
  BY <1>1, HopsAssumption DEF Readable, ValuesOf
<1>3. \A x, y \in vals : x = y
  BY <1>1 DEF Readable, ValuesOf
<1> HIDE DEF vals
<1>4. \E x \in vals \cup {0} : vals \subseteq {x}
  <2>1. CASE vals = {}
    BY <2>1
  <2>2. ASSUME NEW x \in vals PROVE vals \subseteq {x}
    BY <1>3
  <2> QED BY <2>1, <2>2
<1>5. n \in vals \cup {0}
  BY <1>4
<1> HIDE DEF n
<1>6. n \in Nat
  BY <1>2, <1>5
<1>7. e.attrs = <<>> => ValuesOf(e.attrs, "origin") = {}
  BY DEF ValuesOf
<1>8. p.hops = n /\ p.origin = ValuesOf(e.attrs, "origin")
  BY <1>1
<1> QED BY <1>1, <1>6, <1>7, <1>8

(* A sender counts one hop more and keeps the origin, or becomes it.       *)
LEMMA StampedIs ==
    ASSUME NEW attrs, NEW node, NEW p, Provenance(attrs) = {p}, p.hops \in Nat, p.hops < MAX_HOPS
    PROVE  \E o : /\ Stamped(attrs, node) = Stamp(o, p.hops + 1)
                  /\ p.origin = {} => o = node
                  /\ \A x : p.origin = {x} => o = x
<1>1. (CHOOSE q \in Provenance(attrs) : TRUE) = p
  OBVIOUS
<1>2. PICK o : o = (IF p.origin = {} THEN node ELSE CHOOSE x \in p.origin : TRUE)
  OBVIOUS
<1>3. ~(p.hops + 1 > MAX_HOPS)
  BY HopsAssumption
<1>4. Stamped(attrs, node) = Stamp(o, p.hops + 1)
  <2> DEFINE q == CHOOSE x \in Provenance(attrs) : TRUE
  <2>1. Provenance(attrs) # {} /\ q = p
    BY <1>1
  <2>2. Stamped(attrs, node) = <<Origin(IF q.origin = {} THEN node ELSE CHOOSE x \in q.origin : TRUE),
                                 Hops(IF q.hops + 1 > MAX_HOPS THEN MAX_HOPS ELSE q.hops + 1)>>
    BY <2>1, Zenon DEF Stamped
  <2> HIDE DEF q
  <2> QED BY <1>2, <1>3, <2>1, <2>2 DEF Stamp
<1>5. \A x : p.origin = {x} => o = x
  BY <1>2
<1> QED BY <1>2, <1>4, <1>5

(* The inductive invariant implies the one the runs check.                 *)
LEMMA HopsInvariantImplies == HopsInvariant => HopsInv
<1> SUFFICES ASSUME HopsInvariant PROVE HopsInv
  OBVIOUS
<1> USE DEF HopsInvariant
<1>1. HopsTypeOK
  <2>1. \A m \in Posted : Len(m.attrs) = 2
    BY StampRead DEF Messages, Carries
  <2> QED BY <2>1 DEF HopsTypeOK, Copies, Messages, Posted, Way, Remembered
<1>2. TravelIsBounded
  BY DEF TravelIsBounded, Copies
<1>3. OriginIsKept
  <2> SUFFICES ASSUME NEW c \in copies, c.id \in Honest, Len(c.path) > 1
               PROVE  \A p \in Provenance(c.attrs) : p.origin = {c.path[1]}
    BY DEF OriginIsKept
  <2>1. Carries(c)
    BY DEF Copies, Root, Way
  <2>2. PICK o, h : c.attrs = Stamp(o, h) /\ o = c.path[1]
    BY <2>1 DEF Carries
  <2> QED BY <2>2, StampRead
<1>4. NeverComesHome
  BY DEF NeverComesHome, Copies, Root, Way
<1> QED BY <1>1, <1>2, <1>3, <1>4 DEF HopsInv

(* It holds when nothing has been stored.                                  *)
LEMMA HopsInitInvariant == HopInit => HopsInvariant
BY DEF HopInit, HopsInvariant, Copies, Messages, Posted, Roots, Remembered, Overlaps, StopsAfterOneLap

(* A record of an honest client has no provenance yet.                     *)
LEMMA HonestAttrs ==
    ASSUME NEW e \in HopEvents, e.id \in Honest
    PROVE  e.attrs = <<>>
BY HopsAssumption DEF Honest

(* Every step keeps it.                                                    *)
LEMMA HopsStep == HopsInvariant /\ [HopNext]_hopVars => HopsInvariant'
<1> SUFFICES ASSUME HopsInvariant, [HopNext]_hopVars PROVE HopsInvariant'
  OBVIOUS
<1> USE DEF HopsInvariant
<1>1. ASSUME NEW n \in HopNodes, NEW e \in HopEvents, ClientRecord(n, e) PROVE HopsInvariant'
  <2> DEFINE new == [node |-> n, id |-> e.id, attrs |-> e.attrs, path |-> <<n>>, resent |-> 0]
  <2>1. /\ copies' = copies \cup {new} /\ \A c \in copies : c.id # e.id
        /\ toSend' = toSend \cup {<<new, link[2]>> : link \in {l \in HopLinks : l[1] = n}}
        /\ UNCHANGED <<travelling, kept, unsaved, dedupe, forgets, overlapped>>
    BY <1>1 DEF ClientRecord, Store
  <2>2. /\ new.node = n /\ new.id = e.id /\ new.attrs = e.attrs /\ new.path = <<n>>
        /\ Root(new) /\ Way(new.path, n) /\ new.path[1] = n /\ Len(new.path) = 1
    BY DEF Root, Way
  <2> HIDE DEF new
  <2>3. Copies'
    <3>1. 1 <= MAX_HOPS
      BY HopsAssumption
    <3>2. \A c \in copies' : /\ c.node \in HopNodes /\ Way(c.path, c.node)
                             /\ \E f \in HopEvents : c.id = f.id /\ (Root(c) => c.attrs = f.attrs)
                             /\ ~Root(c) => Carries(c) /\ (c.id \in Honest => c.node # c.path[1])
                             /\ Len(c.path) <= MAX_HOPS
      BY <2>1, <2>2, <3>1 DEF Copies
    <3> QED BY <3>2 DEF Copies, Root, Way, Carries, Honest
  <2>4. Messages'
    <3>1. \A l \in HopLinks : l[2] \in HopNodes
      BY HopsAssumption
    <3>2. \A s \in toSend' : s[1] \in copies' /\ s[2] \in HopNodes
      BY <2>1, <3>1 DEF Messages
    <3> QED BY <2>1, <3>2 DEF Messages, Posted, Way, Carries, Honest, IsLoop
  <2>5. Roots'
    BY <2>1, <2>2 DEF Roots, Posted, Root
  <2>6. Remembered'
    BY <2>1, <2>2 DEF Remembered, About, Root
  <2>7. StopsAfterOneLap'
    BY <2>1, <2>2 DEF StopsAfterOneLap, Honest
  <2>8. Overlaps'
    BY <2>1, <2>2 DEF Overlaps, About, Root
  <2> QED BY <2>3, <2>4, <2>5, <2>6, <2>7, <2>8
<1>2. ASSUME NEW n \in HopNodes, NEW e \in HopEvents, ForgetId(n, e.id) PROVE HopsInvariant'
  <2>1. UNCHANGED <<copies, toSend, travelling, kept, unsaved>> /\ forgets' \in Nat /\ forgets' # 0
    BY <1>2 DEF ForgetId, Remembered
  <2>2. Remembered'
    BY <1>2, <2>1 DEF ForgetId, Remembered
  <2> QED BY <2>1, <2>2 DEF Copies, Messages, Posted, Roots, Overlaps, StopsAfterOneLap, Honest, Root, Way, Carries, IsLoop
<1>3. ASSUME NEW s \in toSend, Encode(s[1], s[2]) PROVE HopsInvariant'
  <2>1. PICK c, to : c = s[1] /\ to = s[2] /\ c \in copies /\ to \in HopNodes
    BY DEF Messages
  <2>2. UNCHANGED <<copies, kept, unsaved, dedupe, forgets, overlapped>> /\ toSend' \subseteq toSend
    BY <1>3 DEF Encode
  <2> DEFINE m == [to |-> to, id |-> c.id, attrs |-> Stamped(c.attrs, c.node), path |-> Append(c.path, to),
                   resent |-> c.resent]
  <2>3. travelling' = travelling \/ (travelling' = travelling \cup {m} /\ ~IsLoop(c.attrs, c.node))
    BY <1>3, <2>1 DEF Encode
  <2>4. /\ m.to = to /\ m.id = c.id /\ m.attrs = Stamped(c.attrs, c.node) /\ m.path = Append(c.path, to)
        /\ m = [to |-> m.to, id |-> m.id, attrs |-> m.attrs, path |-> m.path, resent |-> m.resent]
    OBVIOUS
  <2> HIDE DEF m
  <2>5. /\ Way(m.path, to) /\ Len(m.path) > 1 /\ Len(m.path) = Len(c.path) + 1 /\ m.path[1] = c.path[1]
    <3>1. c.path \in Seq(HopNodes) /\ Len(c.path) > 0
      BY <2>1 DEF Copies, Way
    <3> QED BY <2>1, <2>4, <3>1 DEF Way
  <2>6. ASSUME ~IsLoop(c.attrs, c.node) PROVE Carries(m)
    <3>0. c.path \in Seq(HopNodes) /\ Len(c.path) \in Nat \ {0} /\ c.path[Len(c.path)] = c.node
      BY <2>1 DEF Copies, Way
    <3>1. PICK p \in Provenance(c.attrs) : p.origin # {c.node} /\ ~(p.hops >= MAX_HOPS)
      BY <2>6 DEF IsLoop
    <3>2. /\ Provenance(c.attrs) = {p} /\ p.hops \in Nat /\ Len(c.path) <= p.hops + 1
          /\ c.id \in Honest => (Root(c) /\ p.origin = {}) \/ p.origin = {c.path[1]}
      <4>1. CASE Root(c)
        <5>1. PICK e \in HopEvents : c.id = e.id /\ c.attrs = e.attrs
          BY <2>1, <4>1 DEF Copies
        <5> QED BY <3>1, <4>1, <5>1, EventRead, HonestAttrs DEF Root
      <4>2. CASE ~Root(c)
        <5>1. PICK o, h : /\ c.attrs = Stamp(o, h) /\ h \in Nat /\ Len(c.path) <= h + 1
                          /\ c.id \in Honest => o = c.path[1]
          BY <2>1, <4>2 DEF Copies, Carries
        <5>2. Provenance(c.attrs) = {[origin |-> {o}, hops |-> h]}
          BY <5>1, StampRead
        <5>3. p.origin = {o} /\ p.hops = h
          BY <3>1, <5>2
        <5> QED BY <3>1, <5>1, <5>2, <5>3
      <4> QED BY <4>1, <4>2
    <3>3. p.hops < MAX_HOPS
      BY <3>1, <3>2, HopsAssumption
    <3>4. PICK o : /\ m.attrs = Stamp(o, p.hops + 1)
                   /\ p.origin = {} => o = c.node
                   /\ \A x : p.origin = {x} => o = x
      <4>1. \E o : /\ Stamped(c.attrs, c.node) = Stamp(o, p.hops + 1)
                   /\ p.origin = {} => o = c.node
                   /\ \A x : p.origin = {x} => o = x
        BY <3>2, <3>3, StampedIs
      <4> QED BY <2>4, <4>1
    <3>5. c.id \in Honest => o = c.path[1]
      BY <3>0, <3>2, <3>4 DEF Root
    <3>6. Len(m.path) <= (p.hops + 1) + 1 /\ p.hops + 1 \in Nat
      BY <3>0, <3>2, <2>5
    <3> QED BY <2>4, <2>5, <3>4, <3>5, <3>6 DEF Carries
  <2>7. Messages'
    <3>1. \E e \in HopEvents : m.id = e.id
      BY <2>1, <2>4 DEF Copies
    <3>2. ASSUME NEW x \in Posted' PROVE x \in Posted \/ (x = m /\ Carries(m))
      BY <2>2, <2>3, <2>6 DEF Posted
    <3>3. \A x \in Posted' : /\ x = [to |-> x.to, id |-> x.id, attrs |-> x.attrs, path |-> x.path, resent |-> x.resent]
                             /\ x.to \in HopNodes /\ Way(x.path, x.to) /\ Len(x.path) > 1
                             /\ \E e \in HopEvents : x.id = e.id
                             /\ Carries(x)
      BY <2>1, <2>4, <2>5, <3>1, <3>2 DEF Messages
    <3> QED BY <2>2, <3>3 DEF Messages, Way, Carries, Honest, IsLoop
  <2>8. Roots'
    <3>1. ASSUME NEW x \in Posted' PROVE \E d \in copies : d.id = x.id /\ d.path[1] = x.path[1]
      BY <2>1, <2>2, <2>3, <2>4, <2>5 DEF Roots, Posted
    <3> QED BY <2>2, <3>1 DEF Roots, Root
  <2> QED BY <2>2, <2>7, <2>8 DEF Copies, Remembered, Overlaps, About, StopsAfterOneLap, Honest, Root, Way, Carries
<1>4. ASSUME NEW m \in Posted, Resend(m) PROVE HopsInvariant'
  <2> DEFINE again == [m EXCEPT !.resent = resends + 1]
  <2>1. travelling' = travelling \cup {again} /\ UNCHANGED <<copies, toSend, kept, unsaved, dedupe, forgets, overlapped>>
    BY <1>4 DEF Resend
  <2>2. m = [to |-> m.to, id |-> m.id, attrs |-> m.attrs, path |-> m.path, resent |-> m.resent]
    BY DEF Messages
  <2>3. /\ again.to = m.to /\ again.id = m.id /\ again.attrs = m.attrs /\ again.path = m.path
        /\ again = [to |-> again.to, id |-> again.id, attrs |-> again.attrs, path |-> again.path, resent |-> again.resent]
    BY <2>2
  <2> HIDE DEF again
  <2>4. Posted' = Posted \cup {again}
    BY <2>1 DEF Posted
  <2>5. Carries(again)
    <3>1. Carries(m)
      BY DEF Messages
    <3> QED BY <2>3, <3>1 DEF Carries
  <2>6. Messages'
    <3>1. \A x \in Posted' : /\ x = [to |-> x.to, id |-> x.id, attrs |-> x.attrs, path |-> x.path, resent |-> x.resent]
                             /\ x.to \in HopNodes /\ Way(x.path, x.to) /\ Len(x.path) > 1
                             /\ \E e \in HopEvents : x.id = e.id
                             /\ Carries(x)
      BY <2>3, <2>4, <2>5 DEF Messages
    <3> QED BY <2>1, <3>1 DEF Messages, Way, Carries, Honest, IsLoop
  <2>7. Roots'
    <3>1. \A x \in Posted' : \E d \in copies : d.id = x.id /\ d.path[1] = x.path[1]
      BY <2>3, <2>4 DEF Roots
    <3> QED BY <2>1, <3>1 DEF Roots, Root
  <2> QED BY <2>1, <2>6, <2>7 DEF Copies, Remembered, Overlaps, About, StopsAfterOneLap, Honest, Root, Way, Carries
<1>5. ASSUME NEW m \in travelling, PeerReceive(m) PROVE HopsInvariant'
  <2>1. UNCHANGED <<copies, toSend, unsaved, dedupe, forgets>> /\ Posted' \subseteq Posted /\ overlapped \subseteq overlapped'
    BY <1>5 DEF PeerReceive, Posted
  <2>2. kept' = kept \/ (kept' = kept \cup {m} /\ ~IsLoop(m.attrs, m.to) /\ m.id \notin dedupe[m.to]
                         /\ overlapped' = overlapped \cup {<<n.to, n.id>> : n \in Overlap(m)})
    BY <1>5 DEF PeerReceive
  <2>3. Messages'
    <3>1. \A n \in kept' : ~IsLoop(n.attrs, n.to)
      BY <2>2 DEF Messages
    <3> QED BY <2>1, <3>1 DEF Messages, Way, Carries, Honest, IsLoop
  <2>4. Overlaps'
    <3>1. CASE kept' = kept
      BY <2>1, <3>1 DEF Overlaps, About, Root
    <3>2. CASE kept' # kept
      <4> SUFFICES ASSUME forgets = 0
                   PROVE  /\ \A x, n \in kept' : x.to = n.to /\ x.id = n.id => x = n \/ <<x.to, x.id>> \in overlapped'
                          /\ \A x \in kept', c \in copies : ~Root(c) /\ About(x, c) => <<x.to, x.id>> \in overlapped'
        BY <2>1 DEF Overlaps, About, Root
      <4>1. \A n \in kept \cup unsaved : n.to = m.to /\ n.id = m.id => <<m.to, m.id>> \in overlapped'
        BY <2>2, <3>2 DEF Overlap
      <4>2. \A x, n \in kept' : x.to = n.to /\ x.id = n.id => x = n \/ <<x.to, x.id>> \in overlapped'
        BY <2>1, <2>2, <3>2, <4>1 DEF Overlaps
      <4>3. ASSUME NEW c \in copies, ~Root(c), About(m, c) PROVE <<m.to, m.id>> \in overlapped'
        <5>1. m.id \notin dedupe[m.to]
          BY <2>2, <3>2
        <5>2. PICK n \in unsaved : About(n, c)
          BY <4>3, <5>1 DEF Remembered, About
        <5> QED BY <4>1, <4>3, <5>2 DEF About
      <4>4. \A x \in kept', c \in copies : ~Root(c) /\ About(x, c) => <<x.to, x.id>> \in overlapped'
        BY <2>1, <2>2, <3>2, <4>3 DEF Overlaps
      <4> QED BY <4>2, <4>4
    <3> QED BY <3>1, <3>2
  <2> QED BY <2>1, <2>3, <2>4 DEF Copies, Roots, Remembered, About, StopsAfterOneLap, Honest, Root, Way, Carries
<1>6. ASSUME NEW m \in kept, PeerBusy(m) PROVE HopsInvariant'
  <2>1. UNCHANGED <<copies, toSend, unsaved, dedupe, forgets, overlapped>> /\ Posted' \subseteq Posted /\ kept' \subseteq kept
    BY <1>6 DEF PeerBusy, Posted
  <2> QED BY <2>1 DEF Copies, Messages, Roots, Remembered, Overlaps, About, StopsAfterOneLap, Honest, Root, Way, Carries, IsLoop
<1>7. ASSUME NEW m \in unsaved, KeepIds(m) PROVE HopsInvariant'
  <2>1. /\ UNCHANGED <<copies, toSend, kept, forgets, overlapped>> /\ Posted' \subseteq Posted
        /\ unsaved' = unsaved \ {m} /\ dedupe' = [dedupe EXCEPT ![m.to] = @ \cup {m.id}]
    BY <1>7 DEF KeepIds, Posted
  <2>2. m.to \in HopNodes /\ m.id \in {e.id : e \in HopEvents}
    BY DEF Messages, Posted
  <2>3. Remembered'
    <3>1. /\ dedupe' \in [HopNodes -> SUBSET {e.id : e \in HopEvents}]
          /\ \A x \in HopNodes : dedupe[x] \subseteq dedupe'[x]
          /\ m.id \in dedupe'[m.to]
      BY <2>1, <2>2 DEF Remembered
    <3>2. \A c \in copies : c.node \in HopNodes
      BY DEF Copies
    <3>3. forgets = 0 => \A c \in copies : ~Root(c) => c.id \in dedupe'[c.node] \/ \E n \in unsaved' : About(n, c)
      BY <2>1, <3>1, <3>2 DEF Remembered, About
    <3> QED BY <2>1, <3>1, <3>3 DEF Remembered, About, Root
  <2> QED BY <2>1, <2>3 DEF Copies, Messages, Roots, Overlaps, About, StopsAfterOneLap, Honest, Root, Way, Carries, IsLoop
<1>8. ASSUME NEW m \in kept, PeerAppend(m) PROVE HopsInvariant'
  <2> DEFINE new == [node |-> m.to, id |-> m.id, attrs |-> m.attrs, path |-> m.path, resent |-> m.resent]
  <2>0. /\ m.to \in HopNodes /\ Way(m.path, m.to) /\ Len(m.path) > 1 /\ Carries(m)
        /\ \E e \in HopEvents : m.id = e.id
        /\ ~IsLoop(m.attrs, m.to)
    BY DEF Messages, Posted
  <2>1. /\ copies' = copies \cup {new}
        /\ toSend' = toSend \cup {<<new, link[2]>> : link \in {l \in HopLinks : l[1] = m.to}}
        /\ kept' = kept \ {m} /\ unsaved' = unsaved \cup {m} /\ Posted' \subseteq Posted
        /\ UNCHANGED <<travelling, dedupe, forgets, overlapped>>
    BY <1>8 DEF PeerAppend, Store, Posted
  <2>2. /\ new.node = m.to /\ new.id = m.id /\ new.attrs = m.attrs /\ new.path = m.path
    OBVIOUS
  <2> HIDE DEF new
  <2>3. PICK o, h : /\ m.attrs = Stamp(o, h) /\ h \in Nat /\ Len(m.path) <= h + 1
                    /\ m.id \in Honest => o = m.path[1]
    BY <2>0 DEF Carries
  <2>20. ~Root(new) /\ Carries(new) /\ Way(new.path, new.node)
    <3>1. Len(m.path) # 1
      BY <2>0 DEF Way
    <3> QED BY <2>0, <2>2, <2>3, <3>1 DEF Root, Carries
  <2>4. h < MAX_HOPS /\ o # m.to
    <3>1. \A p \in Provenance(m.attrs) : p.origin = {o} /\ p.hops = h
      BY <2>3, StampRead
    <3> QED BY <2>0, <2>3, <3>1, HopsAssumption DEF IsLoop
  <2>5. Copies'
    <3>1. Len(new.path) <= MAX_HOPS
      BY <2>0, <2>2, <2>3, <2>4, HopsAssumption DEF Way
    <3>2. new.id \in Honest => new.node # new.path[1]
      BY <2>2, <2>3, <2>4
    <3>3. \A c \in copies' : /\ c.node \in HopNodes /\ Way(c.path, c.node)
                             /\ \E f \in HopEvents : c.id = f.id /\ (Root(c) => c.attrs = f.attrs)
                             /\ ~Root(c) => Carries(c) /\ (c.id \in Honest => c.node # c.path[1])
                             /\ Len(c.path) <= MAX_HOPS
      BY <2>0, <2>1, <2>2, <2>20, <3>1, <3>2 DEF Copies
    <3> QED BY <3>3 DEF Copies, Root, Way, Carries, Honest
  <2>6. Messages'
    <3>1. \A l \in HopLinks : l[2] \in HopNodes
      BY HopsAssumption
    <3>2. \A s \in toSend' : s[1] \in copies' /\ s[2] \in HopNodes
      BY <2>1, <3>1 DEF Messages
    <3> QED BY <2>1, <3>2 DEF Messages, Way, Carries, Honest, IsLoop
  <2>7. Roots'
    <3>1. PICK c \in copies : c.id = m.id /\ c.path[1] = m.path[1]
      BY DEF Roots, Posted
    <3>2. \A d \in copies : d.id = new.id => d.path[1] = new.path[1]
      BY <2>2, <3>1 DEF Roots
    <3>3. \A x, d \in copies' : x.id = d.id => x.path[1] = d.path[1]
      BY <2>1, <3>2 DEF Roots
    <3>4. \A x, d \in copies' : x.id = d.id /\ Root(x) /\ Root(d) => x = d
      BY <2>1, <2>2, <2>20 DEF Roots
    <3>5. \A x \in Posted' : \E d \in copies' : d.id = x.id /\ d.path[1] = x.path[1]
      BY <2>1 DEF Roots
    <3> QED BY <3>3, <3>4, <3>5 DEF Roots, Root
  <2>8. Remembered'
    BY <2>1, <2>2 DEF Remembered, About, Root
  <2>9. Overlaps'
    <3> SUFFICES ASSUME forgets = 0
                 PROVE  /\ \A x, n \in kept' : x.to = n.to /\ x.id = n.id => x = n \/ <<x.to, x.id>> \in overlapped
                        /\ \A x \in kept', c \in copies' : ~Root(c) /\ About(x, c) => <<x.to, x.id>> \in overlapped
      BY <2>1 DEF Overlaps, About, Root
    <3>1. ASSUME NEW x \in kept', About(x, new) PROVE <<x.to, x.id>> \in overlapped
      BY <2>1, <2>2, <3>1 DEF Overlaps, About
    <3> QED BY <2>1, <3>1 DEF Overlaps
  <2>10. StopsAfterOneLap'
    <3>1. ASSUME forgets = 0, NEW c \in copies, c.id \in Honest, c.id = m.id, c.node = m.to
          PROVE  <<m.to, m.id>> \in overlapped
      <4>1. CASE Root(c)
        <5>1. c.path[1] = c.node
          BY <4>1 DEF Copies, Way, Root
        <5>2. PICK d \in copies : d.id = m.id /\ d.path[1] = m.path[1]
          BY DEF Roots, Posted
        <5>3. c.path[1] = d.path[1]
          BY <3>1, <5>2 DEF Roots
        <5> QED BY <2>3, <2>4, <3>1, <5>1, <5>2, <5>3
      <4>2. CASE ~Root(c)
        BY <3>1, <4>2 DEF Overlaps, About
      <4> QED BY <4>1, <4>2
    <3> QED BY <2>1, <2>2, <3>1 DEF StopsAfterOneLap, Honest
  <2> QED BY <2>5, <2>6, <2>7, <2>8, <2>9, <2>10
<1>9. CASE UNCHANGED hopVars
  BY <1>9 DEF hopVars, Copies, Messages, Posted, Roots, Remembered, Overlaps, About, StopsAfterOneLap, Honest, Root, Way,
              Carries, IsLoop
<1> QED BY <1>1, <1>2, <1>3, <1>4, <1>5, <1>6, <1>7, <1>8, <1>9 DEF HopNext, Posted

(* However peers are wired and whatever clients put in the attributes, no  *)
(* record is stored more than MAX_HOPS links from where it came in; while  *)
(* receivers remember ids a node stores an unforged record once, unless a  *)
(* copy is let in before the id of another is saved; the node it came in   *)
(* at never stores it again; and its origin is that node (peer.rs is_loop, *)
(* stamp_for_send, ingest). For any nodes, links, events, resends and      *)
(* MAX_HOPS.                                                               *)
THEOREM HopsSafe == HopSpec => []HopsInv
PROOF
<1>1. HopInit => HopsInvariant
  BY HopsInitInvariant
<1>2. HopsInvariant /\ [HopNext]_hopVars => HopsInvariant'
  BY HopsStep
<1>3. HopsInvariant => HopsInv
  BY HopsInvariantImplies
<1> QED BY <1>1, <1>2, <1>3, PTL DEF HopSpec

-----------------------------------------------------------------------------
(* PartsEdge. The difficulty is that a file may go, and the process may    *)
(* crash, between any two of the requests of an upload. The invariant says *)
(* what a job at each step has already been told, and that a retirement    *)
(* only ever holds files that are gone: a file does not come back.         *)

(* The states of the upload job.                                           *)
Jobs == [pc : {"idle", "next", "presign", "put", "commit", "record"},
         queue : Seq(Files), done : SUBSET Files, file : Files \cup {NoFile},
         url : {"none", "url", "present"}, put : BOOLEAN,
         attempt : 0 .. ATTEMPTS - 1, stalled : {0, 1}]

(* What a retirement still has to tell.                                    *)
Pendings == [file : Files, tell : BOOLEAN]

(* A job that is about to commit has put the part or was told it is there; *)
(* one about to record has it confirmed.                                   *)
JobKept ==
    /\ job \in Jobs
    /\ job.pc \in {"presign", "put", "commit", "record"} => job.file \in Files
    /\ job.pc \in {"commit", "record"} => job.put \/ job.url = "present"
    /\ job.pc = "record" => job.file \in confirmed

(* What a retirement tells of or forgets is a file that is gone.           *)
RetireKept ==
    /\ retires \in [pc : {"idle", "tell"}, pending : Seq(Pendings), forget : SUBSET Files]
    /\ retires.forget \cap here = {}
    /\ \A i \in DOMAIN retires.pending : retires.pending[i].file \notin here

(* Every line of the upload record is of a confirmed part, and what was    *)
(* forgotten is gone.                                                      *)
LinesKept ==
    /\ here \subseteq Files /\ partLines \subseteq Files
    /\ partLines \subseteq confirmed
    /\ forgottenParts \cap here = {}

(* Recorded lines that a pass has not forgotten and that a crash may take. *)
Owed == linesRecorded \ ((partLines \ unsure) \cup forgottenParts)

(* Every line lost behind a cut one is paid for by a torn write, and a     *)
(* file that ends ragged has one to lose still.                            *)
TailKept ==
    /\ ragged \in BOOLEAN /\ unclosed \subseteq unsure /\ unsure \subseteq partLines
    /\ linesRecorded \subseteq Files /\ lineTears \in Nat
    /\ Cardinality(Owed) + (IF ragged THEN 1 ELSE 0) <= lineTears

(* The inductive invariant of PartsEdge.                                   *)
EdgeInvariant == JobKept /\ RetireKept /\ LinesKept /\ TailKept

(* An order of a set of files is a sequence of them.                       *)
LEMMA EdgeOrders ==
    ASSUME NEW S, S \subseteq Files, NEW order \in SetToSeqs(S)
    PROVE  order \in Seq(S)
PROOF
<1>1. Cardinality(S) \in Nat
  BY PartsEdgeAssumption, FS_Subset, FS_CardinalityType
<1>2. order \in [1 .. Cardinality(S) -> S]
  BY DEF SetToSeqs
<1> QED BY <1>1, <1>2

(* The state between two runs is a state of a job.                         *)
LEMMA NoJobType == NoJob \in Jobs
PROOF
<1>1. 0 \in 0 .. ATTEMPTS - 1
  BY PartsEdgeAssumption
<1> QED BY <1>1 DEF NoJob, Jobs

(* Another attempt starts the same file from its presign, or the run is    *)
(* over.                                                                   *)
LEMMA AgainKept ==
    ASSUME NEW j \in Jobs
    PROVE  /\ Again(j) \in Jobs
           /\ Again(j) = NoJob \/ (Again(j).pc = "presign" /\ Again(j).file = j.file)
PROOF
<1>1. CASE j.attempt + 1 < ATTEMPTS
  <2>1. j.attempt + 1 \in 0 .. ATTEMPTS - 1
    BY <1>1, PartsEdgeAssumption DEF Jobs
  <2> QED BY <1>1, <2>1 DEF Again, Jobs
<1>2. CASE ~(j.attempt + 1 < ATTEMPTS)
  BY <1>2, NoJobType DEF Again
<1> QED BY <1>1, <1>2

(* A part the other side refused ends its turn.                            *)
LEMMA RejectedKept ==
    ASSUME job \in Jobs
    PROVE  Rejected \in Jobs /\ Rejected.pc = "next"
PROOF
<1>1. 0 \in 0 .. ATTEMPTS - 1
  BY PartsEdgeAssumption
<1> QED BY <1>1 DEF Rejected, NoJob, Jobs

(* An edge that has uploaded nothing satisfies the invariant.              *)
LEMMA EdgeInitially == PartsEdgeInit => EdgeInvariant
PROOF
<1> SUFFICES ASSUME PartsEdgeInit PROVE EdgeInvariant
  OBVIOUS
<1>1. JobKept
  BY NoJobType DEF PartsEdgeInit, JobKept, NoJob
<1>2. RetireKept
  BY DEF PartsEdgeInit, RetireKept, NoRetire
<1>3. LinesKept
  BY DEF PartsEdgeInit, LinesKept
<1>4. TailKept
  <2>1. Cardinality(Owed) = 0
    <3>1. Owed = {}
      BY DEF PartsEdgeInit, Owed
    <3> QED BY <3>1, FS_EmptySet
  <2>2. ragged = FALSE /\ unclosed = {} /\ unsure = {} /\ linesRecorded = {} /\ lineTears = 0
    BY DEF PartsEdgeInit, edgeHistory
  <2>3. Cardinality(Owed) + (IF ragged THEN 1 ELSE 0) <= lineTears
    BY <2>1, <2>2
  <2> QED BY <2>2, <2>3 DEF TailKept
<1> QED BY <1>1, <1>2, <1>3, <1>4 DEF EdgeInvariant

(* What is owed is finite, and counts no more than what it is part of.     *)
LEMMA OwedCounts ==
    ASSUME NEW S, S \subseteq Files, NEW T, NEW f \in Files
    PROVE  /\ Cardinality(S) \in Nat
           /\ T \subseteq S => Cardinality(T) \in Nat /\ Cardinality(T) <= Cardinality(S)
           /\ T \subseteq S \cup {f} => Cardinality(T) \in Nat /\ Cardinality(T) <= Cardinality(S) + 1
PROOF
<1>1. IsFiniteSet(S) /\ IsFiniteSet(S \cup {f})
  BY PartsEdgeAssumption, FS_Subset, FS_AddElement
<1>2. Cardinality(S) \in Nat /\ Cardinality(S \cup {f}) \in Nat
  BY <1>1, FS_CardinalityType
<1>3. Cardinality(S \cup {f}) <= Cardinality(S) + 1
  BY <1>1, <1>2, FS_AddElement
<1>4. T \subseteq S => Cardinality(T) \in Nat /\ Cardinality(T) <= Cardinality(S)
  BY <1>1, FS_Subset, FS_CardinalityType
<1>5. T \subseteq S \cup {f} => Cardinality(T) \in Nat /\ Cardinality(T) <= Cardinality(S \cup {f})
  BY <1>1, FS_Subset, FS_CardinalityType
<1> QED BY <1>2, <1>3, <1>4, <1>5

(* What is owed never outgrows the torn writes.                            *)
LEMMA TailBound ==
    ASSUME TailKept
    PROVE  /\ IsFiniteSet(Owed) /\ Cardinality(Owed) \in Nat /\ lineTears \in Nat
           /\ Cardinality(Owed) <= lineTears
PROOF
<1>1. IsFiniteSet(Owed)
  BY PartsEdgeAssumption, FS_Subset DEF TailKept, Owed
<1>2. Cardinality(Owed) \in Nat
  BY <1>1, FS_CardinalityType
<1>3. CASE ragged
  BY <1>1, <1>2, <1>3 DEF TailKept
<1>4. CASE ~ragged
  BY <1>1, <1>2, <1>4 DEF TailKept
<1> QED BY <1>3, <1>4

(* The bytes of a line, whole and synced or cut anywhere, behind whatever  *)
(* end: nothing that was sure of its line loses it.                        *)
LEMMA TailWrites ==
    ASSUME LinesKept, TailKept, NEW f \in Files, f \in confirmed,
           UNCHANGED <<here, confirmed>>,
           \/ /\ LineWritten(f, TRUE) /\ linesRecorded' = linesRecorded \cup {f}
              /\ forgottenParts' = forgottenParts \ {f}
           \/ LineCut(f) /\ UNCHANGED <<linesRecorded, forgottenParts>>
    PROVE  LinesKept' /\ TailKept'
PROOF
<1>1. Owed \subseteq Files /\ lineTears \in Nat /\ Cardinality(Owed) \in Nat
  BY OwedCounts DEF TailKept, Owed
<1>2. CASE /\ LineWritten(f, TRUE) /\ linesRecorded' = linesRecorded \cup {f}
           /\ forgottenParts' = forgottenParts \ {f}
  <2>1. LinesKept'
    BY <1>2 DEF LinesKept, TailKept, LineWritten
  <2>2. /\ ragged' \in BOOLEAN /\ unclosed' \subseteq unsure' /\ unsure' \subseteq partLines'
        /\ linesRecorded' \subseteq Files /\ lineTears' = lineTears /\ ragged' = FALSE
    BY <1>2 DEF LinesKept, TailKept, LineWritten
  <2>3. CASE ragged
    <3>1. Owed' \subseteq Owed \cup {f}
      BY <1>2, <2>3 DEF Owed, LineWritten, TailKept
    <3>2. Cardinality(Owed') \in Nat /\ Cardinality(Owed') <= Cardinality(Owed) + 1
      BY <3>1, <1>1, OwedCounts
    <3> QED BY <2>1, <2>2, <2>3, <3>2, <1>1 DEF TailKept
  <2>4. CASE ~ragged
    <3>1. Owed' \subseteq Owed
      BY <1>2, <2>4 DEF Owed, LineWritten, TailKept
    <3>2. Cardinality(Owed') \in Nat /\ Cardinality(Owed') <= Cardinality(Owed)
      BY <3>1, <1>1, OwedCounts
    <3> QED BY <2>1, <2>2, <2>4, <3>2, <1>1 DEF TailKept
  <2> QED BY <2>3, <2>4
<1>3. CASE LineCut(f) /\ UNCHANGED <<linesRecorded, forgottenParts>>
  <2>1. CASE UNCHANGED stateFile
    BY <1>3, <2>1 DEF stateFile, LinesKept, TailKept, Owed
  <2>2. CASE LineTorn(f) \/ LineWritten(f, FALSE)
    <3>1. LinesKept'
      BY <1>3, <2>2 DEF LinesKept, TailKept, LineTorn, LineWritten
    <3>2. /\ ragged' \in BOOLEAN /\ unclosed' \subseteq unsure' /\ unsure' \subseteq partLines'
          /\ linesRecorded' \subseteq Files
      BY <1>3, <2>2 DEF LinesKept, TailKept, LineTorn, LineWritten
    <3>3. \/ ragged' = TRUE /\ lineTears' = lineTears + 1
          \/ ragged' = FALSE /\ lineTears' = lineTears
      BY <2>2 DEF LineTorn, LineWritten
    <3>4. partLines \ unsure \subseteq partLines' \ unsure'
      BY <2>2 DEF LinesKept, TailKept, LineTorn, LineWritten
    <3>5. Owed' \subseteq Owed
      BY <1>3, <3>4 DEF Owed
    <3>6. Cardinality(Owed') \in Nat /\ Cardinality(Owed') <= Cardinality(Owed)
      BY <3>5, <1>1, OwedCounts
    <3> QED BY <3>1, <3>2, <3>3, <3>6, <1>1 DEF TailKept
  <2> QED BY <1>3, <2>1, <2>2 DEF LineCut
<1> QED BY <1>2, <1>3

(* A step of the job that keeps the rest: what must be shown of it.        *)
LEMMA EdgeQuiet ==
    ASSUME EdgeInvariant, UNCHANGED <<here, stateFile, retires, linesRecorded, forgottenParts>>,
           JobKept', confirmed \subseteq confirmed'
    PROVE  EdgeInvariant'
PROOF
<1>1. RetireKept'
  BY DEF EdgeInvariant, RetireKept
<1>2. LinesKept' /\ TailKept'
  BY DEF EdgeInvariant, LinesKept, TailKept, Owed, stateFile
<1> QED BY <1>1, <1>2 DEF EdgeInvariant

(* A step that leaves the job alone and only adds to what is confirmed     *)
(* keeps the job.                                                          *)
LEMMA JobStays ==
    ASSUME JobKept, UNCHANGED job, confirmed \subseteq confirmed'
    PROVE  JobKept'
PROOF BY DEF JobKept

(* A job between two files keeps nothing that could be wrong.              *)
LEMMA JobResets ==
    ASSUME job' \in Jobs, job'.pc \in {"idle", "next"}
    PROVE  JobKept'
PROOF BY DEF JobKept

(* Starting a run keeps the invariant.                                     *)
LEMMA EdgeStart == ASSUME EdgeInvariant, StartRun PROVE EdgeInvariant'
PROOF
<1>1. PICK order \in SetToSeqs(here) :
          job' = [NoJob EXCEPT !.pc = "next", !.queue = order, !.done = partLines]
  BY DEF StartRun
<1>2. order \in Seq(Files)
  BY EdgeOrders DEF EdgeInvariant, LinesKept
<1>3. job' \in Jobs /\ job'.pc = "next"
  BY <1>1, <1>2, NoJobType DEF EdgeInvariant, LinesKept, Jobs, NoJob
<1>4. JobKept'
  BY <1>3, JobResets
<1> QED BY <1>4, EdgeQuiet DEF StartRun, edgeHistory

(* Going to the next file keeps it.                                        *)
LEMMA EdgeNextFile == ASSUME EdgeInvariant, NextFile PROVE EdgeInvariant'
PROOF
<1> DEFINE restFiles == [NoJob EXCEPT !.pc = "next", !.queue = Tail(job.queue), !.done = job.done]
<1>1. job \in Jobs /\ job.queue # <<>>
  BY DEF NextFile, EdgeInvariant, JobKept
<1>2. Head(job.queue) \in Files /\ Tail(job.queue) \in Seq(Files)
  BY <1>1 DEF Jobs
<1>3. restFiles \in Jobs /\ restFiles.pc = "next"
  BY <1>1, <1>2, NoJobType DEF Jobs, NoJob
<1>4. \/ job' = restFiles
      \/ job' = [restFiles EXCEPT !.pc = "presign", !.file = Head(job.queue)]
  BY DEF NextFile
<1>5. JobKept'
  <2>1. CASE job' = restFiles
    BY <2>1, <1>3, JobResets
  <2>2. CASE job' = [restFiles EXCEPT !.pc = "presign", !.file = Head(job.queue)]
    BY <2>2, <1>2, <1>3 DEF Jobs, JobKept
  <2> QED BY <1>4, <2>1, <2>2
<1> QED BY <1>5, EdgeQuiet DEF NextFile, edgeHistory

(* Every answer to a presign keeps it.                                     *)
LEMMA EdgePresign == ASSUME EdgeInvariant, PresignPart PROVE EdgeInvariant'
PROOF
<1>1. job \in Jobs /\ job.file \in Files /\ job.pc = "presign"
  BY DEF PresignPart, EdgeInvariant, JobKept
<1>2. JobKept'
  <2>1. CASE job' = [job EXCEPT !.pc = "put"]
    BY <2>1, <1>1 DEF Jobs, JobKept
  <2>2. CASE job' = [job EXCEPT !.url = IF Part \in storedParts THEN "present" ELSE "url", !.pc = "put"]
    BY <2>2, <1>1 DEF Jobs, JobKept
  <2>3. CASE job' = Again(job)
    <3>1. job' \in Jobs /\ (job'.pc = "idle" \/ (job'.pc = "presign" /\ job'.file = job.file))
      BY <2>3, <1>1, AgainKept DEF NoJob
    <3> QED BY <3>1, <1>1 DEF JobKept
  <2>4. CASE job' = NoJob
    BY <2>4, NoJobType, JobResets DEF NoJob
  <2>5. CASE job' = Rejected
    BY <2>5, <1>1, RejectedKept, JobResets
  <2> QED BY <2>1, <2>2, <2>3, <2>4, <2>5 DEF PresignPart
<1> QED BY <1>2, EdgeQuiet DEF PresignPart, edgeHistory

(* Every answer to a PUT keeps it.                                         *)
LEMMA EdgePut == ASSUME EdgeInvariant, PutPart PROVE EdgeInvariant'
PROOF
<1>1. job \in Jobs /\ job.file \in Files /\ job.pc = "put"
  BY DEF PutPart, EdgeInvariant, JobKept
<1>2. JobKept'
  <2>1. CASE (job.put \/ job.url = "present") /\ job' = [job EXCEPT !.pc = "commit"]
    BY <2>1, <1>1 DEF Jobs, JobKept
  <2>2. CASE job' = [job EXCEPT !.put = TRUE, !.pc = "commit"]
    BY <2>2, <1>1 DEF Jobs, JobKept
  <2>3. ASSUME NEW j \in Jobs, j.file = job.file, job' = Again(j) PROVE JobKept'
    <3>1. job' \in Jobs /\ (job'.pc = "idle" \/ (job'.pc = "presign" /\ job'.file = job.file))
      BY <2>3, AgainKept DEF NoJob
    <3> QED BY <3>1, <1>1 DEF JobKept
  <2>4. CASE job' = Rejected
    BY <2>4, <1>1, RejectedKept, JobResets
  <2>5. [job EXCEPT !.url = "none"] \in Jobs /\ [job EXCEPT !.stalled = 1] \in Jobs
    BY <1>1 DEF Jobs
  <2>6. [job EXCEPT !.url = "none"].file = job.file /\ [job EXCEPT !.stalled = 1].file = job.file
    BY <1>1 DEF Jobs
  <2>7. \/ (job.put \/ job.url = "present") /\ job' = [job EXCEPT !.pc = "commit"]
        \/ job' = Rejected
        \/ job' = [job EXCEPT !.put = TRUE, !.pc = "commit"]
        \/ job' = Again([job EXCEPT !.url = "none"])
        \/ job' = Again(job)
        \/ job' = Again([job EXCEPT !.stalled = 1])
    BY DEF PutPart
  <2> QED BY <1>1, <2>1, <2>2, <2>3, <2>4, <2>5, <2>6, <2>7
<1> QED BY <1>2, EdgeQuiet DEF PutPart, edgeHistory

(* Every answer to a commit keeps it: the part is confirmed when the job   *)
(* goes on to record it.                                                   *)
LEMMA EdgeCommit == ASSUME EdgeInvariant, CommitPart PROVE EdgeInvariant'
PROOF
<1>1. job \in Jobs /\ job.file \in Files /\ job.pc = "commit" /\ (job.put \/ job.url = "present")
  BY DEF CommitPart, EdgeInvariant, JobKept
<1>2. confirmed \subseteq confirmed'
  BY DEF CommitPart
<1>3. JobKept'
  <2>1. ASSUME NEW j \in Jobs, j.file = job.file, job' = Again(j) PROVE JobKept'
    <3>1. job' \in Jobs /\ (job'.pc = "idle" \/ (job'.pc = "presign" /\ job'.file = job.file))
      BY <2>1, AgainKept DEF NoJob
    <3> QED BY <3>1, <1>1 DEF JobKept
  <2>2. CASE Part \in storedParts /\ job' = [job EXCEPT !.pc = "record"]
    <3>1. job' \in Jobs /\ job'.pc = "record" /\ job'.file = job.file /\ job'.put = job.put /\ job'.url = job.url
      BY <2>2, <1>1 DEF Jobs
    <3>2. job.file \in confirmed'
      BY <2>2, <3>1 DEF CommitPart
    <3> QED BY <3>1, <3>2, <1>1 DEF JobKept
  <2>3. CASE job' = CommitMissed(job)
    <3>1. [job EXCEPT !.url = "none", !.put = FALSE] \in Jobs
      BY <1>1 DEF Jobs
    <3>2. [job EXCEPT !.url = "none", !.put = FALSE].file = job.file
      BY <1>1 DEF Jobs
    <3> QED BY <3>1, <3>2, <2>1, <2>3 DEF CommitMissed
  <2>4. CASE job' = NoJob
    BY <2>4, NoJobType, JobResets DEF NoJob
  <2>5. CASE job' = Rejected
    BY <2>5, <1>1, RejectedKept, JobResets
  <2>6. \/ Part \in storedParts /\ job' = [job EXCEPT !.pc = "record"]
        \/ job' = CommitMissed(job)
        \/ job' \in {Again(job), NoJob, Rejected}
    BY DEF CommitPart
  <2> QED BY <1>1, <2>1, <2>2, <2>3, <2>4, <2>5, <2>6
<1> QED BY <1>2, <1>3, EdgeQuiet DEF CommitPart

(* Recording the line keeps it.                                            *)
LEMMA EdgeRecord == ASSUME EdgeInvariant, RecordLine PROVE EdgeInvariant'
PROOF
<1>1. job \in Jobs /\ job.file \in Files /\ job.file \in confirmed
  BY DEF RecordLine, EdgeInvariant, JobKept
<1>2. JobKept'
  BY <1>1, RejectedKept, JobResets DEF RecordLine
<1>3. RetireKept'
  BY DEF RecordLine, EdgeInvariant, RetireKept
<1>4. LinesKept' /\ TailKept'
  BY <1>1, TailWrites DEF RecordLine, EdgeInvariant
<1> QED BY <1>2, <1>3, <1>4 DEF EdgeInvariant

(* The end of a run, and its cancellation, keep it.                        *)
LEMMA EdgeStop == ASSUME EdgeInvariant, RunEnds \/ CancelRun PROVE EdgeInvariant'
PROOF
<1>1. job' = NoJob
  BY DEF RunEnds, CancelRun
<1>2. JobKept'
  BY <1>1, NoJobType, JobResets DEF NoJob
<1> QED BY <1>2, EdgeQuiet DEF RunEnds, CancelRun, edgeHistory

(* Starting a retirement keeps it: it looks at the lines whose file is     *)
(* gone.                                                                   *)
LEMMA EdgeStartRetire == ASSUME EdgeInvariant, StartRetire PROVE EdgeInvariant'
PROOF
<1>1. PICK order \in SetToSeqs(Gone) :
          retires' = [pc |-> "tell", forget |-> {},
                      pending |-> [i \in DOMAIN order |->
                                      [file |-> order[i], tell |-> content[order[i]] \notin LivePart]]]
  BY DEF StartRetire
<1> DEFINE stillDue == [i \in DOMAIN order |-> [file |-> order[i], tell |-> content[order[i]] \notin LivePart]]
<1>2. Gone \subseteq Files /\ Gone \cap here = {}
  BY DEF Gone, EdgeInvariant, LinesKept
<1>3. order \in Seq(Gone)
  BY <1>2, EdgeOrders
<1>4. \A i \in DOMAIN order : order[i] \in Gone
  BY <1>3
<1>5. \A i \in DOMAIN order : stillDue[i] \in Pendings /\ stillDue[i].file \notin here
  BY <1>2, <1>4 DEF Pendings
<1>6. stillDue \in Seq(Pendings) /\ DOMAIN stillDue = DOMAIN order
  BY <1>3, <1>5
<1>7. RetireKept'
  <2>1. here' = here
    BY DEF StartRetire
  <2>2. retires' = [pc |-> "tell", pending |-> stillDue, forget |-> {}]
    BY <1>1
  <2> HIDE DEF stillDue
  <2> QED BY <2>1, <2>2, <1>5, <1>6 DEF RetireKept
<1>8. JobKept'
  BY JobStays DEF StartRetire, edgeHistory, EdgeInvariant
<1>9. LinesKept' /\ TailKept'
  BY DEF StartRetire, edgeHistory, stateFile, EdgeInvariant, LinesKept, TailKept, Owed
<1> QED BY <1>7, <1>8, <1>9 DEF EdgeInvariant

(* Telling the other side of a file that is gone keeps it.                 *)
LEMMA EdgeRetireNext == ASSUME EdgeInvariant, RetireNext PROVE EdgeInvariant'
PROOF
<1> DEFINE p == Head(retires.pending)
<1> DEFINE toldOf == [retires EXCEPT !.pending = Tail(@), !.forget = @ \cup {p.file}]
<1>1. retires \in [pc : {"idle", "tell"}, pending : Seq(Pendings), forget : SUBSET Files] /\ retires.pending # <<>>
  BY DEF EdgeInvariant, RetireKept, RetireNext
<1>2. p \in Pendings /\ Tail(retires.pending) \in Seq(Pendings)
  BY <1>1
<1>3. p.file \in Files /\ p.file \notin here
  <2>1. 1 \in DOMAIN retires.pending /\ p = retires.pending[1]
    BY <1>1
  <2> QED BY <2>1, <1>2 DEF Pendings, EdgeInvariant, RetireKept
<1>4. \A i \in DOMAIN Tail(retires.pending) : Tail(retires.pending)[i].file \notin here
  <2> TAKE i \in DOMAIN Tail(retires.pending)
  <2>1. i + 1 \in DOMAIN retires.pending /\ Tail(retires.pending)[i] = retires.pending[i + 1]
    BY <1>1
  <2> QED BY <2>1 DEF EdgeInvariant, RetireKept
<1>5. retires' = toldOf \/ retires' = [retires EXCEPT !.pending = <<>>]
  BY DEF RetireNext
<1>6. RetireKept'
  <2>1. here' = here
    BY DEF RetireNext
  <2>2. CASE retires' = toldOf
    <3>1. /\ retires' \in [pc : {"idle", "tell"}, pending : Seq(Pendings), forget : SUBSET Files]
          /\ retires'.pending = Tail(retires.pending) /\ retires'.forget = retires.forget \cup {p.file}
      BY <2>2, <1>1, <1>2, <1>3
    <3> QED BY <2>1, <3>1, <1>3, <1>4 DEF RetireKept, EdgeInvariant
  <2>3. CASE retires' = [retires EXCEPT !.pending = <<>>]
    <3>1. /\ retires' \in [pc : {"idle", "tell"}, pending : Seq(Pendings), forget : SUBSET Files]
          /\ retires'.pending = <<>> /\ retires'.forget = retires.forget
      <4>1. <<>> \in Seq(Pendings)
        OBVIOUS
      <4> HIDE DEF toldOf, p
      <4> QED BY <2>3, <1>1, <4>1
    <3> QED BY <2>1, <3>1 DEF RetireKept, EdgeInvariant
  <2> QED BY <1>5, <2>2, <2>3
<1>7. JobKept'
  BY JobStays DEF RetireNext, edgeHistory, EdgeInvariant
<1>8. LinesKept' /\ TailKept'
  BY DEF RetireNext, edgeHistory, stateFile, EdgeInvariant, LinesKept, TailKept, Owed
<1> QED BY <1>6, <1>7, <1>8 DEF EdgeInvariant

(* Rewriting the record without the lines forgotten keeps it.              *)
LEMMA EdgeForget == ASSUME EdgeInvariant, ForgetLines PROVE EdgeInvariant'
PROOF
<1>1. JobKept'
  BY JobStays DEF ForgetLines, EdgeInvariant
<1>2. RetireKept'
  BY DEF ForgetLines, RetireKept, NoRetire
<1>3. LinesKept'
  BY DEF ForgetLines, EdgeInvariant, LinesKept, RetireKept, Kept, stateFile
<1>4. TailKept'
  <2>1. CASE UNCHANGED <<stateFile, forgottenParts>>
    BY <2>1 DEF ForgetLines, stateFile, EdgeInvariant, TailKept, Owed
  <2>2. CASE ~(UNCHANGED <<stateFile, forgottenParts>>)
    <3>1. /\ partLines' = partLines \ retires.forget /\ forgottenParts' = forgottenParts \cup retires.forget
          /\ ragged' = FALSE /\ unclosed' = {} /\ unsure' = {} /\ lineTears' = lineTears
          /\ linesRecorded' = linesRecorded
      BY <2>2 DEF ForgetLines, Kept
    <3>2. Owed' \subseteq Owed
      BY <3>1 DEF Owed
    <3>3. IsFiniteSet(Owed) /\ Cardinality(Owed) \in Nat /\ Cardinality(Owed) <= lineTears /\ lineTears \in Nat
      BY TailBound DEF EdgeInvariant
    <3>4. Cardinality(Owed') \in Nat /\ Cardinality(Owed') <= Cardinality(Owed)
      BY <3>2, <3>3, FS_Subset, FS_CardinalityType
    <3>5. Cardinality(Owed') + 0 <= lineTears
      BY <3>3, <3>4
    <3> QED BY <3>1, <3>5, <3>3 DEF TailKept, EdgeInvariant
  <2> QED BY <2>1, <2>2
<1> QED BY <1>1, <1>2, <1>3, <1>4 DEF EdgeInvariant

(* A file that goes, a crash and the sweep of the central server keep it.  *)
LEMMA EdgeWorld ==
    ASSUME EdgeInvariant,
           \/ \E f \in Files : FileGoes(f)
           \/ EdgeCrash
           \/ \E c \in Contents : CentralSweeps(c)
    PROVE  EdgeInvariant'
PROOF
<1>1. CASE \E f \in Files : FileGoes(f)
  <2>1. JobKept'
    BY <1>1, JobStays DEF FileGoes, edgeHistory, EdgeInvariant
  <2>2. RetireKept'
    BY <1>1 DEF FileGoes, EdgeInvariant, RetireKept
  <2>3. LinesKept' /\ TailKept'
    BY <1>1 DEF FileGoes, edgeHistory, stateFile, EdgeInvariant, LinesKept, TailKept, Owed
  <2> QED BY <2>1, <2>2, <2>3 DEF EdgeInvariant
<1>2. CASE EdgeCrash
  <2>1. JobKept'
    BY <1>2, NoJobType, JobResets DEF EdgeCrash, NoJob
  <2>2. RetireKept'
    BY <1>2 DEF EdgeCrash, RetireKept, NoRetire
  <2>3. LinesKept' /\ TailKept'
    <3>1. UNCHANGED <<here, confirmed, linesRecorded, forgottenParts>>
      BY <1>2 DEF EdgeCrash, edgeHistory
    <3>2. CASE job.pc = "record" /\ LineCut(job.file)
      <4>1. job.file \in Files /\ job.file \in confirmed
        BY <3>2 DEF EdgeInvariant, JobKept
      <4> QED BY <3>1, <3>2, <4>1, TailWrites DEF EdgeInvariant
    <3>3. ASSUME NEW gone \in SUBSET unsure,
                 partLines' = partLines \ gone, unsure' = unsure \ gone, unclosed' = unclosed \ gone,
                 UNCHANGED <<ragged, lineTears>>
          PROVE  LinesKept' /\ TailKept'
      <4>1. Owed' = Owed
        BY <3>1, <3>3 DEF Owed, EdgeInvariant, TailKept
      <4> QED BY <3>1, <3>3, <4>1 DEF EdgeInvariant, LinesKept, TailKept
    <3> QED BY <1>2, <3>2, <3>3 DEF EdgeCrash
  <2> QED BY <2>1, <2>2, <2>3 DEF EdgeInvariant
<1>3. CASE \E c \in Contents : CentralSweeps(c)
  <2>1. JobKept'
    BY <1>3, JobStays DEF CentralSweeps, edgeHistory, edgeVars, EdgeInvariant
  <2> QED BY <1>3, <2>1, EdgeQuiet DEF CentralSweeps, edgeHistory, edgeVars
<1> QED BY <1>1, <1>2, <1>3

(* A step that changes nothing here keeps it.                              *)
LEMMA EdgeStutters == ASSUME EdgeInvariant, UNCHANGED partsEdgeVars PROVE EdgeInvariant'
PROOF
<1>1. JobKept'
  BY JobStays DEF partsEdgeVars, edgeHistory, edgeVars, EdgeInvariant
<1> QED BY <1>1, EdgeQuiet DEF partsEdgeVars, edgeHistory, edgeVars

(* A line that disappears from the record is one a retirement forgot, or   *)
(* one whose own append did not return Ok.                                 *)
LEMMA EdgeForgetsOpenly ==
    ASSUME EdgeInvariant, [PartsEdgeNext]_partsEdgeVars
    PROVE  [partLines \ partLines' \subseteq forgottenParts' \cup unsure]_partsEdgeVars
PROOF
<1>0. unclosed \subseteq unsure
  BY DEF EdgeInvariant, TailKept
<1>1. CASE RecordLine
  BY <1>0, <1>1 DEF RecordLine, LineWritten, LineCut, LineTorn, stateFile
<1>2. CASE ForgetLines
  BY <1>2 DEF ForgetLines, Kept, stateFile
<1>3. CASE EdgeCrash
  BY <1>0, <1>3 DEF EdgeCrash, LineCut, LineWritten, LineTorn, stateFile
<1>4. CASE PartsEdgeNext /\ ~RecordLine /\ ~ForgetLines /\ ~EdgeCrash
  <2>1. partLines' = partLines
    BY <1>4 DEF PartsEdgeNext, JobNext, RetireStep, StartRun, NextFile, RunEnds, PresignPart, PutPart,
       CommitPart, CancelRun, StartRetire, RetireNext, FileGoes, CentralSweeps, edgeVars, stateFile
  <2> QED BY <2>1
<1> QED BY <1>1, <1>2, <1>3, <1>4

(* The inductive invariant gives the invariants the runs check.            *)
LEMMA EdgeImplies ==
    EdgeInvariant => PartsEdgeTypeOK /\ RecordedIsConfirmed /\ ForgottenIsGone /\ SwallowedByTears
PROOF
<1> SUFFICES ASSUME EdgeInvariant PROVE PartsEdgeTypeOK /\ RecordedIsConfirmed /\ ForgottenIsGone /\ SwallowedByTears
  OBVIOUS
<1>1. job.attempt < ATTEMPTS /\ job.stalled \in {0, 1}
        /\ job.pc \in {"idle", "next", "presign", "put", "commit", "record"}
  BY PartsEdgeAssumption DEF EdgeInvariant, JobKept, Jobs
<1>2. PartsEdgeTypeOK
  BY <1>1 DEF EdgeInvariant, JobKept, RetireKept, LinesKept, TailKept, PartsEdgeTypeOK
<1>3. SwallowedByTears
  <2>1. Swallowed \subseteq Owed
    BY DEF Swallowed, Owed
  <2>2. /\ IsFiniteSet(Owed) /\ Cardinality(Owed) \in Nat /\ lineTears \in Nat
        /\ Cardinality(Owed) <= lineTears
    BY TailBound DEF EdgeInvariant
  <2>3. Cardinality(Swallowed) \in Nat /\ Cardinality(Swallowed) <= Cardinality(Owed)
    BY <2>1, <2>2, FS_Subset, FS_CardinalityType
  <2> QED BY <2>2, <2>3 DEF SwallowedByTears
<1> QED BY <1>2, <1>3 DEF EdgeInvariant, LinesKept, RecordedIsConfirmed, ForgottenIsGone

(* PartsEdgePromise for every set of files and number of attempts: a line  *)
(* of the upload record names a part the other side confirmed, a line is   *)
(* dropped only by a retirement, and a retirement forgets only a file that *)
(* is gone.  Appends fail and are torn at any byte: each torn one costs at *)
(* most one line that was reported as recorded.                            *)
THEOREM EdgeSafe == PartsEdgeSpec => PartsEdgePromise
PROOF
<1>1. PartsEdgeInit => EdgeInvariant
  BY EdgeInitially
<1>2. EdgeInvariant /\ [PartsEdgeNext]_partsEdgeVars => EdgeInvariant'
  BY EdgeStart, EdgeNextFile, EdgePresign, EdgePut, EdgeCommit, EdgeRecord, EdgeStop, EdgeStartRetire,
     EdgeRetireNext, EdgeForget, EdgeWorld, EdgeStutters DEF PartsEdgeNext, JobNext, RetireStep
<1>3. EdgeInvariant => PartsEdgeTypeOK /\ RecordedIsConfirmed /\ ForgottenIsGone /\ SwallowedByTears
  BY EdgeImplies
<1>4. EdgeInvariant /\ [PartsEdgeNext]_partsEdgeVars
          => [partLines \ partLines' \subseteq forgottenParts' \cup unsure]_partsEdgeVars
  BY EdgeForgetsOpenly
<1> QED BY <1>1, <1>2, <1>3, <1>4, PTL DEF PartsEdgeSpec, PartsEdgePromise, LinesSurvive
=============================================================================
