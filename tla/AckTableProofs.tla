--------------------------- MODULE AckTableProofs ---------------------------
(***************************************************************************)
(* Proof that the acknowledgements of AckTable are true and stay true. A   *)
(* batch has one id in one channel (IssuedOnce) and is bound once          *)
(* (BoundOnce), so the watermark that stands for it is its last record's   *)
(* position (Marks), dropping it with a retired id takes it from no other  *)
(* id, and what lies below a channel's floor is on disk (Floors).          *)
(***************************************************************************)
EXTENDS AckTable, SequenceTheorems, WellFoundedInduction, TLAPS

(* Batch sequence numbers.                                                 *)
Seqs == 1 .. MaxBatches

(* The batches of this process that have been bound.                       *)
Bound(s) == <<ackStarts, s>> \in DOMAIN last

(* A request that has a batch and no ack id yet.                           *)
Waiting(t) == ackReq[t].at \in {"send", "load", "issue"}

(* The channel table's entries.                                            *)
Chan == [next_id : Nat, durable_floor : Nat, pending : UNION {[D -> Seqs] : D \in SUBSET Nat}]

(* Types of the table and of its histories.                                *)
Shapes ==
    /\ channels \in [Channels -> Chan]
    /\ given \in [Channels -> Seq(Seqs)]
    /\ \A b \in DOMAIN last : last[b] \in Nat
    /\ DOMAIN last \subseteq (1 .. ackStarts) \X Seqs
    /\ \A t \in Threads : ackReq[t].at \in {"load", "issue"} => ackReq[t].channel \in Channels

(* The ids of a channel, and the batches they stand for.                   *)
Ids ==
    \A c \in Channels :
        /\ Len(given[c]) = channels[c].next_id
        /\ \A i \in DOMAIN channels[c].pending : channels[c].pending[i] = given[c][i + 1]

(* Below the floor everything is on disk.                                  *)
Floors == \A c \in Channels : \A i \in 1 .. channels[c].durable_floor : AckOnDisk(<<ackStarts, given[c][i]>>)

(* A watermark is the position the batch was bound at.                     *)
Marks == \A s \in DOMAIN watermarks : Bound(s) /\ watermarks[s] = last[<<ackStarts, s>>]

(* No two ids stand for one batch.                                         *)
IssuedOnce ==
    /\ \A t \in Threads : Waiting(t) =>
          /\ ackReq[t].seq \in Seqs /\ ackReq[t].seq < next_batch
          /\ \A c \in Channels : \A i \in 1 .. Len(given[c]) : given[c][i] # ackReq[t].seq
    /\ \A t, u \in Threads : Waiting(t) /\ Waiting(u) /\ ackReq[t].seq = ackReq[u].seq => t = u
    /\ \A c, d \in Channels : \A i \in 1 .. Len(given[c]), j \in 1 .. Len(given[d]) :
          given[c][i] = given[d][j] => c = d /\ i = j
    /\ \A c \in Channels : \A i \in 1 .. Len(given[c]) : given[c][i] < next_batch

(* A batch is bound once: it is with its request, on its way, in hand or   *)
(* bound.                                                                  *)
BoundOnce ==
    /\ \A t \in Threads : ackReq[t].at = "send" =>
          /\ ackReq[t].seq # work /\ ~Bound(ackReq[t].seq)
          /\ \A i \in 1 .. Len(handoff) : handoff[i] # ackReq[t].seq
    /\ \A i \in 1 .. Len(handoff) : handoff[i] # work /\ ~Bound(handoff[i]) /\ handoff[i] < next_batch
    /\ \A i, j \in 1 .. Len(handoff) : handoff[i] = handoff[j] => i = j
    /\ work # 0 => ~Bound(work) /\ work < next_batch
    /\ \A s \in Seqs : Bound(s) => s < next_batch

(* The count that issue has loaded was published.                          *)
SeenIsPast == \A t \in Threads : ackReq[t].at = "issue" => ackReq[t].seen <= ackSynced

(* The inductive invariant.                                                *)
AckInv == AckTypeOK /\ Shapes /\ Ids /\ Floors /\ Marks /\ IssuedOnce /\ BoundOnce /\ SeenIsPast

(* A request.                                                              *)
ReqType == [at : AckRequestSteps, channel : Channels \cup {NoChannel}, seq : Nat, seen : Nat, id : Nat]

(* Parts that depend on few variables stay when those do.                  *)
LEMMA TableStays ==
    ASSUME AckInv, UNCHANGED <<channels, watermarks, given, last, ackStarts, ackSynced>>
    PROVE  Ids' /\ Floors' /\ Marks'
BY DEF AckInv, Ids, Floors, Marks, Bound, AckOnDisk

(* AckTypeOK, by the request's type.                                       *)
LEMMA ReqTyped ==
    ASSUME AckInv
    PROVE  ackReq \in [Threads -> ReqType]
BY DEF AckInv, AckTypeOK, ReqType

(* What sequences hold.                                                    *)
LEMMA Elements ==
    ASSUME AckInv
    PROVE  /\ \A c \in Channels : \A i \in 1 .. Len(given[c]) : given[c][i] \in Seqs
           /\ \A i \in 1 .. Len(handoff) : handoff[i] \in Seqs
           /\ \A c \in Channels : given[c] \in Seq(Seqs) /\ Len(given[c]) \in Nat
           /\ handoff \in Seq(Seqs) /\ Len(handoff) \in Nat
<1>1. handoff \in Seq(Seqs) /\ \A c \in Channels : given[c] \in Seq(Seqs)
  BY DEF AckInv, AckTypeOK, Shapes, Seqs
<1>2. QED
  BY <1>1, ElementOfSeq, LenProperties

(* A step of one request that keeps the batch, if the request still waits. *)
LEMMA RequestMoves ==
    ASSUME AckInv, NEW t \in Threads, NEW r \in ReqType, ackReq' = [ackReq EXCEPT ![t] = r],
           UNCHANGED <<channels, watermarks, next_batch, pipeVars, ackStarts, given, last>>,
           r.at # "send",
           r.at \in {"load", "issue"} => Waiting(t) /\ r.seq = ackReq[t].seq /\ r.channel \in Channels,
           r.at = "issue" => r.seen <= ackSynced
    PROVE  AckInv'
<1>1. /\ channels' = channels /\ watermarks' = watermarks /\ handoff' = handoff /\ work' = work /\ left' = left
      /\ recordsEnqueued' = recordsEnqueued /\ ackSynced' = ackSynced /\ ackStarts' = ackStarts
      /\ given' = given /\ last' = last /\ next_batch' = next_batch
  BY DEF pipeVars
<1>2. ackReq \in [Threads -> ReqType]
  BY ReqTyped
<1>3. ackReq' \in [Threads -> ReqType] /\ ackReq'[t] = r /\ \A u \in Threads : u # t => ackReq'[u] = ackReq[u]
  BY <1>2
<1>4. AckTypeOK'
  BY <1>1, <1>3 DEF AckInv, AckTypeOK, ReqType
<1>5. Shapes' /\ SeenIsPast'
  BY <1>1, <1>3 DEF AckInv, Shapes, SeenIsPast
<1>6. \A u \in Threads : Waiting(u)' => Waiting(u) /\ ackReq'[u].seq = ackReq[u].seq
  BY <1>3 DEF Waiting
<1>7. IssuedOnce'
  <2>1. ASSUME NEW u \in Threads, Waiting(u)'
        PROVE  /\ ackReq'[u].seq \in Seqs /\ ackReq'[u].seq < next_batch
               /\ \A d \in Channels : \A i \in 1 .. Len(given[d]) : given[d][i] # ackReq'[u].seq
    BY <1>6, <2>1 DEF AckInv, IssuedOnce
  <2>2. \A u, w \in Threads : Waiting(u)' /\ Waiting(w)' /\ ackReq'[u].seq = ackReq'[w].seq => u = w
    BY <1>6 DEF AckInv, IssuedOnce
  <2>3. QED
    BY <1>1, <2>1, <2>2 DEF AckInv, IssuedOnce
<1>8. BoundOnce'
  BY <1>1, <1>3 DEF AckInv, BoundOnce, Bound
<1>9. QED
  BY <1>1, <1>4, <1>5, <1>7, <1>8, TableStays DEF AckInv

(* A new sequence number is above all others.                              *)
LEMMA CheckCapacityStep ==
    ASSUME AckInv, NEW t \in Threads, NEW c \in Channels \cup {NoChannel}, CheckCapacity(t, c)
    PROVE  AckInv'
<1> DEFINE q == next_batch
<1>1. /\ channels' = channels /\ watermarks' = watermarks /\ handoff' = handoff /\ work' = work /\ left' = left
      /\ recordsEnqueued' = recordsEnqueued /\ ackSynced' = ackSynced /\ ackStarts' = ackStarts
      /\ given' = given /\ last' = last /\ receipts' = receipts
  BY DEF CheckCapacity, pipeVars, histVars
<1>2. ackReq \in [Threads -> ReqType] /\ q \in Nat \ {0} /\ MaxBatches \in Nat
  BY ReqTyped, AckTableAssumption DEF AckInv, AckTypeOK
<1>3. Ids' /\ Floors' /\ Marks'
  BY <1>1, TableStays
<1>4. CASE c = NoChannel \/ HasCapacity(c)
  <2> DEFINE r == [Idle EXCEPT !.at = "send", !.channel = c, !.seq = q]
  <2>1. q <= MaxBatches /\ next_batch' = q + 1 /\ ackReq' = [ackReq EXCEPT ![t] = r]
    BY <1>4 DEF CheckCapacity
  <2>2. r \in ReqType /\ r.at = "send" /\ r.channel = c /\ r.seq = q
    BY <1>2 DEF Idle, ReqType, AckRequestSteps
  <2> HIDE DEF r
  <2>3. ackReq' \in [Threads -> ReqType] /\ ackReq'[t] = r /\ \A u \in Threads : u # t => ackReq'[u] = ackReq[u]
    BY <1>2, <2>1, <2>2
  <2>4. AckTypeOK'
    BY <1>1, <1>2, <2>1, <2>3 DEF AckInv, AckTypeOK, ReqType
  <2>5. Shapes'
    BY <1>1, <2>2, <2>3 DEF AckInv, Shapes
  <2>6. q \in Seqs
    BY <1>2, <2>1 DEF Seqs
  <2>7. next_batch' \in Nat /\ \A n \in Nat : n < next_batch => n < next_batch' /\ n # q
    BY <1>2, <2>1
  <2>8. q < next_batch'
    BY <1>2, <2>1
  <2>9. \A d \in Channels : \A i \in 1 .. Len(given[d]) : given[d][i] \in Nat /\ given[d][i] < next_batch
    BY Elements DEF AckInv, IssuedOnce, Seqs
  <2>10. \A u \in Threads : ackReq[u].seq \in Nat
    BY <1>2 DEF ReqType
  <2>11. IssuedOnce'
    <3>1. ASSUME NEW u \in Threads, Waiting(u)'
          PROVE  /\ ackReq'[u].seq \in Seqs /\ ackReq'[u].seq < next_batch'
                 /\ \A d \in Channels : \A i \in 1 .. Len(given[d]) : given[d][i] # ackReq'[u].seq
      <4>1. CASE u = t
        BY <2>2, <2>3, <2>6, <2>7, <2>8, <2>9, <4>1
      <4>2. CASE u # t
        BY <2>3, <2>7, <2>10, <3>1, <4>2 DEF AckInv, IssuedOnce, Waiting
      <4>3. QED
        BY <4>1, <4>2
    <3>2. ASSUME NEW u \in Threads, NEW w \in Threads, Waiting(u)', Waiting(w)', ackReq'[u].seq = ackReq'[w].seq
          PROVE  u = w
      <4>1. \A x \in Threads : x # t /\ Waiting(x)' => Waiting(x) /\ ackReq'[x].seq # q /\ ackReq'[x].seq = ackReq[x].seq
        BY <2>3, <2>7, <2>10 DEF AckInv, IssuedOnce, Waiting
      <4>2. QED
        BY <2>2, <2>3, <3>2, <4>1 DEF AckInv, IssuedOnce
    <3>3. \A d \in Channels : \A i \in 1 .. Len(given[d]) : given[d][i] < next_batch'
      BY <2>7, <2>9
    <3>4. QED
      BY <1>1, <3>1, <3>2, <3>3 DEF AckInv, IssuedOnce
  <2>12. BoundOnce'
    <3>1. \A i \in 1 .. Len(handoff) : handoff[i] \in Nat /\ handoff[i] < next_batch
      BY Elements DEF AckInv, BoundOnce, Seqs
    <3>2. work \in Nat /\ (work # 0 => work < next_batch)
      BY DEF AckInv, AckTypeOK, BoundOnce
    <3>3. \A s \in Seqs : Bound(s) => s \in Nat /\ s < next_batch
      BY DEF AckInv, BoundOnce, Seqs
    <3>4. ~Bound(q)
      BY <2>6, <2>7, <3>3
    <3>5. \A s : Bound(s)' <=> Bound(s)
      BY <1>1 DEF Bound
    <3>6. ASSUME NEW u \in Threads, ackReq'[u].at = "send"
          PROVE  /\ ackReq'[u].seq # work /\ ~Bound(ackReq'[u].seq)
                 /\ \A i \in 1 .. Len(handoff) : handoff[i] # ackReq'[u].seq
      <4>1. CASE u = t
        BY <1>2, <2>2, <2>3, <2>7, <3>1, <3>2, <3>4, <3>5, <4>1
      <4>2. CASE u # t
        BY <2>3, <3>6, <4>2 DEF AckInv, BoundOnce
      <4>3. QED
        BY <4>1, <4>2
    <3>7. /\ \A i \in 1 .. Len(handoff) : handoff[i] < next_batch'
          /\ work # 0 => work < next_batch'
          /\ \A s \in Seqs : Bound(s) => s < next_batch'
      BY <2>7, <3>1, <3>2, <3>3
    <3>8. ~Bound(work) \/ work = 0
      BY DEF AckInv, BoundOnce
    <3>9. \A i \in 1 .. Len(handoff) : handoff[i] # work /\ ~Bound(handoff[i])
      BY DEF AckInv, BoundOnce
    <3>10. \A i, j \in 1 .. Len(handoff) : handoff[i] = handoff[j] => i = j
      BY DEF AckInv, BoundOnce
    <3>11. QED
      BY <1>1, <3>5, <3>6, <3>7, <3>8, <3>9, <3>10 DEF BoundOnce
  <2>13. SeenIsPast'
    BY <1>1, <2>2, <2>3 DEF AckInv, SeenIsPast
  <2>14. QED
    BY <1>3, <2>4, <2>5, <2>11, <2>12, <2>13 DEF AckInv
<1>5. CASE ~(c = NoChannel \/ HasCapacity(c))
  <2> DEFINE r == [Idle EXCEPT !.at = "refused", !.channel = c]
  <2>1. next_batch' = next_batch /\ ackReq' = [ackReq EXCEPT ![t] = r]
    BY <1>5 DEF CheckCapacity
  <2>2. r \in ReqType /\ r.at = "refused"
    BY DEF Idle, ReqType, AckRequestSteps
  <2> HIDE DEF r
  <2>3. UNCHANGED <<channels, watermarks, next_batch, pipeVars, ackStarts, given, last>>
    BY <2>1 DEF CheckCapacity, histVars
  <2>4. QED
    BY <2>1, <2>2, <2>3, RequestMoves
<1>6. QED
  BY <1>4, <1>5

(* The batch is dropped.                                                   *)
LEMMA AckBusyStep ==
    ASSUME AckInv, NEW t \in Threads, AckBusy(t)
    PROVE  AckInv'
<1> DEFINE r == [ackReq[t] EXCEPT !.at = "refused"]
<1>1. ackReq[t] \in ReqType
  BY ReqTyped
<1>2. ackReq' = [ackReq EXCEPT ![t] = r]
  BY DEF AckBusy, AckGoto
<1>3. r \in ReqType /\ r.at = "refused"
  BY <1>1 DEF ReqType, AckRequestSteps
<1> HIDE DEF r
<1>4. UNCHANGED <<channels, watermarks, next_batch, pipeVars, ackStarts, given, last>>
  BY DEF AckBusy, tableVars, histVars
<1>5. QED
  BY <1>2, <1>3, <1>4, RequestMoves

(* The count is loaded.                                                    *)
LEMMA LoadSyncedStep ==
    ASSUME AckInv, NEW t \in Threads, LoadSynced(t)
    PROVE  AckInv'
<1> DEFINE r == [ackReq[t] EXCEPT !.at = "issue", !.seen = ackSynced]
<1>1. ackReq[t] \in ReqType /\ ackSynced \in Nat /\ ackReq[t].at = "load"
  BY ReqTyped DEF LoadSynced, AckInv, AckTypeOK
<1>2. ackReq' = [ackReq EXCEPT ![t] = r]
  BY DEF LoadSynced
<1>3. r \in ReqType /\ r.at = "issue" /\ r.seq = ackReq[t].seq /\ r.channel = ackReq[t].channel /\ r.seen = ackSynced
  BY <1>1 DEF ReqType, AckRequestSteps
<1> HIDE DEF r
<1>4. UNCHANGED <<channels, watermarks, next_batch, pipeVars, ackStarts, given, last>>
  BY DEF LoadSynced, tableVars, histVars
<1>5. Waiting(t) /\ r.channel \in Channels /\ r.seen <= ackSynced
  BY <1>1, <1>3 DEF Waiting, AckInv, Shapes
<1>6. QED
  BY <1>2, <1>3, <1>4, <1>5, RequestMoves

(* The request ends.                                                       *)
LEMMA ReplyStep ==
    ASSUME AckInv, NEW t \in Threads, Reply(t)
    PROVE  AckInv'
<1>1. Idle \in ReqType /\ Idle.at = "idle"
  BY DEF Idle, ReqType, AckRequestSteps
<1>2. ackReq' = [ackReq EXCEPT ![t] = Idle]
  BY DEF Reply
<1>3. UNCHANGED <<channels, watermarks, next_batch, pipeVars, ackStarts, given, last>>
  BY DEF Reply, tableVars
<1>4. QED
  BY <1>1, <1>2, <1>3, RequestMoves

(* The batch passes from its request to the channel of the record path.    *)
LEMMA AcceptedStep ==
    ASSUME AckInv, NEW t \in Threads, Accepted(t)
    PROVE  AckInv'
<1> DEFINE q == ackReq[t].seq
<1> DEFINE s == IF ackReq[t].channel = NoChannel THEN "reply" ELSE "load"
<1> DEFINE r == [ackReq[t] EXCEPT !.at = s]
<1>1. /\ channels' = channels /\ watermarks' = watermarks /\ next_batch' = next_batch
      /\ work' = work /\ left' = left
      /\ recordsEnqueued' = recordsEnqueued /\ ackSynced' = ackSynced /\ ackStarts' = ackStarts
      /\ given' = given /\ last' = last /\ handoff' = Append(handoff, q)
      /\ ackReq[t].at = "send" /\ ackReq' = [ackReq EXCEPT ![t] = r]
  BY DEF Accepted, AckGoto, tableVars, histVars
<1>2. ackReq \in [Threads -> ReqType] /\ ackReq[t] \in ReqType
  BY ReqTyped
<1>3. r \in ReqType /\ r.at = s /\ r.seq = q /\ r.channel = ackReq[t].channel
  BY <1>2 DEF ReqType, AckRequestSteps
<1>4. s \in {"load", "reply"} /\ (s = "load" => ackReq[t].channel \in Channels)
  BY <1>2 DEF ReqType
<1> HIDE DEF r, s
<1>5. ackReq' \in [Threads -> ReqType] /\ ackReq'[t] = r /\ \A u \in Threads : u # t => ackReq'[u] = ackReq[u]
  BY <1>1, <1>2, <1>3
<1>6. q \in Seqs /\ q < next_batch /\ q # work /\ ~Bound(q) /\ \A i \in 1 .. Len(handoff) : handoff[i] # q
  BY <1>1 DEF AckInv, IssuedOnce, BoundOnce, Waiting
<1>7. handoff \in Seq(Seqs) /\ Len(handoff) \in Nat /\ \A i \in 1 .. Len(handoff) : handoff[i] \in Seqs
  BY Elements
<1> DEFINE h == Append(handoff, q)
<1>8. /\ h \in Seq(Seqs) /\ Len(h) = Len(handoff) + 1 /\ h[Len(handoff) + 1] = q
      /\ \A i \in 1 .. Len(handoff) : h[i] = handoff[i]
  BY <1>6, <1>7
<1>9. \A i \in 1 .. Len(h) : i \in 1 .. Len(handoff) \/ i = Len(handoff) + 1
  BY <1>7, <1>8
<1>10. handoff' = h
  BY <1>1
<1> HIDE DEF h, q
<1>11. AckTypeOK'
  BY <1>1, <1>5, <1>8, <1>10 DEF AckInv, AckTypeOK, ReqType, Seqs
<1>12. Shapes' /\ SeenIsPast'
  BY <1>1, <1>3, <1>4, <1>5 DEF AckInv, Shapes, SeenIsPast
<1>13. \A u \in Threads : Waiting(u)' => Waiting(u) /\ ackReq'[u].seq = ackReq[u].seq
  BY <1>1, <1>3, <1>5 DEF Waiting, q
<1>14. IssuedOnce'
  <2>1. ASSUME NEW u \in Threads, Waiting(u)'
        PROVE  /\ ackReq'[u].seq \in Seqs /\ ackReq'[u].seq < next_batch
               /\ \A d \in Channels : \A i \in 1 .. Len(given[d]) : given[d][i] # ackReq'[u].seq
    BY <1>13, <2>1 DEF AckInv, IssuedOnce
  <2>2. \A u, w \in Threads : Waiting(u)' /\ Waiting(w)' /\ ackReq'[u].seq = ackReq'[w].seq => u = w
    BY <1>13 DEF AckInv, IssuedOnce
  <2>3. QED
    BY <1>1, <2>1, <2>2 DEF AckInv, IssuedOnce
<1>15. BoundOnce'
  <2>1. ASSUME NEW u \in Threads, ackReq'[u].at = "send"
        PROVE  /\ ackReq'[u].seq # work /\ ~Bound(ackReq'[u].seq)
               /\ \A i \in 1 .. Len(h) : h[i] # ackReq'[u].seq
    <3>1. u # t /\ ackReq'[u] = ackReq[u] /\ ackReq[u].at = "send"
      BY <1>3, <1>4, <1>5, <2>1
    <3>2. ackReq[u].seq # q
      BY <1>1, <3>1 DEF AckInv, IssuedOnce, Waiting, q
    <3>3. QED
      BY <1>8, <1>9, <3>1, <3>2 DEF AckInv, BoundOnce
  <2>2. \A i \in 1 .. Len(h) : h[i] # work /\ ~Bound(h[i]) /\ h[i] < next_batch
    BY <1>6, <1>8, <1>9 DEF AckInv, BoundOnce
  <2>3. \A i, j \in 1 .. Len(h) : h[i] = h[j] => i = j
    BY <1>6, <1>8, <1>9 DEF AckInv, BoundOnce
  <2>4. \A x : Bound(x)' <=> Bound(x)
    BY <1>1 DEF Bound
  <2>5. (work # 0 => ~Bound(work) /\ work < next_batch) /\ \A x \in Seqs : Bound(x) => x < next_batch
    BY DEF AckInv, BoundOnce
  <2>6. QED
    BY <1>1, <1>10, <2>1, <2>2, <2>3, <2>4, <2>5 DEF BoundOnce
<1>16. QED
  BY <1>1, <1>11, <1>12, <1>14, <1>15, TableStays DEF AckInv

(* Every nonempty set of numbers has a least element.                      *)
LEMMA MinExists ==
    ASSUME NEW S \in SUBSET Nat, S # {}
    PROVE  \E m \in S : \A i \in S : m <= i
<1>1. PICK m \in S : \A y \in S : ~(<<y, m>> \in OpToRel(<, Nat))
  BY NatLessThanWellFounded, WFMin
<1>2. \A y \in S : ~(y < m)
  BY <1>1 DEF OpToRel
<1>3. QED
  BY <1>2

(* The new floor is the first id that is not durable.                      *)
LEMMA FloorMeans ==
    ASSUME NEW chan, NEW s, chan.durable_floor \in Nat, chan.next_id \in Nat,
           chan.durable_floor <= chan.next_id,
           DOMAIN chan.pending = chan.durable_floor .. chan.next_id - 1
    PROVE  /\ NewFloor(chan, s) \in chan.durable_floor .. chan.next_id
           /\ \A g \in chan.durable_floor .. NewFloor(chan, s) - 1 : AckDurable(chan.pending[g], s)
<1> DEFINE lo == chan.durable_floor
           hi == chan.next_id
           S == {f \in lo .. hi : f = hi \/ ~AckDurable(chan.pending[f], s)}
           P(f) == /\ f = chan.next_id \/ (f \in DOMAIN chan.pending /\ ~AckDurable(chan.pending[f], s))
                   /\ \A g \in chan.durable_floor .. f - 1 :
                         g \in DOMAIN chan.pending => AckDurable(chan.pending[g], s)
<1>1. S \in SUBSET Nat /\ hi \in S
  OBVIOUS
<1>2. PICK m \in S : \A i \in S : m <= i
  BY <1>1, MinExists
<1>3. m \in lo .. hi /\ (m = hi \/ ~AckDurable(chan.pending[m], s))
  OBVIOUS
<1>4. ASSUME NEW g \in lo .. m - 1 PROVE AckDurable(chan.pending[g], s)
  <2>1. g \in lo .. hi /\ g # hi /\ ~(m <= g)
    BY <1>3
  <2>2. g \notin S
    BY <1>2, <2>1
  <2>3. QED
    BY <2>1, <2>2
<1>5. \E f \in chan.durable_floor .. chan.next_id : P(f)
  <2>1. P(m)
    BY <1>3, <1>4
  <2>2. QED
    BY <1>3, <2>1
<1>6. NewFloor(chan, s) = CHOOSE f \in chan.durable_floor .. chan.next_id : P(f)
  BY DEF NewFloor
<1>7. NewFloor(chan, s) \in chan.durable_floor .. chan.next_id /\ P(NewFloor(chan, s))
  <2> HIDE DEF P
  <2>1. QED
    BY <1>5, <1>6
<1>8. \A g \in chan.durable_floor .. NewFloor(chan, s) - 1 : g \in DOMAIN chan.pending
  BY <1>7
<1>9. QED
  BY <1>7, <1>8

(* What issue does to the channel and to the watermarks, in terms of the   *)
(* ids given: the ids from the old floor to the new one are durable, and   *)
(* their watermarks are the ones dropped.                                  *)
Issued(t, f) ==
    LET c == ackReq[t].channel
        n == channels[c].next_id
        lo == channels[c].durable_floor
    IN  /\ f \in lo .. n + 1
        /\ channels' \in [Channels -> Chan]
        /\ \A d \in Channels : d # c => channels'[d] = channels[d] /\ given'[d] = given[d]
        /\ channels'[c].next_id = n + 1
        /\ channels'[c].durable_floor = f
        /\ DOMAIN channels'[c].pending = f .. n
        /\ \A i \in f .. n : channels'[c].pending[i] = given'[c][i + 1]
        /\ given' \in [Channels -> Seq(Seqs)]
        /\ Len(given'[c]) = n + 1
        /\ \A i \in 1 .. n : given'[c][i] = given[c][i]
        /\ given'[c][n + 1] = ackReq[t].seq
        /\ \A i \in lo .. f - 1 : AckDurable(given'[c][i + 1], ackReq[t].seen)
        /\ watermarks' = TakenOut(watermarks, {given'[c][i + 1] : i \in lo .. f - 1})

(* Issue does what Issued says.                                            *)
LEMMA IssueEffect ==
    ASSUME AckInv, NEW t \in Threads, Issue(t)
    PROVE  \E f \in Nat : Issued(t, f)
<1> DEFINE c == ackReq[t].channel
           q == ackReq[t].seq
           s == ackReq[t].seen
           old == channels[c]
           n == old.next_id
           lo == old.durable_floor
           P == [i \in DOMAIN old.pending \cup {old.next_id} |->
                                               IF i = old.next_id THEN ackReq[t].seq ELSE old.pending[i]]
           chan == [old EXCEPT !.next_id = @ + 1, !.pending = P]
           f == NewFloor(chan, s)
           new == Retired(chan, s)
           gone == {chan.pending[i] : i \in DOMAIN chan.pending \ DOMAIN new.pending}
<1>1. /\ ackReq[t].at = "issue"
      /\ channels' = [channels EXCEPT ![c] = new]
      /\ watermarks' = TakenOut(watermarks, gone)
      /\ given' = [given EXCEPT ![c] = Append(@, q)]
  BY DEF Issue
<1>2. c \in Channels /\ old \in Chan /\ given[c] \in Seq(Seqs) /\ q \in Seqs
  BY <1>1 DEF AckInv, Shapes, IssuedOnce, Waiting
<1>3. n \in Nat /\ lo \in Nat /\ lo <= n /\ DOMAIN old.pending = lo .. n - 1
      /\ (\A i \in lo .. n - 1 : old.pending[i] \in Seqs)
  <2>1. /\ n \in Nat /\ lo \in 0 .. n /\ DOMAIN old.pending = lo .. n - 1
        /\ \A i \in DOMAIN old.pending : old.pending[i] \in Seqs
    BY <1>2, Zenon DEF AckInv, AckTypeOK, Seqs
  <2>2. QED
    BY <2>1
<1>4. Len(given[c]) = n /\ \A i \in lo .. n - 1 : old.pending[i] = given[c][i + 1]
  BY <1>2, <1>3 DEF AckInv, Ids
<1>5. /\ DOMAIN P = lo .. n
      /\ \A i \in lo .. n : P[i] = IF i = n THEN q ELSE old.pending[i]
  BY <1>3
<1>6. /\ chan.next_id = n + 1 /\ chan.durable_floor = lo /\ chan.pending = P
  BY <1>2 DEF Chan
<1>7. f \in lo .. n + 1 /\ \A g \in lo .. f - 1 : AckDurable(P[g], s)
  <2>1. DOMAIN chan.pending = chan.durable_floor .. chan.next_id - 1
    BY <1>3, <1>5, <1>6
  <2>2. chan.durable_floor \in Nat /\ chan.next_id \in Nat /\ chan.durable_floor <= chan.next_id
    BY <1>3, <1>6
  <2> HIDE DEF chan, P
  <2>3. QED
    BY <1>6, <2>1, <2>2, FloorMeans
<1>8. new = [next_id |-> n + 1, durable_floor |-> f, pending |-> TakenOut(P, lo .. f - 1)]
  <2> HIDE DEF chan, P
  <2>1. QED
    BY <1>6 DEF Retired
<1> HIDE DEF chan, f, new, P
<1> DEFINE pend == TakenOut(P, lo .. f - 1)
<1>9. DOMAIN pend = f .. n /\ \A i \in f .. n : pend[i] = P[i]
  <2>1. (lo .. n) \ (lo .. f - 1) = f .. n
    BY <1>3, <1>7
  <2>2. QED
    BY <1>5, <2>1 DEF TakenOut
<1>10. \A i \in lo .. n : P[i] \in Seqs
  BY <1>2, <1>3, <1>5
<1>11. pend \in [f .. n -> Seqs]
  <2>1. \A i \in f .. n : pend[i] \in Seqs
    BY <1>3, <1>7, <1>9, <1>10
  <2>2. pend = [i \in f .. n |-> pend[i]]
    BY <1>9 DEF TakenOut
  <2> HIDE DEF pend
  <2>3. QED
    BY <1>9, <2>1, <2>2
<1>12. f \in Nat /\ n + 1 \in Nat
  BY <1>3, <1>7
<1>13. new \in Chan
  <2>1. f .. n \in SUBSET Nat
    BY <1>3, <1>12
  <2> HIDE DEF pend
  <2>2. pend \in UNION {[D -> Seqs] : D \in SUBSET Nat}
    BY <1>11, <2>1
  <2>3. QED
    BY <1>8, <1>12, <2>2 DEF Chan, pend
<1>14. DOMAIN chan.pending \ DOMAIN new.pending = lo .. f - 1
  <2>1. new.pending = pend
    BY <1>8
  <2>2. (lo .. n) \ (f .. n) = lo .. f - 1
    BY <1>3, <1>7
  <2> HIDE DEF pend
  <2>3. QED
    BY <1>5, <1>6, <1>9, <2>1, <2>2
<1> DEFINE h == Append(given[c], q)
<1>15. h \in Seq(Seqs) /\ Len(h) = n + 1 /\ h[n + 1] = q /\ \A i \in 1 .. n : h[i] = given[c][i]
  BY <1>2, <1>4
<1> HIDE DEF h
<1>16. \A i \in lo .. n : P[i] = h[i + 1]
  BY <1>3, <1>4, <1>5, <1>15
<1>17. gone = {h[i + 1] : i \in lo .. f - 1}
  <2>1. \A i \in lo .. f - 1 : i \in lo .. n
    BY <1>3, <1>7
  <2>2. \A i \in lo .. f - 1 : chan.pending[i] = h[i + 1]
    BY <1>6, <1>16, <2>1
  <2>3. QED
    BY <1>14, <2>2
<1>18. /\ channels \in [Channels -> Chan] /\ given \in [Channels -> Seq(Seqs)]
  BY DEF AckInv, Shapes
<1>19. /\ given' \in [Channels -> Seq(Seqs)] /\ given'[c] = h
       /\ \A d \in Channels : d # c => given'[d] = given[d]
  <2>1. given' = [given EXCEPT ![c] = h]
    BY <1>1 DEF h
  <2>2. QED
    BY <1>2, <1>15, <1>18, <2>1
<1>20. /\ channels' \in [Channels -> Chan] /\ channels'[c] = new
       /\ \A d \in Channels : d # c => channels'[d] = channels[d]
  BY <1>1, <1>2, <1>13, <1>18
<1>21. /\ channels'[c].next_id = n + 1 /\ channels'[c].durable_floor = f /\ channels'[c].pending = pend
  BY <1>8, <1>20
<1>22. \A i \in f .. n : pend[i] = h[i + 1]
  <2>1. \A i \in f .. n : i \in lo .. n
    BY <1>3, <1>7
  <2>2. QED
    BY <1>9, <1>16, <2>1
<1>23. \A i \in lo .. f - 1 : AckDurable(h[i + 1], s)
  <2>1. \A i \in lo .. f - 1 : i \in lo .. n
    BY <1>3, <1>7
  <2>2. QED
    BY <1>7, <1>16, <2>1
<1>24. watermarks' = TakenOut(watermarks, {h[i + 1] : i \in lo .. f - 1})
  BY <1>1, <1>17
<1> HIDE DEF pend
<1>25. Issued(t, f)
  BY <1>7, <1>9, <1>15, <1>19, <1>20, <1>21, <1>22, <1>23, <1>24 DEF Issued
<1>26. QED
  BY <1>12, <1>25

(* An id is issued: the ids retired with it are on disk, since the count   *)
(* it was retired by was published.                                        *)
LEMMA IssueStep ==
    ASSUME AckInv, NEW t \in Threads, Issue(t)
    PROVE  AckInv'
<1> DEFINE c == ackReq[t].channel
           q == ackReq[t].seq
           n == channels[c].next_id
           lo == channels[c].durable_floor
           r == [ackReq[t] EXCEPT !.at = "reply", !.id = n]
<1>1. PICK f \in Nat : Issued(t, f)
  BY IssueEffect
<1>2. /\ next_batch' = next_batch /\ handoff' = handoff /\ work' = work /\ left' = left
      /\ recordsEnqueued' = recordsEnqueued /\ ackSynced' = ackSynced /\ ackStarts' = ackStarts
      /\ last' = last /\ ackReq[t].at = "issue" /\ ackReq' = [ackReq EXCEPT ![t] = r]
  BY DEF Issue, pipeVars
<1>3. c \in Channels /\ q \in Seqs /\ q < next_batch /\ q \in Nat
  BY <1>2 DEF AckInv, Shapes, IssuedOnce, Waiting, Seqs
<1>4. /\ n \in Nat /\ lo \in Nat /\ lo <= n /\ Len(given[c]) = n
  <2>1. n \in Nat /\ lo \in 0 .. n /\ Len(given[c]) = n
    BY <1>3, Zenon DEF AckInv, AckTypeOK, Ids
  <2>2. QED
    BY <2>1
<1>5. ackReq[t] \in ReqType /\ ackReq \in [Threads -> ReqType]
  BY ReqTyped
<1>6. r \in ReqType /\ r.at = "reply"
  BY <1>4, <1>5 DEF ReqType, AckRequestSteps
<1> HIDE DEF r
<1>7. ackReq' \in [Threads -> ReqType] /\ ackReq'[t] = r /\ \A u \in Threads : u # t => ackReq'[u] = ackReq[u]
  BY <1>2, <1>5, <1>6
<1> DEFINE g == given'
<1>8. /\ f \in lo .. n + 1
      /\ channels' \in [Channels -> Chan] /\ g \in [Channels -> Seq(Seqs)]
      /\ \A d \in Channels : d # c => channels'[d] = channels[d] /\ g[d] = given[d]
      /\ channels'[c].next_id = n + 1
      /\ channels'[c].durable_floor = f
      /\ DOMAIN channels'[c].pending = f .. n
      /\ \A i \in f .. n : channels'[c].pending[i] = g[c][i + 1]
      /\ Len(g[c]) = n + 1
      /\ \A i \in 1 .. n : g[c][i] = given[c][i]
      /\ g[c][n + 1] = q
  BY <1>1 DEF Issued
<1>9. /\ \A i \in lo .. f - 1 : AckDurable(g[c][i + 1], ackReq[t].seen)
      /\ watermarks' = TakenOut(watermarks, {g[c][i + 1] : i \in lo .. f - 1})
  BY <1>1 DEF Issued
<1> HIDE DEF g
<1>10. \A i \in 1 .. n + 1 : i \in 1 .. n \/ i = n + 1
  BY <1>4
<1>11. \A d \in Channels : \A i \in 1 .. Len(g[d]) : g[d][i] \in Seqs
  BY <1>8, ElementOfSeq
<1>12. AckTypeOK'
  <2>1. ASSUME NEW d \in Channels
        PROVE  /\ channels'[d].next_id \in Nat
               /\ channels'[d].durable_floor \in 0 .. channels'[d].next_id
               /\ DOMAIN channels'[d].pending = channels'[d].durable_floor .. channels'[d].next_id - 1
               /\ \A i \in DOMAIN channels'[d].pending : channels'[d].pending[i] \in 1 .. MaxBatches
    <3>1. CASE d = c
      <4>1. n + 1 \in Nat /\ f \in 0 .. n + 1 /\ f .. n = f .. (n + 1) - 1
        BY <1>4, <1>8
      <4>2. \A i \in f .. n : i + 1 \in 1 .. Len(g[c])
        BY <1>4, <1>8
      <4>3. \A i \in f .. n : channels'[c].pending[i] \in 1 .. MaxBatches
        BY <1>3, <1>8, <1>11, <4>2 DEF Seqs
      <4>4. QED
        BY <1>8, <3>1, <4>1, <4>3
    <3>2. CASE d # c
      BY <1>8, <3>2 DEF AckInv, AckTypeOK
    <3>3. QED
      BY <3>1, <3>2
  <2>2. DOMAIN watermarks' \subseteq DOMAIN watermarks /\ \A s \in DOMAIN watermarks' : watermarks'[s] = watermarks[s]
    BY <1>9 DEF TakenOut
  <2>3. DOMAIN watermarks' \subseteq 1 .. MaxBatches /\ \A s \in DOMAIN watermarks' : watermarks'[s] \in Nat
    BY <2>2 DEF AckInv, AckTypeOK
  <2>4. QED
    BY <1>2, <1>7, <2>1, <2>3 DEF AckInv, AckTypeOK, ReqType
<1>13. Shapes' /\ SeenIsPast'
  BY <1>2, <1>6, <1>7, <1>8 DEF AckInv, Shapes, SeenIsPast, g
<1>14. Ids'
  <2>1. ASSUME NEW d \in Channels
        PROVE  /\ Len(g[d]) = channels'[d].next_id
               /\ \A i \in DOMAIN channels'[d].pending : channels'[d].pending[i] = g[d][i + 1]
    <3>1. CASE d = c
      BY <1>8, <3>1
    <3>2. CASE d # c
      <4>1. channels'[d] = channels[d] /\ g[d] = given[d]
        BY <1>8, <3>2
      <4>2. /\ Len(given[d]) = channels[d].next_id
            /\ \A i \in DOMAIN channels[d].pending : channels[d].pending[i] = given[d][i + 1]
        BY DEF AckInv, Ids
      <4>3. QED
        BY <4>1, <4>2, Zenon
    <3>3. QED
      BY <3>1, <3>2
  <2>2. QED
    BY <2>1 DEF Ids, g
<1>15. Floors'
  <2>1. ASSUME NEW d \in Channels, NEW i \in 1 .. channels'[d].durable_floor
        PROVE  AckOnDisk(<<ackStarts, g[d][i]>>)
    <3>1. CASE d # c
      BY <1>8, <2>1, <3>1 DEF AckInv, Floors
    <3>2. CASE d = c /\ i <= lo
      <4>1. i \in 1 .. lo /\ i \in 1 .. n
        BY <1>4, <1>8, <2>1, <3>2
      <4>2. QED
        BY <1>3, <1>8, <3>2, <4>1 DEF AckInv, Floors
    <3>3. CASE d = c /\ ~(i <= lo)
      <4>1. i - 1 \in lo .. f - 1 /\ (i - 1) + 1 = i /\ i \in 1 .. Len(g[c])
        BY <1>4, <1>8, <2>1, <3>3
      <4>2. AckDurable(g[c][i], ackReq[t].seen)
        BY <1>9, <4>1
      <4>3. /\ g[c][i] \in DOMAIN watermarks /\ ackReq[t].seen >= watermarks[g[c][i]]
            /\ watermarks[g[c][i]] \in Nat /\ ackReq[t].seen \in Nat /\ ackSynced \in Nat
        BY <1>5, <4>2 DEF AckDurable, AckInv, AckTypeOK, ReqType
      <4>4. Bound(g[c][i]) /\ watermarks[g[c][i]] = last[<<ackStarts, g[c][i]>>]
        BY <4>3 DEF AckInv, Marks
      <4>5. ackReq[t].seen <= ackSynced
        BY <1>2 DEF AckInv, SeenIsPast
      <4>6. QED
        BY <3>3, <4>3, <4>4, <4>5 DEF AckOnDisk, Bound
    <3>4. QED
      BY <3>1, <3>2, <3>3
  <2>2. QED
    BY <1>2, <2>1 DEF Floors, AckOnDisk, g
<1>16. Marks'
  BY <1>2, <1>9 DEF AckInv, Marks, Bound, TakenOut
<1>17. IssuedOnce'
  <2>1. \A u \in Threads : Waiting(u)' => Waiting(u) /\ u # t /\ ackReq'[u].seq = ackReq[u].seq
    BY <1>6, <1>7 DEF Waiting
  <2>2. Waiting(t)
    BY <1>2 DEF Waiting
  <2>3. \A d \in Channels : \A i \in 1 .. Len(g[d]) :
           \/ i \in 1 .. Len(given[d]) /\ g[d][i] = given[d][i]
           \/ d = c /\ i = n + 1 /\ g[d][i] = q
    BY <1>4, <1>8, <1>10
  <2>4. \A d \in Channels : \A i \in 1 .. Len(given[d]) : given[d][i] # q /\ given[d][i] < next_batch
    BY <2>2 DEF AckInv, IssuedOnce
  <2>5. ASSUME NEW u \in Threads, Waiting(u)'
        PROVE  /\ ackReq'[u].seq \in Seqs /\ ackReq'[u].seq < next_batch
               /\ \A d \in Channels : \A i \in 1 .. Len(g[d]) : g[d][i] # ackReq'[u].seq
    <3>1. ackReq[u].seq # q
      BY <2>1, <2>2, <2>5 DEF AckInv, IssuedOnce
    <3>2. /\ ackReq[u].seq \in Seqs /\ ackReq[u].seq < next_batch
          /\ \A d \in Channels : \A i \in 1 .. Len(given[d]) : given[d][i] # ackReq[u].seq
      BY <2>1, <2>5 DEF AckInv, IssuedOnce
    <3>3. QED
      BY <2>1, <2>3, <2>5, <3>1, <3>2
  <2>6. \A u, w \in Threads : Waiting(u)' /\ Waiting(w)' /\ ackReq'[u].seq = ackReq'[w].seq => u = w
    BY <2>1 DEF AckInv, IssuedOnce
  <2>7. ASSUME NEW d \in Channels, NEW e \in Channels, NEW i \in 1 .. Len(g[d]), NEW j \in 1 .. Len(g[e]), g[d][i] = g[e][j]
        PROVE  d = e /\ i = j
    <3>1. CASE i \in 1 .. Len(given[d]) /\ g[d][i] = given[d][i] /\ j \in 1 .. Len(given[e]) /\ g[e][j] = given[e][j]
      <4>1. given[d][i] = given[e][j]
        BY <2>7, <3>1
      <4>2. QED
        BY <3>1, <4>1 DEF AckInv, IssuedOnce
    <3>2. QED
      BY <2>3, <2>4, <2>7, <3>1
  <2>8. \A d \in Channels : \A i \in 1 .. Len(g[d]) : g[d][i] < next_batch
    BY <1>3, <2>3, <2>4
  <2>9. QED
    BY <1>2, <2>5, <2>6, <2>7, <2>8 DEF IssuedOnce, g
<1>18. BoundOnce'
  BY <1>2, <1>6, <1>7 DEF AckInv, BoundOnce, Bound
<1>19. QED
  BY <1>12, <1>13, <1>14, <1>15, <1>16, <1>17, <1>18 DEF AckInv

(* Parts that the record path and the writer do not touch.                 *)
LEMMA PipeMoves ==
    ASSUME AckInv, UNCHANGED <<channels, watermarks, next_batch, ackReq, given, last, ackStarts>>
    PROVE  Ids' /\ Marks' /\ IssuedOnce' /\ Shapes'
BY DEF AckInv, Ids, Marks, Bound, IssuedOnce, Waiting, Shapes

(* The batch passes from the channel into the record path's hand.          *)
LEMMA TakeBatchStep ==
    ASSUME AckInv, NEW k \in 0 .. AckBatchMax, TakeBatch(k)
    PROVE  AckInv'
<1> DEFINE h == Tail(handoff)
           b == Head(handoff)
<1>1. /\ channels' = channels /\ watermarks' = watermarks /\ next_batch' = next_batch /\ ackReq' = ackReq
      /\ recordsEnqueued' = recordsEnqueued /\ ackSynced' = ackSynced /\ ackStarts' = ackStarts
      /\ given' = given /\ last' = last
      /\ work = 0 /\ handoff # <<>> /\ work' = b /\ handoff' = h /\ left' = k
  BY DEF TakeBatch, tableVars, histVars
<1>2. handoff \in Seq(Seqs) /\ Len(handoff) \in Nat /\ \A i \in 1 .. Len(handoff) : handoff[i] \in Seqs
  BY Elements
<1>3. /\ h \in Seq(Seqs) /\ Len(h) = Len(handoff) - 1 /\ b = handoff[1] /\ 1 \in 1 .. Len(handoff)
      /\ \A i \in 1 .. Len(h) : h[i] = handoff[i + 1] /\ i + 1 \in 1 .. Len(handoff) /\ i + 1 # 1
  BY <1>1, <1>2
<1> HIDE DEF h, b
<1>4. b \in Seqs /\ b # 0 /\ ~Bound(b) /\ b < next_batch
  BY <1>2, <1>3 DEF AckInv, BoundOnce, Seqs
<1>5. \A i \in 1 .. Len(h) : h[i] # b /\ ~Bound(h[i]) /\ h[i] < next_batch
  BY <1>3 DEF AckInv, BoundOnce
<1>6. \A i, j \in 1 .. Len(h) : h[i] = h[j] => i = j
  <2>1. ASSUME NEW i \in 1 .. Len(h), NEW j \in 1 .. Len(h), h[i] = h[j] PROVE i = j
    <3>1. handoff[i + 1] = handoff[j + 1] /\ i + 1 \in 1 .. Len(handoff) /\ j + 1 \in 1 .. Len(handoff)
      BY <1>3, <2>1
    <3>2. i + 1 = j + 1
      BY <3>1 DEF AckInv, BoundOnce
    <3>3. QED
      BY <3>2
  <2>2. QED
    BY <2>1
<1>7. ASSUME NEW u \in Threads, ackReq[u].at = "send"
      PROVE  /\ ackReq[u].seq # b /\ ~Bound(ackReq[u].seq)
             /\ \A i \in 1 .. Len(h) : h[i] # ackReq[u].seq
  BY <1>3, <1>7 DEF AckInv, BoundOnce
<1>8. \A x : Bound(x)' <=> Bound(x)
  BY <1>1 DEF Bound
<1>9. \A x \in Seqs : Bound(x) => x < next_batch
  BY DEF AckInv, BoundOnce
<1>10. BoundOnce'
  BY <1>1, <1>4, <1>5, <1>6, <1>7, <1>8, <1>9 DEF BoundOnce
<1>11. AckTypeOK'
  BY <1>1, <1>3, <1>4 DEF AckInv, AckTypeOK, Seqs
<1>12. Floors' /\ SeenIsPast'
  BY <1>1 DEF AckInv, Floors, AckOnDisk, SeenIsPast
<1>13. QED
  BY <1>1, <1>10, <1>11, <1>12, PipeMoves DEF AckInv

(* A record is queued: nothing is bound or synced by it.                   *)
LEMMA SubmitRecordStep ==
    ASSUME AckInv, SubmitRecord
    PROVE  AckInv'
<1>1. /\ channels' = channels /\ watermarks' = watermarks /\ next_batch' = next_batch /\ ackReq' = ackReq
      /\ handoff' = handoff /\ work' = work /\ ackSynced' = ackSynced /\ ackStarts' = ackStarts
      /\ given' = given /\ last' = last /\ left > 0 /\ left' = left - 1 /\ recordsEnqueued' = recordsEnqueued + 1
  BY DEF SubmitRecord, tableVars, histVars
<1>2. left' \in 0 .. AckBatchMax /\ recordsEnqueued' \in Nat /\ ackSynced \in 0 .. recordsEnqueued'
  BY <1>1, AckTableAssumption DEF AckInv, AckTypeOK
<1>3. AckTypeOK'
  BY <1>1, <1>2 DEF AckInv, AckTypeOK
<1>4. Floors' /\ SeenIsPast' /\ BoundOnce'
  BY <1>1 DEF AckInv, Floors, AckOnDisk, SeenIsPast, BoundOnce, Bound
<1>5. QED
  BY <1>1, <1>3, <1>4, PipeMoves DEF AckInv

(* More is on disk: what was stays so.                                     *)
LEMMA PublishSyncedCountStep ==
    ASSUME AckInv, NEW k \in Nat, PublishSyncedCount(k)
    PROVE  AckInv'
<1>1. /\ channels' = channels /\ watermarks' = watermarks /\ next_batch' = next_batch /\ ackReq' = ackReq
      /\ handoff' = handoff /\ work' = work /\ left' = left /\ recordsEnqueued' = recordsEnqueued
      /\ ackStarts' = ackStarts /\ given' = given /\ last' = last
      /\ ackSynced < k /\ k <= recordsEnqueued /\ ackSynced' = k
  BY DEF PublishSyncedCount, tableVars, histVars
<1>2. ackSynced \in Nat /\ ackSynced' \in 0 .. recordsEnqueued
  BY <1>1 DEF AckInv, AckTypeOK
<1>3. AckTypeOK'
  BY <1>1, <1>2 DEF AckInv, AckTypeOK
<1>4. \A m \in Nat : m <= ackSynced => m <= ackSynced'
  BY <1>1, <1>2
<1>5. Floors'
  <2>1. \A b : AckOnDisk(b) => AckOnDisk(b)'
    BY <1>1, <1>4 DEF AckOnDisk, AckInv, Shapes
  <2>2. QED
    BY <1>1, <2>1 DEF AckInv, Floors
<1>6. SeenIsPast'
  <2>1. \A t \in Threads : ackReq[t].seen \in Nat
    BY ReqTyped DEF ReqType
  <2>2. QED
    BY <1>1, <1>4, <2>1 DEF AckInv, SeenIsPast
<1>7. BoundOnce'
  BY <1>1 DEF AckInv, BoundOnce, Bound
<1>8. QED
  BY <1>1, <1>3, <1>5, <1>6, <1>7, PipeMoves DEF AckInv

(* A batch is bound for the first time, at the count reached.              *)
LEMMA BindEffect ==
    ASSUME AckInv, Bind
    PROVE  /\ work \in Seqs /\ ~Bound(work) /\ work \notin DOMAIN watermarks
           /\ DOMAIN watermarks' = DOMAIN watermarks \cup {work} /\ watermarks'[work] = recordsEnqueued
           /\ \A s \in DOMAIN watermarks : watermarks'[s] = watermarks[s]
           /\ DOMAIN last' = DOMAIN last \cup {<<ackStarts, work>>} /\ last'[<<ackStarts, work>>] = recordsEnqueued
           /\ \A b \in DOMAIN last : last'[b] = last[b]
<1>1. /\ watermarks' = [s \in DOMAIN watermarks \cup {work} |-> IF s = work THEN recordsEnqueued ELSE watermarks[s]]
      /\ last' = [b \in DOMAIN last \cup {<<ackStarts, work>>} |-> IF b = <<ackStarts, work>> THEN recordsEnqueued ELSE last[b]]
      /\ work # 0
  BY DEF Bind
<1>2. work \in Seqs /\ ~Bound(work)
  BY <1>1, AckTableAssumption DEF AckInv, AckTypeOK, BoundOnce, Seqs
<1>3. work \notin DOMAIN watermarks
  BY <1>2 DEF AckInv, Marks
<1>4. <<ackStarts, work>> \notin DOMAIN last
  BY <1>2 DEF Bound
<1>5. QED
  BY <1>1, <1>2, <1>3, <1>4

(* The batch in hand is bound; no ack could have counted on it before.     *)
LEMMA BindStep ==
    ASSUME AckInv, Bind
    PROVE  AckInv'
<1>1. /\ channels' = channels /\ next_batch' = next_batch /\ ackReq' = ackReq
      /\ handoff' = handoff /\ work' = 0 /\ left' = left /\ recordsEnqueued' = recordsEnqueued
      /\ ackSynced' = ackSynced /\ ackStarts' = ackStarts /\ given' = given /\ work # 0
  BY DEF Bind
<1>2. /\ work \in Seqs /\ ~Bound(work) /\ work \notin DOMAIN watermarks
      /\ DOMAIN watermarks' = DOMAIN watermarks \cup {work} /\ watermarks'[work] = recordsEnqueued
      /\ \A s \in DOMAIN watermarks : watermarks'[s] = watermarks[s]
      /\ DOMAIN last' = DOMAIN last \cup {<<ackStarts, work>>} /\ last'[<<ackStarts, work>>] = recordsEnqueued
      /\ \A b \in DOMAIN last : last'[b] = last[b]
  BY BindEffect
<1>3. recordsEnqueued \in Nat /\ ackStarts \in 1 .. ackStarts
  BY AckTableAssumption DEF AckInv, AckTypeOK
<1>4. AckTypeOK'
  <2>1. DOMAIN watermarks' \subseteq 1 .. MaxBatches /\ \A s \in DOMAIN watermarks' : watermarks'[s] \in Nat
    BY <1>2, <1>3 DEF AckInv, AckTypeOK, Seqs
  <2>2. 0 \in 0 .. MaxBatches
    BY AckTableAssumption
  <2>3. QED
    BY <1>1, <2>1, <2>2 DEF AckInv, AckTypeOK
<1>5. Shapes'
  <2>1. (\A b \in DOMAIN last : last[b] \in Nat) /\ DOMAIN last \subseteq (1 .. ackStarts) \X Seqs
    BY DEF AckInv, Shapes
  <2>2. <<ackStarts, work>> \in (1 .. ackStarts) \X Seqs
    BY <1>2, <1>3
  <2>3. \A b \in DOMAIN last' : last'[b] \in Nat
    BY <1>2, <1>3, <2>1, Zenon
  <2>4. DOMAIN last' \subseteq (1 .. ackStarts) \X Seqs
    BY <1>2, <2>1, <2>2, Zenon
  <2>5. QED
    BY <1>1, <2>3, <2>4 DEF AckInv, Shapes
<1>6. \A b : AckOnDisk(b) => AckOnDisk(b)'
  BY <1>1, <1>2 DEF AckOnDisk
<1>7. Ids' /\ Floors' /\ SeenIsPast'
  BY <1>1, <1>6 DEF AckInv, Ids, Floors, SeenIsPast
<1>8. Marks'
  BY <1>1, <1>2 DEF AckInv, Marks, Bound
<1>9. IssuedOnce'
  BY <1>1 DEF AckInv, IssuedOnce, Waiting
<1>10. \A x : Bound(x)' => Bound(x) \/ x = work
  BY <1>1, <1>2 DEF Bound
<1>11. BoundOnce'
  <2>1. ASSUME NEW u \in Threads, ackReq[u].at = "send"
        PROVE  /\ ackReq[u].seq # 0 /\ ackReq[u].seq # work /\ ~Bound(ackReq[u].seq)
               /\ \A i \in 1 .. Len(handoff) : handoff[i] # ackReq[u].seq
    <3>1. ackReq[u].seq \in Seqs
      BY <2>1 DEF AckInv, IssuedOnce, Waiting
    <3>2. ackReq[u].seq # 0
      BY <3>1 DEF Seqs
    <3>3. QED
      BY <2>1, <3>2 DEF AckInv, BoundOnce
  <2>2. \A i \in 1 .. Len(handoff) : handoff[i] # 0 /\ handoff[i] # work /\ ~Bound(handoff[i]) /\ handoff[i] < next_batch
    BY Elements DEF AckInv, BoundOnce, Seqs
  <2>3. \A i, j \in 1 .. Len(handoff) : handoff[i] = handoff[j] => i = j
    BY DEF AckInv, BoundOnce
  <2>4. work < next_batch /\ \A x \in Seqs : Bound(x) => x < next_batch
    BY <1>1 DEF AckInv, BoundOnce
  <2>5. QED
    BY <1>1, <1>10, <2>1, <2>2, <2>3, <2>4 DEF BoundOnce
<1>12. QED
  BY <1>4, <1>5, <1>7, <1>8, <1>9, <1>11 DEF AckInv

(* An empty channel.                                                       *)
LEMMA NewChannelIsChan == NewChannel \in Chan
<1>1. <<>> \in [{} -> Seqs]
  OBVIOUS
<1>2. <<>> \in UNION {[D -> Seqs] : D \in SUBSET Nat}
  BY <1>1
<1>3. QED
  BY <1>2 DEF NewChannel, Chan

(* An empty table is in order, whatever is on disk from earlier processes. *)
Fresh ==
    /\ ackStarts \in 1 .. MaxAckStarts
    /\ channels = [c \in Channels |-> NewChannel] /\ watermarks = <<>> /\ next_batch = 1
    /\ ackReq = [t \in Threads |-> Idle] /\ handoff = <<>> /\ work = 0 /\ left = 0
    /\ recordsEnqueued = 0 /\ ackSynced = 0 /\ given = [c \in Channels |-> <<>>]
    /\ \A b \in DOMAIN last : last[b] \in Nat
    /\ DOMAIN last \subseteq (1 .. ackStarts) \X Seqs
    /\ \A s \in Seqs : ~Bound(s)

(* A fresh table satisfies the invariant.                                  *)
LEMMA FreshTable == Fresh => AckInv
<1> SUFFICES ASSUME Fresh PROVE AckInv
  OBVIOUS
<1> USE DEF Fresh
<1>1. Idle \in ReqType /\ Idle.at = "idle"
  BY DEF Idle, ReqType, AckRequestSteps
<1>2. \A t \in Threads : ackReq[t].at = "idle"
  BY <1>1
<1>3. ackReq \in [Threads -> ReqType]
  BY <1>1
<1>4. \A c \in Channels : channels[c] = NewChannel
  OBVIOUS
<1>5. NewChannel.next_id = 0 /\ NewChannel.durable_floor = 0 /\ DOMAIN NewChannel.pending = {} /\ NewChannel \in Chan
  BY NewChannelIsChan DEF NewChannel
<1>6. {} = 0 .. 0 - 1
  OBVIOUS
<1>7. DOMAIN watermarks = {} /\ handoff \in Seq(1 .. MaxBatches) /\ Len(handoff) = 0 /\ 1 .. Len(handoff) = {}
  OBVIOUS
<1>8. \A c \in Channels : given[c] = <<>> /\ Len(given[c]) = 0 /\ 1 .. Len(given[c]) = {}
  OBVIOUS
<1>9. AckTypeOK
  <2>1. \A c \in Channels :
          /\ channels[c].next_id \in Nat
          /\ channels[c].durable_floor \in 0 .. channels[c].next_id
          /\ DOMAIN channels[c].pending = channels[c].durable_floor .. channels[c].next_id - 1
          /\ \A i \in DOMAIN channels[c].pending : channels[c].pending[i] \in 1 .. MaxBatches
    <3> DEFINE k == NewChannel
    <3>1. /\ k.next_id \in Nat /\ k.durable_floor \in 0 .. k.next_id
          /\ DOMAIN k.pending = k.durable_floor .. k.next_id - 1
          /\ \A i \in DOMAIN k.pending : k.pending[i] \in 1 .. MaxBatches
      BY <1>5, <1>6
    <3> HIDE DEF k
    <3>2. \A c \in Channels : channels[c] = k
      BY <1>4 DEF k
    <3>3. QED
      BY <3>1, <3>2, Zenon
  <2>2. /\ 1 \in Nat \ {0} /\ 0 \in 0 .. MaxBatches /\ 0 \in 0 .. AckBatchMax /\ 0 \in Nat /\ 0 \in 0 .. 0
    BY AckTableAssumption
  <2>3. QED
    BY <1>3, <1>7, <2>1, <2>2 DEF AckTypeOK, ReqType
<1>10. Shapes
  <2>1. channels \in [Channels -> Chan] /\ given \in [Channels -> Seq(Seqs)]
    BY <1>5
  <2>2. QED
    BY <1>2, <2>1 DEF Shapes
<1>11. Ids /\ Floors /\ Marks
  <2>1. \A c \in Channels : 1 .. channels[c].durable_floor = {}
    BY <1>4, <1>5
  <2>2. QED
    BY <1>4, <1>5, <1>7, <1>8, <2>1 DEF Ids, Floors, Marks
<1>12. IssuedOnce /\ SeenIsPast
  BY <1>2, <1>8 DEF IssuedOnce, Waiting, SeenIsPast
<1>13. BoundOnce
  BY <1>2, <1>7 DEF BoundOnce
<1>14. QED
  BY <1>9, <1>10, <1>11, <1>12, <1>13 DEF AckInv

(* So does the first process's.                                            *)
LEMMA AckInitInv == AckInit => AckInv
<1> SUFFICES ASSUME AckInit PROVE AckInv
  OBVIOUS
<1>1. DOMAIN last = {}
  BY DEF AckInit
<1>2. 1 \in 1 .. MaxAckStarts
  BY AckTableAssumption
<1>3. \A s \in Seqs : ~Bound(s)
  BY <1>1 DEF Bound
<1>4. Fresh
  BY <1>1, <1>2, <1>3 DEF AckInit, Fresh
<1>5. QED
  BY <1>4, FreshTable

(* A restart: batches of earlier processes are never those of this one.    *)
LEMMA RestartStep ==
    ASSUME AckInv, Restart
    PROVE  AckInv'
<1>1. ackStarts \in Nat /\ ackStarts' = ackStarts + 1 /\ ackStarts' \in 1 .. MaxAckStarts
  BY AckTableAssumption DEF AckInv, AckTypeOK, Restart
<1>2. DOMAIN last' \subseteq DOMAIN last /\ \A b \in DOMAIN last' : last'[b] = 0
  BY DEF Restart
<1>3. DOMAIN last \subseteq (1 .. ackStarts) \X Seqs
  BY DEF AckInv, Shapes
<1>4. DOMAIN last' \subseteq (1 .. ackStarts') \X Seqs
  <2>1. 1 .. ackStarts \subseteq 1 .. ackStarts'
    BY <1>1
  <2>2. QED
    BY <1>2, <1>3, <2>1
<1>5. \A s \in Seqs : ~Bound(s)'
  <2>1. ackStarts' \notin 1 .. ackStarts
    BY <1>1
  <2>2. \A s \in Seqs : <<ackStarts', s>> \notin DOMAIN last
    BY <1>3, <2>1
  <2>3. QED
    BY <1>2, <2>2 DEF Bound
<1>6. \A b \in DOMAIN last' : last'[b] \in Nat
  BY <1>2
<1>7. /\ channels' = [c \in Channels |-> NewChannel] /\ watermarks' = <<>> /\ next_batch' = 1
      /\ ackReq' = [t \in Threads |-> Idle] /\ handoff' = <<>> /\ work' = 0 /\ left' = 0
      /\ recordsEnqueued' = 0 /\ ackSynced' = 0 /\ given' = [c \in Channels |-> <<>>]
  BY DEF Restart
<1>8. Fresh'
  BY <1>1, <1>4, <1>5, <1>6, <1>7 DEF Fresh
<1>9. Fresh' => AckInv'
  BY FreshTable, PTL
<1>10. QED
  BY <1>8, <1>9

(* Every step keeps the invariant.                                         *)
LEMMA AckStep == AckInv /\ [AckNext]_ackTableVars => AckInv'
<1> SUFFICES ASSUME AckInv, [AckNext]_ackTableVars PROVE AckInv'
  OBVIOUS
<1>1. ASSUME NEW t \in Threads, RequestNext(t) PROVE AckInv'
  BY <1>1, CheckCapacityStep, AcceptedStep, AckBusyStep, LoadSyncedStep, IssueStep, ReplyStep DEF RequestNext
<1>2. CASE RecordPath
  BY <1>2, TakeBatchStep, SubmitRecordStep, BindStep DEF RecordPath
<1>3. CASE Writer
  <2>1. PICK k \in 1 .. MaxBatches * AckBatchMax : PublishSyncedCount(k)
    BY <1>3 DEF Writer
  <2>2. k \in Nat
    BY AckTableAssumption
  <2>3. QED
    BY <2>1, <2>2, PublishSyncedCountStep
<1>4. CASE Restart
  BY <1>4, RestartStep
<1>5. CASE UNCHANGED ackTableVars
  <2>1. UNCHANGED <<channels, watermarks, next_batch, ackReq, given, last, ackStarts,
                    handoff, work, left, recordsEnqueued, ackSynced>>
    BY <1>5 DEF ackTableVars, tableVars, pipeVars, histVars
  <2>2. AckTypeOK' /\ Floors' /\ SeenIsPast' /\ BoundOnce'
    BY <2>1 DEF AckInv, AckTypeOK, Floors, AckOnDisk, SeenIsPast, BoundOnce, Bound
  <2>3. QED
    BY <2>1, <2>2, PipeMoves DEF AckInv
<1>6. QED
  BY <1>1, <1>2, <1>3, <1>4, <1>5 DEF AckNext

(* A batch that the table takes for durable is on disk.                    *)
LEMMA DurableIsOnDisk ==
    ASSUME AckInv, NEW s, AckDurable(s, ackSynced)
    PROVE  AckOnDisk(<<ackStarts, s>>)
<1>1. s \in DOMAIN watermarks /\ ackSynced >= watermarks[s] /\ ackSynced \in Nat /\ watermarks[s] \in Nat
  BY DEF AckDurable, AckInv, AckTypeOK
<1>2. Bound(s) /\ watermarks[s] = last[<<ackStarts, s>>]
  BY <1>1 DEF AckInv, Marks
<1>3. QED
  BY <1>1, <1>2 DEF Bound, AckOnDisk

(* The invariant gives the first half of the promise.                      *)
LEMMA AckInvMeans == AckInv => AckTypeOK /\ AnsweredIsDurable
<1> SUFFICES ASSUME AckInv, NEW c \in Channels, NEW i \in 1 .. Len(given[c]), Query(c, i - 1)
             PROVE  AckOnDisk(<<ackStarts, given[c][i]>>)
  BY DEF AckInv, AnsweredIsDurable
<1>1. /\ i \in Nat /\ i >= 1 /\ (i - 1) + 1 = i
  BY Elements
<1>2. CASE i - 1 < channels[c].durable_floor
  <2>1. channels[c].durable_floor \in Nat
    BY DEF AckInv, Shapes, Chan
  <2>2. i \in 1 .. channels[c].durable_floor
    BY <1>1, <1>2, <2>1
  <2>3. QED
    BY <2>2 DEF AckInv, Floors
<1>3. CASE i - 1 \in DOMAIN channels[c].pending /\ AckDurable(channels[c].pending[i - 1], ackSynced)
  <2>1. channels[c].pending[i - 1] = given[c][i]
    BY <1>1, <1>3 DEF AckInv, Ids
  <2>2. QED
    BY <1>3, <2>1, DurableIsOnDisk
<1>4. QED
  BY <1>2, <1>3 DEF Query

(* One step of AckNeverReverts.                                            *)
NoRevert ==
    ackStarts' = ackStarts =>
        \A c \in Channels : \A i \in 0 .. channels[c].next_id - 1 : Query(c, i) => Query(c, i)'

(* An answer stays when the channels do and no watermark is lost or moved. *)
LEMMA AnswersStay ==
    ASSUME AckInv, channels' = channels, ackSynced' \in Nat, ackSynced <= ackSynced',
           \A s \in DOMAIN watermarks : s \in DOMAIN watermarks' /\ watermarks'[s] = watermarks[s]
    PROVE  NoRevert
<1>1. ackSynced \in Nat /\ \A s \in DOMAIN watermarks : watermarks[s] \in Nat
  BY DEF AckInv, AckTypeOK
<1>2. ASSUME NEW s, AckDurable(s, ackSynced) PROVE AckDurable(s, ackSynced)'
  BY <1>1, <1>2 DEF AckDurable
<1>3. \A c \in Channels, i \in Nat : Query(c, i) => Query(c, i)'
  BY <1>2 DEF Query
<1>4. \A c \in Channels : \A i \in 0 .. channels[c].next_id - 1 : i \in Nat
  BY DEF AckInv, Shapes, Chan
<1>5. QED
  BY <1>3, <1>4 DEF NoRevert

(* issue retires only ids below the new floor, and drops the watermark of  *)
(* no id that stays pending.                                               *)
LEMMA IssueKeepsAnswers ==
    ASSUME AckInv, AckInv', NEW t \in Threads, Issue(t)
    PROVE  NoRevert
<1> DEFINE c == ackReq[t].channel
           n == channels[c].next_id
           lo == channels[c].durable_floor
           g == given'
<1>1. PICK f \in Nat : Issued(t, f)
  BY IssueEffect
<1>2. /\ f \in lo .. n + 1
      /\ \A d \in Channels : d # c => channels'[d] = channels[d]
      /\ channels'[c].durable_floor = f
      /\ DOMAIN channels'[c].pending = f .. n
      /\ \A i \in f .. n : channels'[c].pending[i] = g[c][i + 1]
      /\ Len(g[c]) = n + 1
      /\ \A i \in 1 .. n : g[c][i] = given[c][i]
      /\ \A d \in Channels : d # c => g[d] = given[d]
  BY <1>1 DEF Issued
<1>3. watermarks' = TakenOut(watermarks, {g[c][i + 1] : i \in lo .. f - 1})
  BY <1>1 DEF Issued
<1>4. c \in Channels
  BY DEF AckInv, Shapes, Issue
<1>5. n \in Nat /\ lo \in Nat /\ lo <= n /\ DOMAIN channels[c].pending = lo .. n - 1
  <2>1. n \in Nat /\ lo \in 0 .. n /\ DOMAIN channels[c].pending = lo .. n - 1
    BY <1>4, Zenon DEF AckInv, AckTypeOK
  <2>2. QED
    BY <2>1
<1>6. ackSynced' = ackSynced
  BY DEF Issue, pipeVars
<1>7. \A d, e \in Channels : \A i \in 1 .. Len(g[d]), j \in 1 .. Len(g[e]) : g[d][i] = g[e][j] => d = e /\ i = j
  BY DEF AckInv, IssuedOnce
<1> HIDE DEF g
<1>8. SUFFICES ASSUME NEW d \in Channels, NEW i \in 0 .. channels[d].next_id - 1, Query(d, i)
               PROVE  Query(d, i)'
  BY DEF NoRevert
<1>9. i \in Nat
  BY DEF AckInv, Shapes, Chan
<1>10. CASE i < channels[d].durable_floor
  <2>1. i < channels'[d].durable_floor
    <3>1. CASE d = c
      BY <1>2, <1>5, <1>9, <1>10, <3>1
    <3>2. CASE d # c
      BY <1>2, <1>10, <3>2
    <3>3. QED
      BY <3>1, <3>2
  <2>2. QED
    BY <2>1 DEF Query
<1>11. CASE i \in DOMAIN channels[d].pending /\ AckDurable(channels[d].pending[i], ackSynced)
  <2>0. PICK b : b = given[d][i + 1]
    OBVIOUS
  <2>1. channels[d].pending[i] = b /\ Len(given[d]) = channels[d].next_id
    BY <1>11, <2>0 DEF AckInv, Ids
  <2>2. i + 1 \in 1 .. Len(given[d])
    BY <1>9, <2>1 DEF AckInv, Shapes, Chan
  <2>3. b \in DOMAIN watermarks /\ ackSynced >= watermarks[b]
    BY <1>11, <2>1 DEF AckDurable
  <2>4. g[d][i + 1] = b /\ i + 1 \in 1 .. Len(g[d])
    <3>1. CASE d = c
      <4>1. i + 1 \in 1 .. n
        BY <2>1, <2>2, <3>1
      <4>2. i + 1 \in 1 .. n + 1 /\ Len(g[c]) = n + 1 /\ g[c][i + 1] = given[c][i + 1]
        BY <1>2, <1>5, <4>1
      <4>3. QED
        BY <2>0, <3>1, <4>2
    <3>2. CASE d # c
      BY <1>2, <2>0, <2>2, <3>2
    <3>3. QED
      BY <3>1, <3>2
  <2>5. \A k \in lo .. f - 1 : k + 1 \in 1 .. Len(g[c])
    BY <1>2, <1>5
  <2>6. ASSUME ~(d = c /\ i < f) PROVE AckDurable(b, ackSynced)'
    <3>1. ASSUME NEW k \in lo .. f - 1, g[c][k + 1] = b PROVE FALSE
      <4>1. c = d /\ k + 1 = i + 1
        BY <1>4, <1>7, <2>4, <2>5, <3>1
      <4>2. QED
        BY <1>5, <1>9, <2>6, <4>1
    <3>2. b \in DOMAIN watermarks' /\ watermarks'[b] = watermarks[b]
      BY <1>3, <2>3, <3>1 DEF TakenOut
    <3>3. QED
      BY <1>6, <2>3, <3>2 DEF AckDurable
  <2>7. CASE d # c
    <3>1. channels'[d] = channels[d]
      BY <1>2, <2>7
    <3>2. QED
      BY <1>11, <2>1, <2>6, <2>7, <3>1 DEF Query
  <2>8. CASE d = c /\ i < f
    BY <1>2, <2>8 DEF Query
  <2>9. CASE d = c /\ ~(i < f)
    <3>1. i \in f .. n
      BY <1>5, <1>9, <1>11, <2>9
    <3>2. i \in DOMAIN channels'[d].pending /\ channels'[d].pending[i] = b
      BY <1>2, <2>4, <2>9, <3>1
    <3>3. QED
      BY <2>6, <2>9, <3>2 DEF Query
  <2>10. QED
    BY <2>7, <2>8, <2>9
<1>12. QED
  BY <1>8, <1>10, <1>11 DEF Query

(* No step takes a true answer back.                                       *)
LEMMA AnswersNeverRevert == AckInv /\ AckInv' /\ [AckNext]_ackTableVars => NoRevert
<1> SUFFICES ASSUME AckInv, AckInv', [AckNext]_ackTableVars PROVE NoRevert
  OBVIOUS
<1>1. ackSynced \in Nat /\ ackSynced' \in Nat
  BY DEF AckInv, AckTypeOK
<1>2. CASE UNCHANGED <<channels, watermarks, ackSynced>>
  BY <1>1, <1>2, AnswersStay
<1>3. CASE \E t \in Threads : Issue(t)
  BY <1>3, IssueKeepsAnswers
<1>4. CASE Bind
  <2>1. channels' = channels /\ ackSynced' = ackSynced
    BY <1>4 DEF Bind
  <2>2. \A s \in DOMAIN watermarks : s \in DOMAIN watermarks' /\ watermarks'[s] = watermarks[s]
    BY <1>4, BindEffect
  <2>3. QED
    BY <1>1, <2>1, <2>2, AnswersStay
<1>5. ASSUME NEW k, PublishSyncedCount(k) PROVE NoRevert
  <2>1. channels' = channels /\ watermarks' = watermarks /\ ackSynced < k /\ ackSynced' = k
    BY <1>5 DEF PublishSyncedCount, tableVars
  <2>2. QED
    BY <1>1, <2>1, AnswersStay
<1>6. CASE Restart
  BY <1>6 DEF Restart, NoRevert, AckInv, AckTypeOK
<1>7. ASSUME NEW t \in Threads, RequestNext(t), ~Issue(t) PROVE UNCHANGED <<channels, watermarks, ackSynced>>
  BY <1>7 DEF RequestNext, CheckCapacity, Accepted, AckBusy, LoadSynced, Reply, tableVars, pipeVars
<1>8. ASSUME RecordPath, ~Bind PROVE UNCHANGED <<channels, watermarks, ackSynced>>
  BY <1>8 DEF RecordPath, TakeBatch, SubmitRecord, tableVars
<1>9. ASSUME UNCHANGED ackTableVars PROVE UNCHANGED <<channels, watermarks, ackSynced>>
  BY <1>9 DEF ackTableVars, tableVars, pipeVars
<1>10. QED
  BY <1>2, <1>3, <1>4, <1>5, <1>6, <1>7, <1>8, <1>9 DEF AckNext, Writer

(* The acknowledgement of hec/ack.rs keeps its promise for any number of   *)
(* request threads, channels and batches, and across restarts: a poll is   *)
(* answered true only for a batch whose every accepted record is on disk,  *)
(* and, while the process lives, what was answered true is never answered  *)
(* false, although issue retires ids and drops their watermarks.           *)
THEOREM AckKeepsPromise == AckSpec => AckPromise
<1>1. AckInit => AckInv
  BY AckInitInv
<1>2. AckInv /\ [AckNext]_ackTableVars => AckInv'
  BY AckStep
<1>3. AckInv => AckTypeOK /\ AnsweredIsDurable
  BY AckInvMeans
<1>4. AckInv /\ AckInv' /\ [AckNext]_ackTableVars => [NoRevert]_ackTableVars
  BY AnswersNeverRevert
<1>5. [][NoRevert]_ackTableVars => AckNeverReverts
  BY PTL DEF NoRevert, AckNeverReverts
<1>6. QED
  BY <1>1, <1>2, <1>3, <1>4, <1>5, PTL DEF AckSpec, AckPromise
=============================================================================
