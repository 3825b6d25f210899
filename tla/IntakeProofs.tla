---------------------------- MODULE IntakeProofs ----------------------------
(***************************************************************************)
(* Proofs about three of the parts MCIntake checks side by side:           *)
(* HttpServer (what a connection may hold), HecRequests (what an answer of *)
(* the receiver means) and Policy (what a write of the policy leaves       *)
(* behind).                                                                *)
(***************************************************************************)
EXTENDS HttpServer, HecRequests, Policy, FiniteSetTheorems, SequenceTheorems,
        TLAPS

(* HttpServer. Each connection satisfies a predicate of its own, Sound,    *)
(* which its thread and its client keep; the threads are counted through   *)
(* the acceptor's two steps, which is why the invariant also says who is   *)
(* in the backlog and in the acceptor's hand.                              *)

(* Where a thread serving a connection stands.                             *)
Serving == Reading \cup {"handle", "reply", "drain"}

(* A connection and the thread serving it.                                 *)
Connection ==
    [pc : {"idle", "queued", "gone", "done"} \cup Serving, req : Requests \cup {[head |-> 0]},
     sent : Nat, buf : Nat, body : Nat, open : BOOLEAN, status : Nat]

(* What a connection's thread has let through.                             *)
Passed(k) == ~k.req.refused /\ k.req.framing \in {"length", "chunked"}

(* What holds of one connection: what it has buffered is within the        *)
(* limits, a body is read only after its head was let through, and never   *)
(* more of it than was declared.                                           *)
Sound(k) ==
    /\ k \in Connection
    /\ k.pc # "idle" => k.req \in Requests
    /\ k.pc \in {"idle", "queued", "gone", "head"} => k.body = 0
    /\ k.pc \in {"idle", "queued", "gone", "handle"} \cup Reading => k.status = 0
    /\ k.pc \in {"idle", "queued"} => k.buf = 0
    /\ k.pc = "head" => k.buf <= max_head_bytes + 1
    /\ k.pc \in {"body", "chunk", "stream"} => Passed(k) /\ k.body <= k.req.body
    /\ k.pc = "body" => k.req.body <= max_body_bytes
    /\ k.pc = "stream" => k.req.streamed
    /\ k.pc \in Serving /\ ~k.req.streamed => k.body <= max_body_bytes
    /\ k.pc = "handle" \/ k.status = 200 => Passed(k) /\ k.body = k.req.body

(* Types, and the cap.                                                     *)
Shapes ==
    /\ backlog \in Seq(Clients \cup {Waker})
    /\ acceptor \in [pc : {"accept", "count", "spawn", "done"}, holds : Clients \cup {NoClient}]
    /\ connectionsActive \in 0 .. max_connections
    /\ conn \in [Clients -> Connection]
    /\ serverStop \in BOOLEAN
    /\ closing \in {"no", "join", "wait", "drained", "gave_up"}
    /\ spawnFaults \in Nat

(* Who waits: until the acceptor is gone a client in the backlog is there  *)
(* once and has no thread yet, and neither has the one the acceptor holds. *)
Line ==
    /\ acceptor.pc # "done" => \A i \in DOMAIN backlog :
          IF backlog[i] = Waker THEN serverStop ELSE conn[backlog[i]].pc = "queued"
    /\ \A i, j \in DOMAIN backlog : backlog[i] = backlog[j] /\ backlog[i] # Waker => i = j
    /\ acceptor.pc \in {"count", "spawn"} =>
          /\ acceptor.holds \in Clients
          /\ conn[acceptor.holds].pc = "queued"
          /\ \A i \in DOMAIN backlog : backlog[i] # acceptor.holds

(* The wait of a shutdown begins after the acceptor's end, so a count of 0 *)
(* stays.                                                                  *)
Ending ==
    /\ closing \in {"wait", "drained", "gave_up"} => acceptor.pc = "done"
    /\ closing = "drained" => connectionsActive = 0

(* The inductive invariant.                                                *)
HttpInvariant ==
    /\ Shapes
    /\ \A c \in Clients : Sound(conn[c])
    /\ Line
    /\ ActiveIsThreads
    /\ Ending

(* The threads can be counted.                                             *)
LEMMA ThreadsFinite == IsFiniteSet(ServerThreads) /\ Cardinality(ServerThreads) \in Nat
<1>1. ServerThreads \subseteq Clients /\ IsFiniteSet(Clients)
  BY HttpAssumption DEF ServerThreads
<1>2. IsFiniteSet(ServerThreads)
  BY <1>1, FS_Subset
<1>3. QED
  BY <1>2, FS_CardinalityType

(* One connection changes.                                                 *)
LEMMA OneMoves ==
    ASSUME Shapes, NEW c \in Clients, NEW k \in Connection, conn' = [conn EXCEPT ![c] = k]
    PROVE  /\ conn' \in [Clients -> Connection]
           /\ conn'[c] = k
           /\ \A d \in Clients : d # c => conn'[d] = conn[d]
           /\ ServerThreads' = IF k.pc \in Serving THEN ServerThreads \cup {c} ELSE ServerThreads \ {c}
<1>1. /\ conn' \in [Clients -> Connection]
      /\ conn'[c] = k
      /\ \A d \in Clients : d # c => conn'[d] = conn[d]
  BY DEF Shapes
<1>2. \A d : d \in ServerThreads' <=> d \in Clients /\ conn'[d].pc \in Serving
  BY DEF ServerThreads, Serving
<1>3. \A d : d \in ServerThreads <=> d \in Clients /\ conn[d].pc \in Serving
  BY DEF ServerThreads, Serving
<1>4. QED
  BY <1>1, <1>2, <1>3

(* A step of a connection's thread, or of its client, that does not end it. *)
LEMMA ThreadMoves ==
    ASSUME HttpInvariant, NEW c \in Clients, NEW k, Sound(k), conn' = [conn EXCEPT ![c] = k],
           conn[c].pc \in Serving, k.pc \in Serving, UNCHANGED acceptVars
    PROVE  HttpInvariant'
<1>1. k \in Connection /\ Shapes /\ c \in ServerThreads
  BY DEF Sound, HttpInvariant, ServerThreads, Serving
<1>2. /\ conn' \in [Clients -> Connection] /\ conn'[c] = k
      /\ \A d \in Clients : d # c => conn'[d] = conn[d]
      /\ ServerThreads' = ServerThreads
  <2>1. /\ conn' \in [Clients -> Connection] /\ conn'[c] = k
        /\ \A d \in Clients : d # c => conn'[d] = conn[d]
        /\ ServerThreads' = IF k.pc \in Serving THEN ServerThreads \cup {c} ELSE ServerThreads \ {c}
    BY <1>1, OneMoves
  <2>2. QED
    BY <1>1, <2>1
<1>3. UNCHANGED <<backlog, acceptor, connectionsActive, serverStop, closing, spawnFaults>>
  BY DEF acceptVars
<1>4. Shapes'
  BY <1>1, <1>2, <1>3 DEF Shapes
<1>5. \A d \in Clients : Sound(conn'[d])
  <2>1. \A d \in Clients : conn'[d] = k \/ conn'[d] = conn[d]
    BY <1>2
  <2>2. QED
    BY <2>1 DEF HttpInvariant
<1>6. Line'
  <2>1. \A d \in Clients : conn[d].pc = "queued" => conn'[d].pc = "queued"
    BY <1>2 DEF Serving, Reading
  <2>2. \A i \in DOMAIN backlog : backlog[i] = Waker \/ backlog[i] \in Clients
    BY <1>1 DEF Shapes
  <2>3. QED
    BY <1>3, <2>1, <2>2 DEF HttpInvariant, Line
<1>7. ActiveIsThreads' /\ Ending'
  BY <1>2, <1>3 DEF HttpInvariant, ActiveIsThreads, Ending
<1>8. QED
  BY <1>4, <1>5, <1>6, <1>7 DEF HttpInvariant

(* The parts of a connection.                                              *)
LEMMA ConnectionFields ==
    ASSUME NEW k \in Connection
    PROVE  /\ k.sent \in Nat /\ k.buf \in Nat /\ k.body \in Nat /\ k.open \in BOOLEAN /\ k.status \in Nat
           /\ k.pc \in {"idle", "queued", "gone", "done"} \cup Serving
           /\ k.req \in Requests => /\ k.req.head \in Nat /\ k.req.body \in Nat
                                    /\ k.req.refused \in BOOLEAN /\ k.req.streamed \in BOOLEAN
                                    /\ k.req.framing \in {"length", "chunked", "both", "other"}
<1>1. k.req \in Requests => k.req \in Request
  BY HttpAssumption
<1>2. QED
  BY <1>1 DEF Connection, Request

(* More of the request has come, or the client hung up.                    *)
LEMMA ClientKeeps ==
    ASSUME HttpInvariant, NEW c \in Clients, ClientSends(c) \/ ClientCloses(c)
    PROVE  HttpInvariant'
<1>1. conn[c].pc \in Serving /\ UNCHANGED acceptVars /\ Sound(conn[c]) /\ conn[c] \in Connection
      /\ conn \in [Clients -> Connection]
  BY DEF ClientSends, ClientCloses, acceptVars, HttpInvariant, Serving, Shapes
<1>2. CASE ClientSends(c)
  <2> DEFINE k == [conn[c] EXCEPT !.sent = conn[c].sent + 1]
  <2>1. conn' = [conn EXCEPT ![c] = k]
    BY <1>1, <1>2 DEF ClientSends
  <2>2. k \in Connection /\ k.pc = conn[c].pc /\ k.req = conn[c].req /\ k.body = conn[c].body
        /\ k.buf = conn[c].buf /\ k.status = conn[c].status
    BY <1>1 DEF Connection
  <2> HIDE DEF k
  <2>3. Sound(k)
    BY <1>1, <2>2 DEF Sound, Passed
  <2>4. QED
    BY <1>1, <2>1, <2>2, <2>3, ThreadMoves
<1>3. CASE ClientCloses(c)
  <2> DEFINE k == [conn[c] EXCEPT !.open = FALSE]
  <2>1. conn' = [conn EXCEPT ![c] = k]
    BY <1>1, <1>3 DEF ClientCloses
  <2>2. k \in Connection /\ k.pc = conn[c].pc /\ k.req = conn[c].req /\ k.body = conn[c].body
        /\ k.buf = conn[c].buf /\ k.status = conn[c].status
    BY <1>1 DEF Connection
  <2> HIDE DEF k
  <2>3. Sound(k)
    BY <1>1, <2>2 DEF Sound, Passed
  <2>4. QED
    BY <1>1, <2>1, <2>2, <2>3, ThreadMoves
<1>4. QED
  BY <1>2, <1>3

(* The thread ends its request with an answer that is not the handler's.   *)
LEMMA EndsKeeps ==
    ASSUME HttpInvariant, NEW c \in Clients, NEW code \in Nat \ {200}, conn[c].pc \in Reading,
           ConnectionEnds(c, code), UNCHANGED acceptVars
    PROVE  HttpInvariant'
<1>1. conn[c].pc \in Serving /\ Sound(conn[c]) /\ conn[c] \in Connection
      /\ conn \in [Clients -> Connection]
  BY DEF HttpInvariant, Serving, Shapes
<1> DEFINE k == [conn[c] EXCEPT !.pc = "reply", !.status = code]
<1>2. conn' = [conn EXCEPT ![c] = k]
  BY <1>1 DEF ConnectionEnds
<1>3. k \in Connection /\ k.pc = "reply" /\ k.req = conn[c].req /\ k.body = conn[c].body
      /\ k.buf = conn[c].buf /\ k.status = code
  BY <1>1 DEF Connection, Serving
<1> HIDE DEF k
<1>4. Sound(k)
  BY <1>1, <1>3 DEF Sound, Passed, Reading, Serving
<1>5. k.pc \in Serving
  BY <1>3 DEF Serving
<1>6. QED
  BY <1>1, <1>2, <1>4, <1>5, ThreadMoves

(* The thread goes on to another step with nothing more in hand.           *)
LEMMA GoesOn ==
    ASSUME HttpInvariant, NEW c \in Clients, NEW to \in {"handle", "drain"}, conn[c].pc \in Serving,
           conn' = [conn EXCEPT ![c].pc = to],
           to = "handle" => conn[c].pc \in {"body", "chunk", "stream"} /\ BodyWhole(c),
           to = "drain" => conn[c].pc # "handle",
           UNCHANGED acceptVars
    PROVE  HttpInvariant'
<1>1. Sound(conn[c]) /\ conn[c] \in Connection /\ conn \in [Clients -> Connection]
  BY DEF HttpInvariant, Shapes
<1> DEFINE k == [conn[c] EXCEPT !.pc = to]
<1>2. conn' = [conn EXCEPT ![c] = k]
  BY <1>1
<1>3. k \in Connection /\ k.pc = to /\ k.req = conn[c].req /\ k.body = conn[c].body
      /\ k.buf = conn[c].buf /\ k.status = conn[c].status
  BY <1>1 DEF Connection, Serving
<1> HIDE DEF k
<1>4. k.pc \in Serving
  BY <1>3 DEF Serving
<1>5. conn[c].pc # "idle" /\ conn[c].req \in Requests
  BY <1>1 DEF Sound, Serving, Reading
<1>6. to = "handle" => Passed(k) /\ k.body = k.req.body /\ k.status = 0
  BY <1>1, <1>3, <1>5, ConnectionFields DEF Sound, Passed, BodyWhole, Reading
<1>7. Sound(k)
  BY <1>1, <1>3, <1>5, <1>6 DEF Sound, Passed, Reading, Serving
<1>8. QED
  BY <1>1, <1>2, <1>4, <1>7, ThreadMoves

(* A unit of the head, read within the budget.                             *)
LEMMA ReadHeadKeeps ==
    ASSUME HttpInvariant, NEW c \in Clients, ReadHead(c)
    PROVE  HttpInvariant'
<1>1. /\ conn[c].pc = "head" /\ UNCHANGED acceptVars /\ Sound(conn[c]) /\ conn[c] \in Connection
      /\ conn \in [Clients -> Connection] /\ conn[c].buf <= max_head_bytes
  BY DEF ReadHead, Thread, HeadBounded, HttpInvariant, Shapes
<1> DEFINE k == [conn[c] EXCEPT !.buf = conn[c].buf + 1]
<1>2. conn' = [conn EXCEPT ![c] = k]
  BY <1>1 DEF ReadHead
<1>3. k \in Connection /\ k.pc = "head" /\ k.req = conn[c].req /\ k.body = conn[c].body
      /\ k.buf = conn[c].buf + 1 /\ k.status = conn[c].status
  BY <1>1 DEF Connection
<1> HIDE DEF k
<1>4. k.buf <= max_head_bytes + 1
  BY <1>1, <1>3, HttpAssumption, ConnectionFields
<1>5. Sound(k)
  BY <1>1, <1>3, <1>4 DEF Sound, Passed
<1>6. conn[c].pc \in Serving /\ k.pc \in Serving
  BY <1>1, <1>3 DEF Serving, Reading
<1>7. QED
  BY <1>1, <1>2, <1>5, <1>6, ThreadMoves

(* A head is answered with an error, or its body is read under one         *)
(* framing.                                                                *)
LEMMA JudgedIs ==
    ASSUME NEW c, conn[c].req \in Request
    PROVE  \/ Judged(c).pc = "reply" /\ Judged(c).status \in {400, 401, 413, 501}
           \/ /\ Judged(c).pc \in {"body", "chunk", "stream"} /\ Judged(c).status = 0
              /\ Passed(conn[c])
              /\ Judged(c).pc = "body" => conn[c].req.body <= max_body_bytes
              /\ Judged(c).pc = "stream" => conn[c].req.streamed
<1> DEFINE req == conn[c].req
<1>1. req.framing \in {"length", "chunked", "both", "other"} /\ req.refused \in BOOLEAN /\ req.streamed \in BOOLEAN
      /\ req.body \in Nat
  BY DEF Request
<1>2. FramingStatus(req.framing) = (IF req.framing = "both" THEN 400 ELSE IF req.framing = "other" THEN 501 ELSE 0)
  BY <1>1 DEF FramingStatus
<1>3. CASE req.framing \in {"both", "other"}
  BY <1>2, <1>3 DEF Judged
<1>4. CASE req.framing \in {"length", "chunked"} /\ req.refused
  BY <1>2, <1>4 DEF Judged
<1>5. CASE req.framing = "chunked" /\ ~req.refused
  <2>1. Judged(c) = [pc |-> "chunk", status |-> 0]
    BY <1>2, <1>5 DEF Judged
  <2>2. QED
    BY <1>5, <2>1 DEF Passed
<1>6. CASE req.framing = "length" /\ ~req.refused
  <2>1. FramingStatus(req.framing) = 0
    BY <1>2, <1>6
  <2>2. Judged(c) = IF req.streamed THEN [pc |-> "stream", status |-> 0]
                    ELSE IF req.body > max_body_bytes THEN [pc |-> "reply", status |-> 413]
                    ELSE [pc |-> "body", status |-> 0]
    BY <1>6, <2>1 DEF Judged
  <2>3. CASE req.streamed
    BY <1>6, <2>2, <2>3 DEF Passed
  <2>4. CASE ~req.streamed /\ req.body > max_body_bytes
    BY <2>2, <2>4
  <2>5. CASE ~req.streamed /\ ~(req.body > max_body_bytes)
    BY <1>1, <1>6, <2>2, <2>5, HttpAssumption DEF Passed
  <2>6. QED
    BY <2>3, <2>4, <2>5
<1>7. QED
  BY <1>1, <1>3, <1>4, <1>5, <1>6

(* The head is judged.                                                     *)
LEMMA JudgeHeadKeeps ==
    ASSUME HttpInvariant, NEW c \in Clients, JudgeHead(c)
    PROVE  HttpInvariant'
<1>1. /\ conn[c].pc = "head" /\ UNCHANGED acceptVars /\ Sound(conn[c]) /\ conn[c] \in Connection
      /\ conn \in [Clients -> Connection]
  BY DEF JudgeHead, Thread, HttpInvariant, Shapes
<1>2. conn[c].req \in Requests /\ conn[c].body = 0 /\ conn[c].req \in Request
  BY <1>1, HttpAssumption DEF Sound
<1>3. PICK to, code : to = Judged(c).pc /\ code = Judged(c).status
  OBVIOUS
<1>4. \/ to = "reply" /\ code \in {400, 401, 413, 501}
      \/ /\ to \in {"body", "chunk", "stream"} /\ code = 0
         /\ Passed(conn[c])
         /\ to = "body" => conn[c].req.body <= max_body_bytes
         /\ to = "stream" => conn[c].req.streamed
  BY <1>2, <1>3, JudgedIs
<1> DEFINE k == [conn[c] EXCEPT !.pc = to, !.status = code]
<1>5. conn' = [conn EXCEPT ![c] = k]
  BY <1>1, <1>3 DEF JudgeHead
<1>6. to \in Serving /\ code \in Nat /\ code # 200
  BY <1>4 DEF Serving, Reading
<1>7. k \in Connection /\ k.pc = to /\ k.req = conn[c].req /\ k.body = 0
      /\ k.buf = conn[c].buf /\ k.status = code
  BY <1>1, <1>2, <1>6 DEF Connection
<1> HIDE DEF k
<1>8. k.req.body \in Nat /\ 0 <= k.req.body /\ 0 <= max_body_bytes
  BY <1>2, <1>7, HttpAssumption DEF Request
<1>9. Sound(k)
  BY <1>2, <1>4, <1>6, <1>7, <1>8 DEF Sound, Passed, Reading
<1>10. conn[c].pc \in Serving
  BY <1>1 DEF Serving, Reading
<1>11. QED
  BY <1>1, <1>5, <1>6, <1>7, <1>9, <1>10, ThreadMoves

(* A unit of the body.                                                     *)
LEMMA MoreBody ==
    ASSUME HttpInvariant, NEW c \in Clients, conn[c].pc \in {"body", "chunk", "stream"}, ~BodyWhole(c),
           conn[c].pc = "chunk" => ChunkFits(c),
           conn' = [conn EXCEPT ![c].buf = @ + 1, ![c].body = @ + 1], UNCHANGED acceptVars
    PROVE  HttpInvariant'
<1>1. /\ Sound(conn[c]) /\ conn[c] \in Connection
      /\ conn \in [Clients -> Connection]
  BY DEF HttpInvariant, Shapes
<1>2. conn[c].req \in Requests /\ conn[c].status = 0
  BY <1>1 DEF Sound, Reading
<1> DEFINE k == [conn[c] EXCEPT !.buf = conn[c].buf + 1, !.body = conn[c].body + 1]
<1>3. conn' = [conn EXCEPT ![c] = k]
  BY <1>1
<1>4. k \in Connection /\ k.pc = conn[c].pc /\ k.req = conn[c].req /\ k.body = conn[c].body + 1
      /\ k.buf = conn[c].buf + 1 /\ k.status = 0
  BY <1>1, <1>2 DEF Connection
<1> HIDE DEF k
<1>5. /\ conn[c].body \in Nat /\ conn[c].req.body \in Nat /\ max_body_bytes \in Nat
      /\ conn[c].req.streamed \in BOOLEAN
  BY <1>1, <1>2, HttpAssumption, ConnectionFields
<1>6. k.body <= k.req.body
  BY <1>4, <1>5 DEF BodyWhole
<1>7. ~k.req.streamed => k.body <= max_body_bytes
  BY <1>1, <1>4, <1>5, <1>6 DEF Sound, ChunkFits
<1>8. Sound(k)
  BY <1>1, <1>2, <1>4, <1>6, <1>7 DEF Sound, Passed
<1>9. conn[c].pc \in Serving /\ k.pc \in Serving
  BY <1>4 DEF Serving, Reading
<1>10. QED
  BY <1>1, <1>3, <1>8, <1>9, ThreadMoves

(* The handler answers a request that came whole.                          *)
LEMMA HandleKeeps ==
    ASSUME HttpInvariant, NEW c \in Clients, Handle(c)
    PROVE  HttpInvariant'
<1>1. /\ conn[c].pc = "handle" /\ Sound(conn[c]) /\ conn[c] \in Connection
      /\ conn \in [Clients -> Connection] /\ UNCHANGED acceptVars
  BY DEF HttpInvariant, Shapes, Handle, Thread
<1> DEFINE k == [conn[c] EXCEPT !.pc = "reply", !.status = 200]
<1>2. conn' = [conn EXCEPT ![c] = k]
  BY <1>1 DEF ConnectionEnds, Handle
<1>3. k \in Connection /\ k.pc = "reply" /\ k.req = conn[c].req /\ k.body = conn[c].body
      /\ k.buf = conn[c].buf /\ k.status = 200
  BY <1>1 DEF Connection, Serving
<1> HIDE DEF k
<1>4. Sound(k)
  BY <1>1, <1>3 DEF Sound, Passed, Reading, Serving
<1>5. k.pc \in Serving /\ conn[c].pc \in Serving
  BY <1>1, <1>3 DEF Serving
<1>6. QED
  BY <1>1, <1>2, <1>4, <1>5, ThreadMoves

(* The thread ends and its guard uncounts it.                              *)
LEMMA FinishKeeps ==
    ASSUME HttpInvariant, NEW c \in Clients, Finish(c)
    PROVE  HttpInvariant'
<1>1. /\ conn[c].pc = "drain" /\ Sound(conn[c]) /\ conn[c] \in Connection /\ Shapes
      /\ conn \in [Clients -> Connection]
      /\ connectionsActive' = connectionsActive - 1
      /\ UNCHANGED <<backlog, acceptor, serverStop, closing, spawnFaults>>
  BY DEF HttpInvariant, Shapes, Finish, Thread
<1> DEFINE k == [conn[c] EXCEPT !.pc = "done", !.buf = 0]
<1>2. conn' = [conn EXCEPT ![c] = k]
  BY <1>1 DEF Finish
<1>3. k \in Connection /\ k.pc = "done" /\ k.req = conn[c].req /\ k.body = conn[c].body
      /\ k.status = conn[c].status
  BY <1>1 DEF Connection, Serving
<1> HIDE DEF k
<1>4. Sound(k) /\ k.pc \notin Serving
  BY <1>1, <1>3 DEF Sound, Passed, Reading, Serving
<1>5. /\ conn' \in [Clients -> Connection] /\ conn'[c] = k
      /\ \A d \in Clients : d # c => conn'[d] = conn[d]
      /\ ServerThreads' = ServerThreads \ {c}
  <2>1. /\ conn' \in [Clients -> Connection] /\ conn'[c] = k
        /\ \A d \in Clients : d # c => conn'[d] = conn[d]
        /\ ServerThreads' = IF k.pc \in Serving THEN ServerThreads \cup {c} ELSE ServerThreads \ {c}
    BY <1>1, <1>2, <1>3, OneMoves
  <2>2. QED
    BY <1>4, <2>1
<1>6. c \in ServerThreads
  BY <1>1 DEF ServerThreads
<1>7. Cardinality(ServerThreads') = Cardinality(ServerThreads) - 1 /\ Cardinality(ServerThreads') \in Nat
  <2>1. IsFiniteSet(ServerThreads) /\ Cardinality(ServerThreads) \in Nat
    BY ThreadsFinite
  <2>2. Cardinality(ServerThreads \ {c}) = Cardinality(ServerThreads) - 1
    BY <1>6, <2>1, FS_RemoveElement
  <2>3. IsFiniteSet(ServerThreads \ {c}) /\ Cardinality(ServerThreads \ {c}) \in Nat
    BY <2>1, FS_RemoveElement, FS_CardinalityType
  <2>4. QED
    BY <1>5, <2>2, <2>3
<1>8. ActiveIsThreads' /\ connectionsActive' \in 0 .. max_connections
  <2>1. connectionsActive' = Cardinality(ServerThreads') + (IF acceptor.pc = "spawn" THEN 1 ELSE 0)
    BY <1>1, <1>7, ThreadsFinite, HttpAssumption DEF HttpInvariant, ActiveIsThreads, Shapes
  <2>2. connectionsActive' \in 0 .. max_connections
    BY <1>1, <1>7, <2>1, HttpAssumption DEF Shapes
  <2>3. QED
    BY <1>1, <2>1, <2>2 DEF ActiveIsThreads
<1>9. Shapes'
  BY <1>1, <1>5, <1>8 DEF Shapes
<1>10. \A d \in Clients : Sound(conn'[d])
  <2>1. \A d \in Clients : conn'[d] = k \/ conn'[d] = conn[d]
    BY <1>5
  <2>2. QED
    BY <1>4, <2>1 DEF HttpInvariant
<1>11. Line'
  <2>1. \A d \in Clients : conn[d].pc = "queued" => conn'[d].pc = "queued"
    BY <1>1, <1>5
  <2>2. \A i \in DOMAIN backlog : backlog[i] = Waker \/ backlog[i] \in Clients
    BY <1>1 DEF Shapes
  <2>3. QED
    BY <1>1, <2>1, <2>2 DEF HttpInvariant, Line
<1>12. Ending'
  <2>1. closing = "drained" => FALSE
    <3>1. closing = "drained" => connectionsActive = 0
      BY DEF HttpInvariant, Ending
    <3>2. connectionsActive' # -1
      BY <1>8, HttpAssumption
    <3>3. QED
      BY <1>1, <3>1, <3>2
  <2>2. QED
    BY <1>1, <2>1 DEF HttpInvariant, Ending
<1>13. QED
  BY <1>8, <1>9, <1>10, <1>11, <1>12 DEF HttpInvariant

(* Every step of a connection's thread.                                    *)
LEMMA HttpStepKeeps ==
    ASSUME HttpInvariant, NEW c \in Clients, HttpStep(c)
    PROVE  HttpInvariant'
<1>1. CASE HeadTooLarge(c)
  <2>1. conn[c].pc \in Reading /\ ConnectionEnds(c, 431) /\ UNCHANGED acceptVars
    BY <1>1 DEF HeadTooLarge, Thread, Reading
  <2>2. QED
    BY <2>1, EndsKeeps
<1>2. CASE ReadHttpBody(c)
  BY <1>2, MoreBody DEF ReadHttpBody, Thread
<1>3. CASE ReadChunk(c)
  <2>1. CASE ChunkFits(c)
    BY <1>3, <2>1, MoreBody DEF ReadChunk, Thread
  <2>2. CASE ~ChunkFits(c)
    <3>1. conn[c].pc \in Reading /\ ConnectionEnds(c, 413) /\ UNCHANGED acceptVars
      BY <1>3, <2>2 DEF ReadChunk, Thread, Reading
    <3>2. QED
      BY <3>1, EndsKeeps
  <2>3. QED
    BY <2>1, <2>2
<1>4. CASE BodyDone(c)
  <2>1. conn[c].pc \in {"body", "chunk", "stream"} /\ BodyWhole(c) /\ UNCHANGED acceptVars
    BY <1>4 DEF BodyDone, Thread
  <2>2. CASE ConnectionEnds(c, 413)
    BY <2>1, <2>2, EndsKeeps DEF Reading
  <2>3. CASE conn' = [conn EXCEPT ![c].pc = "handle"]
    BY <2>1, <2>3, GoesOn DEF Reading, Serving
  <2>4. QED
    BY <1>4, <2>2, <2>3 DEF BodyDone
<1>5. CASE ReadEnds(c)
  <2>1. conn[c].pc \in Reading /\ UNCHANGED acceptVars
    BY <1>5 DEF ReadEnds, Thread
  <2>2. CASE ConnectionEnds(c, 400)
    BY <2>1, <2>2, EndsKeeps
  <2>3. CASE conn' = [conn EXCEPT ![c].pc = "drain"]
    BY <2>1, <2>3, GoesOn DEF Reading, Serving
  <2>4. QED
    BY <1>5, <2>2, <2>3 DEF ReadEnds
<1>6. CASE ReadTimesOut(c)
  <2>1. conn[c].pc \in Reading /\ ConnectionEnds(c, 408) /\ UNCHANGED acceptVars
    BY <1>6 DEF ReadTimesOut, Late, Thread
  <2>2. QED
    BY <2>1, EndsKeeps
<1>7. CASE WriteReply(c)
  BY <1>7, GoesOn DEF WriteReply, Thread, Serving
<1>8. QED
  BY <1>1, <1>2, <1>3, <1>4, <1>5, <1>6, <1>7, ReadHeadKeeps, JudgeHeadKeeps, HandleKeeps, FinishKeeps DEF HttpStep

(* A client connects: it was idle, so it is nowhere in the backlog.        *)
LEMMA ConnectKeeps ==
    ASSUME HttpInvariant, NEW c \in Clients, NEW req \in Requests, Connect(c, req)
    PROVE  HttpInvariant'
<1>1. /\ conn[c].pc = "idle" /\ acceptor.pc # "done" /\ Sound(conn[c]) /\ conn[c] \in Connection /\ Shapes
      /\ conn \in [Clients -> Connection] /\ backlog \in Seq(Clients \cup {Waker}) /\ backlog' = Append(backlog, c)
      /\ UNCHANGED <<acceptor, connectionsActive, serverStop, closing, spawnFaults>>
  BY DEF HttpInvariant, Shapes, Connect
<1> DEFINE k == [conn[c] EXCEPT !.pc = "queued", !.req = req]
<1>2. conn' = [conn EXCEPT ![c] = k]
  BY <1>1 DEF Connect
<1>3. k \in Connection /\ k.pc = "queued" /\ k.req = req /\ k.body = conn[c].body
      /\ k.status = conn[c].status /\ k.buf = conn[c].buf
  BY <1>1 DEF Connection, Serving
<1> HIDE DEF k
<1>4. Sound(k) /\ k.pc \notin Serving
  BY <1>1, <1>3 DEF Sound, Passed, Reading, Serving
<1>5. /\ conn' \in [Clients -> Connection] /\ conn'[c] = k
      /\ \A d \in Clients : d # c => conn'[d] = conn[d]
      /\ ServerThreads' = ServerThreads
  <2>1. /\ conn' \in [Clients -> Connection] /\ conn'[c] = k
        /\ \A d \in Clients : d # c => conn'[d] = conn[d]
        /\ ServerThreads' = IF k.pc \in Serving THEN ServerThreads \cup {c} ELSE ServerThreads \ {c}
    BY <1>1, <1>2, <1>3, OneMoves
  <2>2. c \notin ServerThreads
    BY <1>1 DEF ServerThreads, Reading
  <2>3. QED
    BY <1>4, <2>1, <2>2
<1>6. Shapes'
  <2>1. backlog' \in Seq(Clients \cup {Waker})
    BY <1>1
  <2>2. QED
    BY <1>1, <1>5, <2>1 DEF Shapes
<1>7. \A d \in Clients : Sound(conn'[d])
  <2>1. \A d \in Clients : conn'[d] = k \/ conn'[d] = conn[d]
    BY <1>5
  <2>2. QED
    BY <1>4, <2>1 DEF HttpInvariant
<1>8. Line'
  <2>1. \A d \in Clients : conn[d].pc = "queued" => conn'[d].pc = "queued"
    BY <1>3, <1>5
  <2>2. \A i \in DOMAIN backlog : backlog[i] = Waker \/ backlog[i] \in Clients
    BY <1>1
  <2>3. \A i \in DOMAIN backlog : backlog[i] # c
    BY <1>1, HttpAssumption DEF HttpInvariant, Line
  <2>4. \A i \in DOMAIN backlog' :
           \/ i \in DOMAIN backlog /\ backlog'[i] = backlog[i]
           \/ i = Len(backlog) + 1 /\ backlog'[i] = c
    BY <1>1
  <2>5. \A i \in DOMAIN backlog' : IF backlog'[i] = Waker THEN serverStop ELSE conn'[backlog'[i]].pc = "queued"
    <3>1. \A i \in DOMAIN backlog : IF backlog[i] = Waker THEN serverStop ELSE conn[backlog[i]].pc = "queued"
      BY <1>1 DEF HttpInvariant, Line
    <3>2. conn'[c].pc = "queued" /\ c # Waker
      BY <1>3, <1>5, HttpAssumption
    <3>3. QED
      BY <2>1, <2>2, <2>4, <3>1, <3>2
  <2>6. \A i, j \in DOMAIN backlog' : backlog'[i] = backlog'[j] /\ backlog'[i] # Waker => i = j
    BY <2>3, <2>4 DEF HttpInvariant, Line
  <2>7. acceptor.pc \in {"count", "spawn"} =>
          /\ acceptor.holds \in Clients
          /\ conn'[acceptor.holds].pc = "queued"
          /\ \A i \in DOMAIN backlog' : backlog'[i] # acceptor.holds
    <3>1. acceptor.pc \in {"count", "spawn"} => acceptor.holds # c
      BY <1>1 DEF HttpInvariant, Line
    <3>2. QED
      BY <2>1, <2>4, <3>1 DEF HttpInvariant, Line
  <2>8. QED
    BY <1>1, <2>5, <2>6, <2>7 DEF Line
<1>9. ActiveIsThreads' /\ Ending'
  BY <1>1, <1>5 DEF HttpInvariant, ActiveIsThreads, Ending
<1>10. QED
  BY <1>6, <1>7, <1>8, <1>9 DEF HttpInvariant

(* The acceptor takes the head of the backlog.                             *)
LEMMA AcceptKeeps ==
    ASSUME HttpInvariant, Accept
    PROVE  HttpInvariant'
<1>1. /\ acceptor.pc = "accept" /\ backlog # <<>> /\ Shapes /\ backlog \in Seq(Clients \cup {Waker})
      /\ backlog' = Tail(backlog) /\ conn \in [Clients -> Connection]
      /\ UNCHANGED <<connectionsActive, serverStop, closing, spawnFaults>>
  BY DEF HttpInvariant, Shapes, Accept
<1>2. /\ backlog' \in Seq(Clients \cup {Waker})
      /\ 1 \in DOMAIN backlog /\ Head(backlog) = backlog[1]
      /\ \A i \in DOMAIN backlog' : i + 1 \in DOMAIN backlog /\ i + 1 # 1 /\ backlog'[i] = backlog[i + 1] /\ i \in Nat
  BY <1>1
<1>3. \A i, j \in DOMAIN backlog' : backlog'[i] = backlog'[j] /\ backlog'[i] # Waker => i = j
  <2>1. \A i, j \in DOMAIN backlog' : backlog'[i] = backlog'[j] /\ backlog'[i] # Waker => i + 1 = j + 1
    BY <1>2 DEF HttpInvariant, Line
  <2>2. QED
    BY <1>2, <2>1
<1>4. closing \notin {"wait", "drained", "gave_up"}
  BY <1>1 DEF HttpInvariant, Ending
<1>5. CASE serverStop
  <2>1. /\ acceptor' = [pc |-> "done", holds |-> NoClient]
        /\ conn' = [x \in Clients |-> IF conn[x].pc = "queued" THEN [conn[x] EXCEPT !.pc = "gone"] ELSE conn[x]]
    BY <1>5 DEF Accept
  <2>2. \A x \in Clients : /\ Sound(conn'[x])
                           /\ conn'[x] \in Connection
                           /\ conn'[x].pc \in Serving <=> conn[x].pc \in Serving
    <3>1. ASSUME NEW x \in Clients, conn[x].pc = "queued"
          PROVE  Sound(conn'[x]) /\ conn'[x].pc \notin Serving /\ conn[x].pc \notin Serving
      <4> DEFINE k == [conn[x] EXCEPT !.pc = "gone"]
      <4>1. conn'[x] = k
        BY <2>1, <3>1
      <4>2. Sound(conn[x]) /\ conn[x] \in Connection
        BY <1>1 DEF HttpInvariant
      <4>3. k \in Connection /\ k.pc = "gone" /\ k.req = conn[x].req /\ k.body = conn[x].body /\ k.status = conn[x].status
        BY <4>2 DEF Connection
      <4> HIDE DEF k
      <4>4. QED
        BY <3>1, <4>1, <4>2, <4>3 DEF Sound, Passed, Serving, Reading
    <3>2. ASSUME NEW x \in Clients, conn[x].pc # "queued"
          PROVE  conn'[x] = conn[x] /\ Sound(conn[x])
      BY <2>1, <3>2 DEF HttpInvariant
    <3>3. \A k : Sound(k) => k \in Connection
      BY DEF Sound
    <3>4. QED
      BY <3>1, <3>2, <3>3
  <2>3. ServerThreads' = ServerThreads
    <3>1. \A d : d \in ServerThreads' <=> d \in Clients /\ conn'[d].pc \in Serving
      BY DEF ServerThreads, Serving
    <3>2. \A d : d \in ServerThreads <=> d \in Clients /\ conn[d].pc \in Serving
      BY DEF ServerThreads, Serving
    <3>3. QED
      BY <2>2, <3>1, <3>2
  <2>4. Shapes'
    <3>1. conn' \in [Clients -> Connection]
      BY <2>1, <2>2
    <3>2. acceptor' \in [pc : {"accept", "count", "spawn", "done"}, holds : Clients \cup {NoClient}]
      BY <2>1
    <3>3. QED
      BY <1>1, <1>2, <3>1, <3>2 DEF Shapes
  <2>5. Line'
    BY <1>3, <2>1 DEF Line
  <2>6. ActiveIsThreads' /\ Ending'
    BY <1>1, <1>4, <2>1, <2>3 DEF HttpInvariant, ActiveIsThreads, Ending
  <2>7. QED
    BY <2>2, <2>4, <2>5, <2>6 DEF HttpInvariant
<1>6. CASE ~serverStop
  <2>1. acceptor' = [pc |-> "count", holds |-> backlog[1]] /\ conn' = conn
    BY <1>2, <1>6 DEF Accept
  <2>2. backlog[1] \in Clients /\ conn[backlog[1]].pc = "queued" /\ backlog[1] # Waker
    BY <1>1, <1>2, <1>6 DEF HttpInvariant, Line
  <2>3. \A i \in DOMAIN backlog' : backlog'[i] # backlog[1]
    BY <1>2, <2>2 DEF HttpInvariant, Line
  <2>4. Shapes'
    BY <1>1, <1>2, <2>1, <2>2 DEF Shapes
  <2>5. Line'
    <3>1. \A i \in DOMAIN backlog' : IF backlog'[i] = Waker THEN serverStop ELSE conn[backlog'[i]].pc = "queued"
      BY <1>1, <1>2 DEF HttpInvariant, Line
    <3>2. QED
      BY <1>1, <1>3, <2>1, <2>2, <2>3, <3>1 DEF Line
  <2>6. ActiveIsThreads' /\ Ending'
    BY <1>1, <1>4, <2>1 DEF HttpInvariant, ActiveIsThreads, Ending, ServerThreads
  <2>7. QED
    BY <2>1, <2>4, <2>5, <2>6 DEF HttpInvariant
<1>7. QED
  BY <1>1, <1>5, <1>6 DEF Shapes

(* Nothing of a connection changes but its place: the acceptor lets it go  *)
(* or gives it a thread.                                                   *)
LEMMA Released ==
    ASSUME HttpInvariant, acceptor.pc \in {"count", "spawn"}, NEW to \in {"gone", "head"},
           conn' = [conn EXCEPT ![acceptor.holds].pc = to],
           acceptor' = [pc |-> "accept", holds |-> NoClient],
           backlog' = backlog, serverStop' = serverStop, closing' = closing,
           spawnFaults' \in Nat, connectionsActive' \in 0 .. max_connections,
           connectionsActive' = connectionsActive + (IF to = "head" THEN 1 ELSE 0)
                                                  - (IF acceptor.pc = "spawn" THEN 1 ELSE 0)
    PROVE  HttpInvariant'
<1> DEFINE c == acceptor.holds
<1>1. c \in Clients /\ conn[c].pc = "queued" /\ \A i \in DOMAIN backlog : backlog[i] # c
  BY DEF HttpInvariant, Line
<1>2. /\ Sound(conn[c]) /\ conn[c] \in Connection /\ Shapes /\ conn \in [Clients -> Connection]
      /\ connectionsActive \in Nat
  BY <1>1, HttpAssumption DEF HttpInvariant, Shapes
<1> DEFINE k == [conn[c] EXCEPT !.pc = to]
<1>3. conn' = [conn EXCEPT ![c] = k]
  BY <1>1, <1>2
<1> HIDE DEF c
<1>4. k \in Connection /\ k.pc = to /\ k.req = conn[c].req /\ k.body = conn[c].body /\ k.buf = conn[c].buf
      /\ k.status = conn[c].status
  BY <1>2 DEF Connection, Serving, Reading
<1> HIDE DEF k
<1>5. conn[c].body = 0 /\ conn[c].buf = 0 /\ conn[c].status = 0 /\ conn[c].req \in Requests
  BY <1>1, <1>2 DEF Sound
<1>6. ServerThreads' = (IF to = "head" THEN ServerThreads \cup {c} ELSE ServerThreads) /\ c \notin ServerThreads
      /\ conn' \in [Clients -> Connection] /\ conn'[c] = k /\ \A d \in Clients : d # c => conn'[d] = conn[d]
  <2>1. /\ conn' \in [Clients -> Connection] /\ conn'[c] = k
        /\ \A d \in Clients : d # c => conn'[d] = conn[d]
        /\ ServerThreads' = IF k.pc \in Serving THEN ServerThreads \cup {c} ELSE ServerThreads \ {c}
    BY <1>1, <1>2, <1>3, <1>4, OneMoves
  <2>2. c \notin ServerThreads
    BY <1>1 DEF ServerThreads, Reading
  <2>3. k.pc \in Serving <=> to = "head"
    BY <1>4 DEF Serving, Reading
  <2>4. QED
    BY <2>1, <2>2, <2>3
<1>7. Sound(k)
  <2>1. k.body <= max_body_bytes /\ k.buf <= max_head_bytes + 1
    BY <1>4, <1>5, HttpAssumption
  <2>2. QED
    BY <1>4, <1>5, <2>1 DEF Sound, Passed, Serving, Reading
<1>8. Shapes'
  <2>1. acceptor' \in [pc : {"accept", "count", "spawn", "done"}, holds : Clients \cup {NoClient}]
    OBVIOUS
  <2>2. QED
    BY <1>2, <1>6, <2>1 DEF Shapes
<1>9. \A d \in Clients : Sound(conn'[d])
  <2>1. \A d \in Clients : conn'[d] = k \/ conn'[d] = conn[d]
    BY <1>6
  <2>2. QED
    BY <1>7, <2>1 DEF HttpInvariant
<1>10. Line'
  <2>1. \A i \in DOMAIN backlog : IF backlog[i] = Waker THEN serverStop ELSE conn'[backlog[i]].pc = "queued"
    <3>1. \A i \in DOMAIN backlog : backlog[i] = Waker \/ (backlog[i] \in Clients /\ conn'[backlog[i]] = conn[backlog[i]])
      BY <1>1, <1>2, <1>6 DEF Shapes
    <3>2. QED
      BY <3>1 DEF HttpInvariant, Line
  <2>2. QED
    BY <2>1 DEF HttpInvariant, Line
<1>11. ActiveIsThreads'
  <2>1. IsFiniteSet(ServerThreads) /\ Cardinality(ServerThreads) \in Nat
    BY ThreadsFinite
  <2>2. Cardinality(ServerThreads \cup {c}) = Cardinality(ServerThreads) + 1
    BY <1>6, <2>1, FS_AddElement
  <2>3. connectionsActive = Cardinality(ServerThreads) + (IF acceptor.pc = "spawn" THEN 1 ELSE 0)
    BY DEF HttpInvariant, ActiveIsThreads
  <2>4. connectionsActive' = Cardinality(ServerThreads')
    BY <1>6, <2>1, <2>2, <2>3
  <2>5. QED
    BY <2>1, <2>2, <2>4, <1>6 DEF ActiveIsThreads
<1>12. Ending'
  BY DEF HttpInvariant, Ending
<1>13. QED
  BY <1>8, <1>9, <1>10, <1>11, <1>12 DEF HttpInvariant

(* The cap is judged and the connection counted, or let go.                *)
LEMMA AcceptorKeeps ==
    ASSUME HttpInvariant, Admit \/ Spawn \/ SpawnFails
    PROVE  HttpInvariant'
<1>0. Shapes /\ connectionsActive \in Nat /\ max_connections \in Nat /\ connectionsActive <= max_connections
  BY HttpAssumption DEF HttpInvariant, Shapes
<1>1. CASE Admit
  <2>1. CASE ConnectionRoom
    <3>1. /\ acceptor.pc = "count" /\ acceptor' = [acceptor EXCEPT !.pc = "spawn"] /\ conn' = conn
          /\ connectionsActive' = connectionsActive + 1
          /\ UNCHANGED <<backlog, serverStop, closing, spawnFaults>>
      BY <1>1, <2>1 DEF Admit
    <3>2. acceptor'.pc = "spawn" /\ acceptor'.holds = acceptor.holds
          /\ acceptor' \in [pc : {"accept", "count", "spawn", "done"}, holds : Clients \cup {NoClient}]
      BY <1>0, <3>1 DEF Shapes
    <3>3. Shapes'
      BY <1>0, <2>1, <3>1, <3>2 DEF Shapes, ConnectionRoom
    <3>4. ServerThreads' = ServerThreads
      BY <3>1 DEF ServerThreads
    <3>5. ActiveIsThreads'
      BY <1>0, <3>1, <3>2, <3>4, ThreadsFinite DEF HttpInvariant, ActiveIsThreads
    <3>6. Line' /\ Ending'
      BY <3>1, <3>2 DEF HttpInvariant, Line, Ending
    <3>7. QED
      BY <3>1, <3>3, <3>5, <3>6 DEF HttpInvariant
  <2>2. CASE ~ConnectionRoom
    <3>1. /\ acceptor.pc = "count" /\ acceptor' = [pc |-> "accept", holds |-> NoClient]
          /\ conn' = [conn EXCEPT ![acceptor.holds].pc = "gone"]
          /\ connectionsActive' = connectionsActive
          /\ backlog' = backlog /\ serverStop' = serverStop /\ closing' = closing /\ spawnFaults' = spawnFaults
      BY <1>1, <2>2 DEF Admit
    <3>2. /\ connectionsActive' = connectionsActive + (IF "gone" = "head" THEN 1 ELSE 0)
                                                    - (IF acceptor.pc = "spawn" THEN 1 ELSE 0)
          /\ spawnFaults' \in Nat /\ connectionsActive' \in 0 .. max_connections
      BY <1>0, <3>1 DEF Shapes
    <3>3. QED
      BY <3>1, <3>2, Released
  <2>3. QED
    BY <2>1, <2>2
<1>2. CASE Spawn
  <2>1. /\ acceptor.pc = "spawn" /\ acceptor' = [pc |-> "accept", holds |-> NoClient]
        /\ conn' = [conn EXCEPT ![acceptor.holds].pc = "head"]
        /\ connectionsActive' = connectionsActive
        /\ backlog' = backlog /\ serverStop' = serverStop /\ closing' = closing /\ spawnFaults' = spawnFaults
    BY <1>2 DEF Spawn
  <2>2. /\ connectionsActive' = connectionsActive + (IF "head" = "head" THEN 1 ELSE 0)
                                                  - (IF acceptor.pc = "spawn" THEN 1 ELSE 0)
        /\ spawnFaults' \in Nat /\ connectionsActive' \in 0 .. max_connections
    BY <1>0, <2>1 DEF Shapes
  <2>3. QED
    BY <2>1, <2>2, Released
<1>3. CASE SpawnFails
  <2>1. /\ acceptor.pc = "spawn" /\ acceptor' = [pc |-> "accept", holds |-> NoClient]
        /\ conn' = [conn EXCEPT ![acceptor.holds].pc = "gone"]
        /\ connectionsActive' = connectionsActive - 1
        /\ backlog' = backlog /\ serverStop' = serverStop /\ closing' = closing /\ spawnFaults' = spawnFaults + 1
    BY <1>3 DEF SpawnFails, UncountedConnection
  <2>2. connectionsActive >= 1
    BY <2>1, ThreadsFinite DEF HttpInvariant, ActiveIsThreads
  <2>3. /\ connectionsActive' = connectionsActive + (IF "gone" = "head" THEN 1 ELSE 0)
                                                  - (IF acceptor.pc = "spawn" THEN 1 ELSE 0)
        /\ spawnFaults' \in Nat /\ connectionsActive' \in 0 .. max_connections
    BY <1>0, <2>1, <2>2 DEF Shapes
  <2>4. QED
    BY <2>1, <2>3, Released
<1>4. QED
  BY <1>1, <1>2, <1>3

(* The stop flag and the wake-up; the wait.                                *)
LEMMA ShutdownKeeps ==
    ASSUME HttpInvariant, Shutdown \/ Join \/ WaitEnded
    PROVE  HttpInvariant'
<1>0. Shapes /\ backlog \in Seq(Clients \cup {Waker}) /\ ServerThreads' = ServerThreads
  BY DEF HttpInvariant, Shapes, Shutdown, Join, WaitEnded, ServerThreads
<1>1. CASE Shutdown
  <2>1. /\ closing = "no" /\ closing' = "join" /\ serverStop' = TRUE /\ backlog' = Append(backlog, Waker)
        /\ UNCHANGED <<acceptor, connectionsActive, conn, spawnFaults>>
    BY <1>1 DEF Shutdown
  <2>2. \A i \in DOMAIN backlog' :
           \/ i \in DOMAIN backlog /\ backlog'[i] = backlog[i]
           \/ i = Len(backlog) + 1 /\ backlog'[i] = Waker
    BY <1>0, <2>1
  <2>3. Shapes'
    <3>1. backlog' \in Seq(Clients \cup {Waker})
      BY <1>0, <2>1
    <3>2. QED
      BY <1>0, <2>1, <3>1 DEF Shapes
  <2>4. Line'
    <3>1. \A i, j \in DOMAIN backlog' : backlog'[i] = backlog'[j] /\ backlog'[i] # Waker => i = j
      BY <2>2 DEF HttpInvariant, Line
    <3>2. acceptor.pc \in {"count", "spawn"} => \A i \in DOMAIN backlog' : backlog'[i] # acceptor.holds
      BY <2>2, HttpAssumption DEF HttpInvariant, Line
    <3>3. acceptor.pc # "done" => \A i \in DOMAIN backlog' : backlog'[i] = Waker \/ conn[backlog'[i]].pc = "queued"
      BY <2>2 DEF HttpInvariant, Line
    <3>4. QED
      BY <2>1, <3>1, <3>2, <3>3 DEF HttpInvariant, Line
  <2>5. ActiveIsThreads' /\ Ending'
    BY <1>0, <2>1 DEF HttpInvariant, ActiveIsThreads, Ending
  <2>6. QED
    BY <2>1, <2>3, <2>4, <2>5 DEF HttpInvariant
<1>2. CASE Join \/ WaitEnded
  <2>1. /\ UNCHANGED <<backlog, acceptor, connectionsActive, conn, serverStop, spawnFaults>>
        /\ closing' \in {"wait", "drained", "gave_up"} /\ acceptor.pc = "done"
        /\ closing' = "drained" => connectionsActive = 0
    BY <1>2 DEF Join, WaitEnded, HttpInvariant, Ending
  <2>2. Shapes' /\ Line' /\ ActiveIsThreads' /\ Ending'
    BY <1>0, <2>1 DEF HttpInvariant, Shapes, Line, ActiveIsThreads, Ending
  <2>3. QED
    BY <2>1, <2>2 DEF HttpInvariant
<1>3. QED
  BY <1>1, <1>2

(* The invariant holds at the start.                                       *)
LEMMA HttpInitInv ==
    ASSUME HttpInit
    PROVE  HttpInvariant
<1>1. /\ backlog = <<>> /\ acceptor = [pc |-> "accept", holds |-> NoClient]
      /\ connectionsActive = 0 /\ serverStop = FALSE /\ closing = "no" /\ spawnFaults = 0
      /\ conn = [c \in Clients |-> IdleConnection]
  BY DEF HttpInit
<1>2. IdleConnection \in Connection
  BY DEF IdleConnection, Connection
<1>3. Sound(IdleConnection)
  BY <1>2 DEF Sound, IdleConnection, Serving, Reading
<1>4. Shapes
  <2>1. conn \in [Clients -> Connection]
    BY <1>1, <1>2
  <2>2. backlog \in Seq(Clients \cup {Waker})
    BY <1>1
  <2>3. acceptor \in [pc : {"accept", "count", "spawn", "done"}, holds : Clients \cup {NoClient}]
    BY <1>1
  <2>4. 0 \in 0 .. max_connections
    BY HttpAssumption
  <2>5. QED
    BY <1>1, <2>1, <2>2, <2>3, <2>4 DEF Shapes
<1>5. ServerThreads = {}
  BY <1>1 DEF ServerThreads, IdleConnection, Reading
<1>6. ActiveIsThreads
  BY <1>1, <1>5, FS_EmptySet DEF ActiveIsThreads
<1>7. Line /\ Ending
  BY <1>1 DEF Line, Ending
<1>8. QED
  BY <1>1, <1>3, <1>4, <1>6, <1>7 DEF HttpInvariant

(* Every step keeps the invariant.                                         *)
LEMMA HttpStepsKeep ==
    ASSUME HttpInvariant, [HttpNext]_httpVars
    PROVE  HttpInvariant'
<1>1. CASE UNCHANGED httpVars
  <2>1. UNCHANGED <<backlog, acceptor, connectionsActive, conn, serverStop, closing, spawnFaults>>
    BY <1>1 DEF httpVars
  <2>2. ServerThreads' = ServerThreads
    BY <2>1 DEF ServerThreads
  <2>3. QED
    BY <2>1, <2>2 DEF HttpInvariant, Shapes, Line, ActiveIsThreads, Ending
<1>2. QED
  BY <1>1, ConnectKeeps, ClientKeeps, HttpStepKeeps, AcceptKeeps, AcceptorKeeps, ShutdownKeeps DEF HttpNext

(* The invariant the runs check of the listener, for any finite number of  *)
(* clients, any requests and any limits: the count of bounded_http.rs is   *)
(* that of its threads and stays within the cap, what a handler is given   *)
(* came whole and let through, no client makes a thread buffer more than   *)
(* the limits, and a shutdown that did not give up has left no thread.     *)
THEOREM HttpSafe == HttpSpec => []HttpInv
<1>1. HttpInit => HttpInvariant
  BY HttpInitInv
<1>2. HttpInvariant /\ [HttpNext]_httpVars => HttpInvariant'
  BY HttpStepsKeep
<1>3. ASSUME HttpInvariant PROVE HttpInv
  <2>0. Cardinality(ServerThreads) \in Nat /\ IsFiniteSet(ServerThreads)
    BY ThreadsFinite
  <2>1. HttpTypeOK
    <3>1. Cardinality(ServerThreads) <= max_connections
      BY <1>3, <2>0, HttpAssumption DEF HttpInvariant, Shapes, ActiveIsThreads
    <3>2. QED
      BY <1>3, <3>1 DEF HttpInvariant, Shapes, HttpTypeOK
  <2>2. HandledIsWhole
    BY <1>3 DEF HttpInvariant, Sound, Passed, HandledIsWhole
  <2>3. MemoryIsBounded
    BY <1>3 DEF HttpInvariant, Sound, MemoryIsBounded, ServerThreads, Serving
  <2>4. DrainedIsQuiet
    <3>1. ASSUME closing = "drained" PROVE ServerThreads = {}
      <4>1. Cardinality(ServerThreads) = 0
        BY <1>3, <2>0, <3>1 DEF HttpInvariant, Ending, ActiveIsThreads
      <4>2. QED
        BY <2>0, <4>1, FS_EmptySet
    <3>2. QED
      BY <3>1 DEF DrainedIsQuiet
  <2>5. QED
    BY <1>3, <2>1, <2>2, <2>3, <2>4 DEF HttpInv, HttpInvariant
<1>4. QED
  BY <1>1, <1>2, <1>3, PTL DEF HttpSpec

-----------------------------------------------------------------------------
(* HecRequests. The counters are related to what was handed over by naming *)
(* each record <<n, i>>, by the number of its request and its place in the *)
(* body; that needs no two batches to have the same number, which is what  *)
(* Numbered says through all the steps of a request.                       *)

(* A connection of the receiver.                                           *)
Conns == [at : {"idle", "head", "body", "handle", "done"}, request : HecInputs \cup {NoRequest}, reply : Nat, n : Nat]

(* Types, and that only a finite number of records was handed over.        *)
HecShape ==
    /\ hecConn \in [Connections -> Conns] /\ hecStats \in [HecStat -> Nat]
    /\ sent \in Nat /\ pollsRefused \in Nat /\ tokenGood \in BOOLEAN
    /\ IsFiniteSet(handedOver)
    /\ \A b \in handedOver : b.n \in 1..sent /\ IsFiniteSet(DOMAIN b.records)

(* Requests are numbered as they arrive: no two connections answer the     *)
(* same one, and no batch handed over is that of a request still under     *)
(* way.                                                                    *)
Numbered ==
    /\ \A c \in Connections : hecConn[c].at # "idle" => hecConn[c].n \in 1..sent /\ hecConn[c].request \in HecInputs
    /\ \A c \in Connections : hecConn[c].at = "idle" => hecConn[c].n = 0
    /\ \A c, d \in Connections :
          hecConn[c].at # "idle" /\ hecConn[d].at # "idle" /\ hecConn[c].n = hecConn[d].n => c = d
    /\ \A b, d \in handedOver : b.n = d.n => b = d
    /\ \A c \in Connections, b \in handedOver : hecConn[c].at \in {"head", "body", "handle"} => b.n # hecConn[c].n

(* The inductive invariant of HecRequests: the records counted are the     *)
(* records handed over.                                                    *)
HecInvariant ==
    /\ HecShape /\ Numbered /\ RefusedUnread /\ StoredIsWhole /\ ExitsAccountButPolls
    /\ hecStats.records = Cardinality(RecordsIn(handedOver))

(* The events of a request are a sequence.                                 *)
LEMMA RequestsAreSequences ==
    ASSUME NEW request \in HecInputs
    PROVE  /\ request.events \in Seq(ToSet(request.events)) /\ Len(request.events) \in Nat
           /\ DOMAIN request.events = 1..Len(request.events)
<1>1. request.events \in Seq(ToSet(request.events))
  BY HecRequestsAssumption
<1> QED BY <1>1

(* A body that is taken gives one record per event.                        *)
LEMMA RecordsOfAll ==
    ASSUME NEW request \in HecInputs
    PROVE  /\ DOMAIN RecordsOf(request) = 1..Len(request.events)
           /\ Len(RecordsOf(request)) = Len(request.events)
<1> DEFINE F(i) == IF request.path = "raw"
        THEN [index |-> request.query.index, severity |-> SeverityInLine(request.events[i].words)]
        ELSE RecordFrom(request.events[i], request.query)
<1>1. RecordsOf(request) = [i \in 1..Len(request.events) |-> F(i)]
  BY RequestsAreSequences DEF RecordsOf
<1> HIDE DEF F
<1>2. Len(request.events) \in Nat
  BY RequestsAreSequences
<1> DEFINE S == {F(i) : i \in 1..Len(request.events)}
<1>3. RecordsOf(request) \in [1..Len(request.events) -> S]
  BY <1>1
<1>4. RecordsOf(request) \in Seq(S)
  BY <1>2, <1>3
<1> QED BY <1>1, <1>2, <1>4

(* The records of one batch are as many as its length.                     *)
LEMMA SegmentFinite ==
    ASSUME NEW k \in Nat, NEW n
    PROVE  /\ IsFiniteSet({<<n, i>> : i \in 1..k})
           /\ Cardinality({<<n, i>> : i \in 1..k}) = k
<1> DEFINE T == {<<n, i>> : i \in 1..k}
           f == [i \in 1..k |-> <<n, i>>]
<1>1. f \in Bijection(1..k, T)
  <2>1. f \in [1..k -> T]
    OBVIOUS
  <2>2. \A a, b \in 1..k : f[a] = f[b] => a = b
    OBVIOUS
  <2>3. \A t \in T : \E a \in 1..k : f[a] = t
    OBVIOUS
  <2> QED BY <2>1, <2>2, <2>3 DEF Bijection, Injection, Surjection, IsInjective
<1>2. IsFiniteSet(1..k) /\ Cardinality(1..k) = k
  BY FS_Interval, 0 \in Int, 1 \in Int, k \in Int
<1>3. ExistsBijection(1..k, T)
  BY <1>1 DEF ExistsBijection
<1> QED BY <1>2, <1>3, FS_Bijection

(* The records of finitely many batches are finitely many.                 *)
LEMMA RecordsFinite ==
    ASSUME NEW bs, IsFiniteSet(bs), \A b \in bs : IsFiniteSet(DOMAIN b.records)
    PROVE  IsFiniteSet(RecordsIn(bs))
<1> DEFINE C == {{<<b.n, i>> : i \in DOMAIN b.records} : b \in bs}
<1>1. IsFiniteSet(C)
  <2> DEFINE g == [b \in bs |-> {<<b.n, i>> : i \in DOMAIN b.records}]
  <2>1. g \in Surjection(bs, C)
    BY DEF Surjection
  <2> QED BY <2>1, FS_Surjection
<1>2. ASSUME NEW x \in C PROVE IsFiniteSet(x)
  <2>1. PICK b \in bs : x = {<<b.n, i>> : i \in DOMAIN b.records}
    OBVIOUS
  <2> DEFINE h == [i \in DOMAIN b.records |-> <<b.n, i>>]
  <2>2. h \in Surjection(DOMAIN b.records, x)
    BY <2>1 DEF Surjection
  <2> QED BY <2>2, FS_Surjection
<1> QED BY <1>1, <1>2, FS_UNION DEF RecordsIn

(* Counting an answer: one request and one exit, or a refused              *)
(* acknowledgement poll, which counts an exit and no request.              *)
LEMMA HecCounts ==
    ASSUME hecStats \in [HecStat -> Nat], pollsRefused \in Nat, ExitsAccountButPolls, NEW names, Count(One(names)),
           \/ names \in {{}, {"ack_queries"}} /\ pollsRefused' = pollsRefused
           \/ names = {"unauthorized"} /\ pollsRefused' = pollsRefused + 1
           \/ \E e \in Exits : names = {"requests", e} /\ pollsRefused' = pollsRefused
    PROVE  /\ hecStats' \in [HecStat -> Nat] /\ pollsRefused' \in Nat /\ ExitsAccountButPolls'
           /\ hecStats'.records = hecStats.records
<1> DEFINE o == One(names)
<1>1. o \in [HecStat -> {0, 1}] /\ \A s \in HecStat : o[s] = IF s \in names THEN 1 ELSE 0
  BY DEF One
<1>2. /\ "requests" \in HecStat /\ "records" \in HecStat /\ "accepted" \in HecStat /\ "busy" \in HecStat
      /\ "unauthorized" \in HecStat /\ "bad_request" \in HecStat /\ "too_large" \in HecStat
  BY DEF HecStat, Exits
<1>3. hecStats' = [s \in HecStat |-> hecStats[s] + o[s]]
  BY DEF Count
<1> HIDE DEF o
<1>4. hecStats' \in [HecStat -> Nat] /\ \A s \in HecStat : hecStats'[s] = hecStats[s] + o[s]
  BY <1>1, <1>3
<1>5. \A s \in HecStat : hecStats[s] \in Nat
  OBVIOUS
<1>6. hecStats.requests + pollsRefused = hecStats.accepted + hecStats.busy + hecStats.unauthorized + hecStats.bad_request + hecStats.too_large
  BY DEF ExitsAccountButPolls, ExitsTaken
<1>7. pollsRefused' \in Nat
  OBVIOUS
<1>8. hecStats'.requests + pollsRefused' = hecStats'.accepted + hecStats'.busy + hecStats'.unauthorized + hecStats'.bad_request + hecStats'.too_large
  <2>1. CASE names \in {{}, {"ack_queries"}} /\ pollsRefused' = pollsRefused
    BY <1>1, <1>2, <1>4, <1>5, <1>6, <2>1
  <2>2. CASE names = {"unauthorized"} /\ pollsRefused' = pollsRefused + 1
    BY <1>1, <1>2, <1>4, <1>5, <1>6, <2>2
  <2>3. CASE \E e \in Exits : names = {"requests", e} /\ pollsRefused' = pollsRefused
    <3>1. PICK e \in Exits : names = {"requests", e} /\ pollsRefused' = pollsRefused
      BY <2>3
    <3>2. e \in {"accepted", "busy", "unauthorized", "bad_request", "too_large"}
      BY DEF Exits
    <3> QED BY <1>1, <1>2, <1>4, <1>5, <1>6, <3>1, <3>2
  <2> QED BY <2>1, <2>2, <2>3
<1>9. o.records = 0
  BY <1>1, <1>2 DEF Exits
<1> QED BY <1>2, <1>4, <1>5, <1>7, <1>8, <1>9 DEF ExitsAccountButPolls, ExitsTaken

(* Counting an accepted body counts its records too.                       *)
LEMMA HecAcceptCounts ==
    ASSUME hecStats \in [HecStat -> Nat], pollsRefused \in Nat, ExitsAccountButPolls, NEW records, Len(records) \in Nat,
           Count(AcceptedCounts(records)), pollsRefused' = pollsRefused
    PROVE  /\ hecStats' \in [HecStat -> Nat] /\ ExitsAccountButPolls'
           /\ hecStats'.records = hecStats.records + Len(records)
<1> DEFINE o == AcceptedCounts(records)
<1>2. /\ "requests" \in HecStat /\ "records" \in HecStat /\ "accepted" \in HecStat /\ "busy" \in HecStat
      /\ "unauthorized" \in HecStat /\ "bad_request" \in HecStat /\ "too_large" \in HecStat
  BY DEF HecStat, Exits
<1>1. /\ o \in [HecStat -> Nat] /\ o.records = Len(records) /\ o.requests = 1 /\ o.accepted = 1
      /\ o.busy = 0 /\ o.unauthorized = 0 /\ o.bad_request = 0 /\ o.too_large = 0
  <2> DEFINE u == One({"requests", "accepted"})
  <2>1. u \in [HecStat -> Nat] /\ \A s \in HecStat : u[s] = IF s \in {"requests", "accepted"} THEN 1 ELSE 0
    BY DEF One
  <2>2. o = [u EXCEPT !.records = Len(records)]
    BY DEF AcceptedCounts
  <2> HIDE DEF u, o
  <2> QED BY <1>2, <2>1, <2>2
<1>3. hecStats' = [s \in HecStat |-> hecStats[s] + o[s]]
  BY DEF Count
<1> HIDE DEF o
<1>4. hecStats' \in [HecStat -> Nat] /\ \A s \in HecStat : hecStats'[s] = hecStats[s] + o[s]
  BY <1>1, <1>3
<1>5. \A s \in HecStat : hecStats[s] \in Nat
  OBVIOUS
<1>6. hecStats.requests + pollsRefused = hecStats.accepted + hecStats.busy + hecStats.unauthorized + hecStats.bad_request + hecStats.too_large
  BY DEF ExitsAccountButPolls, ExitsTaken
<1>7. /\ hecStats'.requests = hecStats.requests + 1 /\ hecStats'.accepted = hecStats.accepted + 1
      /\ hecStats'.busy = hecStats.busy + 0 /\ hecStats'.unauthorized = hecStats.unauthorized + 0
      /\ hecStats'.bad_request = hecStats.bad_request + 0 /\ hecStats'.too_large = hecStats.too_large + 0
      /\ hecStats'.records = hecStats.records + Len(records)
  BY ONLY <1>1, <1>2, <1>4
<1>8. hecStats'.requests + pollsRefused' = hecStats'.accepted + hecStats'.busy + hecStats'.unauthorized + hecStats'.bad_request + hecStats'.too_large
  <2>1. /\ hecStats.requests \in Nat /\ hecStats.accepted \in Nat /\ hecStats.busy \in Nat
        /\ hecStats.unauthorized \in Nat /\ hecStats.bad_request \in Nat /\ hecStats.too_large \in Nat
    BY ONLY <1>2, <1>5
  <2>2. pollsRefused' = pollsRefused /\ pollsRefused \in Nat
    OBVIOUS
  <2>3. ASSUME NEW r \in Nat, NEW p \in Nat, NEW a \in Nat, NEW b \in Nat, NEW u \in Nat, NEW d \in Nat, NEW t \in Nat,
               r + p = a + b + u + d + t
        PROVE  (r + 1) + p = (a + 1) + (b + 0) + (u + 0) + (d + 0) + (t + 0)
    BY ONLY <2>3
  <2>4. (hecStats.requests + 1) + pollsRefused = (hecStats.accepted + 1) + (hecStats.busy + 0)
          + (hecStats.unauthorized + 0) + (hecStats.bad_request + 0) + (hecStats.too_large + 0)
    BY ONLY <1>6, <2>1, <2>2, <2>3
  <2> QED BY ONLY <1>7, <2>2, <2>4
<1> QED BY <1>4, <1>7, <1>8 DEF ExitsAccountButPolls, ExitsTaken

(* A receiver that has seen no request satisfies the invariant.            *)
LEMMA HecInitially == HecInit => HecInvariant
<1> SUFFICES ASSUME HecInit PROVE HecInvariant
  OBVIOUS
<1>1. IdleConn \in Conns
  BY DEF IdleConn, Conns
<1>2. IsFiniteSet(handedOver) /\ RecordsIn(handedOver) = {} /\ Cardinality({}) = 0
  BY FS_EmptySet DEF HecInit, RecordsIn
<1>3. HecShape
  BY <1>1, <1>2 DEF HecInit, HecShape
<1>4. Numbered /\ RefusedUnread /\ StoredIsWhole
  BY DEF HecInit, Numbered, IdleConn, RefusedUnread, StoredIsWhole
<1>5. ExitsAccountButPolls /\ hecStats.records = 0
  BY DEF HecInit, ExitsAccountButPolls, ExitsTaken, HecStat, Exits
<1> QED BY <1>2, <1>3, <1>4, <1>5 DEF HecInvariant

(* A request that arrives takes a new number.                              *)
LEMMA HecArriveKeeps == HecInvariant /\ (\E c \in Connections : Arrive(c)) => HecInvariant'
<1> SUFFICES ASSUME HecInvariant, NEW c \in Connections, Arrive(c) PROVE HecInvariant'
  OBVIOUS
<1> USE DEF HecInvariant
<1>1. PICK request \in HecInputs :
        /\ hecConn[c].at = "idle" /\ sent < MaxHecRequests /\ sent' = sent + 1
        /\ hecConn' = [hecConn EXCEPT ![c] = [at |-> "head", request |-> request, reply |-> 0, n |-> sent + 1]]
        /\ UNCHANGED <<hecStats, tokenGood, handedOver, pollsRefused>>
  BY DEF Arrive
<1>2. sent \in Nat /\ sent + 1 \in Nat
  BY DEF HecShape
<1>3. [at |-> "head", request |-> request, reply |-> 0, n |-> sent + 1] \in Conns
  BY <1>2 DEF Conns
<1>4. HecShape'
  BY <1>1, <1>2, <1>3 DEF HecShape
<1>5. /\ hecConn'[c] = [at |-> "head", request |-> request, reply |-> 0, n |-> sent + 1]
      /\ \A d \in Connections : d # c => hecConn'[d] = hecConn[d]
  BY <1>1 DEF HecShape
<1>6. Numbered'
  <2>1. \A d \in Connections : hecConn[d].n \in Nat
    BY DEF HecShape, Conns
  <2>2. \A b \in handedOver : b.n \in 1..sent
    BY DEF HecShape
  <2> QED BY <1>1, <1>2, <1>5, <2>1, <2>2 DEF Numbered
<1>7. RefusedUnread'
  BY <1>5 DEF RefusedUnread
<1>8. StoredIsWhole'
  <2>1. \A b \in handedOver : b.n # sent + 1
    BY <1>2 DEF HecShape
  <2> QED BY <1>1, <1>5, <2>1 DEF StoredIsWhole
<1> QED BY <1>1, <1>4, <1>6, <1>7, <1>8 DEF ExitsAccountButPolls, ExitsTaken

(* A step that moves one connection on and hands nothing over.             *)
LEMMA HecMoves ==
    ASSUME HecInvariant, NEW c \in Connections, NEW to \in {"body", "handle", "done"}, NEW reply \in Nat,
           HecStep(c, to, reply), hecConn[c].at \in {"head", "body", "handle"}, reply # 200 \/ hecConn[c].request.path \notin EventPaths,
           to \in {"body", "handle"} /\ hecConn[c].request.path \in EventPaths \cup {"ack"} => hecOpen \/ hecConn[c].request.auth = "good",
           UNCHANGED <<handedOver, sent, tokenGood>>, hecStats' \in [HecStat -> Nat], pollsRefused' \in Nat,
           ExitsAccountButPolls', hecStats'.records = hecStats.records
    PROVE  HecInvariant'
<1> USE DEF HecInvariant
<1>1. hecConn' = [hecConn EXCEPT ![c].at = to, ![c].reply = reply]
  BY DEF HecStep
<1>2. hecConn[c] \in Conns /\ hecConn \in [Connections -> Conns]
  BY DEF HecShape
<1>3. /\ hecConn'[c] = [hecConn[c] EXCEPT !.at = to, !.reply = reply]
      /\ \A d \in Connections : d # c => hecConn'[d] = hecConn[d]
      /\ DOMAIN hecConn' = Connections
  BY <1>1, <1>2
<1>4. [hecConn[c] EXCEPT !.at = to, !.reply = reply] \in Conns
  BY <1>2 DEF Conns
<1>5. hecConn' \in [Connections -> Conns]
  BY <1>1, <1>2, <1>4
<1>6. HecShape'
  BY <1>5 DEF HecShape
<1>7. hecConn'[c].at = to /\ hecConn'[c].reply = reply /\ hecConn'[c].n = hecConn[c].n /\ hecConn'[c].request = hecConn[c].request
  BY <1>2, <1>3 DEF Conns
<1> HIDE DEF HecInvariant
<1>8. Numbered'
  <2>1. \A d \in Connections : /\ hecConn'[d].n = hecConn[d].n /\ hecConn'[d].request = hecConn[d].request
                               /\ (hecConn'[d].at = "idle") = (hecConn[d].at = "idle")
                               /\ hecConn'[d].at \in {"head", "body", "handle"} => hecConn[d].at \in {"head", "body", "handle"}
    BY <1>3, <1>7
  <2>2. handedOver' = handedOver /\ sent' = sent /\ Numbered
    BY DEF HecInvariant
  <2> QED BY ONLY <2>1, <2>2 DEF Numbered
<1>9. RefusedUnread'
  BY <1>3, <1>7 DEF RefusedUnread, HecInvariant
<1>10. \A b \in handedOver : b.n # hecConn[c].n
  BY DEF Numbered, HecInvariant
<1>11. StoredIsWhole'
  <2> SUFFICES ASSUME NEW d \in Connections
               PROVE  LET request == hecConn'[d].request
                          mine == {b \in handedOver' : b.n = hecConn'[d].n}
                      IN /\ hecConn'[d].at = "done" /\ request.path \in EventPaths =>
                               (hecConn'[d].reply = 200) = (mine # {})
                         /\ hecConn'[d].at # "idle" => \A b \in mine : Len(b.records) = Len(request.events)
    BY DEF StoredIsWhole
  <2>1. CASE d = c
    BY <1>7, <1>10, <2>1
  <2>2. CASE d # c
    BY <1>3, <2>2 DEF StoredIsWhole, HecInvariant
  <2> QED BY <2>1, <2>2
<1> QED BY <1>6, <1>8, <1>9, <1>11 DEF HecInvariant

(* What the verdict on a head can be, and which counters each verdict adds *)
(* to.                                                                     *)
LEMMA HecHeadVerdicts ==
    ASSUME NEW request
    PROVE  LET verdict == HeadVerdict(request) IN
           \/ /\ verdict.status = 0 /\ verdict.already = {} /\ verdict.counter = {}
              /\ Judges(request) => Authorized(request)
           \/ /\ verdict.status \in {400, 403, 415} /\ verdict.already = {} /\ Judges(request)
              /\ verdict.counter \in {{"unauthorized"}, {"bad_request"}}
           \/ /\ verdict.status \in {401, 403} /\ verdict.already = {"unauthorized"} /\ verdict.counter = {} /\ Judges(request)
<1> DEFINE stranger == hecOpen /\ request.browser
           denied == ~stranger /\ ~Authorized(request)
           twice == ~stranger /\ ~denied /\ request.channel = "twice"
           encoded == ~stranger /\ ~denied /\ ~twice /\ request.encoding = "other"
<1>0. HeadVerdict(request) =
      CASE Judges(request) /\ stranger -> [status |-> 403, already |-> {}, counter |-> {"unauthorized"}]
         [] Judges(request) /\ denied -> [status |-> StatusOf(request), already |-> {"unauthorized"}, counter |-> {}]
         [] Judges(request) /\ twice -> [status |-> 400, already |-> {}, counter |-> {"bad_request"}]
         [] Judges(request) /\ encoded -> [status |-> 415, already |-> {}, counter |-> {"bad_request"}]
         [] OTHER -> [status |-> 0, already |-> {}, counter |-> {}]
  BY DEF HeadVerdict
<1>1. StatusOf(request) \in {401, 403}
  BY DEF StatusOf
<1>2. CASE ~Judges(request)
  BY <1>0, <1>2
<1>3. CASE Judges(request) /\ stranger
  BY <1>0, <1>3
<1>4. CASE Judges(request) /\ denied
  BY <1>0, <1>1, <1>4
<1>5. CASE Judges(request) /\ twice
  BY <1>0, <1>5
<1>6. CASE Judges(request) /\ encoded
  BY <1>0, <1>6
<1>7. CASE Judges(request) /\ ~stranger /\ ~denied /\ ~twice /\ ~encoded
  BY <1>0, <1>7
<1> QED BY <1>2, <1>3, <1>4, <1>5, <1>6, <1>7

(* Judging the head keeps the invariant: a body is read only for a sender  *)
(* that was let in.                                                        *)
LEMMA HecPreflightKeeps == HecInvariant /\ (\E c \in Connections : Preflight(c)) => HecInvariant'
<1> SUFFICES ASSUME HecInvariant, NEW c \in Connections, Preflight(c) PROVE HecInvariant'
  OBVIOUS
<1> DEFINE request == hecConn[c].request
           verdict == HeadVerdict(request)
           names == HeadCounts(request, verdict)
           to == IF verdict.status = 0 THEN "body" ELSE "done"
<1>1. /\ hecConn[c].at = "head" /\ HecStep(c, to, verdict.status)
      /\ Count(One(names))
      /\ pollsRefused' = IF request.path = "ack" /\ "unauthorized" \in verdict.already THEN pollsRefused + 1 ELSE pollsRefused
      /\ UNCHANGED <<tokenGood, handedOver, sent>>
  BY DEF Preflight
<1>2. \/ /\ verdict.status = 0 /\ verdict.already = {} /\ verdict.counter = {}
         /\ Judges(request) => Authorized(request)
      \/ /\ verdict.status \in {400, 403, 415} /\ verdict.already = {} /\ Judges(request)
         /\ verdict.counter \in {{"unauthorized"}, {"bad_request"}}
      \/ /\ verdict.status \in {401, 403} /\ verdict.already = {"unauthorized"} /\ verdict.counter = {} /\ Judges(request)
  BY HecHeadVerdicts
<1>3. names = verdict.already \cup (IF request.path \in EventPaths /\ verdict.status # 0 THEN {"requests"} \cup verdict.counter ELSE {})
  BY DEF HeadCounts
<1> HIDE DEF verdict, names
<1>4. /\ Judges(request) <=> request.path \in {"event", "raw", "ack"}
      /\ EventPaths = {"event", "raw"}
  BY DEF Judges, EventPaths
<1> HIDE DEF request
<1>5. \/ names \in {{}, {"ack_queries"}} /\ pollsRefused' = pollsRefused
      \/ names = {"unauthorized"} /\ pollsRefused' = pollsRefused + 1
      \/ \E e \in Exits : names = {"requests", e} /\ pollsRefused' = pollsRefused
  <2>1. CASE verdict.status = 0 /\ verdict.already = {}
    BY <1>1, <1>3, <2>1
  <2>2. CASE verdict.status # 0 /\ verdict.already = {} /\ Judges(request) /\ verdict.counter \in {{"unauthorized"}, {"bad_request"}}
    <3>1. PICK e \in {"unauthorized", "bad_request"} : verdict.counter = {e}
      BY <2>2
    <3>2. e \in Exits
      BY DEF Exits
    <3>3. pollsRefused' = pollsRefused
      BY <1>1, <2>2
    <3>4. names \in {{}, {"requests", e}}
      BY <1>3, <2>2, <3>1
    <3> QED BY <3>2, <3>3, <3>4
  <2>3. CASE verdict.status # 0 /\ verdict.already = {"unauthorized"} /\ verdict.counter = {} /\ Judges(request)
    <3>1. CASE request.path \in EventPaths
      <4>1. pollsRefused' = pollsRefused
        BY <1>1, <1>4, <3>1
      <4>2. names = {"requests", "unauthorized"}
        BY <1>3, <2>3, <3>1
      <4>3. "unauthorized" \in Exits
        BY DEF Exits
      <4> QED BY <4>1, <4>2, <4>3
    <3>2. CASE request.path \notin EventPaths
      BY <1>1, <1>3, <1>4, <2>3, <3>2
    <3> QED BY <3>1, <3>2
  <2> QED BY <1>2, <2>1, <2>2, <2>3
<1>6. hecStats \in [HecStat -> Nat] /\ pollsRefused \in Nat /\ ExitsAccountButPolls
  BY DEF HecInvariant, HecShape
<1>7. /\ hecStats' \in [HecStat -> Nat] /\ pollsRefused' \in Nat /\ ExitsAccountButPolls'
      /\ hecStats'.records = hecStats.records
  BY <1>1, <1>5, <1>6, HecCounts
<1>8. to \in {"body", "done"} /\ verdict.status \in Nat /\ verdict.status # 200
  BY <1>2
<1>9. to = "body" /\ request.path \in EventPaths \cup {"ack"} => hecOpen \/ request.auth = "good"
  BY <1>2, <1>4 DEF Authorized
<1> HIDE DEF to
<1> QED BY <1>1, <1>7, <1>8, <1>9, HecMoves DEF request

(* Reading the body, with its three failures, keeps it.                    *)
LEMMA HecReadBodyKeeps == HecInvariant /\ (\E c \in Connections : ReadBody(c)) => HecInvariant'
<1> SUFFICES ASSUME HecInvariant, NEW c \in Connections, ReadBody(c) PROVE HecInvariant'
  OBVIOUS
<1> DEFINE body == hecConn[c].request.body
           to == IF body = "whole" THEN "handle" ELSE "done"
           reply == CASE body = "large" -> 413 [] body = "unreadable" -> 400 [] body = "stalled" -> 408 [] OTHER -> 0
           names == CASE body = "large" -> {"requests", "too_large"}
                      [] body = "unreadable" -> {"requests", "bad_request"}
                      [] OTHER -> {}
<1>1. /\ hecConn[c].at = "body" /\ HecStep(c, to, reply) /\ Count(One(names))
      /\ UNCHANGED <<tokenGood, handedOver, sent, pollsRefused>>
  BY DEF ReadBody
<1>2. reply \in Nat /\ reply # 200 /\ to \in {"handle", "done"}
  OBVIOUS
<1>3. names \in {{}} \/ \E e \in Exits : names = {"requests", e}
  BY DEF Exits
<1> HIDE DEF to, reply, names
<1>4. hecStats \in [HecStat -> Nat] /\ pollsRefused \in Nat /\ ExitsAccountButPolls
  BY DEF HecInvariant, HecShape
<1>5. /\ hecStats' \in [HecStat -> Nat] /\ pollsRefused' \in Nat /\ ExitsAccountButPolls'
      /\ hecStats'.records = hecStats.records
  BY <1>1, <1>3, <1>4, HecCounts
<1>6. hecConn[c].request.path \in EventPaths \cup {"ack"} => hecOpen \/ hecConn[c].request.auth = "good"
  BY <1>1 DEF HecInvariant, RefusedUnread
<1> QED BY <1>1, <1>2, <1>5, <1>6, HecMoves

(* An acknowledgement poll keeps it.                                       *)
LEMMA HecAckPollKeeps == HecInvariant /\ (\E c \in Connections : AckPoll(c)) => HecInvariant'
<1> SUFFICES ASSUME HecInvariant, NEW c \in Connections, AckPoll(c) PROVE HecInvariant'
  OBVIOUS
<1> DEFINE request == hecConn[c].request
           asked == Authorized(request) /\ ack_enabled /\ request.channel = "one"
           reply == IF ~Authorized(request) THEN StatusOf(request)
                    ELSE IF asked /\ request.events # <<>> THEN 200 ELSE 400
           names == IF asked THEN {"ack_queries"} ELSE IF Authorized(request) THEN {} ELSE {"unauthorized"}
<1>1. /\ hecConn[c].at = "handle" /\ request.path = "ack" /\ Count(One(names)) /\ HecStep(c, "done", reply)
      /\ pollsRefused' = IF Authorized(request) THEN pollsRefused ELSE pollsRefused + 1
      /\ UNCHANGED <<tokenGood, handedOver, sent>>
  BY DEF AckPoll
<1>2. reply \in Nat
  BY DEF StatusOf
<1>3. \/ names \in {{}, {"ack_queries"}} /\ pollsRefused' = pollsRefused
      \/ names = {"unauthorized"} /\ pollsRefused' = pollsRefused + 1
  BY <1>1
<1> HIDE DEF reply, names
<1>4. hecStats \in [HecStat -> Nat] /\ pollsRefused \in Nat /\ ExitsAccountButPolls
  BY DEF HecInvariant, HecShape
<1>5. /\ hecStats' \in [HecStat -> Nat] /\ pollsRefused' \in Nat /\ ExitsAccountButPolls'
      /\ hecStats'.records = hecStats.records
  BY <1>1, <1>3, <1>4, HecCounts
<1>6. request.path \notin EventPaths
  BY <1>1 DEF EventPaths
<1> QED BY <1>1, <1>2, <1>5, <1>6, HecMoves

(* The health check and an unknown path keep it.                           *)
LEMMA HecOtherKeeps == HecInvariant /\ (\E c \in Connections : OtherPath(c)) => HecInvariant'
<1> SUFFICES ASSUME HecInvariant, NEW c \in Connections, OtherPath(c) PROVE HecInvariant'
  OBVIOUS
<1> DEFINE reply == IF hecConn[c].request.path = "health" THEN 200 ELSE 404
<1>1. /\ hecConn[c].at = "handle" /\ hecConn[c].request.path \notin EventPaths \cup {"ack"} /\ HecStep(c, "done", reply)
      /\ UNCHANGED <<hecStats, tokenGood, handedOver, sent, pollsRefused>>
  BY DEF OtherPath
<1>2. reply \in Nat
  OBVIOUS
<1> HIDE DEF reply
<1>4. /\ hecStats' \in [HecStat -> Nat] /\ pollsRefused' \in Nat /\ ExitsAccountButPolls'
      /\ hecStats'.records = hecStats.records
  BY <1>1 DEF HecInvariant, HecShape, ExitsAccountButPolls, ExitsTaken
<1> QED BY <1>1, <1>2, <1>4, HecMoves

(* Closing a connection keeps it.                                          *)
LEMMA HecCloseKeeps == HecInvariant /\ (\E c \in Connections : Close(c)) => HecInvariant'
<1> SUFFICES ASSUME HecInvariant, NEW c \in Connections, Close(c) PROVE HecInvariant'
  OBVIOUS
<1>1. /\ hecConn[c].at = "done" /\ hecConn' = [hecConn EXCEPT ![c] = IdleConn]
      /\ UNCHANGED <<hecStats, tokenGood, handedOver, sent, pollsRefused>>
  BY DEF Close
<1>2. IdleConn \in Conns /\ IdleConn.at = "idle" /\ IdleConn.n = 0
  BY DEF IdleConn, Conns
<1>3. HecShape'
  BY <1>1, <1>2 DEF HecInvariant, HecShape
<1>4. hecConn'[c] = IdleConn /\ \A d \in Connections : d # c => hecConn'[d] = hecConn[d]
  BY <1>1 DEF HecInvariant, HecShape
<1>5. Numbered'
  BY <1>1, <1>2, <1>4 DEF HecInvariant, Numbered
<1>6. RefusedUnread'
  BY <1>1, <1>2, <1>4 DEF HecInvariant, RefusedUnread
<1>7. StoredIsWhole'
  BY <1>1, <1>2, <1>4 DEF HecInvariant, StoredIsWhole
<1> QED BY <1>1, <1>3, <1>5, <1>6, <1>7 DEF HecInvariant, ExitsAccountButPolls, ExitsTaken

(* A batch the pipeline took.                                              *)
(* Handing a body over keeps it: its records are new, so they add to the   *)
(* count as many as it has events.                                         *)
LEMMA HecHandOver ==
    ASSUME HecInvariant, NEW c \in Connections, hecConn[c].at = "handle", hecConn[c].request.path \in EventPaths,
           handedOver' = handedOver \cup {[n |-> hecConn[c].n, records |-> RecordsOf(hecConn[c].request)]},
           Count(AcceptedCounts(RecordsOf(hecConn[c].request))), HecStep(c, "done", 200),
           UNCHANGED <<tokenGood, sent, pollsRefused>>
    PROVE  HecInvariant'
<1> DEFINE request == hecConn[c].request
           records == RecordsOf(request)
           batch == [n |-> hecConn[c].n, records |-> records]
<1>1. request \in HecInputs /\ hecConn[c].n \in 1..sent
  BY DEF HecInvariant, Numbered
<1>2. DOMAIN records = 1..Len(request.events) /\ Len(records) = Len(request.events) /\ Len(request.events) \in Nat
  BY <1>1, RecordsOfAll, RequestsAreSequences
<1>3. /\ hecStats \in [HecStat -> Nat] /\ pollsRefused \in Nat /\ ExitsAccountButPolls /\ sent \in Nat
      /\ hecConn \in [Connections -> Conns]
  BY DEF HecInvariant, HecShape
<1>4. /\ hecStats' \in [HecStat -> Nat] /\ ExitsAccountButPolls'
      /\ hecStats'.records = hecStats.records + Len(records)
  BY <1>2, <1>3, HecAcceptCounts
<1>5. \A b \in handedOver : b.n # hecConn[c].n
  BY DEF HecInvariant, Numbered
<1> HIDE DEF records
<1>6. batch.n = hecConn[c].n /\ batch.records = records
  OBVIOUS
<1>7. handedOver' = handedOver \cup {batch}
  BY DEF records
<1> HIDE DEF batch
<1>8. IsFiniteSet(1..Len(request.events))
  BY <1>2, FS_Interval, 1 \in Int, Len(request.events) \in Int
<1>9. IsFiniteSet(handedOver') /\ \A b \in handedOver' : b.n \in 1..sent /\ IsFiniteSet(DOMAIN b.records)
  <2>1. IsFiniteSet(handedOver) /\ \A b \in handedOver : b.n \in 1..sent /\ IsFiniteSet(DOMAIN b.records)
    BY DEF HecInvariant, HecShape
  <2> QED BY <1>1, <1>2, <1>6, <1>7, <1>8, <2>1, FS_AddElement
<1>10. hecStats'.records = Cardinality(RecordsIn(handedOver'))
  <2> DEFINE R == RecordsIn(handedOver)
             T == {<<hecConn[c].n, i>> : i \in 1..Len(request.events)}
  <2>1. RecordsIn(handedOver') = R \cup T
    BY <1>2, <1>6, <1>7 DEF RecordsIn
  <2>2. R \cap T = {}
    BY <1>5 DEF RecordsIn
  <2>3. IsFiniteSet(R)
    BY RecordsFinite DEF HecInvariant, HecShape
  <2>4. IsFiniteSet(T) /\ Cardinality(T) = Len(request.events)
    BY <1>2, SegmentFinite
  <2>5. hecStats.records = Cardinality(R)
    BY DEF HecInvariant
  <2> HIDE DEF R, T
  <2>6. Cardinality(R \cup T) = Cardinality(R) + Cardinality(T)
    <3>1. Cardinality(R \cap T) = 0 /\ Cardinality(R) \in Nat /\ Cardinality(T) \in Nat
      BY <2>2, <2>3, <2>4, FS_EmptySet, FS_CardinalityType
    <3>2. Cardinality(R \cup T) = Cardinality(R) + Cardinality(T) - Cardinality(R \cap T)
      BY <2>3, <2>4, FS_Union
    <3> QED BY ONLY <3>1, <3>2
  <2> QED BY <1>2, <1>4, <2>1, <2>4, <2>5, <2>6
<1>11. hecConn' = [hecConn EXCEPT ![c].at = "done", ![c].reply = 200]
  BY DEF HecStep
<1>12. hecConn[c] \in Conns
  BY <1>3
<1>13. /\ hecConn'[c] = [hecConn[c] EXCEPT !.at = "done", !.reply = 200]
       /\ \A d \in Connections : d # c => hecConn'[d] = hecConn[d]
  BY <1>3, <1>11
<1>14. [hecConn[c] EXCEPT !.at = "done", !.reply = 200] \in Conns
  BY <1>12 DEF Conns
<1>15. hecConn' \in [Connections -> Conns]
  BY <1>3, <1>11, <1>14
<1>16. HecShape'
  BY <1>3, <1>4, <1>9, <1>15 DEF HecInvariant, HecShape
<1>17. hecConn'[c].at = "done" /\ hecConn'[c].reply = 200 /\ hecConn'[c].n = hecConn[c].n /\ hecConn'[c].request = request
  BY <1>12, <1>13 DEF Conns
<1>18. \A d \in Connections : d # c /\ hecConn[d].at # "idle" => hecConn[d].n # hecConn[c].n
  BY DEF HecInvariant, Numbered
<1>19. Numbered'
  <2>1. Numbered
    BY DEF HecInvariant
  <2>2. \A d \in Connections : /\ hecConn'[d].n = hecConn[d].n /\ hecConn'[d].request = hecConn[d].request
                               /\ (hecConn'[d].at = "idle") = (hecConn[d].at = "idle")
                               /\ hecConn'[d].at \in {"head", "body", "handle"} => d # c /\ hecConn[d].at \in {"head", "body", "handle"}
    BY <1>13, <1>17
  <2>3. \A b, d \in handedOver' : b.n = d.n => b = d
    BY <1>5, <1>6, <1>7, <2>1 DEF Numbered
  <2>4. \A d \in Connections, b \in handedOver' : hecConn'[d].at \in {"head", "body", "handle"} => b.n # hecConn'[d].n
    BY <1>6, <1>7, <1>18, <2>1, <2>2 DEF Numbered
  <2> QED BY <2>1, <2>2, <2>3, <2>4 DEF Numbered
<1>20. RefusedUnread'
  <2>1. \A d \in Connections : hecConn'[d].at \in {"body", "handle"} => d # c
    BY <1>17
  <2>2. RefusedUnread
    BY DEF HecInvariant
  <2> QED BY ONLY <1>13, <2>1, <2>2 DEF RefusedUnread
<1>21. StoredIsWhole'
  <2> SUFFICES ASSUME NEW d \in Connections
               PROVE  LET req == hecConn'[d].request
                          mine == {b \in handedOver' : b.n = hecConn'[d].n}
                      IN /\ hecConn'[d].at = "done" /\ req.path \in EventPaths =>
                               (hecConn'[d].reply = 200) = (mine # {})
                         /\ hecConn'[d].at # "idle" => \A b \in mine : Len(b.records) = Len(req.events)
    BY DEF StoredIsWhole
  <2>1. CASE d = c
    <3>1. {b \in handedOver' : b.n = hecConn'[d].n} = {batch}
      BY <1>5, <1>6, <1>7, <1>17, <2>1
    <3> QED BY <1>2, <1>6, <1>17, <2>1, <3>1
  <2>2. CASE d # c
    <3>1. hecConn'[d].at # "idle" => {b \in handedOver' : b.n = hecConn'[d].n} = {b \in handedOver : b.n = hecConn[d].n}
      BY <1>6, <1>7, <1>13, <1>18, <2>2
    <3> QED BY <1>13, <2>2, <3>1 DEF StoredIsWhole, HecInvariant
  <2> QED BY <2>1, <2>2
<1> QED BY <1>4, <1>10, <1>16, <1>19, <1>20, <1>21 DEF HecInvariant

(* Every end of an ingest request keeps it.                                *)
LEMMA HecIngestKeeps == HecInvariant /\ (\E c \in Connections : Ingest(c)) => HecInvariant'
<1> SUFFICES ASSUME HecInvariant, NEW c \in Connections, Ingest(c) PROVE HecInvariant'
  OBVIOUS
<1> DEFINE request == hecConn[c].request
           records == RecordsOf(request)
<1>1. hecConn[c].at = "handle" /\ request.path \in EventPaths /\ UNCHANGED <<tokenGood, sent, pollsRefused>>
  BY DEF Ingest
<1>2. hecStats \in [HecStat -> Nat] /\ pollsRefused \in Nat /\ ExitsAccountButPolls
  BY DEF HecInvariant, HecShape
<1>3. "unauthorized" \in Exits /\ "bad_request" \in Exits /\ "busy" \in Exits
  BY DEF Exits
<1>4. ASSUME NEW e \in Exits, NEW status \in Nat, status # 200, Count(One({"requests", e})), HecStep(c, "done", status), UNCHANGED handedOver
      PROVE  HecInvariant'
  <2>1. /\ hecStats' \in [HecStat -> Nat] /\ pollsRefused' \in Nat /\ ExitsAccountButPolls'
        /\ hecStats'.records = hecStats.records
    BY <1>1, <1>2, <1>4, HecCounts
  <2> QED BY <1>1, <1>4, <2>1, HecMoves
<1>5. CASE HecStep(c, "done", StatusOf(request)) /\ Count(One({"requests", "unauthorized"})) /\ UNCHANGED handedOver
  <2>1. StatusOf(request) \in Nat /\ StatusOf(request) # 200
    BY DEF StatusOf
  <2> QED BY <1>3, <1>4, <1>5, <2>1
<1>6. CASE HecStep(c, "done", 400) /\ Count(One({"requests", "bad_request"})) /\ UNCHANGED handedOver
  BY <1>3, <1>4, <1>6
<1>7. CASE /\ handedOver' = handedOver \cup {[n |-> hecConn[c].n, records |-> records]}
           /\ Count(AcceptedCounts(records)) /\ HecStep(c, "done", 200)
  BY <1>1, <1>7, HecHandOver
<1>8. ASSUME NEW room \in BOOLEAN, NEW sink \in {"accepted", "busy", "index"}, UNCHANGED handedOver,
             Count(One({"requests"} \cup HecRefused(room, sink).counts)), HecStep(c, "done", HecRefused(room, sink).status)
      PROVE  HecInvariant'
  <2>1. HecRefused(room, sink) \in {[status |-> 503, counts |-> {"busy"}], [status |-> 400, counts |-> {"bad_request"}]}
    BY DEF HecRefused
  <2>2. PICK e \in Exits, status \in {503, 400} : HecRefused(room, sink).counts = {e} /\ HecRefused(room, sink).status = status
    BY <1>3, <2>1
  <2>3. {"requests"} \cup HecRefused(room, sink).counts = {"requests", e}
    BY <2>2
  <2>4. Count(One({"requests", e}))
    BY <1>8, <2>3
  <2> QED BY <1>4, <1>8, <2>2, <2>4
<1>9. \/ HecStep(c, "done", StatusOf(request)) /\ Count(One({"requests", "unauthorized"})) /\ UNCHANGED handedOver
      \/ HecStep(c, "done", 400) /\ Count(One({"requests", "bad_request"})) /\ UNCHANGED handedOver
      \/ \E room \in BOOLEAN, sink \in {"accepted", "busy", "index"} :
           \/ /\ handedOver' = handedOver \cup {[n |-> hecConn[c].n, records |-> records]}
              /\ Count(AcceptedCounts(records)) /\ HecStep(c, "done", 200)
           \/ /\ UNCHANGED handedOver
              /\ Count(One({"requests"} \cup HecRefused(room, sink).counts)) /\ HecStep(c, "done", HecRefused(room, sink).status)
  BY DEF Ingest
<1> QED BY <1>5, <1>6, <1>7, <1>8, <1>9

(* Every step of the receiver keeps it.                                    *)
LEMMA HecStepKeeps == HecInvariant /\ [HecNext]_hecVars => HecInvariant'
<1> SUFFICES ASSUME HecInvariant, [HecNext]_hecVars PROVE HecInvariant'
  OBVIOUS
<1>1. CASE TokenExpires \/ UNCHANGED hecVars
  <2>1. /\ UNCHANGED <<hecConn, hecStats, handedOver, sent, pollsRefused>> /\ tokenGood' \in BOOLEAN
    BY <1>1 DEF TokenExpires, hecVars, HecInvariant, HecShape
  <2>2. HecShape'
    BY <2>1 DEF HecInvariant, HecShape
  <2>3. Numbered'
    BY <2>1 DEF HecInvariant, Numbered
  <2>4. RefusedUnread' /\ StoredIsWhole'
    BY <2>1 DEF HecInvariant, RefusedUnread, StoredIsWhole
  <2> QED BY <2>1, <2>2, <2>3, <2>4 DEF HecInvariant, ExitsAccountButPolls, ExitsTaken
<1>2. CASE \E c \in Connections : Arrive(c) \/ Preflight(c) \/ ReadBody(c) \/ Ingest(c) \/ AckPoll(c) \/ OtherPath(c) \/ Close(c)
  BY <1>2, HecArriveKeeps, HecPreflightKeeps, HecReadBodyKeeps, HecIngestKeeps, HecAckPollKeeps, HecOtherKeeps, HecCloseKeeps
<1> QED BY <1>1, <1>2 DEF HecNext

(* The inductive invariant gives HecInv.                                   *)
LEMMA HecImplies == HecInvariant => HecInv
<1> SUFFICES ASSUME HecInvariant PROVE HecInv
  OBVIOUS
<1>1. \A c \in Connections : hecConn[c].at \in {"idle", "head", "body", "handle", "done"} /\ hecConn[c].n <= sent
  <2>1. sent \in Nat /\ \A c \in Connections : hecConn[c] \in Conns
    BY DEF HecInvariant, HecShape
  <2> QED BY <2>1 DEF HecInvariant, Numbered, Conns
<1> QED BY <1>1 DEF HecInvariant, HecInv, HecTypeOK, HecShape

(* HecInv for any set of connections and requests: a sender that is        *)
(* refused has had no body read, a 200 means the whole body was handed     *)
(* over and any other answer that none of it was, every request leaves by  *)
(* exactly one counted exit, and the records counted are the records       *)
(* handed over.                                                            *)
THEOREM HecSafe == HecSpec => []HecInv
<1> QED BY HecInitially, HecStepKeeps, HecImplies, PTL DEF HecSpec

-----------------------------------------------------------------------------
(* Policy. A write changes three things one after the other, the policy    *)
(* file, the runtime and the state the readers see, and may stop after     *)
(* each. UnderWay says what holds between them and InForce what holds when *)
(* no write is between them; that a restart recomputes the same document   *)
(* rests on OverlayRestores.                                               *)

(* A line of the audit log.                                                *)
AuditEntries == [version : Nat \ {0}, policies : Documents]

(* What the policy file gives over a configuration file.                   *)
EffectiveUnder(file) ==
    IF policyFile.version = 0 THEN file ELSE Overlaid(file, policyFile.document, policyFile.overrides)

(* Types, and the bound on the audit log.                                  *)
PolicyShape ==
    /\ configFile \in ConfigFiles
    /\ policyFile.version \in Nat /\ policyFile.under \in ConfigFiles
    /\ policyFile.version # 0 =>
          policyFile.document \in Documents /\ policyFile.overrides = OverridesBetween(policyFile.under, policyFile.document)
    /\ audit \in [lines : Seq(AuditEntries), torn : BOOLEAN]
    /\ Len(audit.lines) <= AUDIT_COMPACT \/ Len(audit.lines) <= AUDIT_KEEP
    /\ auditFaults \in Nat /\ (auditFaults = 0 => ~audit.torn)
    /\ st.up \in BOOLEAN /\ (st.up => st.version \in Nat)
    /\ gate \in Operators \cup {"none"}
    /\ DOMAIN policyRequest = Operators /\ DOMAIN read = Operators /\ DOMAIN reviewed = Operators

(* Under a retention list, nothing that a review keeps was due then.       *)
Spares(seen, retention) == \A k \in seen : ~DueAt(retention, k.part, k.at)

(* What a write under way deletes or gives up, its operator was shown.     *)
Shown(o) ==
    /\ Spares(policyRequest[o].review, policyRequest[o].doc.retention)
    /\ st.effective.pushdown /\ ~policyRequest[o].doc.pushdown => "pushdown" \in reviewed[o].lossy

(* A write under way.                                                      *)
RequestShape(r) ==
    /\ r.pc \in {"none", "check", "persist", "audit", "state"}
    /\ r.pc # "none" => r.doc \in Documents /\ r.expected \in Nat
    /\ r.pc \in {"persist", "audit", "state"} =>
          r = [pc |-> r.pc, doc |-> r.doc, expected |-> r.expected, review |-> r.review]

(* What a write has established at each of its steps: it holds the gate,   *)
(* the version it expected is the one in force, and what it destroys was   *)
(* shown to its operator.                                                  *)
UnderWay(o) ==
    LET r == policyRequest[o] IN
    /\ RequestShape(r)
    /\ r.pc # "none" => gate = o /\ st.up /\ read[o].up
    /\ Writing(o) => st.version = r.expected /\ Shown(o)
    /\ r.pc \in {"audit", "state"} =>
          policyFile.version = r.expected + 1 /\ policyFile.document = r.doc /\ policyFile.under = configFile
    /\ r.pc = "state" => runtime = Hot(r.doc)

(* Between two writes the policy in force is the one the files on disk     *)
(* give, the runtime has its hot part, and its version is audited unless   *)
(* an audit write failed.                                                  *)
InForce ==
    st.up =>
        /\ (\A o \in Operators : policyRequest[o].pc \notin {"audit", "state"}) =>
              policyFile.version = st.version /\ st.effective = EffectiveUnder(configFile)
        /\ (\A o \in Operators : policyRequest[o].pc # "state") => runtime = Hot(st.effective)
        /\ (\A o \in Operators : policyRequest[o].pc # "audit") /\ auditFaults = 0 /\ policyFile.version # 0 =>
              policyFile.version \in Recorded

(* What an operator was shown is not ahead of the disk, and when it is not *)
(* behind either it is the same document.                                  *)
Given(o) ==
    /\ read[o].up \in BOOLEAN
    /\ read[o].up =>
        /\ read[o].version \in Nat /\ read[o].file \in ConfigFiles /\ read[o].version <= policyFile.version
        /\ st.up => read[o].version <= st.version
        /\ read[o].version = policyFile.version => read[o].doc = EffectiveUnder(read[o].file)
        /\ st.up /\ read[o].version = st.version /\ read[o].file = configFile => read[o].doc = st.effective

(* The inductive invariant of Policy.                                      *)
PolicyInvariant ==
    /\ PolicyShape /\ InForce
    /\ \A o \in Operators : UnderWay(o) /\ Given(o)

(* A policy document is a record with a sequence of retentions.            *)
LEMMA DocumentShape ==
    ASSUME NEW doc \in Documents \cup ConfigFiles
    PROVE  /\ doc = [retention |-> doc.retention, pushdown |-> doc.pushdown, capacity |-> doc.capacity]
           /\ Len(doc.retention) \in Nat /\ DOMAIN doc.retention = 1..Len(doc.retention)
           /\ doc.retention = [i \in 1..Len(doc.retention) |-> doc.retention[i]]
<1>1. doc.retention \in Seq(ToSet(doc.retention)) /\ doc = [retention |-> doc.retention, pushdown |-> doc.pushdown, capacity |-> doc.capacity]
  BY PolicyAssumption
<1> QED BY <1>1

(* The overrides between a configuration file and a document restore the   *)
(* document when they are laid over that file.                             *)
LEMMA OverlayRestores ==
    ASSUME NEW file \in ConfigFiles, NEW doc \in Documents
    PROVE  Overlaid(file, doc, OverridesBetween(file, doc)) = doc
<1> DEFINE over == OverridesBetween(file, doc)
           own == {<<"secs", i>> : i \in {j \in DOMAIN doc.retention : doc.retention[j] # file.retention[j]}}
           leaves == {<<k>> : k \in {f \in {"pushdown", "capacity"} : doc[f] # file[f]}}
           result == Overlaid(file, doc, over)
<1>1. over = (IF SameStructure(file, doc) THEN own ELSE {<<"retention">>}) \cup leaves
  BY DEF OverridesBetween
<1>2. /\ doc = [retention |-> doc.retention, pushdown |-> doc.pushdown, capacity |-> doc.capacity]
      /\ Len(doc.retention) \in Nat /\ DOMAIN doc.retention = 1..Len(doc.retention)
      /\ doc.retention = [i \in 1..Len(doc.retention) |-> doc.retention[i]]
      /\ DOMAIN file.retention = 1..Len(file.retention)
  BY DocumentShape
<1>3. /\ result.pushdown = IF <<"pushdown">> \in over THEN doc.pushdown ELSE file.pushdown
      /\ result.capacity = IF <<"capacity">> \in over THEN doc.capacity ELSE file.capacity
      /\ result.retention = IF <<"retention">> \in over THEN doc.retention
            ELSE [i \in DOMAIN file.retention |->
                    IF /\ <<"secs", i>> \in over /\ i \in DOMAIN doc.retention
                       /\ doc.retention[i].name = file.retention[i].name
                    THEN doc.retention[i] ELSE file.retention[i]]
      /\ result = [retention |-> result.retention, pushdown |-> result.pushdown, capacity |-> result.capacity]
  BY DEF Overlaid
<1> HIDE DEF result, over
<1>4. <<"pushdown">> \in leaves <=> doc.pushdown # file.pushdown
  OBVIOUS
<1>5. <<"capacity">> \in leaves <=> doc.capacity # file.capacity
  OBVIOUS
<1>6. <<"retention">> \notin leaves /\ \A i : <<"secs", i>> \notin leaves
  OBVIOUS
<1>7. <<"pushdown">> \notin own /\ <<"capacity">> \notin own /\ <<"retention">> \notin own
  OBVIOUS
<1>8. \A i \in DOMAIN doc.retention : <<"secs", i>> \in own <=> doc.retention[i] # file.retention[i]
  OBVIOUS
<1>9. <<"pushdown">> # <<"retention">> /\ <<"capacity">> # <<"retention">> /\ \A i : <<"secs", i>> # <<"retention">>
  OBVIOUS
<1> HIDE DEF own, leaves
<1>10. result.pushdown = doc.pushdown /\ result.capacity = doc.capacity
  BY <1>1, <1>3, <1>4, <1>5, <1>7, <1>9
<1>11. result.retention = doc.retention
  <2>1. CASE ~SameStructure(file, doc)
    BY <1>1, <1>3, <2>1
  <2>2. CASE SameStructure(file, doc)
    <3>1. /\ Len(file.retention) = Len(doc.retention)
          /\ \A i \in DOMAIN file.retention : file.retention[i].name = doc.retention[i].name
      BY <2>2 DEF SameStructure
    <3>2. DOMAIN file.retention = 1..Len(doc.retention)
      BY <1>2, <3>1
    <3>3. <<"retention">> \notin over
      BY <1>1, <1>6, <1>7, <2>2
    <3>4. \A i \in 1..Len(doc.retention) : <<"secs", i>> \in over <=> doc.retention[i] # file.retention[i]
      BY <1>1, <1>2, <1>6, <1>8, <2>2
    <3>5. result.retention = [i \in 1..Len(doc.retention) |->
                    IF /\ <<"secs", i>> \in over /\ i \in DOMAIN doc.retention
                       /\ doc.retention[i].name = file.retention[i].name
                    THEN doc.retention[i] ELSE file.retention[i]]
      BY <1>3, <3>2, <3>3
    <3>6. \A i \in 1..Len(doc.retention) : result.retention[i] = doc.retention[i]
      BY <1>2, <3>1, <3>2, <3>4, <3>5
    <3>7. result.retention = [i \in 1..Len(doc.retention) |-> doc.retention[i]]
      BY <3>5, <3>6
    <3> QED BY <1>2, <3>7
  <2> QED BY <2>1, <2>2
<1> QED BY <1>2, <1>3, <1>10, <1>11 DEF result, over

(* Appending to the audit log, with its compaction, keeps its bound and,   *)
(* unless the log ends in a fragment, holds the new entry.                 *)
LEMMA AppendedShape ==
    ASSUME PolicyShape, NEW entry \in AuditEntries
    PROVE  /\ Appended(entry) \in [lines : Seq(AuditEntries), torn : BOOLEAN]
           /\ ~Appended(entry).torn
           /\ Len(Appended(entry).lines) <= AUDIT_COMPACT \/ Len(Appended(entry).lines) <= AUDIT_KEEP
           /\ ~audit.torn => \E i \in DOMAIN Appended(entry).lines : Appended(entry).lines[i] = entry
<1> DEFINE before == IF audit.torn THEN audit.lines ELSE Append(audit.lines, entry)
           from == IF Len(before) > AUDIT_KEEP THEN Len(before) - AUDIT_KEEP ELSE 0
           after == Compacted(before)
<1>1. before \in Seq(AuditEntries) /\ (~audit.torn => Len(before) > 0 /\ before[Len(before)] = entry)
  BY DEF PolicyShape
<1>2. AUDIT_COMPACT \in Nat /\ AUDIT_KEEP \in Nat \ {0}
  BY PolicyAssumption
<1>3. after = IF Len(before) > AUDIT_COMPACT THEN SubSeq(before, from + 1, Len(before)) ELSE before
  BY DEF Compacted
<1>4. Appended(entry) = [lines |-> after, torn |-> FALSE]
  BY DEF Appended
<1> HIDE DEF before, after
<1>5. Len(before) \in Nat
  BY <1>1
<1>6. /\ from \in Nat /\ from <= Len(before) /\ from + 1 \in Int /\ Len(before) \in Int
      /\ Len(before) - from <= AUDIT_KEEP /\ (Len(before) > 0 => from < Len(before))
  BY <1>2, <1>5
<1> HIDE DEF from
<1>7. CASE Len(before) <= AUDIT_COMPACT
  <2>1. after = before
    BY <1>2, <1>3, <1>5, <1>7
  <2>2. ~audit.torn => Len(before) \in DOMAIN before
    BY <1>1, <1>5
  <2> QED BY <1>1, <1>4, <1>7, <2>1, <2>2
<1>8. CASE Len(before) > AUDIT_COMPACT
  <2>1. after = SubSeq(before, from + 1, Len(before))
    BY <1>3, <1>8
  <2>2. Len(before) > 0 /\ from < Len(before)
    BY <1>2, <1>5, <1>6, <1>8
  <2>3. /\ after \in Seq(AuditEntries)
        /\ Len(after) = Len(before) - from
        /\ \A i \in 1..(Len(before) - from) : after[i] = before[from + i]
    <3>1. from + 1 \in 1..(Len(before) + 1) /\ Len(before) \in (from+1)-1 .. Len(before)
      BY <1>5, <1>6, <2>2
    <3>2. /\ SubSeq(before, from + 1, Len(before)) \in Seq(AuditEntries)
          /\ Len(SubSeq(before, from + 1, Len(before))) = (IF from + 1 <= Len(before) THEN Len(before) - (from + 1) + 1 ELSE 0)
          /\ \A i \in 1..(Len(before) - (from + 1) + 1) : SubSeq(before, from + 1, Len(before))[i] = before[(from + 1) + i - 1]
      BY <1>1, <1>6, <3>1, SubSeqProperties
    <3>3. from + 1 <= Len(before) /\ Len(before) - (from + 1) + 1 = Len(before) - from
      BY <1>5, <1>6, <2>2
    <3>4. \A i \in 1..(Len(before) - from) : (from + 1) + i - 1 = from + i
      BY <1>5, <1>6
    <3> QED BY <2>1, <3>2, <3>3, <3>4
  <2>4. Len(after) <= AUDIT_KEEP
    BY <1>6, <2>3
  <2>5. Len(before) - from \in 1..(Len(before) - from) /\ from + (Len(before) - from) = Len(before)
    BY <1>5, <1>6, <2>2
  <2>6. Len(after) \in DOMAIN after /\ after[Len(after)] = before[Len(before)]
    BY <2>3, <2>5
  <2> QED BY <1>1, <1>4, <2>3, <2>4, <2>6
<1> QED BY <1>2, <1>5, <1>7, <1>8

(* A write under way is alone.                                             *)
LEMMA AloneAtGate ==
    ASSUME PolicyInvariant, NEW o \in Operators, policyRequest[o].pc # "none"
    PROVE  /\ gate = o /\ st.up /\ read[o].up
           /\ \A p \in Operators : p # o => policyRequest[p].pc = "none"
BY DEF PolicyInvariant, UnderWay

(* With the gate free, or the process down, no write is under way.         *)
LEMMA NoneAtGate ==
    ASSUME PolicyInvariant, gate = "none" \/ ~st.up
    PROVE  \A p \in Operators : policyRequest[p].pc = "none"
BY PolicyAssumption DEF PolicyInvariant, UnderWay

(* A process that has not started satisfies the invariant.                 *)
LEMMA PolicyInitially == PolicyInit => PolicyInvariant
<1> SUFFICES ASSUME PolicyInit PROVE PolicyInvariant
  OBVIOUS
<1> USE DEF PolicyInit
<1>1. /\ st.up = FALSE /\ policyFile.version = 0 /\ policyFile.under \in ConfigFiles
      /\ \A o \in Operators : policyRequest[o].pc = "none" /\ read[o].up = FALSE
  BY DEF Down, NoPolicyRequest
<1>2. audit \in [lines : Seq(AuditEntries), torn : BOOLEAN] /\ Len(audit.lines) = 0 /\ ~audit.torn
  OBVIOUS
<1>3. PolicyShape
  <2>1. 0 <= AUDIT_COMPACT
    BY ONLY PolicyAssumption
  <2>2. DOMAIN policyRequest = Operators /\ DOMAIN read = Operators /\ DOMAIN reviewed = Operators
    OBVIOUS
  <2>3. configFile \in ConfigFiles /\ gate = "none" /\ auditFaults = 0
    OBVIOUS
  <2>4. Len(audit.lines) <= AUDIT_COMPACT /\ auditFaults \in Nat /\ (auditFaults = 0 => ~audit.torn)
    BY ONLY <1>2, <2>1, <2>3
  <2>5. policyFile.version \in Nat /\ policyFile.under \in ConfigFiles
    BY ONLY <1>1
  <2>7. st.up \in BOOLEAN /\ (st.up => st.version \in Nat)
    BY ONLY <1>1, Zenon
  <2>6. policyFile.version # 0 =>
          policyFile.document \in Documents /\ policyFile.overrides = OverridesBetween(policyFile.under, policyFile.document)
    BY ONLY <1>1
  <2> HIDE DEF PolicyInit
  <2> QED BY ONLY <1>2, <2>2, <2>3, <2>4, <2>5, <2>6, <2>7 DEF PolicyShape
<1>4. InForce
  BY <1>1 DEF InForce
<1>5. ASSUME NEW o \in Operators PROVE UnderWay(o) /\ Given(o)
  <2>1. UnderWay(o)
    BY <1>1 DEF UnderWay, Writing, RequestShape
  <2>2. Given(o)
    BY <1>1 DEF Given
  <2> QED BY <2>1, <2>2
<1> QED BY <1>3, <1>4, <1>5 DEF PolicyInvariant

(* An entry appended to a log without a fragment is recorded.              *)
LEMMA AuditedEntries ==
    ASSUME PolicyShape, NEW entry \in AuditEntries, ~audit.torn, audit' = Appended(entry)
    PROVE  entry.version \in Recorded'
<1>1. PICK i \in DOMAIN Appended(entry).lines : Appended(entry).lines[i] = entry
  BY AppendedShape
<1>2. i \in DOMAIN audit'.lines /\ audit'.lines[i].version = entry.version
  BY <1>1
<1> QED BY <1>2 DEF Recorded

(* A start, with any configuration file, keeps the invariant: the policy   *)
(* in force is what the files give.                                        *)
LEMMA PolicyStartKeeps ==
    ASSUME PolicyInvariant, NEW file \in ConfigFiles, PolicyStart(file)
    PROVE  PolicyInvariant'
<1> DEFINE none == policyFile.version = 0
           effective == IF none THEN file ELSE Overlaid(file, policyFile.document, policyFile.overrides)
<1>1. /\ ~st.up /\ configFile' = file
      /\ st' = [version |-> policyFile.version, up |-> TRUE, effective |-> effective]
      /\ runtime' = Hot(effective) /\ running' = effective
      /\ audit' = IF none THEN audit ELSE Reconciled
      /\ UNCHANGED <<policyFile, gate, policyRequest, pass, knownVars, partitions, policyNow, policyCrashes, auditFaults>>
  BY DEF PolicyStart
<1>2. \A p \in Operators : policyRequest[p].pc = "none"
  BY <1>1, NoneAtGate
<1>3. PolicyShape
  BY DEF PolicyInvariant
<1>4. read' = read /\ reviewed' = reviewed
  BY <1>1 DEF knownVars
<1>5. effective = EffectiveUnder(file)
  BY DEF EffectiveUnder
<1> HIDE DEF effective
<1>6. st'.up = TRUE /\ st'.version = policyFile.version /\ st'.effective = effective
  BY <1>1
<1>7. /\ audit' \in [lines : Seq(AuditEntries), torn : BOOLEAN]
      /\ Len(audit'.lines) <= AUDIT_COMPACT \/ Len(audit'.lines) <= AUDIT_KEEP
      /\ audit.torn = FALSE => audit'.torn = FALSE
      /\ ~none /\ auditFaults = 0 => policyFile.version \in Recorded'
  <2>1. CASE none \/ policyFile.version \in Recorded
    <3>1. audit' = audit
      BY <1>1, <2>1 DEF Reconciled
    <3> QED BY <1>3, <2>1, <3>1 DEF PolicyShape, Recorded
  <2>2. CASE ~none /\ policyFile.version \notin Recorded
    <3> DEFINE entry == Entry(policyFile.version, policyFile.document)
    <3>1. audit' = Appended(entry)
      BY <1>1, <2>2 DEF Reconciled
    <3>2. entry \in AuditEntries /\ entry.version = policyFile.version
      BY <1>3, <2>2 DEF PolicyShape, Entry, AuditEntries
    <3> HIDE DEF entry
    <3>3. auditFaults = 0 => ~audit.torn
      BY <1>3 DEF PolicyShape
    <3>4. Appended(entry) \in [lines : Seq(AuditEntries), torn : BOOLEAN] /\ ~Appended(entry).torn
      BY <1>3, <3>2, AppendedShape
    <3>5. Len(audit'.lines) <= AUDIT_COMPACT \/ Len(audit'.lines) <= AUDIT_KEEP
      BY <1>3, <3>1, <3>2, AppendedShape
    <3>6. auditFaults = 0 => policyFile.version \in Recorded'
      BY <1>3, <3>1, <3>2, <3>3, AuditedEntries
    <3> QED BY <3>1, <3>4, <3>5, <3>6
  <2> QED BY <2>1, <2>2
<1>8. PolicyShape'
  <2>1. auditFaults' \in Nat /\ (auditFaults' = 0 => ~audit'.torn)
    BY <1>1, <1>3, <1>7 DEF PolicyShape
  <2> QED BY <1>1, <1>3, <1>4, <1>6, <1>7, <2>1 DEF PolicyShape
<1>9. InForce'
  <2>1. EffectiveUnder(file)' = EffectiveUnder(file)
    BY <1>1 DEF EffectiveUnder
  <2>2. EffectiveUnder(configFile)' = EffectiveUnder(file)
    BY <1>1 DEF EffectiveUnder
  <2> QED BY <1>1, <1>5, <1>6, <1>7, <2>2 DEF InForce
<1>10. ASSUME NEW o \in Operators PROVE UnderWay(o)' /\ Given(o)'
  <2>1. policyRequest'[o] = policyRequest[o] /\ policyRequest[o].pc = "none" /\ read'[o] = read[o]
    BY <1>1, <1>2, <1>4
  <2>2. UnderWay(o) /\ Given(o)
    BY DEF PolicyInvariant
  <2>3. UnderWay(o)'
    BY <2>1, <2>2 DEF UnderWay, RequestShape, Writing
  <2>4. Given(o)'
    BY <1>1, <1>5, <1>6, <2>1, <2>2 DEF Given, EffectiveUnder
  <2> QED BY <2>3, <2>4
<1> QED BY <1>8, <1>9, <1>10 DEF PolicyInvariant

(* What changes no policy state and no request.                            *)
LEMMA PolicyRests ==
    ASSUME PolicyInvariant,
           UNCHANGED <<configFile, policyFile, audit, st, runtime, gate, policyRequest, read, reviewed, auditFaults>>
    PROVE  PolicyInvariant'
<1>1. PolicyShape'
  BY DEF PolicyInvariant, PolicyShape
<1>2. InForce'
  BY DEF PolicyInvariant, InForce, EffectiveUnder, Recorded
<1>3. ASSUME NEW o \in Operators PROVE UnderWay(o)' /\ Given(o)'
  <2>1. UnderWay(o) /\ Given(o)
    BY DEF PolicyInvariant
  <2>2. UnderWay(o)'
    BY <2>1 DEF UnderWay, Shown, Spares, RequestShape, Writing
  <2>3. Given(o)'
    BY <2>1 DEF Given, EffectiveUnder
  <2> QED BY <2>2, <2>3
<1> QED BY <1>1, <1>2, <1>3 DEF PolicyInvariant

(* Reading the policy keeps it.                                            *)
LEMMA GetPoliciesKeeps ==
    ASSUME PolicyInvariant, NEW o \in Operators, GetPolicies(o)
    PROVE  PolicyInvariant'
<1> DEFINE given == [version |-> st.version, up |-> TRUE, doc |-> st.effective, file |-> configFile]
<1>1. /\ st.up /\ policyRequest[o].pc = "none" /\ read' = [read EXCEPT ![o] = given]
      /\ UNCHANGED <<configFile, policyFile, audit, st, runtime, gate, policyRequest, reviewed, auditFaults>>
  BY DEF GetPolicies, diskVarsP, procVars
<1>2. given.version = st.version /\ given.up = TRUE /\ given.doc = st.effective /\ given.file = configFile
  OBVIOUS
<1> HIDE DEF given
<1>3. PolicyShape /\ st.version \in Nat /\ configFile \in ConfigFiles /\ DOMAIN read = Operators /\ policyFile.version \in Nat
  BY <1>1 DEF PolicyInvariant, PolicyShape
<1>4. read'[o] = given /\ DOMAIN read' = Operators /\ \A p \in Operators : p # o => read'[p] = read[p]
  BY <1>1, <1>3
<1>5. PolicyShape'
  BY <1>1, <1>3, <1>4 DEF PolicyShape
<1>6. InForce'
  BY <1>1 DEF PolicyInvariant, InForce, EffectiveUnder, Recorded
<1>7. st.version <= policyFile.version /\ (st.version = policyFile.version => st.effective = EffectiveUnder(configFile))
  <2>1. CASE \A p \in Operators : policyRequest[p].pc \notin {"audit", "state"}
    BY <1>1, <1>3, <2>1 DEF PolicyInvariant, InForce
  <2>2. CASE \E p \in Operators : policyRequest[p].pc \in {"audit", "state"}
    <3>1. PICK p \in Operators : policyRequest[p].pc \in {"audit", "state"}
      BY <2>2
    <3>2. policyFile.version = st.version + 1
      BY <3>1 DEF PolicyInvariant, UnderWay, Writing
    <3> QED BY <1>3, <3>2
  <2> QED BY <2>1, <2>2
<1>8. ASSUME NEW p \in Operators PROVE UnderWay(p)' /\ Given(p)'
  <2>1. UnderWay(p) /\ Given(p)
    BY DEF PolicyInvariant
  <2>2. UnderWay(p)'
    BY <1>1, <1>2, <1>4, <2>1 DEF UnderWay, Shown, Spares, RequestShape, Writing
  <2>3. CASE p # o
    <3>1. Given(p)'
      BY <1>1, <1>4, <2>1, <2>3 DEF Given, EffectiveUnder
    <3> QED BY <2>2, <3>1
  <2>4. CASE p = o
    <3>1. Given(p)'
      <4>1. EffectiveUnder(configFile)' = EffectiveUnder(configFile)
        BY <1>1 DEF EffectiveUnder
      <4>2. read'[p].file = configFile /\ EffectiveUnder(read[p].file)' = EffectiveUnder(configFile)'
        BY <1>1, <1>2, <1>4, <2>4 DEF EffectiveUnder
      <4>3. /\ read'[p].up = TRUE /\ read'[p].version = st.version /\ read'[p].doc = st.effective
            /\ st' = st /\ policyFile' = policyFile /\ configFile' = configFile
        BY <1>1, <1>2, <1>4, <2>4
      <4>4. st.version <= st.version
        BY <1>3
      <4> QED BY <1>3, <1>7, <4>1, <4>2, <4>3, <4>4 DEF Given
    <3> QED BY <2>2, <3>1
  <2> QED BY <2>3, <2>4
<1> QED BY <1>5, <1>6, <1>8 DEF PolicyInvariant

(* A preview keeps it.                                                     *)
LEMMA PreviewKeeps ==
    ASSUME PolicyInvariant, NEW o \in Operators, NEW doc \in Documents, Preview(o, doc)
    PROVE  PolicyInvariant'
<1>1. /\ policyRequest[o].pc = "none" /\ reviewed' = [reviewed EXCEPT ![o] = Impact(st.effective, doc)]
      /\ UNCHANGED <<configFile, policyFile, audit, st, runtime, gate, policyRequest, read, auditFaults>>
  BY DEF Preview, diskVarsP, procVars
<1>2. PolicyShape'
  BY <1>1 DEF PolicyInvariant, PolicyShape
<1>3. InForce'
  BY <1>1 DEF PolicyInvariant, InForce, EffectiveUnder, Recorded
<1>4. ASSUME NEW p \in Operators PROVE UnderWay(p)' /\ Given(p)'
  <2>1. UnderWay(p) /\ Given(p)
    BY DEF PolicyInvariant
  <2>2. policyRequest[p].pc = "none" \/ reviewed'[p] = reviewed[p]
    BY <1>1 DEF PolicyInvariant, PolicyShape
  <2>3. UnderWay(p)'
    BY <1>1, <2>1, <2>2 DEF UnderWay, Shown, Spares, RequestShape, Writing
  <2>4. Given(p)'
    BY <1>1, <2>1 DEF Given, EffectiveUnder
  <2> QED BY <2>3, <2>4
<1> QED BY <1>2, <1>3, <1>4 DEF PolicyInvariant

(* A write that takes the gate keeps it.                                   *)
LEMMA PutArrivesKeeps ==
    ASSUME PolicyInvariant, NEW o \in Operators, NEW doc \in Documents, NEW confirm \in BOOLEAN, PutArrives(o, doc, confirm)
    PROVE  PolicyInvariant'
<1> DEFINE r == [pc |-> "check", doc |-> doc, expected |-> read[o].version, confirm |-> confirm]
<1>1. /\ st.up /\ policyRequest[o].pc = "none" /\ read[o].up /\ gate = "none" /\ gate' = o
      /\ policyRequest' = [policyRequest EXCEPT ![o] = r]
      /\ UNCHANGED <<configFile, policyFile, audit, st, runtime, read, reviewed, auditFaults>>
  BY DEF PutArrives, GateFree, diskVarsP, knownVars
<1>2. \A p \in Operators : policyRequest[p].pc = "none"
  BY <1>1, NoneAtGate
<1>3. r.pc = "check" /\ r.doc = doc /\ r.expected = read[o].version /\ read[o].version \in Nat
  BY <1>1 DEF PolicyInvariant, Given
<1> HIDE DEF r
<1>4. policyRequest'[o] = r /\ DOMAIN policyRequest' = Operators /\ \A p \in Operators : p # o => policyRequest'[p] = policyRequest[p]
  BY <1>1 DEF PolicyInvariant, PolicyShape
<1>5. PolicyShape'
  BY <1>1, <1>4 DEF PolicyInvariant, PolicyShape
<1>6. InForce'
  BY <1>1, <1>2, <1>3, <1>4 DEF PolicyInvariant, InForce, EffectiveUnder, Recorded
<1>7. ASSUME NEW p \in Operators PROVE UnderWay(p)' /\ Given(p)'
  <2>1. UnderWay(p) /\ Given(p)
    BY DEF PolicyInvariant
  <2>2. Given(p)'
    BY <1>1, <2>1 DEF Given, EffectiveUnder
  <2>3. CASE p = o
    <3>1. RequestShape(r)
      BY <1>3 DEF RequestShape
    <3>2. UnderWay(p)'
      BY <1>1, <1>3, <1>4, <2>3, <3>1 DEF UnderWay, RequestShape, Writing
    <3> QED BY <2>2, <3>2
  <2>4. CASE p # o
    <3>1. UnderWay(p)'
      BY <1>2, <1>4, <2>1, <2>4 DEF UnderWay, RequestShape, Writing
    <3> QED BY <2>2, <3>1
  <2> QED BY <2>3, <2>4
<1> QED BY <1>5, <1>6, <1>7 DEF PolicyInvariant

(* A restore is a write of an audited document.                            *)
LEMMA RestoreArrivesKeeps ==
    ASSUME PolicyInvariant, NEW o \in Operators, NEW v \in 1..MaxWrites, NEW confirm \in BOOLEAN, RestoreArrives(o, v, confirm)
    PROVE  PolicyInvariant'
<1>1. PICK i \in DOMAIN audit.lines : PutArrives(o, audit.lines[i].policies, confirm)
  BY DEF RestoreArrives
<1>2. audit.lines \in Seq(AuditEntries)
  BY DEF PolicyInvariant, PolicyShape
<1>3. audit.lines[i] \in AuditEntries
  BY <1>2
<1>4. audit.lines[i].policies \in Documents
  BY <1>3 DEF AuditEntries
<1> QED BY <1>1, <1>4, PutArrivesKeeps

(* A write that ends without having changed anything.                      *)
LEMMA AnsweredKeeps ==
    ASSUME PolicyInvariant, NEW o \in Operators, policyRequest[o].pc \in {"check", "persist"}, Answered(o),
           DOMAIN reviewed' = Operators, \A p \in Operators : p # o => reviewed'[p] = reviewed[p],
           UNCHANGED <<configFile, policyFile, audit, st, runtime, read, auditFaults>>
    PROVE  PolicyInvariant'
<1>1. gate' = "none" /\ policyRequest' = [policyRequest EXCEPT ![o] = NoPolicyRequest]
  BY DEF Answered
<1>2. \A p \in Operators : p # o => policyRequest[p].pc = "none"
  BY AloneAtGate
<1>3. DOMAIN policyRequest' = Operators /\ \A p \in Operators : policyRequest'[p].pc = "none"
  BY <1>1, <1>2 DEF PolicyInvariant, PolicyShape, NoPolicyRequest
<1>4. PolicyShape'
  BY <1>1, <1>3 DEF PolicyInvariant, PolicyShape
<1>5. InForce'
  <2>1. \A p \in Operators : policyRequest[p].pc \notin {"audit", "state"}
    BY <1>2
  <2> QED BY <1>3, <2>1 DEF PolicyInvariant, InForce, EffectiveUnder, Recorded
<1>6. ASSUME NEW p \in Operators PROVE UnderWay(p)' /\ Given(p)'
  <2>1. Given(p)
    BY DEF PolicyInvariant
  <2>2. UnderWay(p)'
    BY <1>3 DEF UnderWay, RequestShape, Writing
  <2>3. Given(p)'
    BY <2>1 DEF Given, EffectiveUnder
  <2> QED BY <2>2, <2>3
<1> QED BY <1>4, <1>5, <1>6 DEF PolicyInvariant

(* The checks of a write, and each refusal, keep it.                       *)
LEMMA CheckWriteKeeps ==
    ASSUME PolicyInvariant, NEW o \in Operators, CheckWrite(o)
    PROVE  PolicyInvariant'
<1> DEFINE r == policyRequest[o]
           impact == Impact(st.effective, r.doc)
           refused == \/ st.version # r.expected
                      \/ ~Valid(r.doc) \/ Orphans(st.effective, r.doc) # {}
                      \/ r.doc = st.effective
           unconfirmed == Destructive(impact) /\ ~(r.confirm /\ TokenMatches(o, impact))
           seen == Review(o)
           next == [pc |-> "persist", doc |-> r.doc, expected |-> r.expected, review |-> seen]
<1>1. /\ r.pc = "check"
      /\ IF refused \/ unconfirmed
         THEN /\ Answered(o)
              /\ reviewed' = IF refused THEN reviewed ELSE [reviewed EXCEPT ![o] = impact]
         ELSE /\ policyRequest' = [policyRequest EXCEPT ![o] = next]
              /\ UNCHANGED <<gate, reviewed>>
      /\ UNCHANGED <<configFile, policyFile, audit, st, runtime, read, auditFaults>>
  BY DEF CheckWrite, diskVarsP
<1>2. PolicyShape /\ DOMAIN reviewed = Operators /\ DOMAIN policyRequest = Operators
  BY DEF PolicyInvariant, PolicyShape
<1>3. ~refused => st.version = r.expected
  OBVIOUS
<1>4. ~unconfirmed =>
        /\ Spares(seen, r.doc.retention)
        /\ st.effective.pushdown /\ ~r.doc.pushdown => "pushdown" \in reviewed[o].lossy
  <2>1. ~unconfirmed => ~Destructive(impact) \/ reviewed[o] = impact
    BY DEF TokenMatches
  <2>2. ~unconfirmed => impact.beyond \subseteq reviewed[o].beyond /\ impact.lossy \subseteq reviewed[o].lossy
    BY <2>1 DEF Destructive
  <2>3. /\ impact.beyond = Expired(r.doc.retention) \ Expired(st.effective.retention)
        /\ impact.lossy = Lossy(st.effective, r.doc)
    BY DEF Impact
  <2>4. st.effective.pushdown /\ ~r.doc.pushdown => "pushdown" \in Lossy(st.effective, r.doc)
    BY DEF Lossy
  <2> HIDE DEF impact, unconfirmed
  <2>5. ASSUME ~unconfirmed, NEW k \in seen PROVE ~DueAt(r.doc.retention, k.part, k.at)
    <3>1. PICK p \in partitions \ (reviewed[o].beyond \cup Expired(st.effective.retention)) :
             k = [part |-> p, at |-> policyNow]
      BY DEF Review
    <3>2. p \notin Expired(r.doc.retention)
      BY <2>2, <2>3, <2>5, <3>1
    <3>3. k.part = p /\ k.at = policyNow
      BY <3>1
    <3> QED BY <3>1, <3>2, <3>3 DEF Expired
  <2> QED BY <2>2, <2>3, <2>4, <2>5 DEF Spares
<1> HIDE DEF impact, refused, unconfirmed, seen
<1>5. CASE refused \/ unconfirmed
  <2>1. DOMAIN reviewed' = Operators /\ \A p \in Operators : p # o => reviewed'[p] = reviewed[p]
    BY <1>1, <1>2, <1>5
  <2> QED BY <1>1, <1>5, <2>1, AnsweredKeeps
<1>6. CASE ~refused /\ ~unconfirmed
  <2>1. policyRequest' = [policyRequest EXCEPT ![o] = next] /\ gate' = gate /\ reviewed' = reviewed
    BY <1>1, <1>6
  <2>2. gate = o /\ st.up /\ read[o].up /\ \A p \in Operators : p # o => policyRequest[p].pc = "none"
    BY <1>1, AloneAtGate
  <2>3. /\ next.pc = "persist" /\ next.doc = r.doc /\ next.expected = r.expected /\ next.review = seen
        /\ next = [pc |-> next.pc, doc |-> next.doc, expected |-> next.expected, review |-> next.review]
    OBVIOUS
  <2>4. r.doc \in Documents /\ r.expected \in Nat
    BY <1>1 DEF PolicyInvariant, UnderWay, RequestShape
  <2> HIDE DEF next
  <2>5. policyRequest'[o] = next /\ DOMAIN policyRequest' = Operators /\ \A p \in Operators : p # o => policyRequest'[p] = policyRequest[p]
    BY <1>2, <2>1
  <2>6. PolicyShape'
    BY <1>1, <1>2, <2>1, <2>5 DEF PolicyShape
  <2>7. InForce'
    <3>1. /\ \A p \in Operators : policyRequest[p].pc \notin {"audit", "state"}
          /\ \A p \in Operators : policyRequest'[p].pc \notin {"audit", "state"}
      BY <1>1, <2>2, <2>3, <2>5
    <3> QED BY <1>1, <3>1 DEF PolicyInvariant, InForce, EffectiveUnder, Recorded
  <2>8. ASSUME NEW p \in Operators PROVE UnderWay(p)' /\ Given(p)'
    <3>1. UnderWay(p) /\ Given(p)
      BY DEF PolicyInvariant
    <3>2. Given(p)'
      BY <1>1, <3>1 DEF Given, EffectiveUnder
    <3>3. CASE p # o
      <4>1. UnderWay(p)'
        BY <2>2, <2>5, <3>1, <3>3 DEF UnderWay, RequestShape, Writing
      <4> QED BY <3>2, <4>1
    <3>4. CASE p = o
      <4>1. RequestShape(next)
        BY <2>3, <2>4 DEF RequestShape
      <4>2. UnderWay(p)'
        BY <1>1, <1>3, <1>4, <1>6, <2>1, <2>2, <2>3, <2>5, <3>4, <4>1 DEF UnderWay, Shown, RequestShape, Writing
      <4> QED BY <3>2, <4>2
    <3> QED BY <3>3, <3>4
  <2> QED BY <2>6, <2>7, <2>8 DEF PolicyInvariant
<1> QED BY <1>5, <1>6

(* A policy file that cannot be written ends the write with nothing        *)
(* changed.                                                                *)
LEMMA PersistFailsKeeps ==
    ASSUME PolicyInvariant, NEW o \in Operators, PersistFails(o)
    PROVE  PolicyInvariant'
<1>1. /\ policyRequest[o].pc = "persist" /\ Answered(o) /\ reviewed' = reviewed
      /\ UNCHANGED <<configFile, policyFile, audit, st, runtime, read, auditFaults>>
  BY DEF PersistFails, diskVarsP, knownVars
<1>2. DOMAIN reviewed' = Operators /\ \A p \in Operators : p # o => reviewed'[p] = reviewed[p]
  BY <1>1 DEF PolicyInvariant, PolicyShape
<1> QED BY <1>1, <1>2, AnsweredKeeps

(* Where a write stands before its first write to disk.                    *)
LEMMA BeforePersist ==
    ASSUME PolicyInvariant, NEW o \in Operators, policyRequest[o].pc = "persist"
    PROVE  policyFile.version = st.version /\ st.version = policyRequest[o].expected
<1>1. \A p \in Operators : policyRequest[p].pc \notin {"audit", "state"}
  BY AloneAtGate
<1> QED BY <1>1, AloneAtGate DEF PolicyInvariant, InForce, UnderWay, Writing

(* A request that goes on to its next step keeps what it is about.         *)
LEMMA RequestMoves ==
    ASSUME PolicyInvariant, NEW o \in Operators, Writing(o), NEW to \in {"audit", "state"},
           policyRequest' = [policyRequest EXCEPT ![o].pc = to]
    PROVE  LET r == policyRequest[o]
               s == policyRequest'[o] IN
           /\ s.pc = to /\ s.doc = r.doc /\ s.expected = r.expected /\ s.review = r.review /\ RequestShape(s)
           /\ DOMAIN policyRequest' = Operators /\ \A p \in Operators : p # o => policyRequest'[p] = policyRequest[p]
<1> DEFINE r == policyRequest[o]
           s == policyRequest'[o]
<1>1. /\ r = [pc |-> r.pc, doc |-> r.doc, expected |-> r.expected, review |-> r.review]
      /\ r.doc \in Documents /\ r.expected \in Nat
  BY DEF PolicyInvariant, UnderWay, RequestShape, Writing
<1>2. DOMAIN policyRequest = Operators
  BY DEF PolicyInvariant, PolicyShape
<1>3. s = [r EXCEPT !.pc = to] /\ DOMAIN policyRequest' = Operators /\ \A p \in Operators : p # o => policyRequest'[p] = policyRequest[p]
  BY <1>2
<1>4. s = [pc |-> to, doc |-> r.doc, expected |-> r.expected, review |-> r.review]
  <2>1. [[pc |-> r.pc, doc |-> r.doc, expected |-> r.expected, review |-> r.review] EXCEPT !.pc = to]
          = [pc |-> to, doc |-> r.doc, expected |-> r.expected, review |-> r.review]
    OBVIOUS
  <2> QED BY ONLY <1>1, <1>3, <2>1
<1>5. s.pc = to /\ s.doc = r.doc /\ s.expected = r.expected /\ s.review = r.review
  BY ONLY <1>4
<1>6. s = [pc |-> s.pc, doc |-> s.doc, expected |-> s.expected, review |-> s.review]
  BY ONLY <1>4, <1>5
<1>7. RequestShape(s)
  BY <1>1, <1>5, <1>6 DEF RequestShape
<1> QED BY <1>3, <1>5, <1>7

(* Writing the policy file keeps it and takes the next version.            *)
LEMMA PersistKeeps ==
    ASSUME PolicyInvariant, NEW o \in Operators, Persist(o)
    PROVE  PolicyInvariant' /\ policyFile'.version = policyFile.version + 1
<1> DEFINE r == policyRequest[o]
           file == [version |-> NextVersion(o), document |-> r.doc, overrides |-> OverridesBetween(configFile, r.doc), under |-> configFile,
                    review |-> r.review]
<1>1. /\ r.pc = "persist" /\ policyFile' = file /\ policyRequest' = [policyRequest EXCEPT ![o].pc = "audit"]
      /\ UNCHANGED <<configFile, audit, st, runtime, gate, read, reviewed, auditFaults>>
  BY DEF Persist, knownVars
<1>2. Writing(o)
  BY <1>1 DEF Writing
<1>3. policyFile.version = st.version /\ st.version = r.expected /\ gate = o /\ st.up /\ read[o].up
  BY <1>1, BeforePersist, AloneAtGate
<1>4. r.doc \in Documents /\ r.expected \in Nat /\ configFile \in ConfigFiles /\ policyFile.version \in Nat
  BY <1>1 DEF PolicyInvariant, UnderWay, RequestShape, PolicyShape
<1>5. /\ policyFile'.version = policyFile.version + 1 /\ policyFile'.document = r.doc /\ policyFile'.under = configFile
      /\ policyFile'.overrides = OverridesBetween(configFile, r.doc) /\ policyFile'.version = r.expected + 1
      /\ policyFile'.review = r.review
  BY <1>1, <1>3 DEF NextVersion
<1> HIDE DEF file
<1>6. LET s == policyRequest'[o] IN
      /\ s.pc = "audit" /\ s.doc = r.doc /\ s.expected = r.expected /\ s.review = r.review /\ RequestShape(s)
      /\ DOMAIN policyRequest' = Operators /\ \A p \in Operators : p # o => policyRequest'[p] = policyRequest[p]
  BY <1>1, <1>2, RequestMoves
<1>7. \A p \in Operators : p # o => policyRequest[p].pc = "none"
  BY <1>1, AloneAtGate
<1>8. PolicyShape'
  <2>1. policyFile'.version \in Nat
    BY <1>4, <1>5
  <2> QED BY <1>1, <1>4, <1>5, <1>6, <2>1 DEF PolicyInvariant, PolicyShape
<1>9. InForce'
  <2>1. \A p \in Operators : policyRequest[p].pc # "state"
    BY <1>1, <1>7
  <2> QED BY <1>1, <1>6, <2>1 DEF PolicyInvariant, InForce
<1>10. ASSUME NEW p \in Operators PROVE UnderWay(p)' /\ Given(p)'
  <2>1. UnderWay(p) /\ Given(p)
    BY DEF PolicyInvariant
  <2>2. Given(p)'
    <3>1. read[p].up => read[p].version \in Nat /\ read[p].version <= policyFile.version
      BY <2>1 DEF Given
    <3>2. read[p].up => read[p].version <= policyFile'.version /\ read[p].version # policyFile'.version
      BY <1>4, <1>5, <3>1
    <3> QED BY <1>1, <2>1, <3>2 DEF Given
  <2>3. CASE p # o
    <3>1. policyRequest'[p].pc = "none"
      BY <1>6, <1>7, <2>3
    <3>2. UnderWay(p)'
      BY <3>1 DEF UnderWay, RequestShape, Writing
    <3> QED BY <2>2, <3>2
  <2>4. CASE p = o
    <3>1. Shown(o)'
      BY <1>1, <1>2, <1>6, <2>1, <2>4 DEF UnderWay, Shown, Spares
    <3>2. UnderWay(p)'
      BY <1>1, <1>3, <1>5, <1>6, <2>4, <3>1 DEF UnderWay
    <3> QED BY <2>2, <3>2
  <2> QED BY <2>3, <2>4
<1> QED BY <1>5, <1>8, <1>9, <1>10 DEF PolicyInvariant

(* Auditing and publishing keep it, when the audit write fails too.        *)
LEMMA PublishPolicyKeeps ==
    ASSUME PolicyInvariant, NEW o \in Operators, PublishPolicy(o)
    PROVE  PolicyInvariant'
<1> DEFINE r == policyRequest[o]
           entry == Entry(NextVersion(o), r.doc)
<1>1. /\ r.pc = "audit" /\ policyRequest' = [policyRequest EXCEPT ![o].pc = "state"] /\ runtime' = Hot(r.doc)
      /\ UNCHANGED <<configFile, policyFile, st, gate, read, reviewed>>
      /\ \/ audit' = Appended(entry) /\ auditFaults' = auditFaults
         \/ auditFaults' = auditFaults + 1 /\ audit' = audit
  BY DEF PublishPolicy, knownVars
<1>2. Writing(o)
  BY <1>1 DEF Writing
<1>3. gate = o /\ st.up /\ read[o].up /\ \A p \in Operators : p # o => policyRequest[p].pc = "none"
  BY <1>1, AloneAtGate
<1>4. /\ r.doc \in Documents /\ r.expected \in Nat /\ policyFile.version = r.expected + 1
      /\ policyFile.document = r.doc /\ policyFile.under = configFile
      /\ st.version = r.expected /\ Shown(o)
  BY <1>1, <1>2 DEF PolicyInvariant, UnderWay, RequestShape
<1>5. entry \in AuditEntries /\ entry.version = policyFile.version
  BY <1>4 DEF Entry, NextVersion, AuditEntries
<1> HIDE DEF entry
<1>6. LET s == policyRequest'[o] IN
      /\ s.pc = "state" /\ s.doc = r.doc /\ s.expected = r.expected /\ s.review = r.review /\ RequestShape(s)
      /\ DOMAIN policyRequest' = Operators /\ \A p \in Operators : p # o => policyRequest'[p] = policyRequest[p]
  BY <1>1, <1>2, RequestMoves
<1>7. PolicyShape
  BY DEF PolicyInvariant
<1>8. /\ audit' \in [lines : Seq(AuditEntries), torn : BOOLEAN]
      /\ Len(audit'.lines) <= AUDIT_COMPACT \/ Len(audit'.lines) <= AUDIT_KEEP
      /\ auditFaults' \in Nat /\ (auditFaults' = 0 => ~audit'.torn)
      /\ auditFaults' = 0 => policyFile.version \in Recorded'
  <2>1. CASE audit' = Appended(entry) /\ auditFaults' = auditFaults
    <3>1. /\ audit' \in [lines : Seq(AuditEntries), torn : BOOLEAN] /\ ~audit'.torn
          /\ Len(audit'.lines) <= AUDIT_COMPACT \/ Len(audit'.lines) <= AUDIT_KEEP
      BY <1>5, <1>7, <2>1, AppendedShape
    <3>2. auditFaults \in Nat /\ (auditFaults = 0 => ~audit.torn)
      BY <1>7 DEF PolicyShape
    <3>3. ~audit.torn => policyFile.version \in Recorded'
      BY <1>5, <1>7, <2>1, AuditedEntries
    <3> QED BY <2>1, <3>1, <3>2, <3>3
  <2>2. CASE auditFaults' = auditFaults + 1 /\ audit' = audit
    <3>1. auditFaults \in Nat
      BY <1>7 DEF PolicyShape
    <3>2. auditFaults' \in Nat /\ auditFaults' # 0
      BY <2>2, <3>1
    <3> QED BY <1>7, <2>2, <3>2 DEF PolicyShape
  <2> QED BY <1>1, <2>1, <2>2
<1>9. PolicyShape'
  BY <1>1, <1>6, <1>7, <1>8 DEF PolicyShape
<1>10. InForce'
  <2>1. policyRequest'[o].pc = "state" /\ policyFile' = policyFile
    BY <1>1, <1>6
  <2> QED BY <1>8, <2>1 DEF InForce
<1>11. ASSUME NEW p \in Operators PROVE UnderWay(p)' /\ Given(p)'
  <2>1. UnderWay(p) /\ Given(p)
    BY DEF PolicyInvariant
  <2>2. Given(p)'
    BY <1>1, <2>1 DEF Given, EffectiveUnder
  <2>3. CASE p # o
    <3>1. policyRequest'[p].pc = "none"
      BY <1>3, <1>6, <2>3
    <3>2. UnderWay(p)'
      BY <3>1 DEF UnderWay, RequestShape, Writing
    <3> QED BY <2>2, <3>2
  <2>4. CASE p = o
    <3>1. Shown(o)'
      BY <1>1, <1>4, <1>6 DEF Shown, Spares
    <3>2. UnderWay(p)'
      BY <1>1, <1>3, <1>4, <1>6, <2>4, <3>1 DEF UnderWay
    <3> QED BY <2>2, <3>2
  <2> QED BY <2>3, <2>4
<1> QED BY <1>9, <1>10, <1>11 DEF PolicyInvariant

(* Installing the new state ends the write.                                *)
LEMMA SetStateKeeps ==
    ASSUME PolicyInvariant, NEW o \in Operators, SetState(o)
    PROVE  PolicyInvariant'
<1> DEFINE r == policyRequest[o]
           given == [version |-> NextVersion(o), up |-> TRUE, doc |-> r.doc, file |-> configFile]
           now == [version |-> NextVersion(o), up |-> TRUE, effective |-> r.doc]
<1>1. /\ r.pc = "state" /\ st' = now /\ read' = [read EXCEPT ![o] = given]
      /\ policyRequest' = [policyRequest EXCEPT ![o] = NoPolicyRequest] /\ gate' = "none"
      /\ UNCHANGED <<configFile, policyFile, audit, runtime, reviewed, auditFaults>>
  BY DEF SetState, Answered, diskVarsP
<1>2. gate = o /\ st.up /\ read[o].up /\ \A p \in Operators : p # o => policyRequest[p].pc = "none"
  BY <1>1, AloneAtGate
<1>3. /\ r.doc \in Documents /\ r.expected \in Nat /\ policyFile.version = r.expected + 1
      /\ policyFile.document = r.doc /\ policyFile.under = configFile /\ runtime = Hot(r.doc) /\ st.version = r.expected
  BY <1>1 DEF PolicyInvariant, UnderWay, RequestShape, Writing
<1>4. /\ given.version = policyFile.version /\ given.up = TRUE /\ given.doc = r.doc /\ given.file = configFile
      /\ now.version = policyFile.version /\ now.up = TRUE /\ now.effective = r.doc
  BY <1>3 DEF NextVersion
<1> HIDE DEF given, now
<1>5. PolicyShape /\ configFile \in ConfigFiles /\ policyFile.version \in Nat /\ policyFile.version # 0
  BY <1>3 DEF PolicyInvariant, PolicyShape
<1>6. EffectiveUnder(configFile) = r.doc
  <2>1. policyFile.overrides = OverridesBetween(configFile, r.doc)
    BY <1>3, <1>5 DEF PolicyShape
  <2> QED BY <1>3, <1>5, <2>1, OverlayRestores DEF EffectiveUnder
<1>7. /\ DOMAIN read' = Operators /\ read'[o] = given /\ \A p \in Operators : p # o => read'[p] = read[p]
      /\ DOMAIN policyRequest' = Operators /\ \A p \in Operators : policyRequest'[p].pc = "none"
  BY <1>1, <1>2, <1>5 DEF PolicyShape, NoPolicyRequest
<1>8. PolicyShape'
  BY <1>1, <1>4, <1>5, <1>7 DEF PolicyShape
<1>10. EffectiveUnder(configFile)' = EffectiveUnder(configFile)
  BY <1>1 DEF EffectiveUnder
<1>11. InForce'
  <2>1. auditFaults = 0 => policyFile.version \in Recorded
    BY <1>1, <1>2, <1>5 DEF PolicyInvariant, InForce
  <2>2. Recorded' = Recorded
    BY <1>1 DEF Recorded
  <2> QED BY <1>1, <1>3, <1>4, <1>6, <1>10, <2>1, <2>2 DEF InForce
<1>12. ASSUME NEW p \in Operators PROVE UnderWay(p)' /\ Given(p)'
  <2>1. Given(p)
    BY DEF PolicyInvariant
  <2>2. UnderWay(p)'
    BY <1>7 DEF UnderWay, RequestShape, Writing
  <2>3. CASE p # o
    <3>1. read[p].up => read[p].version \in Nat /\ read[p].version <= st.version
      BY <1>2, <2>1 DEF Given
    <3>2. read[p].up => read[p].version <= policyFile.version /\ read[p].version # policyFile.version
      BY <1>3, <3>1
    <3>3. Given(p)'
      BY <1>1, <1>4, <1>7, <2>1, <2>3, <3>2 DEF Given
    <3> QED BY <2>2, <3>3
  <2>4. CASE p = o
    <3>1. /\ read'[p].version = policyFile.version /\ read'[p].up = TRUE /\ read'[p].doc = r.doc /\ read'[p].file = configFile
          /\ policyFile.version <= policyFile.version
      BY <1>4, <1>5, <1>7, <2>4
    <3>2. EffectiveUnder(read[p].file)' = r.doc
      BY <1>1, <1>6, <3>1 DEF EffectiveUnder
    <3>3. Given(p)'
      BY <1>1, <1>4, <1>5, <3>1, <3>2 DEF Given
    <3> QED BY <2>2, <3>3
  <2> QED BY <2>3, <2>4
<1> QED BY <1>8, <1>11, <1>12 DEF PolicyInvariant

(* A crash at any step of a write keeps it.                                *)
LEMMA PolicyCrashKeeps ==
    ASSUME PolicyInvariant, PolicyCrash
    PROVE  PolicyInvariant'
<1>1. /\ st' = Down /\ gate' = "none" /\ policyRequest' = [o \in Operators |-> NoPolicyRequest]
      /\ UNCHANGED <<configFile, policyFile, runtime, read, reviewed>>
      /\ \/ audit' = audit /\ auditFaults' = auditFaults
         \/ auditFaults' = auditFaults + 1 /\ audit' = [audit EXCEPT !.torn = TRUE]
  BY DEF PolicyCrash, knownVars
<1>2. st'.up = FALSE /\ DOMAIN policyRequest' = Operators /\ \A p \in Operators : policyRequest'[p].pc = "none"
  BY <1>1 DEF Down, NoPolicyRequest
<1>3. /\ audit' \in [lines : Seq(AuditEntries), torn : BOOLEAN] /\ audit'.lines = audit.lines
      /\ auditFaults' \in Nat /\ (auditFaults' = 0 => ~audit'.torn)
  <2>1. audit \in [lines : Seq(AuditEntries), torn : BOOLEAN] /\ auditFaults \in Nat /\ (auditFaults = 0 => ~audit.torn)
    BY DEF PolicyInvariant, PolicyShape
  <2>2. CASE audit' = audit /\ auditFaults' = auditFaults
    BY <2>1, <2>2
  <2>3. CASE auditFaults' = auditFaults + 1 /\ audit' = [audit EXCEPT !.torn = TRUE]
    <3>1. auditFaults' \in Nat /\ auditFaults' # 0
      BY <2>1, <2>3
    <3> QED BY <2>1, <2>3, <3>1
  <2> QED BY <1>1, <2>2, <2>3
<1>4. PolicyShape'
  BY <1>1, <1>2, <1>3 DEF PolicyInvariant, PolicyShape
<1>5. InForce'
  BY <1>2 DEF InForce
<1>6. ASSUME NEW p \in Operators PROVE UnderWay(p)' /\ Given(p)'
  <2>1. Given(p)
    BY DEF PolicyInvariant
  <2>2. UnderWay(p)'
    BY <1>2 DEF UnderWay, RequestShape, Writing
  <2>3. Given(p)'
    BY <1>1, <1>2, <2>1 DEF Given, EffectiveUnder
  <2> QED BY <2>2, <2>3
<1> QED BY <1>4, <1>5, <1>6 DEF PolicyInvariant

(* Nothing else touches the policy.                                        *)
LEMMA PolicyStepKeeps ==
    ASSUME PolicyInvariant, [PolicyNext]_policyVars
    PROVE  /\ PolicyInvariant'
           /\ policyFile' # policyFile => policyFile'.version = policyFile.version + 1
<1>1. CASE PassStarts \/ PassEnforces \/ HourPasses \/ UNCHANGED policyVars \/ \E b : PassMerges(b)
  <2>1. UNCHANGED <<configFile, policyFile, audit, st, runtime, gate, policyRequest, read, reviewed, auditFaults>>
    BY <1>1 DEF PassStarts, PassEnforces, HourPasses, PassMerges, policyVars, diskVarsP, procVars, knownVars
  <2> QED BY <2>1, PolicyRests
<1>2. ASSUME NEW file \in ConfigFiles, PolicyStart(file)
      PROVE  PolicyInvariant' /\ policyFile' = policyFile
  BY <1>2, PolicyStartKeeps DEF PolicyStart
<1>3. ASSUME NEW o \in Operators, GetPolicies(o) \/ CheckWrite(o) \/ PersistFails(o) \/ PublishPolicy(o) \/ SetState(o)
      PROVE  PolicyInvariant' /\ policyFile' = policyFile
  <2>1. PolicyInvariant'
    BY <1>3, GetPoliciesKeeps, CheckWriteKeeps, PersistFailsKeeps, PublishPolicyKeeps, SetStateKeeps
  <2>2. policyFile' = policyFile
    BY <1>3 DEF GetPolicies, CheckWrite, PersistFails, PublishPolicy, SetState, diskVarsP
  <2> QED BY <2>1, <2>2
<1>4. ASSUME NEW o \in Operators, Persist(o)
      PROVE  PolicyInvariant' /\ policyFile'.version = policyFile.version + 1
  BY <1>4, PersistKeeps
<1>5. ASSUME NEW o \in Operators, NEW d \in Documents, Preview(o, d)
      PROVE  PolicyInvariant' /\ policyFile' = policyFile
  BY <1>5, PreviewKeeps DEF Preview, diskVarsP
<1>6. ASSUME NEW o \in Operators, NEW d \in Documents, NEW c \in BOOLEAN, PutArrives(o, d, c)
      PROVE  PolicyInvariant' /\ policyFile' = policyFile
  BY <1>6, PutArrivesKeeps DEF PutArrives, diskVarsP
<1>7. ASSUME NEW o \in Operators, NEW v \in 1..MaxWrites, NEW c \in BOOLEAN, RestoreArrives(o, v, c)
      PROVE  PolicyInvariant' /\ policyFile' = policyFile
  BY <1>7, RestoreArrivesKeeps DEF RestoreArrives, PutArrives, diskVarsP
<1>8. CASE PolicyCrash
  BY <1>8, PolicyCrashKeeps DEF PolicyCrash
<1> QED BY <1>1, <1>2, <1>3, <1>4, <1>5, <1>6, <1>7, <1>8 DEF PolicyNext

(* The inductive invariant gives the invariants the runs check.            *)
LEMMA PolicyImplies ==
    PolicyInvariant =>
        /\ PolicyTypeOK /\ WritesAreSerial /\ ReadIsDurable
        /\ RestartKeepsPolicy /\ CurrentIsAudited
<1> SUFFICES ASSUME PolicyInvariant
             PROVE  /\ PolicyTypeOK /\ WritesAreSerial /\ ReadIsDurable
                    /\ RestartKeepsPolicy /\ CurrentIsAudited
  OBVIOUS
<1>1. PolicyShape /\ InForce /\ policyFile.version \in Nat /\ \A o \in Operators : UnderWay(o) /\ Given(o)
  BY DEF PolicyInvariant, PolicyShape
<1>2. PolicyTypeOK
  BY <1>1 DEF PolicyShape, PolicyTypeOK, UnderWay, RequestShape
<1>3. WritesAreSerial
  <2> SUFFICES ASSUME NEW o \in Operators, Writing(o)
               PROVE  /\ gate = o /\ st.version = policyRequest[o].expected
                      /\ read[o].file = configFile /\ read[o].version = st.version => read[o].doc = st.effective
    BY DEF WritesAreSerial
  <2>1. gate = o /\ st.up /\ read[o].up
    BY AloneAtGate DEF Writing
  <2> QED BY <1>1, <2>1 DEF UnderWay, Given
<1>4. ReadIsDurable
  <2> SUFFICES ASSUME NEW o \in Operators, read[o].up
               PROVE  /\ read[o].version <= policyFile.version
                      /\ read[o].version = policyFile.version /\ read[o].version > 0
                         /\ read[o].file = policyFile.under => read[o].doc = policyFile.document
    BY DEF ReadIsDurable
  <2>1. read[o].version <= policyFile.version /\ (read[o].version = policyFile.version => read[o].doc = EffectiveUnder(read[o].file))
    BY <1>1 DEF Given
  <2>2. policyFile.version > 0 => EffectiveUnder(policyFile.under) = policyFile.document
    BY <1>1, OverlayRestores DEF EffectiveUnder, PolicyShape
  <2> QED BY <2>1, <2>2
<1>5. Quiet => /\ policyFile.version = st.version /\ st.effective = EffectiveUnder(configFile) /\ runtime = Hot(st.effective)
               /\ auditFaults = 0 /\ policyFile.version # 0 => policyFile.version \in Recorded
  <2>1. Quiet => st.up /\ \A o \in Operators : policyRequest[o].pc \notin {"audit", "state"}
    BY DEF Quiet, Writing
  <2> QED BY <1>1, <2>1 DEF InForce
<1>6. RestartKeepsPolicy
  <2>1. policyFile.version > 0 /\ configFile = policyFile.under => EffectiveUnder(configFile) = policyFile.document
    BY <1>1, OverlayRestores DEF EffectiveUnder, PolicyShape
  <2>2. Pending(st.effective) = {} => running.capacity = st.effective.capacity
    BY DEF Pending
  <2> QED BY <1>5, <2>1, <2>2 DEF RestartKeepsPolicy
<1>8. CurrentIsAudited
  BY <1>1, <1>5 DEF CurrentIsAudited
<1> QED BY <1>2, <1>3, <1>4, <1>6, <1>8

(* What the file, the runtime and a pass enforce keeps what its review     *)
(* kept.                                                                   *)
Reviews ==
    /\ Spares(policyFile.review, policyFile.document.retention)
    /\ Spares(review, runtime.retention)
    /\ pass.pc # "idle" => Spares(pass.review, pass.retention)

(* The review follows its document from the write to the file, over a      *)
(* restart to the runtime, and into the snapshot of a pass.                *)
LEMMA ReviewsKept ==
    ASSUME PolicyInvariant, Reviews, [PolicyNext]_policyVars
    PROVE  Reviews'
<1>1. CASE UNCHANGED <<policyFile, review, runtime, pass>>
  BY <1>1 DEF Reviews, Spares
<1>2. ASSUME NEW file \in ConfigFiles, PolicyStart(file) PROVE Reviews'
  <2> DEFINE effective == IF policyFile.version = 0 THEN file ELSE Overlaid(file, policyFile.document, policyFile.overrides)
  <2>1. /\ runtime' = Hot(effective) /\ UNCHANGED <<policyFile, pass>>
        /\ review' = IF effective = policyFile.document THEN policyFile.review ELSE {}
    BY <1>2 DEF PolicyStart
  <2> HIDE DEF effective
  <2>2. runtime'.retention = effective.retention
    BY <2>1 DEF Hot
  <2>3. Spares(review, runtime.retention)'
    BY <2>1, <2>2 DEF Reviews, Spares
  <2> QED BY <2>1, <2>3 DEF Reviews, Spares
<1>3. ASSUME NEW o \in Operators, Persist(o) PROVE Reviews'
  <2>1. /\ policyFile'.review = policyRequest[o].review /\ policyFile'.document = policyRequest[o].doc
        /\ policyRequest[o].pc = "persist" /\ UNCHANGED <<review, runtime, pass>>
    BY <1>3 DEF Persist
  <2>2. Spares(policyRequest[o].review, policyRequest[o].doc.retention)
    BY <2>1 DEF PolicyInvariant, UnderWay, Writing, Shown
  <2> QED BY <2>1, <2>2 DEF Reviews, Spares
<1>4. ASSUME NEW o \in Operators, PublishPolicy(o) PROVE Reviews'
  <2>1. /\ review' = policyRequest[o].review /\ runtime'.retention = policyRequest[o].doc.retention
        /\ policyRequest[o].pc = "audit" /\ UNCHANGED <<policyFile, pass>>
    BY <1>4 DEF PublishPolicy, Hot
  <2>2. Spares(policyRequest[o].review, policyRequest[o].doc.retention)
    BY <2>1 DEF PolicyInvariant, UnderWay, Writing, Shown
  <2> QED BY <2>1, <2>2 DEF Reviews, Spares
<1>5. CASE PassStarts
  <2>1. /\ pass'.review = review /\ pass'.retention = runtime.retention
        /\ UNCHANGED <<policyFile, review, runtime>>
    BY <1>5 DEF PassStarts, diskVarsP
  <2> QED BY <2>1 DEF Reviews, Spares
<1>6. ASSUME NEW b, PassMerges(b) PROVE Reviews'
  <2>1. pass.pc = "merge" /\ pass' = [pass EXCEPT !.pc = "enforce"] /\ UNCHANGED <<policyFile, review, runtime>>
    BY <1>6 DEF PassMerges, diskVarsP
  <2>2. pass'.review = pass.review /\ pass'.retention = pass.retention
    BY <2>1
  <2> QED BY <2>1, <2>2 DEF Reviews, Spares
<1>7. CASE PassEnforces
  <2>1. pass'.pc = "idle" /\ UNCHANGED <<policyFile, review, runtime>>
    BY <1>7 DEF PassEnforces, diskVarsP
  <2> QED BY <2>1 DEF Reviews, Spares
<1>8. CASE PolicyCrash
  <2>1. pass'.pc = "idle" /\ review' = {} /\ UNCHANGED <<policyFile, runtime>>
    BY <1>8 DEF PolicyCrash
  <2> QED BY <2>1 DEF Reviews, Spares
<1>9. ASSUME NEW o \in Operators,
             \/ GetPolicies(o) \/ CheckWrite(o) \/ PersistFails(o) \/ SetState(o)
             \/ \E d \in Documents : Preview(o, d)
             \/ \E d \in Documents, c \in BOOLEAN : PutArrives(o, d, c)
             \/ \E v \in 1..MaxWrites, c \in BOOLEAN : RestoreArrives(o, v, c)
      PROVE  UNCHANGED <<policyFile, review, runtime, pass>>
  BY <1>9 DEF GetPolicies, CheckWrite, PersistFails, SetState, Preview, PutArrives, RestoreArrives, diskVarsP, procVars
<1>10. CASE HourPasses \/ UNCHANGED policyVars
  BY <1>1, <1>10 DEF HourPasses, policyVars, diskVarsP, procVars
<1> QED BY <1>1, <1>2, <1>3, <1>4, <1>5, <1>6, <1>7, <1>8, <1>9, <1>10 DEF PolicyNext

(* A pass deletes what it finds due, under the retention list it took with *)
(* its review.                                                             *)
LEMMA DeletionWasShown ==
    ASSUME Reviews, [PolicyNext]_policyVars, NEW p \in partitions \ partitions', NEW k \in pass.review, p = k.part
    PROVE  ~DueAt(pass.retention, p, k.at)
<1>1. pass.pc = "enforce"
  <2>1. ASSUME NEW b, PassMerges(b) PROVE partitions \subseteq partitions'
    BY <2>1 DEF PassMerges
  <2>2. PassEnforces \/ (\E b : PassMerges(b)) \/ partitions' = partitions
    BY DEF PolicyNext, PolicyStart, GetPolicies, CheckWrite, Persist, PersistFails, PublishPolicy, SetState, Preview,
           PutArrives, RestoreArrives, PassStarts, HourPasses, PolicyCrash, policyVars
  <2> QED BY <2>1, <2>2 DEF PassEnforces
<1> QED BY <1>1 DEF Reviews, Spares

(* A running process gives up its pushdown when a write is published, and  *)
(* the write was shown to do so.                                           *)
LEMMA LossIsPublished ==
    ASSUME PolicyInvariant, [PolicyNext]_policyVars, st.up, runtime.pushdown, ~runtime'.pushdown
    PROVE  \E o \in Operators : policyRequest[o].pc = "audit" /\ "pushdown" \in reviewed[o].lossy
<1>1. PICK o \in Operators : PublishPolicy(o)
  BY DEF PolicyNext, PolicyStart, GetPolicies, CheckWrite, Persist, PersistFails, SetState, Preview, PutArrives,
         RestoreArrives, PassStarts, PassMerges, PassEnforces, HourPasses, PolicyCrash, policyVars, procVars
<1>2. policyRequest[o].pc = "audit" /\ runtime'.pushdown = policyRequest[o].doc.pushdown
  BY <1>1 DEF PublishPolicy, Hot
<1>3. \A p \in Operators : policyRequest[p].pc # "state"
  BY <1>2, AloneAtGate
<1>4. runtime.pushdown = st.effective.pushdown
  <2>1. runtime = Hot(st.effective)
    BY <1>3 DEF PolicyInvariant, InForce
  <2> QED BY ONLY <2>1 DEF Hot
<1>5. Shown(o)
  BY <1>2 DEF PolicyInvariant, UnderWay, Writing
<1> QED BY <1>2, <1>4, <1>5 DEF Shown

(* PolicyPromise for any operators, documents and configuration files:     *)
(* writes are serial and conditional on the version that was read, a       *)
(* version is never taken twice, what an operator was shown is durable, a  *)
(* restart gives back the policy that was in force, a pass deletes nothing *)
(* that was due when the write was checked and that its operator was not   *)
(* shown, and the version in force is audited unless an audit write        *)
(* failed.                                                                 *)
THEOREM PolicySafe == PolicySpec => PolicyPromise
<1>1. PolicySpec => []PolicyInvariant
  <2>1. PolicyInvariant /\ [PolicyNext]_policyVars => PolicyInvariant'
    BY PolicyStepKeeps
  <2> QED BY PolicyInitially, <2>1, PTL DEF PolicySpec
<1>2. PolicySpec => [](/\ PolicyTypeOK /\ WritesAreSerial /\ ReadIsDurable
                       /\ RestartKeepsPolicy /\ CurrentIsAudited)
  BY <1>1, PolicyImplies, PTL
<1>3. PolicySpec => VersionsAreUsedOnce
  <2>1. PolicyInvariant /\ [PolicyNext]_policyVars
          => [policyFile' # policyFile => policyFile'.version = policyFile.version + 1]_policyVars
    BY PolicyStepKeeps
  <2> QED BY <1>1, <2>1, PTL DEF PolicySpec, VersionsAreUsedOnce
<1>4. PolicySpec => DeletedWasShown
  <2>1. PolicyInit => Reviews
    BY DEF PolicyInit, Reviews, Spares
  <2>2. PolicyInvariant /\ Reviews /\ [PolicyNext]_policyVars => Reviews'
    BY ReviewsKept
  <2>3. PolicySpec => []Reviews
    BY <1>1, <2>1, <2>2, PTL DEF PolicySpec
  <2>4. Reviews /\ [PolicyNext]_policyVars
          => [\A p \in partitions \ partitions' : \A k \in pass.review :
                 p = k.part => ~DueAt(pass.retention, p, k.at)]_policyVars
    BY DeletionWasShown
  <2> QED BY <2>3, <2>4, PTL DEF PolicySpec, DeletedWasShown
<1>5. PolicySpec => LossWasShown
  <2>1. PolicyInvariant /\ [PolicyNext]_policyVars
          => [st.up /\ runtime.pushdown /\ ~runtime'.pushdown =>
                 \E o \in Operators : policyRequest[o].pc = "audit" /\ "pushdown" \in reviewed[o].lossy]_policyVars
    BY LossIsPublished
  <2> QED BY <1>1, <2>1, PTL DEF PolicySpec, LossWasShown
<1> QED BY <1>2, <1>3, <1>4, <1>5, PTL DEF PolicyPromise
=============================================================================
