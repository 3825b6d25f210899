----------------------------- MODULE HttpServer -----------------------------
(***************************************************************************)
(* The HTTP listener every receiver runs on (bounded_http.rs, httpd.rs):   *)
(* an acceptor with a cap on connections, one thread per connection that   *)
(* reads a bounded head, judges it, reads a bounded body and answers once, *)
(* and a shutdown that waits for the threads.                              *)
(*                                                                         *)
(* Bytes are units that arrive one at a time.  A request is its head's     *)
(* length, how its body is framed, the length it declares, the length it   *)
(* inflates to, and what its handler makes of the head.  Time is only what *)
(* a deadline's passing shows.                                             *)
(***************************************************************************)
EXTENDS Naturals, Sequences, FiniteSets, SequencesExt, FiniteSetsExt

CONSTANTS
    Clients,              \* each connects once
    Requests,             \* what they send
    max_head_bytes, max_body_bytes, max_decompressed_bytes, max_connections,
    MaxSpawnFaults        \* bound

Request == [head : Nat, body : Nat, inflated : Nat, framing : {"length", "chunked", "both", "other"},
            refused : BOOLEAN, streamed : BOOLEAN]

NoClient == "nobody"

(* What wakes a blocked accept at shutdown.                                *)
Waker == "waker"

ASSUME HttpAssumption ==
    /\ IsFiniteSet(Clients) /\ NoClient \notin Clients /\ Waker \notin Clients
    /\ Requests \subseteq Request
    /\ max_head_bytes \in Nat /\ max_body_bytes \in Nat /\ max_decompressed_bytes \in Nat
    /\ max_connections \in Nat /\ MaxSpawnFaults \in Nat

VARIABLES
    backlog,      \* connections the kernel holds for accept
    acceptor,     \* the acceptor thread: pc, and the connection it holds
    connectionsActive,       \* BoundedServer::active
    conn,         \* [Clients -> the connection and the thread serving it]
    serverStop,         \* BoundedServer::stop
    closing,      \* shutdown: "no", "join", "wait", "drained", "gave_up"
    spawnFaults

httpVars == <<backlog, acceptor, connectionsActive, conn, serverStop, closing, spawnFaults>>

IdleConnection == [pc |-> "idle", req |-> [head |-> 0], sent |-> 0, buf |-> 0, body |-> 0, open |-> TRUE, status |-> 0]

HttpInit ==
    /\ backlog = <<>> /\ acceptor = [pc |-> "accept", holds |-> NoClient]
    /\ connectionsActive = 0 /\ serverStop = FALSE /\ closing = "no" /\ spawnFaults = 0
    /\ conn = [c \in Clients |-> IdleConnection]

(* Connections with a thread: spawned, and not yet past its guard.         *)
Reading == {"head", "body", "chunk", "stream"}
ServerThreads == {c \in Clients : conn[c].pc \in Reading \cup {"handle", "reply", "drain"}}

-----------------------------------------------------------------------------
(* Clients (external).                                                     *)

Connect(c, req) ==
    /\ conn[c].pc = "idle" /\ acceptor.pc # "done"
    /\ conn' = [conn EXCEPT ![c].pc = "queued", ![c].req = req]
    /\ backlog' = Append(backlog, c)
    /\ UNCHANGED <<acceptor, connectionsActive, serverStop, closing, spawnFaults>>

Wire(req) == req.head + req.body

(* The next unit arrives, or the client hangs up.                          *)
ClientSends(c) ==
    /\ conn[c].pc \in Reading /\ conn[c].open /\ conn[c].sent < Wire(conn[c].req)
    /\ conn' = [conn EXCEPT ![c].sent = @ + 1]
    /\ UNCHANGED <<backlog, acceptor, connectionsActive, serverStop, closing, spawnFaults>>

ClientCloses(c) ==
    /\ conn[c].pc \in Reading /\ conn[c].open
    /\ conn' = [conn EXCEPT ![c].open = FALSE]
    /\ UNCHANGED <<backlog, acceptor, connectionsActive, serverStop, closing, spawnFaults>>

-----------------------------------------------------------------------------
(* The acceptor.                                                           *)

(* accept returns; after a stop whatever it returned is dropped.           *)
Accept ==
    /\ acceptor.pc = "accept" /\ backlog # <<>>
    /\ backlog' = Tail(backlog)
    /\ LET c == Head(backlog) IN
       IF serverStop
       THEN /\ acceptor' = [pc |-> "done", holds |-> NoClient]
            /\ conn' = [x \in Clients |-> IF conn[x].pc = "queued" THEN [conn[x] EXCEPT !.pc = "gone"] ELSE conn[x]]
       ELSE /\ acceptor' = [pc |-> "count", holds |-> c] /\ UNCHANGED conn
    /\ UNCHANGED <<connectionsActive, serverStop, closing, spawnFaults>>

(* fetch_add returned less than the limit.                                 *)
ConnectionRoom == connectionsActive < max_connections

(* The cap: counted before the thread exists.                              *)
Admit ==
    /\ acceptor.pc = "count"
    /\ LET c == acceptor.holds IN
       IF ConnectionRoom
       THEN /\ connectionsActive' = connectionsActive + 1 /\ acceptor' = [acceptor EXCEPT !.pc = "spawn"] /\ UNCHANGED conn
       ELSE /\ conn' = [conn EXCEPT ![c].pc = "gone"] /\ acceptor' = [pc |-> "accept", holds |-> NoClient]
            /\ UNCHANGED connectionsActive
    /\ UNCHANGED <<backlog, serverStop, closing, spawnFaults>>

Spawn ==
    /\ acceptor.pc = "spawn"
    /\ conn' = [conn EXCEPT ![acceptor.holds].pc = "head"]
    /\ acceptor' = [pc |-> "accept", holds |-> NoClient]
    /\ UNCHANGED <<backlog, connectionsActive, serverStop, closing, spawnFaults>>

(* ActiveGuard::drop.                                                      *)
UncountedConnection == connectionsActive - 1

(* The thread cannot be made: the closure is dropped, its guard with it.   *)
SpawnFails ==
    /\ acceptor.pc = "spawn" /\ spawnFaults < MaxSpawnFaults
    /\ spawnFaults' = spawnFaults + 1
    /\ conn' = [conn EXCEPT ![acceptor.holds].pc = "gone"]
    /\ acceptor' = [pc |-> "accept", holds |-> NoClient]
    /\ connectionsActive' = UncountedConnection
    /\ UNCHANGED <<backlog, serverStop, closing>>

-----------------------------------------------------------------------------
(* A connection's thread.                                                  *)

Thread(c, pcs) == conn[c].pc \in pcs

ConnectionEnds(c, status) == conn' = [conn EXCEPT ![c].pc = "reply", ![c].status = status]

acceptVars == <<backlog, acceptor, connectionsActive, serverStop, closing, spawnFaults>>

(* fill: a unit from the socket; the end of what a closed client sent is   *)
(* the end of the connection.                                              *)
Arrived(c) == conn[c].sent > conn[c].buf

(* read_request: the budget is judged before every read.                   *)
HeadBounded(c) == conn[c].buf <= max_head_bytes

HeadWhole(c) == conn[c].buf >= conn[c].req.head

ReadHead(c) ==
    /\ Thread(c, {"head"}) /\ ~HeadWhole(c) /\ HeadBounded(c) /\ Arrived(c)
    /\ conn' = [conn EXCEPT ![c].buf = @ + 1]
    /\ UNCHANGED acceptVars

HeadTooLarge(c) ==
    /\ Thread(c, {"head"})
    /\ IF HeadWhole(c) THEN conn[c].req.head > max_head_bytes ELSE ~HeadBounded(c)
    /\ ConnectionEnds(c, 431)
    /\ UNCHANGED acceptVars

(* Transfer-Encoding and Content-Length: a body framed twice is refused,   *)
(* and so is any coding but chunked.                                       *)
FramingStatus(framing) ==
    CASE framing = "both" -> 400
      [] framing = "other" -> 501
      [] OTHER -> 0

(* The head in order: framing, preflight, stream, then the declared length *)
(* against the limit (a chunked body declares none).                       *)
Judged(c) ==
    LET req == conn[c].req IN
    CASE FramingStatus(req.framing) # 0 -> [pc |-> "reply", status |-> FramingStatus(req.framing)]
      [] FramingStatus(req.framing) = 0 /\ req.refused -> [pc |-> "reply", status |-> 401]
      [] FramingStatus(req.framing) = 0 /\ ~req.refused /\ req.framing = "chunked" -> [pc |-> "chunk", status |-> 0]
      [] OTHER ->
            IF req.streamed THEN [pc |-> "stream", status |-> 0]
            ELSE IF req.body > max_body_bytes THEN [pc |-> "reply", status |-> 413]
            ELSE [pc |-> "body", status |-> 0]

JudgeHead(c) ==
    /\ Thread(c, {"head"}) /\ HeadWhole(c) /\ conn[c].req.head <= max_head_bytes
    /\ conn' = [conn EXCEPT ![c].pc = Judged(c).pc, ![c].status = Judged(c).status]
    /\ UNCHANGED acceptVars

BodyWhole(c) == conn[c].body >= conn[c].req.body

(* A declared body, buffered, or read by the handler as it comes.          *)
ReadHttpBody(c) ==
    /\ Thread(c, {"body", "stream"}) /\ ~BodyWhole(c) /\ Arrived(c)
    /\ conn' = [conn EXCEPT ![c].buf = @ + 1, ![c].body = @ + 1]
    /\ UNCHANGED acceptVars

(* read_chunked: what there is and the next chunk.                         *)
ChunkFits(c) == conn[c].body + 1 <= max_body_bytes

ReadChunk(c) ==
    /\ Thread(c, {"chunk"}) /\ ~BodyWhole(c) /\ Arrived(c)
    /\ IF ChunkFits(c) THEN conn' = [conn EXCEPT ![c].buf = @ + 1, ![c].body = @ + 1] ELSE ConnectionEnds(c, 413)
    /\ UNCHANGED acceptVars

(* The body is whole; gzip is inflated up to its own limit.                *)
BodyDone(c) ==
    /\ Thread(c, {"body", "chunk", "stream"}) /\ BodyWhole(c)
    /\ IF conn[c].pc # "stream" /\ conn[c].req.inflated > max_decompressed_bytes
       THEN ConnectionEnds(c, 413)
       ELSE conn' = [conn EXCEPT ![c].pc = "handle"]
    /\ UNCHANGED acceptVars

(* The client closed before the request was whole: nobody to answer, but a *)
(* streaming handler answers its error.                                    *)
ReadEnds(c) ==
    /\ Thread(c, Reading) /\ ~conn[c].open /\ ~Arrived(c)
    /\ IF Thread(c, {"head"}) THEN ~HeadWhole(c) /\ HeadBounded(c) ELSE ~BodyWhole(c)
    /\ IF Thread(c, {"stream"}) THEN ConnectionEnds(c, 400) ELSE conn' = [conn EXCEPT ![c].pc = "drain"]
    /\ UNCHANGED acceptVars

(* A deadline passes while a read waits: the request's, or a stream's.     *)
Late(c) == Thread(c, Reading)

ReadTimesOut(c) ==
    /\ Late(c) /\ ~Arrived(c) /\ conn[c].open
    /\ IF Thread(c, {"head"}) THEN ~HeadWhole(c) /\ HeadBounded(c) ELSE ~BodyWhole(c)
    /\ ConnectionEnds(c, 408)
    /\ UNCHANGED acceptVars

Handle(c) ==
    /\ Thread(c, {"handle"})
    /\ ConnectionEnds(c, 200)
    /\ UNCHANGED acceptVars

(* write_reply, each write bounded; then what the client still sends is    *)
(* read and dropped for a while.                                           *)
WriteReply(c) ==
    /\ Thread(c, {"reply"})
    /\ conn' = [conn EXCEPT ![c].pc = "drain"]
    /\ UNCHANGED acceptVars

(* drain ends, the guard is dropped, the socket closes.                    *)
Finish(c) ==
    /\ Thread(c, {"drain"})
    /\ conn' = [conn EXCEPT ![c].pc = "done", ![c].buf = 0]
    /\ connectionsActive' = connectionsActive - 1
    /\ UNCHANGED <<backlog, acceptor, serverStop, closing, spawnFaults>>

-----------------------------------------------------------------------------
(* BoundedServer::shutdown.                                                *)

(* stop, then a connection of its own to wake the accept.                  *)
Shutdown ==
    /\ closing = "no"
    /\ serverStop' = TRUE /\ closing' = "join" /\ backlog' = Append(backlog, Waker)
    /\ UNCHANGED <<acceptor, connectionsActive, conn, spawnFaults>>

(* Mutant of Join: the wait starts at once.                                *)
JoinNot ==
    /\ closing = "join"
    /\ closing' = "wait"
    /\ UNCHANGED <<backlog, acceptor, connectionsActive, conn, serverStop, spawnFaults>>

(* The acceptor's thread has ended.                                        *)
Join ==
    /\ closing = "join" /\ acceptor.pc = "done"
    /\ closing' = "wait"
    /\ UNCHANGED <<backlog, acceptor, connectionsActive, conn, serverStop, spawnFaults>>

(* The wait sees no connection, or its ten seconds pass.                   *)
WaitEnded ==
    /\ closing = "wait"
    /\ \/ connectionsActive = 0 /\ closing' = "drained"
       \/ connectionsActive > 0 /\ closing' = "gave_up"
    /\ UNCHANGED <<backlog, acceptor, connectionsActive, conn, serverStop, spawnFaults>>

HttpStep(c) ==
    \/ ReadHead(c) \/ HeadTooLarge(c) \/ JudgeHead(c) \/ ReadHttpBody(c) \/ ReadChunk(c) \/ BodyDone(c)
    \/ ReadEnds(c) \/ ReadTimesOut(c) \/ Handle(c) \/ WriteReply(c) \/ Finish(c)

HttpNext ==
    \/ \E c \in Clients, req \in Requests : Connect(c, req)
    \/ \E c \in Clients : ClientSends(c) \/ ClientCloses(c) \/ HttpStep(c)
    \/ Accept \/ Admit \/ Spawn \/ SpawnFails
    \/ Shutdown \/ Join \/ WaitEnded

HttpSpec == HttpInit /\ [][HttpNext]_httpVars

(* Threads run, deadlines pass, and shutdown goes on once it was called.   *)
HttpFairness ==
    /\ WF_httpVars(Accept) /\ WF_httpVars(Admit) /\ WF_httpVars(Spawn) /\ WF_httpVars(Join) /\ WF_httpVars(WaitEnded)
    /\ \A c \in Clients : WF_httpVars(HttpStep(c))
HttpFairSpec == HttpSpec /\ HttpFairness

-----------------------------------------------------------------------------
(* Properties.                                                             *)

(* Types; the connections being served never pass the cap.                 *)
HttpTypeOK ==
    /\ connectionsActive \in 0..max_connections
    /\ acceptor.pc \in {"accept", "count", "spawn", "done"}
    /\ closing \in {"no", "join", "wait", "drained", "gave_up"}
    /\ Cardinality(ServerThreads) <= max_connections

(* The count is the threads there are, and the one about to be: the cap    *)
(* never shrinks by a connection that is over (ActiveGuard).               *)
ActiveIsThreads == connectionsActive = Cardinality(ServerThreads) + (IF acceptor.pc = "spawn" THEN 1 ELSE 0)

(* What one connection makes the process hold is bounded by the limits,    *)
(* whatever its client sends: a head and a read, and a body of at most the *)
(* limit unless the handler streams it (read_request, read_chunked).       *)
MemoryIsBounded ==
    \A c \in ServerThreads :
        /\ conn[c].pc = "head" => conn[c].buf <= max_head_bytes + 1
        /\ conn[c].pc # "stream" /\ ~conn[c].req.streamed => conn[c].body <= max_body_bytes

(* A handler sees a body only when its head was let through and the body   *)
(* came whole, under one framing (preflight, read_request).                *)
HandledIsWhole ==
    \A c \in Clients : conn[c].status = 200 \/ conn[c].pc = "handle" =>
        /\ conn[c].body = conn[c].req.body /\ ~conn[c].req.refused
        /\ conn[c].req.framing \in {"length", "chunked"}

(* A shutdown that did not give up leaves no connection behind it: the     *)
(* acceptor is gone before the count is read (shutdown).                   *)
DrainedIsQuiet == closing = "drained" => ServerThreads = {}

(* Whatever its client does or stops doing, a connection's thread ends.    *)
ThreadsEnd == \A c \in Clients : conn[c].pc = "head" ~> conn[c].pc = "done"

(* Shutdown returns, with the acceptor blocked and clients stalled too.    *)
ServerShutdownEnds == closing = "join" ~> closing \in {"drained", "gave_up"}

(* What bounded_http.rs keeps to: threads are counted and bounded, what a  *)
(* handler sees is whole and within the limits, and after a shutdown that  *)
(* waited nothing runs.                                                    *)
HttpInv ==
    /\ HttpTypeOK
    /\ ActiveIsThreads
    /\ HandledIsWhole
    /\ MemoryIsBounded
    /\ DrainedIsQuiet
=============================================================================
