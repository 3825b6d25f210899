------------------------------ MODULE OtlpGrpc ------------------------------
(***************************************************************************)
(* The OTLP/gRPC receiver (otlp/grpc.rs, otlp/h2.rs): one HTTP/2           *)
(* connection, the frames a client interleaves on it, the flow-control     *)
(* credit and the header-compression state the two ends share, and what a  *)
(* shutdown does to it.                                                    *)
(*                                                                         *)
(* A request is a header block in one or two frames and a body of DATA     *)
(* frames; lengths are units.  A header block carries the number of blocks *)
(* its client encoded before it: HPACK decodes it right only when the      *)
(* server decoded exactly those.                                           *)
(***************************************************************************)
EXTENDS Naturals, Sequences, FiniteSets, SequencesExt, FiniteSetsExt

CONSTANTS
    GrpcStreams,             \* stream ids, opened in order
    Exports,                 \* the requests a client may send
    WINDOW, FirstWindow,     \* what is advertised; what a connection starts with
    MAX_CONCURRENT_STREAMS, max_message_bytes,
    ClientStreams,           \* what the client believes MAX_CONCURRENT_STREAMS is
    MaxWire                  \* bound: frames on their way

ASSUME GrpcAssumption == WINDOW \in Nat /\ WINDOW \div 2 > 0 /\ GrpcStreams \subseteq Nat

VARIABLES
    calls,       \* [GrpcStreams -> the client's side of a call]
    wire,        \* frames sent and not yet read
    sendWindow,  \* the client's connection-level credit
    streamWindow,\* [GrpcStreams -> the client's credit on a stream]
    encoded,     \* header blocks the client's encoder made
    decoded,     \* header blocks the server's decoder took
    streams,     \* serve_connection's map of half-read requests
    creditUsed,  \* connection_credit_used
    server,      \* the connection's thread: pc and the frame in hand
    grpcStats,   \* ReceiverStats
    grpcStop,    \* Receiver::stop
    grpcWait,    \* shutdown: "no", "wait", "drained", "gave_up"
    refusedAny   \* history: a stream was refused for the concurrency limit

clientVars == <<calls, wire, sendWindow, streamWindow, encoded>>
serverVars == <<decoded, streams, creditUsed, server, grpcStats, refusedAny>>
grpcVars == <<clientVars, serverVars, grpcStop, grpcWait>>

NoFrame == [kind |-> "none"]
NoExport == [blocks |-> 0, data |-> <<>>]
NewStream == [fragments |-> <<>>, headersDone |-> FALSE, garbled |-> FALSE, body |-> 0, tooLarge |-> FALSE]
Zero == [requests |-> 0, accepted |-> 0, rejected |-> 0, badRequest |-> 0, tooLarge |-> 0]

(* serve_connection past the preface: the SETTINGS and the first           *)
(* WINDOW_UPDATE are out.                                                  *)
GrpcInit ==
    /\ calls = [s \in GrpcStreams |-> [state |-> "none", req |-> NoExport, blocks |-> 0, data |-> 0, answer |-> "none"]]
    /\ wire = <<>> /\ sendWindow = FirstWindow + WINDOW /\ streamWindow = [s \in GrpcStreams |-> WINDOW]
    /\ encoded = 0 /\ decoded = 0
    /\ streams = << >> /\ creditUsed = 0
    /\ server = [pc |-> "read", frame |-> NoFrame]
    /\ grpcStats = Zero /\ grpcStop = FALSE /\ grpcWait = "no" /\ refusedAny = FALSE

-----------------------------------------------------------------------------
(* The client (external): an HTTP/2 sender that keeps to its windows.      *)

(* A frame is sent when there is room for it on the wire.                  *)
Sends(frame) == Len(wire) < MaxWire /\ wire' = Append(wire, frame)

SendingCall(s) == calls[s].state = "open"
LiveStream(s) == calls[s].state \in {"open", "sent"}

(* A header block is encoded when its stream opens; its frames are not     *)
(* interleaved with any other.                                             *)
MidBlock == \E s \in GrpcStreams : SendingCall(s) /\ calls[s].blocks < calls[s].req.blocks

OpenCall(s, req) ==
    /\ server.pc # "gone" /\ ~MidBlock
    /\ calls[s].state = "none" /\ \A t \in GrpcStreams : t < s => calls[t].state # "none"
    /\ Cardinality({t \in GrpcStreams : LiveStream(t)}) < ClientStreams
    /\ calls' = [calls EXCEPT ![s] = [@ EXCEPT !.state = "open", !.req = req, !.blocks = 1]]
    /\ encoded' = encoded + 1
    /\ Sends([kind |-> "HEADERS", stream |-> s, block |-> encoded, len |-> 0, pad |-> 0,
                             endHeaders |-> req.blocks = 1, endStream |-> FALSE])
    /\ UNCHANGED <<sendWindow, streamWindow, serverVars, grpcStop, grpcWait>>

Continue(s) ==
    /\ SendingCall(s) /\ calls[s].blocks < calls[s].req.blocks
    /\ calls' = [calls EXCEPT ![s].blocks = @ + 1]
    /\ Sends([kind |-> "CONTINUATION", stream |-> s, block |-> encoded - 1, len |-> 0, pad |-> 0,
                             endHeaders |-> calls[s].blocks + 1 = calls[s].req.blocks, endStream |-> FALSE])
    /\ UNCHANGED <<sendWindow, streamWindow, encoded, serverVars, grpcStop, grpcWait>>

SendData(s) ==
    LET n == calls[s].data + 1
        piece == calls[s].req.data[n]
        len == piece.len + piece.pad IN
    /\ SendingCall(s) /\ ~MidBlock
    /\ len <= sendWindow /\ len <= streamWindow[s]
    /\ sendWindow' = sendWindow - len /\ streamWindow' = [streamWindow EXCEPT ![s] = @ - len]
    /\ LET last == n = Len(calls[s].req.data) IN
       /\ calls' = [calls EXCEPT ![s].data = n, ![s].state = IF last THEN "sent" ELSE "open"]
       /\ Sends([kind |-> "DATA", stream |-> s, len |-> piece.len, pad |-> piece.pad,
                                endStream |-> last])
    /\ UNCHANGED <<encoded, serverVars, grpcStop, grpcWait>>

(* A call is given up: its deadline passed, or its answer came early.      *)
Cancel(s) ==
    /\ LiveStream(s) /\ ~MidBlock
    /\ calls' = [calls EXCEPT ![s].state = "cancelled"]
    /\ Sends([kind |-> "RST_STREAM", stream |-> s])
    /\ UNCHANGED <<sendWindow, streamWindow, encoded, serverVars, grpcStop, grpcWait>>

GoAway ==
    /\ server.pc # "gone" /\ ~MidBlock /\ \A f \in Range(wire) : f.kind # "GOAWAY"
    /\ \E s \in GrpcStreams : calls[s].state # "none"
    /\ \A s \in GrpcStreams : ~LiveStream(s)
    /\ Sends([kind |-> "GOAWAY"])
    /\ UNCHANGED <<calls, sendWindow, streamWindow, encoded, serverVars, grpcStop, grpcWait>>

-----------------------------------------------------------------------------
(* The connection's thread.                                                *)

CallAnswered(s, answer) == [calls EXCEPT ![s].answer = answer, ![s].state = IF LiveStream(s) THEN "done" ELSE @]

(* write_goaway, and the thread is over: what was half read is gone.       *)
EndConnection ==
    /\ server' = [pc |-> "gone", frame |-> NoFrame]
    /\ streams' = << >>

(* read_exact_patient, interruptible: no frame has begun.                  *)
SeeStop ==
    /\ server.pc = "read" /\ grpcStop
    /\ EndConnection
    /\ UNCHANGED <<clientVars, decoded, creditUsed, grpcStats, refusedAny, grpcStop, grpcWait>>

(* A frame's head is in; from here its payload is waited for whatever stop *)
(* says.                                                                   *)
ReadFrame ==
    /\ server.pc = "read" /\ ~grpcStop /\ wire # <<>>
    /\ server' = [pc |-> "frame", frame |-> Head(wire)]
    /\ wire' = Tail(wire)
    /\ UNCHANGED <<calls, sendWindow, streamWindow, encoded, decoded, streams, creditUsed, grpcStats, refusedAny, grpcStop, grpcWait>>

Frame(kinds) == server.pc = "frame" /\ server.frame.kind \in kinds
NextFrame == server' = [pc |-> "read", frame |-> NoFrame]

WithoutStream(s) == [t \in DOMAIN streams \ {s} |-> streams[t]]
WithStream(s, stream) == [t \in DOMAIN streams \cup {s} |-> IF t = s THEN stream ELSE streams[t]]

HandleGoAway ==
    /\ Frame({"GOAWAY"})
    /\ EndConnection
    /\ UNCHANGED <<clientVars, decoded, creditUsed, grpcStats, refusedAny, grpcStop, grpcWait>>

HandleReset ==
    /\ Frame({"RST_STREAM"})
    /\ streams' = WithoutStream(server.frame.stream) /\ NextFrame
    /\ UNCHANGED <<clientVars, decoded, creditUsed, grpcStats, refusedAny, grpcStop, grpcWait>>

(* Too many streams: refused, and the frame's fragment is not looked at.   *)
TooMany == server.frame.kind = "HEADERS" /\ Cardinality(DOMAIN streams) >= MAX_CONCURRENT_STREAMS

RefuseStream ==
    /\ Frame({"HEADERS"}) /\ TooMany
    /\ calls' = CallAnswered(server.frame.stream, "refused") /\ NextFrame
    /\ refusedAny' = TRUE
    /\ UNCHANGED <<wire, sendWindow, streamWindow, encoded, decoded, streams, creditUsed, grpcStats, grpcStop, grpcWait>>

Opened(s) == IF s \in DOMAIN streams THEN streams[s] ELSE NewStream

(* A block is decoded once, when it is whole.                              *)
Decodes(f) == f.endHeaders

(* Decoded out of step, or without its first fragment, a block gives other *)
(* headers than the client's.                                              *)
Garbles(f) == f.block # decoded \/ (f.kind = "CONTINUATION" /\ Opened(f.stream).fragments = <<>>)

(* HEADERS and CONTINUATION.                                               *)
HandleHeaders ==
    /\ Frame({"HEADERS", "CONTINUATION"}) /\ ~TooMany
    /\ LET f == server.frame IN
       IF Decodes(f)
       THEN /\ decoded' = decoded + 1
            /\ streams' = WithStream(f.stream, [Opened(f.stream) EXCEPT
                   !.fragments = <<>>, !.headersDone = TRUE, !.garbled = @ \/ Garbles(f)])
       ELSE /\ streams' = WithStream(f.stream, [Opened(f.stream) EXCEPT !.fragments = Append(@, f.block)])
            /\ UNCHANGED decoded
    /\ NextFrame
    /\ UNCHANGED <<clientVars, creditUsed, grpcStats, refusedAny, grpcStop, grpcWait>>

(* A garbled block may not decode at all: COMPRESSION_ERROR.               *)
HeadersFail ==
    /\ Frame({"HEADERS", "CONTINUATION"}) /\ ~TooMany
    /\ Decodes(server.frame) /\ Garbles(server.frame)
    /\ EndConnection
    /\ UNCHANGED <<clientVars, decoded, creditUsed, grpcStats, refusedAny, grpcStop, grpcWait>>

(* Mutant of CreditOf: the padding is not the sender's.                    *)
CreditOfBody(f) == f.len

(* What a DATA frame cost its sender: all of it.                           *)
CreditOf(f) == f.len + f.pad

(* Connection credit is returned in halves of the window.                  *)
Returned(used) == IF used >= WINDOW \div 2 THEN used ELSE 0

(* A message over the limit is no longer buffered, and stays too large.    *)
BufferedBytes(stream, len) ==
    IF stream.body + len > max_message_bytes
    THEN [stream EXCEPT !.tooLarge = TRUE, !.body = 0]
    ELSE IF stream.tooLarge THEN stream ELSE [stream EXCEPT !.body = @ + len]

HandleData ==
    /\ Frame({"DATA"})
    /\ LET f == server.frame
           used == creditUsed + CreditOf(f)
           known == f.stream \in DOMAIN streams IN
       /\ creditUsed' = used - Returned(used)
       /\ sendWindow' = sendWindow + Returned(used)
       /\ streamWindow' = [streamWindow EXCEPT ![f.stream] = @ + IF known THEN CreditOf(f) ELSE 0]
       /\ streams' = IF known THEN WithStream(f.stream, BufferedBytes(streams[f.stream], f.len)) ELSE streams
       /\ server' = IF f.endStream /\ known THEN [pc |-> "finish", frame |-> f] ELSE [pc |-> "read", frame |-> NoFrame]
    /\ UNCHANGED <<calls, wire, encoded, decoded, grpcStats, refusedAny, grpcStop, grpcWait>>

(* finish_stream: counted as a request first.                              *)
BeginFinish ==
    /\ server.pc = "finish"
    /\ LET s == server.frame.stream IN
       IF ~streams[s].headersDone
       THEN EndConnection /\ UNCHANGED grpcStats
       ELSE /\ grpcStats' = [grpcStats EXCEPT !.requests = @ + 1]
            /\ server' = [server EXCEPT !.pc = "answer"] /\ UNCHANGED streams
    /\ UNCHANGED <<clientVars, decoded, creditUsed, refusedAny, grpcStop, grpcWait>>

(* The one exit a request takes: too large, then content type and path,    *)
(* then the message's own length and encoding, then what the sink says.    *)
CallExit(stream, whole, sink) ==
    CASE stream.tooLarge -> "tooLarge"
      [] ~stream.tooLarge /\ (stream.garbled \/ ~whole) -> "badRequest"
      [] OTHER -> IF sink THEN "accepted" ELSE "rejected"

(* unframe: the length a message names and the bytes there are.            *)
Unframed(s) == streams[s].body >= calls[s].req.message

Counted(exit) == [grpcStats EXCEPT ![exit] = @ + 1]

FinishCall(sink) ==
    /\ server.pc = "answer"
    /\ LET s == server.frame.stream
           exit == CallExit(streams[s], Unframed(s), sink) IN
       /\ grpcStats' = Counted(exit)
       /\ calls' = CallAnswered(s, exit)
       /\ streams' = WithoutStream(s)
    /\ NextFrame
    /\ UNCHANGED <<wire, sendWindow, streamWindow, encoded, decoded, creditUsed, refusedAny, grpcStop, grpcWait>>

-----------------------------------------------------------------------------
(* Receiver::shutdown.                                                     *)

StopGrpc ==
    /\ ~grpcStop
    /\ grpcStop' = TRUE /\ grpcWait' = "wait"
    /\ UNCHANGED <<clientVars, serverVars>>

(* connections is zero, or two seconds passed; then the counters are read. *)
GrpcWaitEnds ==
    /\ grpcWait = "wait"
    /\ grpcWait' = IF server.pc = "gone" THEN "drained" ELSE "gave_up"
    /\ UNCHANGED <<clientVars, serverVars, grpcStop>>

GrpcServerStep ==
    \/ SeeStop \/ ReadFrame \/ HandleGoAway \/ HandleReset \/ RefuseStream \/ HandleHeaders \/ HeadersFail \/ HandleData
    \/ BeginFinish \/ \E sink \in BOOLEAN : FinishCall(sink)

GrpcNext ==
    \/ \E s \in GrpcStreams : \/ \E req \in Exports : OpenCall(s, req)
                              \/ Continue(s) \/ SendData(s) \/ Cancel(s)
    \/ GoAway
    \/ GrpcServerStep
    \/ StopGrpc \/ GrpcWaitEnds

GrpcSpec == GrpcInit /\ [][GrpcNext]_grpcVars

(* The thread reads what is there, and a client sends what it has credit   *)
(* for.                                                                    *)
GrpcFairness ==
    /\ WF_grpcVars(GrpcServerStep)
    /\ \A s \in GrpcStreams : WF_grpcVars(Continue(s)) /\ WF_grpcVars(SendData(s))

GrpcFairSpec == GrpcSpec /\ GrpcFairness

-----------------------------------------------------------------------------
(* Properties.                                                             *)

(* Types; what one connection holds is at most one message of the largest  *)
(* size for each stream (max_message_bytes, handle_frame).                 *)
GrpcTypeOK ==
    /\ server.pc \in {"read", "frame", "finish", "answer", "gone"}
    /\ DOMAIN streams \subseteq GrpcStreams
    /\ \A s \in DOMAIN streams : streams[s].body <= max_message_bytes
    /\ creditUsed < WINDOW

InFlight(s) ==
    LET frames == SelectSeq(wire, LAMBDA f : f.kind = "DATA" /\ (s = 0 \/ f.stream = s))
        hand == IF Frame({"DATA"}) /\ (s = 0 \/ server.frame.stream = s) THEN server.frame.len + server.frame.pad ELSE 0
    IN FoldLeft(LAMBDA n, f : n + f.len + f.pad, hand, frames)

(* Credit is never lost: what the client may send, what is on its way and  *)
(* what is owed make the window, on the connection and on every stream     *)
(* still being read; and what is owed is less than half of it (DATA).      *)
CreditIsReturned ==
    server.pc # "gone" =>
        /\ sendWindow + InFlight(0) + creditUsed = FirstWindow + WINDOW /\ creditUsed < WINDOW \div 2
        /\ \A s \in DOMAIN streams : streamWindow[s] + InFlight(s) = WINDOW

(* While no stream was refused, every header block is decoded against the  *)
(* table its client encoded it with (handle_frame, the HPACK comment).     *)
HeadersInStep == ~refusedAny => \A s \in DOMAIN streams : ~streams[s].garbled

(* A batch that is accepted was received whole (finish_stream, unframe).   *)
AcceptedIsWhole ==
    \A s \in GrpcStreams : calls[s].answer \in {"accepted", "rejected"} =>
        LET sent == FoldLeft(LAMBDA n, piece : n + piece.len, 0, calls[s].req.data) IN
        calls[s].data = Len(calls[s].req.data) /\ calls[s].req.message <= sent /\ sent <= max_message_bytes

(* Once the connection is over, every request took exactly one exit: the   *)
(* totals a drained shutdown returns add up (accounts_for_everything).     *)
TotalsAccount ==
    grpcWait = "drained" =>
        grpcStats.requests = grpcStats.accepted + grpcStats.rejected + grpcStats.badRequest + grpcStats.tooLarge

(* A call the client finished sending is answered, or the connection ends. *)
CallsAreAnswered ==
    \A s \in GrpcStreams : calls[s].state = "open" ~> (calls[s].state \in {"done", "cancelled"} \/ server.pc = "gone")

(* What the comment on decoding says, of every block (grpc.rs:420).        *)
EveryBlockDecoded == \A s \in DOMAIN streams : ~streams[s].garbled

(* What the comment on shutdown says: an export in flight still gets its   *)
(* trailers (grpc.rs:178).                                                 *)
InFlightGetsTrailers == [][server.pc # "gone" /\ server'.pc = "gone" /\ grpcStop => streams = << >>]_grpcVars

(* What otlp/grpc.rs keeps to on one connection: credit is returned,       *)
(* headers stay in step, what is accepted is whole, and each call is       *)
(* counted.                                                                *)
GrpcInv ==
    /\ GrpcTypeOK
    /\ CreditIsReturned
    /\ HeadersInStep
    /\ AcceptedIsWhole
    /\ TotalsAccount
=============================================================================
