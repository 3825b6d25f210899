---------------------------- MODULE HecRequests ----------------------------
(***************************************************************************)
(* The requests of the HEC receiver (hec.rs, hec/event.rs): a request is   *)
(* judged on its head, then its body is read and judged again, parsed      *)
(* whole or not at all, admitted and handed to the pipeline, and counted.  *)
(*                                                                         *)
(* A request is [path, auth, browser, channel, encoding, body, query,      *)
(* events]; an event is what parsing tells of it: its form, the index it   *)
(* names, the level in its fields, in the event and the words of its line. *)
(* The token that is good may expire between the two judgements.  What the *)
(* ack table and the pipeline answer is open: AckTable and IngestQueue     *)
(* model them.  An anonymous or known principal uses the one tenant.       *)
(***************************************************************************)
EXTENDS Naturals, Sequences, FiniteSets, SequencesExt, FiniteSetsExt

CONSTANTS
    Connections,          \* connections served at a time
    HecInputs,            \* requests clients send
    hecOpen,                 \* HecHandler::open
    ack_enabled,
    Levels,               \* words Severity::from_text knows
    LEVEL_SCAN_TOKENS,
    RefusedIndexes,       \* indexes the tenant does not have and refuses
    MaxHecRequests        \* bound

ASSUME HecRequestsAssumption ==
    /\ hecOpen \in BOOLEAN /\ ack_enabled \in BOOLEAN /\ LEVEL_SCAN_TOKENS \in Nat
    /\ \A request \in HecInputs : request.events \in Seq(ToSet(request.events))

VARIABLES
    hecConn,          \* [at, request, reply, n] of each connection
    hecStats,      \* HecStats
    tokenGood,     \* whether the token clients call good still is
    handedOver,    \* batches the pipeline accepted: [n, records]
    sent,          \* requests sent so far
    pollsRefused   \* history: refused polls and other requests of no event, by exit

hecVars == <<hecConn, hecStats, tokenGood, handedOver, sent, pollsRefused>>

EventPaths == {"event", "raw"}
Exits == {"accepted", "busy", "unauthorized", "bad_request", "too_large"}
HecStat == Exits \cup {"requests", "records", "ack_queries"}
NoRequest == [path |-> "none"]
IdleConn == [at |-> "idle", request |-> NoRequest, reply |-> 0, n |-> 0]

HecInit ==
    /\ hecConn = [c \in Connections |-> IdleConn]
    /\ hecStats = [s \in HecStat |-> 0]
    /\ tokenGood = TRUE /\ handedOver = {} /\ sent = 0 /\ pollsRefused = 0

Count(counters) == hecStats' = [s \in HecStat |-> hecStats[s] + counters[s]]
One(names) == [s \in HecStat |-> IF s \in names THEN 1 ELSE 0]

-----------------------------------------------------------------------------
(* Events.                                                                 *)

(* severity_in_line: a level among the first words, before any key=value.  *)
SeverityInLine(words) ==
    LET ends == {i \in DOMAIN words : words[i] = "key=value"} \cup {LEVEL_SCAN_TOKENS + 1, Len(words) + 1}
        named == {i \in 1..(Min(ends) - 1) : words[i] \in Levels}
    IN IF named = {} THEN "none" ELSE words[Min(named)]

(* infer_severity: an indexed field, then the structured event's own, then *)
(* the prefix of a line.                                                   *)
InferSeverity(event) ==
    CASE event.field \in Levels -> event.field
      [] event.field \notin Levels /\ event.structured -> IF event.inner \in Levels THEN event.inner ELSE "none"
      [] OTHER -> SeverityInLine(event.words)

(* apply_metadata, then the event's own.                                   *)
IndexOf(event, query) == IF event.index # "none" THEN event.index ELSE query.index

RecordFrom(event, query) == [index |-> IndexOf(event, query), severity |-> InferSeverity(event)]

(* parse_event_body and record_from_object: the first error, or "ok".      *)
Parsed(request) ==
    LET bad == {i \in DOMAIN request.events : request.events[i].form # "ok"}
    IN CASE request.events = <<>> -> "no_data"
         [] request.path = "event" /\ bad # {} -> request.events[Min(bad)].form
         [] OTHER -> "ok"

(* Mutant of RecordsOf: the events before one that does not parse.         *)
RecordsOfGood(request) ==
    LET good == SelectSeq(request.events, LAMBDA e : e.form = "ok" /\ e.index \notin RefusedIndexes)
    IN [i \in DOMAIN good |-> RecordFrom(good[i], request.query)]

(* parse_raw_body: a line is an event of the request's metadata.           *)
RecordsOf(request) ==
    [i \in DOMAIN request.events |->
        IF request.path = "raw"
        THEN [index |-> request.query.index, severity |-> SeverityInLine(request.events[i].words)]
        ELSE RecordFrom(request.events[i], request.query)]

-----------------------------------------------------------------------------
(* Who sent it.                                                            *)

(* authorized: one token, in one place, that the verifier knows.           *)
Authorized(request) ==
    hecOpen \/ (request.auth = "good" /\ tokenGood)

StatusOf(request) == IF request.auth \in {"none", "twice", "basic"} THEN 401 ELSE 403

-----------------------------------------------------------------------------
HecStep(c, to, reply) == hecConn' = [hecConn EXCEPT ![c].at = to, ![c].reply = reply]

Arrive(c) == \E request \in HecInputs :
    /\ hecConn[c].at = "idle" /\ sent < MaxHecRequests /\ sent' = sent + 1
    /\ hecConn' = [hecConn EXCEPT ![c] = [at |-> "head", request |-> request, reply |-> 0, n |-> sent + 1]]
    /\ UNCHANGED <<hecStats, tokenGood, handedOver, pollsRefused>>

(* preflight judges event requests and polls.                              *)
Judges(request) == request.path \in EventPaths \cup {"ack"}

(* What the head is refused for: the status, what authorized has counted   *)
(* by then, and what preflight counts for an event request.                *)
HeadVerdict(request) ==
    LET stranger == hecOpen /\ request.browser
        denied == ~stranger /\ ~Authorized(request)
        twice == ~stranger /\ ~denied /\ request.channel = "twice"
        encoded == ~stranger /\ ~denied /\ ~twice /\ request.encoding = "other"
    IN CASE Judges(request) /\ stranger -> [status |-> 403, already |-> {}, counter |-> {"unauthorized"}]
         [] Judges(request) /\ denied -> [status |-> StatusOf(request), already |-> {"unauthorized"}, counter |-> {}]
         [] Judges(request) /\ twice -> [status |-> 400, already |-> {}, counter |-> {"bad_request"}]
         [] Judges(request) /\ encoded -> [status |-> 415, already |-> {}, counter |-> {"bad_request"}]
         [] OTHER -> [status |-> 0, already |-> {}, counter |-> {}]

HeadCounts(request, verdict) ==
    verdict.already \cup (IF request.path \in EventPaths /\ verdict.status # 0 THEN {"requests"} \cup verdict.counter ELSE {})

Preflight(c) ==
    LET request == hecConn[c].request
        verdict == HeadVerdict(request)
    IN /\ hecConn[c].at = "head"
       /\ HecStep(c, IF verdict.status = 0 THEN "body" ELSE "done", verdict.status)
       /\ Count(One(HeadCounts(request, verdict)))
       /\ pollsRefused' = IF request.path = "ack" /\ "unauthorized" \in verdict.already THEN pollsRefused + 1 ELSE pollsRefused
       /\ UNCHANGED <<tokenGood, handedOver, sent>>

(* The body is read: whole, too large, unreadable, or never in time.       *)
ReadBody(c) ==
    LET body == hecConn[c].request.body
    IN /\ hecConn[c].at = "body"
       /\ HecStep(c, IF body = "whole" THEN "handle" ELSE "done",
               CASE body = "large" -> 413 [] body = "unreadable" -> 400 [] body = "stalled" -> 408 [] OTHER -> 0)
       /\ Count(One(CASE body = "large" -> {"requests", "too_large"}
                      [] body = "unreadable" -> {"requests", "bad_request"}
                      [] OTHER -> {}))
       /\ UNCHANGED <<tokenGood, handedOver, sent, pollsRefused>>

(* An ack channel without room, a full pipeline, an index it refuses.      *)
HecRefused(room, sink) ==
    IF ~room \/ sink = "busy" THEN [status |-> 503, counts |-> {"busy"}] ELSE [status |-> 400, counts |-> {"bad_request"}]

AcceptedCounts(records) == [One({"requests", "accepted"}) EXCEPT !.records = Len(records)]

(* ingest.                                                                 *)
Ingest(c) ==
    LET request == hecConn[c].request
        records == RecordsOf(request)
    IN /\ hecConn[c].at = "handle" /\ request.path \in EventPaths
       /\ \/ /\ ~Authorized(request)
             /\ HecStep(c, "done", StatusOf(request)) /\ Count(One({"requests", "unauthorized"}))
             /\ UNCHANGED handedOver
          \/ /\ Authorized(request)
             /\ Parsed(request) # "ok" \/ \E i \in DOMAIN records : records[i].index \in RefusedIndexes
             /\ HecStep(c, "done", 400) /\ Count(One({"requests", "bad_request"}))
             /\ UNCHANGED handedOver
          \/ /\ Authorized(request) /\ Parsed(request) = "ok" /\ \A i \in DOMAIN records : records[i].index \notin RefusedIndexes
             /\ \E room \in BOOLEAN, sink \in {"accepted", "busy", "index"} :
                   /\ ~room => ack_enabled /\ request.channel = "one"
                   /\ IF room /\ sink = "accepted"
                      THEN /\ handedOver' = handedOver \cup {[n |-> hecConn[c].n, records |-> records]}
                           /\ Count(AcceptedCounts(records))
                           /\ HecStep(c, "done", 200)
                      ELSE /\ UNCHANGED handedOver
                           /\ Count(One({"requests"} \cup HecRefused(room, sink).counts))
                           /\ HecStep(c, "done", HecRefused(room, sink).status)
       /\ UNCHANGED <<tokenGood, sent, pollsRefused>>

(* ack_query.                                                              *)
AckPoll(c) ==
    LET request == hecConn[c].request
        asked == Authorized(request) /\ ack_enabled /\ request.channel = "one"
    IN /\ hecConn[c].at = "handle" /\ request.path = "ack"
       /\ Count(One(IF asked THEN {"ack_queries"} ELSE IF Authorized(request) THEN {} ELSE {"unauthorized"}))
       /\ HecStep(c, "done", IF ~Authorized(request) THEN StatusOf(request)
                          ELSE IF asked /\ request.events # <<>> THEN 200 ELSE 400)
       /\ pollsRefused' = IF Authorized(request) THEN pollsRefused ELSE pollsRefused + 1
       /\ UNCHANGED <<tokenGood, handedOver, sent>>

(* health, and every other path.                                           *)
OtherPath(c) ==
    /\ hecConn[c].at = "handle" /\ hecConn[c].request.path \notin EventPaths \cup {"ack"}
    /\ HecStep(c, "done", IF hecConn[c].request.path = "health" THEN 200 ELSE 404)
    /\ UNCHANGED <<hecStats, tokenGood, handedOver, sent, pollsRefused>>

Close(c) ==
    /\ hecConn[c].at = "done" /\ hecConn' = [hecConn EXCEPT ![c] = IdleConn]
    /\ UNCHANGED <<hecStats, tokenGood, handedOver, sent, pollsRefused>>

TokenExpires ==
    /\ tokenGood /\ tokenGood' = FALSE
    /\ UNCHANGED <<hecConn, hecStats, handedOver, sent, pollsRefused>>

HecNext ==
    \/ \E c \in Connections : Arrive(c) \/ Preflight(c) \/ ReadBody(c) \/ Ingest(c) \/ AckPoll(c) \/ OtherPath(c) \/ Close(c)
    \/ TokenExpires

HecSpec == HecInit /\ [][HecNext]_hecVars

-----------------------------------------------------------------------------

(* The records of batches, each by its request and its place there.        *)
RecordsIn(batches) == UNION {{<<b.n, i>> : i \in DOMAIN b.records} : b \in batches}

(* The exits of HecStats together.                                         *)
ExitsTaken ==
    hecStats.accepted + hecStats.busy + hecStats.unauthorized + hecStats.bad_request + hecStats.too_large

(* Type invariant; the records counted are the ones handed over.           *)
HecTypeOK ==
    /\ hecStats \in [HecStat -> Nat]
    /\ \A c \in Connections : hecConn[c].at \in {"idle", "head", "body", "handle", "done"} /\ hecConn[c].n <= sent
    /\ \A b \in handedOver : b.n \in 1..sent
    /\ hecStats.records = Cardinality(RecordsIn(handedOver))

(* A request is stored whole or not at all, and its client is told which:  *)
(* 200 for an event request means that each of its events is with the      *)
(* pipeline (an acked batch must be whole).                                *)
StoredIsWhole ==
    \A c \in Connections :
        LET request == hecConn[c].request
            mine == {b \in handedOver : b.n = hecConn[c].n}
        IN /\ hecConn[c].at = "done" /\ request.path \in EventPaths =>
                 (hecConn[c].reply = 200) = (mine # {})
           /\ hecConn[c].at # "idle" => \A b \in mine : Len(b.records) = Len(request.events)

(* Nothing of a body is read for a client whose head was refused: a body   *)
(* is read for a token that was good when the head came.                   *)
RefusedUnread ==
    \A c \in Connections :
        hecConn[c].at \in {"body", "handle"} /\ hecConn[c].request.path \in EventPaths \cup {"ack"} =>
            hecOpen \/ hecConn[c].request.auth = "good"

(* Every event request has taken one exit once it is answered.  What polls *)
(* with a bad token add is the only difference.                            *)
ExitsAccountButPolls ==
    hecStats.requests + pollsRefused = ExitsTaken

(* Every event request took exactly one exit; polls are not counted.       *)
accounts_for_everything ==
    hecStats.requests = ExitsTaken

(* What hec.rs keeps to: a refused request is not read, an accepted one is *)
(* stored whole, and each event request takes one exit.                    *)
HecInv == HecTypeOK /\ RefusedUnread /\ StoredIsWhole /\ ExitsAccountButPolls
=============================================================================
