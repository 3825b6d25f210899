------------------------------ MODULE PeerHops ------------------------------
(***************************************************************************)
(* Records that travel between peers wired in any way, rings included      *)
(* (peer.rs, sync.rs): a sender stamps a record with its origin and one    *)
(* more hop, and sender and receiver both refuse one that came back, that  *)
(* travelled too far, or whose provenance does not parse.                  *)
(*                                                                         *)
(* A record is its event id and its provenance attributes, in order; the   *)
(* path is history: the nodes that stored it, then the one it is on its    *)
(* way to.  An attribute is [key, kind, value]: a hops count is a "whole"  *)
(* number (an integer or a string of digits), anything else is "mangled".  *)
(*                                                                         *)
(* A receiver checks an id before the pipeline has the record and saves it *)
(* after the WAL has synced; between the two the writer has offered the    *)
(* record to the tap.  A request that times out, or is closed or crashed   *)
(* over, may never save its ids.                                           *)
(***************************************************************************)
EXTENDS Naturals, Sequences, FiniteSets

CONSTANTS
    HopNodes,
    HopLinks,       \* <<sender, receiver>> pairs
    HopEvents,      \* records clients send: [id, attrs]
    MAX_HOPS,
    MaxForgets,     \* bound: ids that age out of a receiver's dedupe window
    MaxResends      \* bound: messages sent again because no answer came

Origin(node) == [key |-> "origin", kind |-> "whole", value |-> node]
Hops(n) == [key |-> "hops", kind |-> "whole", value |-> n]

(* Event ids are unique; a hops count that parses is a number from 0 up.   *)
ASSUME HopsAssumption ==
    /\ MAX_HOPS \in Nat \ {0} /\ MaxForgets \in Nat /\ MaxResends \in Nat /\ HopLinks \subseteq HopNodes \X HopNodes
    /\ \A e, f \in HopEvents : e.id = f.id => e = f
    /\ \A e \in HopEvents : \A i \in DOMAIN e.attrs :
          LET a == e.attrs[i] IN a.key = "hops" /\ a.kind = "whole" => a.value \in Nat

VARIABLES
    copies,      \* stored records: [node, id, attrs, path, resent]
    toSend,      \* <<copy, receiver>>: tapped and not sent yet
    travelling,  \* messages: [to, id, attrs, path, resent]
    kept,        \* messages that passed the check and wait for the writer
    unsaved,     \* those the writer has taken, their ids not saved
    dedupe,      \* ids each receiver remembers
    forgets,
    resends,     \* also the number a message sent again is told by (`resent`)
    overlapped   \* history: <<node, id>> let in while a request for it was open

hopVars == <<copies, toSend, travelling, kept, unsaved, dedupe, forgets, resends, overlapped>>

(* provenance reads every attribute, and has each of them at most once.    *)
Readable(attrs) ==
    /\ \A i \in DOMAIN attrs : attrs[i].kind = "whole"
    /\ \A i, j \in DOMAIN attrs : attrs[i].key = attrs[j].key => i = j

ValuesOf(attrs, key) == {attrs[i].value : i \in {j \in DOMAIN attrs : attrs[j].key = key}}

(* provenance: None is {}, and so is an origin that is not there.          *)
Provenance(attrs) ==
    IF Readable(attrs)
    THEN {[origin |-> ValuesOf(attrs, "origin"),
           hops |-> CHOOSE n \in ValuesOf(attrs, "hops") \cup {0} : ValuesOf(attrs, "hops") \subseteq {n}]}
    ELSE {}

(* is_loop                                                                 *)
IsLoop(attrs, node) == \A p \in Provenance(attrs) : p.origin = {node} \/ p.hops >= MAX_HOPS

(* stamp_for_send: one of each, and never more than MAX_HOPS.              *)
Stamped(attrs, node) ==
    IF Provenance(attrs) = {} THEN <<Origin(node), Hops(MAX_HOPS)>>
    ELSE LET p == CHOOSE q \in Provenance(attrs) : TRUE
         IN <<Origin(IF p.origin = {} THEN node ELSE CHOOSE o \in p.origin : TRUE),
              Hops(IF p.hops + 1 > MAX_HOPS THEN MAX_HOPS ELSE p.hops + 1)>>

-----------------------------------------------------------------------------
HopInit ==
    /\ copies = {} /\ toSend = {} /\ travelling = {} /\ kept = {} /\ unsaved = {}
    /\ forgets = 0 /\ resends = 0 /\ overlapped = {}
    /\ dedupe = [n \in HopNodes |-> {}]

(* A stored record is offered to the tap of every link of its node.        *)
Store(copy) ==
    /\ copies' = copies \cup {copy}
    /\ toSend' = toSend \cup {<<copy, link[2]>> : link \in {l \in HopLinks : l[1] = copy.node}}

(* A client's record: its event id is the node's own.                      *)
ClientRecord(node, event) ==
    /\ \A c \in copies : c.id # event.id
    /\ Store([node |-> node, id |-> event.id, attrs |-> event.attrs, path |-> <<node>>, resent |-> 0])
    /\ UNCHANGED <<travelling, kept, unsaved, dedupe, forgets, resends, overlapped>>

(* encode_frames.                                                          *)
Encode(copy, to) ==
    /\ <<copy, to>> \in toSend /\ toSend' = toSend \ {<<copy, to>>}
    /\ travelling' = IF IsLoop(copy.attrs, copy.node) THEN travelling
                     ELSE travelling \cup {[to |-> to, id |-> copy.id, attrs |-> Stamped(copy.attrs, copy.node),
                                            path |-> Append(copy.path, to), resent |-> copy.resent]}
    /\ UNCHANGED <<copies, kept, unsaved, dedupe, forgets, resends, overlapped>>

(* The sender hears no 200 in time and sends the message again.            *)
Resend(message) ==
    /\ resends < MaxResends /\ resends' = resends + 1
    /\ travelling' = travelling \cup {[message EXCEPT !.resent = resends + 1]}
    /\ UNCHANGED <<copies, toSend, kept, unsaved, dedupe, forgets, overlapped>>

(* Open requests for the record of a message.                              *)
Overlap(message) == {m \in kept \cup unsaved : m.to = message.to /\ m.id = message.id}

(* PeerHandler::ingest up to the sink: the ids it knows now decide.        *)
PeerReceive(message) ==
    /\ message \in travelling /\ travelling' = travelling \ {message}
    /\ IF IsLoop(message.attrs, message.to) \/ message.id \in dedupe[message.to]
       THEN UNCHANGED <<kept, overlapped>>
       ELSE /\ kept' = kept \cup {message}
            /\ overlapped' = overlapped \cup {<<m.to, m.id>> : m \in Overlap(message)}
    /\ UNCHANGED <<copies, toSend, unsaved, dedupe, forgets, resends>>

(* The sink finds the pipeline full, or the queue closed: nothing is kept. *)
PeerBusy(message) ==
    /\ message \in kept /\ kept' = kept \ {message}
    /\ UNCHANGED <<copies, toSend, travelling, unsaved, dedupe, forgets, resends, overlapped>>

(* The writer appends the record and offers it to the tap, before it syncs.*)
PeerAppend(message) ==
    /\ message \in kept /\ kept' = kept \ {message}
    /\ unsaved' = unsaved \cup {message}
    /\ Store([node |-> message.to, id |-> message.id, attrs |-> message.attrs, path |-> message.path,
              resent |-> message.resent])
    /\ UNCHANGED <<travelling, dedupe, forgets, resends, overlapped>>

(* Mutant of KeepIds: what was synced is not remembered.                   *)
KeepNoIds(message) ==
    /\ message \in unsaved /\ unsaved' = unsaved \ {message}
    /\ UNCHANGED <<copies, toSend, travelling, kept, dedupe, forgets, resends, overlapped>>

(* save_ids, once the WAL has synced: by the request itself or, after a    *)
(* timeout, by the next request, which settles it.                         *)
KeepIds(message) ==
    /\ message \in unsaved /\ unsaved' = unsaved \ {message}
    /\ dedupe' = [dedupe EXCEPT ![message.to] = @ \cup {message.id}]
    /\ UNCHANGED <<copies, toSend, travelling, kept, forgets, resends, overlapped>>

(* The dedupe window is bounded: an id ages out.                           *)
ForgetId(node, id) ==
    /\ forgets < MaxForgets /\ id \in dedupe[node]
    /\ dedupe' = [dedupe EXCEPT ![node] = @ \ {id}] /\ forgets' = forgets + 1
    /\ UNCHANGED <<copies, toSend, travelling, kept, unsaved, resends, overlapped>>

HopNext ==
    \/ \E n \in HopNodes, e \in HopEvents : ClientRecord(n, e) \/ ForgetId(n, e.id)
    \/ \E s \in toSend : Encode(s[1], s[2])
    \/ \E message \in travelling \cup kept \cup unsaved : Resend(message)
    \/ \E message \in travelling : PeerReceive(message)
    \/ \E message \in kept : PeerBusy(message) \/ PeerAppend(message)
    \/ \E message \in unsaved : KeepIds(message)

HopSpec == HopInit /\ [][HopNext]_hopVars

-----------------------------------------------------------------------------
Honest == {e.id : e \in {x \in HopEvents : x.attrs = <<>>}}

(* Type invariant: what a sender wrote has one of each attribute.          *)
HopsTypeOK ==
    /\ \A c \in copies : c.node \in HopNodes /\ c.path \in Seq(HopNodes) /\ c.path[Len(c.path)] = c.node
    /\ \A message \in travelling \cup kept \cup unsaved : message.to \in HopNodes /\ Len(message.attrs) = 2
    /\ \A n \in HopNodes : dedupe[n] \subseteq {e.id : e \in HopEvents}

(* However the peers are wired, whatever a client put in the attributes,   *)
(* and though dedupe forgets or has not learned an id yet: a record is     *)
(* stored at most MAX_HOPS links from where it came in (a forged hops      *)
(* count buys it no more).                                                 *)
TravelIsBounded == \A c \in copies : Len(c.path) <= MAX_HOPS

(* A mis-wired ring stops instead of multiplying data: while receivers     *)
(* remember ids, a node stores a record without forged provenance once,    *)
(* its origin included, which never learned the id.  The exception is a    *)
(* copy that is let in before the ids of another are saved: a resend, or a *)
(* lap of the ring that is shorter than the wait for the sync.             *)
StopsAfterOneLap ==
    forgets = 0 => \A c, d \in copies :
        c.id \in Honest /\ c.id = d.id /\ c.node = d.node => c = d \/ <<c.node, c.id>> \in overlapped

(* No lap, however short, brings a record without forged provenance back   *)
(* into the store of the node it came in at: that one needs no memory.     *)
NeverComesHome == \A c \in copies : c.id \in Honest /\ Len(c.path) > 1 => c.node # c.path[1]

(* The origin of a record without forged provenance is where it came in,   *)
(* at every hop: it answers which node produced this line.                 *)
OriginIsKept ==
    \A c \in copies : c.id \in Honest /\ Len(c.path) > 1 => \A p \in Provenance(c.attrs) : p.origin = {c.path[1]}

(* What the hop count of peer.rs keeps to: a record travels a bounded way, *)
(* is stored once where ids are remembered, never comes home, and keeps    *)
(* its origin.                                                             *)
HopsInv == HopsTypeOK /\ TravelIsBounded /\ StopsAfterOneLap /\ NeverComesHome /\ OriginIsKept
=============================================================================
