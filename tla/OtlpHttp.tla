------------------------------ MODULE OtlpHttp ------------------------------
(***************************************************************************)
(* OTLP over HTTP (otlp/http.rs): the head judged before the body is read, *)
(* the body in either encoding (otlp/logs.rs and proto.rs, otlp/json.rs),  *)
(* and the counters every request ends in.                                 *)
(*                                                                         *)
(* A message is a sequence of resource blocks; a block's fields come in    *)
(* any order in protobuf and by name in JSON.  A value is its kind and its *)
(* content; text that renders alike is equal.                              *)
(***************************************************************************)
EXTENDS Naturals, Sequences, FiniteSets, SequencesExt, FiniteSetsExt

CONSTANTS
    Posts,        \* requests: [shape, json, message]
    Workers,      \* threads with a request of their own
    ArrivalTime,  \* what now_unix_nano is taken to be
    MaxPosts      \* bound

ASSUME OtlpHttpAssumption == ArrivalTime \in Nat \ {0} /\ MaxPosts \in Nat

VARIABLES
    posts,        \* [Workers -> the request and where it is]
    postStats,    \* ReceiverStats
    storedBy,     \* records the sink took, by the encoding they came in
    keyRevoked,   \* the credential was taken away
    posted        \* requests begun

otlpVars == <<posts, postStats, storedBy, keyRevoked, posted>>

NoPost == [pc |-> "free", post |-> [shape |-> "none"]]

OtlpInit ==
    /\ posts = [w \in Workers |-> NoPost]
    /\ postStats = [requests |-> 0, accepted |-> 0, rejected |-> 0, badRequest |-> 0, tooLarge |-> 0]
    /\ storedBy = [proto |-> {}, json |-> {}]
    /\ keyRevoked = FALSE /\ posted = 0

-----------------------------------------------------------------------------
(* Values: what either decoder makes of an AnyValue.                       *)

Text(form, of) == <<form, of>>

(* Value::render of a scalar, in a body or inside a structure.             *)
Scalar(v) == Text("text", v.of)

(* array_value and kvlist_value, with the elements rendered.               *)
Structure(v) == Text(v.kind, [i \in 1..Len(v.of) |-> Scalar(v.of[i])])

(* Bytes are hex from protobuf and, in JSON, the base64 they came in.      *)
ProtoRendered(v) ==
    CASE v.kind \in {"array", "kvlist"} -> Structure(v)
      [] v.kind = "bytes" -> Text("hex", v.of)
      [] OTHER -> Scalar(v)
JsonRendered(v) ==
    CASE v.kind \in {"array", "kvlist"} -> Structure(v)
      [] v.kind = "bytes" -> Text("base64", v.of)
      [] OTHER -> Scalar(v)

(* into_attr and json.rs any_value: a scalar keeps its type.               *)
AttrOf(rendered, a) ==
    [key |-> a.key, value |-> IF a.value.kind \in {"bool", "int", "double"} THEN <<a.value.kind, a.value.of>> ELSE rendered]
ProtoAttr(a) == AttrOf(ProtoRendered(a.value), a)
JsonAttr(a) == AttrOf(JsonRendered(a.value), a)

(* key_value: an attribute without a key is left out.                      *)
Keyed(attrs) == SelectSeq(attrs, LAMBDA a : a.key # "")
AttrsBy(json, attrs) ==
    LET kept == Keyed(attrs) IN [i \in 1..Len(kept) |-> IF json THEN JsonAttr(kept[i]) ELSE ProtoAttr(kept[i])]

(* severity: the number, else the text, else INFO; never above 24.         *)
INFO == 9
SeverityOf(r) == IF r.severity # 0 THEN Min({r.severity, 24}) ELSE IF r.text # 0 THEN r.text ELSE INFO

(* No record is without a time.                                            *)
Observed(r) == IF r.observed # 0 THEN r.observed ELSE ArrivalTime
TimeOf(r) == IF r.time # 0 THEN r.time ELSE Observed(r)

(* log_record, the scope's name and the resource's attributes after it.    *)
RecordBy(json, r, service, attrs) ==
    [time |-> TimeOf(r), observed |-> Observed(r), severity |-> SeverityOf(r),
     body |-> IF json THEN JsonRendered(r.body) ELSE ProtoRendered(r.body),
     service |-> service, attributes |-> AttrsBy(json, r.attrs) \o AttrsBy(json, attrs)]

(* service.name, if it is a string; the last one.                          *)
ServiceOf(attrs) ==
    LET named == SelectSeq(attrs, LAMBDA a : a.key = "service.name" /\ a.value.kind = "string")
    IN IF named = <<>> THEN "none" ELSE Last(named).value.of

Fields(block, n) == SelectSeq(block, LAMBDA f : f.n = n)
ResourceAttrs(block) == FlattenSeq([i \in 1..Len(Fields(block, 1)) |-> Fields(block, 1)[i].attrs])
ScopeRecords(block) == FlattenSeq([i \in 1..Len(Fields(block, 2)) |-> Fields(block, 2)[i].records])

(* Mutant of ProtoBlock: a scope is read as it comes.                      *)
ProtoBlockAsItComes(block) ==
    LET before(i) == ResourceAttrs(SubSeq(block, 1, i)) IN
    FlattenSeq([i \in 1..Len(block) |->
        IF block[i].n # 2 THEN <<>>
        ELSE [j \in 1..Len(block[i].records) |->
                RecordBy(FALSE, block[i].records[j], ServiceOf(before(i)), before(i))]])

(* resource_logs and scope_logs: the scopes wait for the whole resource.   *)
ProtoBlock(block) ==
    LET attrs == ResourceAttrs(block) IN
    [i \in 1..Len(ScopeRecords(block)) |->
        RecordBy(FALSE, ScopeRecords(block)[i], ServiceOf(attrs), attrs)]

JsonBlock(block) ==
    LET attrs == ResourceAttrs(block) IN
    [i \in 1..Len(ScopeRecords(block)) |->
        RecordBy(TRUE, ScopeRecords(block)[i], ServiceOf(attrs), attrs)]

(* decode_request, of either kind.                                         *)
DecodeProto(message) == FlattenSeq([i \in 1..Len(message) |-> ProtoBlock(message[i])])
DecodeJson(message) == FlattenSeq([i \in 1..Len(message) |-> JsonBlock(message[i])])
Decode(post) == IF post.json THEN DecodeJson(post.message) ELSE DecodeProto(post.message)

-----------------------------------------------------------------------------
(* A request.                                                              *)

OtlpPost(w, post) ==
    /\ posts[w].pc = "free" /\ posted < MaxPosts
    /\ posted' = posted + 1
    /\ posts' = [posts EXCEPT ![w] = [pc |-> "preflight", post |-> post]]
    /\ UNCHANGED <<postStats, storedBy, keyRevoked>>

Leaves(w) == posts' = [posts EXCEPT ![w] = NoPost]
OneExit(exit) == postStats' = [postStats EXCEPT !.requests = @ + 1, ![exit] = @ + 1]

(* The credential, asked in preflight and again in handle.                 *)
Allowed(post) == post.shape # "unauthorized" /\ ~keyRevoked

(* preflight: another path falls through, uncounted.                       *)
OtlpPreflight(w) ==
    /\ posts[w].pc = "preflight"
    /\ LET post == posts[w].post IN
       IF post.shape = "other_path" \/ (Allowed(post) /\ post.shape # "wrong_type")
       THEN posts' = [posts EXCEPT ![w].pc = "body"] /\ UNCHANGED postStats
       ELSE OneExit("badRequest") /\ Leaves(w)
    /\ UNCHANGED <<storedBy, keyRevoked, posted>>

(* reject: a body over the limit, or one that cannot be read.              *)
Rejected(w) ==
    /\ posts[w].pc = "body" /\ posts[w].post.shape \in {"too_large", "unreadable"}
    /\ OneExit(IF posts[w].post.shape = "too_large" THEN "tooLarge" ELSE "badRequest")
    /\ Leaves(w)
    /\ UNCHANGED <<storedBy, keyRevoked, posted>>

(* handle begins: the path, then the request is counted.                   *)
BeginHandle(w) ==
    /\ posts[w].pc = "body" /\ posts[w].post.shape \notin {"too_large", "unreadable"}
    /\ IF posts[w].post.shape = "other_path"
       THEN Leaves(w) /\ UNCHANGED postStats
       ELSE /\ posts' = [posts EXCEPT ![w].pc = "handle"]
            /\ postStats' = [postStats EXCEPT !.requests = @ + 1]
    /\ UNCHANGED <<storedBy, keyRevoked, posted>>

(* handle: the credential, the decoder, the tenant, then the sink.         *)
HandleExit(post, sink) ==
    CASE ~Allowed(post) -> "badRequest"
      [] Allowed(post) /\ post.shape \in {"malformed", "wrong_tenant"} -> "badRequest"
      [] OTHER -> IF sink THEN "accepted" ELSE "rejected"

EndHandle(w, sink) ==
    /\ posts[w].pc = "handle"
    /\ LET post == posts[w].post
           exit == HandleExit(post, sink) IN
       /\ postStats' = [postStats EXCEPT ![exit] = @ + 1]
       /\ storedBy' = IF exit # "accepted" THEN storedBy
                      ELSE IF post.json THEN [storedBy EXCEPT !.json = @ \cup {<<post.id, Decode(post)>>}]
                      ELSE [storedBy EXCEPT !.proto = @ \cup {<<post.id, Decode(post)>>}]
    /\ Leaves(w)
    /\ UNCHANGED <<keyRevoked, posted>>

RevokeKey ==
    /\ ~keyRevoked /\ keyRevoked' = TRUE
    /\ UNCHANGED <<posts, postStats, storedBy, posted>>

OtlpNext ==
    \/ \E w \in Workers :
        \/ \E post \in Posts : OtlpPost(w, post)
        \/ OtlpPreflight(w) \/ Rejected(w) \/ BeginHandle(w)
        \/ \E sink \in BOOLEAN : EndHandle(w, sink)
    \/ RevokeKey

OtlpSpec == OtlpInit /\ [][OtlpNext]_otlpVars

-----------------------------------------------------------------------------
(* Properties.                                                             *)

(* Types; what is stored has a time, so that no partition is of 1970       *)
(* (log_record).                                                           *)
OtlpTypeOK ==
    /\ \A w \in Workers : posts[w].pc \in {"free", "preflight", "body", "handle"}
    /\ \A s \in storedBy.proto \cup storedBy.json : \A i \in 1..Len(s[2]) : s[2][i].time > 0 /\ s[2][i].observed > 0

(* Every request of this path lands in exactly one exit, wherever it was   *)
(* judged, and though its credential went in between (ReceiverStats).      *)
ExitsAccount ==
    (\A w \in Workers : posts[w].pc # "handle") =>
        postStats.requests = postStats.accepted + postStats.rejected + postStats.badRequest + postStats.tooLarge

(* The same export, sent in either encoding and with its protobuf fields   *)
(* in any order, is stored as the same records (json.rs, resource_logs).   *)
EncodingsAgree ==
    \A p \in storedBy.proto, j \in storedBy.json : p[1] = j[1] => p[2] = j[2]

(* What otlp/http.rs keeps to: each request takes one exit, and one export *)
(* in two encodings makes the same records.                                *)
OtlpHttpInv == OtlpTypeOK /\ ExitsAccount /\ EncodingsAgree
=============================================================================
