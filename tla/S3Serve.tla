------------------------------ MODULE S3Serve ------------------------------
(***************************************************************************)
(* The read-only S3 endpoint (s3_serve.rs, s3_sigv4.rs) over a store that  *)
(* the merge, compaction and retention change under it.                    *)
(*                                                                         *)
(* A client lists a bucket page by page, or downloads one object in ranges *)
(* pinned to the version it saw first.  Every request passes the gate      *)
(* twice, in preflight and in handle.  A page is a walk of the live tree,  *)
(* one directory entry a step.                                             *)
(*                                                                         *)
(* A key is a sequence of tokens: DOT and SLASH, which sort before every   *)
(* letter as their bytes do, and names.  Only the order and the prefixes   *)
(* of keys matter.  XML, dates as text and percent-encoding are left out;  *)
(* a signature is whether its secret is the key's.                         *)
(***************************************************************************)
EXTENDS Naturals, Sequences, FiniteSets, SequencesExt, FiniteSetsExt

CONSTANTS
    StoreKeys,       \* files the store may hold
    HiddenKeys,      \* the ones among them that are not servable: temporary files
    PartKeys,        \* files of the parts bucket
    ListRequests,    \* [bucket, prefix, delimiter, max_keys, after]
    Readers,         \* [proof, flaw, scope]: how a client signs, what is wrong with the
                     \* request, and the roots of its ReadScope
    VersionLen,      \* the length of each version of the object
    Pins,            \* what a client pins a ranged download with: "match", "etag", "date"
    RangeBytes,      \* bytes a client asks for at a time
    MaxTreeChanges, MaxS3Requests   \* bounds

DOT == 1
SLASH == 2
NoDelimiter == 0
Object == CHOOSE k \in StoreKeys \ HiddenKeys : TRUE

ASSUME S3Assumption == HiddenKeys \subseteq StoreKeys /\ RangeBytes \in Nat \ {0}

VARIABLES
    storeFiles,        \* the store's tree: the keys there are
    version,      \* the version of Object, which a writer renames into place
    changes,
    job,          \* what the client does: "idle", "list", "get"
    phase,        \* of its request: "ready", "asked", "walk", "body", "over"
    s3Closed,       \* Inner::closed: whether the listener asks for a credential
    reader,       \* who asks
    readerExpired,      \* the session token's expiry has passed
    request,      \* the listing's parameters
    marker,       \* ListParams::marker
    pendingPage,      \* directory entries the walk has read and not come to
    page,         \* Walker::out
    lastPrefix,   \* Walker::last_prefix
    listed,       \* history: the units of every page of this listing
    steadyKeys,       \* history: keys there were all through the listing
    pin,          \* what the download is pinned with
    body,         \* the reply's open handle: [v, start, n]
    got,          \* the bytes the client has put together, each by its version
    s3Counts      \* [requests, reads, refused] and, as history, [sent, served]

treeVars == <<storeFiles, version, changes>>
listVars == <<request, marker, pendingPage, page, lastPrefix, listed, steadyKeys>>
getVars == <<pin, body, got>>
s3Vars == <<treeVars, job, phase, s3Closed, reader, readerExpired, listVars, getVars, s3Counts>>

NoS3Request == [bucket |-> "store", prefix |-> <<>>, delimiter |-> NoDelimiter, max_keys |-> 0, after |-> <<>>]
NoBody == [v |-> 0, start |-> 0, n |-> 0]
NoPin == [by |-> "none", v |-> 0]

S3Init ==
    /\ storeFiles = StoreKeys \ HiddenKeys /\ version = 1 /\ changes = 0
    /\ job = "idle" /\ phase = "ready" /\ s3Closed \in BOOLEAN /\ reader \in Readers /\ readerExpired = FALSE
    /\ request = NoS3Request /\ marker = <<>> /\ pendingPage = <<>> /\ page = <<>> /\ lastPrefix = <<>>
    /\ listed = <<>> /\ steadyKeys = {} /\ pin = NoPin /\ body = NoBody /\ got = <<>>
    /\ s3Counts = [requests |-> 0, reads |-> 0, refused |-> 0, sent |-> 0, served |-> 0]

-----------------------------------------------------------------------------
(* Keys: byte order, and what of the tree is servable.                     *)

KeyLess(a, b) ==
    \E i \in 1..Len(b) :
        /\ Len(a) >= i - 1 /\ SubSeq(a, 1, i - 1) = SubSeq(b, 1, i - 1)
        /\ Len(a) = i - 1 \/ a[i] < b[i]

(* The directories on the way to a key, as key prefixes.                   *)
DirsOf(key) == {SubSeq(key, 1, i) : i \in {j \in 1..Len(key) : key[j] = SLASH}}

Tree(bucket) == IF bucket = "store" THEN storeFiles ELSE PartKeys

(* servable, and the dot-files the walk skips.                             *)
Servable(key) == key \notin HiddenKeys

-----------------------------------------------------------------------------
(* ReadScope: the roots a reader may read below; <<>> is the whole store.  *)

WholeBody(scope) == <<>> \in scope
ScopeAllows(scope, key) == \E root \in scope : IsPrefix(root, key)
Reaches(scope, dir) == \E root \in scope : IsPrefix(root, dir) \/ IsPrefix(dir, root)

-----------------------------------------------------------------------------
(* gate.  A session token is judged wherever it is presented; without one  *)
(* an open listener asks nothing; otherwise the key id finds a secret, or  *)
(* a stand-in nobody holds.                                                *)

(* host_allowed: a name the listener answers to.                           *)
HostAllowed(who) == who.flaw # "host"

(* parse_authorization: the scheme, the credential, what is signed.        *)
Parses(who) == who.flaw # "syntax"

(* request_time: x-amz-date or date, on the day the credential names.      *)
DatesAgree(who) == who.flaw # "date"

(* The clocks differ by no more than MAX_SKEW_SECS.                        *)
InSkew(who) == who.flaw # "skew"

(* Host and date are among the signed headers, and the payload's hash is   *)
(* there for the canonical request.                                        *)
SignsEnough(who) == who.flaw # "unsigned"

(* signature_for over canonical_request: made with the key's secret.       *)
SignatureGood(who) == who.proof \in {"session", "key"}

(* verify: the first check that fails.  Whether the key id is known is     *)
(* said only with the signature, so that it tells nothing apart.           *)
Verified(who) ==
    CASE who.proof = "none" -> "missing"
      [] who.proof # "none" /\ ~Parses(who) -> "malformed"
      [] who.proof # "none" /\ Parses(who) /\ ~DatesAgree(who) -> "malformed"
      [] who.proof # "none" /\ Parses(who) /\ DatesAgree(who) /\ ~InSkew(who) -> "expired"
      [] who.proof # "none" /\ Parses(who) /\ DatesAgree(who) /\ InSkew(who) /\ ~SignsEnough(who) -> "malformed"
      [] OTHER -> IF who.proof = "unknown" THEN "unknown_key"
                  ELSE IF SignatureGood(who) THEN "ok" ELSE "signature"

Gate(who, late) ==
    IF ~HostAllowed(who) THEN "host"
    ELSE IF who.proof = "session" THEN IF late THEN "expired" ELSE Verified(who)
    ELSE IF ~s3Closed THEN "ok"
    ELSE Verified(who)

(* Access: what an admitted request may read.                              *)
AccessScope(who) == IF who.proof = "session" \/ s3Closed THEN who.scope ELSE {<<>>}

Bump(c, S) == [k \in DOMAIN c |-> IF k \in S THEN c[k] + 1 ELSE c[k]]

(* A refusal is counted by its reason; a wrong host is not one of those.   *)
Refusal(judged) == IF judged \in {"ok", "host"} THEN {} ELSE {"refused"}

(* preflight counts only what it refuses; handle counts what it admits.    *)
Preflighted(judged) == {"sent"} \cup Refusal(judged) \cup (IF judged = "ok" THEN {} ELSE {"requests"})

BeginSend(nextPhase) ==
    /\ s3Counts.sent < MaxS3Requests
    /\ LET judged == Gate(reader, readerExpired)
       IN /\ s3Counts' = Bump(s3Counts, Preflighted(judged))
          /\ phase' = IF judged = "ok" THEN nextPhase ELSE "over"

-----------------------------------------------------------------------------
(* list_objects.                                                           *)

(* list_base: the walk starts at the prefix's last directory.              *)
ListBase(prefix) ==
    LET slashes == {i \in 1..Len(prefix) : prefix[i] = SLASH}
    IN IF slashes = {} THEN <<>> ELSE SubSeq(prefix, 1, Max(slashes))

(* What read_dir says of one directory, filtered and in key order.         *)
Entries(req, scope, base) ==
    LET tree == Tree(req.bucket)
        Below(k) == IsStrictPrefix(base, k)
        Single(k) == \A i \in Len(base) + 1 .. Len(k) - 1 : k[i] # SLASH
        dirs == {d \in UNION {DirsOf(k) : k \in tree} : Below(d) /\ Single(d) /\ Reaches(scope, d)}
        plain == {k \in tree : Below(k) /\ Single(k) /\ Servable(k)
                               /\ IsPrefix(req.prefix, k) /\ ScopeAllows(scope, k)}
    IN SetToSortSeq(dirs \cup plain, KeyLess)

(* common_prefix: the key up to the first delimiter behind the prefix.     *)
CommonPrefix(req, key) ==
    LET at == {i \in Len(req.prefix) + 1 .. Len(key) : key[i] = req.delimiter}
    IN IF at = {} THEN key ELSE SubSeq(key, 1, Min(at))

IsDir(entry) == Last(entry) = SLASH

(* Mutant of SkipsSubtree: a marker inside the directory skips it too.     *)
SkipsSubtreeOfMarker(m, dir) == KeyLess(dir, m)

(* A directory whose keys all sort before the marker.                      *)
SkipsSubtree(m, dir) == KeyLess(dir, m) /\ ~IsPrefix(dir, m)

(* Up to the marker a unit was on an earlier page.                         *)
Passed(m, key) == key = m \/ KeyLess(key, m)

(* push: unit goes on the page, has been there, or the page is full.       *)
PushUnit(unit, rolled) ==
    IF Passed(marker, unit) \/ (rolled /\ unit = lastPrefix)
    THEN pendingPage' = Tail(pendingPage) /\ UNCHANGED <<page, lastPrefix, phase, listed>>
    ELSE IF Len(page) >= request.max_keys
    THEN \* truncated: the page is answered, and names its last unit
         /\ pendingPage' = <<>> /\ phase' = "full" /\ listed' = listed \o page
         /\ UNCHANGED <<page, lastPrefix>>
    ELSE /\ page' = Append(page, unit) /\ pendingPage' = Tail(pendingPage)
         /\ lastPrefix' = IF rolled THEN unit ELSE lastPrefix
         /\ UNCHANGED <<phase, listed>>

(* A listing begins, or goes on with the token or marker of its last page. *)
AskList ==
    /\ \/ /\ job = "idle"
          /\ job' = "list"
          /\ request' \in ListRequests
          /\ marker' = request'.after /\ listed' = <<>> /\ steadyKeys' = Tree(request'.bucket)
       \/ /\ job = "list" /\ phase = "full"
          /\ marker' = Last(page)
          /\ UNCHANGED <<job, request, listed, steadyKeys>>
    /\ BeginSend("asked")
    /\ page' = <<>> /\ lastPrefix' = <<>> /\ pendingPage' = <<>>
    /\ UNCHANGED <<treeVars, s3Closed, reader, readerExpired, getVars>>

(* Uploaded parts are kept by node, so who reads them reads everything.    *)
BucketInScope(bucket, scope) == bucket = "store" \/ WholeBody(scope)

(* handle, route: the gate again, the read is counted, and the walk reads  *)
(* its first directory.                                                    *)
HandleList ==
    /\ job = "list" /\ phase = "asked"
    /\ LET admitted == Gate(reader, readerExpired) = "ok"
           scope == AccessScope(reader)
           inScope == BucketInScope(request.bucket, scope)
       IN /\ s3Counts' = Bump(s3Counts, {"requests"} \cup (IF admitted THEN {"reads"} ELSE {})
                                        \cup (IF admitted /\ inScope THEN {"served"} ELSE {"refused"}))
          /\ IF admitted /\ inScope
             THEN /\ phase' = "walk"
                  /\ pendingPage' = IF request.max_keys > 0 THEN Entries(request, scope, ListBase(request.prefix)) ELSE <<>>
             ELSE phase' = "over" /\ UNCHANGED pendingPage
    /\ UNCHANGED <<treeVars, job, s3Closed, reader, readerExpired, request, marker, page, lastPrefix, listed, steadyKeys, getVars>>

(* walk comes to a directory: skipped, rolled up, or read.                 *)
WalkDir ==
    /\ job = "list" /\ phase = "walk" /\ pendingPage # <<>> /\ IsDir(Head(pendingPage))
    /\ LET dir == Head(pendingPage)
           inside == IsPrefix(request.prefix, dir)
           cp == CommonPrefix(request, dir)
           rolled == inside /\ request.delimiter # NoDelimiter /\ Last(cp) = request.delimiter
       IN IF ~(inside \/ IsPrefix(dir, request.prefix)) \/ SkipsSubtree(marker, dir)
          THEN pendingPage' = Tail(pendingPage) /\ UNCHANGED <<page, lastPrefix, phase, listed>>
          ELSE IF rolled THEN PushUnit(cp, TRUE)
          ELSE /\ pendingPage' = Entries(request, AccessScope(reader), dir) \o Tail(pendingPage)
               /\ UNCHANGED <<page, lastPrefix, phase, listed>>
    /\ UNCHANGED <<treeVars, job, s3Closed, reader, readerExpired, request, marker, steadyKeys, getVars, s3Counts>>

(* walk comes to a file: it may have gone since the directory was read.    *)
WalkFile ==
    /\ job = "list" /\ phase = "walk" /\ pendingPage # <<>> /\ ~IsDir(Head(pendingPage))
    /\ LET key == Head(pendingPage)
           cp == CommonPrefix(request, key)
           rolled == request.delimiter # NoDelimiter /\ Last(cp) = request.delimiter
       IN IF Passed(marker, key) \/ (~rolled /\ key \notin Tree(request.bucket))
          THEN pendingPage' = Tail(pendingPage) /\ UNCHANGED <<page, lastPrefix, phase, listed>>
          ELSE PushUnit(IF rolled THEN cp ELSE key, rolled)
    /\ UNCHANGED <<treeVars, job, s3Closed, reader, readerExpired, request, marker, steadyKeys, getVars, s3Counts>>

(* The walk is through: the last page.                                     *)
ListEnds ==
    /\ job = "list" /\ phase = "walk" /\ pendingPage = <<>>
    /\ phase' = "over" /\ listed' = listed \o page /\ page' = <<>>
    /\ UNCHANGED <<treeVars, job, s3Closed, reader, readerExpired, request, marker, pendingPage, lastPrefix, steadyKeys, getVars, s3Counts>>

-----------------------------------------------------------------------------
(* object.                                                                 *)

(* etag: length and modification time; Last-Modified counts whole seconds, *)
(* two versions to the second.                                             *)
Etag(v) == <<VersionLen[v], v>>
Seconds(v) == v \div 2

(* parse_range of bytes=first-last against the length.                     *)
ParseRange(first, last, len) ==
    IF first >= len THEN [kind |-> "unsatisfiable"]
    ELSE [kind |-> "part", first |-> first, last |-> IF last < len - 1 THEN last ELSE len - 1]

(* If-Range: is the version the client has the one there is?               *)
CurrentVersion(p, v) ==
    CASE p.by = "etag" -> Etag(p.v) = Etag(v)
      [] p.by = "date" -> Seconds(p.v) = Seconds(v)
      [] OTHER -> TRUE

(* If-Match.                                                               *)
Precondition(p, v) == p.by = "match" => Etag(p.v) = Etag(v)

AskObject ==
    /\ \/ job = "idle" /\ pin' = NoPin /\ got' = <<>>
       \/ job = "get" /\ phase = "ready" /\ UNCHANGED <<pin, got>>
    /\ job' = "get" /\ body' = NoBody
    /\ BeginSend("asked")
    /\ UNCHANGED <<treeVars, s3Closed, reader, readerExpired, listVars>>

(* The reply to an object request: scope is judged before the disk, the    *)
(* file is opened before any header is sent.                               *)
HandleObject ==
    /\ job = "get" /\ phase = "asked"
    /\ LET admitted == Gate(reader, readerExpired) = "ok"
           inScope == WholeBody(AccessScope(reader)) \/ ScopeAllows(AccessScope(reader), Object)
           len == VersionLen[version]
           range == ParseRange(Len(got), Len(got) + RangeBytes - 1, len)
           ranged == CurrentVersion(pin, version)
       IN /\ s3Counts' = Bump(s3Counts, {"requests"} \cup (IF admitted THEN {"reads"} ELSE {})
                                        \cup (IF admitted /\ inScope THEN {"served"} ELSE {"refused"}))
          /\ IF ~admitted \/ ~inScope \/ Object \notin storeFiles \/ ~Precondition(pin, version)
                \/ (ranged /\ range.kind = "unsatisfiable")
             THEN phase' = "over" /\ got' = <<>> /\ UNCHANGED <<body, pin>>
             ELSE /\ phase' = "body"
                  /\ body' = IF ranged THEN [v |-> version, start |-> range.first, n |-> range.last - range.first + 1]
                             ELSE [v |-> version, start |-> 0, n |-> len]
                  \* the whole object answers a stale range: the client drops what it has
                  /\ got' = IF ranged THEN got ELSE <<>>
                  /\ pin' \in IF pin.by # "none" THEN {[pin EXCEPT !.v = version]} ELSE [by : Pins, v : {version}]
    /\ UNCHANGED <<treeVars, job, s3Closed, reader, readerExpired, listVars>>

(* The body is read from the open handle, whatever has become of the name. *)
SendBody ==
    /\ job = "get" /\ phase = "body"
    /\ got' = got \o [i \in 1..body.n |-> body.v]
    /\ phase' = IF Len(got') = VersionLen[body.v] THEN "over" ELSE "ready"
    /\ body' = NoBody
    /\ UNCHANGED <<treeVars, job, s3Closed, reader, readerExpired, listVars, pin, s3Counts>>

S3ClientDone ==
    /\ phase = "over"
    /\ job' = "idle" /\ phase' = "ready"
    /\ request' = NoS3Request /\ marker' = <<>> /\ pendingPage' = <<>> /\ page' = <<>> /\ lastPrefix' = <<>>
    /\ listed' = <<>> /\ steadyKeys' = {} /\ pin' = NoPin /\ body' = NoBody /\ got' = <<>>
    /\ UNCHANGED <<treeVars, s3Closed, reader, readerExpired, s3Counts>>

-----------------------------------------------------------------------------
(* The store changes, and the token runs out.                              *)

StoreAppears == \E k \in StoreKeys \ storeFiles :
    /\ changes < MaxTreeChanges /\ changes' = changes + 1
    /\ storeFiles' = storeFiles \cup {k}
    /\ version' = IF k = Object /\ version < Len(VersionLen) THEN version + 1 ELSE version
    /\ UNCHANGED <<job, phase, s3Closed, reader, readerExpired, listVars, getVars, s3Counts>>

StoreUnlinks == \E k \in storeFiles :
    /\ changes < MaxTreeChanges /\ changes' = changes + 1
    /\ storeFiles' = storeFiles \ {k}
    /\ steadyKeys' = IF request.bucket = "store" THEN steadyKeys \ {k} ELSE steadyKeys
    /\ UNCHANGED <<version, job, phase, s3Closed, reader, readerExpired, request, marker, pendingPage, page, lastPrefix, listed, getVars, s3Counts>>

StoreRewrites ==
    /\ changes < MaxTreeChanges /\ changes' = changes + 1
    /\ Object \in storeFiles /\ version < Len(VersionLen) /\ version' = version + 1
    /\ UNCHANGED <<storeFiles, job, phase, s3Closed, reader, readerExpired, listVars, getVars, s3Counts>>

ReaderExpires ==
    /\ ~readerExpired /\ readerExpired' = TRUE
    /\ UNCHANGED <<treeVars, job, phase, s3Closed, reader, listVars, getVars, s3Counts>>

S3Next ==
    \/ AskList \/ HandleList \/ WalkDir \/ WalkFile \/ ListEnds
    \/ AskObject \/ HandleObject \/ SendBody \/ S3ClientDone
    \/ StoreAppears \/ StoreUnlinks \/ StoreRewrites \/ ReaderExpires

S3Spec == S3Init /\ [][S3Next]_s3Vars

-----------------------------------------------------------------------------

Units == UNION {DirsOf(k) \cup {k} : k \in StoreKeys \cup PartKeys}
             \cup {SubSeq(k, 1, i) : k \in StoreKeys \cup PartKeys, i \in 1..2}

(* Type invariant.  A page is never longer than max_keys (push).           *)
S3TypeOK ==
    /\ storeFiles \subseteq StoreKeys /\ version \in DOMAIN VersionLen /\ changes \in 0..MaxTreeChanges
    /\ job \in {"idle", "list", "get"} /\ phase \in {"ready", "asked", "walk", "full", "body", "over"}
    /\ s3Closed \in BOOLEAN /\ reader \in Readers /\ readerExpired \in BOOLEAN
    /\ request \in ListRequests \cup {NoS3Request}
    /\ page \in Seq(Units) /\ Len(page) <= request.max_keys
    /\ pin.by \in Pins \cup {"none"} /\ body.v \in 0..Len(VersionLen)

(* The pages of a listing give every unit once and in byte order, across   *)
(* the page breaks as within them (Walker::walk sorts directories as       *)
(* name/, and the next page begins behind the last unit of this one).      *)
ListedInOrder ==
    LET all == listed \o (IF phase = "walk" THEN page ELSE <<>>)
    IN \A i, j \in DOMAIN all : i < j => KeyLess(all[i], all[j])

(* A listing that has come to its end misses nothing: every key that was   *)
(* in the tree all the while, that the reader may read and that the        *)
(* request asks for, is on some page or below a common prefix on one,      *)
(* however other files came and went between and during the pages          *)
(* (list_objects, Walker).                                                 *)
ListingIsComplete ==
    (job = "list" /\ phase = "walk" /\ pendingPage = <<>> /\ request.max_keys > 0) =>
        \A k \in steadyKeys :
            (/\ Servable(k) /\ ScopeAllows(AccessScope(reader), k)
             /\ IsPrefix(request.prefix, k) /\ KeyLess(request.after, k)
             /\ ~IsPrefix(CommonPrefix(request, k), request.after))
            => \E i \in DOMAIN (listed \o page) :
                   (listed \o page)[i] = k \/ (request.delimiter # NoDelimiter /\ (listed \o page)[i] = CommonPrefix(request, k))

(* Nothing a reader has no grant for reaches it: a listed key is below its *)
(* roots and servable, a listed common prefix inside them or on the way,   *)
(* bytes come only of an object in its scope, and an expired token opens   *)
(* nothing, on a listener that asks for no credential either (gate, route, *)
(* ReadScope).                                                             *)
ReadIsEntitled ==
    LET scope == AccessScope(reader)
    IN /\ \A i \in DOMAIN (listed \o page) :
              LET u == (listed \o page)[i]
              IN IF u \in StoreKeys \cup PartKeys THEN ScopeAllows(scope, u) /\ Servable(u) ELSE Reaches(scope, u)
       /\ request.bucket # "store" /\ phase = "walk" => WholeBody(scope)
       /\ phase = "body" => ScopeAllows(scope, Object)

(* A session token that has run out between two requests reads nothing     *)
(* more (gate: an expired one must not quietly become a read of            *)
(* everything).                                                            *)
ExpiredReadsNothing ==
    [][reader.proof = "session" /\ readerExpired => s3Counts'.served = s3Counts.served]_s3Vars

(* What a client has put together of a pinned download is of one version,  *)
(* though the file is rewritten or unlinked between the requests and while *)
(* a body is on its way (object: If-Match, If-Range, the open handle).     *)
DownloadIsOneVersion == \A i, j \in DOMAIN got : got[i] = got[j]

(* Every request is counted once, though the gate judges it twice.         *)
RequestsCountedOnce ==
    s3Counts.requests = s3Counts.sent - (IF phase = "asked" THEN 1 ELSE 0)

(* What s3_serve.rs promises over a changing tree: pages in order that     *)
(* miss nothing that stayed, a download of one version, reads within the   *)
(* reader's scope and time, and each request counted once.                 *)
S3Promise ==
    /\ [](/\ S3TypeOK
          /\ ListedInOrder
          /\ ListingIsComplete
          /\ ReadIsEntitled
          /\ DownloadIsOneVersion
          /\ RequestsCountedOnce)
    /\ ExpiredReadsNothing
=============================================================================
