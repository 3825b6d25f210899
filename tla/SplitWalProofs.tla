--------------------------- MODULE SplitWalProofs ---------------------------
(***************************************************************************)
(* Proofs about SplitWal, for any segment sizes, batch sizes and numbers   *)
(* of records and restarts: its type invariant, that acknowledged records  *)
(* are on disk, that it implements DurableLog, and that what it publishes  *)
(* to other threads is true.                                               *)
(*                                                                         *)
(* The first part says what each method of WalWriter does to the state it  *)
(* is given: the records it holds, on disk or buffered, and its counts.    *)
(***************************************************************************)
EXTENDS SplitWal, FiniteSetTheorems, WellFoundedInduction, TLAPS

StateSet == [segs : SUBSET Segment, wal : [Logs -> WalWriter], made : Nat, clock : Nat]

Disk(ss) == UNION {s.recs : s \in ss}

Uuids(ss) == {s.uuid : s \in ss}

BufOf(w) == (UNION w["main"].buf) \cup (UNION w["late"].buf)

Held(st) == Disk(st.segs) \cup BufOf(st.wal)

Written(st) == st.wal["main"].written + st.wal["late"].written

(* Segment ids stay below the number of segments created, and a log with   *)
(* unsynced frames has its segment on disk.                                *)
Good(st) ==
    /\ st \in StateSet
    /\ \A s \in st.segs : s.id <= st.made
    /\ \A l \in Logs : st.wal[l].id <= st.made
    /\ \A l \in Logs : st.wal[l].buf # {} => st.wal[l].uuid \in Uuids(st.segs)

Open(st, l) == st.wal[l].uuid \in Uuids(st.segs)

(* r comes from st by a method that only moves records towards the disk.   *)
Kept(st, r) ==
    /\ Good(r)
    /\ Disk(st.segs) \subseteq Disk(r.segs)
    /\ Held(r) = Held(st)
    /\ Written(r) = Written(st)
    /\ \A l \in Logs : Open(st, l) => Open(r, l)

Clean(st) == \A l \in Logs : st.wal[l].buf = {}

(* A nonempty bounded set of numbers has a largest element.                *)
LEMMA MaxExists ==
    ASSUME NEW S \in SUBSET Nat, S # {}, NEW b \in Nat, \A i \in S : i <= b
    PROVE  \E m \in S : \A i \in S : i <= m
<1> DEFINE U == {n \in Nat : \A i \in S : i <= n}
<1>1. U # {} /\ U \subseteq Nat
  OBVIOUS
<1>2. PICK m \in U : \A y \in U : ~(<<y, m>> \in OpToRel(<, Nat))
  BY <1>1, NatLessThanWellFounded, WFMin
<1>3. \A y \in U : ~(y < m)
  BY <1>2 DEF OpToRel
<1>4. m \in Nat /\ \A i \in S : i <= m
  OBVIOUS
<1>5. ASSUME m \notin S PROVE FALSE
  <2>1. \A i \in S : i \in Nat /\ i # m
    BY <1>5
  <2>2. \A i \in S : i <= m - 1
    BY <1>4, <2>1
  <2>3. PICK i \in S : TRUE
    OBVIOUS
  <2>4. m # 0
    BY <1>4, <2>1, <2>2, <2>3
  <2>5. m - 1 \in Nat /\ m - 1 < m
    BY <1>4, <2>4
  <2>6. m - 1 \in U
    BY <2>2, <2>5
  <2>7. QED
    BY <2>5, <2>6, <1>3
<1>6. QED
  BY <1>4, <1>5

LEMMA TicksNat == Ticks \subseteq Nat
BY DEF Ticks

(* What a flush does to the files.                                         *)
LEMMA FlushEffect ==
    ASSUME NEW ss \in SUBSET Segment, NEW w \in WalWriter, NEW fs \in SUBSET Frames
    PROVE  /\ Flush(ss, w, fs) \in SUBSET Segment
           /\ Uuids(Flush(ss, w, fs)) = Uuids(ss)
           /\ Disk(ss) \subseteq Disk(Flush(ss, w, fs))
           /\ Disk(Flush(ss, w, fs)) \subseteq Disk(ss) \cup UNION fs
           /\ w.uuid \in Uuids(ss) => UNION fs \subseteq Disk(Flush(ss, w, fs))
           /\ \A t \in Flush(ss, w, fs) : \E s \in ss : t.id = s.id
<1> DEFINE G(s) == IF s.uuid = w.uuid THEN [s EXCEPT !.recs = @ \cup UNION fs] ELSE s
<1>0. Flush(ss, w, fs) = {G(s) : s \in ss}
  BY DEF Flush
<1>1. UNION fs \subseteq Nat
  BY DEF Frames
<1>2. \A s \in ss : /\ G(s) \in Segment
                    /\ G(s).uuid = s.uuid
                    /\ G(s).id = s.id
                    /\ s.recs \subseteq G(s).recs
                    /\ G(s).recs \subseteq s.recs \cup UNION fs
                    /\ s.uuid = w.uuid => UNION fs \subseteq G(s).recs
  BY <1>1 DEF Segment
<1>3. QED
  <2> HIDE DEF G
  <2>1. Flush(ss, w, fs) \in SUBSET Segment /\ \A t \in Flush(ss, w, fs) : \E s \in ss : t.id = s.id
    BY <1>0, <1>2
  <2>2. Uuids(Flush(ss, w, fs)) = Uuids(ss)
    BY <1>0, <1>2 DEF Uuids
  <2>3. Disk(ss) \subseteq Disk(Flush(ss, w, fs))
    BY <1>0, <1>2 DEF Disk
  <2>4. Disk(Flush(ss, w, fs)) \subseteq Disk(ss) \cup UNION fs
    BY <1>0, <1>2 DEF Disk
  <2>5. ASSUME w.uuid \in Uuids(ss) PROVE UNION fs \subseteq Disk(Flush(ss, w, fs))
    <3>1. PICK s \in ss : s.uuid = w.uuid
      BY <2>5 DEF Uuids
    <3>2. G(s) \in Flush(ss, w, fs) /\ UNION fs \subseteq G(s).recs
      BY <1>0, <1>2, <3>1
    <3>3. QED
      BY <3>2 DEF Disk
  <2>6. QED
    BY <2>1, <2>2, <2>3, <2>4, <2>5

(* The records held, from those of the two logs.                           *)
LEMMA HeldIs ==
    ASSUME NEW st
    PROVE  Held(st) = Disk(st.segs) \cup (UNION st.wal["main"].buf) \cup (UNION st.wal["late"].buf)
BY DEF Held, BufOf

(* Doing one after the other.                                              *)
LEMMA KeptTrans ==
    ASSUME NEW a, NEW b, NEW c, Kept(a, b), Kept(b, c)
    PROVE  Kept(a, c)
BY DEF Kept

LEMMA KeptRefl ==
    ASSUME NEW a, Good(a)
    PROVE  Kept(a, a)
BY DEF Kept

(* The updates of the fields of a WalWriter.                               *)
Opened(w, i, u) == [w EXCEPT !.id = i, !.uuid = u, !.len = 0]

Synced(w) == [w EXCEPT !.buf = {}, !.synced = w.written]

LEMMA OpenedWriter ==
    ASSUME NEW w \in WalWriter, NEW i \in Nat, NEW u \in Nat
    PROVE  /\ Opened(w, i, u) \in WalWriter
           /\ Opened(w, i, u).id = i
           /\ Opened(w, i, u).uuid = u
           /\ Opened(w, i, u).buf = w.buf
           /\ Opened(w, i, u).written = w.written
BY DEF WalWriter, Opened

LEMMA SyncedWriter ==
    ASSUME NEW w \in WalWriter
    PROVE  /\ Synced(w) \in WalWriter
           /\ Synced(w).id = w.id
           /\ Synced(w).uuid = w.uuid
           /\ Synced(w).buf = {}
           /\ Synced(w).written = w.written
BY DEF WalWriter, Synced

(* Replacing the writer of one log.                                        *)
LEMMA PutWriter ==
    ASSUME NEW ws \in [Logs -> WalWriter], NEW l \in Logs, NEW v \in WalWriter
    PROVE  /\ [ws EXCEPT ![l] = v] \in [Logs -> WalWriter]
           /\ [ws EXCEPT ![l] = v][l] = v
           /\ \A k \in Logs : k # l => [ws EXCEPT ![l] = v][k] = ws[k]
OBVIOUS

(* create_segment loses nothing when the log has nothing buffered.         *)
LEMMA CreateEffect ==
    ASSUME NEW st, Good(st), NEW l \in Logs, NEW id \in Nat \ {0}, id <= st.made + 1,
           NEW tick \in Nat, st.wal[l].buf = {}
    PROVE  /\ Kept(st, CreateSegment(st, l, id, tick))
           /\ Open(CreateSegment(st, l, id, tick), l)
           /\ \A k \in Logs : CreateSegment(st, l, id, tick).wal[k].buf = st.wal[k].buf
<1> DEFINE u == st.made + 1
<1> DEFINE s == [log |-> l, id |-> id, uuid |-> u, ms |-> st.clock + tick, hdr |-> TRUE, recs |-> {}]
<1> DEFINE v == Opened(st.wal[l], id, u)
<1> DEFINE r == CreateSegment(st, l, id, tick)
<1>0. /\ st.segs \in SUBSET Segment
      /\ st.wal \in [Logs -> WalWriter]
      /\ st.wal[l] \in WalWriter
      /\ st.made \in Nat
      /\ st.clock \in Nat
      /\ st.clock + tick \in Nat
      /\ u \in Nat /\ id \in Nat /\ id <= u /\ st.made <= u
  BY DEF Good, StateSet
<1>1. /\ r.segs = st.segs \cup {s}
      /\ r.wal = [st.wal EXCEPT ![l] = v]
      /\ r.made = u
      /\ r.clock = st.clock + tick
      /\ r = [segs |-> r.segs, wal |-> r.wal, made |-> r.made, clock |-> r.clock]
  BY DEF CreateSegment, Opened
<1> HIDE DEF u
<1>2. s \in Segment /\ s.recs = {} /\ s.uuid = u /\ s.id = id
  BY <1>0 DEF Segment
<1>3. /\ v \in WalWriter
      /\ v.id = id
      /\ v.uuid = u
      /\ v.buf = st.wal[l].buf
      /\ v.written = st.wal[l].written
  <2> DEFINE w == st.wal[l]
  <2>1. w \in WalWriter /\ id \in Nat /\ u \in Nat
    BY <1>0
  <2> HIDE DEF w
  <2>2. /\ Opened(w, id, u) \in WalWriter
        /\ Opened(w, id, u).id = id
        /\ Opened(w, id, u).uuid = u
        /\ Opened(w, id, u).buf = w.buf
        /\ Opened(w, id, u).written = w.written
    BY <2>1, OpenedWriter
  <2>3. QED
    BY <2>2 DEF w
<1> HIDE DEF v, s, r
<1>4. /\ r.wal \in [Logs -> WalWriter]
      /\ r.wal[l] = v
      /\ \A k \in Logs : k # l => r.wal[k] = st.wal[k]
  BY <1>0, <1>1, <1>3, PutWriter
<1>5. r \in StateSet
  BY <1>0, <1>1, <1>2, <1>4 DEF StateSet
<1>6. \A k \in Logs : r.wal[k].buf = st.wal[k].buf /\ r.wal[k].written = st.wal[k].written
  BY <1>3, <1>4
<1>7. Uuids(r.segs) = Uuids(st.segs) \cup {u}
  BY <1>1, <1>2 DEF Uuids
<1>8. Disk(r.segs) = Disk(st.segs)
  BY <1>1, <1>2 DEF Disk
<1>9. Open(r, l)
  BY <1>3, <1>4, <1>7 DEF Open
<1>10. Good(r)
  <2>1. \A x \in r.segs : x.id <= r.made
    <3>1. \A x \in st.segs : x.id <= st.made /\ x.id \in Nat
      BY <1>0 DEF Good, Segment
    <3>2. QED
      BY <1>0, <1>1, <1>2, <3>1
  <2>2. \A k \in Logs : r.wal[k].id <= r.made
    <3>1. \A k \in Logs : st.wal[k].id <= st.made /\ st.wal[k].id \in Nat
      BY <1>0 DEF Good, WalWriter
    <3>2. QED
      BY <1>0, <1>1, <1>3, <1>4, <3>1
  <2>3. \A k \in Logs : r.wal[k].buf # {} => r.wal[k].uuid \in Uuids(r.segs)
    BY <1>3, <1>4, <1>7 DEF Good
  <2>4. QED
    BY <1>5, <2>1, <2>2, <2>3 DEF Good
<1>11. Held(r) = Held(st)
  BY <1>6, <1>8, HeldIs DEF Logs
<1>12. Written(r) = Written(st)
  BY <1>6 DEF Written, Logs
<1>13. \A k \in Logs : Open(st, k) => Open(r, k)
  BY <1>4, <1>7, <1>9 DEF Open
<1>14. QED
  BY <1>6, <1>8, <1>9, <1>10, <1>11, <1>12, <1>13 DEF Kept, r

(* WalWriter::sync empties the buffer of one log into its segment.         *)
LEMMA SyncEffect ==
    ASSUME NEW st, Good(st), NEW l \in Logs
    PROVE  /\ Kept(st, SyncLog(st, l))
           /\ SyncLog(st, l).wal[l].buf = {}
           /\ \A k \in Logs : k # l => SyncLog(st, l).wal[k].buf = st.wal[k].buf
           /\ \A k \in Logs : SyncLog(st, l).wal[k].id = st.wal[k].id
           /\ SyncLog(st, l).made = st.made
<1> DEFINE v == Synced(st.wal[l])
<1> DEFINE r == SyncLog(st, l)
<1>0. /\ st.segs \in SUBSET Segment
      /\ st.wal \in [Logs -> WalWriter]
      /\ st.made \in Nat
      /\ st.clock \in Nat
      /\ st.wal[l] \in WalWriter
  BY DEF Good, StateSet
<1>1. /\ r.segs = Flush(st.segs, st.wal[l], st.wal[l].buf)
      /\ r.wal = [st.wal EXCEPT ![l] = v]
      /\ r.made = st.made
      /\ r.clock = st.clock
      /\ r = [segs |-> r.segs, wal |-> r.wal, made |-> r.made, clock |-> r.clock]
  BY DEF SyncLog, Synced
<1>2. /\ v \in WalWriter
      /\ v.id = st.wal[l].id /\ v.uuid = st.wal[l].uuid
      /\ v.buf = {} /\ v.written = st.wal[l].written
  BY <1>0, SyncedWriter
<1> HIDE DEF v, r
<1>3. /\ r.wal \in [Logs -> WalWriter]
      /\ r.wal[l] = v
      /\ \A k \in Logs : k # l => r.wal[k] = st.wal[k]
  BY <1>0, <1>1, <1>2, PutWriter
<1>4. st.wal[l].buf \in SUBSET Frames
  BY <1>0 DEF WalWriter
<1>5. /\ r.segs \in SUBSET Segment
      /\ Uuids(r.segs) = Uuids(st.segs)
      /\ Disk(st.segs) \subseteq Disk(r.segs)
      /\ Disk(r.segs) \subseteq Disk(st.segs) \cup (UNION st.wal[l].buf)
      /\ st.wal[l].uuid \in Uuids(st.segs) => (UNION st.wal[l].buf) \subseteq Disk(r.segs)
      /\ \A t \in r.segs : \E s \in st.segs : t.id = s.id
  <2> DEFINE f == Flush(st.segs, st.wal[l], st.wal[l].buf)
  <2>1. /\ f \in SUBSET Segment
        /\ Uuids(f) = Uuids(st.segs)
        /\ Disk(st.segs) \subseteq Disk(f)
        /\ Disk(f) \subseteq Disk(st.segs) \cup (UNION st.wal[l].buf)
        /\ st.wal[l].uuid \in Uuids(st.segs) => (UNION st.wal[l].buf) \subseteq Disk(f)
        /\ \A t \in f : \E s \in st.segs : t.id = s.id
    BY <1>0, <1>4, FlushEffect
  <2> HIDE DEF f
  <2>2. r.segs = f
    BY <1>1 DEF f
  <2>3. QED
    BY <2>1, <2>2
<1>6. \A k \in Logs : /\ r.wal[k].id = st.wal[k].id
                      /\ r.wal[k].uuid = st.wal[k].uuid
                      /\ r.wal[k].written = st.wal[k].written
  BY <1>2, <1>3
<1>7. Disk(r.segs) = Disk(st.segs) \cup (UNION st.wal[l].buf)
  <2>1. CASE st.wal[l].buf = {}
    BY <1>5, <2>1
  <2>2. CASE st.wal[l].buf # {}
    BY <1>5, <2>2 DEF Good
  <2>3. QED
    BY <2>1, <2>2
<1>8. r \in StateSet
  BY <1>0, <1>1, <1>3, <1>5 DEF StateSet
<1>9. Good(r)
  BY <1>1, <1>2, <1>3, <1>5, <1>6, <1>8 DEF Good
<1>10. Held(r) = Held(st)
  <2>1. /\ Held(r) = Disk(r.segs) \cup (UNION r.wal["main"].buf) \cup (UNION r.wal["late"].buf)
        /\ Held(st) = Disk(st.segs) \cup (UNION st.wal["main"].buf) \cup (UNION st.wal["late"].buf)
    BY HeldIs
  <2>2. (UNION r.wal[l].buf) = {} /\ \A k \in Logs : k # l => r.wal[k].buf = st.wal[k].buf
    BY <1>2, <1>3
  <2>3. CASE l = "main"
    <3>1. (UNION r.wal["main"].buf) = {} /\ (UNION r.wal["late"].buf) = (UNION st.wal["late"].buf)
      BY <2>2, <2>3 DEF Logs
    <3>2. Disk(r.segs) = Disk(st.segs) \cup (UNION st.wal["main"].buf)
      BY <1>7, <2>3
    <3>3. QED
      BY <2>1, <3>1, <3>2, Zenon
  <2>4. CASE l = "late"
    <3>1. (UNION r.wal["late"].buf) = {} /\ (UNION r.wal["main"].buf) = (UNION st.wal["main"].buf)
      BY <2>2, <2>4 DEF Logs
    <3>2. Disk(r.segs) = Disk(st.segs) \cup (UNION st.wal["late"].buf)
      BY <1>7, <2>4
    <3>3. QED
      BY <2>1, <3>1, <3>2
  <2>5. QED
    BY <2>3, <2>4 DEF Logs
<1>11. Written(r) = Written(st)
  BY <1>6 DEF Written, Logs
<1>12. \A k \in Logs : Open(st, k) => Open(r, k)
  BY <1>5, <1>6 DEF Open
<1>13. QED
  BY <1>1, <1>2, <1>3, <1>5, <1>6, <1>9, <1>10, <1>11, <1>12 DEF Kept, r

(* WalWriter::roll                                                         *)
LEMMA RollEffect ==
    ASSUME NEW st, Good(st), NEW l \in Logs, NEW tick \in Nat
    PROVE  /\ Kept(st, Roll(st, l, tick))
           /\ \A k \in Logs : st.wal[k].buf = {} => Roll(st, l, tick).wal[k].buf = {}
<1> DEFINE y == SyncLog(st, l)
<1>1. /\ Kept(st, y)
      /\ y.wal[l].buf = {}
      /\ \A k \in Logs : k # l => y.wal[k].buf = st.wal[k].buf
      /\ y.made = st.made
  BY SyncEffect
<1>2. Good(y)
  BY <1>1 DEF Kept
<1> DEFINE i == st.wal[l].id + 1
<1>3. i \in Nat \ {0} /\ i <= y.made + 1
  <2>1. st.wal[l].id \in Nat /\ st.wal[l].id <= st.made /\ st.made \in Nat
    BY DEF Good, StateSet, WalWriter
  <2>2. QED
    BY <1>1, <2>1
<1>4. Roll(st, l, tick) = CreateSegment(y, l, i, tick)
  BY DEF Roll
<1> HIDE DEF y, i
<1>5. /\ Kept(y, CreateSegment(y, l, i, tick))
      /\ \A k \in Logs : CreateSegment(y, l, i, tick).wal[k].buf = y.wal[k].buf
  BY <1>1, <1>2, <1>3, CreateEffect
<1>6. QED
  BY <1>1, <1>4, <1>5, KeptTrans

(* WalWriter::append holds the new records, and counts them.               *)
Took(st, r, recs) ==
    /\ Good(r)
    /\ Disk(st.segs) \subseteq Disk(r.segs)
    /\ Held(r) = Held(st) \cup recs
    /\ Written(r) = Written(st) + Cardinality(recs)
    /\ \A l \in Logs : Open(st, l) => Open(r, l)

Added(w, recs) == [w EXCEPT !.buf = w.buf \cup {recs}, !.len = w.len + Cardinality(recs),
                            !.written = w.written + Cardinality(recs)]

LEMMA AddedWriter ==
    ASSUME NEW w \in WalWriter, NEW recs \in SUBSET Nat, Cardinality(recs) \in Nat
    PROVE  /\ Added(w, recs) \in WalWriter
           /\ Added(w, recs).id = w.id
           /\ Added(w, recs).uuid = w.uuid
           /\ Added(w, recs).buf = w.buf \cup {recs}
           /\ Added(w, recs).written = w.written + Cardinality(recs)
<1> DEFINE b == w.buf \cup {recs}
<1> DEFINE m == w.len + Cardinality(recs)
<1> DEFINE n == w.written + Cardinality(recs)
<1>1. b \in SUBSET Frames /\ m \in Nat /\ n \in Nat
  <2>1. w.buf \in SUBSET Frames /\ w.len \in Nat /\ w.written \in Nat
    BY DEF WalWriter
  <2>2. recs \in Frames
    BY DEF Frames
  <2>3. QED
    BY <2>1, <2>2
<1>2. Added(w, recs) = [w EXCEPT !.buf = b, !.len = m, !.written = n]
  BY DEF Added
<1> HIDE DEF b, m, n
<1>3. /\ Added(w, recs) \in WalWriter
      /\ Added(w, recs).id = w.id
      /\ Added(w, recs).uuid = w.uuid
      /\ Added(w, recs).buf = b
      /\ Added(w, recs).written = n
  BY <1>1, <1>2 DEF WalWriter
<1>4. QED
  BY <1>3 DEF b, n

LEMMA GrownEffect ==
    ASSUME NEW st, Good(st), NEW l \in Logs, Open(st, l), NEW recs \in SUBSET Nat, IsFiniteSet(recs)
    PROVE  Took(st, Grown(st, l, recs), recs)
<1> DEFINE v == Added(st.wal[l], recs)
<1> DEFINE r == Grown(st, l, recs)
<1> DEFINE c == Cardinality(recs)
<1>0. /\ st.segs \in SUBSET Segment
      /\ st.wal \in [Logs -> WalWriter]
      /\ st.made \in Nat
      /\ st.clock \in Nat
      /\ st.wal[l] \in WalWriter
      /\ c \in Nat
  BY FS_CardinalityType DEF Good, StateSet
<1>1. /\ r.segs = st.segs
      /\ r.wal = [st.wal EXCEPT ![l] = v]
      /\ r.made = st.made
      /\ r.clock = st.clock
      /\ r = [segs |-> r.segs, wal |-> r.wal, made |-> r.made, clock |-> r.clock]
  <2>1. r.wal = [st.wal EXCEPT ![l] = v]
    BY DEF Grown, Added
  <2>2. QED
    BY <2>1 DEF Grown
<1>2. /\ v \in WalWriter
      /\ v.id = st.wal[l].id
      /\ v.uuid = st.wal[l].uuid
      /\ v.buf = st.wal[l].buf \cup {recs}
      /\ v.written = st.wal[l].written + c
  <2> DEFINE w == st.wal[l]
  <2>1. w \in WalWriter /\ Cardinality(recs) \in Nat
    BY <1>0
  <2> HIDE DEF w
  <2>2. /\ Added(w, recs) \in WalWriter
        /\ Added(w, recs).id = w.id
        /\ Added(w, recs).uuid = w.uuid
        /\ Added(w, recs).buf = w.buf \cup {recs}
        /\ Added(w, recs).written = w.written + c
    BY <2>1, AddedWriter
  <2>3. QED
    BY <2>2 DEF w
<1> HIDE DEF v, r, c
<1>3. /\ r.wal \in [Logs -> WalWriter]
      /\ r.wal[l] = v
      /\ \A k \in Logs : k # l => r.wal[k] = st.wal[k]
  BY <1>0, <1>1, <1>2, PutWriter
<1>4. r \in StateSet
  BY <1>0, <1>1, <1>3 DEF StateSet
<1>5. Good(r)
  <2>1. \A k \in Logs : r.wal[k].id <= r.made
    BY <1>1, <1>2, <1>3 DEF Good
  <2>2. \A k \in Logs : r.wal[k].buf # {} => r.wal[k].uuid \in Uuids(r.segs)
    BY <1>1, <1>2, <1>3 DEF Good, Open
  <2>3. QED
    BY <1>1, <1>4, <2>1, <2>2 DEF Good
<1>6. Held(r) = Held(st) \cup recs
  <2>1. /\ Held(r) = Disk(r.segs) \cup (UNION r.wal["main"].buf) \cup (UNION r.wal["late"].buf)
        /\ Held(st) = Disk(st.segs) \cup (UNION st.wal["main"].buf) \cup (UNION st.wal["late"].buf)
    BY HeldIs
  <2>2. (UNION r.wal[l].buf) = (UNION st.wal[l].buf) \cup recs
    BY <1>2, <1>3
  <2>3. CASE l = "main"
    <3>1. r.wal["late"] = st.wal["late"]
      BY <1>3, <2>3 DEF Logs
    <3>2. QED
      BY <1>1, <2>1, <2>2, <2>3, <3>1
  <2>4. CASE l = "late"
    <3>1. r.wal["main"] = st.wal["main"]
      BY <1>3, <2>4 DEF Logs
    <3>2. QED
      BY <1>1, <2>1, <2>2, <2>4, <3>1
  <2>5. QED
    BY <2>3, <2>4 DEF Logs
<1>7. Written(r) = Written(st) + c
  <2>1. st.wal["main"].written \in Nat /\ st.wal["late"].written \in Nat
    BY <1>0 DEF WalWriter, Logs
  <2>2. CASE l = "main"
    BY <1>0, <1>2, <1>3, <2>1, <2>2 DEF Written, Logs
  <2>3. CASE l = "late"
    BY <1>0, <1>2, <1>3, <2>1, <2>3 DEF Written, Logs
  <2>4. QED
    BY <2>2, <2>3 DEF Logs
<1>8. \A k \in Logs : Open(st, k) => Open(r, k)
  BY <1>1, <1>2, <1>3 DEF Open
<1>9. QED
  BY <1>1, <1>5, <1>6, <1>7, <1>8 DEF Took, r, c

(* Rolling afterwards, or rolling before.                                  *)
LEMMA TookKept ==
    ASSUME NEW a, NEW b, NEW c, NEW recs, Took(a, b, recs), Kept(b, c)
    PROVE  Took(a, c, recs)
BY DEF Took, Kept

LEMMA KeptTook ==
    ASSUME NEW a, NEW b, NEW c, NEW recs, Kept(a, b), Took(b, c, recs)
    PROVE  Took(a, c, recs)
BY DEF Took, Kept

LEMMA AppendEffect ==
    ASSUME NEW st, Good(st), NEW l \in Logs, Open(st, l), NEW recs \in SUBSET Nat,
           IsFiniteSet(recs), NEW tick \in Nat
    PROVE  Took(st, AppendLog(st, l, recs, tick), recs)
<1>1. CASE recs = {}
  <2>1. Cardinality(recs) = 0
    BY <1>1, FS_EmptySet
  <2>2. Written(st) \in Nat
    BY DEF Good, StateSet, WalWriter, Written, Logs
  <2>3. AppendLog(st, l, recs, tick) = st
    BY <1>1 DEF AppendLog
  <2>4. QED
    BY <1>1, <2>1, <2>2, <2>3 DEF Took
<1>2. CASE recs # {}
  <2> DEFINE g == Grown(st, l, recs)
  <2>1. Took(st, g, recs)
    BY GrownEffect
  <2>2. AppendLog(st, l, recs, tick) \in {g, Roll(g, l, tick)}
    BY <1>2 DEF AppendLog
  <2> HIDE DEF g
  <2>3. Kept(g, Roll(g, l, tick))
    BY <2>1, RollEffect DEF Took
  <2>4. QED
    BY <2>1, <2>2, <2>3, TookKept
<1>3. QED
  BY <1>1, <1>2

LEMMA RollIfDueEffect ==
    ASSUME NEW st, Good(st), NEW due, NEW tick \in Nat
    PROVE  /\ Kept(st, RollIfDue(st, due, tick))
           /\ \A k \in Logs : st.wal[k].buf = {} => RollIfDue(st, due, tick).wal[k].buf = {}
<1>1. RollIfDue(st, due, tick) \in {st, Roll(st, "late", tick)}
  BY DEF RollIfDue
<1>2. QED
  BY <1>1, RollEffect, KeptRefl DEF Logs

LEMMA MaybeSyncEffect ==
    ASSUME NEW st, Good(st), NEW l \in Logs, NEW elapsed
    PROVE  /\ Kept(st, MaybeSyncLog(st, l, elapsed))
           /\ \A k \in Logs : st.wal[k].buf = {} => MaybeSyncLog(st, l, elapsed).wal[k].buf = {}
           /\ elapsed => MaybeSyncLog(st, l, elapsed).wal[l].buf = {}
<1>1. MaybeSyncLog(st, l, elapsed) = IF st.wal[l].buf # {} /\ elapsed THEN SyncLog(st, l) ELSE st
  BY DEF MaybeSyncLog
<1>2. CASE st.wal[l].buf # {} /\ elapsed
  BY <1>1, <1>2, SyncEffect
<1>3. CASE ~(st.wal[l].buf # {} /\ elapsed)
  BY <1>1, <1>3, KeptRefl
<1>4. QED
  BY <1>2, <1>3

LEMMA SyncBothEffect ==
    ASSUME NEW st, Good(st)
    PROVE  Kept(st, SyncBoth(st)) /\ Clean(SyncBoth(st))
<1> DEFINE a == MaybeSyncLog(st, "main", TRUE)
<1> DEFINE b == MaybeSyncLog(a, "late", TRUE)
<1>1. SyncBoth(st) = b
  BY DEF SyncBoth
<1>2. Kept(st, a) /\ a.wal["main"].buf = {}
  BY MaybeSyncEffect DEF Logs
<1> HIDE DEF a
<1>3. Good(a)
  BY <1>2 DEF Kept
<1>4. Kept(a, b) /\ b.wal["late"].buf = {} /\ b.wal["main"].buf = {}
  BY <1>2, <1>3, MaybeSyncEffect DEF Logs
<1> HIDE DEF b
<1>5. QED
  BY <1>1, <1>2, <1>4, KeptTrans DEF Clean, Logs

LEMMA ReportedEffect ==
    ASSUME NEW st, Good(st)
    PROVE  Kept(st, Reported(st)) /\ Reported(st).wal["main"].buf = st.wal["main"].buf
<1> DEFINE r == Reported(st)
<1>0. /\ st.segs \in SUBSET Segment
      /\ st.wal \in [Logs -> WalWriter]
      /\ st.made \in Nat
      /\ st.clock \in Nat
  BY DEF Good, StateSet
<1>1. /\ r.segs = st.segs
      /\ r.wal = [l \in Logs |-> [st.wal[l] EXCEPT !.reported = st.wal[l].synced]]
      /\ r.made = st.made
      /\ r.clock = st.clock
      /\ r = [segs |-> r.segs, wal |-> r.wal, made |-> r.made, clock |-> r.clock]
  BY DEF Reported
<1> HIDE DEF r
<1>2. ASSUME NEW l \in Logs
      PROVE  /\ r.wal[l] \in WalWriter
             /\ r.wal[l].id = st.wal[l].id
             /\ r.wal[l].uuid = st.wal[l].uuid
             /\ r.wal[l].buf = st.wal[l].buf
             /\ r.wal[l].written = st.wal[l].written
  <2> DEFINE w == st.wal[l]
  <2>1. w \in WalWriter
    BY <1>0
  <2>2. r.wal[l] = [w EXCEPT !.reported = w.synced]
    BY <1>1
  <2> HIDE DEF w
  <2>3. /\ [w EXCEPT !.reported = w.synced] \in WalWriter
        /\ [w EXCEPT !.reported = w.synced].id = w.id
        /\ [w EXCEPT !.reported = w.synced].uuid = w.uuid
        /\ [w EXCEPT !.reported = w.synced].buf = w.buf
        /\ [w EXCEPT !.reported = w.synced].written = w.written
    BY <2>1 DEF WalWriter
  <2>4. QED
    BY <2>2, <2>3 DEF w
<1>3. r \in StateSet
  <2>1. r.wal \in [Logs -> WalWriter]
    BY <1>1, <1>2
  <2>2. QED
    BY <1>0, <1>1, <2>1 DEF StateSet
<1>4. Good(r)
  BY <1>1, <1>2, <1>3 DEF Good
<1>5. Held(r) = Held(st)
  BY <1>1, <1>2, HeldIs DEF Logs
<1>6. QED
  BY <1>1, <1>2, <1>4, <1>5 DEF Kept, Written, Open, Logs, r

(* The id a reopened log continues with.                                   *)
LEMMA NextIdBound ==
    ASSUME segs \in SUBSET Segment, made \in Nat, \A s \in segs : s.id <= made, NEW l \in Logs
    PROVE  NextId(l) \in Nat \ {0} /\ NextId(l) <= made + 1
<1> DEFINE ids == {s.id : s \in {x \in segs : x.log = l}}
<1>1. ids \in SUBSET Nat /\ \A i \in ids : i <= made
  BY DEF Segment
<1>2. NextId(l) = IF ids = {} THEN 1 ELSE 1 + CHOOSE i \in ids : \A j \in ids : j <= i
  BY DEF NextId
<1> HIDE DEF ids
<1>3. CASE ids = {}
  BY <1>2, <1>3
<1>4. CASE ids # {}
  <2> DEFINE m == CHOOSE i \in ids : \A j \in ids : j <= i
  <2>1. \E i \in ids : \A j \in ids : j <= i
    BY <1>1, <1>4, MaxExists
  <2>2. m \in ids
    BY <2>1
  <2>3. NextId(l) = 1 + m
    BY <1>2, <1>4
  <2> HIDE DEF m
  <2>4. m \in Nat /\ m <= made
    BY <1>1, <2>2
  <2>5. QED
    BY <2>3, <2>4
<1>5. QED
  BY <1>3, <1>4

(* What is left of the files after a crash or a failed writer.             *)
LEMMA TornEffect ==
    ASSUME segs \in SUBSET Segment, wal \in [Logs -> WalWriter],
           NEW m \in Survivors("main"), NEW n \in Survivors("late")
    PROVE  LET ss == Torn([main |-> m, late |-> n])
           IN  /\ ss \in SUBSET Segment
               /\ Disk(segs) \subseteq Disk(ss)
               /\ Disk(ss) \subseteq Disk(segs) \cup BufOf(wal)
               /\ \A t \in ss : \E s \in segs : t.id = s.id
<1>1. /\ wal["main"] \in WalWriter /\ wal["late"] \in WalWriter
      /\ m \in SUBSET wal["main"].buf /\ n \in SUBSET wal["late"].buf
  BY DEF Survivors, Logs
<1>2. m \in SUBSET Frames /\ n \in SUBSET Frames
  BY <1>1 DEF WalWriter
<1> DEFINE a == Flush(segs, wal["main"], m)
<1> DEFINE b == Flush(a, wal["late"], n)
<1>3. /\ a \in SUBSET Segment
      /\ Disk(segs) \subseteq Disk(a)
      /\ Disk(a) \subseteq Disk(segs) \cup (UNION m)
      /\ \A t \in a : \E s \in segs : t.id = s.id
  BY <1>1, <1>2, FlushEffect
<1> HIDE DEF a
<1>4. /\ b \in SUBSET Segment
      /\ Disk(a) \subseteq Disk(b)
      /\ Disk(b) \subseteq Disk(a) \cup (UNION n)
      /\ \A t \in b : \E s \in a : t.id = s.id
  BY <1>1, <1>2, <1>3, FlushEffect
<1>5. Torn([main |-> m, late |-> n]) = b
  BY DEF Torn, a
<1> HIDE DEF b
<1>6. (UNION m) \subseteq BufOf(wal) /\ (UNION n) \subseteq BufOf(wal)
  BY <1>1 DEF BufOf
<1>7. QED
  BY <1>3, <1>4, <1>5, <1>6

-----------------------------------------------------------------------------
(* The inductive invariant.  The counts match the records taken: what the  *)
(* two logs wrote since the start, and the late part still in hand, add up *)
(* to total; and every record taken by this process is on disk, buffered   *)
(* or in hand.  At a publish nothing is buffered or in hand.               *)

Up == wpc \notin {"down", "failed", "done"}

Counts ==
    /\ base <= total
    /\ IsFiniteSet(late)
    /\ wpc # "late" => late = {}
    /\ Up => base + Written(State) + Cardinality(late) = total

(* Where the records are, X being those that have left the log for the     *)
(* store (none, in the log by itself).                                     *)
Placed(X) ==
    /\ acked \subseteq Disk(segs) \cup X
    /\ Up => base + 1 .. total \subseteq Held(State) \cup late \cup X

Opens ==
    /\ ~Up => wal = ClosedWriters
    /\ Up => Open(State, "main")
    /\ Up /\ wpc # "openLate" => Open(State, "late")
    /\ wpc \in {"openLate", "publish", "lastPublish"} => Clean(State)

Inv(X) == TypeOK /\ Good(State) /\ Counts /\ Placed(X) /\ Opens

(* The records the system holds.                                           *)
Stored == Held(State) \cup late

LEMMA BecomeIs ==
    ASSUME NEW r, Good(r), Become(r)
    PROVE  /\ State' = r
           /\ segs' = r.segs
           /\ wal' = r.wal
           /\ segs' \in SUBSET Segment
           /\ wal' \in [Logs -> WalWriter]
           /\ made' \in Nat
           /\ clock' \in Nat
BY DEF Become, State, StateSet, Good

LEMMA StateFields ==
    /\ State.segs = segs
    /\ State.wal = wal
    /\ State.made = made
    /\ State.clock = clock
BY DEF State

LEMMA WrittenNat ==
    ASSUME NEW st, Good(st)
    PROVE  Written(st) \in Nat
BY DEF Good, StateSet, WalWriter, Written, Logs

LEMMA ClosedOnes ==
    ASSUME NEW st, st.wal = ClosedWriters
    PROVE  Clean(st) /\ Written(st) = 0 /\ BufOf(st.wal) = {}
BY DEF ClosedWriters, ClosedWriter, Clean, Written, BufOf, Logs

LEMMA CleanHeld ==
    ASSUME NEW st, Clean(st)
    PROVE  Held(st) = Disk(st.segs)
BY DEF Clean, Held, BufOf, Logs

LEMMA OpenMainStep ==
    ASSUME NEW X, Inv(X), OpenMain
    PROVE  Inv(X)' /\ Stored' = Stored /\ Disk(segs) \subseteq Disk(segs')
<1>1. PICK t \in Ticks : Become(CreateSegment(State, "main", NextId("main"), t))
  BY DEF OpenMain
<1>2. t \in Nat
  BY TicksNat
<1>3. /\ wpc = "down" /\ ~Up /\ wal = ClosedWriters /\ late = {}
      /\ TypeOK /\ Good(State) /\ total \in Nat
  BY DEF OpenMain, Inv, Up, Opens, Counts, TypeOK
<1>4. Clean(State) /\ Written(State) = 0
  BY <1>3, ClosedOnes, StateFields
<1>5. NextId("main") \in Nat \ {0} /\ NextId("main") <= State.made + 1
  BY <1>3, StateFields, NextIdBound DEF Good, TypeOK, Logs
<1> DEFINE i == NextId("main")
<1> DEFINE r == CreateSegment(State, "main", i, t)
<1> HIDE DEF i
<1>6. /\ Kept(State, r)
      /\ Open(r, "main")
      /\ \A k \in Logs : r.wal[k].buf = State.wal[k].buf
  BY <1>2, <1>3, <1>4, <1>5, CreateEffect DEF Clean, Logs, i
<1> HIDE DEF r
<1>7. /\ State' = r
      /\ segs' = r.segs
      /\ segs' \in SUBSET Segment
      /\ wal' \in [Logs -> WalWriter]
      /\ made' \in Nat
      /\ clock' \in Nat
  BY <1>1, <1>6, BecomeIs DEF Kept, r, i
<1>8. /\ wpc' = "openLate" /\ late' = {} /\ total' = total /\ base' = total /\ acked' = acked
      /\ starts' = starts + 1 /\ published' = 0 /\ active' = [l \in Logs |-> 0] /\ stopping' = FALSE
  BY <1>3 DEF OpenMain
<1>9. TypeOK'
  <2>1. stopping' \in BOOLEAN /\ wpc' \in WriterSteps
    BY <1>8 DEF WriterSteps
  <2>2. /\ late' \in SUBSET Nat
        /\ total' \in Nat /\ base' \in Nat /\ published' \in Nat /\ starts' \in Nat
        /\ active' \in [Logs -> Nat]
        /\ acked' \in SUBSET Nat
    BY <1>3, <1>8 DEF TypeOK
  <2>3. QED
    BY <1>7, <2>1, <2>2 DEF TypeOK
<1>10. Counts'
  <2>1. Cardinality(late') = 0 /\ IsFiniteSet(late')
    BY <1>8, FS_EmptySet
  <2>2. Written(State') = 0
    BY <1>4, <1>6, <1>7 DEF Kept
  <2>3. QED
    BY <1>3, <1>8, <2>1, <2>2 DEF Counts
<1>11. Placed(X)'
  <2>1. base' + 1 .. total' = {}
    BY <1>3, <1>8
  <2>2. acked \subseteq Disk(segs) \cup X /\ Disk(segs) \subseteq Disk(segs')
    BY <1>6, <1>7, StateFields DEF Kept, Inv, Placed
  <2>3. QED
    BY <1>8, <2>1, <2>2 DEF Placed
<1>12. Opens'
  <2>1. Clean(r)
    BY <1>4, <1>6 DEF Clean
  <2>2. QED
    BY <1>6, <1>7, <1>8, <2>1 DEF Opens, Up
<1>13. Good(State)'
  BY <1>6, <1>7 DEF Kept
<1>14. Stored' = Stored
  BY <1>3, <1>6, <1>7, <1>8 DEF Kept, Stored
<1>15. QED
  <2>1. Disk(segs) \subseteq Disk(segs')
    BY <1>6, <1>7, StateFields DEF Kept
  <2>2. QED
    BY <1>9, <1>10, <1>11, <1>12, <1>13, <1>14, <2>1 DEF Inv

(* A step of the writer that takes nothing from the queue.                 *)
LEMMA KeptStep ==
    ASSUME NEW X, Inv(X), Up, NEW r, Kept(State, r), Become(r),
           UNCHANGED <<stopping, late, total, base, published, active, starts, acked>>,
           wpc # "late", wpc' \in {"activeLate", "publish", "lastPublish"},
           Open(r, "late"), wpc' # "activeLate" => Clean(r)
    PROVE  Inv(X)' /\ Stored' = Stored /\ Disk(segs) \subseteq Disk(segs')
<1>1. /\ State' = r
      /\ segs' = r.segs
      /\ segs' \in SUBSET Segment
      /\ wal' \in [Logs -> WalWriter]
      /\ made' \in Nat
      /\ clock' \in Nat
  BY BecomeIs DEF Kept
<1>2. late' = late /\ total' = total /\ base' = base /\ acked' = acked /\ Up'
  BY DEF Up
<1>3. TypeOK'
  <2>1. wpc' \in WriterSteps
    BY DEF WriterSteps
  <2>2. stopping' \in BOOLEAN
    BY DEF Inv, TypeOK
  <2>3. QED
    BY <1>1, <2>1, <2>2 DEF Inv, TypeOK
<1>4. Good(State)'
  BY <1>1 DEF Kept
<1>5. Counts'
  <2>1. Written(State') = Written(State)
    BY <1>1 DEF Kept
  <2>2. QED
    BY <1>2, <2>1 DEF Inv, Counts
<1>6. Placed(X)'
  <2>1. acked \subseteq Disk(segs) \cup X /\ Disk(segs) \subseteq Disk(segs')
    BY <1>1, StateFields DEF Kept, Inv, Placed
  <2>2. Held(State') = Held(State)
    BY <1>1 DEF Kept
  <2>3. QED
    BY <1>2, <2>1, <2>2 DEF Inv, Placed
<1>7. Opens'
  <2>1. Open(State, "main")
    BY DEF Inv, Opens
  <2>2. Open(r, "main")
    BY <2>1 DEF Kept, Logs
  <2>3. QED
    BY <1>1, <1>2, <2>2 DEF Opens
<1>8. Stored' = Stored
  BY <1>1, <1>2 DEF Kept, Stored
<1>9. Disk(segs) \subseteq Disk(segs')
  BY <1>1, StateFields DEF Kept
<1>10. QED
  BY <1>3, <1>4, <1>5, <1>6, <1>7, <1>8, <1>9 DEF Inv

LEMMA OpenLateStep ==
    ASSUME NEW X, Inv(X), OpenLate
    PROVE  Inv(X)' /\ Stored' = Stored /\ Disk(segs) \subseteq Disk(segs')
<1>1. PICK t \in Ticks : Become(CreateSegment(State, "late", NextId("late"), t))
  BY DEF OpenLate
<1>2. t \in Nat
  BY TicksNat
<1>3. wpc = "openLate" /\ Up /\ Clean(State) /\ Good(State) /\ TypeOK
  BY DEF OpenLate, Inv, Up, Opens
<1> DEFINE i == NextId("late")
<1>4. i \in Nat \ {0} /\ i <= State.made + 1
  BY <1>3, StateFields, NextIdBound DEF Good, TypeOK, Logs
<1> DEFINE r == CreateSegment(State, "late", i, t)
<1>5. Become(r)
  BY <1>1
<1> HIDE DEF i
<1>6. Kept(State, r) /\ Open(r, "late")
  BY <1>2, <1>3, <1>4, CreateEffect DEF Clean, Logs
<1> HIDE DEF r
<1>7. QED
  BY <1>3, <1>5, <1>6, KeptStep DEF OpenLate

LEMMA MaybeSyncStep ==
    ASSUME NEW X, Inv(X), NEW due \in BOOLEAN, NEW em \in BOOLEAN, NEW el \in BOOLEAN, MaybeSync(due, em, el)
    PROVE  Inv(X)' /\ Stored' = Stored /\ Disk(segs) \subseteq Disk(segs')
<1> DEFINE a(t) == RollIfDue(State, due, t)
<1> DEFINE b(t) == MaybeSyncLog(a(t), "main", em)
<1> DEFINE c(t) == MaybeSyncLog(b(t), "late", el)
<1> DEFINE d(t) == Reported(c(t))
<1>1. PICK t \in Ticks :
         /\ Become(IF Advanced(c(t)) THEN SyncBoth(d(t)) ELSE d(t))
         /\ wpc' = IF Advanced(c(t)) THEN "publish" ELSE "activeLate"
  BY DEF MaybeSync
<1>2. t \in Nat
  BY TicksNat
<1>3. wpc = "sync" /\ Up /\ Good(State) /\ Open(State, "late")
  BY DEF MaybeSync, Inv, Up, Opens
<1>4. Kept(State, a(t))
  BY <1>2, <1>3, RollIfDueEffect
<1> HIDE DEF a
<1>5. Kept(a(t), b(t))
  BY <1>4, MaybeSyncEffect DEF Kept, Logs
<1> HIDE DEF b
<1>6. Kept(b(t), c(t))
  BY <1>5, MaybeSyncEffect DEF Kept, Logs
<1> HIDE DEF c
<1>7. Kept(c(t), d(t))
  BY <1>6, ReportedEffect DEF Kept
<1> HIDE DEF d
<1>8. Kept(State, d(t))
  BY <1>4, <1>5, <1>6, <1>7, KeptTrans
<1>9. Kept(State, SyncBoth(d(t))) /\ Clean(SyncBoth(d(t)))
  <2>1. Good(d(t))
    BY <1>8 DEF Kept
  <2>2. QED
    BY <1>8, <2>1, SyncBothEffect, KeptTrans
<1>10. UNCHANGED <<stopping, late, total, base, published, active, starts, acked>>
  BY DEF MaybeSync
<1>11. CASE Advanced(c(t))
  <2>1. Become(SyncBoth(d(t))) /\ wpc' = "publish"
    BY <1>1, <1>11
  <2>2. Open(SyncBoth(d(t)), "late")
    BY <1>3, <1>9 DEF Kept, Logs
  <2>3. QED
    BY <1>3, <1>9, <1>10, <2>1, <2>2, KeptStep
<1>12. CASE ~Advanced(c(t))
  <2>1. Become(d(t)) /\ wpc' = "activeLate"
    BY <1>1, <1>12
  <2>2. Open(d(t), "late")
    BY <1>3, <1>8 DEF Kept, Logs
  <2>3. QED
    BY <1>3, <1>8, <1>10, <2>1, <2>2, KeptStep
<1>13. QED
  BY <1>11, <1>12

LEMMA LastSyncStep ==
    ASSUME NEW X, Inv(X), LastSync
    PROVE  Inv(X)' /\ Stored' = Stored /\ Disk(segs) \subseteq Disk(segs')
<1>1. wpc = "lastSync" /\ Up /\ Good(State) /\ Open(State, "late")
  BY DEF LastSync, Inv, Up, Opens
<1>2. Kept(State, SyncBoth(State)) /\ Clean(SyncBoth(State))
  BY <1>1, SyncBothEffect
<1>3. Open(SyncBoth(State), "late")
  BY <1>1, <1>2 DEF Kept, Logs
<1>4. /\ Become(SyncBoth(State)) /\ wpc' = "lastPublish"
      /\ UNCHANGED <<stopping, late, total, base, published, active, starts, acked>>
  BY DEF LastSync
<1>5. QED
  BY <1>1, <1>2, <1>3, <1>4, KeptStep

(* The part of a batch that is not late, and the late part, add up.        *)
LEMMA BatchSplit ==
    ASSUME NEW k \in Nat, NEW n \in Nat, NEW L, L \subseteq k + 1 .. k + n
    PROVE  /\ IsFiniteSet(L) /\ L \in SUBSET Nat
           /\ IsFiniteSet((k + 1 .. k + n) \ L) /\ (k + 1 .. k + n) \ L \in SUBSET Nat
           /\ Cardinality(L) \in Nat /\ Cardinality((k + 1 .. k + n) \ L) \in Nat
           /\ Cardinality((k + 1 .. k + n) \ L) + Cardinality(L) = n
<1> DEFINE B == k + 1 .. k + n
<1>1. IsFiniteSet(B) /\ Cardinality(B) = n /\ B \in SUBSET Nat
  <2>1. k + 1 \in Int /\ k + n \in Int
    OBVIOUS
  <2>2. IsFiniteSet(B) /\ Cardinality(B) = IF k + 1 > k + n THEN 0 ELSE (k + n) - (k + 1) + 1
    BY <2>1, FS_Interval
  <2>3. QED
    BY <2>2
<1> HIDE DEF B
<1>2. L \subseteq B
  BY DEF B
<1>3. IsFiniteSet(L) /\ Cardinality(L) \in Nat
  BY <1>1, <1>2, FS_Subset, FS_CardinalityType
<1>4. IsFiniteSet(B \ L) /\ Cardinality(B \ L) \in Nat
  BY <1>1, FS_Difference, FS_CardinalityType
<1>5. Cardinality(B \ L) = Cardinality(B) - Cardinality(B \cap L)
  BY <1>1, <1>3, FS_Difference
<1>6. B \cap L = L
  BY <1>2
<1>7. Cardinality(B \ L) + Cardinality(L) = n
  <2> DEFINE x == Cardinality(B \ L)
  <2> DEFINE y == Cardinality(L)
  <2>1. x \in Nat /\ y \in Nat /\ x = n - y
    BY <1>1, <1>3, <1>4, <1>5, <1>6
  <2> HIDE DEF x, y
  <2>2. x + y = n
    BY <2>1
  <2>3. QED
    BY <2>2 DEF x, y
<1>8. QED
  BY <1>1, <1>2, <1>3, <1>4, <1>7 DEF B

LEMMA AppendMainStep ==
    ASSUME NEW X, Inv(X), NEW n \in Nat, NEW L, NEW next \in {"sync", "lastSync"}, wpc \in {"idle", "drain"},
           AppendMain(n, L, next), stopping' \in BOOLEAN
    PROVE  /\ Inv(X)'
           /\ Stored' = Stored \cup (total + 1 .. total + n)
           /\ total + n <= MaxRecords
           /\ Disk(segs) \subseteq Disk(segs')
<1> DEFINE N == total + 1 .. total + n
<1> DEFINE M == N \ L
<1>1. PICK t \in Ticks : Become(AppendLog(State, "main", M, t))
  BY DEF AppendMain
<1>2. /\ L \subseteq N
      /\ late' = L
      /\ total' = total + n
      /\ base' = base /\ published' = published /\ active' = active /\ starts' = starts /\ acked' = acked
      /\ wpc' = IF L # {} THEN "late" ELSE next
      /\ total + n <= MaxRecords
  BY DEF AppendMain
<1>3. /\ t \in Nat /\ total \in Nat /\ base \in Nat /\ base <= total
      /\ Up /\ Up' /\ late = {} /\ Good(State) /\ Open(State, "main") /\ Open(State, "late")
      /\ wpc' \in WriterSteps
      /\ wpc' \notin {"openLate", "publish", "lastPublish"}
      /\ wpc' # "late" => L = {}
  BY <1>2, TicksNat DEF Inv, Up, Opens, Counts, TypeOK, WriterSteps
<1>4. /\ IsFiniteSet(L) /\ L \in SUBSET Nat
      /\ IsFiniteSet(M) /\ M \in SUBSET Nat
      /\ Cardinality(L) \in Nat /\ Cardinality(M) \in Nat
      /\ Cardinality(M) + Cardinality(L) = n
  BY <1>2, <1>3, BatchSplit
<1> DEFINE r == AppendLog(State, "main", M, t)
<1>5. Took(State, r, M)
  BY <1>3, <1>4, AppendEffect DEF Logs
<1> HIDE DEF r
<1>6. /\ State' = r
      /\ segs' = r.segs
      /\ segs' \in SUBSET Segment
      /\ wal' \in [Logs -> WalWriter]
      /\ made' \in Nat
      /\ clock' \in Nat
  BY <1>1, <1>5, BecomeIs DEF Took, r
<1>7. M \cup L = N
  BY <1>2
<1> HIDE DEF M, N
<1>8. TypeOK'
  <2>1. total' \in Nat
    BY <1>2, <1>3
  <2>2. QED
    BY <1>2, <1>3, <1>4, <1>6, <2>1 DEF TypeOK, Inv
<1>9. Good(State)'
  BY <1>5, <1>6 DEF Took
<1>10. Counts'
  <2>1. Written(State) \in Nat /\ base + Written(State) + 0 = total
    BY <1>3, WrittenNat, FS_EmptySet DEF Inv, Counts
  <2>2. Written(State') = Written(State) + Cardinality(M)
    BY <1>5, <1>6 DEF Took
  <2>3. base + Written(State') + Cardinality(L) = total + n
    BY <1>3, <1>4, <2>1, <2>2
  <2>4. base <= total + n
    BY <1>3
  <2>5. QED
    BY <1>2, <1>3, <1>4, <2>3, <2>4 DEF Counts
<1>11. Placed(X)'
  <2>1. acked \subseteq Disk(segs) \cup X /\ Disk(segs) \subseteq Disk(segs')
    BY <1>5, <1>6, StateFields DEF Took, Inv, Placed
  <2>2. Held(State') = Held(State) \cup M
    BY <1>5, <1>6 DEF Took
  <2>3. base + 1 .. total + n \subseteq (base + 1 .. total) \cup N
    BY <1>3 DEF N
  <2>4. base + 1 .. total \subseteq Held(State) \cup X
    BY <1>3 DEF Inv, Placed
  <2>5. base + 1 .. total + n \subseteq Held(State') \cup L \cup X
    BY <1>7, <2>2, <2>3, <2>4
  <2>6. QED
    BY <1>2, <2>1, <2>5 DEF Placed
<1>12. Opens'
  <2>1. Open(r, "main") /\ Open(r, "late")
    BY <1>3, <1>5 DEF Took, Logs
  <2>2. QED
    BY <1>3, <1>6, <2>1 DEF Opens
<1>13. Stored' = Stored \cup N
  <2>1. Held(State') = Held(State) \cup M
    BY <1>5, <1>6 DEF Took
  <2>2. QED
    BY <1>2, <1>3, <1>7, <2>1 DEF Stored
<1>14. Disk(segs) \subseteq Disk(segs')
  BY <1>5, <1>6, StateFields DEF Took
<1>15. QED
  BY <1>2, <1>8, <1>9, <1>10, <1>11, <1>12, <1>13, <1>14 DEF Inv, N

LEMMA AppendLateStep ==
    ASSUME NEW X, Inv(X), AppendLate
    PROVE  Inv(X)' /\ Stored' = Stored /\ Disk(segs) \subseteq Disk(segs')
<1>1. PICK due \in BOOLEAN, t1 \in Ticks, t2 \in Ticks :
         Become(AppendLog(RollIfDue(State, due, t1), "late", late, t2))
  BY DEF AppendLate
<1>2. /\ wpc = "late" /\ late' = {}
      /\ wpc' \in {"lastSync", "sync"}
      /\ stopping' = stopping /\ total' = total /\ base' = base /\ published' = published
      /\ active' = active /\ starts' = starts /\ acked' = acked
  BY DEF AppendLate
<1>3. /\ t1 \in Nat /\ t2 \in Nat /\ Up /\ Up' /\ Good(State) /\ Open(State, "main") /\ Open(State, "late")
      /\ IsFiniteSet(late) /\ late \in SUBSET Nat
      /\ wpc' \in WriterSteps
      /\ wpc' \notin {"openLate", "publish", "lastPublish", "late"}
  BY <1>2, TicksNat DEF Inv, Up, Opens, Counts, TypeOK, WriterSteps
<1> DEFINE a == RollIfDue(State, due, t1)
<1>4. Kept(State, a)
  BY <1>3, RollIfDueEffect
<1> DEFINE r == AppendLog(a, "late", late, t2)
<1>5. Become(r)
  BY <1>1
<1> HIDE DEF a
<1>6. Good(a) /\ Open(a, "late")
  BY <1>3, <1>4 DEF Kept, Logs
<1>7. Took(a, r, late)
  BY <1>3, <1>6, AppendEffect DEF Logs
<1> HIDE DEF r
<1>8. Took(State, r, late)
  BY <1>4, <1>7, KeptTook
<1>9. /\ State' = r
      /\ segs' = r.segs
      /\ segs' \in SUBSET Segment
      /\ wal' \in [Logs -> WalWriter]
      /\ made' \in Nat
      /\ clock' \in Nat
  BY <1>5, <1>8, BecomeIs DEF Took
<1>10. /\ Good(State)'
       /\ Held(State') = Held(State) \cup late
       /\ Written(State') = Written(State) + Cardinality(late)
       /\ Open(State', "main") /\ Open(State', "late")
       /\ Disk(segs) \subseteq Disk(segs')
  BY <1>3, <1>8, <1>9, StateFields DEF Took, Logs
<1>11. TypeOK'
  <2>1. stopping' \in BOOLEAN
    BY <1>2 DEF Inv, TypeOK
  <2>2. QED
    BY <1>2, <1>3, <1>9, <2>1 DEF TypeOK, Inv
<1>12. Counts'
  <2>1. Cardinality(late') = 0 /\ IsFiniteSet(late') /\ Cardinality(late) \in Nat /\ Written(State) \in Nat
    BY <1>2, <1>3, FS_EmptySet, FS_CardinalityType, WrittenNat
  <2>2. base + Written(State) + Cardinality(late) = total /\ base <= total /\ base \in Nat
    BY <1>3 DEF Inv, Counts, TypeOK
  <2>3. base + Written(State') + Cardinality(late') = total
    BY <1>10, <2>1, <2>2
  <2>4. QED
    BY <1>2, <2>1, <2>2, <2>3 DEF Counts
<1>13. Placed(X)'
  BY <1>2, <1>3, <1>10 DEF Placed, Inv
<1>14. Opens'
  BY <1>3, <1>10 DEF Opens
<1>15. Stored' = Stored
  BY <1>2, <1>10 DEF Stored
<1>16. QED
  BY <1>10, <1>11, <1>12, <1>13, <1>14, <1>15 DEF Inv

LEMMA ClosedType == ClosedWriters \in [Logs -> WalWriter]
BY DEF ClosedWriters, ClosedWriter, WalWriter, Frames

(* Closing both logs when nothing is buffered.                             *)
LEMMA ClosedGood ==
    ASSUME NEW st, NEW ss \in SUBSET Segment, NEW m \in Nat, NEW c \in Nat,
           \A s \in ss : s.id <= m,
           st = [segs |-> ss, wal |-> ClosedWriters, made |-> m, clock |-> c]
    PROVE  Good(st) /\ Held(st) = Disk(ss)
<1>1. st.segs = ss /\ st.wal = ClosedWriters /\ st.made = m /\ st \in StateSet
  BY ClosedType DEF StateSet
<1>2. \A l \in Logs : ClosedWriters[l].id = 0 /\ ClosedWriters[l].buf = {}
  BY DEF ClosedWriters, ClosedWriter
<1>3. Good(st)
  BY <1>1, <1>2 DEF Good
<1>4. Clean(st)
  BY <1>1, ClosedOnes
<1>5. QED
  BY <1>1, <1>3, <1>4, CleanHeld

LEMMA PublishStep ==
    ASSUME NEW X, Inv(X), Publish
    PROVE  /\ Inv(X)'
           /\ Stored' = Stored
           /\ \E S \in SUBSET (Stored \cup X) : acked' = acked \cup S
           /\ segs' = segs
<1> DEFINE S == base + 1 .. base + RecordsWritten
<1>1. /\ wpc \in {"publish", "lastPublish"} /\ acked' = acked \cup S /\ published' = RecordsWritten
      /\ segs' = segs /\ made' = made /\ clock' = clock /\ stopping' = stopping /\ late' = late
      /\ total' = total /\ base' = base /\ active' = active /\ starts' = starts
      /\ wpc' = IF wpc = "publish" THEN "activeLate" ELSE "done"
      /\ wal' = IF wpc = "publish" THEN wal ELSE ClosedWriters
  BY DEF Publish
<1>2. RecordsWritten = Written(State) /\ Written(State) \in Nat
  BY StateFields, WrittenNat DEF RecordsWritten, Written, Inv
<1>3. Up /\ Good(State) /\ Clean(State) /\ late = {} /\ base \in Nat /\ total \in Nat
  BY <1>1 DEF Inv, Up, Opens, Counts, TypeOK
<1>4. base + RecordsWritten = total
  BY <1>2, <1>3, FS_EmptySet DEF Inv, Counts
<1>5. Held(State) = Disk(segs)
  BY <1>3, CleanHeld, StateFields
<1>6. S \subseteq Disk(segs) \cup X
  BY <1>3, <1>4, <1>5 DEF Inv, Placed
<1>7. S \in SUBSET (Stored \cup X)
  BY <1>5, <1>6 DEF Stored
<1>8. acked' \subseteq Disk(segs') \cup X
  BY <1>1, <1>6 DEF Inv, Placed
<1>9. S \in SUBSET Nat
  BY <1>2, <1>3
<1> HIDE DEF S
<1>10. TypeOK'
  <2>1. stopping' \in BOOLEAN
    BY <1>1 DEF Inv, TypeOK
  <2>2. wal' \in [Logs -> WalWriter]
    BY <1>1, ClosedType DEF Inv, TypeOK
  <2>3. wpc' \in WriterSteps
    BY <1>1 DEF WriterSteps
  <2>4. acked' \in SUBSET Nat /\ published' \in Nat
    BY <1>1, <1>2, <1>9 DEF Inv, TypeOK
  <2>5. QED
    BY <1>1, <2>1, <2>2, <2>3, <2>4 DEF TypeOK, Inv
<1>11. CASE wpc = "publish"
  <2>1. State' = State
    BY <1>1, <1>11 DEF State
  <2>2. wpc' = "activeLate" /\ Up'
    BY <1>1, <1>11 DEF Up
  <2>3. Counts'
    BY <1>1, <1>3, <2>1, <2>2 DEF Counts, Inv
  <2>4. Placed(X)'
    BY <1>1, <1>3, <1>8, <2>1, <2>2 DEF Placed, Inv
  <2>5. Opens'
    BY <1>3, <1>11, <2>1, <2>2 DEF Opens, Inv
  <2>6. Stored' = Stored
    BY <1>1, <2>1 DEF Stored
  <2>7. QED
    BY <1>1, <1>3, <1>7, <1>10, <2>1, <2>3, <2>4, <2>5, <2>6 DEF Inv
<1>12. CASE wpc = "lastPublish"
  <2>1. State' = [segs |-> segs, wal |-> ClosedWriters, made |-> made, clock |-> clock]
    BY <1>1, <1>12 DEF State
  <2>2. Good(State') /\ Held(State') = Disk(segs)
    <3>1. segs \in SUBSET Segment /\ made \in Nat /\ clock \in Nat /\ \A s \in segs : s.id <= made
      BY <1>3, StateFields DEF Inv, TypeOK, Good
    <3>2. QED
      BY <2>1, <3>1, ClosedGood
  <2>3. wpc' = "done" /\ ~Up' /\ wal' = ClosedWriters
    BY <1>1, <1>12 DEF Up
  <2>4. Counts'
    BY <1>1, <1>3, <2>3 DEF Counts, Inv
  <2>5. Placed(X)'
    BY <1>8, <2>3 DEF Placed
  <2>6. Opens'
    BY <2>3 DEF Opens
  <2>7. Stored' = Stored
    BY <1>1, <1>5, <2>2 DEF Stored
  <2>8. QED
    BY <1>1, <1>7, <1>10, <2>2, <2>4, <2>5, <2>6, <2>7 DEF Inv
<1>13. QED
  BY <1>1, <1>11, <1>12

LEMMA PublishActiveStep ==
    ASSUME NEW X, Inv(X), NEW l \in Logs, PublishActive(l)
    PROVE  Inv(X)' /\ Stored' = Stored /\ acked' = acked /\ segs' = segs /\ Up /\ Up'
<1>1. /\ wpc \in {"activeLate", "activeMain"} /\ active' = [active EXCEPT ![l] = wal[l].id]
      /\ wpc' \in {"activeMain", "drain", "idle"}
      /\ segs' = segs /\ wal' = wal /\ made' = made /\ clock' = clock /\ stopping' = stopping /\ late' = late
      /\ total' = total /\ base' = base /\ published' = published /\ starts' = starts /\ acked' = acked
  BY DEF PublishActive
<1>2. State' = State
  BY <1>1 DEF State
<1>3. TypeOK'
  <2>1. stopping' \in BOOLEAN
    BY <1>1 DEF Inv, TypeOK
  <2>2. wpc' \in WriterSteps
    BY <1>1 DEF WriterSteps
  <2>3. active' \in [Logs -> Nat]
    BY <1>1 DEF Inv, TypeOK, WalWriter
  <2>4. QED
    BY <1>1, <2>1, <2>2, <2>3 DEF TypeOK, Inv
<1>4. Up /\ Up'
  BY <1>1 DEF Up
<1>5. Counts' /\ Placed(X)'
  BY <1>1, <1>2, <1>4 DEF Counts, Placed, Inv
<1>6. Opens'
  BY <1>1, <1>2, <1>4 DEF Opens, Inv
<1>7. QED
  BY <1>1, <1>2, <1>3, <1>4, <1>5, <1>6 DEF Inv, Stored

(* A crash or a failed writer keeps what is on disk, and brings nothing.   *)
LEMMA LossStep ==
    ASSUME NEW X, Inv(X),
           segs' \in SUBSET Segment, made' \in Nat, \A s \in segs' : s.id <= made',
           Disk(segs) \subseteq Disk(segs'), Disk(segs') \subseteq Disk(segs) \cup BufOf(wal),
           wal' = ClosedWriters, late' = {}, wpc' \in {"failed", "down"},
           UNCHANGED <<clock, total, base, acked>>,
           stopping' \in BOOLEAN, published' \in Nat, active' \in [Logs -> Nat], starts' \in Nat
    PROVE  /\ Inv(X)'
           /\ Stored' \subseteq Stored
           /\ acked' \subseteq Stored' \cup X
           /\ Disk(segs) \subseteq Disk(segs')
           /\ ~Up => Stored' = Stored
<1>1. State' = [segs |-> segs', wal |-> ClosedWriters, made |-> made', clock |-> clock]
  BY DEF State
<1>2. Good(State') /\ Held(State') = Disk(segs')
  <2>1. clock \in Nat
    BY DEF Inv, TypeOK
  <2>2. QED
    BY <1>1, <2>1, ClosedGood
<1>3. TypeOK'
  <2>1. wpc' \in WriterSteps
    BY DEF WriterSteps
  <2>2. QED
    BY <2>1, ClosedType DEF Inv, TypeOK
<1>4. ~Up' /\ wpc' \notin {"openLate", "publish", "lastPublish", "late"}
  BY DEF Up
<1>5. Counts'
  BY <1>4, FS_EmptySet DEF Counts, Inv
<1>6. acked' \subseteq Disk(segs') \cup X
  BY DEF Inv, Placed
<1>7. Placed(X)'
  BY <1>4, <1>6 DEF Placed
<1>8. Opens'
  BY <1>4 DEF Opens
<1>9. Stored' = Disk(segs')
  BY <1>2 DEF Stored
<1>10. Stored = Disk(segs) \cup BufOf(wal) \cup late
  BY StateFields DEF Stored, Held
<1>11. ASSUME ~Up PROVE BufOf(wal) = {} /\ late = {}
  <2>1. wal = ClosedWriters /\ late = {}
    BY <1>11 DEF Inv, Opens, Counts, Up
  <2>2. QED
    BY <2>1, ClosedOnes, StateFields
<1>12. QED
  BY <1>2, <1>3, <1>5, <1>6, <1>7, <1>8, <1>9, <1>10, <1>11 DEF Inv

LEMMA WriterErrorStep ==
    ASSUME NEW X, Inv(X), WriterError
    PROVE  /\ Inv(X)'
           /\ Stored' \subseteq Stored
           /\ acked' \subseteq Stored' \cup X
           /\ Disk(segs) \subseteq Disk(segs')
<1>1. PICK m \in Survivors("main"), n \in Survivors("late") : segs' = Torn([main |-> m, late |-> n])
  BY DEF WriterError
<1>2. segs \in SUBSET Segment /\ wal \in [Logs -> WalWriter] /\ made \in Nat /\ \A s \in segs : s.id <= made
  BY StateFields DEF Inv, TypeOK, Good
<1>3. /\ segs' \in SUBSET Segment
      /\ Disk(segs) \subseteq Disk(segs')
      /\ Disk(segs') \subseteq Disk(segs) \cup BufOf(wal)
      /\ \A t \in segs' : \E s \in segs : t.id = s.id
  BY <1>1, <1>2, TornEffect
<1>4. made' = made /\ \A s \in segs' : s.id <= made'
  BY <1>2, <1>3 DEF WriterError
<1>5. /\ wal' = ClosedWriters /\ late' = {} /\ wpc' = "failed"
      /\ UNCHANGED <<clock, total, base, acked, stopping, published, active, starts>>
  BY DEF WriterError
<1>6. stopping' \in BOOLEAN /\ published' \in Nat /\ active' \in [Logs -> Nat] /\ starts' \in Nat
  BY <1>5 DEF Inv, TypeOK
<1>7. QED
  BY <1>2, <1>3, <1>4, <1>5, <1>6, LossStep

LEMMA CrashStep ==
    ASSUME NEW X, Inv(X), Crash
    PROVE  /\ Inv(X)'
           /\ Stored' \subseteq Stored
           /\ acked' \subseteq Stored' \cup X
           /\ Disk(segs) \subseteq Disk(segs')
           /\ ~Up => Stored' = Stored
<1>1. PICK m \in Survivors("main"), n \in Survivors("late") : CrashLeaving([main |-> m, late |-> n], {})
  BY DEF Crash
<1>2. segs \in SUBSET Segment /\ wal \in [Logs -> WalWriter] /\ made \in Nat /\ \A s \in segs : s.id <= made
  BY StateFields DEF Inv, TypeOK, Good
<1>3. segs' = Torn([main |-> m, late |-> n]) /\ made' = made
  BY <1>1, <1>2, FS_EmptySet DEF CrashLeaving
<1>4. /\ segs' \in SUBSET Segment
      /\ Disk(segs) \subseteq Disk(segs')
      /\ Disk(segs') \subseteq Disk(segs) \cup BufOf(wal)
      /\ \A t \in segs' : \E s \in segs : t.id = s.id
  BY <1>2, <1>3, TornEffect
<1>5. \A s \in segs' : s.id <= made'
  BY <1>2, <1>3, <1>4
<1>6. /\ wal' = ClosedWriters /\ late' = {} /\ wpc' = "down" /\ stopping' = FALSE /\ published' = 0
      /\ active' = [l \in Logs |-> 0]
      /\ UNCHANGED <<clock, total, base, acked>>
  BY <1>1 DEF CrashLeaving
<1>7. stopping' \in BOOLEAN /\ published' \in Nat /\ active' \in [Logs -> Nat] /\ starts' \in Nat
  BY <1>6 DEF Inv, TypeOK, Crash
<1>8. QED
  BY <1>2, <1>3, <1>4, <1>5, <1>6, <1>7, LossStep

LEMMA CrashInCreateStep ==
    ASSUME NEW X, Inv(X), NEW l \in Logs, CrashInCreate(l)
    PROVE  /\ Inv(X)'
           /\ Stored' \subseteq Stored
           /\ acked' \subseteq Stored' \cup X
           /\ Disk(segs) \subseteq Disk(segs')
           /\ ~Up => Stored' = Stored
<1> DEFINE i == NextId(l)
<1> DEFINE u == made + 1
<1> DEFINE x == [log |-> l, id |-> i, uuid |-> u, ms |-> clock, hdr |-> FALSE, recs |-> {}]
<1>1. PICK m \in Survivors("main"), n \in Survivors("late") : CrashLeaving([main |-> m, late |-> n], {x})
  BY DEF CrashInCreate
<1>2. /\ segs \in SUBSET Segment /\ wal \in [Logs -> WalWriter] /\ made \in Nat /\ clock \in Nat
      /\ \A s \in segs : s.id <= made
  BY StateFields DEF Inv, TypeOK, Good
<1>3. i \in Nat \ {0} /\ i <= made + 1
  BY <1>2, NextIdBound
<1>4. u \in Nat /\ i <= u /\ made <= u
  BY <1>2, <1>3
<1>5. segs' = Torn([main |-> m, late |-> n]) \cup {x} /\ made' = u
  BY <1>1, <1>2, FS_Singleton DEF CrashLeaving
<1> HIDE DEF i, u
<1>6. x \in Segment /\ x.id = i /\ x.recs = {}
  BY <1>2, <1>3, <1>4 DEF Segment
<1> HIDE DEF x
<1> DEFINE y == Torn([main |-> m, late |-> n])
<1>7. /\ y \in SUBSET Segment
      /\ Disk(segs) \subseteq Disk(y)
      /\ Disk(y) \subseteq Disk(segs) \cup BufOf(wal)
      /\ \A t \in y : \E s \in segs : t.id = s.id
  BY <1>2, TornEffect
<1>8. segs' = y \cup {x}
  BY <1>5
<1> HIDE DEF y
<1>9. segs' \in SUBSET Segment /\ Disk(segs') = Disk(y)
  BY <1>6, <1>7, <1>8 DEF Disk
<1>10. \A s \in segs' : s.id <= made'
  <2>1. \A t \in y : t.id \in Nat /\ t.id <= u
    <3>1. \A s \in segs : s.id \in Nat /\ s.id <= u
      BY <1>2, <1>4 DEF Segment
    <3>2. QED
      BY <1>7, <3>1
  <2>2. QED
    BY <1>4, <1>5, <1>6, <1>8, <2>1
<1>11. /\ wal' = ClosedWriters /\ late' = {} /\ wpc' = "down" /\ stopping' = FALSE /\ published' = 0
       /\ active' = [k \in Logs |-> 0]
       /\ UNCHANGED <<clock, total, base, acked>>
  BY <1>1 DEF CrashLeaving
<1>12. stopping' \in BOOLEAN /\ published' \in Nat /\ active' \in [Logs -> Nat] /\ starts' \in Nat
  <2>1. starts' \in {starts, starts + 1} /\ starts \in Nat
    BY DEF Inv, TypeOK, CrashInCreate
  <2>2. starts' \in Nat
    BY <2>1
  <2>3. published' \in Nat /\ active' \in [Logs -> Nat]
    BY <1>11
  <2>4. QED
    BY <1>11, <2>2, <2>3
<1>13. QED
  BY <1>4, <1>5, <1>7, <1>9, <1>10, <1>11, <1>12, LossStep

-----------------------------------------------------------------------------
(* The theorems.                                                           *)

LEMMA InitInv ==
    ASSUME NEW X, Init
    PROVE  Inv(X)
<1>1. State = [segs |-> {}, wal |-> ClosedWriters, made |-> 0, clock |-> 0]
  BY DEF State, Init
<1>2. Good(State)
  BY <1>1, ClosedGood
<1>3. TypeOK
  <2>1. stopping \in BOOLEAN /\ wpc \in WriterSteps
    BY DEF Init, WriterSteps
  <2>2. QED
    BY <2>1, ClosedType DEF Init, TypeOK
<1>4. ~Up /\ late = {} /\ wpc = "down"
  BY DEF Up, Init
<1>5. Counts /\ Placed(X) /\ Opens
  BY <1>4, FS_EmptySet DEF Counts, Placed, Opens, Init
<1>6. QED
  BY <1>2, <1>3, <1>5 DEF Inv

(* What a step of the log is, seen from DurableLog: it stutters, starts,   *)
(* takes records over, acknowledges held ones, or fails and loses some.    *)
Healthy == wpc \notin {"down", "failed"}

AbstractStep(X) ==
    /\ Disk(segs) \subseteq Disk(segs')
    /\ \/ Stored' = Stored /\ acked' = acked /\ (Healthy' <=> Healthy)
       \/ Stored' = Stored /\ acked' = acked /\ ~Healthy /\ Healthy'
       \/ Healthy /\ Healthy' /\ acked' = acked /\ \E S \in SUBSET Records : Stored' = Stored \cup S
       \/ Healthy /\ Healthy' /\ Stored' = Stored /\ \E S \in SUBSET (Stored \cup X) : acked' = acked \cup S
       \/ Healthy /\ ~Healthy' /\ acked' = acked /\ Stored' \subseteq Stored /\ acked \subseteq Stored' \cup X

LEMMA StepInv ==
    ASSUME NEW X, Inv(X), [Next]_walVars
    PROVE  Inv(X)' /\ AbstractStep(X)
<1>1. ASSUME OpenMain PROVE Inv(X)' /\ AbstractStep(X)
  <2>1. ~Healthy /\ Healthy' /\ acked' = acked
    BY <1>1 DEF OpenMain, Healthy
  <2>2. QED
    BY <1>1, <2>1, OpenMainStep DEF AbstractStep
<1>2. ASSUME OpenLate PROVE Inv(X)' /\ AbstractStep(X)
  <2>1. Healthy /\ Healthy' /\ acked' = acked
    BY <1>2 DEF OpenLate, Healthy
  <2>2. QED
    BY <1>2, <2>1, OpenLateStep DEF AbstractStep
<1>3. ASSUME NEW n \in 0 .. BatchMax, NEW L \in SUBSET Records,
             (\E stop \in BOOLEAN : Pass(n, L, stop)) \/ Drain(n, L)
      PROVE  Inv(X)' /\ AbstractStep(X)
  <2>1. n \in Nat
    BY SplitWalAssumption
  <2>2. \E next \in {"sync", "lastSync"} : AppendMain(n, L, next) /\ wpc \in {"idle", "drain"}
    BY <1>3 DEF Pass, Drain
  <2>3. stopping' \in BOOLEAN
    BY <1>3 DEF Pass, Drain, Inv, TypeOK
  <2>4. /\ Inv(X)'
        /\ Stored' = Stored \cup (total + 1 .. total + n)
        /\ total + n <= MaxRecords
        /\ Disk(segs) \subseteq Disk(segs')
    BY <2>1, <2>2, <2>3, AppendMainStep
  <2>5. total + 1 .. total + n \in SUBSET Records
    BY <2>1, <2>4, SplitWalAssumption DEF Records, Inv, TypeOK
  <2>6. Healthy /\ Healthy' /\ acked' = acked
    BY <2>2 DEF AppendMain, Healthy
  <2>7. QED
    BY <2>4, <2>5, <2>6 DEF AbstractStep
<1>4. ASSUME AppendLate PROVE Inv(X)' /\ AbstractStep(X)
  <2>1. Healthy /\ Healthy' /\ acked' = acked
    BY <1>4 DEF AppendLate, Healthy
  <2>2. QED
    BY <1>4, <2>1, AppendLateStep DEF AbstractStep
<1>5. ASSUME NEW due \in BOOLEAN, NEW em \in BOOLEAN, NEW el \in BOOLEAN, MaybeSync(due, em, el)
      PROVE  Inv(X)' /\ AbstractStep(X)
  <2>1. Healthy /\ Healthy' /\ acked' = acked
    BY <1>5 DEF MaybeSync, Healthy
  <2>2. QED
    BY <1>5, <2>1, MaybeSyncStep DEF AbstractStep
<1>6. ASSUME LastSync PROVE Inv(X)' /\ AbstractStep(X)
  <2>1. Healthy /\ Healthy' /\ acked' = acked
    BY <1>6 DEF LastSync, Healthy
  <2>2. QED
    BY <1>6, <2>1, LastSyncStep DEF AbstractStep
<1>7. ASSUME Publish PROVE Inv(X)' /\ AbstractStep(X)
  <2>1. Healthy /\ Healthy'
    BY <1>7 DEF Publish, Healthy
  <2>2. QED
    BY <1>7, <2>1, PublishStep DEF AbstractStep
<1>8. ASSUME NEW l \in Logs, PublishActive(l) PROVE Inv(X)' /\ AbstractStep(X)
  <2>1. Healthy /\ Healthy'
    BY <1>8 DEF PublishActive, Healthy
  <2>2. QED
    BY <1>8, <2>1, PublishActiveStep DEF AbstractStep
<1>9. ASSUME WriterError PROVE Inv(X)' /\ AbstractStep(X)
  <2>1. Healthy /\ ~Healthy' /\ acked' = acked
    BY <1>9 DEF WriterError, Healthy
  <2>2. QED
    BY <1>9, <2>1, WriterErrorStep DEF AbstractStep
<1>10. ASSUME Crash \/ \E l \in Logs : CrashInCreate(l) PROVE Inv(X)' /\ AbstractStep(X)
  <2>1. /\ Inv(X)'
        /\ Stored' \subseteq Stored
        /\ acked' \subseteq Stored' \cup X
        /\ Disk(segs) \subseteq Disk(segs')
        /\ ~Up => Stored' = Stored
    BY <1>10, CrashStep, CrashInCreateStep
  <2>2. ~Healthy' /\ acked' = acked
    BY <1>10 DEF Crash, CrashInCreate, CrashLeaving, Healthy
  <2>3. ~Healthy => ~Up
    BY DEF Healthy, Up
  <2>4. QED
    BY <2>1, <2>2, <2>3 DEF AbstractStep
<1>11. ASSUME UNCHANGED walVars PROVE Inv(X)' /\ AbstractStep(X)
  <2>1. State' = State
    BY <1>11 DEF State, walVars
  <2>2. Inv(X)'
    BY <1>11, <2>1 DEF Inv, TypeOK, Counts, Placed, Opens, Up, walVars
  <2>3. QED
    BY <1>11, <2>1, <2>2 DEF AbstractStep, Stored, Healthy, walVars
<1>12. QED
  BY <1>1, <1>2, <1>3, <1>4, <1>5, <1>6, <1>7, <1>8, <1>9, <1>10, <1>11 DEF Next, WriterNext

(* Inv is an invariant of the log.                                         *)
LEMMA InvAlways == Spec => []Inv({})
<1>1. Init => Inv({})
  BY InitInv
<1>2. Inv({}) /\ [Next]_walVars => Inv({})'
  BY StepInv
<1>3. QED
  BY <1>1, <1>2, PTL DEF Spec

(* The type invariant: among others, segment ids start at 1 (0 means no    *)
(* active segment) through every roll, crash and reopening of wal.rs.      *)
THEOREM WalTypeCorrect == Spec => []TypeOK
<1>1. Inv({}) => TypeOK
  BY DEF Inv
<1>2. QED
  BY <1>1, InvAlways, PTL

(* Every record covered by a published synced-record count is in a segment *)
(* on disk, for any number of records, segments, crashes and restarts: the *)
(* count SplitWal::maybe_sync and SplitWal::sync return is only published  *)
(* when both logs have nothing unsynced.                                   *)
THEOREM WalAckedDurable == Spec => []AckedDurable
<1>1. Inv({}) => AckedDurable
  BY DEF Inv, Placed, AckedDurable, OnDisk, Disk
<1>2. QED
  BY <1>1, InvAlways, PTL

(* The two-log write-ahead log implements DurableLog: while the process is *)
(* healthy no record leaves the log, and a crash or a write error never    *)
(* loses an acknowledged one.                                              *)
THEOREM WalImplementsDurableLog == Spec => ImplementsDurableLog
<1>1. OnDisk \cup Buffered \cup late = Stored
  BY StateFields DEF OnDisk, Buffered, Stored, Held, Disk, BufOf
<1>2. Init => Durable!DInit
  BY DEF Init, Durable!DInit, OnDisk, Buffered, ClosedWriters, ClosedWriter, Logs
<1>3. Inv({}) /\ [Next]_walVars => [Durable!DNext]_(Durable!dvars)
  <2> SUFFICES ASSUME Inv({}), [Next]_walVars
               PROVE  [Durable!DNext]_(Durable!dvars)
    OBVIOUS
  <2>1. AbstractStep({})
    BY StepInv
  <2>2. (OnDisk \cup Buffered \cup late)' = Stored'
    BY StateFields DEF OnDisk, Buffered, Stored, Held, Disk, BufOf, State
  <2>3. QED
    BY <1>1, <2>1, <2>2 DEF AbstractStep, Healthy, Durable!DNext, Durable!dvars, Durable!Start,
          Durable!Accept, Durable!Acknowledge, Durable!Fail
<1>4. QED
  BY <1>2, <1>3, InvAlways, PTL DEF Spec, ImplementsDurableLog, Durable!DSpec

(* The invariant the runs check of the writer, from its two parts: its     *)
(* state is well-typed, and no count that run_wal_writer publishes covers  *)
(* a record that is not on disk.                                           *)
THEOREM WalInvariant == Spec => []WalInv
<1>1. TypeOK /\ AckedDurable => WalInv
  BY DEF WalInv
<1>2. QED
  BY <1>1, WalTypeCorrect, WalAckedDurable, PTL

-----------------------------------------------------------------------------
(* What the writer publishes to other threads: the number of synced        *)
(* records, which the acknowledgements rely on, and the ids of the active  *)
(* segments, below which merge and upload read files. The methods of       *)
(* WalWriter are followed segment by segment.                              *)

(* Every segment was created under a uuid of its own, and the one a writer *)
(* has open carries the writer's log and id.                               *)
Owned(st) ==
    /\ \A s \in st.segs : s.uuid # 0 /\ s.uuid <= st.made
    /\ \A l \in Logs : st.wal[l].uuid <= st.made
    /\ \A s \in st.segs, l \in Logs : s.uuid = st.wal[l].uuid => s.log = l /\ s.id = st.wal[l].id

(* A writer reports no more than it has synced and syncs no more than it   *)
(* has written; with nothing buffered all of it is synced.                 *)
Accounted(w) ==
    /\ w.reported <= w.synced
    /\ w.synced <= w.written
    /\ w.buf = {} => w.synced = w.written
    /\ {} \notin w.buf

(* What holds between the methods of WalWriter.                            *)
Tidy(st) == Good(st) /\ Owned(st) /\ \A l \in Logs : Accounted(st.wal[l])

(* r comes from st by a method that leaves the closed segments alone.      *)
Tends(st, r) ==
    /\ Tidy(r)
    /\ \A l \in Logs : st.wal[l].id <= r.wal[l].id
    /\ \A s \in st.segs : s.id < st.wal[s.log].id => s \in r.segs

(* and reports nothing.                                                    *)
Carries(st, r) ==
    \A l \in Logs : r.wal[l].reported = st.wal[l].reported /\ st.wal[l].synced <= r.wal[l].synced

(* The parts of a state in order have their types.                         *)
LEMMA StateTypes ==
    ASSUME NEW st, Good(st)
    PROVE  /\ st.segs \in SUBSET Segment
           /\ st.wal \in [Logs -> WalWriter]
           /\ st.made \in Nat
           /\ \A l \in Logs : /\ st.wal[l] \in WalWriter /\ st.wal[l].id \in Nat /\ st.wal[l].uuid \in Nat
                              /\ st.wal[l].written \in Nat /\ st.wal[l].synced \in Nat /\ st.wal[l].reported \in Nat
                              /\ st.wal[l].buf \in SUBSET Frames
           /\ \A s \in st.segs : s \in Segment /\ s.log \in Logs /\ s.id \in Nat /\ s.uuid \in Nat
<1>1. st.segs \in SUBSET Segment /\ st.wal \in [Logs -> WalWriter] /\ st.made \in Nat
  BY DEF Good, StateSet
<1>2. \A l \in Logs : st.wal[l] \in WalWriter
  BY <1>1
<1>3. \A w \in WalWriter : w.id \in Nat /\ w.uuid \in Nat /\ w.written \in Nat /\ w.synced \in Nat
                           /\ w.reported \in Nat /\ w.buf \in SUBSET Frames
  BY DEF WalWriter
<1>4. \A s \in Segment : s.log \in Logs /\ s.id \in Nat /\ s.uuid \in Nat
  BY DEF Segment
<1>5. QED
  BY <1>1, <1>2, <1>3, <1>4

(* Methods called one after the other leave the closed segments alone.     *)
LEMMA TendsTrans ==
    ASSUME NEW a, NEW b, NEW c, Good(a), Good(b), Tends(a, b), Tends(b, c)
    PROVE  Tends(a, c)
<1>1. \A l \in Logs : a.wal[l].id \in Nat /\ b.wal[l].id \in Nat /\ c.wal[l].id \in Nat
  BY StateTypes DEF Tends, Tidy
<1>2. \A l \in Logs : a.wal[l].id <= c.wal[l].id
  BY <1>1 DEF Tends
<1>3. ASSUME NEW s \in a.segs, s.id < a.wal[s.log].id PROVE s \in c.segs
  <2>1. s.log \in Logs /\ s.id \in Nat /\ s \in b.segs
    BY <1>3, StateTypes DEF Tends
  <2>2. s.id < b.wal[s.log].id
    BY <1>1, <1>3, <2>1 DEF Tends
  <2>3. QED
    BY <2>1, <2>2 DEF Tends
<1>4. QED
  BY <1>2, <1>3 DEF Tends

(* So does calling none.                                                   *)
LEMMA TendsRefl ==
    ASSUME NEW a, Tidy(a)
    PROVE  Tends(a, a) /\ Carries(a, a)
BY StateTypes DEF Tends, Tidy, Carries

(* Counts carried through two calls.                                       *)
LEMMA CarriesTrans ==
    ASSUME NEW a, NEW b, NEW c, Good(a), Good(b), Good(c), Carries(a, b), Carries(b, c)
    PROVE  Carries(a, c)
<1>1. \A l \in Logs : a.wal[l].synced \in Nat /\ b.wal[l].synced \in Nat /\ c.wal[l].synced \in Nat
  BY StateTypes
<1>2. QED
  BY <1>1 DEF Carries

(* A flush changes the files of the writer's UUID, and those by their      *)
(* records only.                                                           *)
LEMMA FlushKeeps ==
    ASSUME NEW ss \in SUBSET Segment, NEW w, NEW fs \in SUBSET Frames
    PROVE  /\ \A t \in Flush(ss, w, fs) : \E s \in ss : t.log = s.log /\ t.id = s.id /\ t.uuid = s.uuid
           /\ \A s \in ss : s.uuid # w.uuid \/ fs = {} => s \in Flush(ss, w, fs)
<1> DEFINE G(s) == IF s.uuid = w.uuid THEN [s EXCEPT !.recs = @ \cup UNION fs] ELSE s
<1>0. Flush(ss, w, fs) = {G(s) : s \in ss}
  BY DEF Flush
<1>1. \A s \in ss : G(s).log = s.log /\ G(s).id = s.id /\ G(s).uuid = s.uuid
  BY DEF Segment
<1>2. \A s \in ss : s.uuid # w.uuid => G(s) = s
  OBVIOUS
<1>3. ASSUME fs = {} PROVE \A s \in ss : G(s) = s
  <2>1. UNION fs = {}
    BY <1>3
  <2>2. \A s \in ss : [s EXCEPT !.recs = s.recs \cup UNION fs] = s
    BY <2>1 DEF Segment
  <2>3. QED
    BY <2>2
<1> HIDE DEF G
<1>4. QED
  BY <1>0, <1>1, <1>2, <1>3

(* A writer on a fresh segment owes nothing.                               *)
LEMMA OpenedAccounts ==
    ASSUME NEW w \in WalWriter, NEW i \in Nat, NEW u \in Nat
    PROVE  /\ Accounted(w) => Accounted(Opened(w, i, u))
           /\ Opened(w, i, u).reported = w.reported
           /\ Opened(w, i, u).synced = w.synced
BY DEF WalWriter, Opened, Accounted

(* Nor does one that has just synced.                                      *)
LEMMA SyncedAccounts ==
    ASSUME NEW w \in WalWriter, Accounted(w)
    PROVE  /\ Accounted(Synced(w))
           /\ Synced(w).reported = w.reported
           /\ Synced(w).synced = w.written
BY DEF WalWriter, Synced, Accounted

(* WalWriter::create opens a new segment and leaves the others alone.      *)
LEMMA CreateTends ==
    ASSUME NEW st, Tidy(st), NEW l \in Logs, NEW id \in Nat \ {0}, id <= st.made + 1, st.wal[l].id <= id,
           NEW tick \in Nat, st.wal[l].buf = {}
    PROVE  Tends(st, CreateSegment(st, l, id, tick)) /\ Carries(st, CreateSegment(st, l, id, tick))
<1> DEFINE u == st.made + 1
<1> DEFINE s == [log |-> l, id |-> id, uuid |-> u, ms |-> st.clock + tick, hdr |-> TRUE, recs |-> {}]
<1> DEFINE v == Opened(st.wal[l], id, u)
<1> DEFINE r == CreateSegment(st, l, id, tick)
<1>0. /\ st.segs \in SUBSET Segment
      /\ st.wal \in [Logs -> WalWriter]
      /\ st.made \in Nat
      /\ \A k \in Logs : /\ st.wal[k] \in WalWriter /\ st.wal[k].id \in Nat /\ st.wal[k].uuid \in Nat
                         /\ st.wal[k].synced \in Nat
      /\ \A x \in st.segs : x.uuid \in Nat
  BY StateTypes DEF Tidy
<1>1. Good(r)
  BY CreateEffect DEF Tidy, Kept
<1>2. r.segs = st.segs \cup {s} /\ r.wal = [st.wal EXCEPT ![l] = v] /\ r.made = u
  BY DEF CreateSegment, Opened
<1>3. s.log = l /\ s.id = id /\ s.uuid = u
  OBVIOUS
<1>4. u \in Nat /\ u = st.made + 1
  BY <1>0
<1> HIDE DEF u, r
<1> HIDE DEF s
<1>5. v \in WalWriter /\ v.id = id /\ v.uuid = u /\ Accounted(v) /\ v.reported = st.wal[l].reported
      /\ v.synced = st.wal[l].synced
  <2>1. st.wal[l] \in WalWriter /\ Accounted(st.wal[l]) /\ id \in Nat
    BY <1>0 DEF Tidy
  <2> DEFINE w == st.wal[l]
  <2>2. v = Opened(w, id, u)
    OBVIOUS
  <2> HIDE DEF w, v
  <2>3. w \in WalWriter /\ Accounted(w) /\ id \in Nat /\ u \in Nat
    BY <1>4, <2>1 DEF w
  <2>4. v \in WalWriter /\ v.id = id /\ v.uuid = u
    <3>1. /\ Opened(w, id, u) \in WalWriter
          /\ Opened(w, id, u).id = id
          /\ Opened(w, id, u).uuid = u
      BY ONLY <2>3, OpenedWriter
    <3>2. QED
      BY <2>2, <3>1
  <2>5. Accounted(v) /\ v.reported = w.reported /\ v.synced = w.synced
    BY <2>2, <2>3, OpenedAccounts
  <2>6. QED
    BY <2>4, <2>5 DEF w
<1> HIDE DEF v
<1>6. r.wal[l] = v /\ \A k \in Logs : k # l => r.wal[k] = st.wal[k]
  BY <1>0, <1>2, <1>5, PutWriter
<1>7. Owned(r)
  <2>1. \A x \in r.segs : x.uuid # 0 /\ x.uuid <= r.made
    BY <1>0, <1>2, <1>3, <1>4 DEF Tidy, Owned
  <2>2. \A k \in Logs : r.wal[k].uuid <= r.made
    BY <1>0, <1>2, <1>4, <1>5, <1>6 DEF Tidy, Owned
  <2>3. ASSUME NEW x \in r.segs, NEW k \in Logs, x.uuid = r.wal[k].uuid
        PROVE  x.log = k /\ x.id = r.wal[k].id
    <3>1. CASE x = s
      <4>1. k = l
        BY <2>3, <3>1, <1>0, <1>3, <1>4, <1>6 DEF Tidy, Owned
      <4>2. QED
        BY <4>1, <3>1, <1>3, <1>5, <1>6
    <3>2. CASE x \in st.segs
      <4>1. x.uuid <= st.made /\ x.uuid \in Nat
        BY <3>2, <1>0 DEF Tidy, Owned
      <4>2. k # l
        BY <4>1, <2>3, <1>0, <1>4, <1>5, <1>6
      <4>3. QED
        BY <4>2, <3>2, <2>3, <1>6 DEF Tidy, Owned
    <3>3. QED
      BY <3>1, <3>2, <1>2
  <2>4. QED
    BY <2>1, <2>2, <2>3 DEF Owned
<1>8. Tidy(r)
  BY <1>1, <1>5, <1>6, <1>7 DEF Tidy
<1>9. Tends(st, r)
  BY <1>0, <1>2, <1>5, <1>6, <1>8 DEF Tends
<1>10. Carries(st, r)
  BY <1>0, <1>5, <1>6 DEF Carries
<1>11. QED
  BY <1>9, <1>10 DEF r

(* WalWriter::sync writes to its own segment only.                         *)
LEMMA SyncTends ==
    ASSUME NEW st, Tidy(st), NEW l \in Logs
    PROVE  Tends(st, SyncLog(st, l)) /\ Carries(st, SyncLog(st, l))
<1> DEFINE v == Synced(st.wal[l])
<1> DEFINE r == SyncLog(st, l)
<1>0. /\ st.segs \in SUBSET Segment
      /\ st.wal \in [Logs -> WalWriter]
      /\ st.made \in Nat
      /\ \A k \in Logs : /\ st.wal[k] \in WalWriter /\ st.wal[k].id \in Nat /\ st.wal[k].buf \in SUBSET Frames
                         /\ st.wal[k].synced \in Nat
      /\ \A s \in st.segs : s.log \in Logs /\ s.id \in Nat
  BY StateTypes DEF Tidy
<1>1. Good(r)
  BY SyncEffect DEF Tidy, Kept
<1>2. r.segs = Flush(st.segs, st.wal[l], st.wal[l].buf) /\ r.wal = [st.wal EXCEPT ![l] = v] /\ r.made = st.made
  BY DEF SyncLog, Synced
<1> HIDE DEF r
<1>3. v \in WalWriter /\ v.id = st.wal[l].id /\ v.uuid = st.wal[l].uuid /\ Accounted(v)
      /\ v.reported = st.wal[l].reported /\ st.wal[l].synced <= v.synced
  BY <1>0, SyncedWriter, SyncedAccounts DEF Tidy, Accounted
<1> HIDE DEF v
<1>4. r.wal[l] = v /\ \A k \in Logs : k # l => r.wal[k] = st.wal[k]
  BY <1>0, <1>2, <1>3, PutWriter
<1>5. \A k \in Logs : r.wal[k].id = st.wal[k].id /\ r.wal[k].uuid = st.wal[k].uuid /\ Accounted(r.wal[k])
                      /\ r.wal[k].reported = st.wal[k].reported /\ st.wal[k].synced <= r.wal[k].synced
  BY <1>0, <1>3, <1>4 DEF Tidy
<1>6. /\ \A t \in r.segs : \E s \in st.segs : t.log = s.log /\ t.id = s.id /\ t.uuid = s.uuid
      /\ \A s \in st.segs : s.uuid # st.wal[l].uuid => s \in r.segs
  BY <1>0, <1>2, FlushKeeps
<1>7. Owned(r)
  BY <1>2, <1>5, <1>6 DEF Tidy, Owned
<1>8. Tidy(r)
  BY <1>1, <1>5, <1>7 DEF Tidy
<1>9. ASSUME NEW s \in st.segs, s.id < st.wal[s.log].id PROVE s \in r.segs
  <2>1. s.uuid # st.wal[l].uuid
    BY <1>9, <1>0 DEF Tidy, Owned
  <2>2. QED
    BY <2>1, <1>6
<1>10. Tends(st, r)
  BY <1>0, <1>5, <1>8, <1>9 DEF Tends
<1>11. QED
  BY <1>5, <1>10 DEF Carries, r

(* roll is sync and create.                                                *)
LEMMA RollTends ==
    ASSUME NEW st, Tidy(st), NEW l \in Logs, NEW tick \in Nat
    PROVE  Tends(st, Roll(st, l, tick)) /\ Carries(st, Roll(st, l, tick))
<1> DEFINE y == SyncLog(st, l)
<1>1. /\ Tends(st, y) /\ Carries(st, y) /\ Tidy(y) /\ Good(y) /\ Good(st)
      /\ y.wal[l].buf = {}
      /\ y.wal[l].id = st.wal[l].id
      /\ y.made = st.made
  BY SyncTends, SyncEffect DEF Tidy, Tends
<1> DEFINE i == st.wal[l].id + 1
<1>3. i \in Nat \ {0} /\ i <= y.made + 1 /\ y.wal[l].id <= i
  <2>1. st.wal[l].id \in Nat /\ st.wal[l].id <= st.made /\ st.made \in Nat
    BY StateTypes DEF Good, Tidy
  <2>2. QED
    BY <1>1, <2>1
<1> DEFINE r == CreateSegment(y, l, i, tick)
<1>4. Roll(st, l, tick) = r
  BY DEF Roll
<1> HIDE DEF y, i
<1>5. Tends(y, r) /\ Carries(y, r) /\ Good(r)
  BY <1>1, <1>3, CreateTends DEF Tends, Tidy
<1> HIDE DEF r
<1>6. QED
  BY <1>1, <1>4, <1>5, TendsTrans, CarriesTrans

(* A frame added is written and not yet synced.                            *)
LEMMA AddedAccounts ==
    ASSUME NEW w \in WalWriter, Accounted(w), NEW recs \in SUBSET Nat, recs # {}, Cardinality(recs) \in Nat
    PROVE  /\ Accounted(Added(w, recs))
           /\ Added(w, recs).reported = w.reported
           /\ Added(w, recs).synced = w.synced
<1> DEFINE b == w.buf \cup {recs}
<1> DEFINE m == w.len + Cardinality(recs)
<1> DEFINE n == w.written + Cardinality(recs)
<1>1. w.written \in Nat /\ w.synced \in Nat /\ w.reported \in Nat
  BY DEF WalWriter
<1>2. b # {} /\ {} \notin b
  BY DEF Accounted
<1>6. n \in Nat /\ w.written <= n
  BY <1>1
<1>3. Added(w, recs) = [w EXCEPT !.buf = b, !.len = m, !.written = n]
  BY DEF Added
<1> HIDE DEF b, m, n
<1>4. /\ Added(w, recs).buf = b /\ Added(w, recs).written = n
      /\ Added(w, recs).reported = w.reported /\ Added(w, recs).synced = w.synced
  BY <1>3 DEF WalWriter
<1>5. QED
  BY <1>1, <1>2, <1>4, <1>6 DEF Accounted

(* So is the state with it.                                                *)
LEMMA GrownTends ==
    ASSUME NEW st, Tidy(st), NEW l \in Logs, Open(st, l), NEW recs \in SUBSET Nat, IsFiniteSet(recs), recs # {}
    PROVE  Tends(st, Grown(st, l, recs)) /\ Carries(st, Grown(st, l, recs))
<1> DEFINE v == Added(st.wal[l], recs)
<1> DEFINE r == Grown(st, l, recs)
<1>0. /\ st.wal \in [Logs -> WalWriter]
      /\ \A k \in Logs : st.wal[k] \in WalWriter /\ st.wal[k].id \in Nat /\ st.wal[k].synced \in Nat
      /\ Cardinality(recs) \in Nat
  BY StateTypes, FS_CardinalityType DEF Tidy
<1>1. Good(r)
  BY GrownEffect DEF Took, Tidy
<1>2. r.segs = st.segs /\ r.wal = [st.wal EXCEPT ![l] = v] /\ r.made = st.made
  BY DEF Grown, Added
<1> HIDE DEF r
<1>3. v \in WalWriter /\ v.id = st.wal[l].id /\ v.uuid = st.wal[l].uuid
  BY <1>0, AddedWriter
<1>4. Accounted(v) /\ v.reported = st.wal[l].reported /\ v.synced = st.wal[l].synced
  BY <1>0, AddedAccounts DEF Tidy
<1> HIDE DEF v
<1>5. r.wal[l] = v /\ \A k \in Logs : k # l => r.wal[k] = st.wal[k]
  BY <1>0, <1>2, <1>3, PutWriter
<1>6. \A k \in Logs : r.wal[k].id = st.wal[k].id /\ r.wal[k].uuid = st.wal[k].uuid /\ Accounted(r.wal[k])
                      /\ r.wal[k].reported = st.wal[k].reported /\ r.wal[k].synced = st.wal[k].synced
  BY <1>3, <1>4, <1>5 DEF Tidy
<1>7. Owned(r)
  BY <1>2, <1>6 DEF Tidy, Owned
<1>8. QED
  BY <1>0, <1>1, <1>2, <1>6, <1>7 DEF Tends, Tidy, Carries, r

(* append is a roll when the segment is full, then the frame.              *)
LEMMA AppendTends ==
    ASSUME NEW st, Tidy(st), NEW l \in Logs, Open(st, l), NEW recs \in SUBSET Nat,
           IsFiniteSet(recs), NEW tick \in Nat
    PROVE  Tends(st, AppendLog(st, l, recs, tick)) /\ Carries(st, AppendLog(st, l, recs, tick))
<1>1. CASE recs = {}
  BY <1>1, TendsRefl DEF AppendLog
<1>2. CASE recs # {}
  <2> DEFINE g == Grown(st, l, recs)
  <2> DEFINE r == Roll(g, l, tick)
  <2>1. Tends(st, g) /\ Carries(st, g) /\ Good(st)
    BY <1>2, GrownTends DEF Tidy
  <2>2. AppendLog(st, l, recs, tick) \in {g, r}
    BY <1>2 DEF AppendLog
  <2> HIDE DEF g
  <2>3. Tends(g, r) /\ Carries(g, r) /\ Good(g)
    BY <2>1, RollTends DEF Tends, Tidy
  <2> HIDE DEF r
  <2>4. Good(r)
    BY <2>3 DEF Tends, Tidy
  <2>5. QED
    BY <2>1, <2>2, <2>3, <2>4, TendsTrans, CarriesTrans
<1>3. QED
  BY <1>1, <1>2

(* roll_if_due rolls or does nothing.                                      *)
LEMMA RollIfDueTends ==
    ASSUME NEW st, Tidy(st), NEW due, NEW tick \in Nat
    PROVE  Tends(st, RollIfDue(st, due, tick)) /\ Carries(st, RollIfDue(st, due, tick))
<1>1. RollIfDue(st, due, tick) \in {st, Roll(st, "late", tick)}
  BY DEF RollIfDue
<1>2. QED
  BY <1>1, RollTends, TendsRefl DEF Logs

(* maybe_sync syncs or does nothing.                                       *)
LEMMA MaybeSyncTends ==
    ASSUME NEW st, Tidy(st), NEW l \in Logs, NEW elapsed
    PROVE  Tends(st, MaybeSyncLog(st, l, elapsed)) /\ Carries(st, MaybeSyncLog(st, l, elapsed))
<1>1. MaybeSyncLog(st, l, elapsed) \in {st, SyncLog(st, l)}
  BY DEF MaybeSyncLog
<1>2. QED
  BY <1>1, SyncTends, TendsRefl

(* SplitWal::sync syncs both logs.                                         *)
LEMMA SyncBothTends ==
    ASSUME NEW st, Tidy(st)
    PROVE  Tends(st, SyncBoth(st))
<1> DEFINE a == MaybeSyncLog(st, "main", TRUE)
<1> DEFINE b == MaybeSyncLog(a, "late", TRUE)
<1>1. SyncBoth(st) = b
  BY DEF SyncBoth
<1>2. Tends(st, a)
  BY MaybeSyncTends DEF Logs
<1> HIDE DEF a
<1>3. Tends(a, b)
  BY <1>2, MaybeSyncTends DEF Logs, Tends
<1> HIDE DEF b
<1>4. QED
  BY <1>1, <1>2, <1>3, TendsTrans DEF Tends, Tidy

(* What a call has reported is what had been synced.                       *)
LEMMA ReportedTends ==
    ASSUME NEW st, Tidy(st)
    PROVE  /\ Tends(st, Reported(st))
           /\ \A l \in Logs : Reported(st).wal[l].synced = st.wal[l].synced
<1> DEFINE r == Reported(st)
<1>0. /\ \A k \in Logs : st.wal[k] \in WalWriter /\ st.wal[k].id \in Nat /\ st.wal[k].synced \in Nat
  BY StateTypes DEF Tidy
<1>1. Good(r)
  BY ReportedEffect DEF Kept, Tidy
<1>2. /\ r.segs = st.segs /\ r.made = st.made
      /\ r.wal = [l \in Logs |-> [st.wal[l] EXCEPT !.reported = st.wal[l].synced]]
  BY DEF Reported
<1> HIDE DEF r
<1>3. \A w \in WalWriter : LET v == [w EXCEPT !.reported = w.synced]
                           IN  /\ v.id = w.id /\ v.uuid = w.uuid /\ v.synced = w.synced
                               /\ Accounted(w) => Accounted(v)
  BY DEF WalWriter, Accounted
<1>4. \A k \in Logs : /\ r.wal[k].id = st.wal[k].id /\ r.wal[k].uuid = st.wal[k].uuid
                      /\ Accounted(r.wal[k]) /\ r.wal[k].synced = st.wal[k].synced
  BY <1>0, <1>2, <1>3 DEF Tidy
<1>5. Owned(r)
  BY <1>2, <1>4 DEF Tidy, Owned
<1>6. QED
  BY <1>0, <1>1, <1>2, <1>4, <1>5 DEF Tends, Tidy, r

(* What is left after a crash or a failed writer: the files, with more in  *)
(* the two that were open.                                                 *)
LEMMA TornKeeps ==
    ASSUME Tidy(State), NEW m \in Survivors("main"), NEW n \in Survivors("late")
    PROVE  LET ss == Torn([main |-> m, late |-> n])
           IN  /\ \A t \in ss : \E s \in segs : t.uuid = s.uuid
               /\ \A s \in segs : s.id < wal[s.log].id \/ wal = ClosedWriters => s \in ss
<1>1. /\ m \in SUBSET wal["main"].buf /\ n \in SUBSET wal["late"].buf
  BY DEF Survivors, Logs
<1>2. /\ segs \in SUBSET Segment
      /\ m \in SUBSET Frames /\ n \in SUBSET Frames
      /\ wal["main"] \in WalWriter
      /\ \A s \in segs : s.log \in Logs /\ s.id \in Nat
      /\ \A l \in Logs : wal[l].id \in Nat
  BY <1>1, StateTypes, StateFields DEF Tidy, Logs
<1> DEFINE a == Flush(segs, wal["main"], m)
<1> DEFINE b == Flush(a, wal["late"], n)
<1>3. /\ \A t \in a : \E s \in segs : t.uuid = s.uuid
      /\ \A s \in segs : s.uuid # wal["main"].uuid \/ m = {} => s \in a
      /\ a \in SUBSET Segment
  <2>1. a \in SUBSET Segment
    BY <1>2, FlushEffect
  <2>2. QED
    BY <1>2, <2>1, FlushKeeps
<1> HIDE DEF a
<1>4. /\ \A t \in b : \E s \in a : t.uuid = s.uuid
      /\ \A s \in a : s.uuid # wal["late"].uuid \/ n = {} => s \in b
  BY <1>2, <1>3, FlushKeeps
<1>5. Torn([main |-> m, late |-> n]) = b
  BY DEF Torn, a
<1> HIDE DEF b
<1>6. ASSUME NEW s \in segs, s.id < wal[s.log].id PROVE s \in b
  <2>1. \A l \in Logs : s.uuid # wal[l].uuid
    BY <1>2, <1>6, StateFields DEF Tidy, Owned
  <2>2. QED
    BY <1>3, <1>4, <2>1 DEF Logs
<1>7. ASSUME wal = ClosedWriters PROVE \A s \in segs : s \in b
  <2>1. m = {} /\ n = {}
    BY <1>1, <1>7 DEF ClosedWriters, ClosedWriter, Logs
  <2>2. QED
    BY <1>3, <1>4, <2>1
<1>8. QED
  BY <1>3, <1>4, <1>5, <1>6, <1>7

-----------------------------------------------------------------------------
(* The invariant behind PublishedIsTrue, on top of Inv.                    *)

(* What the two writers have synced.                                       *)
SyncedSum == wal["main"].synced + wal["late"].synced

(* The number published is what the writers reported, and what they        *)
(* reported is on disk.                                                    *)
Told ==
    /\ wpc \in {"openLate", "activeLate", "activeMain", "idle", "drain"} => published = SyncedSum
    /\ wpc \in {"late", "sync"} /\ (\A l \in Logs : wal[l].synced = wal[l].reported) => published = SyncedSum

(* The published active ids lag the writers, never lead them.              *)
ActiveBelow == Up => \A l \in Logs : active[l] <= wal[l].id

(* The inductive invariant behind PublishedIsTrue, on top of WalInv.       *)
PubInv == Tidy(State) /\ Told /\ ActiveBelow /\ (wpc = "openLate" => wal["late"].id = 0)

(* One step of the second half of PublishedIsTrue: a segment below the     *)
(* published active id stays as it is.                                     *)
FrozenStep == \A s \in segs : (s.id < active[s.log] \/ wpc = "down") => s \in segs'

(* A step of the writer that leaves the published ids alone.               *)
LEMMA TendsStep ==
    ASSUME NEW X, Inv(X), PubInv, Up, NEW r, Tends(State, r), Become(r), active' = active
    PROVE  /\ State' = r /\ wal' = r.wal
           /\ Tidy(State)' /\ ActiveBelow' /\ FrozenStep
<1>1. State' = r /\ wal' = r.wal /\ segs' = r.segs
  BY BecomeIs DEF Tends, Tidy
<1>2. Tidy(State)'
  BY <1>1 DEF Tends
<1>3. /\ \A l \in Logs : active[l] \in Nat /\ wal[l].id \in Nat /\ wal'[l].id \in Nat
      /\ \A s \in segs : s.log \in Logs /\ s.id \in Nat
      /\ \A l \in Logs : active[l] <= wal[l].id /\ wal[l].id <= wal'[l].id
  <2>1. Good(State) /\ Good(r)
    BY DEF PubInv, Tidy, Tends
  <2>2. \A l \in Logs : wal[l].id \in Nat /\ wal'[l].id \in Nat
    BY <2>1, <1>1, StateTypes, StateFields
  <2>3. \A l \in Logs : active[l] \in Nat
    BY DEF Inv, TypeOK
  <2>4. \A s \in segs : s.log \in Logs /\ s.id \in Nat
    BY <2>1, StateTypes, StateFields
  <2>5. \A l \in Logs : active[l] <= wal[l].id
    BY DEF PubInv, ActiveBelow
  <2>6. \A l \in Logs : wal[l].id <= wal'[l].id
    BY <1>1, StateFields DEF Tends
  <2>7. QED
    BY <2>2, <2>3, <2>4, <2>5, <2>6
<1>4. ActiveBelow'
  BY <1>3 DEF ActiveBelow
<1>5. FrozenStep
  <2>1. ASSUME NEW s \in segs, s.id < active[s.log] \/ wpc = "down" PROVE s \in segs'
    <3>1. wpc # "down"
      BY DEF Up
    <3>2. s.id < wal[s.log].id
      BY <1>3, <2>1, <3>1
    <3>3. QED
      BY <1>1, <3>2, StateFields DEF Tends
  <2>2. QED
    BY <2>1 DEF FrozenStep
<1>6. QED
  BY <1>1, <1>2, <1>4, <1>5

(* The counts are numbers.                                                 *)
LEMMA SumsNat ==
    ASSUME PubInv
    PROVE  \A l \in Logs : wal[l].synced \in Nat /\ wal[l].reported \in Nat /\ wal[l].written \in Nat
                           /\ wal[l].reported <= wal[l].synced
BY StateTypes, StateFields DEF PubInv, Tidy, Accounted

(* Appending keeps Told: what a roll has synced is not reported yet.       *)
LEMMA CarriesStep ==
    ASSUME PubInv, Tidy(State'), Carries(State, State'), published' = published,
           \/ wpc \in {"idle", "drain"} /\ wpc' \in {"late", "sync", "lastSync"}
           \/ wpc = "late" /\ wpc' \in {"sync", "lastSync"}
    PROVE  Told'
<1>1. \A l \in Logs : wal'[l].reported = wal[l].reported /\ wal[l].synced <= wal'[l].synced
                      /\ wal[l].reported <= wal[l].synced
                      /\ wal[l].synced \in Nat /\ wal[l].reported \in Nat /\ wal'[l].synced \in Nat
  <2>1. \A l \in Logs : State'.wal[l].synced \in Nat
    BY StateTypes DEF Tidy
  <2>2. State'.wal = wal' /\ State.wal = wal
    BY DEF State
  <2>3. QED
    BY <2>1, <2>2, SumsNat DEF Carries
<1>2. wpc' \notin {"openLate", "activeLate", "activeMain", "idle", "drain"}
  OBVIOUS
<1>3. ASSUME \A l \in Logs : wal'[l].synced = wal'[l].reported, wpc' \in {"late", "sync"}
      PROVE  published' = SyncedSum'
  <2>1. \A l \in Logs : wal[l].synced = wal[l].reported /\ wal'[l].synced = wal[l].synced
    BY <1>1, <1>3
  <2>2. published = SyncedSum
    BY <2>1 DEF PubInv, Told
  <2>3. QED
    BY <2>1, <2>2 DEF SyncedSum, Logs
<1>4. QED
  BY <1>2, <1>3 DEF Told

(* The main log is opened.                                                 *)
LEMMA PubOpenMain ==
    ASSUME NEW X, Inv(X), PubInv, OpenMain
    PROVE  PubInv' /\ FrozenStep
<1>1. PICK t \in Ticks : Become(CreateSegment(State, "main", NextId("main"), t))
  BY DEF OpenMain
<1> DEFINE i == NextId("main")
<1> DEFINE r == CreateSegment(State, "main", i, t)
<1>2. t \in Nat /\ wpc = "down" /\ wpc' = "openLate" /\ published' = 0 /\ active' = [l \in Logs |-> 0]
  BY TicksNat DEF OpenMain
<1>3. wal = ClosedWriters /\ wal["main"].id = 0 /\ wal["main"].buf = {}
  BY <1>2 DEF Inv, Opens, Up, ClosedWriters, ClosedWriter, Logs
<1>4. i \in Nat \ {0} /\ i <= State.made + 1
  BY StateFields, NextIdBound DEF Inv, Good, TypeOK, Logs
<1>5. r.wal = [wal EXCEPT !["main"] = [@ EXCEPT !.id = i, !.uuid = made + 1, !.len = 0]]
  BY StateFields DEF CreateSegment
<1>6. r.segs = segs \cup {[log |-> "main", id |-> i, uuid |-> made + 1, ms |-> clock + t, hdr |-> TRUE, recs |-> {}]}
  BY StateFields DEF CreateSegment
<1> HIDE DEF i
<1>7. Tends(State, r) /\ Carries(State, r)
  BY <1>2, <1>3, <1>4, StateFields, CreateTends DEF PubInv, Logs
<1>8. Become(r)
  BY <1>1 DEF i
<1>9. State' = r /\ wal' = r.wal /\ segs' = r.segs
  BY <1>7, <1>8, BecomeIs DEF Tends, Tidy
<1>10. Tidy(State)'
  BY <1>7, <1>9 DEF Tends
<1>11. wal'["late"] = ClosedWriter /\ wal'["main"].synced = 0
  BY <1>3, <1>5, <1>9 DEF ClosedWriters, ClosedWriter, Logs
<1> HIDE DEF r
<1>12. Told' /\ (wpc = "openLate" => wal["late"].id = 0)'
  <2>1. SyncedSum' = 0 /\ wal'["late"].id = 0
    BY <1>11 DEF SyncedSum, ClosedWriter
  <2>2. QED
    BY <1>2, <2>1 DEF Told
<1>13. ActiveBelow'
  <2>1. \A l \in Logs : wal'[l].id \in Nat /\ active'[l] = 0
    BY <1>2, <1>9, <1>7, StateTypes DEF Tends, Tidy
  <2>2. QED
    BY <2>1 DEF ActiveBelow
<1>14. FrozenStep
  BY <1>6, <1>9 DEF FrozenStep
<1>15. QED
  BY <1>10, <1>12, <1>13, <1>14 DEF PubInv

(* The late log is opened.                                                 *)
LEMMA PubOpenLate ==
    ASSUME NEW X, Inv(X), PubInv, OpenLate
    PROVE  PubInv' /\ FrozenStep
<1>1. PICK t \in Ticks : Become(CreateSegment(State, "late", NextId("late"), t))
  BY DEF OpenLate
<1> DEFINE i == NextId("late")
<1> DEFINE r == CreateSegment(State, "late", i, t)
<1>2. t \in Nat /\ wpc = "openLate" /\ wpc' = "activeLate" /\ published' = published /\ active' = active /\ Up
  BY TicksNat DEF OpenLate, Up
<1>3. wal["late"].id = 0 /\ wal["late"].buf = {}
  BY <1>2, StateFields DEF Inv, Opens, Clean, PubInv, Logs
<1>4. i \in Nat \ {0} /\ i <= State.made + 1
  BY StateFields, NextIdBound DEF Inv, Good, TypeOK, Logs
<1>5. r.wal = [wal EXCEPT !["late"] = [@ EXCEPT !.id = i, !.uuid = made + 1, !.len = 0]]
  BY StateFields DEF CreateSegment
<1> HIDE DEF i
<1>6. Tends(State, r)
  BY <1>2, <1>3, <1>4, StateFields, CreateTends DEF PubInv, Logs
<1>7. Become(r)
  BY <1>1 DEF i
<1> HIDE DEF r
<1>8. wal' = r.wal /\ Tidy(State)' /\ ActiveBelow' /\ FrozenStep
  BY <1>2, <1>6, <1>7, TendsStep
<1>9. \A l \in Logs : wal'[l].synced = wal[l].synced
  <2>1. wal \in [Logs -> WalWriter]
    BY DEF Inv, TypeOK
  <2> DEFINE w == wal["late"]
  <2> DEFINE u == made + 1
  <2>2. w \in WalWriter
    BY <2>1 DEF Logs
  <2>3. wal' = [wal EXCEPT !["late"] = Opened(w, i, u)]
    BY <1>5, <1>8 DEF Opened
  <2> HIDE DEF w, u
  <2>4. Opened(w, i, u).synced = w.synced
    BY <2>2 DEF WalWriter, Opened
  <2>5. QED
    BY <2>1, <2>3, <2>4 DEF w, Logs
<1>10. Told'
  <2>1. SyncedSum' = SyncedSum
    BY <1>9 DEF SyncedSum, Logs
  <2>2. published = SyncedSum
    BY <1>2 DEF PubInv, Told
  <2>3. QED
    BY <1>2, <2>1, <2>2 DEF Told
<1>11. QED
  BY <1>2, <1>8, <1>10 DEF PubInv

(* A batch's on-time records go to the main log.                           *)
LEMMA PubAppendMain ==
    ASSUME NEW X, Inv(X), PubInv, NEW n \in Nat, NEW L, NEW next \in {"sync", "lastSync"}, wpc \in {"idle", "drain"},
           AppendMain(n, L, next)
    PROVE  PubInv' /\ FrozenStep
<1> DEFINE recs == (total + 1 .. total + n) \ L
<1>1. PICK t \in Ticks : Become(AppendLog(State, "main", recs, t))
  BY DEF AppendMain
<1>2. /\ t \in Nat /\ wpc' \in {"late", "sync", "lastSync"} /\ published' = published /\ active' = active /\ Up
      /\ L \subseteq total + 1 .. total + n
  BY TicksNat DEF AppendMain, Up
<1>3. IsFiniteSet(recs) /\ recs \in SUBSET Nat
  <2>1. total \in Nat
    BY DEF Inv, TypeOK
  <2>2. L \subseteq total + 1 .. total + n
    BY <1>2
  <2>3. /\ IsFiniteSet(L) /\ L \in SUBSET Nat
        /\ IsFiniteSet(recs) /\ recs \in SUBSET Nat
        /\ Cardinality(L) \in Nat /\ Cardinality(recs) \in Nat
        /\ Cardinality(recs) + Cardinality(L) = n
    BY <2>1, <2>2, BatchSplit
  <2>4. QED
    BY <2>3
<1> DEFINE r == AppendLog(State, "main", recs, t)
<1>4. Become(r)
  BY <1>1
<1> HIDE DEF recs
<1>5. Tends(State, r) /\ Carries(State, r)
  <2>1. Open(State, "main")
    BY <1>2 DEF Inv, Opens
  <2>2. QED
    BY <1>2, <1>3, <2>1, AppendTends DEF PubInv, Logs
<1> HIDE DEF r
<1>6. State' = r /\ Tidy(State)' /\ ActiveBelow' /\ FrozenStep
  BY <1>2, <1>4, <1>5, TendsStep
<1>7. Told'
  BY <1>2, <1>5, <1>6, CarriesStep
<1>8. QED
  BY <1>2, <1>6, <1>7 DEF PubInv

(* Its late records go to the late log, and the batch ends with maybe_sync *)
(* on both.                                                                *)
LEMMA PubAppendLate ==
    ASSUME NEW X, Inv(X), PubInv, AppendLate
    PROVE  PubInv' /\ FrozenStep
<1>1. PICK due \in BOOLEAN, t1 \in Ticks, t2 \in Ticks :
         Become(AppendLog(RollIfDue(State, due, t1), "late", late, t2))
  BY DEF AppendLate
<1> DEFINE a == RollIfDue(State, due, t1)
<1> DEFINE r == AppendLog(a, "late", late, t2)
<1>2. /\ t1 \in Nat /\ t2 \in Nat /\ wpc = "late" /\ wpc' \in {"sync", "lastSync"}
      /\ published' = published /\ active' = active /\ Up
  BY TicksNat DEF AppendLate, Up
<1>3. Become(r)
  BY <1>1
<1>4. Tends(State, a) /\ Carries(State, a) /\ Tidy(State) /\ Tidy(a) /\ Kept(State, a)
  BY <1>2, RollIfDueTends, RollIfDueEffect DEF PubInv, Tends, Tidy
<1> HIDE DEF a
<1>5. Open(a, "late")
  BY <1>2, <1>4 DEF Inv, Opens, Kept, Logs
<1>6. Tends(a, r) /\ Carries(a, r)
  <2>1. IsFiniteSet(late) /\ late \in SUBSET Nat
    BY DEF Inv, Counts, TypeOK
  <2>2. QED
    BY <1>2, <1>4, <1>5, <2>1, AppendTends DEF Logs
<1> HIDE DEF r
<1>7. Tends(State, r) /\ Carries(State, r)
  <2>1. Good(State) /\ Good(a) /\ Good(r)
    BY <1>4, <1>6 DEF Tends, Tidy
  <2>2. QED
    BY <1>4, <1>6, <2>1, TendsTrans, CarriesTrans
<1>8. State' = r /\ Tidy(State)' /\ ActiveBelow' /\ FrozenStep
  BY <1>2, <1>3, <1>7, TendsStep
<1>9. Told'
  BY <1>2, <1>7, <1>8, CarriesStep
<1>10. QED
  BY <1>2, <1>8, <1>9 DEF PubInv

(* maybe_sync: when nothing is new to report, what was reported is what is *)
(* synced; otherwise both logs are synced before the count is published.   *)
LEMMA PubMaybeSync ==
    ASSUME NEW X, Inv(X), PubInv, NEW due \in BOOLEAN, NEW em \in BOOLEAN, NEW el \in BOOLEAN, MaybeSync(due, em, el)
    PROVE  PubInv' /\ FrozenStep
<1> DEFINE a(t) == RollIfDue(State, due, t)
<1> DEFINE b(t) == MaybeSyncLog(a(t), "main", em)
<1> DEFINE c(t) == MaybeSyncLog(b(t), "late", el)
<1> DEFINE d(t) == Reported(c(t))
<1>1. PICK t \in Ticks :
         /\ Become(IF Advanced(c(t)) THEN SyncBoth(d(t)) ELSE d(t))
         /\ wpc' = IF Advanced(c(t)) THEN "publish" ELSE "activeLate"
  BY DEF MaybeSync
<1>2. t \in Nat /\ wpc = "sync" /\ Up /\ Tidy(State) /\ published' = published /\ active' = active
  BY TicksNat DEF MaybeSync, Up, PubInv
<1>3. Tends(State, a(t)) /\ Carries(State, a(t))
  BY <1>2, RollIfDueTends
<1> HIDE DEF a
<1>4. Tends(a(t), b(t)) /\ Carries(a(t), b(t))
  BY <1>3, MaybeSyncTends DEF Tends, Logs
<1> HIDE DEF b
<1>5. Tends(b(t), c(t)) /\ Carries(b(t), c(t))
  BY <1>4, MaybeSyncTends DEF Tends, Logs
<1> HIDE DEF c
<1>6. Tends(c(t), d(t)) /\ \A l \in Logs : d(t).wal[l].synced = c(t).wal[l].synced
  BY <1>5, ReportedTends DEF Tends
<1> HIDE DEF d
<1>7. Tends(d(t), SyncBoth(d(t)))
  BY <1>6, SyncBothTends DEF Tends
<1>8. Good(State) /\ Good(a(t)) /\ Good(b(t)) /\ Good(c(t)) /\ Good(d(t))
  BY <1>2, <1>3, <1>4, <1>5, <1>6 DEF Tends, Tidy
<1>9. Tends(State, c(t)) /\ Carries(State, c(t))
  <2>1. Tends(State, b(t)) /\ Carries(State, b(t))
    BY <1>3, <1>4, <1>8, TendsTrans, CarriesTrans
  <2>2. QED
    BY <2>1, <1>5, <1>8, TendsTrans, CarriesTrans
<1>10. Tends(State, d(t))
  BY <1>6, <1>8, <1>9, TendsTrans
<1>11. Tends(State, SyncBoth(d(t)))
  BY <1>7, <1>8, <1>10, TendsTrans
<1>12. CASE Advanced(c(t))
  <2>1. Become(SyncBoth(d(t))) /\ wpc' = "publish"
    BY <1>1, <1>12
  <2>2. Tidy(State)' /\ ActiveBelow' /\ FrozenStep
    BY <1>2, <1>11, <2>1, TendsStep
  <2>3. QED
    BY <2>1, <2>2 DEF PubInv, Told
<1>13. CASE ~Advanced(c(t))
  <2>1. Become(d(t)) /\ wpc' = "activeLate"
    BY <1>1, <1>13
  <2>2. wal' = d(t).wal /\ Tidy(State)' /\ ActiveBelow' /\ FrozenStep
    BY <1>2, <1>10, <2>1, TendsStep
  <2>3. \A l \in Logs : /\ wal[l].reported <= wal[l].synced /\ wal[l].synced <= c(t).wal[l].synced
                        /\ c(t).wal[l].synced <= wal[l].reported
                        /\ wal[l].synced \in Nat /\ wal[l].reported \in Nat /\ c(t).wal[l].synced \in Nat
    <3>1. \A l \in Logs : /\ c(t).wal[l].synced \in Nat /\ c(t).wal[l].reported \in Nat
                          /\ c(t).wal[l].reported = wal[l].reported /\ wal[l].synced <= c(t).wal[l].synced
      BY <1>8, <1>9, StateTypes, StateFields DEF Carries
    <3>2. \A l \in Logs : ~(c(t).wal[l].synced > c(t).wal[l].reported)
      BY <1>13 DEF Advanced
    <3>3. QED
      BY <3>1, <3>2, SumsNat
  <2>4. \A l \in Logs : wal[l].synced = wal[l].reported /\ wal'[l].synced = wal[l].synced
    BY <1>6, <2>2, <2>3
  <2>5. published = SyncedSum
    BY <1>2, <2>4 DEF PubInv, Told
  <2>6. SyncedSum' = SyncedSum
    BY <2>4 DEF SyncedSum, Logs
  <2>7. QED
    BY <1>2, <2>1, <2>2, <2>5, <2>6 DEF PubInv, Told
<1>14. QED
  BY <1>12, <1>13

(* The last sync, when the queue is closed.                                *)
LEMMA PubLastSync ==
    ASSUME NEW X, Inv(X), PubInv, LastSync
    PROVE  PubInv' /\ FrozenStep
<1>1. Become(SyncBoth(State)) /\ wpc' = "lastPublish" /\ active' = active /\ Up
  BY DEF LastSync, Up
<1>2. Tends(State, SyncBoth(State))
  BY SyncBothTends DEF PubInv
<1>3. Tidy(State)' /\ ActiveBelow' /\ FrozenStep
  BY <1>1, <1>2, TendsStep
<1>4. QED
  BY <1>1, <1>3 DEF PubInv, Told

(* Closed writers on files with the UUIDs of made segments.                *)
LEMMA ClosedTidy ==
    ASSUME NEW X, Inv(X)', wal' = ClosedWriters, \A t \in segs' : t.uuid # 0 /\ t.uuid <= made'
    PROVE  Tidy(State)'
<1>1. Good(State)' /\ made' \in Nat
  BY DEF Inv, TypeOK
<1>2. State'.segs = segs' /\ State'.wal = wal' /\ State'.made = made'
  BY DEF State
<1>3. \A l \in Logs : wal'[l] = ClosedWriter /\ wal'[l].uuid = 0
  BY DEF ClosedWriters, ClosedWriter
<1>4. Accounted(ClosedWriter)
  BY DEF Accounted, ClosedWriter
<1>5. Owned(State')
  BY <1>1, <1>2, <1>3 DEF Owned
<1>6. QED
  BY <1>1, <1>2, <1>3, <1>4, <1>5 DEF Tidy

(* Publishing happens with both logs synced.                               *)
LEMMA PubPublish ==
    ASSUME NEW X, Inv(X), PubInv, Publish
    PROVE  PubInv' /\ FrozenStep
<1>1. /\ wpc \in {"publish", "lastPublish"} /\ published' = RecordsWritten
      /\ wpc' = IF wpc = "publish" THEN "activeLate" ELSE "done"
      /\ wal' = IF wpc = "publish" THEN wal ELSE ClosedWriters
      /\ segs' = segs /\ made' = made /\ clock' = clock /\ active' = active
  BY DEF Publish
<1>2. FrozenStep
  BY <1>1 DEF FrozenStep
<1>3. CASE wpc = "publish"
  <2>1. wal' = wal /\ State' = State /\ wpc' = "activeLate" /\ Up /\ Up'
    BY <1>1, <1>3 DEF State, Up
  <2>2. \A l \in Logs : wal[l].synced = wal[l].written
    BY <1>3, StateFields DEF Inv, Opens, Clean, PubInv, Tidy, Accounted
  <2>3. published' = SyncedSum'
    BY <1>1, <2>1, <2>2 DEF RecordsWritten, SyncedSum, Logs
  <2>4. ActiveBelow'
    BY <1>1, <2>1 DEF PubInv, ActiveBelow
  <2>5. Told'
    BY <2>1, <2>3 DEF Told
  <2>6. Tidy(State)'
    BY <2>1 DEF PubInv
  <2>7. QED
    BY <1>2, <2>1, <2>4, <2>5, <2>6 DEF PubInv
<1>4. CASE wpc = "lastPublish"
  <2>1. wal' = ClosedWriters /\ wpc' = "done"
    BY <1>1, <1>4
  <2>2. Inv(X)'
    BY PublishStep
  <2>3. \A s \in segs : s.uuid # 0 /\ s.uuid <= made
    BY StateFields DEF PubInv, Tidy, Owned
  <2>4. Tidy(State)'
    BY <1>1, <2>1, <2>2, <2>3, ClosedTidy
  <2>5. QED
    BY <1>2, <2>1, <2>4 DEF PubInv, Told, ActiveBelow, Up
<1>5. QED
  BY <1>1, <1>3, <1>4

(* The active ids are published after the batch.                           *)
LEMMA PubPublishActive ==
    ASSUME NEW X, Inv(X), PubInv, NEW l \in Logs, PublishActive(l)
    PROVE  PubInv' /\ FrozenStep
<1>1. /\ wpc \in {"activeLate", "activeMain"} /\ active' = [active EXCEPT ![l] = wal[l].id]
      /\ wpc' \in {"activeMain", "drain", "idle"}
      /\ segs' = segs /\ wal' = wal /\ made' = made /\ clock' = clock /\ published' = published
  BY DEF PublishActive
<1>2. State' = State
  BY <1>1 DEF State
<1>3. \A k \in Logs : active[k] <= wal[k].id /\ wal[k].id \in Nat /\ active \in [Logs -> Nat]
  BY <1>1, StateTypes, StateFields DEF PubInv, Tidy, ActiveBelow, Up, Inv, TypeOK
<1>4. ActiveBelow'
  BY <1>1, <1>3 DEF ActiveBelow
<1>5. Told'
  BY <1>1 DEF PubInv, Told, SyncedSum
<1>6. QED
  BY <1>1, <1>2, <1>4, <1>5 DEF PubInv, FrozenStep

(* A crash or a failed writer leaves the closed files as they are.         *)
LEMMA PubLoss ==
    ASSUME NEW X, Inv(X), PubInv, Inv(X)', NEW m \in Survivors("main"), NEW n \in Survivors("late"),
           NEW torn, segs' = Torn([main |-> m, late |-> n]) \cup torn,
           \A x \in torn : x.uuid = made + 1 /\ made' = made + 1,
           made <= made', wal' = ClosedWriters, wpc' \in {"failed", "down"}
    PROVE  PubInv' /\ FrozenStep
<1> DEFINE ss == Torn([main |-> m, late |-> n])
<1>1. /\ \A t \in ss : \E s \in segs : t.uuid = s.uuid
      /\ \A s \in segs : s.id < wal[s.log].id \/ wal = ClosedWriters => s \in ss
  BY TornKeeps DEF PubInv
<1> HIDE DEF ss
<1>2. /\ made \in Nat /\ made' \in Nat /\ active \in [Logs -> Nat]
      /\ \A l \in Logs : wal[l].id \in Nat
      /\ \A s \in segs : s.uuid \in Nat /\ s.uuid # 0 /\ s.uuid <= made /\ s.log \in Logs /\ s.id \in Nat
  BY StateTypes, StateFields DEF PubInv, Tidy, Owned, Inv, TypeOK
<1>3. \A t \in segs' : t.uuid # 0 /\ t.uuid <= made'
  <2>1. \A t \in ss : t.uuid # 0 /\ t.uuid <= made'
    BY <1>1, <1>2
  <2>2. \A t \in torn : t.uuid # 0 /\ t.uuid <= made'
    BY <1>2
  <2>3. QED
    BY <2>1, <2>2 DEF ss
<1>4. Tidy(State)'
  BY <1>3, ClosedTidy
<1>5. Told' /\ ActiveBelow' /\ wpc' # "openLate"
  BY DEF Told, ActiveBelow, Up
<1>6. FrozenStep
  <2>1. ASSUME NEW s \in segs, s.id < active[s.log] \/ wpc = "down" PROVE s \in segs'
    <3>1. CASE Up
      <4>1. active[s.log] <= wal[s.log].id /\ active[s.log] \in Nat /\ wpc # "down"
        BY <1>2, <3>1 DEF PubInv, ActiveBelow, Up
      <4>2. s.id < wal[s.log].id
        BY <1>2, <2>1, <4>1
      <4>3. QED
        BY <1>1, <4>2 DEF ss
    <3>2. CASE ~Up
      BY <1>1, <3>2 DEF Inv, Opens, ss
    <3>3. QED
      BY <3>1, <3>2
  <2>2. QED
    BY <2>1 DEF FrozenStep
<1>7. QED
  BY <1>4, <1>5, <1>6 DEF PubInv

(* Every step keeps the invariant and freezes what is below the active     *)
(* ids.                                                                    *)
LEMMA PubStep ==
    ASSUME NEW X, Inv(X), PubInv, [Next]_walVars
    PROVE  PubInv' /\ FrozenStep
<1>0. Inv(X)'
  BY StepInv
<1>1. CASE OpenMain
  BY <1>1, PubOpenMain
<1>2. CASE OpenLate
  BY <1>2, PubOpenLate
<1>3. ASSUME NEW n \in 0 .. BatchMax, NEW L \in SUBSET Records,
             (\E stop \in BOOLEAN : Pass(n, L, stop)) \/ Drain(n, L)
      PROVE  PubInv' /\ FrozenStep
  <2>1. n \in Nat
    BY SplitWalAssumption
  <2>2. \E next \in {"sync", "lastSync"} : AppendMain(n, L, next) /\ wpc \in {"idle", "drain"}
    BY <1>3 DEF Pass, Drain
  <2>3. QED
    BY <2>1, <2>2, PubAppendMain
<1>4. CASE AppendLate
  BY <1>4, PubAppendLate
<1>5. ASSUME NEW due \in BOOLEAN, NEW em \in BOOLEAN, NEW el \in BOOLEAN, MaybeSync(due, em, el)
      PROVE  PubInv' /\ FrozenStep
  BY <1>5, PubMaybeSync
<1>6. CASE LastSync
  BY <1>6, PubLastSync
<1>7. CASE Publish
  BY <1>7, PubPublish
<1>8. ASSUME NEW l \in Logs, PublishActive(l) PROVE PubInv' /\ FrozenStep
  BY <1>8, PubPublishActive
<1>9. CASE WriterError
  <2>1. PICK m \in Survivors("main"), n \in Survivors("late") : segs' = Torn([main |-> m, late |-> n])
    BY <1>9 DEF WriterError
  <2>2. segs' = Torn([main |-> m, late |-> n]) \cup {}
    BY <2>1
  <2>3. made' = made /\ made \in Nat /\ wal' = ClosedWriters /\ wpc' \in {"failed", "down"}
    BY <1>9 DEF WriterError, Inv, TypeOK
  <2> DEFINE torn == {}
  <2>4. /\ made <= made' /\ \A x \in torn : x.uuid = made + 1 /\ made' = made + 1
        /\ segs' = Torn([main |-> m, late |-> n]) \cup torn
    BY <2>2, <2>3
  <2> HIDE DEF torn
  <2>5. QED
    BY <1>0, <2>2, <2>3, <2>4, PubLoss
<1>10. CASE Crash
  <2>1. PICK m \in Survivors("main"), n \in Survivors("late") : CrashLeaving([main |-> m, late |-> n], {})
    BY <1>10 DEF Crash
  <2>2. made \in Nat
    BY DEF Inv, TypeOK
  <2>3. segs' = Torn([main |-> m, late |-> n]) \cup {} /\ made' = made /\ wal' = ClosedWriters /\ wpc' \in {"failed", "down"}
    BY <2>1, <2>2, FS_EmptySet DEF CrashLeaving
  <2> DEFINE torn == {}
  <2>4. /\ made <= made' /\ \A x \in torn : x.uuid = made + 1 /\ made' = made + 1
        /\ segs' = Torn([main |-> m, late |-> n]) \cup torn
    BY <2>2, <2>3
  <2> HIDE DEF torn
  <2>5. QED
    BY <1>0, <2>3, <2>4, PubLoss
<1>11. ASSUME NEW l \in Logs, CrashInCreate(l) PROVE PubInv' /\ FrozenStep
  <2> DEFINE x == [log |-> l, id |-> NextId(l), uuid |-> made + 1, ms |-> clock, hdr |-> FALSE, recs |-> {}]
  <2>1. PICK m \in Survivors("main"), n \in Survivors("late") : CrashLeaving([main |-> m, late |-> n], {x})
    BY <1>11 DEF CrashInCreate
  <2>2. made \in Nat
    BY DEF Inv, TypeOK
  <2>3. x.uuid = made + 1
    OBVIOUS
  <2> HIDE DEF x
  <2>4. segs' = Torn([main |-> m, late |-> n]) \cup {x} /\ made' = made + 1 /\ wal' = ClosedWriters
        /\ wpc' \in {"failed", "down"}
    BY <2>1, <2>2, FS_Singleton DEF CrashLeaving
  <2>5. made <= made' /\ \A y \in {x} : y.uuid = made + 1 /\ made' = made + 1
    BY <2>2, <2>3, <2>4
  <2>6. QED
    BY <1>0, <2>4, <2>5, PubLoss
<1>12. CASE UNCHANGED walVars
  <2>1. State' = State
    BY <1>12 DEF State, walVars
  <2>2. QED
    BY <1>12, <2>1 DEF PubInv, Told, ActiveBelow, Up, SyncedSum, FrozenStep, walVars
<1>13. QED
  BY <1>1, <1>2, <1>3, <1>4, <1>5, <1>6, <1>7, <1>8, <1>9, <1>10, <1>11, <1>12 DEF Next, WriterNext

(* The invariant holds at the start.                                       *)
LEMMA PubInit ==
    ASSUME Init
    PROVE  PubInv
<1>1. State.segs = {} /\ State.wal = ClosedWriters /\ State.made = 0 /\ Good(State)
  BY InitInv DEF State, Init, Inv
<1>2. \A l \in Logs : ClosedWriters[l] = ClosedWriter /\ ClosedWriter.uuid = 0
  BY DEF ClosedWriters, ClosedWriter
<1>3. Accounted(ClosedWriter)
  BY DEF Accounted, ClosedWriter
<1>4. Tidy(State)
  BY <1>1, <1>2, <1>3 DEF Tidy, Owned
<1>5. QED
  BY <1>4 DEF PubInv, Told, ActiveBelow, Up, Init

(* The invariant says what is published.                                   *)
LEMMA PubMeans ==
    ASSUME Inv({}), PubInv
    PROVE  AckedDurable /\ SyncedIsPublished
<1>1. AckedDurable
  BY DEF Inv, Placed, AckedDurable, OnDisk, Disk
<1>2. ASSUME wpc = "idle", Buffered = {} PROVE published = RecordsWritten
  <2>1. \A l \in Logs : {} \notin wal[l].buf /\ (wal[l].buf = {} => wal[l].synced = wal[l].written)
    BY StateFields DEF PubInv, Tidy, Accounted
  <2>2. \A l \in Logs : wal[l].buf = {}
    BY <1>2, <2>1 DEF Buffered, Logs
  <2>3. published = SyncedSum
    BY <1>2 DEF PubInv, Told
  <2>4. QED
    BY <2>1, <2>2, <2>3 DEF SyncedSum, RecordsWritten, Logs
<1>3. QED
  BY <1>1, <1>2 DEF SyncedIsPublished

(* What run_wal_writer publishes is true, for any number of records, rolls,*)
(* failures and restarts: the synced count covers only records on disk, it *)
(* is complete when a pass ends with nothing unsynced, and the segments    *)
(* below the active ids never change again.                                *)
THEOREM WalPublishedIsTrue == Spec => PublishedIsTrue
<1>1. Init => Inv({}) /\ PubInv
  BY InitInv, PubInit
<1>2. Inv({}) /\ PubInv /\ [Next]_walVars => Inv({})' /\ PubInv'
  BY StepInv, PubStep
<1>3. Inv({}) /\ PubInv /\ [Next]_walVars => [\A s \in segs : (s.id < active[s.log] \/ wpc = "down") => s \in segs']_walVars
  BY PubStep DEF FrozenStep
<1>4. Inv({}) /\ PubInv => AckedDurable /\ SyncedIsPublished
  BY PubMeans
<1>5. QED
  BY <1>1, <1>2, <1>3, <1>4, PTL DEF Spec, PublishedIsTrue, ClosedSegmentsFrozen
=============================================================================
