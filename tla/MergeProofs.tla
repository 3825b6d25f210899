---------------------------- MODULE MergeProofs -----------------------------
(***************************************************************************)
(* Proofs about Merge.  The first part follows the segment files through   *)
(* the methods of WalWriter, a write error and a crash: no two have a path *)
(* in common, and only open ones change.  The second part is an inductive  *)
(* invariant of the maintenance thread beside the writer, step by step: a  *)
(* record that has left the log is in a file that a commit has listed as   *)
(* it is on disk.  A listed file is one in `committed`; the catalog itself *)
(* may be behind it after a power loss, which `Journal` is about.  All of  *)
(* it assumes that no two segments are created within one millisecond      *)
(* (~SameMs).                                                              *)
(***************************************************************************)
EXTENDS Merge, SplitWalProofs

(* No two segments share a UUID, a place in a log or, once they have a     *)
(* header, a millisecond; the one a writer has open is its log's last.     *)
Apart(st) ==
    /\ \A s, t \in st.segs : s.uuid = t.uuid => s = t
    /\ \A s, t \in st.segs : s.log = t.log /\ s.id = t.id => s = t
    /\ \A s, t \in st.segs : s.hdr /\ t.hdr /\ s.ms = t.ms => s = t
    /\ \A s \in st.segs : s.ms <= st.clock
    /\ \A s \in st.segs : ~s.hdr => s.recs = {}
    /\ \A s \in st.segs : st.wal[s.log].id # 0 => s.id <= st.wal[s.log].id
    /\ \A s \in st.segs, l \in Logs : s.uuid = st.wal[l].uuid => s.hdr

(* t is the segment s, perhaps with more records.                          *)
Grew(s, t) ==
    /\ t.log = s.log
    /\ t.id = s.id
    /\ t.uuid = s.uuid
    /\ t.ms = s.ms
    /\ t.hdr = s.hdr
    /\ s.recs \subseteq t.recs

(* A writer of st has s open.                                              *)
OpenIn(st, s) == \E l \in Logs : s.uuid = st.wal[l].uuid

(* r comes from st by a method that adds to open segments and creates new  *)
(* ones.                                                                   *)
Evolves(st, r) ==
    /\ Apart(r)
    /\ \A t \in r.segs : \/ \E s \in st.segs : Grew(s, t) /\ (t = s \/ OpenIn(st, s))
                         \/ t.uuid > st.made /\ (t.hdr => t.ms > st.clock)
    /\ st.made <= r.made
    /\ st.clock <= r.clock
    /\ \A l \in Logs : r.wal[l].uuid = st.wal[l].uuid \/ r.wal[l].uuid > st.made

(* The numbers of a state.                                                 *)
LEMMA StateNumbers ==
    ASSUME NEW st, Good(st)
    PROVE  /\ st.segs \in SUBSET Segment
           /\ st.made \in Nat /\ st.clock \in Nat
           /\ \A l \in Logs : st.wal[l].id \in Nat /\ st.wal[l].uuid \in Nat
           /\ \A s \in st.segs : s.log \in Logs /\ s.id \in Nat /\ s.uuid \in Nat /\ s.ms \in Nat /\ s.hdr \in BOOLEAN
<1>1. st.segs \in SUBSET Segment /\ st.made \in Nat /\ st.clock \in Nat
  BY DEF Good, StateSet
<1>2. \A l \in Logs : st.wal[l].id \in Nat /\ st.wal[l].uuid \in Nat
  BY StateTypes
<1>3. \A s \in Segment : s.log \in Logs /\ s.id \in Nat /\ s.uuid \in Nat /\ s.ms \in Nat /\ s.hdr \in BOOLEAN
  BY DEF Segment
<1>4. QED
  BY <1>1, <1>2, <1>3

(* A segment is itself.                                                    *)
LEMMA GrewRefl == \A s : Grew(s, s)
BY DEF Grew

(* More records and then more are more records.                            *)
LEMMA GrewTrans ==
    ASSUME NEW q, NEW s, NEW t, Grew(q, s), Grew(s, t)
    PROVE  Grew(q, t)
BY DEF Grew

(* Doing nothing is such a method.                                         *)
LEMMA EvolvesRefl ==
    ASSUME NEW a, Tidy(a), Apart(a)
    PROVE  Evolves(a, a)
<1>1. a.made <= a.made /\ a.clock <= a.clock
  BY StateNumbers DEF Tidy
<1>2. \A s \in a.segs : Grew(s, s) /\ s = s
  BY GrewRefl
<1>3. QED
  BY <1>1, <1>2, Zenon DEF Evolves

(* So is one after another.                                                *)
LEMMA EvolvesTrans ==
    ASSUME NEW a, NEW b, NEW c, Tidy(a), Tidy(b), Tidy(c), Evolves(a, b), Evolves(b, c)
    PROVE  Evolves(a, c)
<1>0. /\ a.made \in Nat /\ b.made \in Nat /\ c.made \in Nat
      /\ a.clock \in Nat /\ b.clock \in Nat /\ c.clock \in Nat
      /\ \A l \in Logs : a.wal[l].uuid \in Nat /\ b.wal[l].uuid \in Nat /\ c.wal[l].uuid \in Nat
      /\ \A s \in a.segs : s.uuid \in Nat /\ s.ms \in Nat
      /\ \A s \in b.segs : s.uuid \in Nat /\ s.ms \in Nat
      /\ \A s \in c.segs : s.uuid \in Nat /\ s.ms \in Nat
  BY StateNumbers DEF Tidy
<1>1. a.made <= b.made /\ b.made <= c.made /\ a.clock <= b.clock /\ b.clock <= c.clock
  BY DEF Evolves
<1>2. \A l \in Logs : b.wal[l].uuid = a.wal[l].uuid \/ b.wal[l].uuid > a.made
  BY DEF Evolves
<1>3. \A l \in Logs : c.wal[l].uuid = b.wal[l].uuid \/ c.wal[l].uuid > b.made
  BY DEF Evolves
<1>4. \A l \in Logs : c.wal[l].uuid = a.wal[l].uuid \/ c.wal[l].uuid > a.made
  BY <1>0, <1>1, <1>2, <1>3
<1>5. ASSUME NEW t \in c.segs
      PROVE  \/ \E s \in a.segs : Grew(s, t) /\ (t = s \/ OpenIn(a, s))
             \/ t.uuid > a.made /\ (t.hdr => t.ms > a.clock)
  <2>1. \/ \E s \in b.segs : Grew(s, t) /\ (t = s \/ OpenIn(b, s))
        \/ t.uuid > b.made /\ (t.hdr => t.ms > b.clock)
    BY DEF Evolves
  <2>2. CASE t.uuid > b.made /\ (t.hdr => t.ms > b.clock)
    BY <1>0, <1>1, <2>2
  <2>3. ASSUME NEW s \in b.segs, Grew(s, t), t = s \/ OpenIn(b, s)
        PROVE  \/ \E q \in a.segs : Grew(q, t) /\ (t = q \/ OpenIn(a, q))
               \/ t.uuid > a.made /\ (t.hdr => t.ms > a.clock)
    <3>1. \/ \E q \in a.segs : Grew(q, s) /\ (s = q \/ OpenIn(a, q))
          \/ s.uuid > a.made /\ (s.hdr => s.ms > a.clock)
      BY DEF Evolves
    <3>2. CASE s.uuid > a.made /\ (s.hdr => s.ms > a.clock)
      BY <2>3, <3>2 DEF Grew
    <3>3. ASSUME NEW q \in a.segs, Grew(q, s), s = q \/ OpenIn(a, q)
          PROVE  Grew(q, t) /\ (t = q \/ OpenIn(a, q))
      <4>1. Grew(q, t)
        BY <2>3, <3>3, GrewTrans
      <4>2. CASE t = s
        BY <3>3, <4>1, <4>2
      <4>3. CASE OpenIn(b, s)
        <5>1. PICK l \in Logs : s.uuid = b.wal[l].uuid
          BY <4>3 DEF OpenIn
        <5>2. q.uuid = b.wal[l].uuid /\ q.uuid <= a.made
          BY <3>3, <5>1 DEF Grew, Tidy, Owned
        <5>3. q.uuid = a.wal[l].uuid
          BY <1>0, <1>2, <5>2
        <5>4. QED
          BY <4>1, <5>3 DEF OpenIn
      <4>4. QED
        BY <2>3, <4>2, <4>3
    <3>4. QED
      BY <3>1, <3>2, <3>3
  <2>4. QED
    BY <2>1, <2>2, <2>3
<1>6. Apart(c)
  BY DEF Evolves
<1>7. a.made <= c.made /\ a.clock <= c.clock
  BY <1>0, <1>1
<1>8. QED
  BY <1>4, <1>5, <1>6, <1>7 DEF Evolves

(* create_segment.                                                         *)
LEMMA CreateEvolves ==
    ASSUME NEW st, Tidy(st), Apart(st), NEW l \in Logs, NEW id \in Nat \ {0},
           \A s \in st.segs : s.log = l => s.id < id
    PROVE  Evolves(st, CreateSegment(st, l, id, 1))
<1> DEFINE u == st.made + 1
<1> DEFINE k == st.clock + 1
<1> DEFINE x == [log |-> l, id |-> id, uuid |-> u, ms |-> k, hdr |-> TRUE, recs |-> {}]
<1> DEFINE v == Opened(st.wal[l], id, u)
<1> DEFINE r == CreateSegment(st, l, id, 1)
<1>0. /\ st.made \in Nat /\ st.clock \in Nat
      /\ \A j \in Logs : st.wal[j].id \in Nat /\ st.wal[j].uuid \in Nat
      /\ \A s \in st.segs : s.log \in Logs /\ s.id \in Nat /\ s.uuid \in Nat /\ s.ms \in Nat /\ s.hdr \in BOOLEAN
  BY StateNumbers DEF Tidy
<1>1. st.wal \in [Logs -> WalWriter] /\ st.wal[l] \in WalWriter
  BY StateTypes DEF Tidy
<1>2. /\ r.segs = st.segs \cup {x} /\ r.made = u /\ r.clock = k
      /\ r.wal = [st.wal EXCEPT ![l] = v]
  BY DEF CreateSegment, Opened
<1>3. x.log = l /\ x.id = id /\ x.uuid = u /\ x.ms = k /\ x.hdr = TRUE /\ x.recs = {}
  OBVIOUS
<1>4. u \in Nat /\ u > st.made /\ st.made <= u /\ k \in Nat /\ k > st.clock /\ st.clock <= k
  BY <1>0
<1> HIDE DEF u, k, r
<1> HIDE DEF x
<1>5. v \in WalWriter /\ v.id = id /\ v.uuid = u
  <2> DEFINE w == st.wal[l]
  <2>1. w \in WalWriter /\ id \in Nat /\ u \in Nat
    BY <1>1, <1>4
  <2>2. v = Opened(w, id, u)
    OBVIOUS
  <2> HIDE DEF w, v
  <2>3. /\ Opened(w, id, u) \in WalWriter
        /\ Opened(w, id, u).id = id
        /\ Opened(w, id, u).uuid = u
    BY <2>1, OpenedWriter
  <2>4. QED
    BY <2>2, <2>3
<1> HIDE DEF v
<1>6. r.wal[l] = v /\ \A j \in Logs : j # l => r.wal[j] = st.wal[j]
  BY <1>1, <1>2, <1>5, PutWriter
<1>7. /\ \A s \in st.segs : s.uuid <= st.made /\ s.ms <= st.clock
      /\ \A j \in Logs : st.wal[j].uuid <= st.made
  BY DEF Tidy, Owned, Apart
<1>8. Apart(r)
  <2>1. \A s \in st.segs : s.uuid # u /\ s.ms # k /\ ~(s.log = l /\ s.id = id)
    BY <1>0, <1>4, <1>7
  <2>2. \A s, t \in r.segs : s.uuid = t.uuid => s = t
    BY <1>2, <1>3, <2>1 DEF Apart
  <2>3. \A s, t \in r.segs : s.log = t.log /\ s.id = t.id => s = t
    BY <1>2, <1>3, <2>1 DEF Apart
  <2>4. \A s, t \in r.segs : s.hdr /\ t.hdr /\ s.ms = t.ms => s = t
    BY <1>2, <1>3, <2>1 DEF Apart
  <2>5. \A s \in r.segs : s.ms <= r.clock
    BY <1>0, <1>2, <1>3, <1>4, <1>7
  <2>6. \A s \in r.segs : ~s.hdr => s.recs = {}
    BY <1>2, <1>3 DEF Apart
  <2>7. \A s \in r.segs : r.wal[s.log].id # 0 => s.id <= r.wal[s.log].id
    <3>1. \A s \in st.segs : s.log = l => s.id <= r.wal[s.log].id
      BY <1>0, <1>5, <1>6
    <3>2. \A s \in st.segs : s.log # l => r.wal[s.log] = st.wal[s.log]
      BY <1>0, <1>6
    <3>3. \A s \in st.segs : r.wal[s.log].id # 0 => s.id <= r.wal[s.log].id
      BY <3>1, <3>2 DEF Apart
    <3>4. x.id <= r.wal[x.log].id
      BY <1>3, <1>5, <1>6
    <3>5. QED
      BY <1>2, <3>3, <3>4
  <2>8. ASSUME NEW s \in r.segs, NEW j \in Logs, s.uuid = r.wal[j].uuid PROVE s.hdr
    <3>1. CASE s = x
      BY <1>3, <3>1
    <3>2. CASE s \in st.segs /\ j = l
      BY <2>1, <2>8, <3>2, <1>5, <1>6
    <3>3. CASE s \in st.segs /\ j # l
      BY <2>8, <3>3, <1>6 DEF Apart
    <3>4. QED
      BY <1>2, <3>1, <3>2, <3>3
  <2>9. QED
    BY <2>2, <2>3, <2>4, <2>5, <2>6, <2>7, <2>8, Zenon DEF Apart
<1>9. \A t \in r.segs : \/ \E s \in st.segs : Grew(s, t) /\ (t = s \/ OpenIn(st, s))
                        \/ t.uuid > st.made /\ (t.hdr => t.ms > st.clock)
  <2>1. x.uuid > st.made /\ x.ms > st.clock
    BY <1>3, <1>4
  <2>2. QED
    BY <1>2, <2>1, GrewRefl
<1>10. \A j \in Logs : r.wal[j].uuid = st.wal[j].uuid \/ r.wal[j].uuid > st.made
  BY <1>4, <1>5, <1>6
<1>11. QED
  BY <1>2, <1>4, <1>8, <1>9, <1>10 DEF Evolves, r

(* The files rr are the files ss, those with a UUID in us perhaps longer.  *)
Longer(ss, rr, us) ==
    \E g : /\ rr = {g[s] : s \in ss}
           /\ \A s \in ss : Grew(s, g[s]) /\ (g[s] = s \/ s.uuid \in us)

(* Writing frames out makes the file of the open segment longer.           *)
LEMMA FlushLonger ==
    ASSUME NEW ss \in SUBSET Segment, NEW w, NEW fs \in SUBSET Frames
    PROVE  Longer(ss, Flush(ss, w, fs), {w.uuid})
<1> DEFINE G(s) == IF s.uuid = w.uuid THEN [s EXCEPT !.recs = @ \cup UNION fs] ELSE s
<1> DEFINE g == [s \in ss |-> G(s)]
<1>1. \A s \in ss : /\ G(s).log = s.log /\ G(s).id = s.id /\ G(s).uuid = s.uuid
                    /\ G(s).ms = s.ms /\ G(s).hdr = s.hdr /\ s.recs \subseteq G(s).recs
  BY DEF Segment
<1>2. \A s \in ss : Grew(s, G(s)) /\ (G(s) = s \/ s.uuid \in {w.uuid})
  <2>1. \A s \in ss : G(s) = s \/ s.uuid \in {w.uuid}
    OBVIOUS
  <2> HIDE DEF G
  <2>2. QED
    BY <1>1, <2>1 DEF Grew
<1>3. Flush(ss, w, fs) = {G(s) : s \in ss}
  BY DEF Flush
<1> HIDE DEF G
<1>4. Flush(ss, w, fs) = {g[s] : s \in ss}
  BY <1>3
<1>5. \A s \in ss : g[s] = G(s)
  OBVIOUS
<1> HIDE DEF g
<1>6. QED
  BY <1>2, <1>4, <1>5, Zenon DEF Longer

(* Longer twice is longer.                                                 *)
LEMMA LongerTrans ==
    ASSUME NEW ss, NEW rr, NEW qq, NEW us, NEW vs, Longer(ss, rr, us), Longer(rr, qq, vs)
    PROVE  Longer(ss, qq, us \cup vs)
<1>1. PICK g : rr = {g[s] : s \in ss} /\ \A s \in ss : Grew(s, g[s]) /\ (g[s] = s \/ s.uuid \in us)
  BY DEF Longer
<1>2. PICK h : qq = {h[s] : s \in rr} /\ \A s \in rr : Grew(s, h[s]) /\ (h[s] = s \/ s.uuid \in vs)
  BY DEF Longer
<1> DEFINE f == [s \in ss |-> h[g[s]]]
<1>3. \A s \in ss : f[s] = h[g[s]] /\ g[s] \in rr
  BY <1>1
<1>4. qq = {f[s] : s \in ss}
  BY <1>1, <1>2, <1>3
<1> HIDE DEF f
<1>5. ASSUME NEW s \in ss PROVE Grew(s, f[s]) /\ (f[s] = s \/ s.uuid \in us \cup vs)
  <2>1. Grew(s, g[s]) /\ Grew(g[s], h[g[s]])
    BY <1>1, <1>2, <1>3
  <2>2. g[s].uuid = s.uuid
    BY <2>1 DEF Grew
  <2>3. QED
    BY <1>1, <1>2, <1>3, <2>1, <2>2, GrewTrans
<1>6. QED
  BY <1>4, <1>5, Zenon DEF Longer

(* Files that only got longer are as apart as they were.                   *)
LEMMA LongerApart ==
    ASSUME NEW st, NEW r, Apart(st), NEW us, Longer(st.segs, r.segs, us),
           \A s \in st.segs : s.uuid \in us => s.hdr,
           r.clock = st.clock,
           \A l \in Logs : r.wal[l].id = st.wal[l].id \/ r.wal[l].id = 0,
           \A l \in Logs, s \in st.segs : s.uuid = r.wal[l].uuid => s.uuid = st.wal[l].uuid,
           \A s \in st.segs : s.log \in Logs
    PROVE  Apart(r)
<1>1. PICK g : r.segs = {g[s] : s \in st.segs} /\ \A s \in st.segs : Grew(s, g[s]) /\ (g[s] = s \/ s.uuid \in us)
  BY DEF Longer
<1>2. \A s \in st.segs : /\ g[s].log = s.log /\ g[s].id = s.id /\ g[s].uuid = s.uuid
                         /\ g[s].ms = s.ms /\ g[s].hdr = s.hdr
  BY <1>1 DEF Grew
<1>3. \A s \in st.segs : g[s] = s \/ s.hdr
  BY <1>1
<1>4. \A s, t \in r.segs : s.uuid = t.uuid => s = t
  BY <1>1, <1>2 DEF Apart
<1>5. \A s, t \in r.segs : s.log = t.log /\ s.id = t.id => s = t
  BY <1>1, <1>2 DEF Apart
<1>6. \A s, t \in r.segs : s.hdr /\ t.hdr /\ s.ms = t.ms => s = t
  BY <1>1, <1>2 DEF Apart
<1>7. \A s \in r.segs : s.ms <= r.clock
  BY <1>1, <1>2 DEF Apart
<1>8. \A s \in r.segs : ~s.hdr => s.recs = {}
  BY <1>1, <1>2, <1>3 DEF Apart
<1>9. \A s \in r.segs : r.wal[s.log].id # 0 => s.id <= r.wal[s.log].id
  BY <1>1, <1>2 DEF Apart
<1>10. \A s \in r.segs, l \in Logs : s.uuid = r.wal[l].uuid => s.hdr
  BY <1>1, <1>2 DEF Apart
<1>11. QED
  BY <1>4, <1>5, <1>6, <1>7, <1>8, <1>9, <1>10, Zenon DEF Apart

(* Every file was there before, perhaps shorter.                           *)
LEMMA LongerFrom ==
    ASSUME NEW ss, NEW rr, NEW us, Longer(ss, rr, us)
    PROVE  \A t \in rr : \E s \in ss : Grew(s, t) /\ (t = s \/ s.uuid \in us)
BY DEF Longer

(* WalWriter::sync.                                                        *)
LEMMA SyncEvolves ==
    ASSUME NEW st, Tidy(st), Apart(st), NEW l \in Logs
    PROVE  Evolves(st, SyncLog(st, l))
<1> DEFINE v == Synced(st.wal[l])
<1> DEFINE r == SyncLog(st, l)
<1>0. /\ st.segs \in SUBSET Segment
      /\ st.made \in Nat /\ st.clock \in Nat
      /\ \A s \in st.segs : s.log \in Logs
      /\ st.wal \in [Logs -> WalWriter]
      /\ st.wal[l] \in WalWriter
      /\ st.wal[l].buf \in SUBSET Frames
  BY StateNumbers, StateTypes DEF Tidy
<1>1. /\ r.segs = Flush(st.segs, st.wal[l], st.wal[l].buf) /\ r.wal = [st.wal EXCEPT ![l] = v]
      /\ r.made = st.made /\ r.clock = st.clock
  BY DEF SyncLog, Synced
<1> HIDE DEF r
<1>2. v \in WalWriter /\ v.id = st.wal[l].id /\ v.uuid = st.wal[l].uuid
  BY <1>0, SyncedWriter
<1> HIDE DEF v
<1>3. r.wal[l] = v /\ \A k \in Logs : k # l => r.wal[k] = st.wal[k]
  BY <1>0, <1>1, <1>2, PutWriter
<1>4. \A k \in Logs : r.wal[k].id = st.wal[k].id /\ r.wal[k].uuid = st.wal[k].uuid
  BY <1>2, <1>3
<1>5. Longer(st.segs, r.segs, {st.wal[l].uuid})
  <2> DEFINE w == st.wal[l]
  <2> DEFINE f == st.wal[l].buf
  <2>1. f \in SUBSET Frames /\ r.segs = Flush(st.segs, w, f)
    BY <1>0, <1>1
  <2> HIDE DEF w, f
  <2>2. Longer(st.segs, Flush(st.segs, w, f), {w.uuid})
    BY <1>0, <2>1, FlushLonger
  <2>3. QED
    BY <2>1, <2>2 DEF w
<1>6. Apart(r)
  <2> DEFINE us == {st.wal[l].uuid}
  <2>1. \A s \in st.segs : s.uuid \in us => s.hdr
    BY DEF Apart
  <2>2. Longer(st.segs, r.segs, us)
    BY <1>5
  <2> HIDE DEF us
  <2>3. /\ \A k \in Logs : r.wal[k].id = st.wal[k].id \/ r.wal[k].id = 0
        /\ \A k \in Logs, s \in st.segs : s.uuid = r.wal[k].uuid => s.uuid = st.wal[k].uuid
    BY <1>4
  <2>4. QED
    BY <1>0, <1>1, <2>1, <2>2, <2>3, LongerApart
<1>7. \A t \in r.segs : \E s \in st.segs : Grew(s, t) /\ (t = s \/ OpenIn(st, s))
  BY <1>5, LongerFrom DEF OpenIn
<1>8. st.made <= r.made /\ st.clock <= r.clock
  BY <1>0, <1>1
<1>9. QED
  BY <1>4, <1>6, <1>7, <1>8 DEF Evolves, r

(* Methods that touch no file and keep the writers' segments.              *)
LEMMA SameFilesEvolve ==
    ASSUME NEW st, NEW r, Tidy(st), Apart(st), r.segs = st.segs, r.made = st.made, r.clock = st.clock,
           \A l \in Logs : r.wal[l].id = st.wal[l].id /\ r.wal[l].uuid = st.wal[l].uuid
    PROVE  Evolves(st, r)
<1>0. st.made \in Nat /\ st.clock \in Nat /\ \A s \in st.segs : s.log \in Logs
  BY StateNumbers DEF Tidy
<1>1. Apart(r)
  BY <1>0 DEF Apart
<1>2. \A t \in r.segs : \E s \in st.segs : Grew(s, t) /\ (t = s \/ OpenIn(st, s))
  BY GrewRefl
<1>3. QED
  BY <1>0, <1>1, <1>2 DEF Evolves

(* A frame put in the buffer touches no file.                              *)
LEMMA GrownEvolves ==
    ASSUME NEW st, Tidy(st), Apart(st), NEW l \in Logs, NEW recs \in SUBSET Nat, IsFiniteSet(recs)
    PROVE  Evolves(st, Grown(st, l, recs))
<1> DEFINE v == Added(st.wal[l], recs)
<1> DEFINE r == Grown(st, l, recs)
<1>0. /\ st.wal \in [Logs -> WalWriter] /\ st.wal[l] \in WalWriter
      /\ Cardinality(recs) \in Nat
  BY StateTypes, FS_CardinalityType DEF Tidy
<1>1. r.segs = st.segs /\ r.wal = [st.wal EXCEPT ![l] = v] /\ r.made = st.made /\ r.clock = st.clock
  BY DEF Grown, Added
<1> HIDE DEF r
<1>2. v \in WalWriter /\ v.id = st.wal[l].id /\ v.uuid = st.wal[l].uuid
  BY <1>0, AddedWriter
<1> HIDE DEF v
<1>3. r.wal[l] = v /\ \A k \in Logs : k # l => r.wal[k] = st.wal[k]
  BY <1>0, <1>1, <1>2, PutWriter
<1>4. \A k \in Logs : r.wal[k].id = st.wal[k].id /\ r.wal[k].uuid = st.wal[k].uuid
  BY <1>2, <1>3
<1>5. QED
  BY <1>1, <1>4, SameFilesEvolve DEF r

(* Reporting a count touches no file.                                      *)
LEMMA ReportedEvolves ==
    ASSUME NEW st, Tidy(st), Apart(st)
    PROVE  Evolves(st, Reported(st))
<1> DEFINE r == Reported(st)
<1>0. \A k \in Logs : st.wal[k] \in WalWriter
  BY StateTypes DEF Tidy
<1>1. /\ r.segs = st.segs /\ r.made = st.made /\ r.clock = st.clock
      /\ r.wal = [l \in Logs |-> [st.wal[l] EXCEPT !.reported = st.wal[l].synced]]
  BY DEF Reported
<1> HIDE DEF r
<1>2. \A w \in WalWriter : [w EXCEPT !.reported = w.synced].id = w.id /\ [w EXCEPT !.reported = w.synced].uuid = w.uuid
  BY DEF WalWriter
<1>3. \A k \in Logs : r.wal[k].id = st.wal[k].id /\ r.wal[k].uuid = st.wal[k].uuid
  BY <1>0, <1>1, <1>2
<1>4. QED
  BY <1>1, <1>3, SameFilesEvolve DEF r

(* roll is sync and create: the new segment follows the open one.          *)
LEMMA RollEvolves ==
    ASSUME NEW st, Tidy(st), Apart(st), NEW l \in Logs, Open(st, l)
    PROVE  Evolves(st, Roll(st, l, 1))
<1> DEFINE y == SyncLog(st, l)
<1> DEFINE i == st.wal[l].id + 1
<1> DEFINE r == CreateSegment(y, l, i, 1)
<1>1. /\ Evolves(st, y) /\ Tidy(y) /\ y.wal[l].id = st.wal[l].id
      /\ Good(st) /\ Good(y)
  BY SyncEvolves, SyncTends, SyncEffect DEF Tends, Tidy
<1>2. Roll(st, l, 1) = r
  BY DEF Roll
<1>3. Tends(st, r) /\ Tidy(r)
  BY <1>2, RollTends DEF Tends
<1>4. st.wal[l].id \in Nat /\ st.wal[l].id # 0
  <2>1. PICK s \in st.segs : s.uuid = st.wal[l].uuid
    BY DEF Open, Uuids
  <2>2. s.id = st.wal[l].id /\ s \in Segment
    BY <2>1, <1>1, StateNumbers DEF Tidy, Owned
  <2>3. QED
    BY <2>2 DEF Segment
<1> HIDE DEF y
<1>5. Apart(y) /\ \A s \in y.segs : s.id \in Nat
  BY <1>1, StateNumbers DEF Evolves
<1>6. \A s \in y.segs : s.log = l => s.id <= st.wal[l].id
  BY <1>1, <1>4, <1>5 DEF Apart
<1>7. i \in Nat \ {0} /\ \A s \in y.segs : s.log = l => s.id < i
  BY <1>4, <1>5, <1>6
<1> HIDE DEF i
<1>8. Evolves(y, r)
  BY <1>1, <1>5, <1>7, CreateEvolves
<1> HIDE DEF r
<1>9. QED
  BY <1>1, <1>2, <1>3, <1>8, EvolvesTrans

(* append is a roll when the segment is full, then the frame.              *)
LEMMA AppendEvolves ==
    ASSUME NEW st, Tidy(st), Apart(st), NEW l \in Logs, Open(st, l), NEW recs \in SUBSET Nat,
           IsFiniteSet(recs)
    PROVE  Evolves(st, AppendLog(st, l, recs, 1))
<1>1. CASE recs = {}
  BY <1>1, EvolvesRefl DEF AppendLog
<1>2. CASE recs # {}
  <2> DEFINE g == Grown(st, l, recs)
  <2> DEFINE r == Roll(g, l, 1)
  <2>1. Evolves(st, g) /\ Tidy(g) /\ Apart(g) /\ Open(g, l)
    BY <1>2, GrownEvolves, GrownTends, GrownEffect DEF Tends, Took, Evolves, Tidy
  <2>2. AppendLog(st, l, recs, 1) \in {g, r}
    BY <1>2 DEF AppendLog
  <2> HIDE DEF g
  <2>3. Evolves(g, r)
    BY <2>1, RollEvolves
  <2>4. Tidy(r)
    BY <2>1, RollTends DEF Tends
  <2> HIDE DEF r
  <2>5. QED
    BY <2>1, <2>2, <2>3, <2>4, EvolvesTrans
<1>3. QED
  BY <1>1, <1>2

(* roll_if_due rolls or does nothing.                                      *)
LEMMA RollIfDueEvolves ==
    ASSUME NEW st, Tidy(st), Apart(st), Open(st, "late"), NEW due
    PROVE  Evolves(st, RollIfDue(st, due, 1))
<1>1. RollIfDue(st, due, 1) \in {st, Roll(st, "late", 1)}
  BY DEF RollIfDue
<1>2. QED
  BY <1>1, RollEvolves, EvolvesRefl DEF Logs

(* maybe_sync syncs or does nothing.                                       *)
LEMMA MaybeSyncEvolves ==
    ASSUME NEW st, Tidy(st), Apart(st), NEW l \in Logs, NEW elapsed
    PROVE  Evolves(st, MaybeSyncLog(st, l, elapsed))
<1>1. MaybeSyncLog(st, l, elapsed) \in {st, SyncLog(st, l)}
  BY DEF MaybeSyncLog
<1>2. QED
  BY <1>1, SyncEvolves, EvolvesRefl

(* SplitWal::sync, the main log first.                                     *)
LEMMA SyncBothEvolves ==
    ASSUME NEW st, Tidy(st), Apart(st)
    PROVE  Evolves(st, SyncBoth(st))
<1> DEFINE a == MaybeSyncLog(st, "main", TRUE)
<1> DEFINE b == MaybeSyncLog(a, "late", TRUE)
<1>1. SyncBoth(st) = b
  BY DEF SyncBoth
<1>2. Evolves(st, a) /\ Tidy(a)
  BY MaybeSyncEvolves, MaybeSyncTends DEF Logs, Tends
<1> HIDE DEF a
<1>3. Evolves(a, b) /\ Tidy(b)
  BY <1>2, MaybeSyncEvolves, MaybeSyncTends DEF Logs, Tends, Evolves
<1> HIDE DEF b
<1>4. QED
  BY <1>1, <1>2, <1>3, EvolvesTrans

(* NextId is above every id of its log.                                    *)
LEMMA NextIdAbove ==
    ASSUME Good(State), NEW l \in Logs
    PROVE  NextId(l) \in Nat \ {0} /\ \A s \in segs : s.log = l => s.id < NextId(l)
<1> DEFINE ids == {s.id : s \in {x \in segs : x.log = l}}
<1>0. segs \in SUBSET Segment /\ made \in Nat /\ \A s \in segs : s.id <= made /\ s.id \in Nat
  BY StateFields, StateNumbers DEF Good
<1>1. NextId(l) \in Nat \ {0}
  BY <1>0, NextIdBound
<1>2. ids \in SUBSET Nat /\ (\A i \in ids : i <= made) /\ \A s \in segs : s.log = l => s.id \in ids
  BY <1>0
<1>3. NextId(l) = IF ids = {} THEN 1 ELSE 1 + CHOOSE i \in ids : \A j \in ids : j <= i
  BY DEF NextId
<1> HIDE DEF ids
<1>4. CASE ids = {}
  BY <1>1, <1>2, <1>4
<1>5. CASE ids # {}
  <2> DEFINE m == CHOOSE i \in ids : \A j \in ids : j <= i
  <2>1. \E i \in ids : \A j \in ids : j <= i
    BY <1>0, <1>2, <1>5, MaxExists
  <2>2. m \in ids /\ \A j \in ids : j <= m
    BY <2>1
  <2>3. NextId(l) = 1 + m
    BY <1>3, <1>5
  <2> HIDE DEF m
  <2>4. \A j \in ids : j < 1 + m
    BY <1>2, <2>2
  <2>5. QED
    BY <1>1, <1>2, <2>3, <2>4
<1>6. QED
  BY <1>4, <1>5

(* A step of the writer, or a crash, seen from the files.                  *)
SegStep ==
    /\ Apart(State)'
    /\ \A t \in segs' : \/ \E s \in segs : Grew(s, t) /\ (t = s \/ OpenIn(State, s))
                        \/ t.uuid > made /\ (t.hdr => t.ms > clock)
    /\ made <= made'
    /\ clock <= clock'
    /\ \A l \in Logs : wal'[l].uuid = 0 \/ wal'[l].uuid = wal[l].uuid \/ wal'[l].uuid > made

(* A step made of such methods is a SegStep.                               *)
LEMMA BecomeSegStep ==
    ASSUME NEW r, Good(r), Become(r), Evolves(State, r)
    PROVE  SegStep
<1>1. /\ State' = r /\ segs' = r.segs /\ wal' = r.wal /\ made' = r.made /\ clock' = r.clock
  BY BecomeIs DEF Become
<1>2. Apart(State)'
  BY <1>1 DEF Evolves
<1>3. QED
  BY <1>1, <1>2, StateFields DEF Evolves, SegStep

(* The writers close, the files got longer, and a file without a header    *)
(* may have been left.                                                     *)
LEMMA ClosedSegStep ==
    ASSUME Tidy(State), Apart(State), NEW ss, NEW us, Longer(segs, ss, us),
           us \subseteq {wal[l].uuid : l \in Logs},
           NEW torn, segs' = ss \cup torn, wal' = ClosedWriters, made' \in Nat, made <= made', clock' = clock,
           \A x \in torn : /\ x.uuid > made /\ ~x.hdr /\ x.recs = {} /\ x.ms = clock
                           /\ x.log \in Logs
                           /\ \A s \in segs : s.log = x.log => s.id < x.id,
           \A x, y \in torn : x = y
    PROVE  SegStep
<1> DEFINE q == [segs |-> ss, wal |-> ClosedWriters, made |-> made, clock |-> clock]
<1>0. /\ made \in Nat /\ clock \in Nat
      /\ \A s \in segs : s.log \in Logs /\ s.id \in Nat /\ s.uuid \in Nat /\ s.uuid <= made /\ s.uuid # 0
      /\ \A s \in segs : s.ms \in Nat
  BY StateFields, StateNumbers DEF Tidy, Owned
<1>1. q.segs = ss /\ q.wal = ClosedWriters /\ q.clock = clock
  OBVIOUS
<1>2. \A l \in Logs : ClosedWriters[l].id = 0 /\ ClosedWriters[l].uuid = 0
  BY DEF ClosedWriters, ClosedWriter
<1>3. \A s \in segs : s.uuid \in us => s.hdr
  BY StateFields DEF Apart
<1> HIDE DEF q
<1>4. Apart(q)
  <2>1. /\ Longer(State.segs, q.segs, us)
        /\ \A s \in State.segs : s.uuid \in us => s.hdr
        /\ q.clock = State.clock
        /\ \A s \in State.segs : s.log \in Logs
    BY <1>0, <1>1, <1>3, StateFields
  <2>2. \A l \in Logs : q.wal[l].id = State.wal[l].id \/ q.wal[l].id = 0
    BY <1>1, <1>2
  <2>3. \A l \in Logs, s \in State.segs : s.uuid = q.wal[l].uuid => s.uuid = State.wal[l].uuid
    BY <1>0, <1>1, <1>2, StateFields
  <2>4. QED
    BY <2>1, <2>2, <2>3, LongerApart
<1>5. \A t \in ss : \E s \in segs : Grew(s, t) /\ (t = s \/ s.uuid \in us)
  BY LongerFrom
<1>6. \A t \in ss : /\ t.log \in Logs /\ t.id \in Nat /\ t.uuid \in Nat /\ t.uuid <= made /\ t.uuid # 0
                    /\ \A x \in torn : t.log = x.log => t.id < x.id
  BY <1>0, <1>5 DEF Grew
<1>7. /\ State'.segs = ss \cup torn /\ State'.wal = ClosedWriters /\ State'.clock = clock
  BY DEF State
<1>8. Apart(State)'
  <2> DEFINE st == State'
  <2>0. st.segs = ss \cup torn /\ st.wal = ClosedWriters /\ st.clock = clock
    BY <1>7
  <2> HIDE DEF st
  <2>1. \A t \in ss, x \in torn : t.uuid # x.uuid /\ ~(t.log = x.log /\ t.id = x.id)
    BY <1>0, <1>6
  <2>2. \A s, t \in st.segs : s.uuid = t.uuid => s = t
    BY <2>0, <2>1, <1>1, <1>4 DEF Apart
  <2>3. \A s, t \in st.segs : s.log = t.log /\ s.id = t.id => s = t
    BY <2>0, <2>1, <1>1, <1>4 DEF Apart
  <2>4. \A s, t \in st.segs : s.hdr /\ t.hdr /\ s.ms = t.ms => s = t
    BY <2>0, <1>1, <1>4 DEF Apart
  <2>5. \A s \in st.segs : s.ms <= st.clock
    BY <2>0, <1>0, <1>1, <1>4 DEF Apart
  <2>6. \A s \in st.segs : ~s.hdr => s.recs = {}
    BY <2>0, <1>1, <1>4 DEF Apart
  <2>7. \A s \in st.segs : st.wal[s.log].id # 0 => s.id <= st.wal[s.log].id
    BY <2>0, <1>2, <1>6
  <2>8. \A s \in st.segs, l \in Logs : s.uuid = st.wal[l].uuid => s.hdr
    <3>1. \A s \in st.segs : s.uuid # 0
      BY <2>0, <1>0, <1>6
    <3>2. QED
      BY <2>0, <1>2, <3>1
  <2>9. Apart(st)
    BY <2>2, <2>3, <2>4, <2>5, <2>6, <2>7, <2>8, Zenon DEF Apart
  <2>10. QED
    BY <2>9 DEF st
<1>9. \A t \in segs' : \/ \E s \in segs : Grew(s, t) /\ (t = s \/ OpenIn(State, s))
                       \/ t.uuid > made /\ (t.hdr => t.ms > clock)
  <2>1. \A s \in segs : s.uuid \in us => OpenIn(State, s)
    BY StateFields DEF OpenIn
  <2>2. QED
    BY <1>5, <2>1
<1>10. clock <= clock'
  BY <1>0
<1>11. QED
  BY <1>2, <1>8, <1>9, <1>10 DEF SegStep

(* What a crash leaves of the buffers makes the files longer.              *)
LEMMA TornLonger ==
    ASSUME Tidy(State), NEW m \in Survivors("main"), NEW n \in Survivors("late")
    PROVE  Longer(segs, Torn([main |-> m, late |-> n]), {wal["main"].uuid} \cup {wal["late"].uuid})
<1>1. /\ m \in SUBSET wal["main"].buf /\ n \in SUBSET wal["late"].buf
  BY DEF Survivors, Logs
<1>2. segs \in SUBSET Segment /\ m \in SUBSET Frames /\ n \in SUBSET Frames
  BY <1>1, StateTypes, StateFields DEF Tidy, Logs
<1> DEFINE w == wal["main"]
<1> DEFINE v == wal["late"]
<1> DEFINE a == Flush(segs, w, m)
<1> DEFINE b == Flush(a, v, n)
<1>5. Torn([main |-> m, late |-> n]) = b
  BY DEF Torn
<1>3. w \in WalWriter
  BY StateTypes, StateFields DEF Tidy, Logs
<1> HIDE DEF w, v
<1>4. Longer(segs, a, {w.uuid}) /\ a \in SUBSET Segment
  BY <1>2, <1>3, FlushLonger, FlushEffect
<1> HIDE DEF a
<1>6. Longer(a, b, {v.uuid})
  BY <1>2, <1>4, FlushLonger
<1> HIDE DEF b
<1> DEFINE us == {w.uuid}
<1> DEFINE vs == {v.uuid}
<1>7. Longer(segs, b, us \cup vs)
  <2>1. Longer(segs, a, us) /\ Longer(a, b, vs)
    BY <1>4, <1>6
  <2> HIDE DEF us, vs
  <2>2. QED
    BY <2>1, LongerTrans
<1>8. QED
  BY <1>5, <1>7 DEF w, v

(* Every step of the writer, every write error and every crash is a        *)
(* SegStep, when no two segments are created within one millisecond.       *)
LEMMA SegStepInv ==
    ASSUME NEW X, Inv(X), PubInv, Apart(State), ~SameMs, [Next]_walVars
    PROVE  SegStep
<1>0. Ticks = {1} /\ Tidy(State) /\ Good(State) /\ PubInv'
  BY PubStep DEF Ticks, PubInv, Tidy
<1>1. ASSUME OpenMain PROVE SegStep
  <2> DEFINE i == NextId("main")
  <2> DEFINE r == CreateSegment(State, "main", i, 1)
  <2>1. Become(r)
    BY <1>0, <1>1 DEF OpenMain
  <2>2. i \in Nat \ {0} /\ \A s \in State.segs : s.log = "main" => s.id < i
    BY <1>0, NextIdAbove, StateFields DEF Logs
  <2>3. State' = r
    BY <2>1 DEF State, Become, CreateSegment
  <2>4. Good(r)
    BY <1>0, <2>3 DEF PubInv, Tidy
  <2> HIDE DEF i
  <2>5. Evolves(State, r)
    BY <1>0, <2>2, CreateEvolves DEF Logs
  <2> HIDE DEF r
  <2>6. QED
    BY <2>1, <2>4, <2>5, BecomeSegStep
<1>2. ASSUME OpenLate PROVE SegStep
  <2> DEFINE i == NextId("late")
  <2> DEFINE r == CreateSegment(State, "late", i, 1)
  <2>1. Become(r)
    BY <1>0, <1>2 DEF OpenLate
  <2>2. i \in Nat \ {0} /\ \A s \in State.segs : s.log = "late" => s.id < i
    BY <1>0, NextIdAbove, StateFields DEF Logs
  <2>3. State' = r
    BY <2>1 DEF State, Become, CreateSegment
  <2>4. Good(r)
    BY <1>0, <2>3 DEF PubInv, Tidy
  <2> HIDE DEF i
  <2>5. Evolves(State, r)
    BY <1>0, <2>2, CreateEvolves DEF Logs
  <2> HIDE DEF r
  <2>6. QED
    BY <2>1, <2>4, <2>5, BecomeSegStep
<1>3. ASSUME NEW n \in 0 .. BatchMax, NEW L \in SUBSET Records,
             (\E stop \in BOOLEAN : Pass(n, L, stop)) \/ Drain(n, L)
      PROVE  SegStep
  <2>1. n \in Nat /\ total \in Nat
    BY SplitWalAssumption DEF Inv, TypeOK
  <2>2. PICK next \in {"sync", "lastSync"} : AppendMain(n, L, next) /\ wpc \in {"idle", "drain"}
    BY <1>3 DEF Pass, Drain
  <2> DEFINE M == (total + 1 .. total + n) \ L
  <2> DEFINE r == AppendLog(State, "main", M, 1)
  <2>3. Become(r) /\ L \subseteq total + 1 .. total + n
    BY <1>0, <2>2 DEF AppendMain
  <2>4. IsFiniteSet(M) /\ M \in SUBSET Nat
    BY <2>1, <2>3, BatchSplit
  <2>5. Open(State, "main")
    BY <2>2 DEF Inv, Opens, Up
  <2> HIDE DEF M
  <2>6. Evolves(State, r) /\ Good(r)
    BY <1>0, <2>4, <2>5, AppendEvolves, AppendEffect DEF Logs, Took
  <2> HIDE DEF r
  <2>7. QED
    BY <2>3, <2>6, BecomeSegStep
<1>4. ASSUME AppendLate PROVE SegStep
  <2>1. PICK due \in BOOLEAN : Become(AppendLog(RollIfDue(State, due, 1), "late", late, 1))
    BY <1>0, <1>4 DEF AppendLate
  <2> DEFINE a == RollIfDue(State, due, 1)
  <2> DEFINE r == AppendLog(a, "late", late, 1)
  <2>2. Become(r)
    BY <2>1
  <2>3. Open(State, "late") /\ IsFiniteSet(late) /\ late \in SUBSET Nat
    BY <1>4 DEF AppendLate, Inv, Opens, Up, Counts, TypeOK
  <2>4. Evolves(State, a) /\ Tidy(a) /\ Kept(State, a)
    BY <1>0, <2>3, RollIfDueEvolves, RollIfDueTends, RollIfDueEffect DEF Tends
  <2> HIDE DEF a
  <2>5. Open(a, "late") /\ Apart(a) /\ Good(a)
    BY <2>3, <2>4 DEF Kept, Evolves, Logs
  <2>6. Evolves(a, r) /\ Tidy(r)
    BY <2>3, <2>4, <2>5, AppendEvolves, AppendTends DEF Logs, Tends
  <2> HIDE DEF r
  <2>7. Evolves(State, r) /\ Good(r)
    BY <1>0, <2>4, <2>6, EvolvesTrans DEF Tidy
  <2>8. QED
    BY <2>2, <2>7, BecomeSegStep
<1>5. ASSUME NEW due \in BOOLEAN, NEW em \in BOOLEAN, NEW el \in BOOLEAN, MaybeSync(due, em, el)
      PROVE  SegStep
  <2> DEFINE a == RollIfDue(State, due, 1)
  <2> DEFINE b == MaybeSyncLog(a, "main", em)
  <2> DEFINE c == MaybeSyncLog(b, "late", el)
  <2> DEFINE d == Reported(c)
  <2> DEFINE e == SyncBoth(d)
  <2>1. Become(e) \/ Become(d)
    BY <1>0, <1>5 DEF MaybeSync
  <2>2. Open(State, "late")
    BY <1>5 DEF MaybeSync, Inv, Opens, Up
  <2>3. Evolves(State, a) /\ Tidy(a)
    BY <1>0, <2>2, RollIfDueEvolves, RollIfDueTends DEF Tends
  <2> HIDE DEF a
  <2>4. Evolves(a, b) /\ Tidy(b)
    BY <2>3, MaybeSyncEvolves, MaybeSyncTends DEF Tends, Evolves, Logs
  <2> HIDE DEF b
  <2>5. Evolves(b, c) /\ Tidy(c)
    BY <2>4, MaybeSyncEvolves, MaybeSyncTends DEF Tends, Evolves, Logs
  <2> HIDE DEF c
  <2>6. Evolves(c, d) /\ Tidy(d)
    BY <2>5, ReportedEvolves, ReportedTends DEF Tends, Evolves
  <2> HIDE DEF d
  <2>7. Evolves(d, e) /\ Tidy(e)
    BY <2>6, SyncBothEvolves, SyncBothTends DEF Tends, Evolves
  <2> HIDE DEF e
  <2>8. Evolves(State, b)
    BY <1>0, <2>3, <2>4, EvolvesTrans
  <2>9. Evolves(State, c)
    BY <1>0, <2>4, <2>5, <2>8, EvolvesTrans
  <2>10. Evolves(State, d)
    BY <1>0, <2>5, <2>6, <2>9, EvolvesTrans
  <2>11. Evolves(State, e)
    BY <1>0, <2>6, <2>7, <2>10, EvolvesTrans
  <2>12. QED
    BY <2>1, <2>6, <2>7, <2>10, <2>11, BecomeSegStep DEF Tidy
<1>6. ASSUME LastSync PROVE SegStep
  <2> DEFINE e == SyncBoth(State)
  <2>1. Become(e)
    BY <1>6 DEF LastSync
  <2>2. Evolves(State, e) /\ Tidy(e)
    BY <1>0, SyncBothEvolves, SyncBothTends DEF Tends
  <2> HIDE DEF e
  <2>3. QED
    BY <2>1, <2>2, BecomeSegStep DEF Tidy
<1>7. segs \in SUBSET Segment /\ made \in Nat /\ clock \in Nat /\ segs = {s : s \in segs}
  BY <1>0, StateNumbers, StateFields
<1>8. ASSUME Publish \/ (\E l \in Logs : PublishActive(l)) \/ UNCHANGED walVars PROVE SegStep
  <2>1. segs' = segs /\ made' = made /\ clock' = clock /\ (wal' = wal \/ wal' = ClosedWriters)
    BY <1>8 DEF Publish, PublishActive, walVars
  <2>2. CASE wal' = wal
    <3>1. State' = State
      BY <2>1, <2>2 DEF State
    <3>2. QED
      BY <1>7, <2>1, <2>2, <3>1, GrewRefl DEF SegStep
  <2>3. CASE wal' = ClosedWriters
    <3>1. Longer(segs, segs, {})
      <4> DEFINE g == [s \in segs |-> s]
      <4>1. segs = {g[s] : s \in segs} /\ \A s \in segs : g[s] = s
        OBVIOUS
      <4> HIDE DEF g
      <4>2. QED
        BY <4>1, GrewRefl DEF Longer
    <3>2. segs' = segs \cup {} /\ {} \subseteq {wal[l].uuid : l \in Logs}
      BY <2>1
    <3>3. made' \in Nat /\ made <= made' /\ clock' = clock
      BY <1>7, <2>1
    <3> DEFINE none == {}
    <3>4. Longer(segs, segs, none) /\ segs' = segs \cup none /\ none \subseteq {wal[l].uuid : l \in Logs}
          /\ \A x \in none : FALSE
      BY <3>1, <3>2
    <3> HIDE DEF none
    <3>5. QED
      BY <1>0, <2>3, <3>3, <3>4, ClosedSegStep
  <2>4. QED
    BY <2>1, <2>2, <2>3
<1> DEFINE us == {wal["main"].uuid} \cup {wal["late"].uuid}
<1>9. us \subseteq {wal[l].uuid : l \in Logs}
  BY DEF Logs
<1>10. \A m \in Survivors("main"), n \in Survivors("late") : Longer(segs, Torn([main |-> m, late |-> n]), us)
  BY <1>0, TornLonger
<1> HIDE DEF us
<1>11. ASSUME WriterError \/ Crash PROVE SegStep
  <2>1. PICK m \in Survivors("main"), n \in Survivors("late") :
           segs' = Torn([main |-> m, late |-> n]) \cup {} /\ wal' = ClosedWriters
           /\ made' \in {made, made + Cardinality({})} /\ clock' = clock
    BY <1>11 DEF WriterError, Crash, CrashLeaving
  <2>2. made' \in Nat /\ made <= made'
    BY <1>7, <2>1, FS_EmptySet
  <2> DEFINE none == {}
  <2> DEFINE ss == Torn([main |-> m, late |-> n])
  <2>3. Longer(segs, ss, us) /\ segs' = ss \cup none /\ \A x \in none : FALSE
    BY <1>10, <2>1
  <2> HIDE DEF none, ss
  <2>4. QED
    BY <1>0, <1>9, <2>1, <2>2, <2>3, ClosedSegStep
<1>12. ASSUME NEW l \in Logs, CrashInCreate(l) PROVE SegStep
  <2> DEFINE i == NextId(l)
  <2> DEFINE x == [log |-> l, id |-> i, uuid |-> made + 1, ms |-> clock, hdr |-> FALSE, recs |-> {}]
  <2>1. PICK m \in Survivors("main"), n \in Survivors("late") : CrashLeaving([main |-> m, late |-> n], {x})
    BY <1>12 DEF CrashInCreate
  <2> DEFINE ss == Torn([main |-> m, late |-> n])
  <2> DEFINE torn == {x}
  <2>2. Longer(segs, ss, us) /\ segs' = ss \cup torn /\ wal' = ClosedWriters /\ clock' = clock
        /\ made' = made + Cardinality({x})
    BY <1>10, <2>1 DEF CrashLeaving
  <2>3. made' \in Nat /\ made <= made'
    <3>1. Cardinality({x}) = 1
      BY FS_Singleton
    <3>2. QED
      BY <1>7, <2>2, <3>1
  <2>4. \A s \in segs : s.log = l => s.id < i
    BY <1>0, NextIdAbove
  <2> HIDE DEF i
  <2>5. x.uuid > made /\ ~x.hdr /\ x.recs = {} /\ x.ms = clock /\ x.log \in Logs
        /\ \A s \in segs : s.log = x.log => s.id < x.id
    BY <1>7, <2>4
  <2> HIDE DEF x, ss
  <2>6. (\A y \in torn : y = x) /\ (\A y, z \in torn : y = z)
    OBVIOUS
  <2> HIDE DEF torn
  <2>7. \A y \in torn : /\ y.uuid > made /\ ~y.hdr /\ y.recs = {} /\ y.ms = clock
                          /\ y.log \in Logs
                          /\ \A s \in segs : s.log = y.log => s.id < y.id
    BY <2>5, <2>6
  <2>8. QED
    BY <1>0, <1>9, <2>2, <2>3, <2>6, <2>7, ClosedSegStep
<1>13. QED
  BY <1>1, <1>2, <1>3, <1>4, <1>5, <1>6, <1>8, <1>11, <1>12 DEF Next, WriterNext

-----------------------------------------------------------------------------
(* The inductive invariant of the maintenance thread beside the writer.    *)

(* The rows of the files that are listed as they are on disk.              *)
Archived == Rows(committed \cap files)

(* What SplitWalProofs says of the log.                                    *)
WalPart == TypeOK /\ Good(State) /\ Counts /\ Opens /\ PubInv /\ Apart(State)

(* An acknowledged record is in a segment, or in a file that is listed as  *)
(* it is.                                                                  *)
Where == Placed(Archived)

(* The log holds records only.                                             *)
Bounded == Stored \subseteq Records

(* A file not made by compaction carries the millisecond of its segment,   *)
(* and as long as that segment is there it holds what the file does.  No   *)
(* file is from the future.                                                *)
Sources ==
    \A f \in files \cup committed :
        /\ f.ms <= clock
        /\ f.id # 0 => \A s \in segs : s.hdr /\ s.ms = f.ms => f.rows \subseteq s.recs

(* A path names one file.                                                  *)
OnePath == \A f, g \in files : PathOf(f) = PathOf(g) => f = g

(* A listed row has a file at its path.  The file may have been rewritten  *)
(* since under another policy: then the rows it was listed with are still  *)
(* in a segment or in files listed as they are.                            *)
Listed ==
    /\ \A g \in committed : \E f \in files : PathOf(f) = PathOf(g)
    /\ Rows(committed) \subseteq Disk(segs) \cup Archived

(* The listed files that may hold the records of s: its own, by the        *)
(* millisecond in their names, and the outputs of compaction.              *)
Home(s) == {f \in committed \cap files : f.id = 0 \/ f.ms = s.ms}

(* A segment in merged_segments is closed and its records are in listed    *)
(* files.                                                                  *)
Marked ==
    /\ merged \subseteq 1 .. made
    /\ \A s \in segs : s.uuid \in merged =>
          /\ s.hdr
          /\ s.recs \subseteq Rows(Home(s))
          /\ \A l \in Logs : wal[l].uuid # s.uuid

(* The files, the catalog and the markers.                                 *)
Store == Sources /\ OnePath /\ Listed /\ Marked

(* merge_segment is under way.                                             *)
Merging == mpc \in {"write", "commit", "remove"}

(* The thread acts on ids that were published, and a final pass runs after *)
(* the writer has ended.                                                   *)
Phases ==
    /\ \A l \in Logs : limit[l] <= active[l]
    /\ wpc = "down" => mpc = "idle" /\ active = [l \in Logs |-> 0]
    /\ final => phase /\ mpc \notin {"idle", "readLate", "exited"}
    /\ phase => wpc = "done"
    /\ mpc = "exited" => phase

(* merge_all works on closed segments that are there.                      *)
Listing ==
    /\ queue \subseteq segs
    /\ \A s \in queue : Eligible(s)
    /\ Merging => cur \in segs /\ Eligible(cur) /\ cur \notin queue /\ cur.hdr
    /\ ~Merging => cur = NoSegment
    /\ mpc # "take" /\ ~Merging => queue = {}
    /\ entries \subseteq files

(* What has been written and what is still to be written cover the         *)
(* segment; only a committed one is removed.                               *)
Writing ==
    /\ mpc \in {"write", "commit"} =>
          /\ cur.uuid \notin merged
          /\ mpc = "write" => todo \subseteq Partitions
          /\ mpc = "commit" => todo = {}
          /\ \A e \in entries : e.id = cur.id /\ e.ms = cur.ms /\ e.part \notin todo
          /\ \A r \in cur.recs : mlayout[r] \in todo \/ r \in Rows(entries)
    /\ mpc = "remove" => cur.uuid \in merged

(* The output of a compaction holds what its inputs do; they are unlinked  *)
(* once they are not listed.                                               *)
Compacting ==
    /\ mpc \in {"record", "unlink"} => todo \subseteq files
    /\ mpc = "record" => \E f \in entries : /\ f.id = 0
                                            /\ Rows(todo) \subseteq f.rows
                                            /\ \A g \in todo : PathOf(g) # PathOf(f)
    /\ mpc = "unlink" => /\ \A g \in committed, f \in todo : PathOf(f) # PathOf(g)
                         /\ Rows(todo) \subseteq Archived

(* A final pass without an error leaves no segment behind in what it has   *)
(* worked through.                                                         *)
Finishing ==
    /\ final /\ clean =>
          /\ mlog = "late" => \A s \in segs : s.log # "main"
          /\ mpc = "take" \/ Merging => \A s \in segs : s.log = mlog => s \in queue \cup {cur}
          /\ mpc \in {"compact", "record", "unlink"} => segs = {}
    /\ mpc = "exited" /\ clean => segs = {}

(* Where a maintenance pass stands.                                        *)
PassInv == Phases /\ Listing /\ Writing /\ Compacting /\ Finishing

(* The inductive invariant.                                                *)
MergeInvariant == MergeTypeOK /\ WalPart /\ Where /\ Bounded /\ Store /\ PassInv

(* The catalog a reader sees, and what a power loss would leave of it.     *)
(* Either may be older than what was committed, and yet the rows it lists  *)
(* are on disk.                                                            *)
Journal ==
    /\ CatalogTypeOK
    /\ durable.merged \subseteq merged
    /\ Rows(catalog) \cup Rows(durable.catalog) \subseteq Disk(segs) \cup Rows(files)

(* A step of the maintenance thread leaves the writer's own variables      *)
(* alone, and its open segments.                                           *)
LEMMA QuietStep ==
    ASSUME WalPart, Where, Bounded,
           UNCHANGED <<wal, made, wpc, stopping, late, total, base, published, active, starts, acked>>,
           segs' \subseteq segs, \A s \in segs, l \in Logs : s.uuid = wal[l].uuid => s \in segs',
           clock' \in Nat, clock <= clock',
           Disk(segs) \cup Archived \subseteq Disk(segs') \cup Archived'
    PROVE  WalPart' /\ Where' /\ Bounded'
<1>0. /\ segs \in SUBSET Segment /\ wal \in [Logs -> WalWriter] /\ made \in Nat /\ clock \in Nat
      /\ \A s \in segs : s.id <= made /\ s.ms \in Nat
      /\ wal' = wal /\ made' = made
      /\ State.segs = segs /\ State.wal = wal /\ State.made = made /\ State.clock = clock
  BY StateFields, StateNumbers DEF WalPart, TypeOK, Good
<1> DEFINE r == State'
<1>1. /\ r = [segs |-> segs', wal |-> wal, made |-> made, clock |-> clock']
      /\ r.segs = segs' /\ r.wal = wal /\ r.made = made /\ r.clock = clock'
  BY DEF State
<1> HIDE DEF r
<1>2. r \in StateSet
  BY <1>0, <1>1 DEF StateSet
<1>3. \A l \in Logs : wal[l].uuid \in Uuids(segs) => wal[l].uuid \in Uuids(segs')
  BY DEF Uuids
<1>4. Good(r)
  <2>1. \A l \in Logs : wal[l].id <= made /\ (wal[l].buf # {} => wal[l].uuid \in Uuids(segs))
    BY <1>0 DEF WalPart, Good
  <2>2. QED
    BY <1>0, <1>1, <1>2, <1>3, <2>1 DEF Good
<1>5. Disk(segs') \subseteq Disk(segs)
  BY DEF Disk
<1>6. Held(r) = Disk(segs') \cup BufOf(wal) /\ Held(State) = Disk(segs) \cup BufOf(wal)
  BY <1>0, <1>1 DEF Held
<1>7. Written(r) = Written(State) /\ Clean(r) = Clean(State)
  BY <1>0, <1>1 DEF Written, Clean
<1>8. TypeOK'
  <2>1. segs' \in SUBSET Segment /\ clock' \in Nat
    BY <1>0
  <2>2. QED
    BY <2>1 DEF WalPart, TypeOK
<1>9. Up' = Up /\ wpc' = wpc
  BY DEF Up
<1>10. Counts'
  BY <1>7, <1>9 DEF WalPart, Counts, r
<1>11. Opens'
  <2>1. \A l \in Logs : Open(State, l) => Open(r, l)
    BY <1>0, <1>1, <1>3 DEF Open
  <2>2. QED
    BY <1>0, <1>7, <1>9, <2>1 DEF WalPart, Opens, r, Logs
<1>12. Where'
  <2>1. acked' \subseteq Disk(segs') \cup Archived'
    BY DEF Where, Placed
  <2>2. Up => base + 1 .. total \subseteq Held(r) \cup late \cup Archived'
    BY <1>6 DEF Where, Placed
  <2>3. QED
    BY <1>9, <2>1, <2>2 DEF Where, Placed, r
<1>13. Bounded'
  BY <1>5, <1>6 DEF Bounded, Stored, r
<1>14. Tidy(r)
  <2>1. Owned(r)
    BY <1>0, <1>1 DEF WalPart, PubInv, Tidy, Owned
  <2>2. QED
    BY <1>0, <1>1, <1>4, <2>1 DEF WalPart, PubInv, Tidy
<1>15. PubInv'
  BY <1>9, <1>14 DEF WalPart, PubInv, Told, ActiveBelow, SyncedSum, r
<1>16. Apart(r)
  <2>1. \A s \in segs' : s.ms <= clock'
    BY <1>0 DEF WalPart, Apart
  <2>2. QED
    BY <1>0, <1>1, <2>1 DEF WalPart, Apart
<1>17. QED
  BY <1>4, <1>8, <1>10, <1>11, <1>12, <1>13, <1>15, <1>16 DEF WalPart, r

(* The numbers of the store.                                               *)
LEMMA FileFields ==
    \A f \in File : f.part \in Partitions /\ f.id \in Nat /\ f.ms \in Nat /\ f.rows \in SUBSET Nat /\ f.twice \in SUBSET Nat
BY DEF File

(* The parts of a segment.                                                 *)
LEMMA SegmentFields ==
    \A s \in Segment : s.log \in Logs /\ s.id \in Nat /\ s.id # 0 /\ s.uuid \in Nat /\ s.ms \in Nat /\ s.recs \in SUBSET Nat
BY DEF Segment

(* A step of the writer, or a crash, beside an unchanged store.  A power   *)
(* loss may take markers back.                                             *)
LEMMA WriterSide ==
    ASSUME MergeInvariant, ~SameMs, [Next]_walVars, UNCHANGED <<files, committed>>, merged' \subseteq merged
    PROVE  /\ WalPart' /\ Where' /\ Bounded' /\ Store'
           /\ SegStep /\ FrozenStep /\ AbstractStep(Archived) /\ Archived' = Archived
<1>0. PICK X : X = Archived
  OBVIOUS
<1>1. Archived' = X /\ files' = files /\ committed' = committed /\ merged' \subseteq merged
  BY <1>0 DEF Archived
<1>2. Inv(X) /\ PubInv /\ Apart(State)
  BY <1>0 DEF MergeInvariant, WalPart, Where, Inv
<1>3. Inv(X)' /\ AbstractStep(X)
  BY <1>2, StepInv
<1>4. PubInv' /\ FrozenStep
  BY <1>2, PubStep
<1>5. SegStep
  BY <1>2, SegStepInv
<1>6. WalPart'
  BY <1>3, <1>4, <1>5 DEF WalPart, Inv, SegStep
<1>7. Where'
  BY <1>1, <1>3 DEF Where, Inv, Placed
<1>8. Bounded'
  <2>1. (\E S \in SUBSET Records : Stored' \subseteq Stored \cup S)
    BY <1>3 DEF AbstractStep
  <2>2. QED
    BY <2>1 DEF MergeInvariant, Bounded
<1>9. /\ made \in Nat /\ clock \in Nat /\ made' \in Nat /\ clock' \in Nat
      /\ \A s \in segs : s.uuid \in Nat /\ s.ms \in Nat
      /\ \A s \in segs' : s.uuid \in Nat /\ s.ms \in Nat
      /\ \A f \in files \cup committed : f.ms \in Nat
      /\ \A l \in Logs : wal[l].uuid \in Nat /\ wal'[l].uuid \in Nat
  <2>1. TypeOK /\ TypeOK'
    BY <1>6 DEF MergeInvariant, WalPart
  <2>2. segs \in SUBSET Segment /\ segs' \in SUBSET Segment /\ files \in SUBSET File /\ committed \in SUBSET File
    BY <2>1 DEF TypeOK, MergeInvariant, MergeTypeOK
  <2>3. \A l \in Logs : wal[l].uuid \in Nat /\ wal'[l].uuid \in Nat
    BY <2>1 DEF TypeOK, WalWriter
  <2>4. QED
    BY <2>1, <2>2, <2>3, FileFields, SegmentFields DEF TypeOK
<1>10. Sources'
  <2>1. ASSUME NEW f \in files \cup committed
        PROVE  /\ f.ms <= clock'
               /\ f.id # 0 => \A s \in segs' : s.hdr /\ s.ms = f.ms => f.rows \subseteq s.recs
    <3>1. f.ms <= clock
      BY DEF MergeInvariant, Store, Sources
    <3>2. f.ms <= clock'
      BY <1>5, <1>9, <3>1 DEF SegStep
    <3>3. ASSUME f.id # 0, NEW t \in segs', t.hdr, t.ms = f.ms PROVE f.rows \subseteq t.recs
      <4>1. ~(t.ms > clock)
        BY <1>9, <3>1, <3>3
      <4>2. PICK s \in segs : Grew(s, t)
        BY <1>5, <3>3, <4>1 DEF SegStep
      <4>3. f.rows \subseteq s.recs
        BY <3>3, <4>2 DEF Grew, MergeInvariant, Store, Sources
      <4>4. QED
        BY <4>2, <4>3 DEF Grew
    <3>4. QED
      BY <3>2, <3>3
  <2>2. QED
    BY <1>1, <2>1 DEF Sources
<1>11. OnePath'
  BY <1>1 DEF MergeInvariant, Store, OnePath
<1>12. Listed'
  <2>1. Disk(segs) \subseteq Disk(segs')
    BY <1>3 DEF AbstractStep
  <2>2. Rows(committed)' = Rows(committed)
    BY <1>1 DEF Rows
  <2>3. QED
    BY <1>0, <1>1, <2>1, <2>2 DEF MergeInvariant, Store, Listed
<1>13. Marked'
  <2>1. merged' \subseteq 1 .. made'
    BY <1>1, <1>5, <1>9 DEF SegStep, MergeInvariant, Store, Marked
  <2>2. ASSUME NEW t \in segs', t.uuid \in merged
        PROVE  t.hdr /\ t.recs \subseteq Rows(Home(t)) /\ \A l \in Logs : wal'[l].uuid # t.uuid
    <3>1. t.uuid \in 1 .. made
      BY <2>2 DEF MergeInvariant, Store, Marked
    <3>2. ~(t.uuid > made) /\ t.uuid # 0
      BY <1>9, <3>1
    <3>3. PICK s \in segs : Grew(s, t) /\ (t = s \/ OpenIn(State, s))
      BY <1>5, <3>2 DEF SegStep
    <3>4. s.uuid = t.uuid /\ \A l \in Logs : wal[l].uuid # s.uuid
      BY <2>2, <3>3 DEF Grew, MergeInvariant, Store, Marked
    <3>5. t = s
      BY <3>3, <3>4, StateFields DEF OpenIn
    <3>6. \A l \in Logs : wal'[l].uuid # t.uuid
      BY <1>5, <1>9, <3>2, <3>4 DEF SegStep
    <3>7. QED
      BY <2>2, <3>5, <3>6 DEF MergeInvariant, Store, Marked
  <2>3. \A t : Home(t)' = Home(t)
    BY <1>1 DEF Home
  <2>4. QED
    BY <1>1, <2>1, <2>2, <2>3 DEF Marked, Rows
<1>14. QED
  BY <1>0, <1>1, <1>3, <1>4, <1>5, <1>6, <1>7, <1>8, <1>10, <1>11, <1>12, <1>13 DEF Store

(* What the writer does to its place and to the active ids.                *)
LEMMA WriterMoves ==
    ASSUME WriterNext
    PROVE  /\ wpc \notin {"done", "failed"} /\ wpc' # "down"
           /\ \/ active' = active
              \/ Up /\ \E l \in Logs : active' = [active EXCEPT ![l] = wal[l].id]
              \/ wpc = "down" /\ active' = [l \in Logs |-> 0]
<1>1. CASE OpenMain \/ OpenLate
  BY <1>1 DEF OpenMain, OpenLate
<1>2. ASSUME NEW n \in 0 .. BatchMax, NEW L \in SUBSET Records,
             (\E stop \in BOOLEAN : Pass(n, L, stop)) \/ Drain(n, L)
      PROVE  wpc \notin {"done", "failed"} /\ wpc' # "down" /\ active' = active
  BY <1>2 DEF Pass, Drain, AppendMain
<1>3. CASE AppendLate \/ LastSync \/ Publish \/ WriterError
  BY <1>3 DEF AppendLate, LastSync, Publish, WriterError
<1>4. ASSUME NEW due \in BOOLEAN, NEW em \in BOOLEAN, NEW el \in BOOLEAN, MaybeSync(due, em, el)
      PROVE  wpc \notin {"done", "failed"} /\ wpc' # "down" /\ active' = active
  BY <1>4 DEF MaybeSync
<1>5. ASSUME NEW l \in Logs, PublishActive(l)
      PROVE  /\ wpc \notin {"done", "failed"} /\ wpc' # "down"
             /\ Up /\ active' = [active EXCEPT ![l] = wal[l].id]
  BY <1>5 DEF PublishActive, Up
<1>6. QED
  BY <1>1, <1>2, <1>3, <1>4, <1>5 DEF WriterNext

(* The writer moves beside a maintenance pass: what it published is        *)
(* closed, so the segments the pass works on stay as they are.             *)
LEMMA WriterPass ==
    ASSUME MergeInvariant, ~SameMs, WriterNext, UNCHANGED mergeVars
    PROVE  MergeInvariant'
<1>0. /\ files' = files /\ committed' = committed /\ merged' = merged /\ layout' = layout /\ phase' = phase
      /\ mpc' = mpc /\ final' = final /\ limit' = limit /\ mlayout' = mlayout /\ mlog' = mlog
      /\ queue' = queue /\ cur' = cur /\ todo' = todo /\ entries' = entries /\ fresh' = fresh
      /\ compacted' = compacted /\ clean' = clean /\ faults' = faults
  BY DEF mergeVars, storeVars, passVars
<1>1. [Next]_walVars /\ UNCHANGED <<files, committed>> /\ merged' \subseteq merged
  BY <1>0 DEF Next
<1>2. /\ WalPart' /\ Where' /\ Bounded' /\ Store'
      /\ SegStep /\ FrozenStep /\ Archived' = Archived
  BY <1>1, WriterSide
<1>3. wpc \notin {"done", "failed"} /\ wpc' # "down"
  BY WriterMoves
<1>4. ~phase /\ ~final /\ mpc # "exited"
  BY <1>3 DEF MergeInvariant, PassInv, Phases
<1>5. MergeTypeOK'
  BY <1>0 DEF MergeInvariant, MergeTypeOK
<1>6. /\ \A l \in Logs : limit[l] \in Nat /\ active[l] \in Nat /\ active'[l] \in Nat /\ wal[l].id \in Nat
      /\ active \in [Logs -> Nat]
      /\ \A s \in segs : s.log \in Logs /\ s.id \in Nat
  <2>1. TypeOK /\ TypeOK' /\ MergeTypeOK /\ Good(State)
    BY <1>2 DEF MergeInvariant, WalPart
  <2>2. \A l \in Logs : wal[l].id \in Nat
    BY <2>1, StateNumbers, StateFields
  <2>3. QED
    BY <2>1, <2>2, SegmentFields DEF TypeOK, MergeTypeOK
<1>7. Phases'
  <2>1. \A l \in Logs : limit[l] <= active'[l]
    <3>1. CASE active' = active
      BY <3>1 DEF MergeInvariant, PassInv, Phases
    <3>2. ASSUME Up, NEW k \in Logs, active' = [active EXCEPT ![k] = wal[k].id]
          PROVE  \A l \in Logs : limit[l] <= active'[l]
      <4>1. \A l \in Logs : limit[l] <= active[l] /\ active[l] <= wal[l].id
        BY <3>2 DEF MergeInvariant, PassInv, Phases, WalPart, PubInv, ActiveBelow
      <4>2. QED
        BY <1>6, <3>2, <4>1
    <3>3. ASSUME wpc = "down", active' = [l \in Logs |-> 0]
          PROVE  \A l \in Logs : limit[l] <= active'[l]
      BY <1>6, <3>3 DEF MergeInvariant, PassInv, Phases
    <3>4. QED
      BY <3>1, <3>2, <3>3, WriterMoves
  <2>2. QED
    BY <1>0, <1>3, <1>4, <2>1 DEF Phases
<1>8. \A s \in segs : Eligible(s) => s \in segs'
  <2>1. ASSUME NEW s \in segs, Eligible(s) PROVE s \in segs'
    <3>1. s.id < limit[s.log] /\ limit[s.log] <= active[s.log]
      BY <1>4, <1>6, <2>1 DEF Eligible, MergeInvariant, PassInv, Phases
    <3>2. s.id < active[s.log]
      BY <1>6, <3>1
    <3>3. QED
      BY <1>2, <3>2 DEF FrozenStep
  <2>2. QED
    BY <2>1
<1>9. Listing'
  <2>1. Merging' = Merging /\ \A s : Eligible(s)' = Eligible(s)
    BY <1>0 DEF Merging, Eligible
  <2>2. queue \subseteq segs' /\ (Merging => cur \in segs')
    BY <1>8 DEF MergeInvariant, PassInv, Listing
  <2>3. QED
    BY <1>0, <2>1, <2>2 DEF MergeInvariant, PassInv, Listing
<1>10. Writing' /\ Compacting'
  <2>1. Rows(entries)' = Rows(entries) /\ Rows(todo)' = Rows(todo)
    BY <1>0 DEF Rows
  <2>2. QED
    BY <1>0, <1>2, <2>1 DEF MergeInvariant, PassInv, Writing, Compacting
<1>11. Finishing'
  BY <1>0, <1>4 DEF Finishing
<1>12. QED
  BY <1>2, <1>5, <1>7, <1>9, <1>10, <1>11 DEF MergeInvariant, PassInv

(* What NoPass leaves is well-typed and empty.                             *)
LEMMA LayoutsNonempty == AnyLayout \in Layouts
BY MergeAssumption DEF AnyLayout

(* A crash ends the pass wherever it is.                                   *)
LEMMA CrashPass ==
    ASSUME MergeInvariant, Journal, ~SameMs, ProcessCrash
    PROVE  MergeInvariant'
<1>0. /\ files' = files /\ committed' = committed /\ merged' \subseteq merged /\ layout' = layout /\ phase' = FALSE
      /\ mpc' = "idle" /\ final' = FALSE /\ limit' = [l \in Logs |-> 0] /\ mlayout' = AnyLayout /\ mlog' = "main"
      /\ queue' = {} /\ cur' = NoSegment /\ todo' = {} /\ entries' = {} /\ fresh' = {}
      /\ compacted' = {} /\ clean' = FALSE /\ faults' = faults
  BY DEF ProcessCrash, ThreadGone, NoPass, Journal
<1>1. [Next]_walVars /\ UNCHANGED <<files, committed>> /\ merged' \subseteq merged
  BY <1>0 DEF Next, ProcessCrash
<1>2. /\ WalPart' /\ Where' /\ Bounded' /\ Store' /\ Archived' = Archived
  BY <1>1, WriterSide
<1>3. wpc' = "down" /\ active' = [l \in Logs |-> 0]
  BY DEF ProcessCrash, Crash, CrashInCreate, CrashLeaving
<1>4. MergeTypeOK'
  <2>1. mlayout' \in Layouts /\ limit' \in [Logs -> Nat] /\ mlog' \in Logs /\ mpc' \in MergeSteps
    BY <1>0, LayoutsNonempty DEF Logs, MergeSteps
  <2>2. QED
    BY <1>0, <2>1 DEF MergeInvariant, MergeTypeOK
<1>5. Phases'
  BY <1>0, <1>3 DEF Phases
<1>6. Listing' /\ Writing' /\ Compacting' /\ Finishing'
  BY <1>0 DEF Listing, Writing, Compacting, Finishing, Merging
<1>7. QED
  BY <1>2, <1>4, <1>5, <1>6 DEF MergeInvariant, PassInv

(* Steps that touch neither the log nor the store.                         *)
LEMMA StillStore ==
    ASSUME MergeInvariant, UNCHANGED <<walVars, storeVars>>
    PROVE  /\ WalPart' /\ Where' /\ Bounded' /\ Store'
           /\ Archived' = Archived /\ segs' = segs /\ files' = files /\ committed' = committed /\ merged' = merged
           /\ active' = active /\ wpc' = wpc /\ wal' = wal
<1>0. /\ files' = files /\ committed' = committed /\ merged' = merged
      /\ segs' = segs /\ wal' = wal /\ made' = made /\ clock' = clock /\ wpc' = wpc /\ stopping' = stopping
      /\ late' = late /\ total' = total /\ base' = base /\ published' = published /\ active' = active
      /\ starts' = starts /\ acked' = acked
  BY DEF walVars, storeVars
<1>1. Archived' = Archived /\ Rows(committed)' = Rows(committed)
  BY <1>0 DEF Archived, Rows
<1>2. WalPart' /\ Where' /\ Bounded'
  <2>1. clock' \in Nat /\ clock <= clock'
    BY <1>0 DEF MergeInvariant, WalPart, TypeOK
  <2>2. WalPart /\ Where /\ Bounded
    BY DEF MergeInvariant
  <2>3. Disk(segs) \cup Archived \subseteq Disk(segs') \cup Archived'
    BY <1>0, <1>1
  <2>4. QED
    BY <1>0, <2>1, <2>2, <2>3, QuietStep
<1>3. \A s : Rows(Home(s))' = Rows(Home(s))
  BY <1>0 DEF Home, Rows
<1>4. Store'
  BY <1>0, <1>1, <1>3 DEF MergeInvariant, Store, Sources, OnePath, Listed, Marked
<1>5. QED
  BY <1>0, <1>1, <1>2, <1>4

(* A change of policy, or of phase, does not touch a pass that is under    *)
(* way.                                                                    *)
LEMMA PolicyPass ==
    ASSUME MergeInvariant, ChangePolicy \/ WriterJoined
    PROVE  MergeInvariant'
<1>0. /\ UNCHANGED <<walVars, storeVars>>
      /\ mpc' = mpc /\ final' = final /\ limit' = limit /\ mlayout' = mlayout /\ mlog' = mlog
      /\ queue' = queue /\ cur' = cur /\ todo' = todo /\ entries' = entries /\ fresh' = fresh
      /\ compacted' = compacted /\ clean' = clean /\ faults' = faults
      /\ layout' \in Layouts
      /\ phase' = phase \/ (phase' = TRUE /\ wpc = "done")
  BY DEF ChangePolicy, WriterJoined, passVars, MergeInvariant, MergeTypeOK
<1>1. /\ WalPart' /\ Where' /\ Bounded' /\ Store' /\ Archived' = Archived
      /\ segs' = segs /\ files' = files /\ committed' = committed /\ merged' = merged
      /\ active' = active /\ wpc' = wpc
  BY <1>0, StillStore
<1>2. MergeTypeOK'
  <2>1. phase' \in BOOLEAN
    BY <1>0 DEF MergeInvariant, MergeTypeOK
  <2>2. QED
    BY <1>0, <1>1, <2>1 DEF MergeInvariant, MergeTypeOK
<1>3. Phases'
  BY <1>0, <1>1 DEF MergeInvariant, PassInv, Phases
<1>4. Listing'
  BY <1>0, <1>1 DEF MergeInvariant, PassInv, Listing, Merging, Eligible
<1>5. Writing' /\ Compacting' /\ Finishing'
  BY <1>0, <1>1 DEF MergeInvariant, PassInv, Writing, Compacting, Finishing, Merging, Rows
<1>6. QED
  BY <1>1, <1>2, <1>3, <1>4, <1>5 DEF MergeInvariant, PassInv

(* A pass starts from the ids published now.                               *)
LEMMA StartPassKeeps ==
    ASSUME MergeInvariant, StartPass
    PROVE  MergeInvariant'
<1>0. /\ UNCHANGED <<walVars, storeVars>>
      /\ mpc = "idle" /\ wpc # "down"
      /\ mpc' = IF phase THEN "list" ELSE "readLate"
      /\ final' = phase /\ mlayout' = layout /\ limit' = [limit EXCEPT !["main"] = active["main"]]
      /\ mlog' = "main" /\ fresh' = {} /\ clean' = TRUE
      /\ queue' = queue /\ cur' = cur /\ todo' = todo /\ entries' = entries
      /\ compacted' = compacted /\ faults' = faults /\ layout' = layout /\ phase' = phase
  BY DEF StartPass
<1>1. /\ WalPart' /\ Where' /\ Bounded' /\ Store' /\ Archived' = Archived
      /\ segs' = segs /\ files' = files /\ committed' = committed /\ merged' = merged
      /\ active' = active /\ wpc' = wpc
  BY <1>0, StillStore
<1>2. active \in [Logs -> Nat] /\ limit \in [Logs -> Nat] /\ "main" \in Logs
  BY DEF MergeInvariant, WalPart, TypeOK, MergeTypeOK, Logs
<1>3. MergeTypeOK'
  <2>1. limit' \in [Logs -> Nat]
    BY <1>0, <1>2
  <2>2. mpc' \in MergeSteps /\ final' \in BOOLEAN /\ clean' \in BOOLEAN
    BY <1>0 DEF MergeSteps, MergeInvariant, MergeTypeOK
  <2>3. QED
    BY <1>0, <1>1, <1>2, <2>1, <2>2 DEF MergeInvariant, MergeTypeOK
<1>4. queue = {} /\ cur = NoSegment /\ entries \subseteq files
  BY <1>0 DEF MergeInvariant, PassInv, Listing, Merging
<1>5. Phases'
  <2>1. \A l \in Logs : limit'[l] <= active'[l]
    <3>1. \A l \in Logs : limit[l] <= active[l]
      BY DEF MergeInvariant, PassInv, Phases
    <3>2. QED
      BY <1>0, <1>1, <1>2, <3>1
  <2>2. QED
    BY <1>0, <1>1, <2>1 DEF MergeInvariant, PassInv, Phases
<1>6. Listing' /\ Writing' /\ Compacting' /\ Finishing'
  BY <1>0, <1>1, <1>4 DEF Listing, Writing, Compacting, Finishing, Merging
<1>7. QED
  BY <1>1, <1>3, <1>5, <1>6 DEF MergeInvariant, PassInv

(* The late log's id is read after the main log's.                         *)
LEMMA ReadLateKeeps ==
    ASSUME MergeInvariant, ReadLateActive
    PROVE  MergeInvariant'
<1>0. /\ UNCHANGED <<walVars, storeVars>>
      /\ mpc = "readLate" /\ mpc' = "list"
      /\ limit' = [limit EXCEPT !["late"] = active["late"]]
      /\ final' = final /\ mlayout' = mlayout /\ mlog' = mlog /\ fresh' = fresh /\ clean' = clean
      /\ queue' = queue /\ cur' = cur /\ todo' = todo /\ entries' = entries
      /\ compacted' = compacted /\ faults' = faults /\ layout' = layout /\ phase' = phase
  BY DEF ReadLateActive
<1>1. /\ WalPart' /\ Where' /\ Bounded' /\ Store' /\ Archived' = Archived
      /\ segs' = segs /\ files' = files /\ committed' = committed /\ merged' = merged
      /\ active' = active /\ wpc' = wpc
  BY <1>0, StillStore
<1>2. active \in [Logs -> Nat] /\ limit \in [Logs -> Nat] /\ "late" \in Logs
  BY DEF MergeInvariant, WalPart, TypeOK, MergeTypeOK, Logs
<1>3. MergeTypeOK'
  <2>1. limit' \in [Logs -> Nat]
    BY <1>0, <1>2
  <2>2. mpc' \in MergeSteps
    BY <1>0 DEF MergeSteps
  <2>3. QED
    BY <1>0, <1>1, <1>2, <2>1, <2>2 DEF MergeInvariant, MergeTypeOK
<1>4. queue = {} /\ cur = NoSegment /\ entries \subseteq files /\ ~final
  BY <1>0 DEF MergeInvariant, PassInv, Listing, Merging, Phases
<1>5. Phases'
  <2>1. \A l \in Logs : limit'[l] <= active'[l]
    <3>1. \A l \in Logs : limit[l] <= active[l]
      BY DEF MergeInvariant, PassInv, Phases
    <3>2. QED
      BY <1>0, <1>1, <1>2, <3>1
  <2>2. QED
    BY <1>0, <1>1, <1>4, <2>1 DEF MergeInvariant, PassInv, Phases
<1>6. Listing' /\ Writing' /\ Compacting' /\ Finishing'
  BY <1>0, <1>1, <1>4 DEF Listing, Writing, Compacting, Finishing, Merging
<1>7. QED
  BY <1>1, <1>3, <1>5, <1>6 DEF MergeInvariant, PassInv

(* A listing takes closed segments only; in a final pass it takes all of   *)
(* the log.                                                                *)
LEMMA ListSegmentsKeeps ==
    ASSUME MergeInvariant, ListSegments
    PROVE  MergeInvariant'
<1>0. /\ UNCHANGED <<walVars, storeVars>>
      /\ mpc = "list" /\ mpc' = "take"
      /\ queue' = {s \in segs : s.log = mlog /\ Eligible(s)}
      /\ limit' = limit
      /\ final' = final /\ mlayout' = mlayout /\ mlog' = mlog /\ fresh' = fresh /\ clean' = clean
      /\ cur' = cur /\ todo' = todo /\ entries' = entries
      /\ compacted' = compacted /\ faults' = faults /\ layout' = layout /\ phase' = phase
  BY DEF ListSegments
<1>1. /\ WalPart' /\ Where' /\ Bounded' /\ Store' /\ Archived' = Archived
      /\ segs' = segs /\ files' = files /\ committed' = committed /\ merged' = merged
      /\ active' = active /\ wpc' = wpc
  BY <1>0, StillStore
<1>2. MergeTypeOK'
  <2>1. mpc' \in MergeSteps
    BY <1>0 DEF MergeSteps
  <2>2. queue' \in SUBSET Segment
    BY <1>0 DEF MergeInvariant, WalPart, TypeOK
  <2>3. QED
    BY <1>0, <1>1, <2>1, <2>2 DEF MergeInvariant, MergeTypeOK
<1>3. cur = NoSegment /\ entries \subseteq files
  BY <1>0 DEF MergeInvariant, PassInv, Listing, Merging
<1>4. Phases'
  BY <1>0, <1>1 DEF MergeInvariant, PassInv, Phases
<1>5. Listing'
  BY <1>0, <1>1, <1>3 DEF Listing, Merging, Eligible
<1>6. Writing' /\ Compacting'
  BY <1>0 DEF Writing, Compacting
<1>7. Finishing'
  BY <1>0, <1>1 DEF MergeInvariant, PassInv, Finishing, Merging, Eligible
<1>8. QED
  BY <1>1, <1>2, <1>4, <1>5, <1>6, <1>7 DEF MergeInvariant, PassInv

(* NoSegment is not on disk.                                               *)
LEMMA NoSegmentIsNone ==
    ASSUME TypeOK
    PROVE  NoSegment \notin segs
BY SegmentFields DEF TypeOK, NoSegment

(* The segment replayed is the one listed: it was closed and cannot have   *)
(* changed.                                                                *)
LEMMA ReplayKeeps ==
    ASSUME MergeInvariant, NEW s \in queue, ReplaySegment(s)
    PROVE  MergeInvariant'
<1>0. /\ UNCHANGED <<walVars, storeVars>>
      /\ mpc = "take" /\ s.hdr /\ ~IsSegmentMerged(s)
      /\ queue' = queue \ {s} /\ entries' = {}
      /\ limit' = limit
      /\ final' = final /\ mlayout' = mlayout /\ mlog' = mlog /\ fresh' = fresh /\ clean' = clean
      /\ compacted' = compacted /\ faults' = faults /\ layout' = layout /\ phase' = phase
  BY DEF ReplaySegment
<1>1. /\ WalPart' /\ Where' /\ Bounded' /\ Store' /\ Archived' = Archived
      /\ segs' = segs /\ files' = files /\ committed' = committed /\ merged' = merged
      /\ active' = active /\ wpc' = wpc
  BY <1>0, StillStore
<1>2. s \in segs /\ Eligible(s) /\ queue \subseteq segs /\ cur = NoSegment /\ \A x \in queue : Eligible(x)
  BY <1>0 DEF MergeInvariant, PassInv, Listing, Merging
<1>3. PICK x \in segs : /\ x.log = s.log /\ x.id = s.id
                        /\ cur' = x
                        /\ todo' = {mlayout[r] : r \in x.recs}
                        /\ mpc' = IF x.recs = {} THEN "commit" ELSE "write"
  BY DEF ReplaySegment
<1>4. x = s
  BY <1>2, <1>3, StateFields DEF MergeInvariant, WalPart, Apart
<1>5. /\ cur' = s /\ todo' = {mlayout[r] : r \in s.recs}
      /\ mpc' = IF s.recs = {} THEN "commit" ELSE "write"
  BY <1>3, <1>4
<1>6. todo' \subseteq Partitions
  <2>1. s.recs \subseteq Records
    BY <1>2, StateFields DEF MergeInvariant, Bounded, Stored, Held, Disk
  <2>2. mlayout \in Layouts
    BY DEF MergeInvariant, MergeTypeOK
  <2>3. QED
    BY <1>5, <2>1, <2>2, MergeAssumption
<1>7. MergeTypeOK'
  <2>1. mpc' \in MergeSteps
    BY <1>5 DEF MergeSteps
  <2>2. cur' \in Segment
    BY <1>2, <1>5 DEF MergeInvariant, WalPart, TypeOK
  <2>3. queue' \in SUBSET Segment /\ todo' \in SUBSET (Partitions \cup File) /\ entries' \in SUBSET File
    BY <1>0, <1>6 DEF MergeInvariant, MergeTypeOK
  <2>4. QED
    BY <1>0, <1>1, <2>1, <2>2, <2>3 DEF MergeInvariant, MergeTypeOK
<1>8. Phases'
  BY <1>0, <1>1, <1>5 DEF MergeInvariant, PassInv, Phases
<1>9. Listing'
  BY <1>0, <1>1, <1>2, <1>5 DEF Listing, Merging, Eligible
<1>10. Writing' /\ Compacting'
  BY <1>0, <1>1, <1>5, <1>6 DEF Writing, Compacting, IsSegmentMerged
<1>11. Finishing'
  <2>1. mpc' \in {"commit", "write"} /\ cur' = s
    BY <1>5
  <2>2. ASSUME final, clean, NEW t \in segs, t.log = mlog PROVE t \in queue' \cup {cur'}
    <3>1. t \in queue \cup {cur}
      BY <1>0, <2>2 DEF MergeInvariant, PassInv, Finishing
    <3>2. NoSegment \notin segs
      BY NoSegmentIsNone DEF MergeInvariant, WalPart
    <3>3. QED
      BY <1>0, <1>2, <2>1, <2>2, <3>1, <3>2
  <2>3. ASSUME final, clean PROVE mlog = "late" => \A t \in segs : t.log # "main"
    BY <2>3 DEF MergeInvariant, PassInv, Finishing
  <2>4. QED
    BY <1>0, <1>1, <2>1, <2>2, <2>3 DEF Finishing
<1>12. QED
  BY <1>1, <1>7, <1>8, <1>9, <1>10, <1>11 DEF MergeInvariant, PassInv

(* In a final pass without an error nothing is left of a log when its      *)
(* listing is done.                                                        *)
LEMMA EndOfLogKeeps ==
    ASSUME MergeInvariant, EndOfLog
    PROVE  MergeInvariant'
<1>0. /\ UNCHANGED <<walVars, storeVars>>
      /\ mpc = "take" /\ queue = {} /\ mlog' = "late"
      /\ mpc' = IF mlog = "main" THEN "list" ELSE "compact"
      /\ queue' = queue /\ entries' = entries /\ cur' = cur /\ todo' = todo
      /\ limit' = limit
      /\ final' = final /\ mlayout' = mlayout /\ fresh' = fresh /\ clean' = clean
      /\ compacted' = compacted /\ faults' = faults /\ layout' = layout /\ phase' = phase
  BY DEF EndOfLog
<1>1. /\ WalPart' /\ Where' /\ Bounded' /\ Store' /\ Archived' = Archived
      /\ segs' = segs /\ files' = files /\ committed' = committed /\ merged' = merged
      /\ active' = active /\ wpc' = wpc
  BY <1>0, StillStore
<1>2. cur = NoSegment /\ entries \subseteq files /\ mlog \in Logs
  BY <1>0 DEF MergeInvariant, PassInv, Listing, Merging, MergeTypeOK
<1>3. MergeTypeOK'
  <2>1. mpc' \in MergeSteps /\ mlog' \in Logs
    BY <1>0 DEF MergeSteps, Logs
  <2>2. QED
    BY <1>0, <1>1, <2>1 DEF MergeInvariant, MergeTypeOK
<1>4. Phases'
  BY <1>0, <1>1 DEF MergeInvariant, PassInv, Phases
<1>5. Listing' /\ Writing' /\ Compacting'
  BY <1>0, <1>1, <1>2 DEF Listing, Writing, Compacting, Merging
<1>6. Finishing'
  <2>1. ASSUME final, clean PROVE \A s \in segs : s.log # mlog
    <3>1. \A s \in segs : s.log = mlog => s \in queue \cup {cur}
      BY <1>0, <2>1 DEF MergeInvariant, PassInv, Finishing
    <3>2. NoSegment \notin segs
      BY NoSegmentIsNone DEF MergeInvariant, WalPart
    <3>3. QED
      BY <1>0, <1>2, <3>1, <3>2
  <2>2. ASSUME final, clean, mlog = "late" PROVE segs = {}
    <3>1. \A s \in segs : s.log \in Logs /\ s.log # "main" /\ s.log # "late"
      BY <2>1, <2>2, SegmentFields DEF MergeInvariant, PassInv, Finishing, WalPart, TypeOK
    <3>2. QED
      BY <3>1 DEF Logs
  <2>3. CASE mlog = "main"
    BY <1>0, <1>1, <2>1, <2>3 DEF Finishing, Merging
  <2>4. CASE mlog = "late"
    BY <1>0, <1>1, <2>2, <2>4 DEF Finishing, Merging
  <2>5. QED
    BY <1>2, <2>3, <2>4 DEF Logs
<1>7. QED
  BY <1>1, <1>3, <1>4, <1>5, <1>6 DEF MergeInvariant, PassInv

(* What Try does to the flags.                                             *)
LEMMA TryType ==
    ASSUME MergeInvariant, NEW ok \in BOOLEAN, Try(ok)
    PROVE  faults' \in Nat /\ clean' \in BOOLEAN /\ (clean' => clean /\ ok)
BY DEF Try, MergeInvariant, MergeTypeOK

(* An error leaves the pass unclean.                                       *)
LEMMA TryFalse ==
    ASSUME MergeInvariant, Try(FALSE)
    PROVE  faults' \in Nat /\ clean' = FALSE
<1>1. faults' \in Nat /\ clean' \in BOOLEAN /\ (clean' => clean /\ FALSE)
  BY TryType
<1>2. QED
  BY <1>1

(* An error drops what was under way; the files written stay unlisted or   *)
(* are listed already.                                                     *)
LEMMA MergeFailsKeeps ==
    ASSUME MergeInvariant, MergeFails
    PROVE  MergeInvariant'
<1>0. /\ UNCHANGED <<walVars, storeVars>>
      /\ mpc \in {"list", "write", "commit", "remove", "take"} /\ mpc' = "compact"
      /\ queue' = {} /\ entries' = {} /\ cur' = NoSegment /\ todo' = {}
      /\ limit' = limit /\ mlog' = mlog
      /\ final' = final /\ mlayout' = mlayout /\ fresh' = fresh
      /\ compacted' = compacted /\ layout' = layout /\ phase' = phase
      /\ Try(FALSE)
  BY DEF MergeFails
<1>1. /\ WalPart' /\ Where' /\ Bounded' /\ Store' /\ Archived' = Archived
      /\ segs' = segs /\ files' = files /\ committed' = committed /\ merged' = merged
      /\ active' = active /\ wpc' = wpc
  BY <1>0, StillStore
<1>2. faults' \in Nat /\ clean' = FALSE
  BY <1>0, TryFalse
<1>3. MergeTypeOK'
  <2>1. mpc' \in MergeSteps /\ clean' \in BOOLEAN
    BY <1>0, <1>2 DEF MergeSteps
  <2>2. QED
    BY <1>0, <1>1, <1>2, <2>1 DEF MergeInvariant, MergeTypeOK
<1>4. Phases'
  BY <1>0, <1>1 DEF MergeInvariant, PassInv, Phases
<1>5. Listing' /\ Writing' /\ Compacting' /\ Finishing'
  BY <1>0, <1>1, <1>2 DEF Listing, Writing, Compacting, Merging, Finishing
<1>6. QED
  BY <1>1, <1>3, <1>4, <1>5 DEF MergeInvariant, PassInv

(* The pass ends.                                                          *)
LEMMA EndPassKeeps ==
    ASSUME MergeInvariant, EndPass
    PROVE  MergeInvariant'
<1>0. /\ UNCHANGED <<walVars, storeVars>>
      /\ mpc \in {"compact", "record"} /\ mpc' = IF final THEN "exited" ELSE "idle"
      /\ final' = FALSE /\ limit' = [l \in Logs |-> 0] /\ mlayout' = AnyLayout /\ mlog' = "main"
      /\ queue' = {} /\ cur' = NoSegment /\ todo' = {} /\ entries' = {} /\ fresh' = {}
      /\ compacted' = {} /\ layout' = layout /\ phase' = phase
      /\ Try(mpc = "compact")
  BY DEF EndPass, NoPass
<1>1. /\ WalPart' /\ Where' /\ Bounded' /\ Store' /\ Archived' = Archived
      /\ segs' = segs /\ files' = files /\ committed' = committed /\ merged' = merged
      /\ active' = active /\ wpc' = wpc
  BY <1>0, StillStore
<1>2. faults' \in Nat /\ clean' \in BOOLEAN /\ (clean' => clean)
  BY <1>0, TryType
<1>3. MergeTypeOK'
  <2>1. mlayout' \in Layouts /\ limit' \in [Logs -> Nat] /\ mlog' \in Logs /\ mpc' \in MergeSteps
    BY <1>0, LayoutsNonempty DEF Logs, MergeSteps
  <2>2. QED
    BY <1>0, <1>1, <1>2, <2>1 DEF MergeInvariant, MergeTypeOK
<1>4. Phases'
  <2>1. \A l \in Logs : limit'[l] <= active'[l]
    BY <1>0, <1>1 DEF MergeInvariant, WalPart, TypeOK
  <2>2. wpc # "down"
    BY <1>0 DEF MergeInvariant, PassInv, Phases
  <2>3. QED
    BY <1>0, <1>1, <2>1, <2>2 DEF MergeInvariant, PassInv, Phases
<1>5. Listing' /\ Writing' /\ Compacting'
  BY <1>0 DEF Listing, Writing, Compacting, Merging
<1>6. Finishing'
  BY <1>0, <1>1, <1>2 DEF MergeInvariant, PassInv, Finishing
<1>7. QED
  BY <1>1, <1>3, <1>4, <1>5, <1>6 DEF MergeInvariant, PassInv

(* Nothing leaves the disk, and nothing comes.                             *)
SameRows == Disk(segs) \cup Rows(files) = Disk(segs') \cup Rows(files')

(* The segments merge_all may touch are not open.                          *)
LEMMA EligibleClosed ==
    ASSUME MergeInvariant, NEW s \in segs, Eligible(s)
    PROVE  \A l \in Logs : s.uuid # wal[l].uuid
<1>0. /\ s.log \in Logs /\ s.id \in Nat
      /\ \A l \in Logs : limit[l] \in Nat /\ active[l] \in Nat /\ wal[l].id \in Nat
  <2>1. TypeOK /\ MergeTypeOK /\ Good(State)
    BY DEF MergeInvariant, WalPart
  <2>2. \A l \in Logs : wal[l].id \in Nat
    BY <2>1, StateNumbers, StateFields
  <2>3. QED
    BY <2>1, <2>2, SegmentFields DEF TypeOK, MergeTypeOK
<1>1. /\ s.uuid # 0
      /\ \A l \in Logs : s.uuid = wal[l].uuid => s.log = l /\ s.id = wal[l].id
  BY StateFields DEF MergeInvariant, WalPart, PubInv, Tidy, Owned
<1>2. CASE ~Up
  <2>1. wal = ClosedWriters
    BY <1>2 DEF MergeInvariant, WalPart, Opens
  <2>2. QED
    BY <1>1, <2>1 DEF ClosedWriters, ClosedWriter
<1>3. CASE Up
  <2>1. ~final
    BY <1>3 DEF MergeInvariant, PassInv, Phases, Up
  <2>2. s.id < limit[s.log] /\ limit[s.log] <= active[s.log]
    BY <1>0, <2>1 DEF Eligible, MergeInvariant, PassInv, Phases
  <2>3. active[s.log] <= wal[s.log].id
    BY <1>0, <1>3 DEF MergeInvariant, WalPart, PubInv, ActiveBelow
  <2>4. s.id # wal[s.log].id
    BY <1>0, <2>2, <2>3
  <2>5. QED
    BY <1>1, <2>4
<1>4. QED
  BY <1>2, <1>3

(* More files hold more rows.                                              *)
LEMMA RowsMono == \A F, G : F \subseteq G => Rows(F) \subseteq Rows(G)
BY DEF Rows

(* A file's rows are among those of the files.                             *)
LEMMA RowsOf == \A F : \A f \in F : f.rows \subseteq Rows(F)
BY DEF Rows

(* A segment is removed: it is torn, or its rows are in listed files.      *)
LEMMA SegmentRemoved ==
    ASSUME MergeInvariant, NEW s \in segs, Eligible(s), ~s.hdr \/ s.uuid \in merged,
           NEW ok \in BOOLEAN, RemoveSegment(s, ok),
           UNCHANGED <<wal, made, clock, wpc, stopping, late, total, base, published, active, starts, acked>>,
           UNCHANGED storeVars
    PROVE  /\ WalPart' /\ Where' /\ Bounded' /\ Store' /\ SameRows /\ Archived' = Archived
           /\ segs' = IF ok THEN segs \ {s} ELSE segs
           /\ files' = files /\ committed' = committed /\ merged' = merged
           /\ active' = active /\ wpc' = wpc
<1>0. /\ files' = files /\ committed' = committed /\ merged' = merged /\ wal' = wal /\ made' = made /\ clock' = clock
      /\ Archived' = Archived
  BY DEF storeVars, Archived, Rows
<1>1. segs' = IF ok THEN segs \ {s} ELSE segs
  BY StateFields DEF RemoveSegment, MergeInvariant, WalPart, Apart
<1>2. segs' \subseteq segs /\ segs \subseteq segs' \cup {s}
  BY <1>1
<1>3. \A t \in segs, l \in Logs : t.uuid = wal[l].uuid => t \in segs'
  BY <1>2, EligibleClosed
<1>4. s.recs \subseteq Archived
  <2>1. CASE ~s.hdr
    BY <2>1, StateFields DEF MergeInvariant, WalPart, Apart
  <2>2. CASE s.uuid \in merged
    <3>1. s.recs \subseteq Rows(Home(s))
      BY <2>2 DEF MergeInvariant, Store, Marked
    <3>2. Home(s) \subseteq committed \cap files
      BY DEF Home
    <3>3. QED
      BY <3>1, <3>2, RowsMono DEF Archived
  <2>3. QED
    BY <2>1, <2>2
<1>5. Disk(segs') \subseteq Disk(segs) /\ Disk(segs) \subseteq Disk(segs') \cup s.recs
  BY <1>2 DEF Disk
<1>6. WalPart' /\ Where' /\ Bounded'
  <2>1. WalPart /\ Where /\ Bounded /\ clock' \in Nat /\ clock <= clock'
    BY <1>0 DEF MergeInvariant, WalPart, TypeOK
  <2>2. Disk(segs) \cup Archived \subseteq Disk(segs') \cup Archived'
    BY <1>0, <1>4, <1>5
  <2>3. QED
    BY <1>2, <1>3, <2>1, <2>2, QuietStep
<1>7. Store'
  <2>1. Sources'
    BY <1>0, <1>2 DEF MergeInvariant, Store, Sources
  <2>2. OnePath'
    BY <1>0 DEF MergeInvariant, Store, OnePath
  <2>3. Listed'
    <3>1. Rows(committed)' = Rows(committed)
      BY <1>0 DEF Rows
    <3>2. QED
      BY <1>0, <1>4, <1>5, <3>1 DEF MergeInvariant, Store, Listed
  <2>4. Marked'
    <3>1. \A t : Rows(Home(t))' = Rows(Home(t))
      BY <1>0 DEF Home, Rows
    <3>2. QED
      BY <1>0, <1>2, <3>1 DEF MergeInvariant, Store, Marked
  <2>5. QED
    BY <2>1, <2>2, <2>3, <2>4 DEF Store
<1>8. SameRows
  <2>1. Archived \subseteq Rows(files) /\ Rows(files)' = Rows(files)
    BY <1>0, RowsMono DEF Archived, Rows
  <2>2. QED
    BY <1>0, <1>4, <1>5, <2>1 DEF SameRows
<1>9. QED
  BY <1>0, <1>1, <1>6, <1>7, <1>8

(* A torn segment holds nothing; a marked one is in listed files.          *)
LEMMA SkipKeeps ==
    ASSUME MergeInvariant, NEW s \in queue, SkipSegment(s)
    PROVE  MergeInvariant' /\ SameRows
<1>0. /\ mpc = "take" /\ mpc' = mpc
      /\ ~s.hdr \/ s.uuid \in merged
      /\ queue' = queue \ {s} /\ entries' = entries /\ cur' = cur /\ todo' = todo
      /\ limit' = limit
      /\ final' = final /\ mlayout' = mlayout /\ mlog' = mlog /\ fresh' = fresh
      /\ compacted' = compacted /\ layout' = layout /\ phase' = phase
      /\ UNCHANGED <<wal, made, clock, wpc, stopping, late, total, base, published, active, starts, acked>>
      /\ UNCHANGED storeVars
  BY DEF SkipSegment, IsSegmentMerged
<1>1. PICK ok \in BOOLEAN : RemoveSegment(s, ok) /\ Try(ok)
  BY DEF SkipSegment
<1>2. s \in segs /\ Eligible(s) /\ queue \subseteq segs /\ cur = NoSegment /\ entries \subseteq files
      /\ \A x \in queue : Eligible(x)
  BY <1>0 DEF MergeInvariant, PassInv, Listing, Merging
<1>3. /\ WalPart' /\ Where' /\ Bounded' /\ Store' /\ SameRows /\ Archived' = Archived
      /\ segs' = IF ok THEN segs \ {s} ELSE segs
      /\ files' = files /\ committed' = committed /\ merged' = merged
      /\ active' = active /\ wpc' = wpc
  BY <1>0, <1>1, <1>2, SegmentRemoved
<1>4. faults' \in Nat /\ clean' \in BOOLEAN /\ (clean' => clean /\ ok)
  BY <1>1, TryType
<1>5. MergeTypeOK'
  <2>1. queue' \in SUBSET Segment
    BY <1>0 DEF MergeInvariant, MergeTypeOK
  <2>2. QED
    BY <1>0, <1>3, <1>4, <2>1 DEF MergeInvariant, MergeTypeOK
<1>6. Phases'
  BY <1>0, <1>3 DEF MergeInvariant, PassInv, Phases
<1>7. Listing'
  BY <1>0, <1>2, <1>3 DEF Listing, Merging, Eligible
<1>8. Writing' /\ Compacting'
  BY <1>0 DEF Writing, Compacting
<1>9. Finishing'
  <2>1. segs' \subseteq segs
    BY <1>3
  <2>2. ASSUME final, clean', NEW t \in segs', t.log = mlog PROVE t \in queue' \cup {cur'}
    <3>1. t \in queue \cup {cur} /\ t # s
      BY <1>0, <1>3, <1>4, <2>1, <2>2 DEF MergeInvariant, PassInv, Finishing
    <3>2. QED
      BY <1>0, <3>1
  <2>3. ASSUME final, clean' PROVE mlog = "late" => \A t \in segs' : t.log # "main"
    BY <1>4, <2>1, <2>3 DEF MergeInvariant, PassInv, Finishing
  <2>4. QED
    BY <1>0, <2>2, <2>3 DEF Finishing
<1>10. QED
  BY <1>3, <1>5, <1>6, <1>7, <1>8, <1>9 DEF MergeInvariant, PassInv

(* The segment just committed is in listed files.                          *)
LEMMA RemoveMergedKeeps ==
    ASSUME MergeInvariant, RemoveMerged
    PROVE  MergeInvariant' /\ SameRows
<1>0. /\ mpc = "remove" /\ mpc' = "take" /\ Merging
      /\ queue' = queue /\ entries' = {} /\ cur' = NoSegment /\ todo' = todo
      /\ limit' = limit
      /\ final' = final /\ mlayout' = mlayout /\ mlog' = mlog /\ fresh' = fresh
      /\ compacted' = compacted /\ layout' = layout /\ phase' = phase
      /\ UNCHANGED <<wal, made, clock, wpc, stopping, late, total, base, published, active, starts, acked>>
      /\ UNCHANGED storeVars
  BY DEF RemoveMerged, Merging
<1>1. PICK ok \in BOOLEAN : RemoveSegment(cur, ok) /\ Try(ok)
  BY DEF RemoveMerged
<1>2. PICK s : s = cur
  OBVIOUS
<1>3. s \in segs /\ Eligible(s) /\ queue \subseteq segs /\ s \notin queue /\ s.uuid \in merged
      /\ \A x \in queue : Eligible(x)
  BY <1>0, <1>2 DEF MergeInvariant, PassInv, Listing, Writing
<1>4. /\ WalPart' /\ Where' /\ Bounded' /\ Store' /\ SameRows /\ Archived' = Archived
      /\ segs' = IF ok THEN segs \ {s} ELSE segs
      /\ files' = files /\ committed' = committed /\ merged' = merged
      /\ active' = active /\ wpc' = wpc
  BY <1>0, <1>1, <1>2, <1>3, SegmentRemoved
<1>5. faults' \in Nat /\ clean' \in BOOLEAN /\ (clean' => clean /\ ok)
  BY <1>1, TryType
<1>6. MergeTypeOK'
  <2>1. mpc' \in MergeSteps
    BY <1>0 DEF MergeSteps
  <2>2. QED
    BY <1>0, <1>4, <1>5, <2>1 DEF MergeInvariant, MergeTypeOK
<1>7. Phases'
  BY <1>0, <1>4 DEF MergeInvariant, PassInv, Phases
<1>8. Listing'
  BY <1>0, <1>3, <1>4 DEF Listing, Merging, Eligible
<1>9. Writing' /\ Compacting'
  BY <1>0 DEF Writing, Compacting
<1>10. Finishing'
  <2>1. segs' \subseteq segs
    BY <1>4
  <2>2. ASSUME final, clean', NEW t \in segs', t.log = mlog PROVE t \in queue' \cup {cur'}
    <3>1. t \in queue \cup {cur} /\ t # s
      BY <1>0, <1>4, <1>5, <2>1, <2>2 DEF MergeInvariant, PassInv, Finishing
    <3>2. QED
      BY <1>0, <1>2, <3>1
  <2>3. ASSUME final, clean' PROVE mlog = "late" => \A t \in segs' : t.log # "main"
    BY <1>5, <2>1, <2>3 DEF MergeInvariant, PassInv, Finishing
  <2>4. QED
    BY <1>0, <2>2, <2>3 DEF Finishing
<1>11. QED
  BY <1>4, <1>6, <1>7, <1>8, <1>9, <1>10 DEF MergeInvariant, PassInv

(* Paths agree when partition, id and millisecond do.                      *)
LEMMA PathEq ==
    \A f, g : PathOf(f) = PathOf(g) <=> f.part = g.part /\ f.id = g.id /\ f.ms = g.ms
BY DEF PathOf

(* A step that changes files or catalog and leaves the log alone.          *)
LEMMA StoreOnly ==
    ASSUME MergeInvariant, UNCHANGED walVars, Archived \subseteq Disk(segs) \cup Archived'
    PROVE  /\ WalPart' /\ Where' /\ Bounded'
           /\ segs' = segs /\ wal' = wal /\ made' = made /\ clock' = clock /\ active' = active /\ wpc' = wpc
<1>0. /\ segs' = segs /\ wal' = wal /\ made' = made /\ clock' = clock /\ wpc' = wpc /\ stopping' = stopping
      /\ late' = late /\ total' = total /\ base' = base /\ published' = published /\ active' = active
      /\ starts' = starts /\ acked' = acked
  BY DEF walVars
<1>1. WalPart /\ Where /\ Bounded /\ clock' \in Nat /\ clock <= clock'
  BY <1>0 DEF MergeInvariant, WalPart, TypeOK
<1>2. Disk(segs) \cup Archived \subseteq Disk(segs') \cup Archived'
  BY <1>0
<1>3. QED
  BY <1>0, <1>1, <1>2, QuietStep

(* A file is renamed into place.  One it replaces held rows of the same    *)
(* segment, which is still there.                                          *)
LEMMA WritePartitionKeeps ==
    ASSUME MergeInvariant, NEW p \in Partitions, WritePartition(p)
    PROVE  MergeInvariant' /\ SameRows
<1> DEFINE f == [part |-> p, id |-> cur.id, ms |-> cur.ms,
                 rows |-> {r \in cur.recs : mlayout[r] = p}, twice |-> {}]
<1>0. /\ UNCHANGED walVars
      /\ mpc = "write" /\ mpc' = (IF todo = {p} THEN "commit" ELSE "write") /\ p \in todo
      /\ files' = Put(files, f) /\ entries' = entries \cup {f} /\ committed' = committed /\ merged' = merged
      /\ queue' = queue /\ cur' = cur /\ todo' = todo \ {p} /\ fresh' = fresh \cup {p}
      /\ limit' = limit /\ faults' = faults /\ clean' = clean
      /\ final' = final /\ mlayout' = mlayout /\ mlog' = mlog
      /\ compacted' = compacted /\ layout' = layout /\ phase' = phase
  BY DEF WritePartition
<1>1. /\ f.part = p /\ f.id = cur.id /\ f.ms = cur.ms /\ f.twice = {}
      /\ \A r : r \in f.rows <=> r \in cur.recs /\ mlayout[r] = p
  OBVIOUS
<1>2. /\ cur \in segs /\ cur \in Segment /\ cur.hdr /\ cur.id # 0 /\ cur.id \in Nat /\ cur.ms \in Nat
      /\ cur.recs \in SUBSET Nat
      /\ cur.uuid \notin merged /\ Merging /\ entries \subseteq files
      /\ todo \subseteq Partitions
      /\ \A e \in entries : e.id = cur.id /\ e.ms = cur.ms /\ e.part \notin todo
      /\ \A r \in cur.recs : mlayout[r] \in todo \/ r \in Rows(entries)
  <2>1. cur \in segs /\ cur.hdr /\ Merging /\ entries \subseteq files
    BY <1>0 DEF MergeInvariant, PassInv, Listing, Merging
  <2>2. cur \in Segment
    BY <2>1 DEF MergeInvariant, WalPart, TypeOK
  <2>3. QED
    BY <1>0, <2>1, <2>2, SegmentFields DEF MergeInvariant, PassInv, Writing
<1>3. f \in File
  BY <1>2 DEF File
<1> HIDE DEF f
<1>4. files' = {g \in files : PathOf(g) # PathOf(f)} \cup {f}
  BY <1>0 DEF Put
<1>5. \A g \in files : g \in files' \/ PathOf(g) = PathOf(f)
  BY <1>4
<1>6. \A g \in files : PathOf(g) = PathOf(f) => g.id = cur.id /\ g.ms = cur.ms /\ g.rows \subseteq cur.recs
  <2>1. ASSUME NEW g \in files, PathOf(g) = PathOf(f)
        PROVE  g.id = cur.id /\ g.ms = cur.ms /\ g.rows \subseteq cur.recs
    <3>1. g.id = cur.id /\ g.ms = cur.ms
      BY <1>1, <2>1, PathEq
    <3>2. QED
      BY <1>2, <3>1 DEF MergeInvariant, Store, Sources
  <2>2. QED
    BY <2>1
<1>7. cur.recs \subseteq Disk(segs)
  BY <1>2 DEF Disk
<1>8. Archived \subseteq Disk(segs) \cup Archived'
  <2>1. \A g \in committed \cap files : g \in committed' \cap files' \/ g.rows \subseteq Disk(segs)
    BY <1>0, <1>5, <1>6, <1>7
  <2>2. QED
    BY <2>1 DEF Archived, Rows
<1>9. /\ WalPart' /\ Where' /\ Bounded'
      /\ segs' = segs /\ wal' = wal /\ made' = made /\ clock' = clock /\ active' = active /\ wpc' = wpc
  BY <1>0, <1>8, StoreOnly
<1>10. files' \subseteq files \cup {f} /\ f \in files'
  BY <1>4
<1>11. Store'
  <2>1. Sources'
    <3>1. f.ms <= clock
      BY <1>1, <1>2, StateFields DEF MergeInvariant, WalPart, Apart
    <3>2. \A s \in segs : s.hdr /\ s.ms = f.ms => f.rows \subseteq s.recs
      <4>1. \A s \in segs : s.hdr /\ s.ms = cur.ms => s = cur
        BY <1>2, StateFields DEF MergeInvariant, WalPart, Apart
      <4>2. QED
        BY <1>1, <4>1
    <3>3. \A g \in files \cup committed \cup {f} :
             g.ms <= clock /\ (g.id # 0 => \A s \in segs : s.hdr /\ s.ms = g.ms => g.rows \subseteq s.recs)
      BY <3>1, <3>2 DEF MergeInvariant, Store, Sources
    <3>4. QED
      BY <1>0, <1>9, <1>10, <3>3 DEF Sources
  <2>2. OnePath'
    BY <1>4 DEF MergeInvariant, Store, OnePath
  <2>3. Listed'
    <3>1. \A g \in committed : \E h \in files' : PathOf(h) = PathOf(g)
      <4>1. ASSUME NEW g \in committed PROVE \E h \in files' : PathOf(h) = PathOf(g)
        <5>1. PICK h \in files : PathOf(h) = PathOf(g)
          BY DEF MergeInvariant, Store, Listed
        <5>2. QED
          BY <1>5, <1>10, <5>1
      <4>2. QED
        BY <4>1
    <3>2. Rows(committed)' = Rows(committed)
      BY <1>0 DEF Rows
    <3>3. QED
      BY <1>0, <1>8, <1>9, <3>1, <3>2 DEF MergeInvariant, Store, Listed
  <2>4. Marked'
    <3>1. ASSUME NEW s \in segs, s.uuid \in merged PROVE s.recs \subseteq Rows(Home(s))'
      <4>1. s.hdr /\ s.recs \subseteq Rows(Home(s)) /\ s.ms # cur.ms
        BY <1>2, <3>1, StateFields DEF MergeInvariant, WalPart, Apart, Store, Marked
      <4>2. Home(s) \subseteq Home(s)'
        <5>1. ASSUME NEW g \in committed \cap files, g.id = 0 \/ g.ms = s.ms PROVE g \in files'
          BY <1>2, <1>5, <1>6, <4>1, <5>1
        <5>2. QED
          BY <1>0, <5>1 DEF Home
      <4>3. Rows(Home(s)) \subseteq Rows(Home(s)')
        BY <4>2, RowsMono
      <4>4. QED
        BY <4>1, <4>3 DEF Rows
    <3>2. QED
      BY <1>0, <1>9, <3>1 DEF MergeInvariant, Store, Marked
  <2>5. QED
    BY <2>1, <2>2, <2>3, <2>4 DEF Store
<1>12. SameRows
  <2>1. f.rows \subseteq Disk(segs)
    BY <1>1, <1>7
  <2>2. Rows(files') \subseteq Rows(files) \cup Disk(segs)
    BY <1>10, <2>1 DEF Rows
  <2>3. Rows(files) \subseteq Rows(files') \cup Disk(segs)
    BY <1>5, <1>6, <1>7 DEF Rows
  <2>4. QED
    BY <1>9, <2>2, <2>3 DEF SameRows
<1>13. MergeTypeOK'
  <2>1. mpc' \in MergeSteps
    BY <1>0 DEF MergeSteps
  <2>2. files' \in SUBSET File /\ entries' \in SUBSET File
    BY <1>0, <1>3, <1>10 DEF MergeInvariant, MergeTypeOK
  <2>3. todo' \in SUBSET (Partitions \cup File) /\ fresh' \in SUBSET Partitions
    BY <1>0 DEF MergeInvariant, MergeTypeOK
  <2>4. QED
    BY <1>0, <2>1, <2>2, <2>3 DEF MergeInvariant, MergeTypeOK
<1>14. Phases'
  BY <1>0, <1>9 DEF MergeInvariant, PassInv, Phases
<1>15. mpc' \in {"write", "commit"} /\ Merging' /\ (mpc' = "commit" => todo' = {})
  BY <1>0 DEF Merging
<1>16. Listing'
  <2>1. \A e \in entries : e \in files'
    <3>1. \A e \in entries : e.part # f.part
      BY <1>0, <1>1, <1>2
    <3>2. QED
      BY <1>2, <1>5, <3>1, PathEq
  <2>2. QED
    BY <1>0, <1>2, <1>9, <1>10, <1>15, <2>1 DEF MergeInvariant, PassInv, Listing, Merging, Eligible
<1>17. Writing'
  <2>1. \A e \in entries' : e.id = cur.id /\ e.ms = cur.ms /\ e.part \notin todo'
    BY <1>0, <1>1, <1>2
  <2>2. \A r \in cur.recs : mlayout[r] \in todo' \/ r \in Rows(entries')
    <3>1. Rows(entries) \subseteq Rows(entries') /\ f.rows \subseteq Rows(entries')
      BY <1>0 DEF Rows
    <3>2. QED
      BY <1>0, <1>1, <1>2, <3>1
  <2>3. todo' \subseteq Partitions
    BY <1>0, <1>2
  <2>4. QED
    BY <1>0, <1>2, <1>15, <2>1, <2>2, <2>3 DEF Writing, Rows
<1>18. Compacting' /\ Finishing'
  BY <1>0, <1>9, <1>15 DEF Compacting, Finishing, MergeInvariant, PassInv, Merging
<1>19. QED
  BY <1>9, <1>11, <1>12, <1>13, <1>14, <1>16, <1>17, <1>18 DEF MergeInvariant, PassInv

(* What a commit does to the count of faults.                              *)
LEMMA CheckpointedFaults ==
    ASSUME MergeInvariant, Checkpointed
    PROVE  faults' \in Nat
BY DEF MergeInvariant, MergeTypeOK, Checkpointed

(* The files written hold the segment, and are listed together with its    *)
(* marker.                                                                 *)
LEMMA CommitKeeps ==
    ASSUME MergeInvariant, CommitMerge
    PROVE  MergeInvariant' /\ SameRows
<1>0. /\ UNCHANGED walVars
      /\ mpc = "commit" /\ mpc' = "remove"
      /\ files' = files /\ entries' = entries /\ committed' = PutAll(committed, entries)
      /\ merged' = merged \cup {cur.uuid}
      /\ queue' = queue /\ cur' = cur /\ todo' = todo /\ fresh' = fresh
      /\ limit' = limit /\ faults' \in Nat /\ clean' = clean
      /\ final' = final /\ mlayout' = mlayout /\ mlog' = mlog
      /\ compacted' = compacted /\ layout' = layout /\ phase' = phase
  BY CheckpointedFaults DEF CommitMerge, passVars
<1>1. /\ cur \in segs /\ cur.hdr /\ Eligible(cur) /\ Merging /\ entries \subseteq files
      /\ \A e \in entries : e.id = cur.id /\ e.ms = cur.ms
      /\ \A r \in cur.recs : r \in Rows(entries)
  BY <1>0 DEF MergeInvariant, PassInv, Listing, Merging, Writing
<1>2. committed' = {g \in committed : \A f \in entries : PathOf(g) # PathOf(f)} \cup entries
  BY <1>0 DEF PutAll
<1>3. committed \cap files \subseteq committed' \cap files'
  <2>1. ASSUME NEW g \in committed \cap files, NEW e \in entries, PathOf(g) = PathOf(e) PROVE g \in entries
    BY <1>1, <2>1 DEF MergeInvariant, Store, OnePath
  <2>2. QED
    BY <1>0, <1>2, <2>1
<1>4. Archived \subseteq Archived' /\ Rows(entries) \subseteq Archived'
  <2>1. entries \subseteq committed' \cap files'
    BY <1>0, <1>1, <1>2
  <2>2. Rows(committed \cap files) \subseteq Rows(committed' \cap files') /\ Rows(entries) \subseteq Rows(committed' \cap files')
    BY <1>3, <2>1, RowsMono
  <2>3. QED
    BY <2>2 DEF Archived, Rows
<1>5. /\ WalPart' /\ Where' /\ Bounded'
      /\ segs' = segs /\ wal' = wal /\ made' = made /\ clock' = clock /\ active' = active /\ wpc' = wpc
  BY <1>0, <1>4, StoreOnly
<1>6. committed' \subseteq committed \cup entries
  BY <1>2
<1>7. Store'
  <2>1. Sources'
    <3>1. files' \cup committed' \subseteq files \cup committed
      BY <1>0, <1>1, <1>6
    <3>2. QED
      BY <1>5, <3>1 DEF MergeInvariant, Store, Sources
  <2>2. OnePath'
    BY <1>0 DEF MergeInvariant, Store, OnePath
  <2>3. Listed'
    <3>1. \A g \in committed' : \E h \in files : PathOf(h) = PathOf(g)
      BY <1>1, <1>6 DEF MergeInvariant, Store, Listed
    <3>2. Rows(committed') \subseteq Rows(committed) \cup Rows(entries)
      BY <1>6 DEF Rows
    <3>3. Rows(committed') \subseteq Disk(segs) \cup Archived'
      BY <1>4, <3>2 DEF MergeInvariant, Store, Listed
    <3>4. QED
      BY <1>0, <1>5, <3>1, <3>3 DEF Listed, Rows
  <2>4. Marked'
    <3>1. \A s : Home(s) \subseteq Home(s)'
      BY <1>3 DEF Home
    <3>2. \A s : Rows(Home(s)) \subseteq Rows(Home(s)')
      BY <3>1, RowsMono
    <3>3. cur.recs \subseteq Rows(Home(cur)')
      <4>1. entries \subseteq {f \in committed' \cap files' : f.id = 0 \/ f.ms = cur.ms}
        BY <1>0, <1>1, <1>2
      <4>2. entries \subseteq Home(cur)'
        BY <1>0, <4>1 DEF Home
      <4>3. Rows(entries) \subseteq Rows(Home(cur)')
        BY <4>2, RowsMono
      <4>4. QED
        BY <1>1, <4>3
    <3>4. \A l \in Logs : wal[l].uuid # cur.uuid
      BY <1>1, EligibleClosed
    <3>5. cur.uuid \in 1 .. made
      <4>1. cur.uuid # 0 /\ cur.uuid <= made /\ cur.uuid \in Nat /\ made \in Nat
        BY <1>1, SegmentFields, StateFields DEF MergeInvariant, WalPart, PubInv, Tidy, Owned, TypeOK
      <4>2. QED
        BY <4>1
    <3>6. ASSUME NEW s \in segs, s.uuid \in merged'
          PROVE  s.hdr /\ s.recs \subseteq Rows(Home(s)') /\ \A l \in Logs : wal[l].uuid # s.uuid
      <4>1. CASE s.uuid \in merged
        BY <3>2, <4>1 DEF MergeInvariant, Store, Marked
      <4>2. CASE s.uuid = cur.uuid
        <5>1. s = cur
          BY <1>1, <4>2, StateFields DEF MergeInvariant, WalPart, Apart
        <5>2. QED
          BY <1>1, <3>3, <3>4, <5>1, <1>0
      <4>3. QED
        BY <1>0, <3>6, <4>1, <4>2
    <3>7. merged' \subseteq 1 .. made
      BY <1>0, <3>5 DEF MergeInvariant, Store, Marked
    <3>8. QED
      BY <1>5, <3>6, <3>7 DEF Marked, Rows
  <2>5. QED
    BY <2>1, <2>2, <2>3, <2>4 DEF Store
<1>8. SameRows
  BY <1>0, <1>5 DEF SameRows
<1>9. MergeTypeOK'
  <2>1. mpc' \in MergeSteps
    BY <1>0 DEF MergeSteps
  <2>2. committed' \in SUBSET File
    BY <1>6 DEF MergeInvariant, MergeTypeOK
  <2>3. merged' \in SUBSET Nat
    <3>1. cur.uuid \in Nat
      BY <1>1, SegmentFields DEF MergeInvariant, WalPart, TypeOK
    <3>2. QED
      BY <1>0, <3>1 DEF MergeInvariant, MergeTypeOK
  <2>4. QED
    BY <1>0, <2>1, <2>2, <2>3 DEF MergeInvariant, MergeTypeOK
<1>10. Phases'
  BY <1>0, <1>5 DEF MergeInvariant, PassInv, Phases
<1>11. Listing'
  BY <1>0, <1>1, <1>5 DEF MergeInvariant, PassInv, Listing, Merging, Eligible
<1>12. Writing' /\ Compacting'
  BY <1>0 DEF Writing, Compacting
<1>13. Finishing'
  BY <1>0, <1>1, <1>5 DEF MergeInvariant, PassInv, Finishing, Merging
<1>14. QED
  BY <1>5, <1>7, <1>8, <1>9, <1>10, <1>11, <1>12, <1>13 DEF MergeInvariant, PassInv

(* A rebuild lists every file.                                             *)
LEMMA RebuildKeeps ==
    ASSUME MergeInvariant, Rebuild
    PROVE  MergeInvariant' /\ SameRows
<1>0. /\ UNCHANGED walVars
      /\ wpc = "down" /\ mpc = "idle" /\ mpc' = mpc
      /\ files' = files /\ entries' = entries /\ committed' = files
      /\ merged' = merged
      /\ queue' = queue /\ cur' = cur /\ todo' = todo /\ fresh' = fresh
      /\ limit' = limit /\ faults' \in Nat /\ clean' = clean
      /\ final' = final /\ mlayout' = mlayout /\ mlog' = mlog
      /\ compacted' = compacted /\ layout' = layout /\ phase' = phase
  BY CheckpointedFaults DEF Rebuild, passVars, MergeInvariant, PassInv, Phases
<1>1. Archived \subseteq Archived' /\ Archived' = Rows(files)
  <2>1. committed' \cap files' = files /\ committed \cap files \subseteq files
    BY <1>0
  <2>2. QED
    BY <2>1, RowsMono DEF Archived, Rows
<1>2. /\ WalPart' /\ Where' /\ Bounded'
      /\ segs' = segs /\ wal' = wal /\ made' = made /\ clock' = clock /\ active' = active /\ wpc' = wpc
  BY <1>0, <1>1, StoreOnly
<1>3. Store'
  <2>1. Sources' /\ OnePath'
    BY <1>0, <1>2 DEF MergeInvariant, Store, Sources, OnePath
  <2>2. Listed'
    BY <1>0, <1>1 DEF Listed, Rows
  <2>3. Marked'
    <3>1. \A s : Home(s) \subseteq Home(s)'
      BY <1>0 DEF Home
    <3>2. \A s : Rows(Home(s)) \subseteq Rows(Home(s)')
      BY <3>1, RowsMono
    <3>3. QED
      BY <1>0, <1>2, <3>2 DEF MergeInvariant, Store, Marked, Rows
  <2>4. QED
    BY <2>1, <2>2, <2>3 DEF Store
<1>4. SameRows
  BY <1>0, <1>2 DEF SameRows
<1>5. MergeTypeOK'
  BY <1>0 DEF MergeInvariant, MergeTypeOK
<1>6. Phases' /\ Writing' /\ Compacting' /\ Finishing'
  BY <1>0, <1>2 DEF MergeInvariant, PassInv, Phases, Writing, Compacting, Finishing, Merging
<1>7. Listing'
  BY <1>0, <1>2 DEF MergeInvariant, PassInv, Listing, Merging, Eligible
<1>8. QED
  BY <1>2, <1>3, <1>4, <1>5, <1>6, <1>7 DEF MergeInvariant, PassInv

(* The output is listed and holds the rows of the inputs that no longer    *)
(* are.                                                                    *)
LEMMA RecordKeeps ==
    ASSUME MergeInvariant, RecordCompaction
    PROVE  MergeInvariant' /\ SameRows
<1>0. /\ UNCHANGED walVars
      /\ mpc = "record" /\ mpc' = "unlink"
      /\ files' = files /\ entries' = entries
      /\ committed' = {g \in PutAll(committed, entries) : \A f \in todo : PathOf(g) # PathOf(f)}
      /\ merged' = merged
      /\ queue' = queue /\ cur' = cur /\ todo' = todo /\ fresh' = fresh
      /\ limit' = limit /\ faults' \in Nat /\ clean' = clean
      /\ final' = final /\ mlayout' = mlayout /\ mlog' = mlog
      /\ compacted' = compacted /\ layout' = layout /\ phase' = phase
  BY CheckpointedFaults DEF RecordCompaction, Replaced, passVars
<1>1. /\ cur = NoSegment /\ entries \subseteq files /\ todo \subseteq files /\ queue = {}
  BY <1>0 DEF MergeInvariant, PassInv, Listing, Merging, Compacting
<1>2. PICK f \in entries : f.id = 0 /\ Rows(todo) \subseteq f.rows /\ \A g \in todo : PathOf(g) # PathOf(f)
  BY <1>0 DEF MergeInvariant, PassInv, Compacting
<1>3. /\ \A g \in committed' : g \in committed \cup entries /\ \A h \in todo : PathOf(g) # PathOf(h)
      /\ f \in committed'
      /\ \A g \in committed : \/ g \in committed'
                            \/ \E e \in entries : PathOf(g) = PathOf(e)
                            \/ \E h \in todo : PathOf(g) = PathOf(h)
      /\ \A e \in entries : e \in committed' \/ \E h \in todo : PathOf(e) = PathOf(h)
  BY <1>0, <1>2 DEF PutAll
<1>4. \A g \in files, h \in todo : PathOf(g) = PathOf(h) => g \in todo
  BY <1>1 DEF MergeInvariant, Store, OnePath
<1>5. \A g \in committed \cap files : g \in committed' \/ g \in todo
  <2>1. ASSUME NEW g \in committed \cap files, NEW e \in entries, PathOf(g) = PathOf(e) PROVE g \in committed' \/ g \in todo
    <3>1. g = e
      BY <1>1, <2>1 DEF MergeInvariant, Store, OnePath
    <3>2. QED
      BY <1>3, <1>4, <3>1
  <2>2. QED
    BY <1>3, <1>4, <2>1
<1>6. \A g \in todo : g.rows \subseteq f.rows
  BY <1>2, RowsOf
<1>7. f \in committed' \cap files'
  BY <1>0, <1>1, <1>2, <1>3
<1>8. Archived \subseteq Archived' /\ f.rows \subseteq Archived'
  <2>1. f.rows \subseteq Rows(committed' \cap files')
    BY <1>7, RowsOf
  <2>2. \A g \in committed \cap files : g \in committed' \cap files' \/ g.rows \subseteq f.rows
    BY <1>0, <1>5, <1>6
  <2>3. QED
    BY <2>1, <2>2 DEF Archived, Rows
<1>9. /\ WalPart' /\ Where' /\ Bounded'
      /\ segs' = segs /\ wal' = wal /\ made' = made /\ clock' = clock /\ active' = active /\ wpc' = wpc
  BY <1>0, <1>8, StoreOnly
<1>10. committed' \subseteq committed \cup entries
  BY <1>3
<1>11. Store'
  <2>1. Sources'
    <3>1. files' \cup committed' \subseteq files \cup committed
      BY <1>0, <1>1, <1>10
    <3>2. QED
      BY <1>9, <3>1 DEF MergeInvariant, Store, Sources
  <2>2. OnePath'
    BY <1>0 DEF MergeInvariant, Store, OnePath
  <2>3. Listed'
    <3>1. \A g \in committed' : \E h \in files : PathOf(h) = PathOf(g)
      BY <1>1, <1>10 DEF MergeInvariant, Store, Listed
    <3>2. \A g \in committed' : g \in committed \/ g \in committed' \cap files'
      BY <1>0, <1>1, <1>10
    <3>3. Rows(committed') \subseteq Rows(committed) \cup Rows(committed' \cap files')
      BY <3>2 DEF Rows
    <3>4. Archived' = Rows(committed' \cap files')
      BY DEF Archived, Rows
    <3>5. Rows(committed') \subseteq Disk(segs) \cup Archived'
      BY <1>8, <3>3, <3>4 DEF MergeInvariant, Store, Listed
    <3>6. QED
      BY <1>0, <1>9, <3>1, <3>5 DEF Listed, Rows
  <2>4. Marked'
    <3>1. ASSUME NEW s PROVE Rows(Home(s)) \subseteq Rows(Home(s)')
      <4>1. f \in Home(s)'
        BY <1>2, <1>7 DEF Home
      <4>2. \A g \in Home(s) : g \in Home(s)' \/ g.rows \subseteq f.rows
        BY <1>0, <1>5, <1>6 DEF Home
      <4>3. QED
        BY <4>1, <4>2 DEF Rows
    <3>2. QED
      BY <1>0, <1>9, <3>1 DEF MergeInvariant, Store, Marked, Rows
  <2>5. QED
    BY <2>1, <2>2, <2>3, <2>4 DEF Store
<1>12. SameRows
  BY <1>0, <1>9 DEF SameRows
<1>13. MergeTypeOK'
  <2>1. mpc' \in MergeSteps
    BY <1>0 DEF MergeSteps
  <2>2. committed' \in SUBSET File
    BY <1>10 DEF MergeInvariant, MergeTypeOK
  <2>3. QED
    BY <1>0, <2>1, <2>2 DEF MergeInvariant, MergeTypeOK
<1>14. Phases'
  BY <1>0, <1>9 DEF MergeInvariant, PassInv, Phases
<1>15. Listing' /\ Writing'
  BY <1>0, <1>1 DEF Listing, Merging, Writing
<1>16. Compacting'
  <2>1. \A g \in committed', h \in todo' : PathOf(h) # PathOf(g)
    BY <1>0, <1>3
  <2>2. Rows(todo)' \subseteq Archived'
    BY <1>0, <1>2, <1>8 DEF Rows
  <2>3. QED
    BY <1>0, <1>1, <2>1, <2>2 DEF Compacting, Rows
<1>17. Finishing'
  BY <1>0, <1>9 DEF MergeInvariant, PassInv, Finishing, Merging
<1>18. QED
  BY <1>9, <1>11, <1>12, <1>13, <1>14, <1>15, <1>16, <1>17 DEF MergeInvariant, PassInv

(* The output has a path of its own: it is of a millisecond no file or     *)
(* segment has yet.                                                        *)
LEMMA WriteCompactedKeeps ==
    ASSUME MergeInvariant, ~SameMs, NEW p \in Partitions, NEW inputs \in SUBSET files, WriteCompacted(p, inputs)
    PROVE  MergeInvariant' /\ SameRows
<1> DEFINE f == [part |-> p, id |-> 0, ms |-> clock + 1, rows |-> Rows(inputs), twice |-> Repeated(inputs)]
<1>0. /\ UNCHANGED <<wal, made, wpc, stopping, late, total, base, published, active, starts, acked>>
      /\ segs' = segs /\ clock' = clock + 1
      /\ mpc = "compact" /\ mpc' = "record"
      /\ files' = Put(files, f) /\ entries' = {f} /\ committed' = committed /\ merged' = merged
      /\ queue' = queue /\ cur' = cur /\ todo' = inputs /\ fresh' = fresh
      /\ limit' = limit /\ faults' = faults /\ clean' = clean
      /\ final' = final /\ mlayout' = mlayout /\ mlog' = mlog
      /\ compacted' = compacted \cup {p} /\ layout' = layout /\ phase' = phase
  BY DEF WriteCompacted, Ticks
<1>1. /\ clock \in Nat /\ files \in SUBSET File /\ committed \in SUBSET File
      /\ \A g \in files \cup committed : g.ms \in Nat /\ g.ms <= clock
  BY FileFields DEF MergeInvariant, WalPart, TypeOK, MergeTypeOK, Store, Sources
<1>2. f \in File
  <2>1. Rows(inputs) \in SUBSET Nat
    BY <1>1, FileFields DEF Rows
  <2>2. Repeated(inputs) \in SUBSET Nat
    BY <1>1, <2>1, FileFields DEF Repeated
  <2>3. clock + 1 \in Nat /\ 0 \in Nat
    BY <1>1
  <2>4. QED
    BY <2>1, <2>2, <2>3 DEF File
<1>3. f.id = 0 /\ f.ms = clock + 1 /\ f.rows = Rows(inputs)
  OBVIOUS
<1> HIDE DEF f
<1>4. \A g \in files \cup committed : PathOf(g) # PathOf(f)
  <2>1. \A g \in files \cup committed : g.ms # f.ms
    BY <1>1, <1>3
  <2>2. QED
    BY <2>1, PathEq
<1>5. files' = files \cup {f}
  BY <1>0, <1>4 DEF Put
<1>6. committed' \cap files' = committed \cap files
  BY <1>0, <1>4, <1>5
<1>7. Archived' = Archived
  BY <1>6 DEF Archived, Rows
<1>8. WalPart' /\ Where' /\ Bounded'
  <2>1. WalPart /\ Where /\ Bounded /\ clock' \in Nat /\ clock <= clock'
    BY <1>0, <1>1 DEF MergeInvariant
  <2>2. QED
    BY <1>0, <1>7, <2>1, QuietStep
<1>9. Store'
  <2>1. Sources'
    <3>1. \A g \in files \cup committed \cup {f} : g.ms <= clock + 1
      BY <1>1, <1>3
    <3>2. \A g \in files \cup committed \cup {f} :
             g.id # 0 => \A s \in segs : s.hdr /\ s.ms = g.ms => g.rows \subseteq s.recs
      BY <1>3 DEF MergeInvariant, Store, Sources
    <3>3. QED
      BY <1>0, <1>5, <3>1, <3>2 DEF Sources
  <2>2. OnePath'
    BY <1>4, <1>5 DEF MergeInvariant, Store, OnePath
  <2>3. Listed'
    <3>1. Rows(committed)' = Rows(committed)
      BY <1>0 DEF Rows
    <3>2. QED
      BY <1>0, <1>5, <1>7, <3>1 DEF MergeInvariant, Store, Listed
  <2>4. Marked'
    <3>1. \A s : Home(s)' = Home(s)
      BY <1>6 DEF Home
    <3>2. QED
      BY <1>0, <3>1 DEF MergeInvariant, Store, Marked, Rows
  <2>5. QED
    BY <2>1, <2>2, <2>3, <2>4 DEF Store
<1>10. SameRows
  <2>1. Rows(inputs) \subseteq Rows(files)
    BY RowsMono
  <2>2. Rows(files') = Rows(files)
    BY <1>3, <1>5, <2>1 DEF Rows
  <2>3. QED
    BY <1>0, <2>2 DEF SameRows
<1>11. MergeTypeOK'
  <2>1. mpc' \in MergeSteps
    BY <1>0 DEF MergeSteps
  <2>2. files' \in SUBSET File /\ entries' \in SUBSET File /\ todo' \in SUBSET (Partitions \cup File)
    BY <1>0, <1>1, <1>2, <1>5
  <2>3. QED
    BY <1>0, <2>1, <2>2 DEF MergeInvariant, MergeTypeOK
<1>12. Phases'
  BY <1>0 DEF MergeInvariant, PassInv, Phases
<1>13. Listing' /\ Writing'
  BY <1>0, <1>5 DEF MergeInvariant, PassInv, Listing, Merging, Writing
<1>14. Compacting'
  <2>1. \A g \in inputs : PathOf(g) # PathOf(f)
    BY <1>4
  <2>2. inputs \subseteq files'
    BY <1>5
  <2>3. QED
    BY <1>0, <1>3, <2>1, <2>2 DEF Compacting, Rows
<1>15. Finishing'
  BY <1>0 DEF MergeInvariant, PassInv, Finishing, Merging
<1>16. QED
  BY <1>8, <1>9, <1>10, <1>11, <1>12, <1>13, <1>14, <1>15 DEF MergeInvariant, PassInv

(* An input is unlisted and its rows are in listed files.                  *)
LEMMA UnlinkKeeps ==
    ASSUME MergeInvariant, NEW f \in todo, UnlinkInput(f)
    PROVE  MergeInvariant' /\ SameRows
<1>0. /\ UNCHANGED walVars
      /\ mpc = "unlink" /\ mpc' \in {"unlink", "compact"}
      /\ entries' = {} /\ committed' = committed /\ merged' = merged
      /\ queue' = queue /\ cur' = cur /\ todo' = todo \ {f} /\ fresh' = fresh
      /\ limit' = limit
      /\ final' = final /\ mlayout' = mlayout /\ mlog' = mlog
      /\ compacted' = compacted /\ layout' = layout /\ phase' = phase
  BY DEF UnlinkInput
<1>1. PICK ok \in BOOLEAN : /\ files' = IF ok THEN {g \in files : PathOf(g) # PathOf(f)} ELSE files
                            /\ Try(ok)
  BY DEF UnlinkInput
<1>2. faults' \in Nat /\ clean' \in BOOLEAN /\ (clean' => clean)
  BY <1>1, TryType
<1>3. /\ todo \subseteq files /\ \A g \in committed, h \in todo : PathOf(h) # PathOf(g)
      /\ Rows(todo) \subseteq Archived /\ cur = NoSegment /\ queue = {}
  BY <1>0 DEF MergeInvariant, PassInv, Compacting, Listing, Merging
<1>4. /\ files' \subseteq files
      /\ \A g \in files : g = f \/ g \in files'
  <2>1. \A g \in files : PathOf(g) = PathOf(f) => g = f
    BY <1>3 DEF MergeInvariant, Store, OnePath
  <2>2. QED
    BY <1>1, <2>1
<1>5. committed' \cap files' = committed \cap files
  <2>1. f \notin committed
    BY <1>3
  <2>2. QED
    BY <1>0, <1>4, <2>1
<1>6. Archived' = Archived
  BY <1>5 DEF Archived, Rows
<1>7. /\ WalPart' /\ Where' /\ Bounded'
      /\ segs' = segs /\ wal' = wal /\ made' = made /\ clock' = clock /\ active' = active /\ wpc' = wpc
  BY <1>0, <1>6, StoreOnly
<1>8. Store'
  <2>1. Sources'
    BY <1>0, <1>4, <1>7 DEF MergeInvariant, Store, Sources
  <2>2. OnePath'
    BY <1>4 DEF MergeInvariant, Store, OnePath
  <2>3. Listed'
    <3>1. ASSUME NEW g \in committed PROVE \E h \in files' : PathOf(h) = PathOf(g)
      <4>1. PICK h \in files : PathOf(h) = PathOf(g)
        BY DEF MergeInvariant, Store, Listed
      <4>2. h # f
        BY <1>3, <4>1
      <4>3. QED
        BY <1>4, <4>1, <4>2
    <3>2. Rows(committed)' = Rows(committed)
      BY <1>0 DEF Rows
    <3>3. QED
      BY <1>0, <1>6, <1>7, <3>1, <3>2 DEF MergeInvariant, Store, Listed
  <2>4. Marked'
    <3>1. \A s : Home(s)' = Home(s)
      BY <1>5 DEF Home
    <3>2. QED
      BY <1>0, <1>7, <3>1 DEF MergeInvariant, Store, Marked, Rows
  <2>5. QED
    BY <2>1, <2>2, <2>3, <2>4 DEF Store
<1>9. SameRows
  <2>1. f.rows \subseteq Archived
    BY <1>3, RowsOf
  <2>2. Archived \subseteq Rows(files')
    <3>1. committed \cap files \subseteq files'
      BY <1>5
    <3>2. QED
      BY <3>1, RowsMono DEF Archived
  <2>3. Rows(files') \subseteq Rows(files)
    BY <1>4, RowsMono
  <2>4. \A g \in files : g.rows \subseteq Rows(files')
    BY <1>4, <2>1, <2>2, RowsOf
  <2>5. Rows(files) \subseteq Rows(files')
    BY <2>4 DEF Rows
  <2>6. QED
    BY <1>7, <2>3, <2>5 DEF SameRows
<1>10. MergeTypeOK'
  <2>1. mpc' \in MergeSteps
    BY <1>0 DEF MergeSteps
  <2>2. files' \in SUBSET File /\ entries' \in SUBSET File /\ todo' \in SUBSET (Partitions \cup File)
    BY <1>0, <1>4 DEF MergeInvariant, MergeTypeOK
  <2>3. QED
    BY <1>0, <1>2, <2>1, <2>2 DEF MergeInvariant, MergeTypeOK
<1>11. Phases'
  BY <1>0, <1>7 DEF MergeInvariant, PassInv, Phases
<1>12. Listing' /\ Writing'
  BY <1>0, <1>3 DEF Listing, Merging, Writing
<1>13. Compacting'
  <2>1. todo' \subseteq files'
    BY <1>0, <1>3, <1>4
  <2>2. Rows(todo') \subseteq Archived'
    BY <1>0, <1>3, <1>6 DEF Rows
  <2>3. QED
    BY <1>0, <1>3, <2>1, <2>2 DEF Compacting, Rows
<1>14. Finishing'
  BY <1>0, <1>2, <1>7 DEF MergeInvariant, PassInv, Finishing, Merging
<1>15. QED
  BY <1>7, <1>8, <1>9, <1>10, <1>11, <1>12, <1>13, <1>14 DEF MergeInvariant, PassInv

(* The invariant holds at the start.                                       *)
LEMMA MergeInitInv ==
    ASSUME MergeInit
    PROVE  MergeInvariant
<1>0. /\ Init /\ segs = {} /\ files = {} /\ committed = {} /\ merged = {} /\ faults = 0
      /\ layout \in Layouts /\ phase = FALSE /\ mpc = "idle" /\ final = FALSE
      /\ limit = [l \in Logs |-> 0] /\ mlayout = AnyLayout /\ mlog = "main" /\ queue = {}
      /\ cur = NoSegment /\ todo = {} /\ entries = {} /\ fresh = {} /\ compacted = {} /\ clean = FALSE
      /\ wpc = "down" /\ active = [l \in Logs |-> 0]
  BY DEF MergeInit, Init
<1>1. PICK X : X = Archived
  OBVIOUS
<1>2. Inv(X) /\ PubInv
  BY <1>0, InitInv, PubInit
<1>3. Apart(State)
  BY <1>0, StateFields DEF Apart
<1>4. WalPart /\ Where
  BY <1>1, <1>2, <1>3 DEF Inv, WalPart, Where
<1>5. Bounded
  <2>1. Stored = {}
    BY <1>0, StateFields DEF Init, Stored, Held, Disk, BufOf, ClosedWriters, ClosedWriter, Logs
  <2>2. QED
    BY <2>1 DEF Bounded
<1>6. Store
  BY <1>0 DEF Store, Sources, OnePath, Listed, Marked, Rows
<1>7. MergeTypeOK
  <2>1. mlog \in Logs /\ mpc \in MergeSteps /\ limit \in [Logs -> Nat]
    BY <1>0 DEF Logs, MergeSteps
  <2>2. QED
    BY <1>0, <2>1, LayoutsNonempty DEF MergeTypeOK
<1>8. Phases
  BY <1>0 DEF Phases
<1>9. Listing /\ Writing /\ Compacting /\ Finishing
  BY <1>0 DEF Listing, Merging, Writing, Compacting, Finishing
<1>10. QED
  BY <1>4, <1>5, <1>6, <1>7, <1>8, <1>9 DEF MergeInvariant, PassInv

(* A step that moves records between segments and files and loses none.    *)
MaintenanceStep ==
    /\ SameRows
    /\ wal' = wal /\ late' = late /\ acked' = acked /\ wpc' = wpc

(* Every step of the maintenance thread is one.                            *)
LEMMA MaintenanceKeeps ==
    ASSUME MergeInvariant, ~SameMs, MaintenanceNext
    PROVE  MergeInvariant' /\ MaintenanceStep
<1>1. CASE StartPass
  <2>1. UNCHANGED <<walVars, storeVars>>
    BY <1>1 DEF StartPass
  <2>2. QED
    BY <1>1, <2>1, StartPassKeeps DEF MaintenanceStep, SameRows, walVars, storeVars
<1>2. CASE ReadLateActive
  <2>1. UNCHANGED <<walVars, storeVars>>
    BY <1>2 DEF ReadLateActive
  <2>2. QED
    BY <1>2, <2>1, ReadLateKeeps DEF MaintenanceStep, SameRows, walVars, storeVars
<1>3. CASE ListSegments
  <2>1. UNCHANGED <<walVars, storeVars>>
    BY <1>3 DEF ListSegments
  <2>2. QED
    BY <1>3, <2>1, ListSegmentsKeeps DEF MaintenanceStep, SameRows, walVars, storeVars
<1>4. ASSUME NEW s \in queue, SkipSegment(s) PROVE MergeInvariant' /\ MaintenanceStep
  <2>1. wal' = wal /\ late' = late /\ acked' = acked /\ wpc' = wpc
    BY <1>4 DEF SkipSegment
  <2>2. QED
    BY <1>4, <2>1, SkipKeeps DEF MaintenanceStep
<1>5. ASSUME NEW s \in queue, ReplaySegment(s) PROVE MergeInvariant' /\ MaintenanceStep
  <2>1. UNCHANGED <<walVars, storeVars>>
    BY <1>5 DEF ReplaySegment
  <2>2. QED
    BY <1>5, <2>1, ReplayKeeps DEF MaintenanceStep, SameRows, walVars, storeVars
<1>6. ASSUME NEW p \in Partitions, WritePartition(p) PROVE MergeInvariant' /\ MaintenanceStep
  <2>1. UNCHANGED walVars
    BY <1>6 DEF WritePartition
  <2>2. QED
    BY <1>6, <2>1, WritePartitionKeeps DEF MaintenanceStep, walVars
<1>7. CASE CommitMerge
  <2>1. UNCHANGED walVars
    BY <1>7 DEF CommitMerge
  <2>2. QED
    BY <1>7, <2>1, CommitKeeps DEF MaintenanceStep, walVars
<1>8. CASE RemoveMerged
  <2>1. wal' = wal /\ late' = late /\ acked' = acked /\ wpc' = wpc
    BY <1>8 DEF RemoveMerged
  <2>2. QED
    BY <1>8, <2>1, RemoveMergedKeeps DEF MaintenanceStep
<1>9. CASE EndOfLog
  <2>1. UNCHANGED <<walVars, storeVars>>
    BY <1>9 DEF EndOfLog
  <2>2. QED
    BY <1>9, <2>1, EndOfLogKeeps DEF MaintenanceStep, SameRows, walVars, storeVars
<1>10. CASE MergeFails
  <2>1. UNCHANGED <<walVars, storeVars>>
    BY <1>10 DEF MergeFails
  <2>2. QED
    BY <1>10, <2>1, MergeFailsKeeps DEF MaintenanceStep, SameRows, walVars, storeVars
<1>11. ASSUME NEW p \in Partitions, NEW inputs \in SUBSET files, WriteCompacted(p, inputs)
       PROVE  MergeInvariant' /\ MaintenanceStep
  <2>1. wal' = wal /\ late' = late /\ acked' = acked /\ wpc' = wpc
    BY <1>11 DEF WriteCompacted
  <2>2. QED
    BY <1>11, <2>1, WriteCompactedKeeps DEF MaintenanceStep
<1>12. CASE RecordCompaction
  <2>1. UNCHANGED walVars
    BY <1>12 DEF RecordCompaction
  <2>2. QED
    BY <1>12, <2>1, RecordKeeps DEF MaintenanceStep, walVars
<1>13. ASSUME NEW f \in todo, UnlinkInput(f) PROVE MergeInvariant' /\ MaintenanceStep
  <2>1. UNCHANGED walVars
    BY <1>13 DEF UnlinkInput
  <2>2. QED
    BY <1>13, <2>1, UnlinkKeeps DEF MaintenanceStep, walVars
<1>14. CASE EndPass
  <2>1. UNCHANGED <<walVars, storeVars>>
    BY <1>14 DEF EndPass
  <2>2. QED
    BY <1>14, <2>1, EndPassKeeps DEF MaintenanceStep, SameRows, walVars, storeVars
<1>15. QED
  BY <1>1, <1>2, <1>3, <1>4, <1>5, <1>6, <1>7, <1>8, <1>9, <1>10, <1>11, <1>12, <1>13, <1>14
     DEF MaintenanceNext

(* A step of the log beside an unchanged store.                            *)
WriterStep == AbstractStep(Archived) /\ files' = files

(* As is doing nothing.                                                    *)
LEMMA UnchangedKeeps ==
    ASSUME MergeInvariant, UNCHANGED vars
    PROVE  MergeInvariant' /\ MaintenanceStep
<1>0. /\ UNCHANGED <<walVars, storeVars>>
      /\ files' = files /\ committed' = committed /\ merged' = merged /\ layout' = layout /\ phase' = phase
      /\ mpc' = mpc /\ final' = final /\ limit' = limit /\ mlayout' = mlayout /\ mlog' = mlog
      /\ queue' = queue /\ cur' = cur /\ todo' = todo /\ entries' = entries /\ fresh' = fresh
      /\ compacted' = compacted /\ clean' = clean /\ faults' = faults
      /\ segs' = segs /\ wal' = wal /\ late' = late /\ acked' = acked /\ wpc' = wpc
  BY DEF vars, walVars, mergeVars, storeVars, passVars
<1>1. /\ WalPart' /\ Where' /\ Bounded' /\ Store' /\ Archived' = Archived
      /\ active' = active /\ wpc' = wpc
  BY <1>0, StillStore
<1>2. MergeTypeOK'
  BY <1>0 DEF MergeInvariant, MergeTypeOK
<1>3. Phases' /\ Listing'
  BY <1>0, <1>1 DEF MergeInvariant, PassInv, Phases, Listing, Merging, Eligible
<1>4. Writing' /\ Compacting' /\ Finishing'
  BY <1>0, <1>1 DEF MergeInvariant, PassInv, Writing, Compacting, Finishing, Merging, Rows
<1>5. QED
  BY <1>0, <1>1, <1>2, <1>3, <1>4 DEF MergeInvariant, PassInv, MaintenanceStep, SameRows

(* Every step keeps the invariant, and is one of the two kinds.            *)
LEMMA MergeStep ==
    ASSUME MergeInvariant, Journal, ~SameMs, [MergeNext]_vars
    PROVE  MergeInvariant' /\ (MaintenanceStep \/ WriterStep)
<1>1. ASSUME WriterNext, UNCHANGED mergeVars PROVE MergeInvariant' /\ WriterStep
  <2>1. [Next]_walVars /\ UNCHANGED <<files, committed>> /\ merged' \subseteq merged
    BY <1>1 DEF Next, mergeVars, storeVars
  <2>2. QED
    BY <1>1, <2>1, WriterSide, WriterPass DEF WriterStep
<1>2. CASE MaintenanceNext
  BY <1>2, MaintenanceKeeps
<1>3. CASE WriterJoined \/ ChangePolicy
  <2>1. UNCHANGED <<walVars, storeVars>>
    BY <1>3 DEF WriterJoined, ChangePolicy
  <2>2. QED
    BY <1>3, <2>1, PolicyPass DEF MaintenanceStep, SameRows, walVars, storeVars
<1>4. CASE ProcessCrash
  <2>1. [Next]_walVars /\ UNCHANGED <<files, committed>> /\ merged' \subseteq merged
    BY <1>4 DEF Next, ProcessCrash, ThreadGone, Journal
  <2>2. QED
    BY <1>4, <2>1, WriterSide, CrashPass DEF WriterStep
<1>5. CASE Rebuild
  <2>1. UNCHANGED walVars
    BY <1>5 DEF Rebuild
  <2>2. QED
    BY <1>5, <2>1, RebuildKeeps DEF MaintenanceStep, walVars
<1>6. CASE UNCHANGED vars
  BY <1>6, UnchangedKeeps
<1>7. QED
  BY <1>1, <1>2, <1>3, <1>4, <1>5, <1>6 DEF MergeNext

(* No step loses a row that is on disk.                                    *)
LEMMA RowsStay ==
    ASSUME MaintenanceStep \/ WriterStep
    PROVE  Disk(segs) \cup Rows(files) \subseteq Disk(segs') \cup Rows(files')
BY DEF MaintenanceStep, SameRows, WriterStep, AbstractStep

(* A commit adds rows of files that are there.                             *)
LEMMA PutAllRows ==
    ASSUME NEW t, NEW fs
    PROVE  Rows(PutAll(t, fs)) \subseteq Rows(t) \cup Rows(fs) /\ Replaced(t) \subseteq PutAll(t, entries)
BY DEF Rows, PutAll, Replaced

(* Every step leaves the catalog, and what is synced of it, with rows that *)
(* are on disk.                                                            *)
LEMMA JournalStep ==
    ASSUME MergeInvariant, Journal, [MergeNext]_vars, MaintenanceStep \/ WriterStep
    PROVE  Journal'
<1> DEFINE Here == Disk(segs) \cup Rows(files)
<1>1. Here \subseteq Here'
  BY RowsStay DEF Rows
<1>2. /\ catalog \in SUBSET File /\ merged \in SUBSET Nat /\ files \in SUBSET File
      /\ durable \in [catalog : SUBSET File, merged : SUBSET Nat]
      /\ entries \subseteq files /\ cur.uuid \in Nat
  <2>1. cur \in Segment \cup {NoSegment}
    BY DEF MergeInvariant, MergeTypeOK
  <2>2. cur.uuid \in Nat
    BY <2>1, SegmentFields DEF NoSegment
  <2>3. QED
    BY <2>2 DEF Journal, CatalogTypeOK, MergeInvariant, MergeTypeOK, PassInv, Listing
<1>3. Rows(catalog) \subseteq Here /\ Rows(durable.catalog) \subseteq Here /\ Rows(files) \subseteq Here
  BY DEF Journal
<1>4. ASSUME catalog' \in SUBSET File, Rows(catalog') \subseteq Here, merged' \in SUBSET Nat, merged \subseteq merged',
             Checkpointed
      PROVE  Journal'
  <2>1. CASE durable' = [catalog |-> catalog', merged |-> merged']
    BY <1>1, <1>4, <2>1 DEF Journal, CatalogTypeOK, Rows
  <2>2. CASE durable' = durable
    BY <1>1, <1>2, <1>3, <1>4, <2>2 DEF Journal, CatalogTypeOK, Rows
  <2>3. QED
    BY <1>4, <2>1, <2>2 DEF Checkpointed
<1>5. Rows(entries) \subseteq Rows(files)
  BY <1>2 DEF Rows
<1>6. PutAll(catalog, entries) \in SUBSET File /\ Rows(PutAll(catalog, entries)) \subseteq Here
  <2>1. PutAll(catalog, entries) \in SUBSET File
    BY <1>2 DEF PutAll
  <2>2. QED
    BY <1>3, <1>5, <2>1, PutAllRows
<1>7. CASE CommitMerge
  BY <1>2, <1>4, <1>6, <1>7 DEF CommitMerge
<1>8. CASE RecordCompaction
  <2>1. Replaced(catalog) \subseteq PutAll(catalog, entries)
    BY PutAllRows
  <2>2. Replaced(catalog) \in SUBSET File /\ Rows(Replaced(catalog)) \subseteq Here
    BY <1>6, <2>1 DEF Rows
  <2>3. QED
    BY <1>2, <1>4, <1>8, <2>2 DEF RecordCompaction
<1>9. CASE Rebuild
  BY <1>2, <1>3, <1>4, <1>9 DEF Rebuild
<1>10. CASE ProcessCrash
  <2>1. /\ durable' = durable
        /\ \/ catalog' = catalog /\ merged' = merged
           \/ catalog' = durable.catalog /\ merged' = durable.merged
    BY <1>10 DEF ProcessCrash, ThreadGone
  <2>2. catalog' \in SUBSET File /\ Rows(catalog') \subseteq Here /\ durable.merged \subseteq merged'
    BY <1>2, <1>3, <2>1 DEF Journal
  <2>3. QED
    BY <1>1, <1>2, <1>3, <2>1, <2>2 DEF Journal, CatalogTypeOK, Rows
<1>11. ASSUME catalog' = catalog, durable' = durable, merged' = merged PROVE Journal'
  BY <1>1, <1>2, <1>3, <1>11 DEF Journal, CatalogTypeOK, Rows
<1>12. CASE (WriterNext /\ UNCHANGED mergeVars) \/ WriterJoined \/ ChangePolicy \/ UNCHANGED vars
  BY <1>11, <1>12 DEF mergeVars, storeVars, vars, WriterJoined, ChangePolicy
<1>13. CASE StartPass \/ ReadLateActive \/ ListSegments \/ EndOfLog \/ MergeFails \/ EndPass \/ RemoveMerged
  BY <1>11, <1>13 DEF StartPass, ReadLateActive, ListSegments, EndOfLog, MergeFails, EndPass, RemoveMerged, storeVars
<1>14. ASSUME NEW s \in queue, SkipSegment(s) \/ ReplaySegment(s) PROVE Journal'
  BY <1>11, <1>14 DEF SkipSegment, ReplaySegment, storeVars
<1>15. ASSUME NEW p \in Partitions, WritePartition(p) PROVE Journal'
  BY <1>11, <1>15 DEF WritePartition
<1>16. ASSUME NEW p \in Partitions, NEW inputs \in SUBSET files, WriteCompacted(p, inputs) PROVE Journal'
  BY <1>11, <1>16 DEF WriteCompacted
<1>17. ASSUME NEW f \in todo, UnlinkInput(f) PROVE Journal'
  BY <1>11, <1>17 DEF UnlinkInput
<1>18. QED
  BY <1>7, <1>8, <1>9, <1>10, <1>12, <1>13, <1>14, <1>15, <1>16, <1>17 DEF MergeNext, MaintenanceNext

(* The invariant holds throughout.                                         *)
LEMMA MergeAlways ==
    ASSUME ~SameMs
    PROVE  MergeSpec => [](MergeInvariant /\ Journal)
<1>1. MergeInit => MergeInvariant /\ Journal
  <2>1. MergeInit => Journal
    BY DEF MergeInit, Journal, CatalogTypeOK, Rows
  <2>2. QED
    BY <2>1, MergeInitInv
<1>2. MergeInvariant /\ Journal /\ [MergeNext]_vars => (MergeInvariant /\ Journal)'
  BY MergeStep, JournalStep
<1>3. QED
  BY <1>1, <1>2, PTL DEF MergeSpec

(* The invariant the runs check of Merge, for any number of records,       *)
(* segments, partitions, policies, faults and restarts: whatever merge.rs  *)
(* and compact.rs are in the middle of, and wherever a kill or a power     *)
(* loss hits them, an acknowledged record is in a segment or in a file of  *)
(* the store, and in one the catalog lists unless a power loss has taken   *)
(* its commit back; the maintenance thread leaves open segments alone; and *)
(* a clean stop leaves nothing in the log.  Two segments created within    *)
(* one millisecond are excluded: their files share a path                  *)
(* (file_name_for_segment), and the run Merge_same_ms shows what that      *)
(* loses.                                                                  *)
THEOREM MergeSafe ==
    ASSUME ~SameMs
    PROVE  MergeSpec => []MergeInv
<1>1. ASSUME MergeInvariant, Journal PROVE MergeInv
  <2>1. AckedReachable
    <3>1. Archived \subseteq Rows(committed) /\ Archived \subseteq Rows(files)
      BY RowsMono DEF Archived
    <3>2. acked \subseteq Disk(segs) \cup Archived
      BY <1>1 DEF MergeInvariant, Where, Placed
    <3>3. QED
      BY <3>1, <3>2 DEF AckedReachable, Behind, OnDisk, Disk
  <2>2. MergerAvoidsOpenSegment
    <3>1. ASSUME NEW s \in queue \cup {cur} PROVE s.uuid = 0 \/ \A l \in Logs : s.uuid # wal[l].uuid
      <4>1. s = NoSegment \/ (s \in segs /\ Eligible(s))
        BY <1>1 DEF MergeInvariant, PassInv, Listing
      <4>2. CASE s = NoSegment
        BY <4>2 DEF NoSegment
      <4>3. CASE s \in segs /\ Eligible(s)
        BY <1>1, <4>3, EligibleClosed
      <4>4. QED
        BY <4>1, <4>2, <4>3
    <3>2. QED
      BY <3>1 DEF MergerAvoidsOpenSegment
  <2>3. CleanStopMergesAll
    BY <1>1 DEF MergeInvariant, PassInv, Finishing, CleanStopMergesAll, OnDisk
  <2>4. QED
    BY <1>1, <2>1, <2>2, <2>3 DEF MergeInv, MergeInvariant, Journal
<1>2. QED
  BY <1>1, MergeAlways, PTL

(* The rows the catalog lists are on disk, also when a power loss has set  *)
(* it back; and when it has not, every row has its file.                   *)
THEOREM MergeCatalogOnDisk ==
    ASSUME ~SameMs
    PROVE  MergeSpec => []CatalogOnDisk
<1>1. ASSUME MergeInvariant, Journal PROVE CatalogOnDisk
  <2>1. ~Behind => \A g \in catalog : \E f \in files : PathOf(f) = PathOf(g)
    BY <1>1 DEF Behind, MergeInvariant, Store, Listed
  <2>2. Rows(catalog) \subseteq OnDisk \cup Rows(files)
    BY <1>1 DEF Journal, OnDisk, Disk
  <2>3. QED
    BY <2>1, <2>2 DEF CatalogOnDisk
<1>2. QED
  BY <1>1, MergeAlways, PTL

(* No rename, unlink or crash of merge.rs and compact.rs loses a row that  *)
(* was on disk.                                                            *)
THEOREM MergeStoreKeepsRows ==
    ASSUME ~SameMs
    PROVE  MergeSpec => StoreKeepsRows
<1>1. ASSUME MergeInvariant, Journal, [MergeNext]_vars PROVE OnDisk \cup Rows(files) \subseteq OnDisk' \cup Rows(files')
  <2>1. OnDisk = Disk(segs) /\ OnDisk' = Disk(segs')
    BY DEF OnDisk, Disk
  <2>2. CASE MaintenanceStep
    BY <2>1, <2>2 DEF MaintenanceStep, SameRows
  <2>3. CASE WriterStep
    BY <2>1, <2>3 DEF WriterStep, AbstractStep
  <2>4. QED
    BY <1>1, <2>2, <2>3, MergeStep
<1>2. MergeInvariant /\ Journal /\ [MergeNext]_vars => [OnDisk \cup Rows(files) \subseteq OnDisk' \cup Rows(files')]_vars
  BY <1>1
<1>3. QED
  BY <1>2, MergeAlways, PTL DEF MergeSpec, StoreKeepsRows

(* The log emptied into files by merge.rs still implements DurableLog: an  *)
(* acknowledged record is never lost, and only a crash or a write error    *)
(* loses any.                                                              *)
THEOREM MergeRefinesDurableLog ==
    ASSUME ~SameMs
    PROVE  MergeSpec => MergeImplementsDurableLog
<1>1. OnDisk \cup Buffered \cup late \cup Rows(files) = Stored \cup Rows(files)
  BY StateFields DEF OnDisk, Buffered, Stored, Held, Disk, BufOf
<1>2. MergeInit => DurableStore!DInit
  <2>1. MergeInit => Init /\ files = {}
    BY DEF MergeInit
  <2>2. QED
    BY <2>1 DEF Init, DurableStore!DInit, OnDisk, Buffered, ClosedWriters, ClosedWriter, Logs, Rows
<1>3. MergeInvariant /\ Journal /\ [MergeNext]_vars => [DurableStore!DNext]_(DurableStore!dvars)
  <2> SUFFICES ASSUME MergeInvariant, Journal, [MergeNext]_vars
               PROVE  [DurableStore!DNext]_(DurableStore!dvars)
    OBVIOUS
  <2> DEFINE st == OnDisk \cup Buffered \cup late \cup Rows(files)
  <2>1. st = Stored \cup Rows(files) /\ st' = Stored' \cup Rows(files')
    BY StateFields DEF OnDisk, Buffered, Stored, Held, Disk, BufOf, State, Rows
  <2>2. CASE MaintenanceStep
    <3>1. Stored = Disk(segs) \cup BufOf(wal) \cup late /\ Stored' = Disk(segs') \cup BufOf(wal) \cup late
      BY <2>2 DEF MaintenanceStep, Stored, Held, State, Disk, BufOf
    <3>2. st' = st
      BY <2>1, <2>2, <3>1 DEF MaintenanceStep, SameRows
    <3>3. UNCHANGED DurableStore!dvars
      BY <2>2, <3>2 DEF DurableStore!dvars, MaintenanceStep
    <3>4. QED
      BY <3>3
  <2>3. CASE WriterStep
    <3>1. PICK R : R = Rows(files)
      OBVIOUS
    <3>2. Rows(files') = R /\ st = Stored \cup R /\ st' = Stored' \cup R
      BY <2>1, <2>3, <3>1 DEF WriterStep
    <3>3. Archived \subseteq R
      BY <3>1, RowsMono DEF Archived
    <3>4. AbstractStep(Archived)
      BY <2>3 DEF WriterStep
    <3> HIDE DEF st
    <3>5. \/ st' = st /\ acked' = acked /\ (Healthy' <=> Healthy)
          \/ st' = st /\ acked' = acked /\ ~Healthy /\ Healthy'
          \/ Healthy /\ Healthy' /\ acked' = acked /\ \E S \in SUBSET Records : st' = st \cup S
          \/ Healthy /\ Healthy' /\ st' = st /\ \E S \in SUBSET st : acked' = acked \cup S
          \/ Healthy /\ ~Healthy' /\ acked' = acked /\ st' \subseteq st /\ acked \subseteq st'
      BY <3>2, <3>3, <3>4 DEF AbstractStep
    <3>6. QED
      BY <3>5 DEF st, Healthy, DurableStore!DNext, DurableStore!dvars, DurableStore!Start,
            DurableStore!Accept, DurableStore!Acknowledge, DurableStore!Fail
  <2>4. QED
    BY <2>2, <2>3, MergeStep
<1>4. QED
  BY <1>2, <1>3, MergeAlways, PTL DEF MergeSpec, MergeImplementsDurableLog, DurableStore!DSpec
=============================================================================
