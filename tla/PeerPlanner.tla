---------------------------- MODULE PeerPlanner -----------------------------
(***************************************************************************)
(* The planner of peer sync (sync_policy.rs), which decides what of the    *)
(* accepted records a peer is sent, and what the peer makes of it: an      *)
(* event id it has is a duplicate, and a total is the rollup counts plus   *)
(* the records that carry no supplement mark.                              *)
(*                                                                         *)
(* Time is in ticks, of which WINDOW are a rollup window.  What a detector *)
(* of PeerSignals or the rate buckets report is any finding at any tick.   *)
(* The delivery between planner and peer is PeerSync's.                    *)
(***************************************************************************)
EXTENDS Naturals, Sequences, FiniteSets, FiniteSetsExt, SequencesExt

CONSTANTS
    Records,         \* numbers: the records the agent accepts
    Severity,        \* [Records -> Nat]
    ServiceOf,       \* [Records -> STRING]
    TemplateOf,      \* [Records -> Nat]
    PercentOf,       \* [Records -> 0 .. 99]: the hash select compares
    PlannerConfigs,  \* the settings a target may have
    WINDOW, GRACE, LOOKBACK, BOOST, QUIET, LEARN, RING_MAX,
    MaxNow,          \* bound: ticks
    MaxFindings,     \* bound: detector findings
    MaxRestarts      \* bound: restarts

FULL_FROM == 17

ASSUME PlannerAssumption ==
    /\ \A r \in Records : Severity[r] \in Nat /\ PercentOf[r] \in 0 .. 99 /\ TemplateOf[r] \in Nat
    /\ \A c \in PlannerConfigs : c.fidelity \in 1 .. 100 /\ c.min_severity \in Nat /\ c.anomaly_boost \in BOOLEAN
    /\ {WINDOW, RING_MAX} \subseteq Nat \ {0}
    /\ {GRACE, LOOKBACK, BOOST, QUIET, LEARN, MaxNow, MaxFindings, MaxRestarts} \subseteq Nat

VARIABLES
    clock,          \* now_ms
    cfg,            \* Planner::cfg
    boosts,         \* [services -> Nat]: full detail until then
    ring,           \* sequence of [at, record]
    rollups,        \* [keys -> sets of records]: what each pending rollup counts
    seen,           \* templates
    learnUntil,
    lastAnomaly,    \* [<<service, kind>> -> Nat], 0 for none
    seenRecords,    \* history: records that were offered live, at or over the floor
    leftAt,         \* history: [records left out -> tick]
    ringed,         \* history: those that went to the ring
    peerHas,        \* [records the peer has -> they carry the supplement mark]
    peerRollups,    \* [keys the peer has a rollup for -> its count]
    markers,        \* anomaly markers the peer has
    emitted,        \* history: records counted by some emitted rollup
    forgotten,      \* history: records of rollups a restart forgot
    findings, restarts

plannerVars == <<clock, cfg, boosts, ring, rollups, seen, learnUntil, lastAnomaly>>
plannerPeerVars == <<peerHas, peerRollups, markers>>
historyVars == <<seenRecords, leftAt, ringed, emitted, forgotten, findings, restarts>>
allPlannerVars == <<plannerVars, plannerPeerVars, historyVars>>

Services == {ServiceOf[r] : r \in Records}

Kinds == {"novel", "rate", "silence"}

EmptyMap == [k \in {} |-> 0]

(* A planner as new makes it, with the templates the catalog knows.        *)
FreshShape(known, t) ==
    /\ boosts' = [s \in Services |-> 0]
    /\ ring' = <<>>
    /\ rollups' = EmptyMap
    /\ seen' = known
    /\ learnUntil' = IF known = {} THEN t + LEARN ELSE t
    /\ lastAnomaly' = [k \in Services \X Kinds |-> 0]

PlannerInit ==
    /\ clock = QUIET
    /\ cfg \in PlannerConfigs
    /\ boosts = [s \in Services |-> 0]
    /\ ring = <<>> /\ rollups = EmptyMap /\ seen = {}
    /\ learnUntil = QUIET + LEARN
    /\ lastAnomaly = [k \in Services \X Kinds |-> 0]
    /\ seenRecords = {} /\ leftAt = EmptyMap /\ ringed = {}
    /\ peerHas = EmptyMap /\ peerRollups = EmptyMap /\ markers = 0
    /\ emitted = {} /\ forgotten = {}
    /\ findings = 0 /\ restarts = 0

-----------------------------------------------------------------------------

(* select: by the record's id, so that every path agrees.                  *)
select(r, fidelity) == fidelity >= 100 \/ (fidelity # 0 /\ PercentOf[r] < fidelity)

sent_live(r) == Severity[r] >= FULL_FROM \/ select(r, cfg.fidelity)

(* The peer keeps the first of every event id.                             *)
PlannerReceive(has, recs, marked) == [r \in DOMAIN has \cup recs |-> IF r \in DOMAIN has THEN has[r] ELSE marked]

(* The class of a severity, and the key of a record left out.              *)
class(sev) == IF sev >= 17 THEN "error" ELSE IF sev >= 13 THEN "warn" ELSE "info"

RollupKey(r, minute) == <<minute, ServiceOf[r], TemplateOf[r], class(Severity[r])>>

prune(entries) == SelectSeq(entries, LAMBDA e : clock - e.at <= LOOKBACK)

(* What an anomaly does, to a planner's boosts b, anomaly times l and ring *)
(* g.  It is noted once in a while, by a marker record of its own, which   *)
(* carries no supplement mark; one that boosts a service takes its records *)
(* out of the ring, as the lead-up to send.                                *)
Triggered(b, l, g, service, kind, boost) ==
    LET newly == boost /\ b[service] <= clock
        quiet == l[<<service, kind>>] # 0 /\ clock - l[<<service, kind>>] < QUIET
        acts == newly \/ ~quiet
        young == prune(g)
        taken == IF acts /\ boost THEN {e \in ToSet(young) : ServiceOf[e.record] = service} ELSE {}
    IN  [boosts |-> IF boost THEN [b EXCEPT ![service] = Max({@, clock + BOOST})] ELSE b,
         last |-> IF acts THEN [l EXCEPT ![<<service, kind>>] = clock] ELSE l,
         ring |-> IF acts THEN SelectSeq(young, LAMBDA e : e \notin taken) ELSE g,
         marker |-> IF acts THEN 1 ELSE 0,
         lead |-> {e.record : e \in taken}]

NotTriggered == [boosts |-> boosts, last |-> lastAnomaly, ring |-> ring, marker |-> 0, lead |-> {}]

Push(g, r) ==
    LET h == Append(g, [at |-> clock, record |-> r])
    IN  IF Len(h) > RING_MAX THEN Tail(h) ELSE h

(* process, for one record observed in `minute`: novelty first, which may  *)
(* boost the service; then the record is sent, or counted in its rollup    *)
(* and kept in the ring.                                                   *)
process(r, minute) ==
    /\ r \notin seenRecords
    /\ Severity[r] >= cfg.min_severity
    /\ LET novel == cfg.anomaly_boost /\ TemplateOf[r] \notin seen
           t == IF novel /\ clock >= learnUntil
                THEN Triggered(boosts, lastAnomaly, ring, ServiceOf[r], "novel", TRUE)
                ELSE NotTriggered
           send == sent_live(r) \/ t.boosts[ServiceOf[r]] > clock
           key == RollupKey(r, minute)
       IN  /\ boosts' = t.boosts /\ lastAnomaly' = t.last
           /\ seen' = IF cfg.anomaly_boost THEN seen \cup {TemplateOf[r]} ELSE seen
           /\ markers' = markers + t.marker
           /\ peerHas' = PlannerReceive(PlannerReceive(peerHas, t.lead, TRUE), IF send THEN {r} ELSE {}, FALSE)
           /\ rollups' = IF send THEN rollups
                         ELSE [k \in DOMAIN rollups \cup {key} |->
                                 (IF k \in DOMAIN rollups THEN rollups[k] ELSE {})
                                 \cup (IF k = key THEN {r} ELSE {})]
           /\ ring' = IF send \/ ~cfg.anomaly_boost THEN t.ring ELSE Push(t.ring, r)
           /\ leftAt' = IF send THEN leftAt
                        ELSE [x \in DOMAIN leftAt \cup {r} |-> IF x = r THEN clock ELSE leftAt[x]]
           /\ ringed' = IF send \/ ~cfg.anomaly_boost THEN ringed ELSE ringed \cup {r}
    /\ seenRecords' = seenRecords \cup {r}
    /\ UNCHANGED <<clock, cfg, learnUntil, peerRollups, emitted, forgotten, findings, restarts>>

(* A rollup is due when its window and a little more are over.             *)
Due == {k \in DOMAIN rollups : k[1] + WINDOW + GRACE <= clock}

(* rollup_record: its event id is a hash of the key, so that the peer      *)
(* keeps the first rollup of a key and drops another as a duplicate.       *)
RecordRollups(due) ==
    peerRollups' = [k \in DOMAIN peerRollups \cup due |->
                      IF k \in DOMAIN peerRollups THEN peerRollups[k] ELSE Cardinality(rollups[k])]

Flushed(due) == [k \in DOMAIN rollups \ due |-> rollups[k]]

(* tick: what the detectors found is acted on, the ring is pruned, and the *)
(* rollups that are due are sent.                                          *)
tick ==
    /\ \E found \in {{}} \cup {{<<s, k>>} : s \in Services, k \in {"rate", "silence"}} :
          LET t == IF found = {} THEN NotTriggered
                   ELSE LET f == CHOOSE x \in found : TRUE
                        IN  Triggered(boosts, lastAnomaly, ring, f[1], f[2], f[2] # "silence")
          IN  /\ found # {} => cfg.anomaly_boost /\ findings < MaxFindings
              /\ findings' = findings + Cardinality(found)
              /\ boosts' = t.boosts /\ lastAnomaly' = t.last
              /\ ring' = prune(t.ring)
              /\ markers' = markers + t.marker
              /\ peerHas' = PlannerReceive(peerHas, t.lead, TRUE)
    /\ RecordRollups(Due)
    /\ emitted' = emitted \cup UNION {rollups[k] : k \in Due}
    /\ rollups' = Flushed(Due)
    /\ UNCHANGED <<clock, cfg, seen, learnUntil, seenRecords, leftAt, ringed, forgotten, restarts>>

(* The last tick of a clean stop flushes every rollup, and the agent       *)
(* starts again.                                                           *)
ForcedTick ==
    /\ restarts < MaxRestarts
    /\ restarts' = restarts + 1
    /\ RecordRollups(DOMAIN rollups)
    /\ emitted' = emitted \cup UNION {rollups[k] : k \in DOMAIN rollups}
    /\ FreshShape(seen, clock)
    /\ UNCHANGED <<clock, cfg, peerHas, markers, seenRecords, leftAt, ringed, forgotten, findings>>

set_config(c) ==
    /\ c # cfg
    /\ cfg' = c
    /\ UNCHANGED <<clock, boosts, ring, rollups, seen, learnUntil, lastAnomaly, plannerPeerVars, historyVars>>

(* Mutant of PlannerMarked: fetched records are never marked.              *)
MarkedNever(r) == FALSE

(* enqueue of a record fetched by hand, from a range that sync was on for: *)
(* marked if the dial leaves it out now.                                   *)
PlannerMarked(r) == ~sent_live(r)

Fetch(r) ==
    /\ r \in seenRecords
    /\ r \notin DOMAIN peerHas
    /\ Severity[r] >= cfg.min_severity
    /\ peerHas' = PlannerReceive(peerHas, {r}, PlannerMarked(r))
    /\ UNCHANGED <<plannerVars, peerRollups, markers, historyVars>>

PlannerTick ==
    /\ clock < MaxNow
    /\ clock' = clock + 1
    /\ UNCHANGED <<cfg, boosts, ring, rollups, seen, learnUntil, lastAnomaly, plannerPeerVars, historyVars>>

(* The agent is killed and starts again: its rollups are forgotten, the    *)
(* templates are read back.                                                *)
PlannerRestart ==
    /\ restarts < MaxRestarts
    /\ restarts' = restarts + 1
    /\ forgotten' = forgotten \cup UNION {rollups[k] : k \in DOMAIN rollups}
    /\ FreshShape(seen, clock)
    /\ UNCHANGED <<clock, cfg, plannerPeerVars, seenRecords, leftAt, ringed, emitted, findings>>

(* Minutes a record may have been observed in: this one or the one before. *)
Minutes == LET this == (clock \div WINDOW) * WINDOW
           IN  {this} \cup (IF this >= WINDOW THEN {this - WINDOW} ELSE {})

PlannerNext ==
    \/ \E r \in Records, minute \in Minutes : process(r, minute)
    \/ tick \/ ForcedTick
    \/ \E c \in PlannerConfigs : set_config(c)
    \/ \E r \in Records : Fetch(r)
    \/ PlannerTick
    \/ PlannerRestart

PlannerSpec == PlannerInit /\ [][PlannerNext]_allPlannerVars

-----------------------------------------------------------------------------
(* Properties.                                                             *)

PlannerTypeOK ==
    /\ clock \in Nat /\ cfg \in PlannerConfigs
    /\ DOMAIN boosts = Services
    /\ Len(ring) <= RING_MAX
    /\ \A i \in DOMAIN ring : ring[i].record \in DOMAIN leftAt /\ ring[i].at <= clock
    /\ DOMAIN peerHas \subseteq seenRecords

Pending == UNION {rollups[k] : k \in DOMAIN rollups}

(* "What was not sent is counted, not lost": a record left out is counted  *)
(* by a rollup that is pending or was sent, and by one only.               *)
LeftOutIsCounted ==
    /\ DOMAIN leftAt = Pending \cup emitted \cup forgotten
    /\ Pending \cap (emitted \cup forgotten) = {} /\ emitted \cap forgotten = {}

Plain == {r \in DOMAIN peerHas : ~peerHas[r]}

(* What the rule of sync_policy.rs, lines 22-24, adds up: the anomaly      *)
(* markers carry no supplement mark either.                                *)
PeerTotal == Cardinality(Plain) + markers + MapThenSumSet(LAMBDA k : peerRollups[k], DOMAIN peerRollups)

(* "To total what happened, add the rollup counts to the records that do   *)
(* not carry it": with the lead-up, manual fetches and boosts, a total     *)
(* never counts a record twice while the dial stays where it is; it        *)
(* exceeds the records by the anomaly markers at most, of which the rule   *)
(* does not speak.                                                         *)
NeverCountedTwice == PeerTotal <= Cardinality(seenRecords) + markers

(* sync_policy.rs, lines 9-11: "the exact count of records left out, so    *)
(* the peer always has exact totals".  Once no rollup is pending, and no   *)
(* restart forgot one, the total is the number of records.                 *)
PeerTotalsExact ==
    DOMAIN rollups = {} /\ forgotten = {} => PeerTotal = Cardinality(seenRecords)

(* "Sends the lead-up": when a boost begins, every record of the service   *)
(* left out within the lookback reaches the peer, unless the ring had no   *)
(* room for that many or a restart emptied it.                             *)
LeadUpSent ==
    [][\A s \in Services :
          boosts[s] <= clock /\ boosts'[s] > clock =>
             LET due == {r \in ringed : ServiceOf[r] = s /\ clock - leftAt[r] <= LOOKBACK}
                 newer(r) == {x \in ringed : x # r /\ leftAt[x] >= leftAt[r]}
             IN  \A r \in due : Cardinality(newer(r)) >= RING_MAX \/ restarts > 0 \/ r \in DOMAIN peerHas'
      ]_allPlannerVars

(* What the dial of sync_policy.rs promises: a record left out is counted, *)
(* none is counted twice at the peer, and an error brings the records that *)
(* led up to it.                                                           *)
PlannerPromise ==
    /\ [](PlannerTypeOK /\ LeftOutIsCounted /\ NeverCountedTwice)
    /\ LeadUpSent
=============================================================================
