---------------------------- MODULE PeerSignals -----------------------------
(***************************************************************************)
(* The detectors of sync_signals.rs that keep state from one bucket to the *)
(* next: silences of services and templates, new (service, template)       *)
(* pairs, and new orders of templates in a trace.                          *)
(*                                                                         *)
(* A baseline is abstracted to whether its mean is at the level of a       *)
(* regular key, which a bucket with the key may make it and an empty one   *)
(* leaves alone; the spikes of rates, shares and numbers are comparisons   *)
(* of one bucket with it, and any bucket may show one.                     *)
(***************************************************************************)
EXTENDS Naturals, Sequences, FiniteSets, SequencesExt

CONSTANTS
    Pairs,               \* <<service, template>> pairs there may be
    Traces,
    SILENCE_BUCKETS, FORGET_AFTER_QUIET, MAX_KEYS, MAX_SET, MAX_TRACES,
    MaxBuckets           \* bound: buckets closed

ASSUME SignalsAssumption ==
    /\ \A k \in Pairs : k = <<k[1], k[2]>>
    /\ {SILENCE_BUCKETS, FORGET_AFTER_QUIET, MAX_KEYS, MAX_SET, MAX_TRACES} \subseteq Nat \ {0}
    /\ MaxBuckets \in Nat

VARIABLES
    services,     \* [tracked services -> Tracked]
    templates,    \* [tracked pairs -> Tracked]
    bucket,       \* pairs seen in the open bucket
    pairs,        \* pairs ever seen, up to MAX_SET
    bigrams,      \* <<service, previous, template>>, up to MAX_SET
    traces,       \* [trace -> its last template]
    trace_order,  \* the traces, oldest first
    learning,     \* the first LEARN_MS
    found,        \* the findings of the last step: <<kind, key, boost>>
    reported,     \* history: pairs reported as new
    alarms,       \* history: [keys -> silences reported since the key was last seen]
    buckets

trackVars == <<services, templates>>
setVars == <<pairs, bigrams, traces, trace_order>>
signalVars == <<trackVars, setVars, bucket, learning, found, reported, alarms, buckets>>

(* A service is a tuple too, so that both kinds of key can be in one set.  *)
ServiceOfPair(k) == <<k[1]>>

ServicesOf(keys) == {ServiceOfPair(k) : k \in keys}

Tracked == [regular : BOOLEAN, quiet : Nat, flagged : BOOLEAN]

Nothing == [k \in {} |-> 0]

SignalsInit ==
    /\ services = Nothing /\ templates = Nothing
    /\ bucket = {}
    /\ pairs = {} /\ bigrams = {} /\ traces = Nothing /\ trace_order = <<>>
    /\ learning = TRUE
    /\ found = {}
    /\ reported = {}
    /\ alarms = [k \in Pairs \cup ServicesOf(Pairs) |-> 0]
    /\ buckets = 0

-----------------------------------------------------------------------------
(* observe                                                                 *)

(* A new trace is remembered, and the oldest goes when there are too many. *)
Remember(trace, template) ==
    LET known == trace \in DOMAIN traces
        order == IF known THEN trace_order ELSE Append(trace_order, trace)
        kept == IF Len(order) > MAX_TRACES THEN Tail(order) ELSE order
    IN  /\ trace_order' = kept
        /\ traces' = [x \in ToSet(kept) |-> IF x = trace THEN template ELSE traces[x]]

Learn(set, x) == IF Cardinality(set) < MAX_SET THEN set \cup {x} ELSE set

(* A record of a pair in a trace.  A template that was never seen at all   *)
(* is the planner's `novel`, and neither detector speaks of it.            *)
observe(k, trace, first_ever) ==
    LET newPair == k \notin pairs
        previous == IF trace \in DOMAIN traces THEN {traces[trace]} \ {k[2]} ELSE {}
        order == {<<k[1], p, k[2]>> : p \in previous} \ bigrams
        speaks == ~first_ever /\ ~learning
    IN  /\ first_ever => newPair
        /\ bucket' = bucket \cup {k}
        /\ pairs' = IF newPair THEN Learn(pairs, k) ELSE pairs
        /\ bigrams' = IF order # {} THEN Learn(bigrams, CHOOSE b \in order : TRUE) ELSE bigrams
        /\ Remember(trace, k[2])
        /\ found' = (IF newPair /\ speaks THEN {<<"new_pair", k, TRUE>>} ELSE {})
                    \cup (IF speaks THEN {<<"flow", b, TRUE>> : b \in order} ELSE {})
        /\ reported' = IF newPair /\ speaks THEN reported \cup {k} ELSE reported
        /\ UNCHANGED <<trackVars, learning, alarms, buckets>>

Learned ==
    /\ learning
    /\ learning' = FALSE
    /\ found' = {}
    /\ UNCHANGED <<trackVars, setVars, bucket, reported, alarms, buckets>>

-----------------------------------------------------------------------------
(* close_buckets                                                           *)

(* The keys tracked after a bucket: a new one only while there is room.    *)
Room(tracked, present) ==
    LET new == present \ DOMAIN tracked
        room == MAX_KEYS - Cardinality(DOMAIN tracked)
    IN  {add \in SUBSET new : Cardinality(add) = IF Cardinality(new) < room THEN Cardinality(new) ELSE room}

(* A key of the bucket is heard again; another has been quiet for one more.*)
Heard(regular) == [regular |-> regular, quiet |-> 0, flagged |-> FALSE]

(* Mutant of Silent: only the bucket that reaches the limit counts.        *)
SilentAtLimit(t) == t.regular /\ t.quiet + 1 = SILENCE_BUCKETS /\ ~t.flagged

Silent(t) == t.regular /\ t.quiet + 1 >= SILENCE_BUCKETS /\ ~t.flagged

Forgotten(t) == t.quiet + 1 >= FORGET_AFTER_QUIET /\ ~t.regular

(* What closing a bucket makes of the tracked keys.  `mute` are those that *)
(* stay quiet about their silence; regular says what updates made regular. *)
Closed(tracked, add, present, regular, mute) ==
    LET dom == {k \in DOMAIN tracked \cup add :
                    k \in present \/ k \in add \/ ~Forgotten(tracked[k])}
    IN  [k \in dom |->
            IF k \in present THEN Heard(k \in regular)
            ELSE [tracked[k] EXCEPT !.quiet = IF @ < FORGET_AFTER_QUIET THEN @ + 1 ELSE @,
                                    !.flagged = @ \/ (Silent(tracked[k]) /\ k \notin mute)]]

SilencesOf(tracked, present, mute) ==
    {k \in DOMAIN tracked \ present : Silent(tracked[k]) /\ k \notin mute}

(* Services are closed first, so that the templates of one that has just   *)
(* been called silent stay quiet about it.                                 *)
Muted(after) == {s \in DOMAIN after : after[s].flagged}

CloseBucket ==
    /\ buckets < MaxBuckets
    /\ buckets' = buckets + 1
    /\ LET heard == ServicesOf(bucket)
       IN  \E addS \in Room(services, heard), addT \in Room(templates, bucket),
              regS \in SUBSET heard, regT \in SUBSET bucket, spikes \in SUBSET bucket :
             LET presentS == heard \cap (DOMAIN services \cup addS)
                 presentT == bucket \cap (DOMAIN templates \cup addT)
                 after == Closed(services, addS, presentS, regS, {})
                 mute == {k \in DOMAIN templates : ServiceOfPair(k) \in Muted(after)}
                 quietS == SilencesOf(services, presentS, {})
                 quietT == SilencesOf(templates, presentT, mute)
             IN  /\ services' = after
                 /\ templates' = Closed(templates, addT, presentT, regT, mute)
                 /\ found' = {<<"silence", k, FALSE>> : k \in quietS \cup quietT}
                             \cup {<<"spike", k, TRUE>> : k \in spikes}
                 /\ alarms' = [k \in DOMAIN alarms |->
                                 IF k \in presentS \cup presentT THEN 0
                                 ELSE IF k \in quietS \cup quietT THEN alarms[k] + 1 ELSE alarms[k]]
    /\ bucket' = {}
    /\ UNCHANGED <<setVars, learning, reported>>

KeptPairs == pairs

(* After a long stall everything but the pairs starts again, and nothing   *)
(* is called silent.                                                       *)
Stall ==
    /\ buckets < MaxBuckets
    /\ buckets' = buckets + 1
    /\ services' = Nothing /\ templates' = Nothing
    /\ bucket' = {}
    /\ bigrams' = {} /\ traces' = Nothing /\ trace_order' = <<>>
    /\ learning' = TRUE
    /\ found' = {}
    /\ alarms' = [k \in DOMAIN alarms |-> 0]
    /\ pairs' = KeptPairs
    /\ UNCHANGED reported

SignalsNext ==
    \/ \E k \in Pairs, trace \in Traces, first_ever \in BOOLEAN : observe(k, trace, first_ever)
    \/ Learned
    \/ CloseBucket
    \/ Stall

SignalsSpec == SignalsInit /\ [][SignalsNext]_signalVars

-----------------------------------------------------------------------------
(* Properties.                                                             *)

SignalsTypeOK ==
    /\ \A s \in DOMAIN services : services[s] \in Tracked
    /\ \A k \in DOMAIN templates : templates[k] \in Tracked
    /\ DOMAIN services \subseteq ServicesOf(Pairs) /\ DOMAIN templates \subseteq Pairs
    /\ DOMAIN traces = ToSet(trace_order) /\ Len(trace_order) <= MAX_TRACES
    /\ Cardinality(pairs) <= MAX_SET /\ Cardinality(bigrams) <= MAX_SET

(* One alarm for one silence: a key is not called silent again before it   *)
(* has been heard again, and a template of a silent service not at all in  *)
(* the bucket that finds the service silent.                               *)
OneAlarmPerSilence ==
    /\ \A k \in DOMAIN alarms : alarms[k] <= 1
    /\ \A f \in found : f[1] = "silence" /\ f[2] \in DOMAIN templates
                            => <<"silence", ServiceOfPair(f[2]), FALSE>> \notin found

(* A silence is not missed: a regular key that has been quiet for long has *)
(* been called silent, or its service has, also when the service was       *)
(* silent, came back and the template did not.                             *)
SilenceIsNoticed ==
    /\ \A s \in DOMAIN services :
          services[s].regular /\ services[s].quiet >= SILENCE_BUCKETS => services[s].flagged
    /\ \A k \in DOMAIN templates :
          templates[k].regular /\ templates[k].quiet >= SILENCE_BUCKETS
             => templates[k].flagged \/ (ServiceOfPair(k) \in DOMAIN services /\ services[ServiceOfPair(k)].flagged)

(* A pair is new once, across stalls, until the set of pairs is full.      *)
PairIsNewOnce ==
    [][\A k \in Pairs : <<"new_pair", k, TRUE>> \in found' /\ k \in reported
                            => Cardinality(pairs) >= MAX_SET]_signalVars

(* What the detectors of sync_signals.rs promise: a silence is noticed,    *)
(* and raised once; a pair is new once.                                    *)
SignalsPromise ==
    /\ [](SignalsTypeOK /\ OneAlarmPerSilence /\ SilenceIsNoticed)
    /\ PairIsNewOnce
=============================================================================
