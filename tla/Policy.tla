------------------------------- MODULE Policy -------------------------------
(***************************************************************************)
(* Runtime policy: the document operators read, preview, replace and       *)
(* restore over the admin API (admin_api.rs), its validation, overrides    *)
(* and publication (policy.rs), what a change would delete                 *)
(* (policy_impact.rs), policy.json and its audit log (policy_store.rs),    *)
(* and the maintenance pass that enforces it.                              *)
(*                                                                         *)
(* A document has the retention list, one hot leaf (pushdown) and the one  *)
(* restart leaf (queue_capacity).  A partition is a bucket and an hour.    *)
(***************************************************************************)
EXTENDS Naturals, Sequences, FiniteSets, SequencesExt, FiniteSetsExt, Functions

CONSTANTS
    Operators,        \* clients of the admin API
    Documents,        \* the documents they send
    ConfigFiles,      \* the documents the config file can hold
    AUDIT_COMPACT,    \* lines after which the audit log is rewritten
    AUDIT_KEEP,       \* lines that keeps
    MIN_SAFE_QUEUE,   \* MIN_SAFE_QUEUE_CAPACITY
    MaxPartitions,    \* bound: partitions in the store
    MaxNow, MaxWrites, MaxPolicyCrashes, MaxAuditFaults   \* bounds

ASSUME PolicyAssumption ==
    /\ AUDIT_COMPACT \in Nat /\ AUDIT_KEEP \in Nat \ {0} /\ "none" \notin Operators
    /\ \A doc \in Documents \cup ConfigFiles :
          /\ doc = [retention |-> doc.retention, pushdown |-> doc.pushdown, capacity |-> doc.capacity]
          /\ doc.retention \in Seq(ToSet(doc.retention))

VARIABLES
    configFile,   \* the config file
    policyFile,   \* policy.json: version, overrides, document; version 0 is none
    audit,        \* policy-audit.jsonl: lines that parse, and whether it ends in a fragment
    st,           \* State: version, overrides, effective, in memory
    runtime,      \* PolicyHandle: what the process enforces
    running,      \* PolicyHandle::running: what it was started with
    gate,         \* scan_gate's holder, or "none"
    policyRequest,      \* [Operators -> the request being handled]
    read,         \* [Operators -> the last version and document it was given]
    reviewed,     \* [Operators -> the last impact it was shown]
    pass,         \* the maintenance pass: pc and its snapshot
    review,       \* history: what the operator of the document in force was left to think stays
    partitions,   \* the store
    policyNow, policyCrashes, auditFaults

diskVarsP == <<configFile, policyFile, audit>>
procVars == <<st, runtime, running, gate, policyRequest, pass, review>>
knownVars == <<read, reviewed>>
policyVars == <<diskVarsP, procVars, knownVars, partitions, policyNow, policyCrashes, auditFaults>>

NoPolicyRequest == [pc |-> "none"]

NoImpact == [beyond |-> {}, lossy |-> {}]

Down == [version |-> 0, up |-> FALSE]

-----------------------------------------------------------------------------
(* The document.                                                           *)

Names(doc) == {doc.retention[i].name : i \in DOMAIN doc.retention}

(* validate, with LevelBuckets::new: at least one bucket, no name twice,   *)
(* a positive retention, a capacity.                                       *)
Valid(doc) ==
    /\ doc.retention # <<>>
    /\ Cardinality(Names(doc)) = Len(doc.retention)
    /\ \A i \in DOMAIN doc.retention : doc.retention[i].secs > 0
    /\ doc.capacity > 0

SameStructure(a, b) ==
    /\ Len(a.retention) = Len(b.retention)
    /\ \A i \in DOMAIN a.retention : a.retention[i].name = b.retention[i].name

(* overrides_between: single retentions while the buckets are the file's,  *)
(* the whole list otherwise, and every other leaf that differs.            *)
OverridesBetween(file, doc) ==
    (IF SameStructure(file, doc)
     THEN {<<"secs", i>> : i \in {j \in DOMAIN doc.retention : doc.retention[j] # file.retention[j]}}
     ELSE {<<"retention">>})
    \cup {<<k>> : k \in {f \in {"pushdown", "capacity"} : doc[f] # file[f]}}

(* overlay: an override of a bucket the file no longer has at that place   *)
(* is dropped.                                                             *)
Overlaid(file, doc, over) ==
    [retention |->
        IF <<"retention">> \in over THEN doc.retention
        ELSE [i \in DOMAIN file.retention |->
                IF /\ <<"secs", i>> \in over /\ i \in DOMAIN doc.retention
                   /\ doc.retention[i].name = file.retention[i].name
                THEN doc.retention[i] ELSE file.retention[i]],
     pushdown |-> IF <<"pushdown">> \in over THEN doc.pushdown ELSE file.pushdown,
     capacity |-> IF <<"capacity">> \in over THEN doc.capacity ELSE file.capacity]

(* lossy_settings.                                                         *)
Lossy(old, new) ==
    {k \in {"capacity", "pushdown"} :
        \/ k = "capacity" /\ new.capacity < MIN_SAFE_QUEUE /\ new.capacity # old.capacity
        \/ k = "pushdown" /\ old.pushdown /\ ~new.pushdown}

(* PolicyHandle::apply: what is hot.                                       *)
Hot(doc) == [retention |-> doc.retention, pushdown |-> doc.pushdown]

(* pending_restart.                                                        *)
Pending(doc) == {k \in {"capacity"} : doc[k] # running[k]}

-----------------------------------------------------------------------------
(* What a document deletes.                                                *)

Rule(retention, name) == CHOOSE i \in DOMAIN retention : retention[i].name = name

(* A partition of an unknown bucket stays.                                 *)
DueAt(retention, p, now) ==
    /\ p.bucket \in {retention[i].name : i \in DOMAIN retention}
    /\ p.hour + retention[Rule(retention, p.bucket)].secs <= now

(* retention::enforce, dry or not.                                         *)
Expired(retention) == {p \in partitions : DueAt(retention, p, policyNow)}

(* plan and beyond: what the proposal deletes that the current one keeps.  *)
Impact(current, proposed) ==
    [beyond |-> Expired(proposed.retention) \ Expired(current.retention),
     lossy |-> Lossy(current, proposed)]

Destructive(impact) == impact.beyond # {} \/ impact.lossy # {}

(* orphan_problems: a bucket that would be gone and has partitions.        *)
Orphans(current, proposed) ==
    {p.bucket : p \in partitions} \cap (Names(current) \ Names(proposed))

-----------------------------------------------------------------------------
(* policy_store.                                                           *)

(* compact_audit: the newest entries; a log with fewer keeps them all.     *)
Compacted(lines) ==
    LET from == IF Len(lines) > AUDIT_KEEP THEN Len(lines) - AUDIT_KEEP ELSE 0
    IN IF Len(lines) > AUDIT_COMPACT THEN SubSeq(lines, from + 1, Len(lines)) ELSE lines

(* append_audit: one write; after a fragment it ends the fragment's line,  *)
(* which read_audit skips.                                                 *)
Appended(entry) ==
    [lines |-> Compacted(IF audit.torn THEN audit.lines ELSE Append(audit.lines, entry)), torn |-> FALSE]

(* read_audit.                                                             *)
Recorded == {audit.lines[i].version : i \in DOMAIN audit.lines}

Entry(version, doc) == [version |-> version, policies |-> doc]

(* Mutant of Reconciled: the version on disk is taken to have its line.    *)
ReconciledNot == audit

(* reconcile_audit.                                                        *)
Reconciled ==
    IF policyFile.version \in Recorded THEN audit
    ELSE Appended(Entry(policyFile.version, policyFile.document))

PolicyInit ==
    /\ configFile \in ConfigFiles
    /\ policyFile = [version |-> 0, overrides |-> {}, document |-> configFile, under |-> configFile,
                     review |-> {}]
    /\ audit = [lines |-> <<>>, torn |-> FALSE]
    /\ st = Down /\ runtime = Hot(configFile) /\ running = configFile
    /\ gate = "none" /\ policyRequest = [o \in Operators |-> NoPolicyRequest]
    /\ read = [o \in Operators |-> Down] /\ reviewed = [o \in Operators |-> NoImpact]
    /\ pass = [pc |-> "idle"] /\ review = {} /\ partitions = {}
    /\ policyNow = 0 /\ policyCrashes = 0 /\ auditFaults = 0

(* load_effective and PolicyHandle::new.  The file may have been edited.   *)
PolicyStart(file) ==
    /\ ~st.up
    /\ configFile' = file
    /\ LET none == policyFile.version = 0
           effective == IF none THEN file ELSE Overlaid(file, policyFile.document, policyFile.overrides)
       IN  /\ Valid(effective)
           /\ st' = [version |-> policyFile.version, up |-> TRUE, effective |-> effective]
           /\ runtime' = Hot(effective) /\ running' = effective
           /\ review' = IF effective = policyFile.document THEN policyFile.review ELSE {}
           /\ audit' = IF none THEN audit ELSE Reconciled
    /\ UNCHANGED <<policyFile, gate, policyRequest, pass, knownVars, partitions, policyNow, policyCrashes, auditFaults>>

-----------------------------------------------------------------------------
(* Requests.                                                               *)

(* get_policies.                                                           *)
GetPolicies(o) ==
    /\ st.up /\ policyRequest[o].pc = "none"
    /\ read' = [read EXCEPT ![o] = [version |-> st.version, up |-> TRUE, doc |-> st.effective, file |-> configFile]]
    /\ UNCHANGED <<diskVarsP, procVars, reviewed, partitions, policyNow, policyCrashes, auditFaults>>

GateFree == gate = "none"

(* try_scan: a preview that finds the gate taken is answered 429.          *)
Preview(o, doc) ==
    /\ st.up /\ policyRequest[o].pc = "none" /\ GateFree
    /\ Valid(doc) /\ Orphans(st.effective, doc) = {}
    /\ reviewed' = [reviewed EXCEPT ![o] = Impact(st.effective, doc)]
    /\ UNCHANGED <<diskVarsP, procVars, read, partitions, policyNow, policyCrashes, auditFaults>>

(* put, from wait_scan on: a request that waits for the gate is one that   *)
(* has not arrived, its If-Match being what its operator last read.        *)
PutArrives(o, doc, confirm) ==
    /\ st.up /\ policyRequest[o].pc = "none" /\ read[o].up /\ policyFile.version < MaxWrites
    /\ GateFree /\ gate' = o
    /\ policyRequest' = [policyRequest EXCEPT ![o] =
          [pc |-> "check", doc |-> doc, expected |-> read[o].version, confirm |-> confirm]]
    /\ UNCHANGED <<diskVarsP, st, runtime, running, review, pass, knownVars, partitions, policyNow, policyCrashes, auditFaults>>

(* restore takes the document of the newest line with that version.        *)
RestoreArrives(o, v, confirm) ==
    \E i \in DOMAIN audit.lines :
        /\ audit.lines[i].version = v
        /\ PutArrives(o, audit.lines[i].policies, confirm)

Answered(o) ==
    /\ policyRequest' = [policyRequest EXCEPT ![o] = NoPolicyRequest]
    /\ gate' = "none"

(* The impact_token is a digest of the paths and of the lossy settings.    *)
TokenMatches(o, impact) == reviewed[o] = impact

(* A partition stays, as far as the operator knows, when it was not shown  *)
(* and is not expired already.  The config file's document has no review.  *)
Review(o) ==
    {[part |-> p, at |-> policyNow] :
        p \in partitions \ (reviewed[o].beyond \cup Expired(st.effective.retention))}

(* apply up to its first write: the version, the problems, an empty diff,  *)
(* the confirmation.  A 428 shows the operator the impact.                 *)
CheckWrite(o) ==
    LET r == policyRequest[o]
        impact == Impact(st.effective, r.doc)
        refused == \/ st.version # r.expected
                   \/ ~Valid(r.doc) \/ Orphans(st.effective, r.doc) # {}
                   \/ r.doc = st.effective
        unconfirmed == Destructive(impact) /\ ~(r.confirm /\ TokenMatches(o, impact))
    IN  /\ r.pc = "check"
        /\ IF refused \/ unconfirmed
           THEN /\ Answered(o)
                /\ reviewed' = IF refused THEN reviewed ELSE [reviewed EXCEPT ![o] = impact]
           ELSE /\ policyRequest' = [policyRequest EXCEPT ![o] =
                      [pc |-> "persist", doc |-> r.doc, expected |-> r.expected, review |-> Review(o)]]
                /\ UNCHANGED <<gate, reviewed>>
        /\ UNCHANGED <<diskVarsP, st, runtime, running, review, pass, read, partitions, policyNow, policyCrashes, auditFaults>>

NextVersion(o) == policyRequest[o].expected + 1

(* write_policy_file: temporary file, sync, rename.                        *)
Persist(o) ==
    /\ policyRequest[o].pc = "persist"
    /\ policyFile' = [version |-> NextVersion(o), document |-> policyRequest[o].doc,
                      overrides |-> OverridesBetween(configFile, policyRequest[o].doc), under |-> configFile,
                      review |-> policyRequest[o].review]
    /\ policyRequest' = [policyRequest EXCEPT ![o].pc = "audit"]
    /\ UNCHANGED <<configFile, audit, st, runtime, running, review, gate, pass, knownVars, partitions, policyNow, policyCrashes, auditFaults>>

(* It fails: 500, nothing was applied.                                     *)
PersistFails(o) ==
    /\ policyRequest[o].pc = "persist" /\ Answered(o)
    /\ UNCHANGED <<diskVarsP, st, runtime, running, review, pass, knownVars, partitions, policyNow, policyCrashes, auditFaults>>

(* append_audit, whose failure is only logged, then PolicyHandle::apply.   *)
PublishPolicy(o) ==
    /\ policyRequest[o].pc = "audit"
    /\ \/ audit' = Appended(Entry(NextVersion(o), policyRequest[o].doc)) /\ UNCHANGED auditFaults
       \/ /\ auditFaults < MaxAuditFaults /\ auditFaults' = auditFaults + 1
          /\ UNCHANGED audit
    /\ runtime' = Hot(policyRequest[o].doc) /\ review' = policyRequest[o].review
    /\ policyRequest' = [policyRequest EXCEPT ![o].pc = "state"]
    /\ UNCHANGED <<configFile, policyFile, st, running, gate, pass, knownVars, partitions, policyNow, policyCrashes>>

(* The state is replaced and the answer carries the new version.           *)
SetState(o) ==
    /\ policyRequest[o].pc = "state"
    /\ st' = [version |-> NextVersion(o), up |-> TRUE, effective |-> policyRequest[o].doc]
    /\ read' = [read EXCEPT ![o] = [version |-> NextVersion(o), up |-> TRUE,
                                    doc |-> policyRequest[o].doc, file |-> configFile]]
    /\ Answered(o)
    /\ UNCHANGED <<diskVarsP, runtime, running, review, pass, reviewed, partitions, policyNow, policyCrashes, auditFaults>>

-----------------------------------------------------------------------------
(* The maintenance pass, on a snapshot of the runtime.                     *)

PassStarts ==
    /\ st.up /\ pass.pc = "idle"
    /\ pass' = [pc |-> "merge", retention |-> runtime.retention, review |-> review]
    /\ UNCHANGED <<diskVarsP, st, runtime, running, review, gate, policyRequest, knownVars, partitions, policyNow, policyCrashes, auditFaults>>

(* merge_all puts a record in a bucket of the snapshot.                    *)
PassMerges(b) ==
    /\ pass.pc = "merge"
    /\ pass' = [pass EXCEPT !.pc = "enforce"]
    /\ \/ /\ Cardinality(partitions) < MaxPartitions
          /\ b \in {pass.retention[i].name : i \in DOMAIN pass.retention}
          /\ partitions' = partitions \cup {[bucket |-> b, hour |-> policyNow]}
       \/ UNCHANGED partitions
    /\ UNCHANGED <<diskVarsP, st, runtime, running, review, gate, policyRequest, knownVars, policyNow, policyCrashes, auditFaults>>

PassEnforces ==
    /\ pass.pc = "enforce"
    /\ partitions' = partitions \ Expired(pass.retention)
    /\ pass' = [pc |-> "idle"]
    /\ UNCHANGED <<diskVarsP, st, runtime, running, review, gate, policyRequest, knownVars, policyNow, policyCrashes, auditFaults>>

-----------------------------------------------------------------------------
(* The environment.                                                        *)

HourPasses ==
    /\ policyNow < MaxNow /\ policyNow' = policyNow + 1
    /\ UNCHANGED <<diskVarsP, procVars, knownVars, partitions, policyCrashes, auditFaults>>

(* A stop, or a crash that can tear the line being appended.               *)
PolicyCrash ==
    /\ st.up /\ policyCrashes < MaxPolicyCrashes
    /\ policyCrashes' = policyCrashes + 1
    /\ st' = Down /\ gate' = "none" /\ pass' = [pc |-> "idle"]
    /\ policyRequest' = [o \in Operators |-> NoPolicyRequest]
    /\ \/ UNCHANGED <<audit, auditFaults>>
       \/ /\ \E o \in Operators : policyRequest[o].pc = "audit"
          /\ auditFaults < MaxAuditFaults /\ auditFaults' = auditFaults + 1
          /\ audit' = [audit EXCEPT !.torn = TRUE]
    /\ review' = {}
    /\ UNCHANGED <<configFile, policyFile, runtime, running, knownVars, partitions, policyNow>>

PolicyNext ==
    \/ \E f \in ConfigFiles : PolicyStart(f)
    \/ \E o \in Operators :
          \/ GetPolicies(o) \/ CheckWrite(o)
          \/ Persist(o) \/ PersistFails(o) \/ PublishPolicy(o) \/ SetState(o)
          \/ \E d \in Documents : Preview(o, d)
          \/ \E d \in Documents, c \in BOOLEAN : PutArrives(o, d, c)
          \/ \E v \in 1 .. MaxWrites, c \in BOOLEAN : RestoreArrives(o, v, c)
    \/ PassStarts \/ PassEnforces
    \/ \E b \in UNION {Names(d) : d \in Documents \cup ConfigFiles} : PassMerges(b)
    \/ HourPasses \/ PolicyCrash

PolicySpec == PolicyInit /\ [][PolicyNext]_policyVars

-----------------------------------------------------------------------------
(* Properties.                                                             *)

Writing(o) == policyRequest[o].pc \in {"persist", "audit", "state"}

Quiet == st.up /\ \A o \in Operators : ~Writing(o)

(* The type invariant.                                                     *)
PolicyTypeOK ==
    /\ Len(audit.lines) <= AUDIT_COMPACT \/ Len(audit.lines) <= AUDIT_KEEP
    /\ gate \in Operators \cup {"none"}
    /\ \A o \in Operators : policyRequest[o].pc \in {"none", "check", "persist", "audit", "state"}

(* Writes are serial: while one is between its checks and its answer, the  *)
(* version and the document it was checked against are still the current   *)
(* ones, and they are the ones the operator had read, unless the config    *)
(* file was edited in between.                                             *)
WritesAreSerial ==
    \A o \in Operators : Writing(o) =>
        /\ gate = o /\ st.version = policyRequest[o].expected
        /\ read[o].file = configFile /\ read[o].version = st.version => read[o].doc = st.effective

(* What an operator was given survives a crash: policy.json is at that     *)
(* version or later, and at that version it holds that document, unless    *)
(* the config file was edited.                                             *)
ReadIsDurable ==
    \A o \in Operators : read[o].up =>
        /\ read[o].version <= policyFile.version
        /\ read[o].version = policyFile.version /\ read[o].version > 0
           /\ read[o].file = policyFile.under => read[o].doc = policyFile.document

(* A version number names one document for ever: policy.json changes only  *)
(* to the next number, across restarts too.                                *)
VersionsAreUsedOnce ==
    [][policyFile' # policyFile => policyFile'.version = policyFile.version + 1]_policyVars

(* A restart under the config file a version was written under brings back *)
(* that version's document, and what the process enforces is the document  *)
(* it shows, but for the leaves it shows as pending.                       *)
RestartKeepsPolicy ==
    Quiet =>
        /\ policyFile.version > 0 /\ configFile = policyFile.under => st.effective = policyFile.document
        /\ runtime = Hot(st.effective)
        /\ Pending(st.effective) = {} => running.capacity = st.effective.capacity

(* A partition a pass deletes was shown to the operator whose document it  *)
(* enforces, was expired under the document before, or has passed its      *)
(* limit since: of what was stored when the write was checked, a change    *)
(* deletes nothing that its operator was left to think stays.  It holds    *)
(* over the policy file, a restart and the snapshot of the pass.  A        *)
(* partition that ages after the preview is deleted unshown, and so is     *)
(* what the config file's own document deletes.                            *)
DeletedWasShown ==
    [][\A p \in partitions \ partitions' : \A k \in pass.review :
          p = k.part => ~DueAt(pass.retention, p, k.at)]_policyVars

(* A running process stops to use its pushdown only by a document whose    *)
(* operator was shown that it would.                                       *)
LossWasShown ==
    [][st.up /\ runtime.pushdown /\ ~runtime'.pushdown =>
          \E o \in Operators : policyRequest[o].pc = "audit" /\ "pushdown" \in reviewed[o].lossy]_policyVars

(* While no append has failed or been torn, the version in force has its   *)
(* line in the audit log whenever no write is under way, crashes between   *)
(* the two writes included.                                                *)
CurrentIsAudited ==
    Quiet /\ auditFaults = 0 /\ policyFile.version > 0 => policyFile.version \in Recorded

(* The same whatever happened to the append: policy_store.rs says the lost *)
(* line is written back at the next start.  A torn line swallows it.       *)
LostLineIsWrittenBack ==
    [][~st.up /\ st'.up /\ policyFile.version > 0 =>
          policyFile.version \in {audit'.lines[i].version : i \in DOMAIN audit'.lines}]_policyVars

(* orphan_problems refuses a change that strands a bucket's partitions: a  *)
(* pass that took its snapshot before the change still writes to it.       *)
NoneStranded ==
    Quiet /\ configFile = policyFile.under => {p.bucket : p \in partitions} \subseteq Names(st.effective)

(* What the policy API promises an operator: one write at a time, a        *)
(* version read is on disk and survives a restart, a write that deletes    *)
(* stored data or turns off a lossy setting was shown to do so, and the    *)
(* version in force has its audit line, under a number of its own.         *)
PolicyPromise ==
    /\ [](/\ PolicyTypeOK
          /\ WritesAreSerial
          /\ ReadIsDurable
          /\ RestartKeepsPolicy
          /\ CurrentIsAudited)
    /\ VersionsAreUsedOnce
    /\ DeletedWasShown
    /\ LossWasShown
=============================================================================
