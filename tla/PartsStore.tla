----------------------------- MODULE PartsStore -----------------------------
(***************************************************************************)
(* Central's parts directory (LocalStore and PartsCentral in parts.rs, the *)
(* peer_parts table of catalog.rs): uploads and one replication fetch that *)
(* put parts there, the commit that catalogues them, the sweep that        *)
(* expires them, and the budget they share, each step taking the locks the *)
(* code takes and no more.                                                 *)
(*                                                                         *)
(* A part is its name; the bytes either hash to it or not.  One node.      *)
(* fetchers are the slots that copy from another central.                  *)
(***************************************************************************)
EXTENDS Integers, FiniteSets

CONSTANTS
    Parts,          \* names of parts
    PartSize,       \* [Parts -> Nat \ {0}]
    Slots,          \* requests under way at once
    Fetchers,       \* the slots that are replication, not uploads
    PartsBudget,    \* disk_budget_bytes; 0 is none
    MAX_PART_BYTES, \* max_part_bytes
    MaxPuts,        \* bound: requests served
    MaxStoreFaults  \* bound: restarts, removals by hand, failed syncs and rows

ASSUME PartsStoreAssumption ==
    /\ IsFiniteSet(Parts) /\ PartSize \in [Parts -> Nat \ {0}]
    /\ Fetchers \subseteq Slots /\ Cardinality(Fetchers) <= 1
    /\ {PartsBudget, MAX_PART_BYTES, MaxPuts, MaxStoreFaults} \subseteq Nat
    /\ PartsBudget = 0 \/ PartsBudget >= MAX_PART_BYTES

VARIABLES
    onDisk,     \* parts under their final names
    usedBytes, reserved, arriving, \* Usage and the parts whose bytes are arriving
    slot,       \* [Slots -> the request: pc, part, and what install found]
    tier,       \* peer_parts: [Parts -> "none", "warm", "cold"]
    commit,     \* the part whose commit has seen it stored, or none
    sweep,      \* the sweep: pc and the part it expires
    tokens,     \* parts an unexpired upload token of this process is out for
    puts, storeFaults,
    miscounted, \* history: bytes the counters no longer have
    removed,    \* history: parts removed by hand, or swept under a commit
    rowLeft     \* history: parts whose sweep took the file and left the row

storeVars == <<onDisk, usedBytes, reserved, arriving>>
centralVars == <<tier, commit, sweep, tokens>>
partsVars == <<storeVars, slot, centralVars, puts, storeFaults, miscounted, removed, rowLeft>>

NoPart == "none"

Idle == [pc |-> "idle", part |-> NoPart, outcome |-> "none"]

NoSweep == [pc |-> "idle", part |-> NoPart, measured |-> FALSE]

(* The bytes of a set of parts, one by one, and how many they are.         *)
BytesOf(ps) == UNION {{p} \X (1 .. PartSize[p]) : p \in ps}

PartBytes(ps) == Cardinality(BytesOf(ps))

(* dir_bytes: the installed parts; temporary files are not seen.           *)
dir_bytes == PartBytes(onDisk)

PartsInit ==
    /\ onDisk = {} /\ usedBytes = 0 /\ reserved = 0 /\ arriving = {}
    /\ slot = [s \in Slots |-> Idle]
    /\ tier = [p \in Parts |-> "none"]
    /\ commit = NoPart /\ sweep = NoSweep /\ tokens = {}
    /\ puts = 0 /\ storeFaults = 0 /\ miscounted = 0 /\ removed = {} /\ rowLeft = {}

-----------------------------------------------------------------------------
(* Requests: presign, and the head of a PUT.                               *)

Over(n) == PartsBudget # 0 /\ usedBytes + reserved + n > PartsBudget

(* room: over the budget, the directory is measured again if it was not    *)
(* lately (remeasure).  What an upload has put there and not settled yet   *)
(* is then counted twice, and what a delete has taken away is taken off    *)
(* again by that delete.                                                   *)
Measured(n, remeasure) == IF Over(n) /\ remeasure THEN dir_bytes ELSE usedBytes

OverBy(u, n) == PartsBudget # 0 /\ u + reserved + n > PartsBudget

(* used after room(n, _), and what a measurement makes of the history.     *)
RoomForParts(n, remeasure) ==
    /\ usedBytes' = Measured(n, remeasure)
    /\ miscounted' = IF Over(n) /\ remeasure THEN 0 ELSE miscounted
    /\ sweep' = [sweep EXCEPT !.measured = @ \/ (Over(n) /\ remeasure /\ sweep.pc = "count")]

(* presign answers with a token when the part is not stored and fits.      *)
Presign(p) ==
    /\ PartSize[p] <= MAX_PART_BYTES
    /\ p \notin onDisk /\ p \notin tokens
    /\ \E remeasure \in BOOLEAN :
          /\ RoomForParts(PartSize[p], remeasure)
          /\ ~OverBy(usedBytes', PartSize[p])
    /\ tokens' = tokens \cup {p}
    /\ UNCHANGED <<onDisk, reserved, arriving, slot, tier, commit, puts, storeFaults, removed, rowLeft>>

PresignRefused(p) ==
    /\ PartSize[p] <= MAX_PART_BYTES
    /\ p \notin onDisk
    /\ \E remeasure \in BOOLEAN :
          /\ RoomForParts(PartSize[p], remeasure)
          /\ OverBy(usedBytes', PartSize[p])
    /\ UNCHANGED <<onDisk, reserved, arriving, slot, tier, commit, tokens, puts, storeFaults, removed, rowLeft>>

(* The URL runs out.                                                       *)
TokenExpires(p) ==
    /\ p \in tokens
    /\ tokens' = tokens \ {p}
    /\ UNCHANGED <<storeVars, slot, tier, commit, sweep, puts, storeFaults, miscounted, removed, rowLeft>>

Goes(s, pc) == slot' = [slot EXCEPT ![s].pc = pc]

(* upload up to begin: a token for the part, and the part is not stored.   *)
(* The same bytes again are only read.                                     *)
UploadHead(s, p) ==
    /\ slot[s].pc = "idle" /\ s \notin Fetchers /\ puts < MaxPuts
    /\ p \in tokens /\ p \notin onDisk
    /\ puts' = puts + 1
    /\ slot' = [slot EXCEPT ![s] = [Idle EXCEPT !.pc = "begin", !.part = p]]
    /\ UNCHANGED <<storeVars, centralVars, storeFaults, miscounted, removed, rowLeft>>

(* A replication run, at a part the source lists and this catalog has not: *)
(* one that is on disk is recorded as it is.                               *)
FetchHead(s, p) ==
    /\ slot[s].pc = "idle" /\ s \in Fetchers /\ puts < MaxPuts
    /\ tier[p] = "none"
    /\ puts' = puts + 1
    /\ slot' = [slot EXCEPT ![s] = [Idle EXCEPT !.pc = IF p \in onDisk THEN "record" ELSE "begin",
                                                !.part = p]]
    /\ UNCHANGED <<storeVars, centralVars, storeFaults, miscounted, removed, rowLeft>>

(* begin: one request per part; another is told to wait.                   *)
Begin(s) ==
    /\ slot[s].pc = "begin"
    /\ IF slot[s].part \in arriving
       THEN Goes(s, "idle") /\ UNCHANGED arriving
       ELSE Goes(s, "room") /\ arriving' = arriving \cup {slot[s].part}
    /\ UNCHANGED <<onDisk, usedBytes, reserved, centralVars, puts, storeFaults, miscounted, removed, rowLeft>>

Reserve(s) ==
    /\ slot[s].pc = "room"
    /\ LET p == slot[s].part
       IN  \E remeasure \in BOOLEAN :
              /\ RoomForParts(PartSize[p], remeasure)
              /\ IF OverBy(usedBytes', PartSize[p])
                 THEN Goes(s, "idle") /\ arriving' = arriving \ {p} /\ UNCHANGED reserved
                 ELSE Goes(s, "body") /\ reserved' = reserved + PartSize[p] /\ UNCHANGED arriving
    /\ UNCHANGED <<onDisk, tier, commit, tokens, puts, storeFaults, removed, rowLeft>>

Ended(s) ==
    /\ arriving' = arriving \ {slot[s].part}
    /\ slot' = [slot EXCEPT ![s] = Idle]

(* copy_hashing reached the end and the digest is the name.                *)
BodyArrives(s) ==
    /\ slot[s].pc = "body"
    /\ Goes(s, "install")
    /\ UNCHANGED <<storeVars, centralVars, puts, storeFaults, miscounted, removed, rowLeft>>

Unsettled(s) == reserved - PartSize[slot[s].part]

(* It broke off, or hashes to something else: nothing is kept.             *)
BodyFails(s) ==
    /\ slot[s].pc = "body"
    /\ reserved' = Unsettled(s)
    /\ Ended(s)
    /\ UNCHANGED <<onDisk, usedBytes, centralVars, puts, storeFaults, miscounted, removed, rowLeft>>

(* Under the install lock: the same part won, or the file is renamed into  *)
(* place.  When the rename stands and a directory sync fails, the file     *)
(* stays and the request fails.                                            *)
Install(s, fails) ==
    /\ slot[s].pc = "install"
    /\ LET there == slot[s].part \in onDisk
       IN  /\ fails => ~there /\ storeFaults < MaxStoreFaults
           /\ storeFaults' = IF fails THEN storeFaults + 1 ELSE storeFaults
           /\ onDisk' = onDisk \cup {slot[s].part} /\ rowLeft' = rowLeft \ {slot[s].part}
           /\ slot' = [slot EXCEPT ![s].pc = "settle",
                                   ![s].outcome = IF there THEN "other" ELSE IF fails THEN "failed" ELSE "installed"]
           /\ miscounted' = IF fails THEN miscounted + PartSize[slot[s].part] ELSE miscounted
    /\ UNCHANGED <<usedBytes, reserved, arriving, centralVars, puts, removed>>

(* What settle counts: a fetch that found the part there counts it again.  *)
Counts(s) == slot[s].outcome = "installed" \/ (s \in Fetchers /\ slot[s].outcome = "other")

(* Mutant of SettledPart: installed bytes are not counted.                 *)
SettledOnly(s) == usedBytes

SettledPart(s) == usedBytes + IF Counts(s) THEN PartSize[slot[s].part] ELSE 0

SettlePart(s) ==
    /\ slot[s].pc = "settle"
    /\ reserved' = Unsettled(s)
    /\ usedBytes' = SettledPart(s)
    /\ arriving' = arriving \ {slot[s].part}
    /\ IF s \in Fetchers /\ slot[s].outcome # "failed" THEN Goes(s, "record") ELSE slot' = [slot EXCEPT ![s] = Idle]
    /\ UNCHANGED <<onDisk, centralVars, puts, storeFaults, miscounted, removed, rowLeft>>

(* record_replicated_part, with the source's tier.                         *)
RecordReplicated(s) ==
    /\ slot[s].pc = "record"
    /\ \E t \in {"warm", "cold"} :
          tier' = [tier EXCEPT ![slot[s].part] = IF @ = "none" THEN t ELSE @]
    /\ slot' = [slot EXCEPT ![s] = Idle]
    /\ UNCHANGED <<storeVars, commit, sweep, tokens, puts, storeFaults, miscounted, removed, rowLeft>>

-----------------------------------------------------------------------------
(* commit and retire                                                       *)

(* stored_intact; a part that is not there is answered 409.                *)
CommitChecks(p) ==
    /\ commit = NoPart /\ p \in onDisk /\ tier[p] = "none"
    /\ commit' = p
    /\ UNCHANGED <<storeVars, slot, tier, sweep, tokens, puts, storeFaults, miscounted, removed, rowLeft>>

(* record_peer_part: INSERT OR IGNORE.                                     *)
CommitRecords ==
    /\ commit # NoPart
    /\ tier' = [tier EXCEPT ![commit] = IF @ = "none" THEN "warm" ELSE @]
    /\ commit' = NoPart
    /\ UNCHANGED <<storeVars, slot, sweep, tokens, puts, storeFaults, miscounted, removed, rowLeft>>

retire(p) ==
    /\ tier[p] = "warm"
    /\ tier' = [tier EXCEPT ![p] = "cold"]
    /\ UNCHANGED <<storeVars, slot, commit, sweep, tokens, puts, storeFaults, miscounted, removed, rowLeft>>

-----------------------------------------------------------------------------
(* The sweep expires a catalogued part: the file, its bytes, the directory *)
(* sync, then its row.                                                     *)

SweepPicks(p) ==
    /\ sweep.pc = "idle" /\ tier[p] # "none"
    /\ sweep' = [NoSweep EXCEPT !.pc = "file", !.part = p]
    /\ UNCHANGED <<storeVars, slot, tier, commit, tokens, puts, storeFaults, miscounted, removed, rowLeft>>

(* Seen on disk by a commit or a run, and not in the catalog yet.          *)
BeingRecorded == {commit} \cup {slot[s].part : s \in {t \in Slots : slot[t].pc \in {"settle", "record"}}}

DeleteFile ==
    /\ sweep.pc = "file"
    /\ onDisk' = onDisk \ {sweep.part}
    /\ sweep' = [sweep EXCEPT !.pc = IF sweep.part \in onDisk THEN "count" ELSE "row"]
    /\ removed' = IF sweep.part \in BeingRecorded THEN removed \cup {sweep.part} ELSE removed
    /\ UNCHANGED <<usedBytes, reserved, arriving, slot, tier, commit, tokens, puts, storeFaults, miscounted, rowLeft>>

(* A delete that takes nothing leaves the row for the next sweep.          *)
DeleteFails ==
    /\ sweep.pc = "file" /\ sweep.part \in onDisk
    /\ sweep' = NoSweep
    /\ UNCHANGED <<storeVars, slot, tier, commit, tokens, puts, storeFaults, miscounted, removed, rowLeft>>

TakenOff(n) == IF usedBytes > n THEN usedBytes - n ELSE 0

DeleteCounts ==
    /\ sweep.pc = "count"
    /\ usedBytes' = TakenOff(PartSize[sweep.part])
    /\ miscounted' = IF sweep.measured THEN miscounted + PartSize[sweep.part] ELSE miscounted
    /\ sweep' = [sweep EXCEPT !.pc = "sync"]
    /\ UNCHANGED <<onDisk, reserved, arriving, slot, tier, commit, tokens, puts, storeFaults, removed, rowLeft>>

DeleteSyncs ==
    /\ sweep.pc = "sync"
    /\ sweep' = [sweep EXCEPT !.pc = "row"]
    /\ UNCHANGED <<storeVars, slot, tier, commit, tokens, puts, storeFaults, miscounted, removed, rowLeft>>

(* A sweep that ends here, by an error or with the process, leaves a row   *)
(* without a file: delete has unlinked it, or found nothing to unlink.     *)
LeavesRow ==
    rowLeft' = rowLeft \cup (IF sweep.pc \in {"count", "sync", "row"} THEN {sweep.part} \ onDisk ELSE {})

(* The directory sync after the unlink fails, and the part counts as not   *)
(* deleted; or the catalog fails, and the sweep ends.  The file is gone    *)
(* and the row stays, for a later sweep.                                   *)
SweepLeavesRow ==
    /\ sweep.pc \in {"sync", "row"} /\ storeFaults < MaxStoreFaults
    /\ storeFaults' = storeFaults + 1
    /\ LeavesRow
    /\ sweep' = NoSweep
    /\ UNCHANGED <<storeVars, slot, tier, commit, tokens, puts, miscounted, removed>>

(* finish_peer_part_expiry: the row goes in the transaction of its audit.  *)
SweepFinishes ==
    /\ sweep.pc = "row"
    /\ tier' = [tier EXCEPT ![sweep.part] = "none"]
    /\ rowLeft' = rowLeft \ {sweep.part}
    /\ sweep' = NoSweep
    /\ UNCHANGED <<storeVars, slot, commit, tokens, puts, storeFaults, miscounted, removed>>

-----------------------------------------------------------------------------

(* A new process: the directory is measured, temporaries are cleared, and  *)
(* the tokens of the old one are void.                                     *)
CentralRestarts ==
    /\ storeFaults < MaxStoreFaults
    /\ storeFaults' = storeFaults + 1
    /\ usedBytes' = dir_bytes /\ reserved' = 0 /\ arriving' = {}
    /\ slot' = [s \in Slots |-> Idle]
    /\ commit' = NoPart /\ sweep' = NoSweep /\ tokens' = {}
    /\ miscounted' = 0
    /\ LeavesRow
    /\ UNCHANGED <<onDisk, tier, puts, removed>>

RemovedByHand(p) ==
    /\ p \in onDisk /\ storeFaults < MaxStoreFaults
    /\ storeFaults' = storeFaults + 1
    /\ onDisk' = onDisk \ {p}
    /\ removed' = removed \cup {p}
    /\ UNCHANGED <<usedBytes, reserved, arriving, slot, centralVars, puts, miscounted, rowLeft>>

PartsNext ==
    \/ \E p \in Parts :
          \/ Presign(p) \/ PresignRefused(p) \/ TokenExpires(p)
          \/ CommitChecks(p) \/ retire(p) \/ SweepPicks(p) \/ RemovedByHand(p)
          \/ \E s \in Slots : UploadHead(s, p) \/ FetchHead(s, p)
    \/ \E s \in Slots :
          \/ Begin(s) \/ Reserve(s) \/ BodyArrives(s) \/ BodyFails(s)
          \/ Install(s, FALSE) \/ Install(s, TRUE) \/ SettlePart(s) \/ RecordReplicated(s)
    \/ CommitRecords \/ DeleteFile \/ DeleteFails \/ DeleteCounts
    \/ DeleteSyncs \/ SweepLeavesRow \/ SweepFinishes \/ CentralRestarts

PartsSpec == PartsInit /\ [][PartsNext]_partsVars

-----------------------------------------------------------------------------
(* Properties.                                                             *)

PartsTypeOK ==
    /\ onDisk \subseteq Parts /\ arriving \subseteq Parts /\ tokens \subseteq Parts
    /\ {usedBytes, reserved, miscounted} \subseteq Nat
    /\ tier \in [Parts -> {"none", "warm", "cold"}]
    /\ commit \in Parts \cup {NoPart}

Holding == {s \in Slots : slot[s].pc \in {"body", "install", "settle"}}

(* Every byte promised to a request is held by one under way, and no part  *)
(* twice: no exit of upload or of a fetch leaks or frees too much.         *)
ReservedIsHeld ==
    /\ reserved = PartBytes({slot[s].part : s \in Holding})
    /\ \A s, t \in Holding : slot[s].part = slot[t].part => s = t

(* What the counters miss: parts in place and not settled (their bytes are *)
(* still reserved), and the ones whose request failed after the rename.    *)
UncountedParts ==
    PartBytes({slot[s].part : s \in {t \in Slots : slot[t].pc = "settle" /\ slot[t].outcome = "installed"}})

(* The counters never fall behind the directory: every installed byte is   *)
(* in used, or still reserved by the request that put it there, except the *)
(* ones a failed directory sync, or a measurement that fell between the    *)
(* two halves of a delete, took out of them.                               *)
PartsAreCounted == dir_bytes <= usedBytes + UncountedParts + miscounted

(* A catalogued part is on disk, unless the sweep is expiring it, the last *)
(* sweep of it took the file and then failed or died with the row still    *)
(* there, somebody removed it, or it was swept between a commit's look and *)
(* its row.  An upload or a fetch that puts the part back ends that.       *)
CataloguedIsStored ==
    \A p \in Parts : tier[p] # "none" =>
        p \in onDisk \cup removed \cup rowLeft \/ (sweep.part = p /\ sweep.pc \in {"count", "sync", "row"})

(* parts.rs, PartsConfig: "the most bytes the parts directory may hold. An *)
(* upload that would pass it is refused with 507."                         *)
PartsWithinBudget == PartsBudget # 0 => dir_bytes <= PartsBudget

(* What central keeps to under its locks: a reservation is held while its  *)
(* upload is, each stored part is counted, and the catalog names stored    *)
(* parts, but for what its comment excepts.                                *)
PartsInv == PartsTypeOK /\ ReservedIsHeld /\ PartsAreCounted /\ CataloguedIsStored
=============================================================================
