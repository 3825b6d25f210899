------------------------------ MODULE Reclaim -------------------------------
(***************************************************************************)
(* The end of maintenance_pass: the pins of parts_edge.rs, the expiry of   *)
(* partitions by retention.rs, and the relief of disk pressure by          *)
(* budget.rs, over the files of the store and their rows in the catalog.   *)
(* Each deletes files first and forgets their rows afterwards, and the     *)
(* process may crash, or the catalog fail, in between.                     *)
(*                                                                         *)
(* The merge that brings files in runs on the same thread, between two of  *)
(* these passes; the uploader that confirms them runs beside it.  Hours    *)
(* count time, for retention and for the age of pins.  What is only        *)
(* reported (rows lost, files given up) is left out.                       *)
(***************************************************************************)
EXTENDS Naturals, FiniteSets

CONSTANTS
    Files,       \* numbers, in the order of their events and of their paths
    Bytes,       \* [Files -> Nat \ {0}]: their sizes
    HourOf,      \* [Files -> Nat]: the event hour of their partition
    BucketOf,    \* [Files -> STRING]: its level bucket
    Policies,    \* live policies: retention by bucket, budget, watermarks in percent
    PinBytes,    \* EdgePartsConfig::pin_bytes
    PinAge,      \* EdgePartsConfig::pin_age
    WalBytes,    \* sizes the WAL may have when it is measured
    MaxHour,     \* bound: hours that pass
    MaxFaults    \* bound: failed deletions and catalog errors, and crashes

MAX_PIN_SHARE == 4

ASSUME ReclaimAssumption ==
    /\ IsFiniteSet(Files) /\ Files \subseteq Nat
    /\ Bytes \in [Files -> Nat \ {0}]
    /\ HourOf \in [Files -> Nat]
    /\ DOMAIN BucketOf = Files
    /\ Policies # {}
    /\ \A p \in Policies :
          /\ \A b \in DOMAIN p.retention : p.retention[b] \in Nat
          /\ {p.budget, p.reclaim_target, p.high, p.critical} \subseteq Nat \ {0}
          /\ p.reclaim_target < p.high /\ p.high < p.critical /\ p.critical <= 100
    /\ {PinBytes, PinAge, MaxHour, MaxFaults} \subseteq Nat
    /\ WalBytes \subseteq Nat /\ WalBytes # {}

VARIABLES
    disk,        \* files in the store
    dirs,        \* partition directories in the store
    rows,        \* files the catalog lists
    committed,   \* history: files that were ever committed to the catalog
    wrote,       \* [Files -> Nat]: modification times
    confirmed,   \* files with a line in the upload state
    now,         \* the hour
    diskPressure,    \* the pressure the record loop reads
    pc,          \* where the pass is
    snap,        \* its policy snapshot
    pinned,      \* its PinSet
    parts,       \* partitions retention has still to look at
    expired,     \* partitions it took files from
    level,       \* the pressure it measured
    used,        \* bytes reclaim still counts as used
    left,        \* rows reclaim has still to look at
    dropped,     \* files it deleted
    stuck,       \* files it failed to delete
    faults,      \* failures so far
    torn         \* history: a directory was removed and its rows were not forgotten

storeState == <<disk, dirs, rows, committed, wrote>>
passState == <<pc, snap, pinned, parts, expired, level, used, left, dropped, stuck>>
reclaimVars == <<storeState, confirmed, now, diskPressure, passState, faults, torn>>

Levels == {"Normal", "High", "Critical"}

PassSteps == {"idle", "expire", "forgetExpired", "measure", "list", "reclaim", "forgetReclaimed"}

PartOf(f) == <<HourOf[f], BucketOf[f]>>

Partition == {PartOf(f) : f \in Files}

ReclaimTypeOK ==
    /\ disk \subseteq Files /\ rows \subseteq Files /\ confirmed \subseteq Files
    /\ {PartOf(f) : f \in disk} \subseteq dirs /\ dirs \subseteq Partition
    /\ committed \subseteq Files
    /\ wrote \in [Files -> 0 .. now]
    /\ now \in 0 .. MaxHour
    /\ snap \in Policies
    /\ diskPressure \in Levels /\ level \in Levels
    /\ pc \in PassSteps
    /\ pinned \subseteq Files
    /\ parts \subseteq dirs
    /\ expired \subseteq Partition
    /\ used \in Nat
    /\ left \subseteq Files /\ dropped \subseteq Files /\ stuck \subseteq Files
    /\ faults \in 0 .. MaxFaults
    /\ torn \in BOOLEAN

(* The bytes of a set of files, each told by its file and its place in it, *)
(* so that a total is a number of bytes.                                   *)
BytesIn(S) == UNION {{f} \X (1 .. Bytes[f]) : f \in S}

Size(S) == Cardinality(BytesIn(S))

AnyPolicy == CHOOSE p \in Policies : TRUE

ReclaimInit ==
    /\ disk = {} /\ dirs = {} /\ rows = {} /\ committed = {}
    /\ wrote = [f \in Files |-> 0]
    /\ confirmed = {}
    /\ now = 0
    /\ diskPressure = "Normal"
    /\ pc = "idle"
    /\ snap = AnyPolicy
    /\ pinned = {} /\ parts = {} /\ expired = {}
    /\ level = "Normal"
    /\ used = 0
    /\ left = {} /\ dropped = {} /\ stuck = {}
    /\ faults = 0
    /\ torn = FALSE

(* A call that may fail, within the bound.                                 *)
Try(ok) ==
    /\ ok \/ faults < MaxFaults
    /\ faults' = IF ok THEN faults ELSE faults + 1

(* The locals of a pass, outside of one.                                   *)
PassOver ==
    /\ pc' = "idle"
    /\ snap' = AnyPolicy
    /\ pinned' = {} /\ parts' = {} /\ expired' = {}
    /\ level' = "Normal"
    /\ used' = 0
    /\ left' = {} /\ dropped' = {} /\ stuck' = {}

-----------------------------------------------------------------------------
(* The threads around the pass.                                            *)

(* The merge writes a file and commits its row, or fails to commit and     *)
(* writes the same path again later.                                       *)
WriteFile(f) ==
    /\ pc = "idle"
    /\ f \notin committed
    /\ HourOf[f] <= now
    /\ \E ok \in BOOLEAN :
          /\ Try(ok)
          /\ rows' = IF ok THEN rows \cup {f} ELSE rows
          /\ committed' = IF ok THEN committed \cup {f} ELSE committed
    /\ disk' = disk \cup {f}
    /\ dirs' = dirs \cup {PartOf(f)}
    /\ wrote' = [wrote EXCEPT ![f] = now]
    /\ UNCHANGED <<confirmed, now, diskPressure, passState, torn>>

(* The uploader adds a line for a file central has confirmed.              *)
Confirm(f) ==
    /\ f \in disk \ confirmed
    /\ confirmed' = confirmed \cup {f}
    /\ UNCHANGED <<storeState, now, diskPressure, passState, faults, torn>>

Tick ==
    /\ now < MaxHour
    /\ now' = now + 1
    /\ UNCHANGED <<storeState, confirmed, diskPressure, passState, faults, torn>>

-----------------------------------------------------------------------------
(* pins_for_pass                                                           *)

Smaller(a, b) == IF a < b THEN a ELSE b

PinLimit(p) == Smaller(PinBytes, p.budget \div MAX_PIN_SHARE)

(* The files of U at least as new as f, which `plan` meets up to f.        *)
UpTo(U, f) == {g \in U : wrote[g] > wrote[f] \/ (wrote[g] = wrote[f] /\ g <= f)}

(* plan: the newest unconfirmed files, while they are young enough and fit *)
(* in the limit; the first that does not ends the run.                     *)
Plan(U, p) ==
    {f \in U : \A g \in UpTo(U, f) : now - wrote[g] <= PinAge /\ Size(UpTo(U, g)) <= PinLimit(p)}

(* A partition expires when its hour is over and its bucket's retention    *)
(* has passed since; one whose bucket is not configured never does.        *)
IsExpired(part, p) == part[2] \in DOMAIN p.retention /\ part[1] + 1 + p.retention[part[2]] <= now

Listed(p) == {part \in dirs : IsExpired(part, p)}

(* The pass takes the live policy, which the admin API may have changed    *)
(* since the last pass, and its pins (none unless the timer is on and a    *)
(* peer is set), and enforce_pinned lists the partitions.                  *)
StartPass ==
    /\ pc = "idle"
    /\ snap' \in Policies
    /\ \E on \in BOOLEAN : pinned' = IF on THEN Plan(disk \ confirmed, snap') ELSE {}
    /\ parts' = Listed(snap')
    /\ expired' = {}
    /\ pc' = "expire"
    /\ UNCHANGED <<storeState, confirmed, now, diskPressure, level, used, left, dropped, stuck, faults, torn>>

-----------------------------------------------------------------------------
(* enforce_pinned                                                          *)

In(part) == {f \in disk : PartOf(f) = part}

HasPin(part) == \E f \in pinned : PartOf(f) = part

(* Mutant of RemovePartition: a partition that freed nothing is not        *)
(* reported, as for one with pins.                                         *)
RemovePartitionIfFreed(p) ==
    /\ pc = "expire"
    /\ p \in parts
    /\ ~HasPin(p)
    /\ \E ok \in BOOLEAN, gone \in SUBSET In(p) :
          /\ Try(ok)
          /\ ok => gone = In(p)
          /\ disk' = disk \ gone
          /\ dirs' = IF ok THEN dirs \ {p} ELSE dirs
          /\ expired' = IF ok /\ gone # {} THEN expired \cup {p} ELSE expired
    /\ parts' = parts \ {p}
    /\ UNCHANGED <<rows, committed, wrote, confirmed, now, diskPressure, pc, snap, pinned, level, used, left, dropped, stuck, torn>>

(* remove_dir_all, which may stop half-way: then the partition is not      *)
(* reported as expired, and its directory is still there.                  *)
RemovePartition(p) ==
    /\ pc = "expire"
    /\ p \in parts
    /\ ~HasPin(p)
    /\ \E ok \in BOOLEAN, gone \in SUBSET In(p) :
          /\ Try(ok)
          /\ ok => gone = In(p)
          /\ disk' = disk \ gone
          /\ dirs' = IF ok THEN dirs \ {p} ELSE dirs
          /\ expired' = IF ok THEN expired \cup {p} ELSE expired
    /\ parts' = parts \ {p}
    /\ UNCHANGED <<rows, committed, wrote, confirmed, now, diskPressure, pc, snap, pinned, level, used, left, dropped, stuck, torn>>

(* remove_unpinned: a partition with a pinned file loses the others, one   *)
(* by one, and is reported if that freed anything.                         *)
RemoveUnpinned(p) ==
    /\ pc = "expire"
    /\ p \in parts
    /\ HasPin(p)
    /\ \E ok \in BOOLEAN, gone \in SUBSET (In(p) \ pinned) :
          /\ Try(ok)
          /\ ok => gone = In(p) \ pinned
          /\ disk' = disk \ gone
          /\ expired' = IF gone # {} THEN expired \cup {p} ELSE expired
    /\ parts' = parts \ {p}
    /\ UNCHANGED <<dirs, rows, committed, wrote, confirmed, now, diskPressure, pc, snap, pinned, level, used, left, dropped, stuck, torn>>

Forgettable == {f \in rows : PartOf(f) \in expired /\ f \notin disk}

(* forget_missing_in the expired partitions; an error is only logged.      *)
ForgetExpired ==
    /\ pc = "expire"
    /\ parts = {}
    /\ \E ok \in BOOLEAN :
          /\ Try(ok \/ expired = {})
          /\ rows' = IF ok THEN rows \ Forgettable ELSE rows
          /\ torn' = (torn \/ ~(ok \/ expired = {}))
    /\ pc' = "measure"
    /\ UNCHANGED <<disk, dirs, committed, wrote, confirmed, now, diskPressure, snap, pinned, parts, expired, level, used, left, dropped, stuck>>

-----------------------------------------------------------------------------
(* DiskUsage and reclaim_pinned                                            *)

PressureOf(u, p) ==
    IF 100 * u >= p.critical * p.budget THEN "Critical"
    ELSE IF 100 * u >= p.high * p.budget THEN "High"
    ELSE "Normal"

(* measure: the WAL's directories, and the catalog's total, or 0 when it   *)
(* cannot be read.  Under normal pressure nothing is attempted, and the    *)
(* pass publishes what it found.                                           *)
Usage(u) ==
    /\ pc = "measure"
    /\ \E w \in WalBytes, ok \in BOOLEAN : Try(ok) /\ u = w + (IF ok THEN Size(rows) ELSE 0)

NoPressure(u) ==
    /\ Usage(u)
    /\ PressureOf(u, snap) = "Normal"
    /\ diskPressure' = "Normal"
    /\ PassOver
    /\ UNCHANGED <<storeState, confirmed, now, torn>>

StartReclaim(u) ==
    /\ Usage(u)
    /\ PressureOf(u, snap) # "Normal"
    /\ level' = PressureOf(u, snap)
    /\ used' = u
    /\ pc' = "list"
    /\ UNCHANGED <<storeState, confirmed, now, diskPressure, snap, pinned, parts, expired, left, dropped, stuck, torn>>

(* list_files, of which a pinned file is never chosen; its error ends the  *)
(* reclaim, and the pass publishes the pressure.                           *)
ListFiles ==
    /\ pc = "list"
    /\ pc' = "reclaim"
    /\ left' = rows \ pinned
    /\ UNCHANGED <<storeState, confirmed, now, diskPressure, snap, pinned, parts, expired, level, used, dropped, stuck, faults, torn>>

ListFails ==
    /\ pc = "list"
    /\ Try(FALSE)
    /\ diskPressure' = level
    /\ PassOver
    /\ UNCHANGED <<storeState, confirmed, now, torn>>

Target(p) == (p.budget * p.reclaim_target) \div 100

(* Cheapest bucket first, one without a policy last, then oldest first.    *)
Before(f, g) ==
    LET known(x) == BucketOf[x] \in DOMAIN snap.retention
        keep(x) == snap.retention[BucketOf[x]]
    IN  \/ known(f) /\ ~known(g)
        \/ known(f) /\ known(g) /\ keep(f) < keep(g)
        \/ /\ known(f) = known(g)
           /\ known(f) => keep(f) = keep(g)
           /\ HourOf[f] < HourOf[g] \/ (HourOf[f] = HourOf[g] /\ f < g)

Freed(f) == IF used > Bytes[f] THEN used - Bytes[f] ELSE 0

(* One round of reclaim_files.  remove_file fails for a file that is not   *)
(* there, and the row is passed over.                                      *)
ReclaimFile(f) ==
    /\ pc = "reclaim"
    /\ used > Target(snap)
    /\ f \in left /\ \A g \in left \ {f} : Before(f, g)
    /\ left' = left \ {f}
    /\ \E ok \in BOOLEAN :
          /\ Try(ok)
          /\ IF ok /\ f \in disk
             THEN /\ disk' = disk \ {f}
                  /\ used' = Freed(f)
                  /\ dropped' = dropped \cup {f}
                  /\ UNCHANGED stuck
             ELSE stuck' = stuck \cup {f} /\ UNCHANGED <<disk, used, dropped>>
    /\ UNCHANGED <<dirs, rows, committed, wrote, confirmed, now, diskPressure, pc, snap, pinned, parts, expired, level, torn>>

EndReclaim ==
    /\ pc = "reclaim"
    /\ used <= Target(snap) \/ left = {}
    /\ pc' = "forgetReclaimed"
    /\ UNCHANGED <<storeState, confirmed, now, diskPressure, snap, pinned, parts, expired, level, used, left, dropped, stuck, faults, torn>>

(* forget_files, and the pass publishes the pressure it had measured.      *)
ForgetReclaimed ==
    /\ pc = "forgetReclaimed"
    /\ \E ok \in BOOLEAN :
          /\ Try(ok \/ dropped = {})
          /\ rows' = IF ok THEN rows \ dropped ELSE rows
    /\ diskPressure' = level
    /\ PassOver
    /\ UNCHANGED <<disk, dirs, committed, wrote, confirmed, now, torn>>

(* The process dies and is started again, with normal pressure.            *)
Crash ==
    /\ Try(FALSE)
    /\ torn' = (torn \/ (pc = "expire" /\ expired # {}))
    /\ diskPressure' = "Normal"
    /\ PassOver
    /\ UNCHANGED <<storeState, confirmed, now>>

Usages == {w + b : w \in WalBytes, b \in 0 .. Size(Files)}

PassNext ==
    \/ StartPass
    \/ \E p \in parts : RemovePartition(p) \/ RemoveUnpinned(p)
    \/ ForgetExpired
    \/ \E u \in Usages : NoPressure(u) \/ StartReclaim(u)
    \/ ListFiles \/ ListFails
    \/ \E f \in left : ReclaimFile(f)
    \/ EndReclaim \/ ForgetReclaimed

ReclaimNext ==
    \/ \E f \in Files : WriteFile(f) \/ Confirm(f)
    \/ Tick
    \/ PassNext
    \/ Crash

ReclaimSpec == ReclaimInit /\ [][ReclaimNext]_reclaimVars

-----------------------------------------------------------------------------
(* Properties.                                                             *)

Phantoms == rows \ disk

(* The budget never loses sight of a file: every committed file that is on *)
(* disk has its row, whose bytes are counted.  Retention and reclaim       *)
(* forget only what they have deleted.                                     *)
NeverUndercounts == committed \cap disk \subseteq rows

(* A file pinned for this pass outlives it, whether its partition has      *)
(* expired or the disk is full (enforce_pinned, reclaim_pinned).           *)
PinnedKept == [][pc # "idle" => pinned \cap disk \subseteq disk']_reclaimVars

(* Reclaim takes the minimum: a file goes only while what the catalog has  *)
(* on disk, without it being deleted, is still above the target.  (A row   *)
(* without a file counts as used, so a phantom makes reclaim take more.)   *)
TakesTheMinimum ==
    [][pc = "reclaim" /\ disk' # disk /\ Phantoms \subseteq dropped
          => \E w \in WalBytes : w + Size(rows \cap disk) > Target(snap)]_reclaimVars

(* Pins cannot hold the disk: when reclaim has run out of files, what the  *)
(* catalog has on disk, except files that could not be deleted, is at most *)
(* a quarter of the budget.                                                *)
PinsLeaveRoom ==
    pc = "forgetReclaimed" /\ used > Target(snap)
        => Size((rows \cap disk) \ stuck) <= snap.budget \div MAX_PIN_SHARE

(* Without a failure no row outlives its file beyond the pass that deleted *)
(* it: the cleanup also runs when reclaim stops at its target.             *)
CleanPassForgets == faults = 0 /\ pc = "idle" => Phantoms = {}

(* With failures, crashes in the middle of reclaim included, a row without *)
(* a file waits for the expiry of its partition, whose directory is still  *)
(* there to be listed.  Only where a directory was removed and the catalog *)
(* then failed, or the process died, is nothing left to remind of the row. *)
PhantomsAwaitExpiry ==
    pc = "idle" /\ ~torn => \A f \in Phantoms : PartOf(f) \in dirs

(* What the end of a maintenance pass promises: no file drops out of the   *)
(* total, pins leave room and are kept, no more is deleted than the policy *)
(* asks, and what is deleted is forgotten now or at its expiry.            *)
ReclaimPromise ==
    /\ [](/\ ReclaimTypeOK
          /\ NeverUndercounts
          /\ PinsLeaveRoom
          /\ CleanPassForgets
          /\ PhantomsAwaitExpiry)
    /\ PinnedKept
    /\ TakesTheMinimum
=============================================================================
