---------------------------- MODULE StoreProofs -----------------------------
(***************************************************************************)
(* Proofs about six of the parts MCStore checks side by side: Migrate,     *)
(* Auth, Restore, Replicate, PartsStore and Reclaim.                       *)
(***************************************************************************)
EXTENDS Migrate, Auth, Restore, Replicate, PartsStore, Reclaim,
        FiniteSetTheorems, SequenceTheorems, WellFoundedInduction, TLAPS

-----------------------------------------------------------------------------
(* Migrate. The difficulty is a migration stopped after some of the        *)
(* outputs of a file are written and before the file is removed: its rows  *)
(* are in two files then, and the next run must write the same outputs     *)
(* over the ones there are. The invariant names the file each row started  *)
(* from (home): a path holds exactly the rows whose home and hour it       *)
(* stands for, so that writing an output twice puts the same rows there.   *)

(* The files there are before a migration.                                 *)
Names == OldFiles \cup CurrentFiles

(* The rows a path may hold, for the file each row was in at first.        *)
RowsAt(home, p) ==
    {r \in StoreRows : p = home[r] \/ p = <<home[r], MigrateHourOf[r]>>}

(* A file holds all the rows of its path, and a row is in its first file   *)
(* or in that file's output for its hour.                                  *)
Homed(home) ==
    /\ \A p \in DOMAIN files : DOMAIN files[p].ids = RowsAt(home, p)
    /\ \A r \in StoreRows :
          home[r] \in DOMAIN files \/ (home[r] \in OldFiles /\ <<home[r], MigrateHourOf[r]>> \in DOMAIN files)

(* The files a migration writes: the rows of one hour of one old file.     *)
Outputs == OldFiles \X Hours

(* Counters are what an old file holds, hashes what a new one does.        *)
Keyed ==
    \A p \in DOMAIN files :
        /\ files[p].version \in {"older", "current"}
        /\ files[p].version = "older" => \A r \in DOMAIN files[p].ids : files[p].ids[r] = "counter"
        /\ files[p].version = "current" =>
              \A r \in DOMAIN files[p].ids : files[p].ids[r] = IF r \in known THEN "hash" ELSE "none"
        /\ p \in OldFiles => files[p].version = "older"
        /\ p \in Outputs => files[p].version = "current"

(* The types of the store and of a running migration.                      *)
Shapes ==
    /\ DOMAIN files \subseteq Paths /\ catalogued \subseteq Paths
    /\ known \subseteq StoreRows
    /\ migrating \in [pc : {"idle", "old", "write", "rekey", "rebuild", "done"},
                      file : OldFiles \cup {"none"}, left : SUBSET (Paths \cup Hours)]

(* Writing the outputs of a file: the hours left are the ones not written. *)
Splitting(home) ==
    migrating.pc = "write" =>
        /\ migrating.file \in OldFiles \cap DOMAIN files
        /\ migrating.left \subseteq Hours
        /\ \A r \in StoreRows : home[r] = migrating.file =>
              MigrateHourOf[r] \in migrating.left \/ <<migrating.file, MigrateHourOf[r]>> \in DOMAIN files

(* After the old files, those of the older schema, and then the catalog.   *)
Later ==
    /\ migrating.pc \in {"idle", "old", "rebuild", "done"} => migrating.left = {}
    /\ migrating.pc \in {"rekey", "rebuild", "done"} =>
          /\ OldFiles \cap DOMAIN files = {}
          /\ \A p \in DOMAIN files : p \in migrating.left \/ files[p].version = "current"
    /\ migrating.pc = "rekey" => migrating.left \subseteq DOMAIN files
    /\ migrating.pc \in {"rebuild", "done"} => seenRows = UNION {Templated(f) : f \in DOMAIN files}
    /\ migrating.pc = "done" => catalogued = DOMAIN files

(* The inductive invariant, for the place each row started from.           *)
Kept(home) == Shapes /\ Keyed /\ Later /\ Homed(home) /\ Splitting(home)

(* The inductive invariant: there was a file each row started from.        *)
MigrateInvariant == \E home \in [StoreRows -> Names] : Kept(home)

(* Old files, current files and outputs have paths of their own.           *)
LEMMA PathFacts ==
    /\ Paths = Names \cup Outputs
    /\ Names \cap Outputs = {}
    /\ \A r \in StoreRows : MigrateHourOf[r] \in Hours
    /\ \A f \in Names, h \in Hours : <<f, h>> \notin Names
    /\ \A f \in Names, h \in Hours : <<f, h>> \in Paths => f \in OldFiles
PROOF
<1> USE MigrateAssumption DEF Names, Outputs, Paths
<1>1. Paths = Names \cup Outputs /\ \A r \in StoreRows : MigrateHourOf[r] \in Hours
  BY SMT
<1>2. \A f \in Names, h \in Hours : <<f, h>> \notin Names
  BY SMT
<1>3. Names \cap Outputs = {}
  BY <1>2, SMT
<1>4. \A f \in Names, h \in Hours : <<f, h>> \in Paths => f \in OldFiles
  BY <1>1, <1>2, SMT
<1> QED BY <1>1, <1>2, <1>3, <1>4

(* The inductive invariant implies the one the runs check: no row and no   *)
(* template id is lost, and after a run that returns each row is in one    *)
(* catalogued file of the current layout and schema.                       *)
LEMMA KeptImpliesInv == MigrateInvariant => MigrateInv
PROOF
<1> SUFFICES ASSUME NEW home \in [StoreRows -> Names], Kept(home) PROVE MigrateInv
  BY DEF MigrateInvariant
<1>1. MigrateTypeOK
  <2>1. \A f \in DOMAIN files : DOMAIN files[f].ids \subseteq StoreRows
    BY DEF Kept, Homed, RowsAt
  <2>2. migrating.left \subseteq IF migrating.pc = "write" THEN Hours ELSE Paths
    BY DEF Kept, Shapes, Later, Splitting
  <2> QED BY <2>1, <2>2 DEF MigrateTypeOK, Kept, Shapes, Splitting
<1>2. RowsStay
  <2> SUFFICES ASSUME NEW r \in StoreRows
               PROVE  /\ HoldersOf(r) # {}
                      /\ migrating.pc = "done" =>
                            \E f \in catalogued :
                                HoldersOf(r) = {f} /\ f \notin OldFiles /\ files[f].version = "current"
    BY DEF RowsStay
  <2> DEFINE out == <<home[r], MigrateHourOf[r]>>
  <2>1. home[r] \in Names /\ MigrateHourOf[r] \in Hours
    BY PathFacts
  <2>2. HoldersOf(r) = {home[r], out} \cap DOMAIN files
    BY DEF HoldersOf, Kept, Homed, RowsAt
  <2>3. home[r] \in DOMAIN files \/ (home[r] \in OldFiles /\ out \in DOMAIN files)
    BY DEF Kept, Homed
  <2>4. out \in DOMAIN files => home[r] \in OldFiles
    BY <2>1, PathFacts DEF Kept, Shapes
  <2>5. out \notin Names
    BY <2>1, PathFacts
  <2>6. HoldersOf(r) # {}
    BY <2>2, <2>3
  <2>7. ASSUME migrating.pc = "done"
        PROVE  \E f \in catalogued :
                   HoldersOf(r) = {f} /\ f \notin OldFiles /\ files[f].version = "current"
    <3>1. OldFiles \cap DOMAIN files = {} /\ catalogued = DOMAIN files
      BY <2>7 DEF Kept, Later
    <3>2. \A f \in DOMAIN files : files[f].version = "current"
      BY <2>7 DEF Kept, Later
    <3> HIDE DEF out
    <3>3. CASE home[r] \in DOMAIN files
      <4>1. HoldersOf(r) = {home[r]}
        BY <2>2, <2>4, <3>1, <3>3
      <4> QED BY <4>1, <3>1, <3>2, <3>3
    <3>4. CASE home[r] \notin DOMAIN files
      <4>1. HoldersOf(r) = {out} /\ out \in DOMAIN files
        BY <2>2, <2>3, <3>4
      <4> QED BY <4>1, <3>1, <3>2
    <3> QED BY <3>3, <3>4
  <2> QED BY <2>6, <2>7
<1>3. IdsStay
  <2> SUFFICES ASSUME NEW r \in known, NEW f \in HoldersOf(r)
               PROVE  /\ files[f].ids[r] # "none"
                      /\ migrating.pc = "done" => r \in seenRows /\ files[f].ids[r] = "hash"
    BY DEF IdsStay
  <2>1. f \in DOMAIN files /\ r \in DOMAIN files[f].ids
    BY DEF HoldersOf
  <2>2. files[f].ids[r] \in {"counter", "hash"} /\ (files[f].version = "current" => files[f].ids[r] = "hash")
    BY <2>1 DEF Kept, Keyed
  <2>3. ASSUME migrating.pc = "done" PROVE files[f].version = "current" /\ r \in seenRows
    <3>1. files[f].version = "current" /\ seenRows = UNION {Templated(g) : g \in DOMAIN files}
      BY <2>1, <2>3 DEF Kept, Later
    <3>2. r \in Templated(f)
      BY <2>1, <2>2 DEF Templated
    <3> QED BY <2>1, <3>1, <3>2
  <2> QED BY <2>2, <2>3
<1> QED BY <1>1, <1>2, <1>3 DEF MigrateInv

(* It holds of any store of files in the older schema, in either layout.   *)
LEMMA MigrateInitKept == MigrateInit => MigrateInvariant
PROOF
<1> SUFFICES ASSUME MigrateInit PROVE MigrateInvariant
  OBVIOUS
<1>1. PICK home \in [StoreRows -> Names] :
         files = [f \in Range(home) |-> File("older", {r \in StoreRows : home[r] = f}, "counter")]
  BY DEF MigrateInit, Names
<1>2. DOMAIN files = Range(home) /\ Range(home) \subseteq Names /\ \A r \in StoreRows : home[r] \in DOMAIN files
  BY <1>1 DEF Range
<1>3. \A p \in DOMAIN files : /\ files[p].version = "older"
                              /\ DOMAIN files[p].ids = {r \in StoreRows : home[r] = p}
                              /\ \A r \in DOMAIN files[p].ids : files[p].ids[r] = "counter"
  BY <1>1, <1>2 DEF File
<1>4. Shapes
  BY <1>2, PathFacts DEF Shapes, MigrateInit, NotMigrating
<1>5. Keyed
  BY <1>2, <1>3, PathFacts DEF Keyed
<1>6. Homed(home)
  <2>1. ASSUME NEW p \in DOMAIN files PROVE RowsAt(home, p) = {r \in StoreRows : home[r] = p}
    BY <1>2, PathFacts DEF RowsAt
  <2> QED BY <1>2, <1>3, <2>1 DEF Homed
<1>7. Later /\ Splitting(home)
  BY DEF Later, Splitting, MigrateInit, NotMigrating
<1> QED BY <1>4, <1>5, <1>6, <1>7 DEF MigrateInvariant, Kept

(* The ids a path holds once its file is of the current schema.            *)
IsRekeyed(home, p, ids) ==
    /\ DOMAIN ids = RowsAt(home, p)
    /\ \A r \in DOMAIN ids : ids[r] = IF r \in known THEN "hash" ELSE "none"

(* Writing the contents a path stands for keeps every row in its place.    *)
LEMMA WritingKeeps ==
    ASSUME NEW home \in [StoreRows -> Names], Homed(home), Keyed,
           NEW p, p \notin OldFiles, NEW ids, IsRekeyed(home, p, ids),
           files' = Written(p, [version |-> "current", ids |-> ids]),
           known' = known
    PROVE  /\ Homed(home)' /\ Keyed'
           /\ DOMAIN files' = DOMAIN files \cup {p}
           /\ files'[p].version = "current"
           /\ \A q \in DOMAIN files \ {p} : files'[q] = files[q]
PROOF
<1>0. DOMAIN ids = RowsAt(home, p) /\ \A r \in DOMAIN ids : ids[r] = IF r \in known THEN "hash" ELSE "none"
  BY DEF IsRekeyed
<1>1. DOMAIN files' = DOMAIN files \cup {p} /\ \A q \in DOMAIN files \ {p} : files'[q] = files[q]
  BY DEF Written
<1>2. files'[p] = [version |-> "current", ids |-> ids]
  BY DEF Written
<1>3. files'[p].version = "current" /\ files'[p].ids = ids
  BY <1>2
<1>4. Homed(home)'
  <2>1. ASSUME NEW q \in DOMAIN files' PROVE DOMAIN files'[q].ids = RowsAt(home, q)
    BY <1>0, <1>1, <1>3 DEF Homed
  <2> QED BY <1>1, <2>1 DEF Homed, RowsAt
<1>5. Keyed'
  <2> SUFFICES ASSUME NEW q \in DOMAIN files'
               PROVE  /\ files'[q].version \in {"older", "current"}
                      /\ files'[q].version = "older" => \A r \in DOMAIN files'[q].ids : files'[q].ids[r] = "counter"
                      /\ files'[q].version = "current" =>
                            \A r \in DOMAIN files'[q].ids : files'[q].ids[r] = IF r \in known THEN "hash" ELSE "none"
                      /\ q \in OldFiles => files'[q].version = "older"
                      /\ q \in Outputs => files'[q].version = "current"
    BY DEF Keyed, Outputs
  <2>1. CASE q = p
    BY <2>1, <1>0, <1>3
  <2>2. CASE q # p
    BY <2>2, <1>1 DEF Keyed
  <2> QED BY <2>1, <2>2
<1> QED BY <1>1, <1>3, <1>4, <1>5

(* Every step keeps it, a stop between two of them included.               *)
LEMMA MigrateStepKept ==
    ASSUME MigrateInvariant, [MigrateNext]_migrateVars PROVE MigrateInvariant'
PROOF
<1>0. PICK home \in [StoreRows -> Names] : Kept(home)
  BY DEF MigrateInvariant
<1> SUFFICES Kept(home)'
  BY DEF MigrateInvariant, Names
<1> USE DEF Kept
<1>1. CASE MigrateStarts
  BY <1>0, <1>1 DEF MigrateStarts, Shapes, Keyed, Later, Homed, RowsAt, Splitting, Templated
<1>2. CASE RemoveOld
  <2> DEFINE old == migrating.file
  <2>1. /\ migrating.pc = "write" /\ migrating.left = {} /\ old \in OldFiles \cap DOMAIN files
        /\ migrating' = [migrating EXCEPT !.pc = "old"]
        /\ known' = known /\ catalogued' = catalogued /\ seenRows' = seenRows
    BY <1>0, <1>2 DEF RemoveOld, Splitting
  <2>2. DOMAIN files' = DOMAIN files \ {old} /\ \A q \in DOMAIN files' : files'[q] = files[q]
    BY <1>2 DEF RemoveOld, Restrict
  <2>3. \A r \in StoreRows : home[r] = old => <<old, MigrateHourOf[r]>> \in DOMAIN files
    BY <1>0, <2>1 DEF Splitting
  <2>4. \A r \in StoreRows : home[r] = old => <<old, MigrateHourOf[r]>> \in DOMAIN files'
    BY <2>1, <2>2, <2>3, PathFacts DEF Names
  <2>5. Homed(home)'
    <3> HIDE DEF old
    <3>1. \A q \in DOMAIN files' : DOMAIN files'[q].ids = RowsAt(home, q)
      BY <1>0, <2>2 DEF Homed
    <3>2. ASSUME NEW r \in StoreRows
          PROVE home[r] \in DOMAIN files' \/ (home[r] \in OldFiles /\ <<home[r], MigrateHourOf[r]>> \in DOMAIN files')
      <4>1. <<home[r], MigrateHourOf[r]>> \notin OldFiles
        BY PathFacts DEF Names
      <4> QED BY <1>0, <2>1, <2>2, <2>4, <4>1 DEF Homed
    <3> QED BY <3>1, <3>2 DEF Homed, RowsAt
  <2>6. Keyed'
    BY <1>0, <2>1, <2>2 DEF Keyed, Outputs
  <2>7. Shapes' /\ Later' /\ Splitting(home)'
    BY <1>0, <2>1, <2>2 DEF Shapes, Later, Splitting
  <2> QED BY <2>5, <2>6, <2>7
<1>3. CASE OldDone
  <2>1. Shapes' /\ Keyed' /\ Homed(home)' /\ Splitting(home)'
    BY <1>0, <1>3 DEF OldDone, Shapes, Keyed, Homed, RowsAt, Splitting
  <2>2. Later'
    BY <1>0, <1>3 DEF OldDone, Shapes, Later
  <2> QED BY <2>1, <2>2
<1>4. CASE ReplaceAllSightings
  <2>1. Shapes' /\ Keyed' /\ Homed(home)' /\ Splitting(home)'
    BY <1>0, <1>4 DEF ReplaceAllSightings, Shapes, Keyed, Homed, RowsAt, Splitting
  <2>2. Later'
    BY <1>0, <1>4 DEF ReplaceAllSightings, Shapes, Later, Templated
  <2> QED BY <2>1, <2>2
<1>5. CASE MigrateRebuilds
  <2>1. Shapes' /\ Keyed' /\ Homed(home)' /\ Splitting(home)'
    BY <1>0, <1>5 DEF MigrateRebuilds, Shapes, Keyed, Homed, RowsAt, Splitting
  <2>2. Later'
    BY <1>0, <1>5 DEF MigrateRebuilds, Shapes, Later, Templated
  <2> QED BY <2>1, <2>2
<1>6. CASE MigrateReturns \/ MigrateStop
  <2>1. migrating' = NotMigrating /\ UNCHANGED <<files, known, catalogued, seenRows>>
    BY <1>6 DEF MigrateReturns, MigrateStop
  <2> QED BY <1>0, <2>1 DEF NotMigrating, Shapes, Keyed, Later, Homed, RowsAt, Splitting, Templated
<1>7. ASSUME NEW f \in Paths, ReadOld(f) PROVE Kept(home)'
  <2>1. /\ f \in OldFiles \cap DOMAIN files
        /\ migrating' = [pc |-> "write", file |-> f, left |-> OutputsOf(f)]
        /\ UNCHANGED <<files, known, catalogued, seenRows>>
    BY <1>7 DEF ReadOld
  <2>2. ASSUME NEW r \in StoreRows, home[r] = f PROVE MigrateHourOf[r] \in OutputsOf(f)
    <3>1. r \in DOMAIN files[f].ids
      BY <1>0, <2>1, <2>2 DEF Homed, RowsAt
    <3> QED BY <3>1, PathFacts DEF OutputsOf, HourRows
  <2>3. OutputsOf(f) \subseteq Hours
    BY DEF OutputsOf
  <2>4. Splitting(home)'
    BY <2>1, <2>2, <2>3 DEF Splitting
  <2> QED BY <1>0, <2>1, <2>3, <2>4 DEF Shapes, Keyed, Later, Homed, RowsAt
<1>8. ASSUME NEW f \in Paths, RekeyInPlace(f) PROVE Kept(home)'
  <2>1. /\ migrating.pc = "rekey" /\ f \in migrating.left
        /\ migrating' = [migrating EXCEPT !.left = @ \ {f}]
        /\ known' = known /\ catalogued' = catalogued /\ seenRows' = seenRows
    BY <1>8 DEF RekeyInPlace
  <2>2. f \in DOMAIN files /\ OldFiles \cap DOMAIN files = {}
    BY <1>0, <2>1 DEF Later
  <2>3. CASE ~HoldsCounters(f)
    <3>1. files' = files /\ files[f].version = "current"
      BY <1>8, <2>3 DEF RekeyInPlace, HoldsCounters
    <3> QED BY <1>0, <2>1, <2>2, <3>1 DEF Shapes, Keyed, Later, Homed, RowsAt, Splitting
  <2>4. CASE HoldsCounters(f)
    <3> DEFINE ids == Rekeyed(files[f].ids)
    <3>1. files' = Written(f, [version |-> "current", ids |-> ids])
      BY <1>8, <2>4 DEF RekeyInPlace
    <3>2. \A r \in DOMAIN files[f].ids : files[f].ids[r] = "counter"
      BY <1>0, <2>2, <2>4 DEF Keyed, HoldsCounters
    <3>3. IsRekeyed(home, f, ids) /\ f \notin OldFiles
      BY <1>0, <2>2, <3>2 DEF Rekeyed, Homed, IsRekeyed
    <3> HIDE DEF ids
    <3>4. /\ Homed(home)' /\ Keyed' /\ DOMAIN files' = DOMAIN files \cup {f}
          /\ files'[f].version = "current"
          /\ \A q \in DOMAIN files \ {f} : files'[q] = files[q]
      BY <1>0, <2>1, <3>1, <3>3, WritingKeeps
    <3>5. DOMAIN files' = DOMAIN files
      BY <2>2, <3>4
    <3> QED BY <1>0, <2>1, <2>2, <3>4, <3>5 DEF Shapes, Later, Splitting
  <2> QED BY <2>3, <2>4
<1>9. ASSUME NEW h \in Hours, WriteOutput(h) PROVE Kept(home)'
  <2> DEFINE f == migrating.file
             p == OutputPath(f, h)
             ids == Rekeyed(Restrict(files[f].ids, HourRows(f, h)))
  <2>1. /\ migrating.pc = "write" /\ h \in migrating.left
        /\ migrating' = [migrating EXCEPT !.left = @ \ {h}]
        /\ files' = Written(p, [version |-> "current", ids |-> ids])
        /\ known' = known /\ catalogued' = catalogued /\ seenRows' = seenRows
    BY <1>9 DEF WriteOutput
  <2>2. f \in OldFiles \cap DOMAIN files
    BY <1>0, <2>1 DEF Splitting
  <2>3. p = <<f, h>> /\ p \in Paths \ OldFiles
    BY <2>2, PathFacts DEF OutputPath, Outputs, Names
  <2>4. RowsAt(home, f) = {r \in StoreRows : home[r] = f}
    BY <2>2, PathFacts DEF RowsAt, Names
  <2>5. RowsAt(home, p) = {r \in StoreRows : home[r] = f /\ MigrateHourOf[r] = h}
    <3>1. \A r \in StoreRows : p # home[r]
      BY <2>2, <2>3, PathFacts DEF Names
    <3> QED BY <2>3, <3>1 DEF RowsAt
  <2>6. HourRows(f, h) = RowsAt(home, p)
    BY <1>0, <2>2, <2>4, <2>5 DEF Homed, HourRows
  <2>7. \A r \in DOMAIN files[f].ids : files[f].ids[r] = "counter"
    BY <1>0, <2>2 DEF Keyed
  <2>8. IsRekeyed(home, p, ids)
    BY <2>6, <2>7 DEF Rekeyed, Restrict, HourRows, IsRekeyed
  <2> HIDE DEF ids, p
  <2>9. /\ Homed(home)' /\ Keyed' /\ DOMAIN files' = DOMAIN files \cup {p}
    BY <1>0, <2>1, <2>3, <2>8, WritingKeeps
  <2>10. Shapes'
    BY <1>0, <2>1, <2>3, <2>9 DEF Shapes
  <2>11. Splitting(home)'
    BY <1>0, <2>1, <2>2, <2>3, <2>9 DEF Splitting, Shapes
  <2>12. Later'
    BY <1>0, <2>1 DEF Later, Shapes
  <2> QED BY <2>9, <2>10, <2>11, <2>12
<1>10. CASE UNCHANGED migrateVars
  BY <1>0, <1>10 DEF migrateVars, Shapes, Keyed, Later, Homed, RowsAt, Splitting, Templated
<1> QED BY <1>1, <1>2, <1>3, <1>4, <1>5, <1>6, <1>7, <1>8, <1>9, <1>10 DEF MigrateNext

(* Layout migration loses no row and no template id, however often it is   *)
(* stopped between two writes and run again; a run that returns leaves     *)
(* every row in exactly one catalogued file of the current layout and      *)
(* schema, with the hash of its template, and every template in the        *)
(* sightings (migrate.rs). For any store, any hours, any number of stops.  *)
THEOREM MigrateSafe == MigrateSpec => []MigrateInv
PROOF
<1>1. MigrateInit => MigrateInvariant
  BY MigrateInitKept
<1>2. MigrateInvariant /\ [MigrateNext]_migrateVars => MigrateInvariant'
  BY MigrateStepKept
<1>3. MigrateInvariant => MigrateInv
  BY KeptImpliesInv
<1> QED BY <1>1, <1>2, <1>3, PTL DEF MigrateSpec

-----------------------------------------------------------------------------
(* Auth. Refreshes run side by side and end in any order, the last one     *)
(* replacing the keys: the invariant says of every answer on its way, and  *)
(* of what is in memory and in the cache, that it is empty or one whole    *)
(* set the broker published.                                               *)

(* A key set is empty, or one the broker published, under its etag.        *)
BrokerSet(s) == s = EmptyKeys \/ \E g \in 1 .. generation : s = [keys |-> Published(g), etag |-> g]

(* Where a refresh of the key set is.                                      *)
FetcherSteps == {"idle", "ask", "confirmed", "body", "failed", "again"}

(* What a fetch carries: when it began, and an answer that is not usable   *)
(* or was published.                                                       *)
Fetching(x) ==
    /\ x.pc \in FetcherSteps
    /\ x.at \in 0 .. authClock
    /\ x.exp \in Nat
    /\ x.pc = "body" => x.answer.keys = {} \/ BrokerSet(x.answer)

(* The clocks; an attempt is dated in the past.                            *)
Clocks ==
    /\ generation \in 1 .. MaxGeneration /\ authClock \in 1 .. MaxAuthClock
    /\ lastAttempt \in 0 .. authClock /\ lastKid \in 0 .. authClock

(* The keys in memory and in the cache; what was saved is in memory, if    *)
(* the process could read it or has fetched since.                         *)
KeySets ==
    /\ BrokerSet(keySet) /\ BrokerSet(keyCache) /\ cacheRead \in BOOLEAN
    /\ keyCache # EmptyKeys /\ cacheRead => keySet # EmptyKeys

(* The refreshes under way.                                                *)
Fetches ==
    /\ fetcher \in [KeyFetchers -> [pc : FetcherSteps, kid : Nat, exp : Nat, at : Nat, answer : [keys : SUBSET Nat, etag : Nat]]]
    /\ \A f \in KeyFetchers : Fetching(fetcher[f])

(* A session key that is said to be kept is the one on disk.               *)
SessionKeys ==
    /\ sessionKey.key \in Nat \ {0} /\ sessionKeyFile \in Nat /\ nextKey \in Nat \ {0}
    /\ sessionKey.persisted => sessionKeyFile = sessionKey.key

(* A credential ends with its token and with its own life.                 *)
Credentials ==
    /\ Cardinality(credentials) <= MaxCredentials
    /\ \A c \in credentials :
          /\ c.key \in Nat \ {0} /\ c.exp \in Nat /\ c.tokenExp \in Nat
          /\ c.exp <= c.tokenExp /\ c.exp <= authClock + S3_TTL

(* The inductive invariant.                                                *)
AuthInvariant == Clocks /\ KeySets /\ Fetches /\ SessionKeys /\ Credentials

(* The broker publishes the key of its generation.                         *)
LEMMA PublishedKeys ==
    ASSUME NEW g \in Nat \ {0}
    PROVE  Published(g) \subseteq Nat /\ g \in Published(g)
BY DEF Published

(* The inductive invariant implies the one the runs check.                 *)
LEMMA AuthInvariantImplies == AuthInvariant => AuthInv
<1> SUFFICES ASSUME AuthInvariant PROVE AuthInv
  OBVIOUS
<1> USE AuthAssumption DEF AuthInvariant
<1>1. ASSUME NEW s, BrokerSet(s)
      PROVE  /\ s.etag \in 0 .. generation /\ s.keys \subseteq Nat
             /\ s.etag > 0 => s # EmptyKeys
             /\ s.keys = Published(s.etag) /\ (s # EmptyKeys => s.keys # {})
  <2>1. CASE s = EmptyKeys
    BY <2>1 DEF EmptyKeys, Clocks, Published
  <2>2. ASSUME NEW g \in 1 .. generation, s = [keys |-> Published(g), etag |-> g]
        PROVE  s.etag = g /\ s.keys = Published(g) /\ g \in Published(g) /\ Published(g) \subseteq Nat
    BY <2>2, PublishedKeys DEF Clocks
  <2> QED BY <1>1, <2>1, <2>2 DEF BrokerSet, Clocks, EmptyKeys
<1>2. AuthTypeOK
  <2>1. \A s \in {keySet, keyCache} : s.etag \in 0 .. generation /\ s.keys \subseteq Nat
    BY <1>1 DEF KeySets
  <2> QED BY <2>1 DEF AuthTypeOK, Clocks, Fetches, Fetching, FetcherSteps, Credentials
<1>3. KeysAreKept
  BY <1>1 DEF KeysAreKept, KeySets
<1>4. CredentialWithinToken
  BY DEF CredentialWithinToken, SessionVerifies, Credentials, Clocks
<1>5. SessionsSurvive
  BY DEF SessionsSurvive, SessionVerifies, SessionKeys, Credentials
<1> QED BY <1>2, <1>3, <1>4, <1>5 DEF AuthInv

(* It holds of a process that has fetched nothing yet.                     *)
LEMMA AuthInitInvariant == AuthInit => AuthInvariant
<1> SUFFICES ASSUME AuthInit PROVE AuthInvariant
  OBVIOUS
<1> USE AuthAssumption DEF AuthInit
<1>1. Clocks /\ KeySets /\ SessionKeys
  BY DEF Clocks, KeySets, BrokerSet, SessionKeys
<1>2. Fetches
  BY DEF Fetches, Fetching, FetcherSteps, NotFetching, EmptyKeys
<1>3. Credentials
  BY FS_EmptySet DEF Credentials
<1> QED BY <1>1, <1>2, <1>3 DEF AuthInvariant

(* What was issued ends with its token and within its configured life.     *)
(* A credential is issued for no longer than its token lasts.              *)
LEMMA IssuedKeeps ==
    ASSUME Clocks, SessionKeys, Credentials, NEW exp \in Nat, Cardinality(Issued(exp)) <= MaxCredentials,
           credentials' = Issued(exp), authClock' = authClock
    PROVE  Credentials'
<1> DEFINE end == Expiry(exp)
<1>1. end \in Nat /\ end <= exp /\ end <= authClock + S3_TTL
  <2> DEFINE life == authClock + S3_TTL
  <2>1. life \in Nat
    BY AuthAssumption DEF Clocks
  <2> HIDE DEF life
  <2>2. \E x \in {exp, life} : \A y \in {exp, life} : x <= y
    BY <2>1
  <2>3. Min({exp, life}) \in {exp, life} /\ \A y \in {exp, life} : Min({exp, life}) <= y
    BY <2>2 DEF Min
  <2> QED BY <2>1, <2>3 DEF Expiry, life
<1> HIDE DEF end
<1>2. CASE end > authClock
  <2>1. credentials' = credentials \cup {[exp |-> end, tokenExp |-> exp, key |-> sessionKey.key]}
    BY <1>2 DEF Issued, end
  <2> QED BY <1>1, <2>1 DEF Credentials, SessionKeys
<1>3. CASE ~(end > authClock)
  BY <1>3 DEF Issued, end, Credentials
<1> QED BY <1>2, <1>3

(* One refresh begins or ends and the others stay as they are.             *)
LEMMA SlotKeeps ==
  ASSUME AuthInvariant, NEW f \in KeyFetchers, NEW e, UNCHANGED <<generation, authClock>>,
         e \in [pc : FetcherSteps, kid : Nat, exp : Nat, at : Nat, answer : [keys : SUBSET Nat, etag : Nat]],
         Fetching(e), fetcher' = [fetcher EXCEPT ![f] = e]
  PROVE  Fetches'
<1>1. fetcher \in [KeyFetchers -> [pc : FetcherSteps, kid : Nat, exp : Nat, at : Nat, answer : [keys : SUBSET Nat, etag : Nat]]]
  BY DEF AuthInvariant, Fetches
<1>2. fetcher' \in [KeyFetchers -> [pc : FetcherSteps, kid : Nat, exp : Nat, at : Nat, answer : [keys : SUBSET Nat, etag : Nat]]]
  BY <1>1
<1>3. ASSUME NEW x \in KeyFetchers PROVE Fetching(fetcher[x])'
  <2>1. Fetching(fetcher'[x])
    <3>1. CASE x = f
      BY <1>1, <3>1
    <3>2. CASE x # f
      <4>1. fetcher'[x] = fetcher[x]
        BY <1>1, <3>2
      <4> QED BY <4>1 DEF AuthInvariant, Fetches
    <3> QED BY <3>1, <3>2
  <2> QED BY <2>1 DEF Fetching, BrokerSet
<1> QED BY <1>2, <1>3 DEF Fetches

(* Every step keeps it: answers in any order, failures, restarts.          *)
LEMMA AuthStep == AuthInvariant /\ [AuthNext]_authVars => AuthInvariant'
<1> SUFFICES ASSUME AuthInvariant, [AuthNext]_authVars PROVE AuthInvariant'
  OBVIOUS
<1> USE DEF AuthInvariant
<1>0. authClock \in Nat \ {0} /\ generation \in Nat \ {0}
  BY DEF Clocks
<1>1. ASSUME NEW h \in Handlers, NEW kid \in TokenKids, NEW exp \in 1 .. MaxAuthClock + 1, Trade(h, kid, exp)
      PROVE  AuthInvariant'
  <2>1. exp \in Nat
    BY AuthAssumption
  <2>2. Credentials'
    BY <1>1, <2>1, IssuedKeeps DEF Trade
  <2> QED BY <1>1, <2>2 DEF Trade, keyVars, Clocks, KeySets, BrokerSet, Fetches, Fetching, SessionKeys
<1>2. ASSUME NEW h \in Handlers, NEW kid \in TokenKids, NEW exp \in 1 .. MaxAuthClock + 1, MeetUnknownKid(h, kid, exp)
      PROVE  AuthInvariant'
  <2>1. exp \in Nat /\ kid \in Nat
    BY <1>0, AuthAssumption DEF TokenKids
  <2>2. Fetches'
    <3>1. PICK e : e = [NotFetching EXCEPT !.pc = "ask", !.kid = kid, !.exp = exp, !.at = authClock]
      OBVIOUS
    <3>2. /\ e \in [pc : FetcherSteps, kid : Nat, exp : Nat, at : Nat, answer : [keys : SUBSET Nat, etag : Nat]]
          /\ e.pc = "ask" /\ e.at = authClock /\ e.answer = EmptyKeys
      BY <1>0, <2>1, <3>1 DEF NotFetching, EmptyKeys, FetcherSteps
    <3>3. Fetching(e)
      BY <1>0, <3>2 DEF Fetching, EmptyKeys
    <3>4. fetcher' = [fetcher EXCEPT ![h] = e] /\ UNCHANGED <<generation, authClock>> /\ h \in KeyFetchers
      BY <1>2, <3>1 DEF MeetUnknownKid, KeyFetchers
    <3> QED BY ONLY AuthInvariant, <3>2, <3>3, <3>4, SlotKeeps
  <2> QED BY <1>0, <1>2, <2>2 DEF MeetUnknownKid, sessionVars, Clocks, KeySets, BrokerSet, SessionKeys, Credentials
<1>3. CASE TimerRefreshes
  <2>2. Fetches'
    <3>1. PICK e : e = [NotFetching EXCEPT !.pc = "ask", !.at = authClock]
      OBVIOUS
    <3>2. /\ e \in [pc : FetcherSteps, kid : Nat, exp : Nat, at : Nat, answer : [keys : SUBSET Nat, etag : Nat]]
          /\ e.pc = "ask" /\ e.at = authClock /\ e.answer = EmptyKeys
      BY <1>0, <3>1 DEF NotFetching, EmptyKeys, FetcherSteps
    <3>3. Fetching(e)
      BY <1>0, <3>2 DEF Fetching, EmptyKeys
    <3>4. fetcher' = [fetcher EXCEPT ![Timer] = e] /\ UNCHANGED <<generation, authClock>> /\ Timer \in KeyFetchers
      BY <1>3, <3>1 DEF TimerRefreshes, KeyFetchers
    <3> QED BY ONLY AuthInvariant, <3>2, <3>3, <3>4, SlotKeeps
  <2> QED BY <1>3, <2>2 DEF TimerRefreshes, sessionVars, Clocks, KeySets, BrokerSet, SessionKeys, Credentials
<1>4. ASSUME NEW f \in KeyFetchers, Ask(f) \/ AskFails(f) PROVE AuthInvariant'
  <2>1. UNCHANGED <<generation, keySet, keyCache, cacheRead, lastAttempt, lastKid, sessionVars, authClock, authRestarts>>
    BY <1>4 DEF Ask, AskFails
  <2>2. PICK to \in {"confirmed", "body", "failed"}, answer \in [keys : SUBSET Nat, etag : Nat] :
           /\ fetcher' = [fetcher EXCEPT ![f].pc = to, ![f].answer = answer]
           /\ answer.keys = {} \/ BrokerSet(answer)
    <3>1. CASE Ask(f)
      <4> DEFINE full == [keys |-> Published(generation), etag |-> generation]
      <4>1. full \in [keys : SUBSET Nat, etag : Nat] /\ BrokerSet(full)
        BY <1>0, PublishedKeys DEF BrokerSet
      <4>2. EmptyKeys \in [keys : SUBSET Nat, etag : Nat] /\ EmptyKeys.keys = {}
        BY DEF EmptyKeys
      <4> HIDE DEF full
      <4>3. CASE keySet.etag = generation
        BY <3>1, <4>2, <4>3 DEF Ask
      <4>4. CASE keySet.etag # generation
        <5>1. fetcher' = [fetcher EXCEPT ![f].pc = "body", ![f].answer = full]
          BY <3>1, <4>4 DEF Ask, full
        <5> QED BY <4>1, <5>1
      <4> QED BY <4>3, <4>4
    <3>2. CASE AskFails(f)
      <4> DEFINE none == [keys |-> {}, etag |-> generation]
      <4>1. none \in [keys : SUBSET Nat, etag : Nat] /\ none.keys = {}
        BY <1>0
      <4>2. \E to \in {"failed", "body"} : fetcher' = [fetcher EXCEPT ![f].pc = to, ![f].answer = none]
        BY <3>2 DEF AskFails
      <4> HIDE DEF none
      <4> QED BY <4>1, <4>2
    <3> QED BY <1>4, <3>1, <3>2
  <2>3. Fetches'
    <3>1. \A x \in KeyFetchers : fetcher'[x] = IF x = f THEN [fetcher[f] EXCEPT !.pc = to, !.answer = answer] ELSE fetcher[x]
      BY <2>2 DEF Fetches
    <3>2. \A s : BrokerSet(s)' <=> BrokerSet(s)
      BY <2>1 DEF BrokerSet
    <3>3. fetcher' \in [KeyFetchers -> [pc : FetcherSteps, kid : Nat, exp : Nat, at : Nat, answer : [keys : SUBSET Nat, etag : Nat]]]
      BY <2>2 DEF Fetches, FetcherSteps
    <3>4. ASSUME NEW x \in KeyFetchers PROVE Fetching(fetcher[x])'
      <4>1. Fetching(fetcher[x])
        BY DEF Fetches
      <4>2. CASE x = f
        <5>1. /\ fetcher'[x].pc = to /\ fetcher'[x].answer = answer
              /\ fetcher'[x].at = fetcher[x].at /\ fetcher'[x].exp = fetcher[x].exp
          BY <3>1, <4>2 DEF Fetches
        <5> QED BY <2>1, <2>2, <3>2, <4>1, <5>1 DEF Fetching, FetcherSteps
      <4>3. CASE x # f
        BY <2>1, <3>1, <3>2, <4>1, <4>3 DEF Fetching
      <4> QED BY <4>2, <4>3
    <3> QED BY <3>3, <3>4 DEF Fetches
  <2> QED BY <2>1, <2>3 DEF sessionVars, Clocks, KeySets, BrokerSet, SessionKeys, Credentials
<1>5. ASSUME NEW f \in KeyFetchers, Apply(f) PROVE AuthInvariant'
  <2>1. /\ UNCHANGED <<generation, lastKid, sessionVars, authClock>>
        /\ lastAttempt' = fetcher[f].at
        /\ keySet' = Applied(f)
        /\ keyCache' \in {keyCache, keySet'}
        /\ keyCache' # keyCache => Succeeded(f)
        /\ cacheRead' = (cacheRead \/ Usable(f))
    BY <1>5 DEF Apply
  <2>2. BrokerSet(Applied(f)) /\ (keySet # EmptyKeys \/ Usable(f) => Applied(f) # EmptyKeys)
    <3>1. CASE Usable(f)
      BY <3>1 DEF Usable, Applied, Fetches, Fetching, EmptyKeys
    <3>2. CASE ~Usable(f)
      BY <3>2 DEF Applied, KeySets
    <3> QED BY <3>1, <3>2
  <2>3. \A s : BrokerSet(s)' <=> BrokerSet(s)
    BY <2>1 DEF BrokerSet
  <2>4. KeySets'
    BY <2>1, <2>2, <2>3 DEF KeySets
  <2>5. Fetches'
    <3>1. PICK to \in {"again", "idle"} : fetcher' = [fetcher EXCEPT ![f].pc = to, ![f].answer = EmptyKeys]
      BY <1>5 DEF Apply
    <3>2. EmptyKeys \in [keys : SUBSET Nat, etag : Nat]
      BY DEF EmptyKeys
    <3> QED BY <2>1, <2>3, <3>1, <3>2 DEF Fetches, Fetching, FetcherSteps
  <2>6. Clocks'
    BY <2>1 DEF Clocks, Fetches, Fetching
  <2> QED BY <2>1, <2>4, <2>5, <2>6 DEF sessionVars, SessionKeys, Credentials
<1>6. ASSUME NEW h \in Handlers, LookAgain(h) PROVE AuthInvariant'
  <2>1. fetcher[h].exp \in Nat
    BY DEF Fetches, KeyFetchers
  <2>2. Credentials'
    BY <1>6, <2>1, IssuedKeeps DEF LookAgain, Credentials
  <2>3. Fetches'
    <3>1. NotFetching \in [pc : FetcherSteps, kid : Nat, exp : Nat, at : Nat, answer : [keys : SUBSET Nat, etag : Nat]]
      BY DEF NotFetching, EmptyKeys, FetcherSteps
    <3>2. Fetching(NotFetching)
      BY <1>0 DEF Fetching, NotFetching, EmptyKeys, FetcherSteps
    <3>3. fetcher' = [fetcher EXCEPT ![h] = NotFetching] /\ UNCHANGED <<generation, authClock>> /\ h \in KeyFetchers
      BY <1>6 DEF LookAgain, KeyFetchers
    <3> QED BY ONLY AuthInvariant, <3>1, <3>2, <3>3, SlotKeeps
  <2> QED BY <1>6, <2>2, <2>3 DEF LookAgain, Clocks, KeySets, BrokerSet, SessionKeys
<1>7. ASSUME NEW found \in KeyFinds, NEW written \in BOOLEAN, NEW cache \in CacheFinds,
             AuthRestart(found, written, cache)
      PROVE  AuthInvariant'
  <2>1. Fetches'
    BY <1>0, <1>7 DEF AuthRestart, Fetches, Fetching, NotFetching, EmptyKeys, FetcherSteps, BrokerSet
  <2>2. SessionKeys'
    <3>1. Loaded(found) \in Nat
      BY DEF Loaded, SessionKeys
    <3>2. OpenSessions(found, written)
      BY <1>7 DEF AuthRestart
    <3>3. CASE found # "unreadable" /\ Loaded(found) # 0
      <4>1. sessionKey' = [key |-> Loaded(found), persisted |-> TRUE] /\ sessionKeyFile' = sessionKeyFile /\ nextKey' = nextKey
        BY <3>2, <3>3 DEF OpenSessions
      <4>2. Loaded(found) = sessionKeyFile
        BY <3>3 DEF Loaded
      <4> QED BY <3>1, <3>3, <4>1, <4>2 DEF SessionKeys
    <3>4. CASE ~(found # "unreadable" /\ Loaded(found) # 0)
      <4>1. PICK persisted \in BOOLEAN :
               /\ sessionKey' = [key |-> nextKey, persisted |-> persisted]
               /\ sessionKeyFile' = IF persisted THEN nextKey ELSE Loaded(found)
               /\ nextKey' = nextKey + 1
        BY <3>2, <3>4 DEF OpenSessions
      <4>2. nextKey \in Nat \ {0}
        BY DEF SessionKeys
      <4> QED BY <3>1, <4>1, <4>2 DEF SessionKeys
    <3> QED BY <3>3, <3>4
  <2>3. KeySets'
    <3>1. BrokerSet(EmptyKeys)
      BY DEF BrokerSet
    <3>2. \A s : BrokerSet(s)' <=> BrokerSet(s)
      BY <1>7 DEF AuthRestart, BrokerSet
    <3>3. /\ keySet' = IF cache = "read" THEN keyCache ELSE EmptyKeys
          /\ keyCache' = IF cache = "spoiled" THEN EmptyKeys ELSE keyCache
          /\ cacheRead' = (cache # "skipped")
      BY <1>7 DEF AuthRestart, LoadCache
    <3>4. BrokerSet(keySet') /\ BrokerSet(keyCache') /\ cacheRead' \in BOOLEAN
      BY <3>1, <3>3 DEF KeySets
    <3>5. keyCache' # EmptyKeys /\ cacheRead' => keySet' # EmptyKeys
      <4>1. CASE cache = "read"
        BY <3>3, <4>1
      <4>2. CASE cache = "skipped"
        BY <3>3, <4>2
      <4>3. CASE cache = "spoiled"
        BY <3>3, <4>3
      <4> QED BY <4>1, <4>2, <4>3 DEF CacheFinds
    <3> QED BY <3>2, <3>4, <3>5 DEF KeySets
  <2> QED BY <1>0, <1>7, <2>1, <2>2, <2>3 DEF AuthRestart, Clocks, Credentials
<1>8. CASE RotateKey
  <2>1. \A s : BrokerSet(s) => BrokerSet(s)'
    BY <1>0, <1>8 DEF RotateKey, BrokerSet
  <2>2. KeySets' /\ Fetches'
    BY <1>8, <2>1 DEF RotateKey, keyVars, KeySets, Fetches, Fetching
  <2> QED BY <1>0, <1>8, <2>2, AuthAssumption DEF RotateKey, keyVars, sessionVars, Clocks, SessionKeys, Credentials
<1>9. CASE AuthTick
  <2>1. Clocks' /\ Credentials'
    BY <1>9, AuthAssumption DEF AuthTick, keyVars, sessionVars, Clocks, Credentials
  <2>2. Fetches'
    BY <1>0, <1>9 DEF AuthTick, keyVars, Fetches, Fetching, BrokerSet
  <2> QED BY <1>9, <2>1, <2>2 DEF AuthTick, keyVars, sessionVars, KeySets, BrokerSet, SessionKeys
<1>10. CASE UNCHANGED authVars
  BY <1>10 DEF authVars, keyVars, sessionVars, Clocks, KeySets, BrokerSet, Fetches, Fetching, SessionKeys, Credentials
<1> QED BY <1>1, <1>2, <1>3, <1>4, <1>5, <1>6, <1>7, <1>8, <1>9, <1>10 DEF AuthNext

(* The keys in use are one set the broker published, under its etag, and   *)
(* there are some once a set was saved, unless the cache could not be used *)
(* at the start and nothing was fetched since; an accepted S3 credential   *)
(* never outlives its token; and a session key on disk keeps its           *)
(* credentials across restarts, in every process that could read it        *)
(* (auth.rs refresh, auth/s3.rs Sessions). For any number of handlers and  *)
(* rotations, and whatever order concurrent refreshes end in.              *)
THEOREM AuthSafe == AuthSpec => []AuthInv
PROOF
<1>1. AuthInit => AuthInvariant
  BY AuthInitInvariant
<1>2. AuthInvariant /\ [AuthNext]_authVars => AuthInvariant'
  BY AuthStep
<1>3. AuthInvariant => AuthInv
  BY AuthInvariantImplies
<1> QED BY <1>1, <1>2, <1>3, PTL DEF AuthSpec

-----------------------------------------------------------------------------
(* Restore. The difficulty is that a run reads what others change: objects *)
(* go from the bucket while it runs and bytes rot under it. The invariant  *)
(* keeps the report and the parts left apart, so that at the end each part *)
(* is in one bucket.                                                       *)

(* Files a restore may put in the store.                                   *)
RestoredFiles == [name : PartNames, dir : Layouts, bytes : Kinds \cup {"rotten"}]

(* Where a restore can be.                                                 *)
RestoreSteps == {"idle", "fetch", "verify", "templates", "sightings", "reverify", "done"}

(* The states of a restore.                                                *)
Restorings == [pc : RestoreSteps, left : SUBSET PartNames, layout : Layouts, reverify : BOOLEAN,
               listed : SUBSET PartNames, installed : SUBSET RestoredFiles, bad : BOOLEAN]

(* The parts the run has to account for: those it listed and those the     *)
(* inventory names.                                                        *)
Wanted == restoring.listed \cup inventory

(* The buckets of the report a part is in.                                 *)
ReportsOf(n) == {b \in Buckets : n \in outcome[b]}

(* The store restored into: one file per name and directory, each one      *)
(* verified when it was installed.                                         *)
TargetShape ==
    /\ tree \subseteq RestoredFiles /\ IsFiniteSet(tree)
    /\ \A f, g \in tree : Row(f) = Row(g) => f = g
    /\ fileRows \subseteq [name : PartNames, dir : Layouts] /\ IsFiniteSet(fileRows)
    /\ InstalledIsVerified

(* The run: it has bytes in hand while it verifies, and nothing left to    *)
(* fetch once it rebuilds.                                                 *)
RunShape ==
    /\ DOMAIN bucket \subseteq PartNames /\ \A n \in DOMAIN bucket : bucket[n] \in Kinds
    /\ inventory \subseteq PartNames
    /\ restoring \in Restorings /\ restoring.left \subseteq restoring.listed
    /\ outcome \in [Buckets -> SUBSET PartNames]
    /\ restoreTmp \in Kinds \cup {"none"}
    /\ restoring.pc = "verify" => restoreTmp \in Kinds /\ restoring.left # {}
    /\ restoring.pc \in {"templates", "sightings", "reverify", "done"} => restoring.left = {}

(* A part still to fetch is in no bucket of the report, every other one in *)
(* exactly one.                                                            *)
Reports ==
    restoring.pc # "idle" =>
        /\ \A n \in restoring.left : ReportsOf(n) = {}
        /\ \A n \in Wanted \ restoring.left : \E b \in Buckets : ReportsOf(n) = {b}
        /\ outcome["restored"] \subseteq Wanted

(* What has been restored is on disk; after the catalog is rebuilt it has  *)
(* a row, and after the sightings are replaced they name it.               *)
Rebuilt ==
    /\ restoring.pc # "idle" => \A n \in outcome["restored"] : \E f \in tree : f.name = n
    /\ restoring.pc \in {"templates", "sightings", "reverify", "done"} =>
          \A n \in outcome["restored"] : \E r \in fileRows : r.name = n
    /\ restoring.pc \in {"reverify", "done"} => sighted = outcome["restored"]
    /\ restoring.pc = "done" /\ restoring.reverify /\ ~restoring.bad => ~TotalsDiffer

(* The inductive invariant of Restore.                                     *)
RestoreInvariant == TargetShape /\ RunShape /\ Reports /\ Rebuilt

(* The part fetched next is one of those left.                             *)
LEMMA SmallestPart ==
    ASSUME NEW S \in SUBSET PartNames, S # {}
    PROVE  Min(S) \in S
PROOF
<1>1. S \in SUBSET Nat
  BY RestoreAssumption DEF PartNames
<1>2. PICK m \in S : \A y \in S : ~(<<y, m>> \in OpToRel(<, Nat))
  BY <1>1, NatLessThanWellFounded, WFMin
<1>3. \A y \in S : ~(y < m)
  BY <1>1, <1>2 DEF OpToRel
<1>4. \E x \in S : \A y \in S : x =< y
  BY <1>1, <1>3
<1> QED BY <1>4 DEF Min

(* The state between two runs is a state of a run.                         *)
LEMMA NotRestoringType == NotRestoring \in Restorings /\ NotRestoring.pc = "idle" /\ NotRestoring.left = {}
PROOF
<1>1. (CHOOSE l \in Layouts : TRUE) \in Layouts
  BY RestoreAssumption
<1> HIDE DEF PartNames, RestoredFiles
<1> QED BY <1>1 DEF NotRestoring, Restorings, RestoreSteps

(* An empty target satisfies the invariant.                                *)
LEMMA RestoreInitially == ASSUME RestoreInit PROVE RestoreInvariant
PROOF
<1>1. TargetShape
  <2>1. tree = {} /\ fileRows = {}
    BY DEF RestoreInit
  <2> QED BY <2>1, FS_EmptySet DEF TargetShape, InstalledIsVerified
<1>2. RunShape
  <2>1. restoring \in Restorings /\ restoring.pc = "idle" /\ restoring.left = {}
    BY NotRestoringType DEF RestoreInit
  <2>2. PICK s \in SUBSET PartNames : bucket \in [s -> Kinds]
    BY DEF RestoreInit
  <2>3. outcome \in [Buckets -> SUBSET PartNames] /\ inventory \subseteq PartNames /\ restoreTmp = "none"
    BY DEF RestoreInit, NoOutcome
  <2> QED BY <2>1, <2>2, <2>3 DEF RunShape
<1>3. Reports /\ Rebuilt
  BY NotRestoringType DEF RestoreInit, Reports, Rebuilt
<1> QED BY <1>1, <1>2, <1>3 DEF RestoreInvariant

(* Starting a restore (restore.rs, the checks before the first fetch)      *)
(* keeps it.                                                               *)
LEMMA RestoreStartKeeps ==
    ASSUME RestoreInvariant, NEW force \in BOOLEAN, NEW reverify \in BOOLEAN, NEW l \in Layouts,
           RestoreStarts(force, reverify, l)
    PROVE  RestoreInvariant'
PROOF
<1>1. /\ restoring' \in Restorings /\ restoring'.pc = "fetch"
      /\ restoring'.left = DOMAIN bucket /\ restoring'.listed = DOMAIN bucket
  BY NotRestoringType DEF RestoreStarts, ListedNames, RestoreInvariant, RunShape, Restorings, RestoreSteps
<1>2. outcome' = [NoOutcome EXCEPT !["missing"] = inventory \ DOMAIN bucket]
  BY DEF RestoreStarts, ListedNames
<1>3. UNCHANGED <<bucket, inventory, tree, fileRows, sighted, restoreTmp>>
  BY DEF RestoreStarts, targetVars
<1>4. TargetShape'
  BY <1>3 DEF RestoreInvariant, TargetShape, InstalledIsVerified, Row
<1>5. \A b \in Buckets : outcome'[b] = IF b = "missing" THEN inventory \ DOMAIN bucket ELSE {}
  BY <1>2 DEF NoOutcome, Buckets
<1>6. outcome' \in [Buckets -> SUBSET PartNames]
  BY <1>2 DEF NoOutcome, Buckets, RestoreInvariant, RunShape
<1>7. RunShape'
  BY <1>1, <1>3, <1>6 DEF RestoreInvariant, RunShape
<1>8. Reports'
  <2>1. \A n \in DOMAIN bucket : {b \in Buckets : n \in outcome'[b]} = {}
    BY <1>5
  <2>2. \A n \in inventory \ DOMAIN bucket : {b \in Buckets : n \in outcome'[b]} = {"missing"}
    BY <1>5 DEF Buckets
  <2>3. outcome'["restored"] = {} /\ "missing" \in Buckets
    BY <1>5 DEF Buckets
  <2> QED BY <1>1, <1>3, <2>1, <2>2, <2>3 DEF Reports, ReportsOf, Wanted
<1>9. Rebuilt'
  <2>1. outcome'["restored"] = {}
    BY <1>5 DEF Buckets
  <2> QED BY <1>1, <2>1 DEF Rebuilt
<1> QED BY <1>4, <1>7, <1>8, <1>9 DEF RestoreInvariant

(* Putting a part that was not restored in its bucket keeps it.            *)
LEMMA ReportKeeps ==
    ASSUME RestoreInvariant, restoring.pc \in {"fetch", "verify"}, restoring.left # {},
           NEW b \in Buckets \ {"restored"}, Reported(b),
           UNCHANGED <<bucket, inventory, tree, fileRows, sighted>>,
           restoreTmp' \in Kinds \cup {"none"}
    PROVE  RestoreInvariant'
PROOF
<1>1. PICK n : n = Current
  OBVIOUS
<1>2. restoring.left \in SUBSET PartNames /\ restoring \in Restorings /\ restoring.left \subseteq restoring.listed
  BY DEF RestoreInvariant, RunShape, Restorings
<1>3. n \in restoring.left /\ n \in PartNames
  BY <1>1, <1>2, SmallestPart DEF Current
<1>4. /\ restoring' \in Restorings /\ restoring'.pc = "fetch"
      /\ restoring'.left = restoring.left \ {n} /\ restoring'.listed = restoring.listed
  BY <1>1, <1>2 DEF Reported, Restorings, RestoreSteps
<1>5. outcome \in [Buckets -> SUBSET PartNames]
  BY DEF RestoreInvariant, RunShape
<1>6. outcome' = [outcome EXCEPT ![b] = @ \cup {n}]
  BY <1>1 DEF Reported
<1>7. outcome' \in [Buckets -> SUBSET PartNames]
  BY <1>3, <1>5, <1>6
<1>8. \A c \in Buckets : outcome'[c] = IF c = b THEN outcome[c] \cup {n} ELSE outcome[c]
  BY <1>5, <1>6
<1>9. TargetShape'
  BY DEF RestoreInvariant, TargetShape, InstalledIsVerified, Row
<1>10. RunShape'
  BY <1>2, <1>4, <1>7 DEF RestoreInvariant, RunShape
<1>11. outcome'["restored"] = outcome["restored"]
  BY <1>8 DEF Buckets
<1>12. Reports'
  <2> DEFINE after(m) == {c \in Buckets : m \in outcome'[c]}
  <2>1. \A m : m # n => after(m) = ReportsOf(m)
    BY <1>8 DEF ReportsOf
  <2>2. after(n) = {b}
    <3>1. ReportsOf(n) = {}
      BY <1>3 DEF RestoreInvariant, Reports
    <3> QED BY <3>1, <1>8 DEF ReportsOf
  <2>3. \A m \in restoring'.left : after(m) = {}
    BY <2>1, <1>4 DEF RestoreInvariant, Reports
  <2>4. \A m \in (restoring'.listed \cup inventory) \ restoring'.left : \E c \in Buckets : after(m) = {c}
    BY <2>1, <2>2, <1>4 DEF RestoreInvariant, Reports, Wanted
  <2>5. outcome["restored"] \subseteq restoring'.listed \cup inventory
    BY <1>4 DEF RestoreInvariant, Reports, Wanted
  <2> QED BY <2>3, <2>4, <2>5, <1>11 DEF Reports, ReportsOf, Wanted
<1>13. Rebuilt'
  <2>1. \A m \in outcome["restored"] : \E f \in tree : f.name = m
    BY DEF RestoreInvariant, Rebuilt
  <2> QED BY <2>1, <1>4, <1>11 DEF Rebuilt
<1> QED BY <1>9, <1>10, <1>12, <1>13 DEF RestoreInvariant

(* Fetching a part, or failing to, keeps it.                               *)
LEMMA FetchPartKeeps == ASSUME RestoreInvariant, FetchPart PROVE RestoreInvariant'
PROOF
<1>0. UNCHANGED <<bucket, inventory, tree, fileRows, sighted>> /\ restoring.pc = "fetch" /\ restoring.left # {}
  BY DEF FetchPart, targetVars
<1>1. CASE Current \in DOMAIN bucket /\ restoreTmp' = bucket[Current]
           /\ restoring' = [restoring EXCEPT !.pc = "verify"] /\ UNCHANGED outcome
  <2>1. restoreTmp' \in Kinds
    BY <1>1 DEF RestoreInvariant, RunShape
  <2>2. restoring \in Restorings /\ restoring.left # {}
    BY DEF RestoreInvariant, RunShape, FetchPart
  <2>3. restoring' \in Restorings /\ restoring'.pc = "verify"
        /\ restoring'.left = restoring.left /\ restoring'.listed = restoring.listed
    BY <1>1, <2>2 DEF Restorings, RestoreSteps
  <2>4. TargetShape'
    BY <1>0 DEF RestoreInvariant, TargetShape, InstalledIsVerified, Row
  <2>5. RunShape'
    BY <1>0, <1>1, <2>1, <2>2, <2>3 DEF RestoreInvariant, RunShape
  <2>6. Reports' /\ Rebuilt'
    BY <1>0, <1>1, <2>3 DEF RestoreInvariant, Reports, ReportsOf, Wanted, Rebuilt
  <2> QED BY <2>4, <2>5, <2>6 DEF RestoreInvariant
<1>2. CASE Reported("missing") /\ UNCHANGED restoreTmp
  BY <1>0, <1>2, ReportKeeps DEF Buckets, RestoreInvariant, RunShape
<1>3. CASE Reported("fetch_failed") /\ UNCHANGED restoreTmp
  BY <1>0, <1>3, ReportKeeps DEF Buckets, RestoreInvariant, RunShape
<1> QED BY <1>1, <1>2, <1>3 DEF FetchPart

(* Installing bytes that verified as whole keeps it.                       *)
LEMMA RestoreInstallKeeps ==
    ASSUME RestoreInvariant, VerifyPart, Problem(restoreTmp, Current) = "whole"
    PROVE  RestoreInvariant'
PROOF
<1>1. PICK n : n = Current
  OBVIOUS
<1>2. PICK file : file = Placed(Current, restoreTmp)
  OBVIOUS
<1>3. /\ restoring.left \in SUBSET PartNames /\ restoring \in Restorings /\ restoring.left # {}
      /\ restoring.left \subseteq restoring.listed /\ restoring.pc = "verify"
      /\ outcome \in [Buckets -> SUBSET PartNames] /\ restoreTmp \in Kinds
  BY DEF RestoreInvariant, RunShape, Restorings, VerifyPart
<1>4. n \in restoring.left /\ n \in PartNames
  BY <1>1, <1>3, SmallestPart DEF Current
<1>5. /\ outcome' = [outcome EXCEPT !["restored"] = @ \cup {n}]
      /\ tree' = Others(file) \cup {file}
      /\ restoring' = [restoring EXCEPT !.pc = "fetch", !.left = @ \ {n}, !.installed = @ \cup {file}]
      /\ restoreTmp' = "none" /\ UNCHANGED <<bucket, inventory, fileRows, sighted>>
  BY <1>1, <1>2 DEF VerifyPart
<1>6. file \in RestoredFiles /\ file.name = n /\ file.bytes = restoreTmp
  BY <1>1, <1>2, <1>3, <1>4 DEF Placed, RestoredFiles, Restorings
<1>7. restoreTmp = "whole" \/ (restoreTmp \in {"size", "rows"} /\ n \notin inventory)
  BY <1>1 DEF Problem
<1>8. TargetShape'
  <2>1. Others(file) \subseteq tree /\ \A f \in Others(file) : Row(f) # Row(file)
    BY DEF Others
  <2>2. IsFiniteSet(tree') /\ tree' \subseteq RestoredFiles
    BY <1>5, <1>6, <2>1, FS_Subset, FS_AddElement DEF RestoreInvariant, TargetShape
  <2>3. \A f, g \in tree' : Row(f) = Row(g) => f = g
    BY <1>5, <2>1 DEF RestoreInvariant, TargetShape
  <2>4. InstalledIsVerified'
    <3> SUFFICES ASSUME NEW f \in tree'
                 PROVE  f.bytes \in {"whole", "rotten"} \/ (f.bytes \in {"size", "rows"} /\ f.name \notin inventory)
      BY <1>5 DEF InstalledIsVerified
    <3>1. CASE f = file
      BY <3>1, <1>6, <1>7
    <3>2. CASE f \in tree
      BY <3>2 DEF RestoreInvariant, TargetShape, InstalledIsVerified
    <3> QED BY <3>1, <3>2, <1>5, <2>1
  <2> QED BY <2>2, <2>3, <2>4, <1>5 DEF RestoreInvariant, TargetShape, Row
<1>9. /\ restoring' \in Restorings /\ restoring'.pc = "fetch"
      /\ restoring'.left = restoring.left \ {n} /\ restoring'.listed = restoring.listed
  BY <1>3, <1>5, <1>6 DEF Restorings, RestoreSteps
<1>10. "restored" \in Buckets
  BY DEF Buckets
<1>11. /\ outcome' \in [Buckets -> SUBSET PartNames]
       /\ \A c \in Buckets : outcome'[c] = IF c = "restored" THEN outcome[c] \cup {n} ELSE outcome[c]
  BY <1>3, <1>4, <1>5, <1>10
<1>12. RunShape'
  BY <1>3, <1>5, <1>9, <1>11 DEF RestoreInvariant, RunShape
<1>13. Reports'
  <2> DEFINE after(m) == {c \in Buckets : m \in outcome'[c]}
  <2>1. \A m : m # n => after(m) = ReportsOf(m)
    BY <1>11 DEF ReportsOf
  <2>2. after(n) = {"restored"}
    <3>1. ReportsOf(n) = {}
      BY <1>3, <1>4 DEF RestoreInvariant, Reports
    <3> QED BY <3>1, <1>10, <1>11 DEF ReportsOf
  <2>3. \A m \in restoring'.left : after(m) = {}
    BY <2>1, <1>3, <1>9 DEF RestoreInvariant, Reports
  <2>4. \A m \in (restoring'.listed \cup inventory) \ restoring'.left : \E c \in Buckets : after(m) = {c}
    BY <2>1, <2>2, <1>3, <1>9, <1>10 DEF RestoreInvariant, Reports, Wanted
  <2>5. outcome'["restored"] \subseteq restoring'.listed \cup inventory
    BY <1>3, <1>4, <1>9, <1>10, <1>11 DEF RestoreInvariant, Reports, Wanted
  <2> QED BY <2>3, <2>4, <2>5, <1>5 DEF Reports, ReportsOf, Wanted
<1>14. Rebuilt'
  <2>1. \A m \in outcome'["restored"] : \E f \in tree' : f.name = m
    <3> SUFFICES ASSUME NEW m \in outcome'["restored"] PROVE \E f \in tree' : f.name = m
      OBVIOUS
    <3>1. CASE m = n
      BY <3>1, <1>5, <1>6
    <3>2. CASE m # n
      <4>1. PICK f \in tree : f.name = m
        BY <3>2, <1>3, <1>10, <1>11 DEF RestoreInvariant, Rebuilt
      <4>2. f \in Others(file)
        BY <4>1, <3>2, <1>6 DEF Others, Row
      <4> QED BY <4>1, <4>2, <1>5
    <3> QED BY <3>1, <3>2
  <2> QED BY <2>1, <1>9 DEF Rebuilt
<1> QED BY <1>8, <1>12, <1>13, <1>14 DEF RestoreInvariant

(* Verifying a part keeps it, whatever the verdict.                        *)
LEMMA VerifyKeeps == ASSUME RestoreInvariant, VerifyPart PROVE RestoreInvariant'
PROOF
<1> DEFINE problem == Problem(restoreTmp, Current)
<1>1. CASE problem = "whole"
  BY <1>1, RestoreInstallKeeps
<1>2. CASE problem # "whole"
  <2>1. Reported(problem) /\ UNCHANGED <<bucket, inventory, tree, fileRows, sighted>> /\ restoreTmp' = "none"
    BY <1>2 DEF VerifyPart
  <2>2. restoring.pc = "verify" /\ restoring.left # {} /\ restoreTmp \in Kinds
    BY DEF VerifyPart, RestoreInvariant, RunShape
  <2>3. problem \in Buckets \ {"restored"}
    BY <1>2, <2>2 DEF Problem, Kinds, Buckets
  <2> HIDE DEF problem
  <2> QED BY <2>1, <2>2, <2>3, ReportKeeps
<1> QED BY <1>1, <1>2

(* Rebuilding the catalog from the files keeps it.                         *)
LEMMA RebuildKeeps == ASSUME RestoreInvariant, RebuildFiles PROVE RestoreInvariant'
PROOF
<1>1. restoring \in Restorings /\ restoring.pc = "fetch" /\ restoring.left = {}
  BY DEF RebuildFiles, RestoreInvariant, RunShape
<1>2. /\ restoring' \in Restorings /\ restoring'.pc = "templates"
      /\ restoring'.left = restoring.left /\ restoring'.listed = restoring.listed
  BY <1>1 DEF RebuildFiles, Restorings, RestoreSteps
<1>3. fileRows' = {Row(f) : f \in tree} /\ UNCHANGED <<bucket, inventory, tree, sighted, restoreTmp, outcome>>
  BY DEF RebuildFiles
<1>4. TargetShape'
  <2>1. fileRows' \subseteq [name : PartNames, dir : Layouts]
    BY <1>3 DEF RestoreInvariant, TargetShape, RestoredFiles, Row
  <2>2. IsFiniteSet(fileRows')
    <3> DEFINE rowOf == [f \in tree |-> Row(f)]
    <3>1. rowOf \in Surjection(tree, fileRows')
      BY <1>3 DEF Surjection
    <3>2. IsFiniteSet(tree)
      BY DEF RestoreInvariant, TargetShape
    <3> HIDE DEF rowOf
    <3> QED BY <3>1, <3>2, FS_Surjection
  <2> QED BY <1>3, <2>1, <2>2 DEF RestoreInvariant, TargetShape, InstalledIsVerified, Row
<1>5. RunShape'
  BY <1>1, <1>2, <1>3 DEF RestoreInvariant, RunShape
<1>6. Reports'
  BY <1>1, <1>2, <1>3 DEF RestoreInvariant, Reports, ReportsOf, Wanted
<1>7. Rebuilt'
  <2>1. \A n \in outcome["restored"] : \E f \in tree : f.name = n
    BY <1>1 DEF RestoreInvariant, Rebuilt
  <2>2. ASSUME NEW n \in outcome["restored"] PROVE \E r \in fileRows' : r.name = n
    <3>1. PICK f \in tree : f.name = n
      BY <2>1
    <3>2. Row(f) \in fileRows' /\ Row(f).name = n
      BY <3>1, <1>3 DEF Row
    <3> QED BY <3>2
  <2> QED BY <2>1, <2>2, <1>2, <1>3 DEF Rebuilt
<1> QED BY <1>4, <1>5, <1>6, <1>7 DEF RestoreInvariant

(* The steps after the catalog is rebuilt, and a crash, keep it.           *)
LEMMA LaterKeeps ==
    ASSUME RestoreInvariant, RestoreTemplates \/ ReplaceSightings \/ Reverify \/ RestoreReturns \/ RestoreCrash
    PROVE  RestoreInvariant'
PROOF
<1>0. restoring \in Restorings
  BY DEF RestoreInvariant, RunShape
<1>1. UNCHANGED <<bucket, inventory, tree, fileRows, outcome>>
  BY DEF RestoreTemplates, ReplaceSightings, Reverify, RestoreReturns, RestoreCrash, targetVars
<1>2. TargetShape'
  BY <1>1 DEF RestoreInvariant, TargetShape, InstalledIsVerified, Row
<1>3. CASE RestoreReturns \/ RestoreCrash
  <2>1. restoring' = NotRestoring /\ restoreTmp' \in {restoreTmp, "none"}
    BY <1>3 DEF RestoreReturns, RestoreCrash
  <2>2. restoring' \in Restorings /\ restoring'.pc = "idle" /\ restoring'.left = {}
    BY <2>1, NotRestoringType
  <2>3. RunShape'
    BY <2>1, <2>2, <1>1 DEF RestoreInvariant, RunShape
  <2>4. Reports' /\ Rebuilt'
    BY <2>2 DEF Reports, Rebuilt
  <2> QED BY <1>2, <2>3, <2>4 DEF RestoreInvariant
<1>4. CASE RestoreTemplates
  <2>1. restoring.pc = "templates" /\ UNCHANGED <<sighted, restoreTmp>>
        /\ restoring' = [restoring EXCEPT !.pc = "sightings"]
    BY <1>4 DEF RestoreTemplates
  <2>2. /\ restoring' \in Restorings /\ restoring'.pc = "sightings"
        /\ restoring'.left = restoring.left /\ restoring'.listed = restoring.listed
    BY <1>0, <2>1 DEF Restorings, RestoreSteps
  <2>3. RunShape'
    BY <2>1, <2>2, <1>1 DEF RestoreInvariant, RunShape
  <2>4. Reports' /\ Rebuilt'
    BY <2>1, <2>2, <1>1 DEF RestoreInvariant, Reports, ReportsOf, Wanted, Rebuilt
  <2> QED BY <1>2, <2>3, <2>4 DEF RestoreInvariant
<1>5. CASE ReplaceSightings
  <2>1. restoring.pc = "sightings" /\ UNCHANGED restoreTmp /\ sighted' = outcome["restored"]
        /\ restoring' = [restoring EXCEPT !.pc = IF restoring.reverify THEN "reverify" ELSE "done"]
    BY <1>5 DEF ReplaceSightings
  <2>2. /\ restoring' \in Restorings /\ restoring'.pc = IF restoring.reverify THEN "reverify" ELSE "done"
        /\ restoring'.left = restoring.left /\ restoring'.listed = restoring.listed
        /\ restoring'.reverify = restoring.reverify
    BY <1>0, <2>1 DEF Restorings, RestoreSteps
  <2>3. RunShape'
    BY <2>1, <2>2, <1>1 DEF RestoreInvariant, RunShape
  <2>4. Reports' /\ Rebuilt'
    BY <2>1, <2>2, <1>1 DEF RestoreInvariant, Reports, ReportsOf, Wanted, Rebuilt
  <2> QED BY <1>2, <2>3, <2>4 DEF RestoreInvariant
<1>6. CASE Reverify
  <2> DEFINE bad == TotalsDiffer \/ ~(restoring.installed \subseteq tree)
  <2>1. restoring.pc = "reverify" /\ UNCHANGED <<sighted, restoreTmp>>
        /\ restoring' = [restoring EXCEPT !.pc = "done", !.bad = bad]
    BY <1>6 DEF Reverify, targetVars
  <2>2. bad \in BOOLEAN
    OBVIOUS
  <2> HIDE DEF bad
  <2>3. /\ restoring' \in Restorings /\ restoring'.pc = "done" /\ restoring'.bad = bad
        /\ restoring'.left = restoring.left /\ restoring'.listed = restoring.listed
    BY <1>0, <2>1, <2>2 DEF Restorings, RestoreSteps
  <2>4. RunShape'
    BY <2>1, <2>3, <1>1 DEF RestoreInvariant, RunShape
  <2>5. Reports'
    BY <2>1, <2>3, <1>1 DEF RestoreInvariant, Reports, ReportsOf, Wanted
  <2>6. ~restoring'.bad => ~TotalsDiffer'
    BY <2>3, <1>1 DEF bad, TotalsDiffer
  <2>7. Rebuilt'
    BY <2>1, <2>3, <2>6, <1>1 DEF RestoreInvariant, Rebuilt
  <2> QED BY <1>2, <2>4, <2>5, <2>7 DEF RestoreInvariant
<1> QED BY <1>3, <1>4, <1>5, <1>6

(* An object deleted from the bucket during the run keeps it.              *)
LEMMA OutsideKeeps ==
    ASSUME RestoreInvariant,
           (\E n \in PartNames : ObjectDeleted(n)) \/ UNCHANGED restoreVars
    PROVE  RestoreInvariant'
PROOF
<1>1. UNCHANGED <<inventory, tree, fileRows, sighted, restoreTmp, restoring, outcome>>
  BY DEF ObjectDeleted, restoreVars, targetVars
<1>2. DOMAIN bucket' \subseteq DOMAIN bucket /\ \A n \in DOMAIN bucket' : bucket'[n] = bucket[n]
  BY DEF ObjectDeleted, restoreVars
<1>3. TargetShape'
  BY <1>1 DEF RestoreInvariant, TargetShape, InstalledIsVerified, Row
<1>4. RunShape'
  BY <1>1, <1>2 DEF RestoreInvariant, RunShape
<1>5. Reports' /\ Rebuilt'
  BY <1>1 DEF RestoreInvariant, Reports, ReportsOf, Wanted, Rebuilt, TotalsDiffer
<1> QED BY <1>3, <1>4, <1>5 DEF RestoreInvariant

(* Bytes that rot on the disk of the target keep it.                       *)
LEMMA RotKeeps == ASSUME RestoreInvariant, NEW f \in tree, FileRots(f) PROVE RestoreInvariant'
PROOF
<1>1. UNCHANGED <<bucket, inventory, fileRows, sighted, restoreTmp, restoring, outcome>>
  BY DEF FileRots
<1>2. PICK rotten : rotten = [f EXCEPT !.bytes = "rotten"]
  OBVIOUS
<1>3. tree' = (tree \ {f}) \cup {rotten}
  BY <1>2 DEF FileRots
<1>4. f \in RestoredFiles
  BY DEF RestoreInvariant, TargetShape
<1>5. rotten \in RestoredFiles /\ Row(rotten) = Row(f) /\ rotten.name = f.name /\ rotten.bytes = "rotten"
  BY <1>2, <1>4 DEF RestoredFiles, Row
<1>6. TargetShape'
  <2>1. IsFiniteSet(tree') /\ tree' \subseteq RestoredFiles
    BY <1>3, <1>5, FS_RemoveElement, FS_AddElement DEF RestoreInvariant, TargetShape
  <2>2. \A g, h \in tree' : Row(g) = Row(h) => g = h
    BY <1>3, <1>5 DEF RestoreInvariant, TargetShape
  <2>3. InstalledIsVerified'
    BY <1>1, <1>3, <1>5 DEF InstalledIsVerified, RestoreInvariant, TargetShape
  <2> QED BY <2>1, <2>2, <2>3, <1>1 DEF RestoreInvariant, TargetShape, Row
<1>7. RunShape'
  BY <1>1 DEF RestoreInvariant, RunShape
<1>8. Reports'
  BY <1>1 DEF RestoreInvariant, Reports, ReportsOf, Wanted
<1>9. Rebuilt'
  <2>1. ASSUME restoring.pc # "idle", NEW n \in outcome["restored"] PROVE \E g \in tree' : g.name = n
    <3>1. PICK g \in tree : g.name = n
      BY <2>1 DEF RestoreInvariant, Rebuilt
    <3> QED BY <3>1, <1>3, <1>5
  <2> QED BY <2>1, <1>1 DEF RestoreInvariant, Rebuilt, TotalsDiffer
<1> QED BY <1>6, <1>7, <1>8, <1>9 DEF RestoreInvariant

(* When no part failed, everything wanted is restored.                     *)
LEMMA RestoredAll ==
    ASSUME RestoreInvariant, restoring.pc = "done", Tried = {}
    PROVE  outcome["restored"] = Wanted
PROOF
<1>1. restoring.left = {} /\ outcome["restored"] \subseteq Wanted
  BY DEF RestoreInvariant, RunShape, Reports
<1>2. ASSUME NEW n \in Wanted PROVE n \in outcome["restored"]
  <2>1. PICK b \in Buckets : ReportsOf(n) = {b}
    BY <1>1 DEF RestoreInvariant, Reports
  <2>2. n \in outcome[b]
    BY <2>1 DEF ReportsOf
  <2>3. b = "restored"
    BY <2>1, <2>2 DEF Tried, Buckets
  <2> QED BY <2>2, <2>3
<1> QED BY <1>1, <1>2

(* The inductive invariant gives the one the runs check.                   *)
LEMMA RestoreImplies == RestoreInvariant => RestoreInv
PROOF
<1> SUFFICES ASSUME RestoreInvariant PROVE RestoreInv
  OBVIOUS
<1>1. RestoreTypeOK
  BY DEF RestoreInvariant, TargetShape, RunShape, RestoreTypeOK
<1>2. InstalledIsVerified
  BY DEF RestoreInvariant, TargetShape
<1>3. EveryPartReported
  <2> SUFFICES ASSUME restoring.pc = "done", NEW n \in Wanted
               PROVE  Cardinality(ReportsOf(n)) = 1
    BY DEF EveryPartReported, Wanted, ReportsOf
  <2>1. PICK b \in Buckets : ReportsOf(n) = {b}
    BY DEF RestoreInvariant, Reports, RunShape
  <2> QED BY <2>1, FS_Singleton
<1>4. OkIsComplete
  <2> DEFINE named == {r.name : r \in fileRows}
  <2> SUFFICES ASSUME restoring.pc = "done", ReportOk
               PROVE  /\ Wanted \subseteq named /\ sighted = Wanted
                      /\ restoring.reverify => named = Wanted /\ Cardinality(fileRows) = Cardinality(Wanted)
    BY DEF OkIsComplete, Wanted
  <2>1. outcome["restored"] = Wanted
    BY RestoredAll DEF ReportOk
  <2>2. Wanted \subseteq named /\ sighted = Wanted
    BY <2>1 DEF RestoreInvariant, Rebuilt
  <2>3. ASSUME restoring.reverify
        PROVE  named = Wanted /\ Cardinality(fileRows) = Cardinality(Wanted)
    <3>1. Cardinality(fileRows) = Cardinality(Wanted)
      BY <2>1, <2>3 DEF RestoreInvariant, Rebuilt, ReportOk, TotalsDiffer
    <3>2. IsFiniteSet(fileRows)
      BY DEF RestoreInvariant, TargetShape
    <3> DEFINE nameOf == [r \in fileRows |-> r.name]
    <3>3. nameOf \in Surjection(fileRows, named)
      BY DEF Surjection
    <3> HIDE DEF nameOf, named
    <3>4. IsFiniteSet(named) /\ Cardinality(named) <= Cardinality(fileRows)
      BY <3>2, <3>3, FS_Surjection
    <3>5. Cardinality(Wanted) <= Cardinality(named) /\ (Cardinality(named) = Cardinality(Wanted) => named = Wanted)
      BY <2>2, <3>4, FS_Subset
    <3>6. Cardinality(named) \in Nat /\ Cardinality(fileRows) \in Nat
      BY <3>2, <3>4, FS_CardinalityType
    <3> QED BY <3>1, <3>4, <3>5, <3>6
  <2> QED BY <2>2, <2>3
<1> QED BY <1>1, <1>2, <1>3, <1>4 DEF RestoreInv

(* RestoreInv for every set of parts and of layouts: a file of the target  *)
(* is one that verified, every part is in one bucket of the report, and a  *)
(* run that says all is well has everything that was listed, with a        *)
(* catalog row and a sighting each.                                        *)
THEOREM RestoreSafe == RestoreSpec => []RestoreInv
PROOF
<1>1. RestoreInit => RestoreInvariant
  BY RestoreInitially
<1>2. RestoreInvariant /\ [RestoreNext]_restoreVars => RestoreInvariant'
  BY RestoreStartKeeps, FetchPartKeeps, VerifyKeeps, RebuildKeeps, LaterKeeps, OutsideKeeps, RotKeeps
     DEF RestoreNext
<1>3. RestoreInvariant => RestoreInv
  BY RestoreImplies
<1> QED BY <1>1, <1>2, <1>3, PTL DEF RestoreSpec

-----------------------------------------------------------------------------
(* Replicate. The difficulty is the page: the replica asks for the keys    *)
(* after the last one it saw while the source adds and drops keys. The     *)
(* invariant says of every key the source has listed throughout that it is *)
(* dealt with, on the page in hand, or beyond its end, and the lemmas on   *)
(* Page say why no such key falls between two pages.                       *)

(* Every nonempty set of numbers has a least element.                      *)
LEMMA LeastOf ==
    ASSUME NEW S \in SUBSET Nat, S # {}
    PROVE  \E m \in S : \A i \in S : m <= i
PROOF
<1>1. PICK m \in S : \A y \in S : ~(<<y, m>> \in OpToRel(<, Nat))
  BY NatLessThanWellFounded, WFMin
<1>2. \A y \in S : ~(y < m)
  BY <1>1 DEF OpToRel
<1> QED BY <1>2

(* How many of a set of keys are up to one of them.                        *)
RankIn(S, k) == Cardinality({j \in S : j <= k})

(* Ranks are numbers up to the size of the set, and grow with the key.     *)
LEMMA RankGrows ==
    ASSUME NEW S \in SUBSET Keys, NEW a \in S, NEW b \in S
    PROVE  /\ RankIn(S, a) \in 1 .. Cardinality(S)
           /\ a < b => RankIn(S, a) < RankIn(S, b)
PROOF
<1> DEFINE upto(k) == {j \in S : j <= k}
<1>1. IsFiniteSet(S) /\ S \subseteq Nat
  <2>1. IsFiniteSet(1 .. MaxKey)
    BY ReplicateAssumption, FS_Interval
  <2>2. S \in SUBSET (1 .. MaxKey) /\ S \subseteq Nat
    BY ReplicateAssumption DEF Keys
  <2>3. IsFiniteSet(S)
    BY <2>1, <2>2, FS_Subset
  <2> QED BY <2>2, <2>3
<1>2. \A k \in S : upto(k) \subseteq S /\ k \in upto(k)
  BY <1>1
<1>3. \A k \in S : IsFiniteSet(upto(k)) /\ Cardinality(upto(k)) \in Nat /\ Cardinality(upto(k)) <= Cardinality(S)
  <2> TAKE k \in S
  <2>1. IsFiniteSet(upto(k)) /\ Cardinality(upto(k)) <= Cardinality(S)
    BY <1>1, <1>2, FS_Subset
  <2> QED BY <2>1, FS_CardinalityType
<1>4. Cardinality(S) \in Nat
  BY <1>1, FS_CardinalityType
<1>5. Cardinality(upto(a)) # 0
  <2>1. upto(a) # {}
    BY <1>2
  <2> HIDE DEF upto
  <2> QED BY <1>3, <2>1, FS_EmptySet
<1>6. ASSUME a < b PROVE Cardinality(upto(a)) < Cardinality(upto(b))
  <2>1. upto(a) \subseteq upto(b) /\ b \in upto(b) /\ b \notin upto(a)
    <3>1. a \in Nat /\ b \in Nat /\ \A j \in S : j \in Nat
      BY <1>1
    <3>2. \A j \in S : j <= a => j <= b
      BY <3>1, <1>6
    <3>3. b <= b /\ ~(b <= a)
      BY <3>1, <1>6
    <3> QED BY <3>2, <3>3
  <2> HIDE DEF upto
  <2>2. Cardinality(upto(a)) <= Cardinality(upto(b)) /\ Cardinality(upto(b)) # Cardinality(upto(a))
    BY <1>3, <2>1, FS_Subset
  <2> QED BY <1>3, <2>2
<1>7. RankIn(S, a) = Cardinality(upto(a)) /\ RankIn(S, b) = Cardinality(upto(b))
  BY DEF RankIn
<1> HIDE DEF upto
<1> QED BY <1>3, <1>4, <1>5, <1>6, <1>7

(* There is a key of every rank.                                           *)
LEMMA RankReached ==
    ASSUME NEW S \in SUBSET Keys, NEW k \in 1 .. Cardinality(S)
    PROVE  \E i \in S : RankIn(S, i) = k
PROOF
<1> DEFINE upto(i) == {j \in S : j <= i}
           size(i) == Cardinality(upto(i))
           C == {i \in 0 .. MaxKey : k <= size(i)}
<1>0. MaxKey \in Nat /\ \A j \in S : j \in Nat /\ 1 <= j /\ j <= MaxKey
  BY ReplicateAssumption DEF Keys
<1>1. ASSUME NEW i \in 0 .. MaxKey PROVE IsFiniteSet(upto(i)) /\ size(i) \in Nat
  <2>1. IsFiniteSet(1 .. MaxKey)
    BY <1>0, FS_Interval
  <2>2. upto(i) \subseteq 1 .. MaxKey
    BY <1>0
  <2> QED BY <2>1, <2>2, FS_Subset, FS_CardinalityType
<1>2. upto(MaxKey) = S
  BY <1>0
<1>3. size(0) = 0
  <2>1. upto(0) = {}
    BY <1>0
  <2> QED BY <2>1, FS_EmptySet
<1>4. size(MaxKey) \in Nat /\ k \in Nat /\ 1 <= k /\ k <= size(MaxKey)
  <2>1. size(MaxKey) = Cardinality(S) /\ size(MaxKey) \in Nat
    BY <1>0, <1>1, <1>2
  <2> HIDE DEF size
  <2> QED BY <2>1
<1>5. ASSUME NEW i \in 1 .. MaxKey, i \notin S PROVE upto(i) = upto(i - 1)
  BY <1>0, <1>5
<1>6. ASSUME NEW i \in 1 .. MaxKey, i \in S PROVE upto(i) = upto(i - 1) \cup {i} /\ i \notin upto(i - 1)
  <2>1. i \notin upto(i - 1)
    BY <1>6
  <2>2. \A j \in S : j <= i <=> j <= i - 1 \/ j = i
    BY <1>0, <1>6
  <2> QED BY <1>6, <2>1, <2>2
<1>7. ASSUME NEW i \in 1 .. MaxKey, i \in S PROVE size(i) = size(i - 1) + 1
  <2>1. IsFiniteSet(upto(i - 1)) /\ i - 1 \in 0 .. MaxKey
    BY <1>0, <1>1
  <2> HIDE DEF upto
  <2> QED BY <1>6, <1>7, <2>1, FS_AddElement
<1>8. ASSUME NEW i \in 1 .. MaxKey, i \notin S PROVE size(i) = size(i - 1)
  BY <1>5, <1>8
<1>9. \A i \in 0 .. MaxKey : size(i) \in Nat
  BY <1>1
<1> HIDE DEF size
<1>10. PICK m \in C : \A i \in C : m <= i
  <2>1. C \in SUBSET Nat /\ MaxKey \in C
    BY <1>0, <1>4
  <2> HIDE DEF C
  <2> QED BY <2>1, LeastOf
<1>11. m \in 1 .. MaxKey /\ m - 1 \in 0 .. MaxKey /\ size(m - 1) < k /\ k <= size(m)
  <2>1. m \in 0 .. MaxKey /\ k <= size(m) /\ m # 0
    BY <1>3, <1>4
  <2>2. m - 1 \in 0 .. MaxKey /\ m - 1 \notin C
    BY <1>0, <1>10, <2>1
  <2> QED BY <1>0, <1>9, <2>1, <2>2, <1>4
<1>12. m \in S /\ size(m) = k
  BY <1>4, <1>7, <1>8, <1>9, <1>11
<1> QED BY <1>12 DEF size, RankIn

(* A page lists keys the source has, and whatever the source has after the *)
(* key given is on the page, or past the last of a page that is full.      *)
LEMMA PageMeans ==
    ASSUME source \subseteq Keys, NEW after \in Nat
    PROVE  /\ Page(after) \in Seq(Keys)
           /\ \A k \in source : k > after =>
                 \/ \E i \in DOMAIN Page(after) : Page(after)[i] = k
                 \/ More(Page(after)) /\ Page(after) # <<>> /\ k > Page(after)[Len(Page(after))]
PROOF
<1> DEFINE rest == {k \in source : k > after}
           n == Min({PAGE_SIZE, Cardinality(rest)})
           at(i) == CHOOSE k \in rest : RankIn(rest, k) = i
           page == [i \in 1 .. n |-> at(i)]
<1>1. rest \in SUBSET Keys /\ Keys \subseteq Nat
  <2>1. Keys \subseteq Nat
    BY ReplicateAssumption DEF Keys
  <2>2. rest \subseteq source
    OBVIOUS
  <2> QED BY <2>1, <2>2
<1>2. Page(after) = page
  BY DEF Page, RankIn
<1>3. Cardinality(rest) \in Nat
  <2>1. IsFiniteSet(1 .. MaxKey)
    BY ReplicateAssumption, FS_Interval
  <2> HIDE DEF rest
  <2> QED BY <1>1, <2>1, FS_Subset, FS_CardinalityType DEF Keys
<1>4. n \in Nat /\ n <= Cardinality(rest) /\ (n = PAGE_SIZE \/ n = Cardinality(rest)) /\ n <= PAGE_SIZE
  <2> HIDE DEF rest
  <2>1. \E x \in {PAGE_SIZE, Cardinality(rest)} : \A y \in {PAGE_SIZE, Cardinality(rest)} : x =< y
    BY <1>3, ReplicateAssumption
  <2>2. n \in {PAGE_SIZE, Cardinality(rest)} /\ \A y \in {PAGE_SIZE, Cardinality(rest)} : n =< y
    BY <2>1 DEF Min
  <2> HIDE DEF n
  <2> QED BY <2>2, <1>3, ReplicateAssumption
<1>5. \A i \in 1 .. n : at(i) \in rest /\ RankIn(rest, at(i)) = i
  <2> TAKE i \in 1 .. n
  <2> HIDE DEF rest, n
  <2>1. i \in 1 .. Cardinality(rest)
    BY <1>3, <1>4
  <2>2. \E k \in rest : RankIn(rest, k) = i
    BY <1>1, <2>1, RankReached
  <2> QED BY <2>2
<1>6. page \in Seq(Keys) /\ Len(page) = n /\ DOMAIN page = 1 .. n /\ \A i \in 1 .. n : page[i] = at(i)
  <2>1. \A i \in 1 .. n : at(i) \in Keys
    BY <1>1, <1>5
  <2> HIDE DEF rest, n, at
  <2>2. page \in [1 .. n -> Keys]
    BY <2>1
  <2>3. page \in Seq(Keys) /\ Len(page) = n /\ DOMAIN page = 1 .. n
    BY <1>4, <2>2
  <2> QED BY <2>3
<1>7. ASSUME NEW k \in source, k > after
      PROVE  (\E i \in DOMAIN page : page[i] = k) \/ (More(page) /\ page # <<>> /\ k > page[Len(page)])
  <2>0. k \in rest /\ k \in Nat
    BY <1>1, <1>7
  <2> HIDE DEF rest, n, at, page
  <2>1. RankIn(rest, k) \in 1 .. Cardinality(rest)
    BY <1>1, <2>0, RankGrows
  <2>2. CASE RankIn(rest, k) <= n
    <3>1. RankIn(rest, k) \in 1 .. n
      BY <2>1, <2>2, <1>3, <1>4
    <3>2. PICK i \in 1 .. n : i = RankIn(rest, k)
      BY <3>1
    <3>3. at(i) \in rest /\ RankIn(rest, at(i)) = RankIn(rest, k) /\ at(i) \in Nat /\ RankIn(rest, k) \in Nat
      <4>1. at(i) \in rest /\ RankIn(rest, at(i)) = i
        BY <1>5
      <4>2. i \in Nat
        BY <1>4
      <4> QED BY <1>1, <3>2, <4>1, <4>2
    <3>4. ~(at(i) < k) /\ ~(k < at(i))
      BY <1>1, <2>0, <3>3, RankGrows
    <3>5. at(i) = k
      BY <2>0, <3>3, <3>4
    <3> QED BY <1>6, <3>5
  <2>3. CASE n < RankIn(rest, k)
    <3>1. n = PAGE_SIZE /\ n \in 1 .. n
      BY <2>1, <2>3, <1>3, <1>4, ReplicateAssumption
    <3>2. at(n) \in rest /\ RankIn(rest, at(n)) = n /\ at(n) \in Nat
      BY <1>1, <1>5, <3>1
    <3>3. RankIn(rest, at(n)) < RankIn(rest, k) /\ RankIn(rest, k) \in Nat
      BY <2>1, <2>3, <3>2
    <3>4. at(n) # k /\ ~(k < at(n))
      BY <1>1, <1>4, <2>0, <3>2, <3>3, RankGrows
    <3>5. k > at(n)
      BY <2>0, <3>2, <3>4
    <3>6. page # <<>>
      BY <1>6, <3>1
    <3> QED BY <1>6, <3>1, <3>5, <3>6 DEF More
  <2> QED BY <2>1, <2>2, <2>3, <1>3, <1>4
<1> HIDE DEF page
<1> QED BY <1>2, <1>6, <1>7

(* Where a run of the replica can be.                                      *)
ReplicateSteps == {"idle", "page", "entry", "adopt", "fetch", "digest", "record"}

(* The states of a run.                                                    *)
ReplicaRuns == [pc : ReplicateSteps, after : Nat, window : SUBSET Keys, page : Seq(Keys),
                more : BOOLEAN, tries : 0 .. 2]

(* The reports of a run.                                                   *)
ReplicaReports == [present : Nat, adopted : Nat, fetched : Nat, unusable : Nat, complete : BOOLEAN]

(* The run has a page of entries in hand.                                  *)
OnPage == run.pc \in {"entry", "adopt", "fetch", "digest", "record"}

(* The run is at another step of the same entry.                           *)
StaysOn(step) ==
    /\ run' \in ReplicaRuns /\ run'.pc = step /\ run'.page = run.page /\ run'.after = run.after
    /\ run'.window = run.window /\ run'.more = run.more

(* What the replica has.                                                   *)
ReplicaKept ==
    /\ source \subseteq Keys /\ steady \subseteq source
    /\ replicaRows \subseteq DOMAIN copies /\ DOMAIN copies \subseteq Keys
    /\ \A k \in DOMAIN copies : copies[k] = Whole
    /\ tmp \in [Keys -> Seq(Nat)] /\ \A k \in Keys : Len(tmp[k]) <= PART_LEN

(* The run.                                                                *)
RunKept ==
    /\ run \in ReplicaRuns /\ run.window \subseteq replicaRows
    /\ hashed \in Seq(Nat)
    /\ report \in ReplicaReports
    /\ run.pc \in {"adopt", "fetch", "digest", "record"} => run.page # <<>>
    /\ run.pc \in {"fetch", "digest"} => hashed = tmp[Key]
    /\ run.pc \in {"adopt", "record"} => Key \in DOMAIN copies

(* The keys the run has dealt with.                                        *)
DealtWith == replicaRows \cup refused

(* The last key of the page in hand.                                       *)
PageEnd == IF run.page = <<>> THEN run.after ELSE run.page[Len(run.page)]

(* What the source has listed throughout is dealt with, on the page in     *)
(* hand, or still to be asked for.                                         *)
Covering ==
    /\ run.pc = "page" => \A k \in steady : k \in DealtWith \/ k > run.after
    /\ OnPage => \A k \in steady :
          \/ k \in DealtWith
          \/ \E i \in DOMAIN run.page : run.page[i] = k
          \/ run.more /\ k > PageEnd
    /\ report.complete => run.pc = "idle" /\ steady \subseteq DealtWith

(* The inductive invariant of Replicate.                                   *)
ReplicateInvariant == ReplicaKept /\ RunKept /\ Covering

(* The state between two runs is a state of a run.                         *)
LEMMA NoRunType == NoRun \in ReplicaRuns /\ NoRun.pc = "idle" /\ NoRun.window = {} /\ NoRun.after = 0
PROOF
<1>1. <<>> \in Seq(Keys) /\ 0 \in 0 .. 2 /\ {} \in SUBSET Keys
  OBVIOUS
<1> QED BY <1>1 DEF NoRun, ReplicaRuns, ReplicateSteps

(* A replica that has nothing satisfies the invariant.                     *)
LEMMA ReplicateInitially == ASSUME ReplicateInit PROVE ReplicateInvariant
PROOF
<1>1. ReplicaKept
  <2>1. <<>> \in Seq(Nat) /\ Len(<<>>) <= PART_LEN
    BY ReplicateAssumption
  <2>2. tmp \in [Keys -> Seq(Nat)] /\ \A k \in Keys : Len(tmp[k]) <= PART_LEN
    BY <2>1 DEF ReplicateInit
  <2>3. DOMAIN copies = {}
    BY DEF ReplicateInit
  <2> QED BY <2>2, <2>3 DEF ReplicateInit, ReplicaKept
<1>2. RunKept
  BY NoRunType DEF ReplicateInit, RunKept, ReplicaReports, NoReport
<1>3. Covering
  BY NoRunType DEF ReplicateInit, Covering, OnPage, NoReport
<1> QED BY <1>1, <1>2, <1>3 DEF ReplicateInvariant

(* The run goes on to the next entry once its key is dealt with.           *)
LEMMA NextEntry ==
    ASSUME ReplicateInvariant, OnPage, run.page # <<>>, run' = Next1(run),
           UNCHANGED <<source, copies, steady>>,
           replicaRows \subseteq replicaRows', replicaRows' \subseteq DOMAIN copies, refused \subseteq refused',
           Key \in DealtWith',
           hashed' \in Seq(Nat), report' \in ReplicaReports, report'.complete = report.complete,
           tmp' \in [Keys -> Seq(Nat)], \A k \in Keys : Len(tmp'[k]) <= PART_LEN
    PROVE  ReplicateInvariant'
PROOF
<1>1. PICK key : key = Key
  OBVIOUS
<1>2. run \in ReplicaRuns /\ run.page \in Seq(Keys) /\ run.more \in BOOLEAN
  BY DEF ReplicateInvariant, RunKept, ReplicaRuns
<1>3. key \in Nat /\ Tail(run.page) \in Seq(Keys) /\ key = run.page[1]
  <2>1. Tail(run.page) \in Seq(Keys) /\ key = run.page[1] /\ run.page[1] \in Keys
    BY <1>1, <1>2 DEF Key
  <2> QED BY <2>1, ReplicateAssumption DEF Keys
<1>4. /\ run' \in ReplicaRuns /\ run'.pc = "entry" /\ run'.page = Tail(run.page) /\ run'.after = key
      /\ run'.window = run.window /\ run'.more = run.more
  <2>1. run' = [run EXCEPT !.page = Tail(@), !.after = key, !.pc = "entry", !.tries = 0]
    BY <1>1 DEF Next1
  <2>2. "entry" \in ReplicateSteps /\ 0 \in 0 .. 2
    BY DEF ReplicateSteps
  <2> QED BY <1>2, <1>3, <2>1, <2>2 DEF ReplicaRuns
<1>5. ReplicaKept'
  BY DEF ReplicateInvariant, ReplicaKept
<1>6. RunKept'
  BY <1>4 DEF ReplicateInvariant, RunKept
<1>7. Covering'
  <2>1. ~report.complete /\ ~report'.complete
    BY DEF ReplicateInvariant, Covering, OnPage
  <2>2. ASSUME NEW k \in steady
        PROVE  \/ k \in DealtWith'
               \/ \E i \in DOMAIN Tail(run.page) : Tail(run.page)[i] = k
               \/ run.more /\ k > PageEnd'
    <3>1. CASE k \in DealtWith
      BY <3>1 DEF DealtWith
    <3>2. CASE \E i \in DOMAIN run.page : run.page[i] = k
      <4>1. PICK i \in DOMAIN run.page : run.page[i] = k
        BY <3>2
      <4>2. CASE i = 1
        BY <4>1, <4>2, <1>1, <1>3
      <4>3. CASE i # 1
        <5>1. i - 1 \in DOMAIN Tail(run.page) /\ Tail(run.page)[i - 1] = run.page[i]
          BY <4>3, <1>2
        <5> QED BY <4>1, <5>1
      <4> QED BY <4>2, <4>3
    <3>3. CASE run.more /\ k > PageEnd
      <4>1. PageEnd = run.page[Len(run.page)]
        BY DEF PageEnd
      <4>2. PageEnd' = IF Tail(run.page) = <<>> THEN key ELSE Tail(run.page)[Len(Tail(run.page))]
        BY <1>4 DEF PageEnd
      <4>3. CASE Tail(run.page) = <<>>
        <5>1. Len(run.page) = 1
          <6>1. Len(Tail(run.page)) = Len(run.page) - 1 /\ Len(run.page) \in Nat
            BY <1>2, HeadTailProperties
          <6>2. Len(Tail(run.page)) = Len(<<>>)
            BY <4>3, Zenon
          <6>3. Len(<<>>) = 0
            OBVIOUS
          <6>4. Len(Tail(run.page)) = 0
            BY <6>2, <6>3, Zenon
          <6> QED BY ONLY <6>1, <6>4
        <5> QED BY <5>1, <4>1, <4>2, <4>3, <3>3, <1>3
      <4>4. CASE Tail(run.page) # <<>>
        <5>1. Tail(run.page)[Len(Tail(run.page))] = run.page[Len(run.page)]
          BY <4>4, <1>2
        <5> QED BY <5>1, <4>1, <4>2, <4>4, <3>3
      <4> QED BY <4>3, <4>4
    <3> QED BY <3>1, <3>2, <3>3 DEF ReplicateInvariant, Covering
  <2> QED BY <2>1, <2>2, <1>4 DEF Covering, OnPage
<1> QED BY <1>5, <1>6, <1>7 DEF ReplicateInvariant

(* The run ends, complete or not.                                          *)
LEMMA RunOver ==
    ASSUME ReplicateInvariant, run' = NoRun, hashed' \in Seq(Nat),
           UNCHANGED <<source, replicaRows, copies, steady, refused>>,
           report' \in ReplicaReports, report'.complete => steady \subseteq DealtWith,
           tmp' \in [Keys -> Seq(Nat)], \A k \in Keys : Len(tmp'[k]) <= PART_LEN
    PROVE  ReplicateInvariant'
PROOF
<1>1. ReplicaKept'
  BY DEF ReplicateInvariant, ReplicaKept
<1>2. RunKept'
  BY NoRunType DEF RunKept
<1>3. Covering'
  BY NoRunType DEF Covering, OnPage, DealtWith
<1> QED BY <1>1, <1>2, <1>3 DEF ReplicateInvariant

(* Steps that stay on an entry.                                            *)
LEMMA SameEntry ==
    ASSUME ReplicateInvariant, OnPage, run.page # <<>>,
           NEW step \in {"adopt", "fetch", "digest", "record"}, StaysOn(step),
           hashed' \in Seq(Nat), UNCHANGED <<source, replicaRows, steady, refused, report>>,
           DOMAIN copies \subseteq DOMAIN copies', DOMAIN copies' \subseteq Keys,
           \A k \in DOMAIN copies' : copies'[k] = Whole,
           tmp' \in [Keys -> Seq(Nat)], \A k \in Keys : Len(tmp'[k]) <= PART_LEN,
           step \in {"fetch", "digest"} => hashed' = tmp'[Key],
           step \in {"adopt", "record"} => Key \in DOMAIN copies'
    PROVE  ReplicateInvariant'
PROOF
<1>2. /\ run' \in ReplicaRuns /\ run'.pc = step /\ run'.page = run.page /\ run'.after = run.after
      /\ run'.window = run.window /\ run'.more = run.more
  BY DEF StaysOn
<1>3. ReplicaKept'
  BY DEF ReplicateInvariant, ReplicaKept
<1>4. Key' = Key
  BY <1>2 DEF Key
<1>5. RunKept'
  BY <1>2, <1>4 DEF ReplicateInvariant, RunKept
<1>6. Covering'
  <2>1. ~report.complete
    BY DEF ReplicateInvariant, Covering, OnPage
  <2>2. PageEnd' = PageEnd /\ DealtWith' = DealtWith
    BY <1>2 DEF PageEnd, DealtWith
  <2> QED BY <1>2, <2>1, <2>2 DEF ReplicateInvariant, Covering, OnPage
<1> QED BY <1>3, <1>5, <1>6 DEF ReplicateInvariant

(* A page read from the source keeps it: by PageMeans no key the source    *)
(* lists lies between the keys of the page.                                *)
LEMMA FetchPageKeeps == ASSUME ReplicateInvariant, FetchPage PROVE ReplicateInvariant'
PROOF
<1> DEFINE page == Page(run.after)
           more == More(page)
           window == {k \in replicaRows : run.after < k /\ k <= WindowEnd(page, more)}
<1>1. run \in ReplicaRuns /\ run.pc = "page" /\ run.after \in Nat /\ source \subseteq Keys
  BY DEF FetchPage, ReplicateInvariant, RunKept, ReplicaKept, ReplicaRuns
<1>2. /\ page \in Seq(Keys)
      /\ \A k \in source : k > run.after =>
             \/ \E i \in DOMAIN page : page[i] = k
             \/ more /\ page # <<>> /\ k > page[Len(page)]
  BY <1>1, PageMeans
<1>3. run' = [run EXCEPT !.pc = "entry", !.page = page, !.more = more, !.window = window]
  BY DEF FetchPage
<1>4. more \in BOOLEAN /\ window \subseteq replicaRows
  BY DEF More
<1>5. UNCHANGED <<source, replicaRows, copies, tmp, hashed, report, steady, refused>>
  BY DEF FetchPage, replicaVars
<1>6. replicaRows \subseteq Keys
  BY DEF ReplicateInvariant, ReplicaKept
<1> HIDE DEF page, more, window
<1>7. /\ run' \in ReplicaRuns /\ run'.pc = "entry" /\ run'.page = page /\ run'.more = more
      /\ run'.window = window
  BY <1>1, <1>2, <1>3, <1>4, <1>6 DEF ReplicaRuns, ReplicateSteps
<1>8. ReplicaKept'
  BY <1>5 DEF ReplicateInvariant, ReplicaKept
<1>9. RunKept'
  BY <1>4, <1>5, <1>7 DEF ReplicateInvariant, RunKept
<1>10. Covering'
  <2>1. ~report.complete
    BY <1>1 DEF ReplicateInvariant, Covering
  <2>2. DealtWith' = DealtWith /\ (page # <<>> => PageEnd' = page[Len(page)])
    BY <1>5, <1>7 DEF DealtWith, PageEnd
  <2>3. \A k \in steady : \/ k \in DealtWith
                          \/ \E i \in DOMAIN page : page[i] = k
                          \/ more /\ k > PageEnd'
    BY <1>1, <1>2, <2>2 DEF ReplicateInvariant, Covering, ReplicaKept
  <2> QED BY <1>5, <1>7, <2>1, <2>2, <2>3 DEF Covering, OnPage
<1> QED BY <1>8, <1>9, <1>10 DEF ReplicateInvariant

(* Starting a run keeps it.                                                *)
LEMMA StartKeeps == ASSUME ReplicateInvariant, RunStarts PROVE ReplicateInvariant'
PROOF
<1>1. run' \in ReplicaRuns /\ run'.pc = "page" /\ run'.window = {} /\ run'.after = 0
  BY NoRunType DEF RunStarts, ReplicaRuns, ReplicateSteps
<1>2. UNCHANGED <<source, replicaRows, copies, tmp, hashed>> /\ report' = NoReport /\ steady' = source
  BY DEF RunStarts, replicaVars
<1>3. ReplicaKept'
  BY <1>2 DEF ReplicateInvariant, ReplicaKept
<1>4. RunKept'
  BY <1>1, <1>2 DEF ReplicateInvariant, RunKept, NoReport, ReplicaReports
<1>5. Covering'
  <2>1. \A k \in source : k > 0
    BY ReplicateAssumption DEF ReplicateInvariant, ReplicaKept, Keys
  <2> QED BY <1>1, <1>2, <2>1 DEF Covering, OnPage, NoReport
<1> QED BY <1>3, <1>4, <1>5 DEF ReplicateInvariant

(* The types a step on an entry starts from.                               *)
LEMMA EntryFacts ==
    ASSUME ReplicateInvariant, OnPage, run.page # <<>>
    PROVE  /\ run \in ReplicaRuns /\ Key \in Keys /\ run.tries \in 0 .. 2
           /\ tmp \in [Keys -> Seq(Nat)] /\ \A k \in Keys : Len(tmp[k]) <= PART_LEN
           /\ hashed \in Seq(Nat) /\ report \in ReplicaReports /\ ~report.complete
           /\ replicaRows \subseteq DOMAIN copies /\ DOMAIN copies \subseteq Keys
           /\ \A k \in DOMAIN copies : copies[k] = Whole
PROOF
<1>1. run \in ReplicaRuns /\ run.page \in Seq(Keys) /\ run.tries \in 0 .. 2
  BY DEF ReplicateInvariant, RunKept, ReplicaRuns
<1>2. Key \in Keys
  BY <1>1 DEF Key
<1>3. ~report.complete
  BY DEF ReplicateInvariant, Covering, OnPage
<1> QED BY <1>1, <1>2, <1>3 DEF ReplicateInvariant, RunKept, ReplicaKept

(* Counting the entry as unusable and going on keeps it.                   *)
LEMMA UnusableKeeps ==
    ASSUME ReplicateInvariant, OnPage, run.page # <<>>, Unusable,
           UNCHANGED <<source, replicaRows, copies, steady>>,
           tmp' \in [Keys -> Seq(Nat)], \A k \in Keys : Len(tmp'[k]) <= PART_LEN
    PROVE  ReplicateInvariant'
PROOF
<1>1. report \in ReplicaReports /\ replicaRows \subseteq DOMAIN copies
  BY EntryFacts
<1>2. report' \in ReplicaReports /\ report'.complete = report.complete
  BY <1>1 DEF Unusable, ReplicaReports
<1>3. run' = Next1(run) /\ hashed' \in Seq(Nat) /\ refused' = refused \cup {Key}
  BY DEF Unusable
<1>4. Key \in DealtWith'
  BY <1>3 DEF DealtWith
<1> QED BY <1>1, <1>2, <1>3, <1>4, NextEntry

(* Looking at the entry keeps it: present, to adopt, to fetch.             *)
LEMMA EntryKeeps == ASSUME ReplicateInvariant, LookAtEntry PROVE ReplicateInvariant'
PROOF
<1>1. OnPage /\ run.page # <<>> /\ UNCHANGED <<source, replicaRows, copies, tmp, steady>> /\ run.pc = "entry"
  BY DEF LookAtEntry, OnPage, replicaVars
<1>2. /\ run \in ReplicaRuns /\ Key \in Keys
      /\ tmp \in [Keys -> Seq(Nat)] /\ \A k \in Keys : Len(tmp[k]) <= PART_LEN
      /\ hashed \in Seq(Nat) /\ report \in ReplicaReports
      /\ replicaRows \subseteq DOMAIN copies /\ DOMAIN copies \subseteq Keys
      /\ \A k \in DOMAIN copies : copies[k] = Whole
  BY <1>1, EntryFacts
<1>3. CASE Key \in run.window /\ report' = [report EXCEPT !.present = @ + 1] /\ run' = Next1(run)
           /\ UNCHANGED <<hashed, refused>>
  <2>1. report' \in ReplicaReports /\ report'.complete = report.complete
    <3>1. report' = [report EXCEPT !.present = @ + 1] /\ report \in ReplicaReports
      BY <1>2, <1>3
    <3> QED BY ONLY <3>1 DEF ReplicaReports
  <2>2. Key \in DealtWith'
    BY <1>1, <1>3 DEF DealtWith, ReplicateInvariant, RunKept
  <2> QED BY <1>1, <1>2, <1>3, <2>1, <2>2, NextEntry
<1>4. CASE /\ run' = [run EXCEPT !.pc = IF Adoptable(Key) THEN "adopt" ELSE "fetch", !.tries = 2]
           /\ hashed' = IF Adoptable(Key) THEN <<>> ELSE tmp[Key]
           /\ UNCHANGED <<report, refused>>
  <2>1. CASE Adoptable(Key)
    <3>0. run' = [run EXCEPT !.pc = "adopt", !.tries = 2] /\ hashed' = <<>>
      BY <1>4, <2>1
    <3>1. StaysOn("adopt") /\ hashed' \in Seq(Nat)
      <4>1. run \in ReplicaRuns /\ 2 \in 0 .. 2
        BY <1>2
      <4>2. StaysOn("adopt")
        BY <3>0, <4>1 DEF StaysOn, ReplicaRuns, ReplicateSteps
      <4> QED BY <3>0, <4>2
    <3>2. Key \in DOMAIN copies'
      BY <2>1, <1>1 DEF Adoptable
    <3> QED BY <1>1, <1>2, <1>4, <3>1, <3>2, SameEntry
  <2>2. CASE ~Adoptable(Key)
    <3>0. run' = [run EXCEPT !.pc = "fetch", !.tries = 2] /\ hashed' = tmp[Key] /\ hashed' \in Seq(Nat)
      BY <1>2, <1>4, <2>2
    <3>1. StaysOn("fetch") /\ hashed' = tmp[Key] /\ hashed' \in Seq(Nat)
      <4>1. run \in ReplicaRuns /\ 2 \in 0 .. 2
        BY <1>2
      <4>2. StaysOn("fetch")
        BY <3>0, <4>1 DEF StaysOn, ReplicaRuns, ReplicateSteps
      <4> QED BY <3>0, <4>2
    <3>2. hashed' = tmp'[Key]
      BY <1>1, <3>1
    <3> QED BY <1>1, <1>2, <1>4, <3>1, <3>2, SameEntry
  <2> QED BY <2>1, <2>2
<1>5. CASE Unusable
  BY <1>1, <1>2, <1>5, UnusableKeeps
<1> QED BY <1>3, <1>4, <1>5 DEF LookAtEntry

(* The end of a page keeps it: what is on the page is dealt with, and what *)
(* is behind it is asked for next.                                         *)
LEMMA PageEndsKeeps == ASSUME ReplicateInvariant, PageEnds PROVE ReplicateInvariant'
PROOF
<1>1. /\ run \in ReplicaRuns /\ run.pc = "entry" /\ run.page = <<>> /\ run.more \in BOOLEAN
      /\ UNCHANGED <<source, replicaRows, copies, tmp, hashed, steady, refused>>
      /\ report \in ReplicaReports /\ hashed \in Seq(Nat)
  BY DEF PageEnds, ReplicateInvariant, RunKept, replicaVars, ReplicaRuns
<1>2. \A k \in steady : k \in DealtWith \/ (run.more /\ k > run.after)
  BY <1>1 DEF ReplicateInvariant, Covering, OnPage, PageEnd
<1>3. CASE run.more
  <2>1. run' = [run EXCEPT !.pc = "page"] /\ report' = report
    BY <1>3 DEF PageEnds
  <2>2. run' \in ReplicaRuns /\ run'.pc = "page" /\ run'.after = run.after /\ run'.window = run.window
    BY <1>1, <2>1 DEF ReplicaRuns, ReplicateSteps
  <2>3. ReplicaKept'
    BY <1>1 DEF ReplicateInvariant, ReplicaKept
  <2>4. RunKept'
    BY <1>1, <2>1, <2>2 DEF ReplicateInvariant, RunKept
  <2>5. Covering'
    <3>1. ~report.complete /\ DealtWith' = DealtWith
      BY <1>1 DEF ReplicateInvariant, Covering, DealtWith
    <3> QED BY <1>1, <1>2, <2>1, <2>2, <3>1 DEF Covering, OnPage
  <2> QED BY <2>3, <2>4, <2>5 DEF ReplicateInvariant
<1>4. CASE ~run.more
  <2>1. run' = NoRun /\ report' \in ReplicaReports
    BY <1>1, <1>4 DEF PageEnds, ReplicaReports
  <2>2. steady \subseteq DealtWith
    BY <1>2, <1>4
  <2> QED BY <1>1, <2>1, <2>2, RunOver DEF ReplicateInvariant, ReplicaKept
<1> QED BY <1>1, <1>3, <1>4

(* What an answer that is served in full brings: the rest of the part, or  *)
(* all of it.                                                              *)
LEMMA ServedMeans ==
    ASSUME hashed \in Seq(Nat), Have < PART_LEN, NEW answer \in {200, 206}
    PROVE  /\ Served(answer) \in Seq(Nat)
           /\ answer = 200 => Len(Served(answer)) = PART_LEN
           /\ answer = 206 => Have + Len(Served(answer)) = PART_LEN
PROOF
<1> DEFINE from == IF answer = 206 THEN Have + 1 ELSE 1
<1>1. Have \in Nat /\ PART_LEN \in Nat /\ from \in Nat /\ 1 <= from /\ from <= PART_LEN
  BY ReplicateAssumption DEF Have
<1>2. \A i \in from .. PART_LEN : Whole[i] \in Nat
  BY <1>1 DEF Whole
<1>3. Served(answer) = SubSeq(Whole, from, PART_LEN)
  BY DEF Served
<1>4. Served(answer) \in Seq(Nat) /\ Len(Served(answer)) = PART_LEN - from + 1
  <2> HIDE DEF from
  <2>1. from \in Int /\ PART_LEN \in Int /\ from <= PART_LEN
    BY <1>1
  <2>2. /\ SubSeq(Whole, from, PART_LEN) \in Seq(Nat)
        /\ Len(SubSeq(Whole, from, PART_LEN)) = IF from <= PART_LEN THEN PART_LEN - from + 1 ELSE 0
    BY <1>2, <2>1, SubSeqProperties
  <2> QED BY <1>3, <2>1, <2>2
<1> HIDE DEF Served
<1> QED BY <1>1, <1>4

(* The bytes of an answer in the file, and no more than a part is long.    *)
LEMMA ReceivedMeans ==
    ASSUME ReplicateInvariant, run.pc = "fetch", Have < PART_LEN, NEW answer \in {200, 206},
           NEW bytes \in Seq(Nat), Len(bytes) <= Len(Served(answer))
    PROVE  LET r == ReplicaRestart(bytes, answer)
           IN  /\ r.file = r.hash /\ r.file \in Seq(Nat) /\ Len(r.file) <= PART_LEN
PROOF
<1> DEFINE before == IF answer = 200 THEN <<>> ELSE hashed
<1>1. hashed = tmp[Key] /\ hashed \in Seq(Nat)
  BY DEF ReplicateInvariant, RunKept
<1>2. ReplicaRestart(bytes, answer) = [file |-> before \o bytes, hash |-> before \o bytes]
  BY <1>1 DEF ReplicaRestart
<1>3. before \in Seq(Nat) /\ (answer = 200 => Len(before) = 0) /\ (answer = 206 => Len(before) = Have)
  BY <1>1 DEF Have
<1>4. /\ Served(answer) \in Seq(Nat)
      /\ answer = 200 => Len(Served(answer)) = PART_LEN
      /\ answer = 206 => Have + Len(Served(answer)) = PART_LEN
  BY <1>1, ServedMeans
<1> HIDE DEF before
<1>5. before \o bytes \in Seq(Nat) /\ Len(before \o bytes) = Len(before) + Len(bytes)
  BY <1>3, ConcatProperties
<1>6. Len(before) \in Nat /\ Len(bytes) \in Nat /\ Len(Served(answer)) \in Nat
  BY <1>3, <1>4, LenProperties
<1>7. Len(before) + Len(bytes) <= PART_LEN
  BY <1>3, <1>4, <1>6
<1> QED BY <1>2, <1>5, <1>7

(* A body that arrives to its end, damaged or not, keeps it.               *)
LEMMA ReplicaFetchKeeps ==
    ASSUME ReplicateInvariant, NEW answer \in {200, 206}, FetchAll(answer) \/ FetchDamaged(answer)
    PROVE  ReplicateInvariant'
PROOF
<1>1. /\ OnPage /\ run.page # <<>> /\ run.pc = "fetch" /\ Have < PART_LEN
      /\ UNCHANGED <<source, replicaRows, copies, steady, refused, report>>
      /\ run' = [run EXCEPT !.pc = "digest"]
  BY DEF FetchAll, FetchDamaged, OnPage, ReplicateInvariant, RunKept
<1>2. /\ run \in ReplicaRuns /\ Key \in Keys /\ run.tries \in 0 .. 2
      /\ tmp \in [Keys -> Seq(Nat)] /\ \A k \in Keys : Len(tmp[k]) <= PART_LEN
      /\ hashed \in Seq(Nat) /\ DOMAIN copies \subseteq Keys /\ \A k \in DOMAIN copies : copies[k] = Whole
  BY <1>1, EntryFacts
<1>3. PICK bytes : bytes \in {Served(answer), [Served(answer) EXCEPT ![1] = 0]} /\ ReplicaReceive(bytes, answer)
  BY DEF FetchAll, FetchDamaged
<1>4. bytes \in Seq(Nat) /\ Len(bytes) <= Len(Served(answer))
  <2>1. Served(answer) \in Seq(Nat)
    BY <1>1, <1>2, ServedMeans
  <2>2. [Served(answer) EXCEPT ![1] = 0] \in Seq(Nat) /\ Len([Served(answer) EXCEPT ![1] = 0]) = Len(Served(answer))
    <3>1. 1 \in 1 .. Len(Served(answer)) /\ 0 \in Nat
      <4>1. /\ Len(Served(answer)) \in Nat /\ Have \in Nat /\ PART_LEN \in Nat
            /\ Len(Served(answer)) = PART_LEN \/ Have + Len(Served(answer)) = PART_LEN
        <5>1. Len(Served(answer)) = PART_LEN \/ Have + Len(Served(answer)) = PART_LEN
          BY <1>1, <1>2, ServedMeans
        <5>2. Len(Served(answer)) \in Nat /\ Have \in Nat
          BY <1>2, <2>1, LenProperties DEF Have
        <5> QED BY <5>1, <5>2, ReplicateAssumption
      <4> QED BY <1>1, <4>1
    <3> QED BY <2>1, <3>1, ExceptSeq
  <2>3. Len(Served(answer)) \in Nat
    BY <2>1
  <2> QED BY <1>3, <2>1, <2>2, <2>3
<1>5. PICK r : r = ReplicaRestart(bytes, answer)
  OBVIOUS
<1>6. r.file = r.hash /\ r.file \in Seq(Nat) /\ Len(r.file) <= PART_LEN
  BY <1>1, <1>4, <1>5, ReceivedMeans
<1>7. tmp' = [tmp EXCEPT ![Key] = r.file] /\ hashed' = r.hash
  BY <1>3, <1>5 DEF ReplicaReceive
<1>8. /\ tmp' \in [Keys -> Seq(Nat)] /\ \A k \in Keys : Len(tmp'[k]) <= PART_LEN
      /\ hashed' \in Seq(Nat) /\ hashed' = tmp'[Key]
  BY <1>2, <1>6, <1>7
<1>9. StaysOn("digest")
  <2>1. run' = [run EXCEPT !.pc = "digest"] /\ run \in ReplicaRuns
    BY <1>1, <1>2
  <2> QED BY <2>1 DEF StaysOn, ReplicaRuns, ReplicateSteps
<1> QED BY <1>1, <1>2, <1>8, <1>9, SameEntry

(* A body cut short keeps it: what is in the temporary file is what has    *)
(* been hashed.                                                            *)
LEMMA BreakKeeps ==
    ASSUME ReplicateInvariant, NEW answer \in {200, 206}, NEW n \in 0 .. PART_LEN, FetchBreaks(answer, n)
    PROVE  ReplicateInvariant'
PROOF
<1>1. /\ OnPage /\ run.page # <<>> /\ run.pc = "fetch" /\ Have < PART_LEN /\ n < Len(Served(answer))
      /\ UNCHANGED <<source, replicaRows, copies, steady, refused, report>>
      /\ run' = NoRun /\ hashed' = <<>>
  BY DEF FetchBreaks, OnPage, ReplicateInvariant, RunKept, RunAborts
<1>2. /\ run \in ReplicaRuns /\ Key \in Keys
      /\ tmp \in [Keys -> Seq(Nat)] /\ \A k \in Keys : Len(tmp[k]) <= PART_LEN
      /\ hashed \in Seq(Nat) /\ report \in ReplicaReports /\ ~report.complete
  BY <1>1, EntryFacts
<1>3. PICK bytes : bytes = SubSeq(Served(answer), 1, n)
  OBVIOUS
<1>4. bytes \in Seq(Nat) /\ Len(bytes) <= Len(Served(answer))
  <2>1. Served(answer) \in Seq(Nat) /\ Len(Served(answer)) \in Nat /\ n \in Nat
    BY <1>1, <1>2, ServedMeans, LenProperties, ReplicateAssumption
  <2>2. \A i \in 1 .. n : Served(answer)[i] \in Nat
    BY <1>1, <2>1, ElementOfSeq
  <2>3. bytes \in Seq(Nat) /\ Len(bytes) = IF 1 <= n THEN n - 1 + 1 ELSE 0
    BY <1>3, <2>1, <2>2, SubSeqProperties
  <2> QED BY <1>1, <2>1, <2>3
<1>5. PICK r : r = ReplicaRestart(bytes, answer)
  OBVIOUS
<1>6. r.file \in Seq(Nat) /\ Len(r.file) <= PART_LEN
  BY <1>1, <1>4, <1>5, ReceivedMeans
<1>7. tmp' = [tmp EXCEPT ![Key] = r.file]
  BY <1>3, <1>5 DEF FetchBreaks
<1>8. tmp' \in [Keys -> Seq(Nat)] /\ \A k \in Keys : Len(tmp'[k]) <= PART_LEN
  BY <1>2, <1>6, <1>7
<1>9. hashed' \in Seq(Nat)
  BY <1>1
<1> QED BY <1>1, <1>2, <1>8, <1>9, RunOver

(* Discarding the temporary file and fetching from zero keeps it.          *)
LEMMA ReplicaRestartKeeps == ASSUME ReplicateInvariant, FetchRestarts PROVE ReplicateInvariant'
PROOF
<1>1. /\ OnPage /\ run.page # <<>> /\ run.pc = "fetch" /\ run.tries > 0
      /\ UNCHANGED <<source, replicaRows, copies, steady, refused, report>>
      /\ run' = [run EXCEPT !.tries = @ - 1]
      /\ tmp' = [tmp EXCEPT ![Key] = <<>>] /\ hashed' = <<>>
  BY DEF FetchRestarts, OnPage, ReplicateInvariant, RunKept, FromZero
<1>2. /\ run \in ReplicaRuns /\ Key \in Keys /\ run.tries \in 0 .. 2
      /\ tmp \in [Keys -> Seq(Nat)] /\ \A k \in Keys : Len(tmp[k]) <= PART_LEN
      /\ DOMAIN copies \subseteq Keys /\ \A k \in DOMAIN copies : copies[k] = Whole
  BY <1>1, EntryFacts
<1>3. <<>> \in Seq(Nat) /\ Len(<<>>) <= PART_LEN
  BY ReplicateAssumption
<1>4. /\ tmp' \in [Keys -> Seq(Nat)] /\ \A k \in Keys : Len(tmp'[k]) <= PART_LEN
      /\ hashed' \in Seq(Nat) /\ hashed' = tmp'[Key]
  BY <1>1, <1>2, <1>3
<1>5. run.tries - 1 \in 0 .. 2
  BY <1>1, <1>2
<1>6. StaysOn("fetch")
  BY <1>1, <1>2, <1>5 DEF StaysOn, ReplicaRuns, ReplicateSteps
<1> QED BY <1>1, <1>2, <1>4, <1>5, <1>6, SameEntry

(* A run that stops keeps it.                                              *)
LEMMA AbortKeeps ==
    ASSUME ReplicateInvariant, FetchPageFails \/ FetchGivesUp \/ RunStops
    PROVE  ReplicateInvariant'
PROOF
<1>1. /\ run.pc # "idle" /\ run' = NoRun /\ hashed' = <<>>
      /\ UNCHANGED <<source, replicaRows, copies, tmp, steady, refused, report>>
  BY DEF FetchPageFails, FetchGivesUp, RunStops, RunAborts, replicaVars
<1>2. hashed' \in Seq(Nat) /\ report' \in ReplicaReports /\ ~report'.complete
  BY <1>1 DEF ReplicateInvariant, RunKept, Covering
<1> QED BY <1>1, <1>2, RunOver DEF ReplicateInvariant, ReplicaKept

(* An answer without a body keeps it.                                      *)
LEMMA NothingKeeps == ASSUME ReplicateInvariant, FetchNothing PROVE ReplicateInvariant'
PROOF
<1>1. /\ OnPage /\ run.page # <<>> /\ run.pc = "fetch" /\ run' = [run EXCEPT !.pc = "digest"]
      /\ UNCHANGED <<source, replicaRows, copies, tmp, hashed, steady, refused, report>>
      /\ hashed = tmp[Key]
  BY DEF FetchNothing, OnPage, ReplicateInvariant, RunKept, replicaVars
<1>2. run \in ReplicaRuns /\ run.tries \in 0 .. 2
  BY <1>1, EntryFacts
<1>3. StaysOn("digest")
  BY <1>1, <1>2 DEF StaysOn, ReplicaRuns, ReplicateSteps
<1> QED BY <1>1, <1>2, <1>3, EntryFacts, SameEntry

(* An entry the source cannot serve keeps it.                              *)
LEMMA UnservableKeeps == ASSUME ReplicateInvariant, FetchUnservable PROVE ReplicateInvariant'
PROOF
<1>1. OnPage /\ run.page # <<>> /\ Unusable /\ UNCHANGED <<source, replicaRows, copies, tmp, steady>>
  BY DEF FetchUnservable, OnPage, ReplicateInvariant, RunKept, replicaVars
<1> QED BY <1>1, EntryFacts, UnusableKeeps

(* Checking the digest keeps it: only a whole part is installed.           *)
LEMMA DigestKeeps == ASSUME ReplicateInvariant, CheckDigest PROVE ReplicateInvariant'
PROOF
<1>1. /\ OnPage /\ run.page # <<>> /\ run.pc = "digest" /\ hashed = tmp[Key]
      /\ UNCHANGED <<source, replicaRows, steady>>
      /\ tmp' = [tmp EXCEPT ![Key] = <<>>]
  BY DEF CheckDigest, Discarded, OnPage, ReplicateInvariant, RunKept
<1>2. /\ run \in ReplicaRuns /\ Key \in Keys /\ run.tries \in 0 .. 2
      /\ tmp \in [Keys -> Seq(Nat)] /\ \A k \in Keys : Len(tmp[k]) <= PART_LEN
      /\ DOMAIN copies \subseteq Keys /\ \A k \in DOMAIN copies : copies[k] = Whole
  BY <1>1, EntryFacts
<1>3. <<>> \in Seq(Nat) /\ Len(<<>>) <= PART_LEN
  BY ReplicateAssumption
<1>4. tmp' \in [Keys -> Seq(Nat)] /\ \A k \in Keys : Len(tmp'[k]) <= PART_LEN
  BY <1>1, <1>2, <1>3
<1>5. CASE DigestIsName
  <2>1. PICK key : key = Key
    OBVIOUS
  <2>2. copies' = [k \in DOMAIN copies \cup {key} |-> IF k \in DOMAIN copies THEN copies[k] ELSE tmp[key]]
    BY <1>5, <2>1 DEF CheckDigest
  <2>3. tmp[key] = Whole
    BY <1>1, <1>5, <2>1 DEF DigestIsName
  <2>4. /\ DOMAIN copies' = DOMAIN copies \cup {key} /\ DOMAIN copies' \subseteq Keys
        /\ \A k \in DOMAIN copies' : copies'[k] = Whole
    BY <1>2, <2>1, <2>2, <2>3
  <2>5. run' = [run EXCEPT !.pc = "record"] /\ hashed' = <<>> /\ UNCHANGED <<report, refused>>
    BY <1>5 DEF CheckDigest
  <2>6. StaysOn("record") /\ hashed' \in Seq(Nat)
    <3>1. run' = [run EXCEPT !.pc = "record"] /\ run \in ReplicaRuns
      BY <1>2, <2>5
    <3>2. StaysOn("record")
      BY <3>1 DEF StaysOn, ReplicaRuns, ReplicateSteps
    <3> QED BY <2>5, <3>2
  <2> QED BY <1>1, <1>2, <1>4, <2>1, <2>4, <2>5, <2>6, SameEntry
<1>6. CASE ~DigestIsName
  <2>1. Unusable /\ UNCHANGED copies
    BY <1>6 DEF CheckDigest
  <2> QED BY <1>1, <1>4, <2>1, UnusableKeeps
<1> QED BY <1>5, <1>6

(* Recording the copy keeps it.                                            *)
LEMMA RecordKeeps == ASSUME ReplicateInvariant, RecordCopy PROVE ReplicateInvariant'
PROOF
<1>1. /\ OnPage /\ run.page # <<>> /\ Key \in DOMAIN copies /\ run' = Next1(run)
      /\ UNCHANGED <<source, copies, tmp, hashed, steady, refused>>
      /\ replicaRows' = replicaRows \cup {Key}
  BY DEF RecordCopy, OnPage, ReplicateInvariant, RunKept
<1>2. /\ tmp \in [Keys -> Seq(Nat)] /\ \A k \in Keys : Len(tmp[k]) <= PART_LEN
      /\ hashed \in Seq(Nat) /\ report \in ReplicaReports /\ replicaRows \subseteq DOMAIN copies
  BY <1>1, EntryFacts
<1>3. report' \in ReplicaReports /\ report'.complete = report.complete
  BY <1>2 DEF RecordCopy, ReplicaReports
<1>4. Key \in DealtWith'
  BY <1>1 DEF DealtWith
<1> QED BY <1>1, <1>2, <1>3, <1>4, NextEntry

(* The source listing more or less during a run keeps it.                  *)
LEMMA SourceKeeps ==
    ASSUME ReplicateInvariant, (\E k \in Keys : SourceChanges(k)) \/ UNCHANGED replicateVars
    PROVE  ReplicateInvariant'
PROOF
<1>1. /\ UNCHANGED <<replicaRows, copies, tmp, run, hashed, report, refused>>
      /\ source' \subseteq Keys /\ steady' \subseteq steady /\ steady' \subseteq source'
  BY DEF SourceChanges, replicateVars, replicaVars, ReplicateInvariant, ReplicaKept
<1>2. ReplicaKept'
  BY <1>1 DEF ReplicateInvariant, ReplicaKept
<1>3. RunKept'
  BY <1>1 DEF ReplicateInvariant, RunKept, Key
<1>4. Covering'
  BY <1>1 DEF ReplicateInvariant, Covering, OnPage, DealtWith, PageEnd
<1> QED BY <1>2, <1>3, <1>4 DEF ReplicateInvariant

(* The inductive invariant gives the one the runs check.                   *)
LEMMA ReplicateImplies == ReplicateInvariant => ReplicateInv
PROOF
<1> SUFFICES ASSUME ReplicateInvariant PROVE ReplicateInv
  OBVIOUS
<1>1. run.tries \in 0 .. 2
  BY DEF ReplicateInvariant, RunKept, ReplicaRuns
<1> QED BY <1>1 DEF ReplicateInvariant, ReplicaKept, RunKept, Covering, DealtWith, ReplicateInv, ReplicateTypeOK,
           InstalledIsWhole, RecordedHasCopy, CompleteIsCaughtUp

(* ReplicateInv for any number of keys, any page size and any length of a  *)
(* part: no copy is damaged, every recorded copy is on disk, and a run     *)
(* that reports itself complete has dealt with every key the source listed *)
(* from its start to its end.                                              *)
THEOREM ReplicateSafe == ReplicateSpec => []ReplicateInv
PROOF
<1>1. ReplicateInit => ReplicateInvariant
  BY ReplicateInitially
<1>2. ReplicateInvariant /\ [ReplicateNext]_replicateVars => ReplicateInvariant'
  BY FetchPageKeeps, StartKeeps, EntryKeeps, PageEndsKeeps, ReplicaFetchKeeps, BreakKeeps, ReplicaRestartKeeps, AbortKeeps,
     NothingKeeps, UnservableKeeps, DigestKeeps, RecordKeeps, SourceKeeps DEF ReplicateNext, ReplicateStep
<1>3. ReplicateInvariant => ReplicateInv
  BY ReplicateImplies
<1> QED BY <1>1, <1>2, <1>3, PTL DEF ReplicateSpec

-----------------------------------------------------------------------------
(* PartsStore. The difficulty is the count of bytes, kept in two numbers   *)
(* that several requests, the sweep and a restart change in steps. Bytes   *)
(* are counted as the elements of BytesOf, so that adding a part that was  *)
(* not there adds its size and the invariant is about sets of parts.       *)

(* The bytes of a set of parts are finitely many.                          *)
LEMMA BytesFinite ==
    ASSUME NEW ps \in SUBSET Parts
    PROVE  IsFiniteSet(BytesOf(ps)) /\ PartBytes(ps) \in Nat
PROOF
<1> DEFINE each == [p \in ps |-> {p} \X (1 .. PartSize[p])]
           all == {{p} \X (1 .. PartSize[p]) : p \in ps}
<1>1. IsFiniteSet(ps)
  BY PartsStoreAssumption, FS_Subset
<1>2. each \in Surjection(ps, all)
  BY DEF Surjection
<1>3. ASSUME NEW p \in ps PROVE IsFiniteSet({p} \X (1 .. PartSize[p]))
  <2>1. PartSize[p] \in Nat
    BY PartsStoreAssumption
  <2>2. IsFiniteSet(1 .. PartSize[p])
    BY <2>1, FS_Interval
  <2>3. IsFiniteSet({p})
    BY FS_Singleton
  <2> QED BY <2>2, <2>3, FS_Product
<1>4. \A T \in all : IsFiniteSet(T)
  BY <1>3
<1> HIDE DEF each, all
<1>5. IsFiniteSet(all)
  BY <1>1, <1>2, FS_Surjection
<1>6. IsFiniteSet(UNION all)
  BY <1>4, <1>5, FS_UNION
<1>7. BytesOf(ps) = UNION all
  BY DEF BytesOf, all
<1> QED BY <1>6, <1>7, FS_CardinalityType DEF PartBytes

(* One part more has its bytes more.                                       *)
LEMMA BytesAdd ==
    ASSUME NEW ps \in SUBSET Parts, NEW p \in Parts, p \notin ps
    PROVE  PartBytes(ps \cup {p}) = PartBytes(ps) + PartSize[p]
PROOF
<1> DEFINE own == {p} \X (1 .. PartSize[p])
<1>1. BytesOf(ps \cup {p}) = BytesOf(ps) \cup own
  BY DEF BytesOf
<1>2. BytesOf(ps) \cap own = {}
  BY DEF BytesOf
<1>3. PartSize[p] \in Nat /\ PartSize[p] >= 1
  BY PartsStoreAssumption
<1>4. IsFiniteSet(own) /\ Cardinality(own) = PartSize[p]
  <2>1. IsFiniteSet({p}) /\ Cardinality({p}) = 1
    BY FS_Singleton
  <2>2. IsFiniteSet(1 .. PartSize[p]) /\ Cardinality(1 .. PartSize[p]) = PartSize[p]
    <3>1. Cardinality(1 .. PartSize[p]) = IF 1 > PartSize[p] THEN 0 ELSE PartSize[p] - 1 + 1
      BY <1>3, FS_Interval
    <3>2. IsFiniteSet(1 .. PartSize[p])
      BY <1>3, FS_Interval
    <3> QED BY <1>3, <3>1, <3>2
  <2>3. IsFiniteSet(own) /\ Cardinality(own) = 1 * PartSize[p]
    BY <2>1, <2>2, FS_Product
  <2> HIDE DEF own
  <2> QED BY <1>3, <2>3
<1>5. IsFiniteSet(BytesOf(ps)) /\ PartBytes(ps) \in Nat
  BY BytesFinite
<1> HIDE DEF own
<1>6. Cardinality(BytesOf(ps) \cup own) = Cardinality(BytesOf(ps)) + Cardinality(own) - Cardinality({})
  BY <1>2, <1>4, <1>5, FS_Union
<1>7. Cardinality({}) = 0
  BY FS_EmptySet
<1>8. Cardinality(BytesOf(ps) \cup own) = Cardinality(BytesOf(ps)) + PartSize[p]
  <2>1. Cardinality(BytesOf(ps)) \in Nat
    BY <1>5 DEF PartBytes
  <2> QED BY <1>3, <1>4, <1>6, <1>7, <2>1
<1> QED BY <1>1, <1>8 DEF PartBytes

(* Fewer parts have no more bytes.                                         *)
LEMMA BytesGrow ==
    ASSUME NEW ps \in SUBSET Parts, NEW qs \in SUBSET ps
    PROVE  PartBytes(qs) <= PartBytes(ps)
PROOF
<1>1. BytesOf(qs) \subseteq BytesOf(ps)
  BY DEF BytesOf
<1>2. IsFiniteSet(BytesOf(ps))
  BY BytesFinite
<1> QED BY <1>1, <1>2, FS_Subset DEF PartBytes

(* One part less has its bytes less.                                       *)
LEMMA BytesRemove ==
    ASSUME NEW ps \in SUBSET Parts, NEW p \in ps
    PROVE  PartBytes(ps) = PartBytes(ps \ {p}) + PartSize[p]
PROOF
<1>1. ps = (ps \ {p}) \cup {p}
  OBVIOUS
<1>2. PartBytes((ps \ {p}) \cup {p}) = PartBytes(ps \ {p}) + PartSize[p]
  BY BytesAdd
<1> QED BY <1>1, <1>2

(* No parts have no bytes.                                                 *)
LEMMA BytesNone == PartBytes({}) = 0
PROOF
<1>1. BytesOf({}) = {}
  BY DEF BytesOf
<1> QED BY <1>1, FS_EmptySet DEF PartBytes

-----------------------------------------------------------------------------

(* Where a request can be.                                                 *)
RequestSteps == {"idle", "begin", "room", "body", "install", "settle", "record"}

(* The states of a request.                                                *)
Requests == [pc : RequestSteps, part : Parts \cup {NoPart}, outcome : {"none", "installed", "other", "failed"}]

(* The states of the retention sweep.                                      *)
Sweeps == [pc : {"idle", "file", "count", "sync", "row"}, part : Parts \cup {NoPart}, measured : BOOLEAN]

(* A request that has begun its part, one that holds a reservation, and    *)
(* one whose part is in place and not counted.                             *)
Begun(r) == r.pc \in {"room", "body", "install", "settle"}
(* The request holds a reservation.                                        *)
Holds(r) == r.pc \in {"body", "install", "settle"}
(* The request has put its part in place and not counted it yet.           *)
Unsettles(r) == r.pc = "settle" /\ r.outcome = "installed"

(* The parts a reservation is held for.                                    *)
HeldParts == {slot[s].part : s \in {t \in Slots : Holds(slot[t])}}
(* The parts in place that are not counted yet.                            *)
UnsettledParts == {slot[s].part : s \in {t \in Slots : Unsettles(slot[t])}}

(* The same, but for one slot.                                             *)
HeldBut(s) == {slot[t].part : t \in {u \in Slots : u # s /\ Holds(slot[u])}}
(* The parts not counted, but for one slot.                                *)
UnsettledBut(s) == {slot[t].part : t \in {u \in Slots : u # s /\ Unsettles(slot[u])}}

(* The types of what the store keeps.                                      *)
PartsShape ==
    /\ onDisk \subseteq Parts /\ tokens \subseteq Parts
    /\ usedBytes \in Nat /\ miscounted \in Nat
    /\ tier \in [Parts -> {"none", "warm", "cold"}]
    /\ commit \in Parts \cup {NoPart}
    /\ sweep \in Sweeps /\ (sweep.pc # "idle" => sweep.part \in Parts)

(* A request that is under way has a part.                                 *)
SlotShape ==
    /\ slot \in [Slots -> Requests] /\ arriving \subseteq Parts
    /\ \A s \in Slots : slot[s].pc # "idle" => slot[s].part \in Parts

(* No two requests are past the door with the same part.                   *)
Arrivals ==
    /\ \A s \in Slots : Begun(slot[s]) => slot[s].part \in arriving
    /\ \A s, t \in Slots : Begun(slot[s]) /\ Begun(slot[t]) /\ slot[s].part = slot[t].part => s = t

(* What is reserved is the bytes of the parts held.                        *)
HeldBytes == reserved = PartBytes(HeldParts)

(* What is counted exceeds the bytes on disk by what is not settled yet    *)
(* and what was miscounted, at the most; the sweep between removing a file *)
(* and counting it is allowed for.                                         *)
CountedBytes ==
    /\ dir_bytes <= usedBytes + PartBytes(UnsettledParts) + miscounted
    /\ sweep.pc = "count" /\ ~sweep.measured =>
          dir_bytes + PartSize[sweep.part] <= usedBytes + PartBytes(UnsettledParts) + miscounted

(* A part about to be recorded is on disk, or was removed since.           *)
RecordedParts ==
    /\ \A s \in Slots : slot[s].pc \in {"settle", "record"} => slot[s].part \in onDisk \cup removed
    /\ commit # NoPart => commit \in onDisk \cup removed
    /\ CataloguedIsStored

(* The inductive invariant of PartsStore.                                  *)
PartsInvariant == PartsShape /\ SlotShape /\ Arrivals /\ HeldBytes /\ CountedBytes /\ RecordedParts

(* What a slot's move does to the parts held and not settled.              *)
LEMMA SlotMoves ==
    ASSUME slot \in [Slots -> Requests], NEW s \in Slots, NEW r \in Requests, slot' = [slot EXCEPT ![s] = r]
    PROVE  /\ HeldParts = HeldBut(s) \cup (IF Holds(slot[s]) THEN {slot[s].part} ELSE {})
           /\ HeldParts' = HeldBut(s) \cup (IF Holds(r) THEN {r.part} ELSE {})
           /\ UnsettledParts = UnsettledBut(s) \cup (IF Unsettles(slot[s]) THEN {slot[s].part} ELSE {})
           /\ UnsettledParts' = UnsettledBut(s) \cup (IF Unsettles(r) THEN {r.part} ELSE {})
PROOF
<1>1. slot'[s] = r /\ \A t \in Slots : t # s => slot'[t] = slot[t]
  OBVIOUS
<1>2. HeldParts = HeldBut(s) \cup (IF Holds(slot[s]) THEN {slot[s].part} ELSE {})
  BY DEF HeldParts, HeldBut
<1>3. HeldParts' = HeldBut(s) \cup (IF Holds(r) THEN {r.part} ELSE {})
  <2>1. HeldParts' = {slot'[t].part : t \in {u \in Slots : Holds(slot'[u])}}
    BY DEF HeldParts, Holds
  <2> QED BY <1>1, <2>1 DEF HeldBut
<1>4. UnsettledParts = UnsettledBut(s) \cup (IF Unsettles(slot[s]) THEN {slot[s].part} ELSE {})
  BY DEF UnsettledParts, UnsettledBut
<1>5. UnsettledParts' = UnsettledBut(s) \cup (IF Unsettles(r) THEN {r.part} ELSE {})
  <2>1. UnsettledParts' = {slot'[t].part : t \in {u \in Slots : Unsettles(slot'[u])}}
    BY DEF UnsettledParts, Unsettles
  <2> QED BY <1>1, <2>1 DEF UnsettledBut
<1> QED BY <1>2, <1>3, <1>4, <1>5

(* The parts of the other requests are parts, and not this one's.          *)
LEMMA SlotApart ==
    ASSUME SlotShape, Arrivals, NEW s \in Slots
    PROVE  /\ HeldBut(s) \in SUBSET Parts /\ UnsettledBut(s) \in SUBSET Parts
           /\ Begun(slot[s]) => slot[s].part \in Parts /\ slot[s].part \notin HeldBut(s) \cup UnsettledBut(s)
           /\ \A p : p \notin arriving => p \notin HeldBut(s) \cup UnsettledBut(s)
PROOF
<1>1. \A t \in Slots : Holds(slot[t]) \/ Unsettles(slot[t]) => Begun(slot[t]) /\ slot[t].part \in Parts
  BY DEF SlotShape, Holds, Unsettles, Begun
<1>2. HeldBut(s) \in SUBSET Parts /\ UnsettledBut(s) \in SUBSET Parts
  BY <1>1 DEF HeldBut, UnsettledBut
<1>3. ASSUME Begun(slot[s]) PROVE slot[s].part \in Parts /\ slot[s].part \notin HeldBut(s) \cup UnsettledBut(s)
  <2>1. slot[s].part \in Parts
    BY <1>3 DEF SlotShape, Begun
  <2>2. \A t \in Slots : t # s /\ Begun(slot[t]) => slot[t].part # slot[s].part
    BY <1>3 DEF Arrivals
  <2> QED BY <1>1, <2>1, <2>2 DEF HeldBut, UnsettledBut
<1>4. \A p : p \notin arriving => p \notin HeldBut(s) \cup UnsettledBut(s)
  BY <1>1 DEF HeldBut, UnsettledBut, Arrivals
<1> QED BY <1>2, <1>3, <1>4

(* The requests stay as they are.                                          *)
LEMMA SlotsStay ==
    ASSUME SlotShape, Arrivals, HeldBytes, UNCHANGED <<slot, arriving, reserved>>
    PROVE  SlotShape' /\ Arrivals' /\ HeldBytes' /\ UnsettledParts' = UnsettledParts
PROOF
<1>1. HeldParts' = HeldParts /\ UnsettledParts' = UnsettledParts
  BY DEF HeldParts, UnsettledParts, Holds, Unsettles
<1>2. HeldBytes'
  BY <1>1 DEF HeldBytes, PartBytes, BytesOf
<1>3. SlotShape' /\ Arrivals'
  BY DEF SlotShape, Arrivals, Begun
<1> QED BY <1>1, <1>2, <1>3

(* One request moves.                                                      *)
LEMMA SlotShapeMoves ==
    ASSUME SlotShape, Arrivals, NEW s \in Slots, NEW r \in Requests, slot' = [slot EXCEPT ![s] = r],
           r.pc # "idle" => r.part \in Parts,
           arriving' \subseteq Parts,
           \A t \in Slots : t # s /\ Begun(slot[t]) => slot[t].part \in arriving',
           Begun(r) => r.part \in arriving',
           Begun(r) => \A t \in Slots : t # s /\ Begun(slot[t]) => slot[t].part # r.part
    PROVE  SlotShape' /\ Arrivals'
PROOF
<1>1. slot \in [Slots -> Requests]
  BY DEF SlotShape
<1>2. slot'[s] = r /\ \A t \in Slots : t # s => slot'[t] = slot[t]
  BY <1>1
<1>3. SlotShape'
  BY <1>1, <1>2 DEF SlotShape
<1>4. \A t \in Slots : Begun(slot'[t]) => slot'[t].part \in arriving'
  BY <1>2
<1>5. \A t, u \in Slots : Begun(slot'[t]) /\ Begun(slot'[u]) /\ slot'[t].part = slot'[u].part => t = u
  <2> TAKE t, u \in Slots
  <2>1. CASE t # s /\ u # s
    BY <2>1, <1>2 DEF Arrivals
  <2>2. CASE t = s \/ u = s
    BY <2>2, <1>2
  <2> QED BY <2>1, <2>2
<1>6. Arrivals'
  BY <1>4, <1>5 DEF Arrivals, Begun
<1> QED BY <1>3, <1>6

(* The counters and the directory stay as they are.                        *)
LEMMA CountsStay ==
    ASSUME CountedBytes, UNCHANGED <<onDisk, usedBytes, miscounted>>, UnsettledParts' = UnsettledParts,
           sweep' = sweep \/ sweep'.pc # "count"
    PROVE  CountedBytes'
PROOF
<1>1. dir_bytes' = dir_bytes /\ PartBytes(UnsettledParts)' = PartBytes(UnsettledParts)
  BY DEF dir_bytes, PartBytes, BytesOf
<1> QED BY <1>1 DEF CountedBytes

(* The parts not settled are parts.                                        *)
LEMMA UnsettledTypes ==
    ASSUME SlotShape
    PROVE  UnsettledParts \in SUBSET Parts /\ PartBytes(UnsettledParts) \in Nat /\ HeldParts \in SUBSET Parts
PROOF
<1>1. \A t \in Slots : Holds(slot[t]) \/ Unsettles(slot[t]) => slot[t].part \in Parts
  BY DEF SlotShape, Holds, Unsettles
<1>2. UnsettledParts \in SUBSET Parts /\ HeldParts \in SUBSET Parts
  BY <1>1 DEF UnsettledParts, HeldParts
<1> QED BY <1>2, BytesFinite

(* The directory and its counters are numbers.                             *)
LEMMA CountTypes ==
    ASSUME PartsShape, SlotShape
    PROVE  /\ dir_bytes \in Nat /\ usedBytes \in Nat /\ miscounted \in Nat
           /\ PartBytes(UnsettledParts) \in Nat /\ \A p \in Parts : PartSize[p] \in Nat
PROOF
<1>1. dir_bytes \in Nat
  BY BytesFinite DEF PartsShape, dir_bytes
<1> QED BY <1>1, UnsettledTypes, PartsStoreAssumption DEF PartsShape

(* A look for room leaves the counters no further behind.                  *)
LEMMA RoomCounts ==
    ASSUME PartsShape, SlotShape, CountedBytes, NEW n, NEW remeasure \in BOOLEAN,
           RoomForParts(n, remeasure), onDisk' = onDisk, UnsettledParts' = UnsettledParts
    PROVE  /\ CountedBytes' /\ usedBytes' \in Nat /\ miscounted' \in Nat
           /\ sweep' \in Sweeps /\ sweep'.pc = sweep.pc /\ sweep'.part = sweep.part
PROOF
<1> DEFINE again == Over(n) /\ remeasure
<1>1. again \in BOOLEAN
  BY DEF Over
<1>2. /\ usedBytes' = IF again THEN dir_bytes ELSE usedBytes
      /\ miscounted' = IF again THEN 0 ELSE miscounted
      /\ sweep' = [sweep EXCEPT !.measured = @ \/ (Over(n) /\ remeasure /\ sweep.pc = "count")]
  BY DEF RoomForParts, Measured
<1>3. sweep \in Sweeps
  BY DEF PartsShape
<1>4. /\ sweep' \in Sweeps /\ sweep'.pc = sweep.pc /\ sweep'.part = sweep.part
      /\ sweep'.measured = (sweep.measured \/ (again /\ sweep.pc = "count"))
  <2> DEFINE m == sweep.measured \/ (Over(n) /\ remeasure /\ sweep.pc = "count")
  <2>1. m \in BOOLEAN /\ sweep' = [sweep EXCEPT !.measured = m]
    BY <1>2, <1>3 DEF Sweeps
  <2>2. m = (sweep.measured \/ (again /\ sweep.pc = "count"))
    OBVIOUS
  <2> HIDE DEF m
  <2> QED BY <1>3, <2>1, <2>2 DEF Sweeps
<1>5. dir_bytes' = dir_bytes /\ PartBytes(UnsettledParts)' = PartBytes(UnsettledParts)
  BY DEF dir_bytes, PartBytes, BytesOf
<1>6. /\ dir_bytes \in Nat /\ usedBytes \in Nat /\ miscounted \in Nat
      /\ PartBytes(UnsettledParts) \in Nat
  BY CountTypes
<1> HIDE DEF again
<1>7. CASE again
  <2>1. usedBytes' = dir_bytes /\ miscounted' = 0 /\ (sweep'.pc = "count" => sweep'.measured)
    BY <1>2, <1>4, <1>7
  <2>2. dir_bytes <= dir_bytes + PartBytes(UnsettledParts) + 0
    BY <1>6
  <2> QED BY <1>4, <1>5, <1>6, <2>1, <2>2 DEF CountedBytes
<1>8. CASE ~again
  <2>1. usedBytes' = usedBytes /\ miscounted' = miscounted /\ sweep'.measured = sweep.measured
    BY <1>2, <1>3, <1>4, <1>8 DEF Sweeps
  <2> QED BY <1>4, <1>5, <1>6, <2>1 DEF CountedBytes
<1> QED BY <1>1, <1>7, <1>8

(* Nothing that was recorded or is being recorded leaves the store unseen. *)
LEMMA RecordsStay ==
    ASSUME RecordedParts, onDisk \cup removed \subseteq onDisk' \cup removed', rowLeft \subseteq onDisk' \cup rowLeft',
           \A s \in Slots : slot'[s].pc \in {"settle", "record"} => slot'[s].part \in onDisk' \cup removed',
           commit' \in {commit, NoPart} \/ commit' \in onDisk',
           tier' = tier, sweep'.part = sweep.part,
           sweep.pc \in {"count", "sync", "row"} => sweep'.pc \in {"count", "sync", "row"}
    PROVE  RecordedParts'
PROOF
<1>1. CataloguedIsStored'
  BY DEF RecordedParts, CataloguedIsStored
<1>2. commit' # NoPart => commit' \in onDisk' \cup removed'
  BY DEF RecordedParts
<1> QED BY <1>1, <1>2 DEF RecordedParts

(* An empty store satisfies the invariant.                                 *)
LEMMA PartsInitially == ASSUME PartsInit PROVE PartsInvariant
PROOF
<1>1. \A s \in Slots : slot[s] = Idle
  BY DEF PartsInit
<1>2. Idle \in Requests /\ Idle.pc = "idle" /\ NoSweep \in Sweeps /\ NoSweep.pc = "idle"
  BY DEF Idle, Requests, RequestSteps, NoSweep, Sweeps
<1>3. HeldParts = {} /\ UnsettledParts = {}
  BY <1>1, <1>2 DEF HeldParts, UnsettledParts, Holds, Unsettles
<1>4. PartsShape
  BY <1>2 DEF PartsInit, PartsShape
<1>5. SlotShape
  BY <1>1, <1>2 DEF PartsInit, SlotShape
<1>6. Arrivals
  BY <1>1, <1>2 DEF Arrivals, Begun
<1>7. HeldBytes
  BY <1>3, BytesNone DEF PartsInit, HeldBytes
<1>8. CountedBytes
  <2>1. dir_bytes = 0 /\ PartBytes(UnsettledParts) = 0
    BY <1>3, BytesNone DEF PartsInit, dir_bytes
  <2>2. usedBytes = 0 /\ miscounted = 0 /\ sweep.pc # "count"
    BY <1>2 DEF PartsInit
  <2> QED BY <2>1, <2>2 DEF CountedBytes
<1>9. RecordedParts
  BY <1>1, <1>2 DEF PartsInit, RecordedParts, CataloguedIsStored
<1> QED BY <1>4, <1>5, <1>6, <1>7, <1>8, <1>9 DEF PartsInvariant

(* Handing out or refusing a URL, and a token expiring, keep it.           *)
LEMMA PresignKeeps ==
    ASSUME PartsInvariant, NEW p \in Parts, Presign(p) \/ PresignRefused(p) \/ TokenExpires(p)
    PROVE  PartsInvariant'
PROOF
<1>1. /\ UNCHANGED <<onDisk, slot, arriving, reserved, tier, commit, removed, rowLeft>>
      /\ tokens' \subseteq tokens \cup {p}
  BY DEF Presign, PresignRefused, TokenExpires, storeVars
<1>2. SlotShape' /\ Arrivals' /\ HeldBytes' /\ UnsettledParts' = UnsettledParts
  BY <1>1, SlotsStay DEF PartsInvariant
<1>3. /\ CountedBytes' /\ usedBytes' \in Nat /\ miscounted' \in Nat
      /\ sweep' \in Sweeps /\ sweep'.pc = sweep.pc /\ sweep'.part = sweep.part
  <2>1. CASE Presign(p) \/ PresignRefused(p)
    <3>1. PICK remeasure \in BOOLEAN : RoomForParts(PartSize[p], remeasure)
      BY <2>1 DEF Presign, PresignRefused
    <3> QED BY <1>1, <1>2, <3>1, RoomCounts DEF PartsInvariant
  <2>2. CASE TokenExpires(p)
    <3>1. UNCHANGED <<usedBytes, miscounted, sweep>>
      BY <2>2 DEF TokenExpires, storeVars
    <3> QED BY <1>1, <1>2, <3>1, CountsStay DEF PartsInvariant, PartsShape
  <2> QED BY <2>1, <2>2
<1>4. PartsShape'
  BY <1>1, <1>3 DEF PartsInvariant, PartsShape
<1>5. RecordedParts'
  BY <1>1, <1>3, RecordsStay DEF PartsInvariant, RecordedParts
<1> QED BY <1>2, <1>3, <1>4, <1>5 DEF PartsInvariant

(* A request that moves with the store and the counters as they are.       *)
LEMMA MoveKeeps ==
    ASSUME PartsInvariant, NEW s \in Slots, NEW r \in Requests, slot' = [slot EXCEPT ![s] = r],
           r.pc # "idle" => r.part \in Parts,
           Holds(r) = Holds(slot[s]), Holds(r) => r.part = slot[s].part,
           ~Unsettles(r), ~Unsettles(slot[s]),
           arriving' \subseteq Parts,
           \A t \in Slots : t # s /\ Begun(slot[t]) => slot[t].part \in arriving',
           Begun(r) => r.part \in arriving',
           Begun(r) => \A t \in Slots : t # s /\ Begun(slot[t]) => slot[t].part # r.part,
           r.pc \in {"settle", "record"} => r.part \in onDisk \cup removed,
           UNCHANGED <<onDisk, usedBytes, reserved, miscounted, commit, sweep, tokens, removed, rowLeft>>, tier' = tier
    PROVE  PartsInvariant'
PROOF
<1>1. slot \in [Slots -> Requests]
  BY DEF PartsInvariant, SlotShape
<1>2. HeldParts' = HeldParts /\ UnsettledParts' = UnsettledParts
  <2>1. /\ HeldParts = HeldBut(s) \cup (IF Holds(slot[s]) THEN {slot[s].part} ELSE {})
        /\ HeldParts' = HeldBut(s) \cup (IF Holds(r) THEN {r.part} ELSE {})
        /\ UnsettledParts = UnsettledBut(s) \cup (IF Unsettles(slot[s]) THEN {slot[s].part} ELSE {})
        /\ UnsettledParts' = UnsettledBut(s) \cup (IF Unsettles(r) THEN {r.part} ELSE {})
    BY <1>1, SlotMoves
  <2> QED BY <2>1
<1>3. SlotShape' /\ Arrivals'
  BY SlotShapeMoves DEF PartsInvariant
<1>4. HeldBytes'
  BY <1>2 DEF PartsInvariant, HeldBytes, PartBytes, BytesOf
<1>5. CountedBytes'
  BY <1>2, CountsStay DEF PartsInvariant
<1>6. PartsShape'
  BY DEF PartsInvariant, PartsShape
<1>7. RecordedParts'
  <2>1. \A t \in Slots : slot'[t].pc \in {"settle", "record"} => slot'[t].part \in onDisk' \cup removed'
    BY <1>1 DEF PartsInvariant, RecordedParts
  <2> QED BY <2>1, RecordsStay DEF PartsInvariant
<1> QED BY <1>3, <1>4, <1>5, <1>6, <1>7 DEF PartsInvariant

(* The head of an upload or of a replication fetch keeps it.               *)
LEMMA HeadKeeps ==
    ASSUME PartsInvariant, NEW s \in Slots, NEW p \in Parts, UploadHead(s, p) \/ FetchHead(s, p)
    PROVE  PartsInvariant'
PROOF
<1>1. slot \in [Slots -> Requests] /\ slot[s].pc = "idle"
  BY DEF PartsInvariant, SlotShape, UploadHead, FetchHead
<1>2. /\ UNCHANGED <<onDisk, usedBytes, reserved, arriving, miscounted, commit, sweep, tokens, removed, rowLeft>>
      /\ tier' = tier
  BY DEF UploadHead, FetchHead, storeVars, centralVars
<1>3. Idle \in Requests
  BY DEF Idle, Requests, RequestSteps
<1>4. PICK step \in {"begin", "record"} :
         /\ slot' = [slot EXCEPT ![s] = [Idle EXCEPT !.pc = step, !.part = p]]
         /\ step = "record" => p \in onDisk
  <2>1. CASE UploadHead(s, p)
    BY <2>1 DEF UploadHead
  <2>2. CASE FetchHead(s, p)
    BY <2>2 DEF FetchHead
  <2> QED BY <2>1, <2>2
<1>5. PICK r : r = [Idle EXCEPT !.pc = step, !.part = p]
  OBVIOUS
<1>6. r \in Requests /\ r.part = p /\ r.pc = step /\ r.pc \in {"begin", "record"} /\ slot' = [slot EXCEPT ![s] = r]
  BY <1>3, <1>4, <1>5 DEF Requests, RequestSteps
<1>7. ~Holds(r) /\ ~Unsettles(r) /\ ~Holds(slot[s]) /\ ~Unsettles(slot[s]) /\ ~Begun(r)
  BY <1>1, <1>6 DEF Holds, Unsettles, Begun
<1>8. r.pc \in {"settle", "record"} => r.part \in onDisk \cup removed
  BY <1>4, <1>6
<1>9. arriving' \subseteq Parts /\ \A t \in Slots : t # s /\ Begun(slot[t]) => slot[t].part \in arriving'
  BY <1>2 DEF PartsInvariant, SlotShape, Arrivals
<1>10. Holds(r) = Holds(slot[s])
  BY <1>7 DEF Holds
<1> HIDE DEF PartsInvariant
<1> QED BY <1>2, <1>6, <1>7, <1>8, <1>9, <1>10, MoveKeeps

(* Entering a part as arriving, or finding it there, keeps it.             *)
LEMMA BeginKeeps == ASSUME PartsInvariant, NEW s \in Slots, Begin(s) PROVE PartsInvariant'
PROOF
<1>1. /\ slot \in [Slots -> Requests] /\ slot[s].pc = "begin" /\ slot[s].part \in Parts /\ slot[s] \in Requests
      /\ UNCHANGED <<onDisk, usedBytes, reserved, miscounted, commit, sweep, tokens, removed, rowLeft>>
      /\ tier' = tier
  BY DEF PartsInvariant, SlotShape, Begin, centralVars
<1>2. ~Holds(slot[s]) /\ ~Unsettles(slot[s]) /\ ~Begun(slot[s])
  BY <1>1 DEF Holds, Unsettles, Begun
<1>3. CASE slot[s].part \in arriving
  <2>1. PICK r : r = [slot[s] EXCEPT !.pc = "idle"]
    OBVIOUS
  <2>2. r \in Requests /\ r.pc = "idle" /\ slot' = [slot EXCEPT ![s] = r] /\ arriving' = arriving
    BY <1>1, <1>3, <2>1 DEF Begin, Goes, Requests, RequestSteps
  <2>3. ~Holds(r) /\ ~Unsettles(r) /\ ~Begun(r) /\ r.pc \notin {"settle", "record"}
    BY <2>2 DEF Holds, Unsettles, Begun
  <2>4. arriving' \subseteq Parts /\ \A t \in Slots : t # s /\ Begun(slot[t]) => slot[t].part \in arriving'
    BY <2>2 DEF PartsInvariant, SlotShape, Arrivals
  <2>5. Holds(r) = Holds(slot[s])
    BY <1>2, <2>3 DEF Holds
  <2> QED BY <1>1, <1>2, <2>2, <2>3, <2>4, <2>5, MoveKeeps
<1>4. CASE slot[s].part \notin arriving
  <2>1. PICK r : r = [slot[s] EXCEPT !.pc = "room"]
    OBVIOUS
  <2>2. /\ r \in Requests /\ r.pc = "room" /\ r.part = slot[s].part /\ slot' = [slot EXCEPT ![s] = r]
        /\ arriving' = arriving \cup {slot[s].part}
    BY <1>1, <1>4, <2>1 DEF Begin, Goes, Requests, RequestSteps
  <2>3. ~Holds(r) /\ ~Unsettles(r) /\ r.pc \notin {"settle", "record"} /\ r.part \in arriving' /\ r.part \in Parts
    BY <1>1, <2>2 DEF Holds, Unsettles
  <2>4. \A t \in Slots : t # s /\ Begun(slot[t]) => slot[t].part # r.part /\ slot[t].part \in arriving'
    BY <1>4, <2>2 DEF PartsInvariant, Arrivals
  <2>5. arriving' \subseteq Parts
    BY <1>1, <2>2 DEF PartsInvariant, SlotShape
  <2>6. Holds(r) = Holds(slot[s])
    BY <1>2, <2>3 DEF Holds
  <2> QED BY <1>1, <1>2, <2>2, <2>3, <2>4, <2>5, <2>6, MoveKeeps
<1> QED BY <1>3, <1>4

(* A body that has arrived keeps it.                                       *)
LEMMA ArriveKeeps == ASSUME PartsInvariant, NEW s \in Slots, BodyArrives(s) PROVE PartsInvariant'
PROOF
<1>1. /\ slot \in [Slots -> Requests] /\ slot[s].pc = "body" /\ slot[s].part \in Parts /\ slot[s] \in Requests
      /\ UNCHANGED <<onDisk, usedBytes, reserved, miscounted, commit, sweep, tokens, removed, rowLeft>>
      /\ tier' = tier /\ arriving' = arriving
  BY DEF PartsInvariant, SlotShape, BodyArrives, centralVars, storeVars
<1>2. PICK r : r = [slot[s] EXCEPT !.pc = "install"]
  OBVIOUS
<1>3. r \in Requests /\ r.pc = "install" /\ r.part = slot[s].part /\ slot' = [slot EXCEPT ![s] = r]
  BY <1>1, <1>2 DEF BodyArrives, Goes, Requests, RequestSteps
<1>4. Holds(r) /\ Holds(slot[s]) /\ ~Unsettles(r) /\ ~Unsettles(slot[s]) /\ Begun(slot[s])
  BY <1>1, <1>3 DEF Holds, Unsettles, Begun
<1>5. \A t \in Slots : t # s /\ Begun(slot[t]) => slot[t].part # r.part
  BY <1>3, <1>4 DEF PartsInvariant, Arrivals
<1>6. /\ arriving' \subseteq Parts /\ r.part \in arriving'
      /\ \A t \in Slots : t # s /\ Begun(slot[t]) => slot[t].part \in arriving'
  BY <1>1, <1>3, <1>4 DEF PartsInvariant, SlotShape, Arrivals
<1>7. Holds(r) = Holds(slot[s])
  BY <1>4 DEF Holds
<1>8. r.pc \notin {"settle", "record"} /\ r.part \in Parts
  BY <1>1, <1>3
<1> QED BY <1>1, <1>3, <1>4, <1>5, <1>6, <1>7, <1>8, MoveKeeps

(* Recording a replicated part keeps it.                                   *)
LEMMA ReplicatedKeeps == ASSUME PartsInvariant, NEW s \in Slots, RecordReplicated(s) PROVE PartsInvariant'
PROOF
<1>1. /\ slot \in [Slots -> Requests] /\ slot[s].pc = "record" /\ slot[s].part \in Parts
      /\ UNCHANGED <<onDisk, usedBytes, reserved, arriving, miscounted, commit, sweep, tokens, removed, rowLeft>>
      /\ slot' = [slot EXCEPT ![s] = Idle]
  BY DEF PartsInvariant, SlotShape, RecordReplicated, storeVars
<1>2. Idle \in Requests /\ Idle.pc = "idle"
  BY DEF Idle, Requests, RequestSteps
<1>3. ~Holds(Idle) /\ ~Unsettles(Idle) /\ ~Holds(slot[s]) /\ ~Unsettles(slot[s]) /\ ~Begun(Idle)
  BY <1>1, <1>2 DEF Holds, Unsettles, Begun
<1>4. HeldParts' = HeldParts /\ UnsettledParts' = UnsettledParts
  BY <1>1, <1>2, <1>3, SlotMoves
<1>5. SlotShape' /\ Arrivals'
  BY <1>1, <1>2, <1>3, SlotShapeMoves DEF PartsInvariant, SlotShape, Arrivals
<1>6. HeldBytes'
  BY <1>1, <1>4 DEF PartsInvariant, HeldBytes, PartBytes, BytesOf
<1>7. CountedBytes'
  BY <1>1, <1>4, CountsStay DEF PartsInvariant
<1>8. PICK t \in {"warm", "cold"} : tier' = [tier EXCEPT ![slot[s].part] = IF @ = "none" THEN t ELSE @]
  BY DEF RecordReplicated
<1>9. tier' \in [Parts -> {"none", "warm", "cold"}] /\ \A p \in Parts : p # slot[s].part => tier'[p] = tier[p]
  BY <1>1, <1>8 DEF PartsInvariant, PartsShape
<1>10. PartsShape'
  BY <1>1, <1>9 DEF PartsInvariant, PartsShape
<1>11. slot[s].part \in onDisk \cup removed
  BY <1>1 DEF PartsInvariant, RecordedParts
<1>12. CataloguedIsStored'
  BY <1>1, <1>9, <1>11 DEF PartsInvariant, RecordedParts, CataloguedIsStored
<1>13. \A u \in Slots : slot'[u].pc \in {"settle", "record"} => slot'[u].part \in onDisk' \cup removed'
  BY <1>1, <1>2 DEF PartsInvariant, RecordedParts
<1>14. RecordedParts'
  BY <1>1, <1>12, <1>13 DEF PartsInvariant, RecordedParts
<1> QED BY <1>5, <1>6, <1>7, <1>10, <1>14 DEF PartsInvariant

(* What a begun request's move does to the bytes held and not settled.     *)
LEMMA MovedBytes ==
    ASSUME SlotShape, Arrivals, NEW s \in Slots, NEW r \in Requests, slot' = [slot EXCEPT ![s] = r],
           Begun(slot[s]), r.part = slot[s].part \/ (~Holds(r) /\ ~Unsettles(r))
    PROVE  \E h, u \in Nat :
              /\ PartBytes(HeldParts) = h + (IF Holds(slot[s]) THEN PartSize[slot[s].part] ELSE 0)
              /\ PartBytes(HeldParts') = h + (IF Holds(r) THEN PartSize[slot[s].part] ELSE 0)
              /\ PartBytes(UnsettledParts) = u + (IF Unsettles(slot[s]) THEN PartSize[slot[s].part] ELSE 0)
              /\ PartBytes(UnsettledParts') = u + (IF Unsettles(r) THEN PartSize[slot[s].part] ELSE 0)
PROOF
<1> DEFINE p == slot[s].part
           hs == HeldBut(s)
           us == UnsettledBut(s)
<1>1. slot \in [Slots -> Requests]
  BY DEF SlotShape
<1>2. hs \in SUBSET Parts /\ us \in SUBSET Parts /\ p \in Parts /\ p \notin hs /\ p \notin us
  BY SlotApart
<1>3. PartBytes(hs) \in Nat /\ PartBytes(us) \in Nat /\ PartSize[p] \in Nat
  BY <1>2, BytesFinite, PartsStoreAssumption
<1>4. PartBytes(hs \cup {p}) = PartBytes(hs) + PartSize[p] /\ PartBytes(us \cup {p}) = PartBytes(us) + PartSize[p]
  BY <1>2, BytesAdd
<1>5. /\ HeldParts = hs \cup (IF Holds(slot[s]) THEN {p} ELSE {})
      /\ HeldParts' = hs \cup (IF Holds(r) THEN {r.part} ELSE {})
      /\ UnsettledParts = us \cup (IF Unsettles(slot[s]) THEN {p} ELSE {})
      /\ UnsettledParts' = us \cup (IF Unsettles(r) THEN {r.part} ELSE {})
  BY <1>1, SlotMoves
<1>6. /\ HeldParts = IF Holds(slot[s]) THEN hs \cup {p} ELSE hs
      /\ HeldParts' = IF Holds(r) THEN hs \cup {p} ELSE hs
      /\ UnsettledParts = IF Unsettles(slot[s]) THEN us \cup {p} ELSE us
      /\ UnsettledParts' = IF Unsettles(r) THEN us \cup {p} ELSE us
  BY <1>5
<1> HIDE DEF p, hs, us
<1>7. PartBytes(hs) + 0 = PartBytes(hs) /\ PartBytes(us) + 0 = PartBytes(us)
  BY <1>3
<1>8. /\ PartBytes(HeldParts) = PartBytes(hs) + (IF Holds(slot[s]) THEN PartSize[p] ELSE 0)
      /\ PartBytes(HeldParts') = PartBytes(hs) + (IF Holds(r) THEN PartSize[p] ELSE 0)
      /\ PartBytes(UnsettledParts) = PartBytes(us) + (IF Unsettles(slot[s]) THEN PartSize[p] ELSE 0)
      /\ PartBytes(UnsettledParts') = PartBytes(us) + (IF Unsettles(r) THEN PartSize[p] ELSE 0)
  BY <1>4, <1>6, <1>7
<1> QED BY <1>3, <1>8 DEF p

(* Reserving room, or refusing the request, keeps it.                      *)
LEMMA ReserveKeeps == ASSUME PartsInvariant, NEW s \in Slots, Reserve(s) PROVE PartsInvariant'
PROOF
<1> DEFINE p == slot[s].part
<1>1. /\ slot \in [Slots -> Requests] /\ slot[s].pc = "room" /\ p \in Parts /\ slot[s] \in Requests
      /\ UNCHANGED <<onDisk, commit, tokens, removed, rowLeft>> /\ tier' = tier
  BY DEF PartsInvariant, SlotShape, Reserve
<1>2. PICK remeasure \in BOOLEAN :
        /\ RoomForParts(PartSize[p], remeasure)
        /\ \/ Goes(s, "idle") /\ arriving' = arriving \ {p} /\ reserved' = reserved
           \/ Goes(s, "body") /\ reserved' = reserved + PartSize[p] /\ arriving' = arriving
  BY DEF Reserve
<1>3. ~Holds(slot[s]) /\ ~Unsettles(slot[s]) /\ Begun(slot[s])
  BY <1>1 DEF Holds, Unsettles, Begun
<1>4. PICK r \in Requests :
        /\ slot' = [slot EXCEPT ![s] = r] /\ r.part = p
        /\ \/ r.pc = "idle" /\ arriving' = arriving \ {p} /\ reserved' = reserved
           \/ r.pc = "body" /\ reserved' = reserved + PartSize[p] /\ arriving' = arriving
  <2>1. CASE Goes(s, "idle") /\ arriving' = arriving \ {p} /\ reserved' = reserved
    <3>1. PICK r : r = [slot[s] EXCEPT !.pc = "idle"]
      OBVIOUS
    <3>2. r \in Requests /\ r.pc = "idle" /\ r.part = p /\ slot' = [slot EXCEPT ![s] = r]
      BY <1>1, <2>1, <3>1 DEF Goes, Requests, RequestSteps
    <3> QED BY <2>1, <3>2
  <2>2. CASE Goes(s, "body") /\ reserved' = reserved + PartSize[p] /\ arriving' = arriving
    <3>1. PICK r : r = [slot[s] EXCEPT !.pc = "body"]
      OBVIOUS
    <3>2. r \in Requests /\ r.pc = "body" /\ r.part = p /\ slot' = [slot EXCEPT ![s] = r]
      BY <1>1, <2>2, <3>1 DEF Goes, Requests, RequestSteps
    <3> QED BY <2>2, <3>2
  <2> QED BY <1>2, <2>1, <2>2
<1>5. ~Unsettles(r) /\ (Holds(r) <=> r.pc = "body") /\ (Begun(r) <=> r.pc = "body") /\ r.pc \notin {"settle", "record"}
  BY <1>4 DEF Holds, Unsettles, Begun
<1>6. \A t \in Slots : t # s /\ Begun(slot[t]) => slot[t].part # p /\ slot[t].part \in arriving
  BY <1>3 DEF PartsInvariant, Arrivals
<1>7. p \in arriving /\ arriving \subseteq Parts
  BY <1>3 DEF PartsInvariant, Arrivals, SlotShape
<1>8. SlotShape' /\ Arrivals'
  <2>1. arriving' \subseteq Parts /\ \A t \in Slots : t # s /\ Begun(slot[t]) => slot[t].part \in arriving'
    BY <1>4, <1>6, <1>7
  <2>2. Begun(r) => r.part \in arriving'
    BY <1>4, <1>5, <1>7
  <2>3. Begun(r) => \A t \in Slots : t # s /\ Begun(slot[t]) => slot[t].part # r.part
    BY <1>4, <1>6
  <2>4. r.pc # "idle" => r.part \in Parts
    BY <1>1, <1>4
  <2> QED BY <1>4, <2>1, <2>2, <2>3, <2>4, SlotShapeMoves DEF PartsInvariant
<1>9. UnsettledParts' = UnsettledParts
  BY <1>1, <1>3, <1>4, <1>5, SlotMoves
<1>10. PICK h, u \in Nat :
        /\ PartBytes(HeldParts) = h + (IF Holds(slot[s]) THEN PartSize[p] ELSE 0)
        /\ PartBytes(HeldParts') = h + (IF Holds(r) THEN PartSize[p] ELSE 0)
  BY <1>3, <1>4, MovedBytes DEF PartsInvariant
<1>11. HeldBytes'
  <2>1. reserved = h
    BY <1>3, <1>10 DEF PartsInvariant, HeldBytes
  <2>2. PartSize[p] \in Nat
    BY <1>1, PartsStoreAssumption
  <2>3. reserved' = PartBytes(HeldParts')
    BY <1>4, <1>5, <1>10, <2>1, <2>2
  <2> QED BY <2>3 DEF HeldBytes, PartBytes, BytesOf
<1>12. /\ CountedBytes' /\ usedBytes' \in Nat /\ miscounted' \in Nat
       /\ sweep' \in Sweeps /\ sweep'.pc = sweep.pc /\ sweep'.part = sweep.part
  BY <1>1, <1>2, <1>9, RoomCounts DEF PartsInvariant
<1>13. PartsShape'
  BY <1>1, <1>12 DEF PartsInvariant, PartsShape
<1>14. RecordedParts'
  <2>1. \A t \in Slots : slot'[t].pc \in {"settle", "record"} => slot'[t].part \in onDisk' \cup removed'
    BY <1>1, <1>4, <1>5 DEF PartsInvariant, RecordedParts
  <2> QED BY <1>1, <1>12, <2>1, RecordsStay DEF PartsInvariant
<1> QED BY <1>8, <1>11, <1>12, <1>13, <1>14 DEF PartsInvariant

(* A request that held its bytes gives them back.                          *)
LEMMA GivesBack ==
    ASSUME PartsInvariant, NEW s \in Slots, NEW r \in Requests, slot' = [slot EXCEPT ![s] = r],
           Holds(slot[s]), ~Begun(r), r.pc # "idle" => r.part = slot[s].part,
           reserved' = Unsettled(s), arriving' = arriving \ {slot[s].part}
    PROVE  SlotShape' /\ Arrivals' /\ HeldBytes'
PROOF
<1> DEFINE p == slot[s].part
<1>1. Begun(slot[s]) /\ p \in Parts
  BY DEF Holds, Begun, PartsInvariant, SlotShape
<1>2. \A t \in Slots : t # s /\ Begun(slot[t]) => slot[t].part # p /\ slot[t].part \in arriving
  BY <1>1 DEF PartsInvariant, Arrivals
<1>3. SlotShape' /\ Arrivals'
  <2>1. arriving' \subseteq Parts /\ \A t \in Slots : t # s /\ Begun(slot[t]) => slot[t].part \in arriving'
    BY <1>2 DEF PartsInvariant, SlotShape
  <2> QED BY <1>1, <2>1, SlotShapeMoves DEF PartsInvariant
<1>4. ~Holds(r) /\ ~Unsettles(r)
  BY DEF Holds, Unsettles, Begun
<1>5. PICK h, u \in Nat :
        /\ PartBytes(HeldParts) = h + (IF Holds(slot[s]) THEN PartSize[p] ELSE 0)
        /\ PartBytes(HeldParts') = h + (IF Holds(r) THEN PartSize[p] ELSE 0)
  BY <1>1, <1>4, MovedBytes DEF PartsInvariant
<1>6. PartSize[p] \in Nat
  BY <1>1, PartsStoreAssumption
<1>7. reserved = h + PartSize[p] /\ reserved' = reserved - PartSize[p] /\ PartBytes(HeldParts') = h + 0
  BY <1>4, <1>5 DEF PartsInvariant, HeldBytes, Unsettled
<1>8. reserved' = PartBytes(HeldParts')
  BY <1>6, <1>7
<1>9. HeldBytes'
  BY <1>8 DEF HeldBytes, PartBytes, BytesOf
<1> QED BY <1>3, <1>9

(* A body that fails gives the reservation back and keeps it.              *)
LEMMA FailKeeps == ASSUME PartsInvariant, NEW s \in Slots, BodyFails(s) PROVE PartsInvariant'
PROOF
<1>1. /\ slot \in [Slots -> Requests] /\ slot[s].pc = "body"
      /\ UNCHANGED <<onDisk, usedBytes, miscounted, commit, sweep, tokens, removed, rowLeft>> /\ tier' = tier
      /\ slot' = [slot EXCEPT ![s] = Idle] /\ reserved' = Unsettled(s) /\ arriving' = arriving \ {slot[s].part}
  BY DEF PartsInvariant, SlotShape, BodyFails, Ended, centralVars
<1>2. Idle \in Requests /\ Idle.pc = "idle"
  BY DEF Idle, Requests, RequestSteps
<1>3. Holds(slot[s]) /\ ~Unsettles(slot[s]) /\ ~Begun(Idle) /\ ~Unsettles(Idle)
  BY <1>1, <1>2 DEF Holds, Unsettles, Begun
<1>4. SlotShape' /\ Arrivals' /\ HeldBytes'
  BY <1>1, <1>2, <1>3, GivesBack
<1>5. UnsettledParts' = UnsettledParts
  <2>1. /\ UnsettledParts = UnsettledBut(s) \cup (IF Unsettles(slot[s]) THEN {slot[s].part} ELSE {})
        /\ UnsettledParts' = UnsettledBut(s) \cup (IF Unsettles(Idle) THEN {Idle.part} ELSE {})
    BY <1>1, <1>2, SlotMoves
  <2> QED BY <1>3, <2>1
<1>6. CountedBytes'
  BY <1>1, <1>5, CountsStay DEF PartsInvariant
<1>7. PartsShape'
  BY <1>1 DEF PartsInvariant, PartsShape
<1>8. RecordedParts'
  <2>1. \A t \in Slots : slot'[t].pc \in {"settle", "record"} => slot'[t].part \in onDisk' \cup removed'
    BY <1>1, <1>2 DEF PartsInvariant, RecordedParts
  <2> QED BY <1>1, <2>1, RecordsStay DEF PartsInvariant
<1> QED BY <1>4, <1>6, <1>7, <1>8 DEF PartsInvariant

(* Settling moves the bytes from reserved to used and keeps it.            *)
LEMMA SettleKeeps == ASSUME PartsInvariant, NEW s \in Slots, SettlePart(s) PROVE PartsInvariant'
PROOF
<1> DEFINE p == slot[s].part
<1>1. /\ slot \in [Slots -> Requests] /\ slot[s].pc = "settle" /\ slot[s] \in Requests /\ p \in Parts
      /\ UNCHANGED <<onDisk, miscounted, commit, sweep, tokens, removed, rowLeft>> /\ tier' = tier
      /\ reserved' = Unsettled(s) /\ arriving' = arriving \ {p} /\ usedBytes' = SettledPart(s)
  BY DEF PartsInvariant, SlotShape, SettlePart, centralVars
<1>2. Idle \in Requests /\ Idle.pc = "idle"
  BY DEF Idle, Requests, RequestSteps
<1>3. PICK r \in Requests : slot' = [slot EXCEPT ![s] = r] /\ (r.pc = "idle" \/ (r.pc = "record" /\ r.part = p))
  <2>1. CASE slot' = [slot EXCEPT ![s] = Idle]
    BY <1>2, <2>1
  <2>2. CASE Goes(s, "record")
    <3>1. PICK r : r = [slot[s] EXCEPT !.pc = "record"]
      OBVIOUS
    <3>2. r \in Requests /\ r.pc = "record" /\ r.part = p /\ slot' = [slot EXCEPT ![s] = r]
      BY <1>1, <2>2, <3>1 DEF Goes, Requests, RequestSteps
    <3> QED BY <3>2
  <2> QED BY <2>1, <2>2 DEF SettlePart
<1>4. Holds(slot[s]) /\ Begun(slot[s]) /\ ~Begun(r) /\ ~Unsettles(r) /\ ~Holds(r)
  BY <1>1, <1>3 DEF Holds, Unsettles, Begun
<1>5. SlotShape' /\ Arrivals' /\ HeldBytes'
  BY <1>1, <1>3, <1>4, GivesBack
<1>6. PICK h, u \in Nat :
        /\ PartBytes(UnsettledParts) = u + (IF Unsettles(slot[s]) THEN PartSize[p] ELSE 0)
        /\ PartBytes(UnsettledParts') = u + (IF Unsettles(r) THEN PartSize[p] ELSE 0)
  BY <1>3, <1>4, MovedBytes DEF PartsInvariant
<1>7. /\ dir_bytes \in Nat /\ usedBytes \in Nat /\ miscounted \in Nat
      /\ \A q \in Parts : PartSize[q] \in Nat
  BY CountTypes DEF PartsInvariant
<1>8. usedBytes' \in Nat /\ usedBytes' >= usedBytes + (IF Unsettles(slot[s]) THEN PartSize[p] ELSE 0)
  <2>1. PartSize[p] \in Nat
    BY <1>1, <1>7
  <2>2. usedBytes' = usedBytes + (IF Counts(s) THEN PartSize[p] ELSE 0) /\ (Unsettles(slot[s]) => Counts(s))
    BY <1>1 DEF SettledPart, Counts, Unsettles
  <2> QED BY <1>7, <2>1, <2>2
<1>9. usedBytes' + PartBytes(UnsettledParts') >= usedBytes + PartBytes(UnsettledParts)
      /\ PartBytes(UnsettledParts) \in Nat /\ PartBytes(UnsettledParts') \in Nat
  <2>1. PartSize[p] \in Nat
    BY <1>1, <1>7
  <2>2. PartBytes(UnsettledParts') = u
    BY <1>4, <1>6
  <2> QED BY <1>6, <1>7, <1>8, <2>1, <2>2
<1>10. CountedBytes'
  <2>1. dir_bytes' = dir_bytes /\ PartBytes(UnsettledParts)' = PartBytes(UnsettledParts')
    BY <1>1 DEF dir_bytes, PartBytes, BytesOf
  <2>2. sweep.pc # "idle" => PartSize[sweep.part] \in Nat
    BY <1>7 DEF PartsInvariant, PartsShape
  <2>3. dir_bytes' <= usedBytes' + PartBytes(UnsettledParts') + miscounted
    BY <1>7, <1>8, <1>9, <2>1 DEF PartsInvariant, CountedBytes
  <2>4. sweep.pc = "count" /\ ~sweep.measured =>
            dir_bytes' + PartSize[sweep.part] <= usedBytes' + PartBytes(UnsettledParts') + miscounted
    BY <1>7, <1>8, <1>9, <2>1, <2>2 DEF PartsInvariant, CountedBytes
  <2> QED BY <1>1, <2>1, <2>3, <2>4 DEF CountedBytes
<1>11. PartsShape'
  BY <1>1, <1>8 DEF PartsInvariant, PartsShape
<1>12. RecordedParts'
  <2>1. \A t \in Slots : slot'[t].pc \in {"settle", "record"} => slot'[t].part \in onDisk' \cup removed'
    BY <1>1, <1>3 DEF PartsInvariant, RecordedParts
  <2> QED BY <1>1, <2>1, RecordsStay DEF PartsInvariant
<1> QED BY <1>5, <1>10, <1>11, <1>12 DEF PartsInvariant

(* Installing a part keeps it, whether the part was there or not and       *)
(* whether the rename fails or not.                                        *)
LEMMA PartInstallKeeps ==
    ASSUME PartsInvariant, NEW s \in Slots, NEW fails \in BOOLEAN, Install(s, fails)
    PROVE  PartsInvariant'
PROOF
<1> DEFINE p == slot[s].part
           there == p \in onDisk
<1>1. /\ slot \in [Slots -> Requests] /\ slot[s].pc = "install" /\ slot[s] \in Requests /\ p \in Parts
      /\ UNCHANGED <<usedBytes, commit, sweep, tokens, removed>> /\ tier' = tier /\ rowLeft' = rowLeft \ {p}
      /\ reserved' = reserved /\ arriving' = arriving
      /\ onDisk' = onDisk \cup {p} /\ (fails => ~there)
      /\ miscounted' = IF fails THEN miscounted + PartSize[p] ELSE miscounted
  BY DEF PartsInvariant, SlotShape, Install, centralVars
<1>2. PICK r \in Requests :
         /\ slot' = [slot EXCEPT ![s] = r] /\ r.pc = "settle" /\ r.part = p
         /\ r.outcome = "installed" <=> (~there /\ ~fails)
  <2>1. PICK o : o = IF there THEN "other" ELSE IF fails THEN "failed" ELSE "installed"
    OBVIOUS
  <2>2. PICK r : r = [slot[s] EXCEPT !.pc = "settle", !.outcome = o]
    OBVIOUS
  <2>3. slot' = [slot EXCEPT ![s].pc = "settle", ![s].outcome = o]
    BY <2>1 DEF Install
  <2>4. o \in {"none", "installed", "other", "failed"} /\ (o = "installed" <=> (~there /\ ~fails))
    BY <2>1
  <2>5. r \in Requests /\ r.pc = "settle" /\ r.part = p /\ r.outcome = o
    BY <1>1, <2>2, <2>4 DEF Requests, RequestSteps
  <2>6. slot' = [slot EXCEPT ![s] = r]
    BY <1>1, <2>2, <2>3
  <2> QED BY <2>4, <2>5, <2>6
<1>3. Holds(slot[s]) /\ Begun(slot[s]) /\ ~Unsettles(slot[s]) /\ Begun(r) /\ Holds(r)
      /\ (Unsettles(r) <=> (~there /\ ~fails))
  BY <1>1, <1>2 DEF Holds, Unsettles, Begun
<1>4. SlotShape' /\ Arrivals'
  <2>1. \A t \in Slots : t # s /\ Begun(slot[t]) => slot[t].part # r.part
    BY <1>2, <1>3 DEF PartsInvariant, Arrivals
  <2>2. \A t \in Slots : Begun(slot[t]) => slot[t].part \in arriving'
    BY <1>1 DEF PartsInvariant, Arrivals
  <2>3. arriving' \subseteq Parts /\ r.part \in arriving'
    BY <1>1, <1>2, <1>3 DEF PartsInvariant, SlotShape, Arrivals
  <2> QED BY <1>1, <1>2, <2>1, <2>2, <2>3, SlotShapeMoves DEF PartsInvariant
<1>5. PICK h, u \in Nat :
        /\ PartBytes(HeldParts) = h + (IF Holds(slot[s]) THEN PartSize[p] ELSE 0)
        /\ PartBytes(HeldParts') = h + (IF Holds(r) THEN PartSize[p] ELSE 0)
        /\ PartBytes(UnsettledParts) = u + (IF Unsettles(slot[s]) THEN PartSize[p] ELSE 0)
        /\ PartBytes(UnsettledParts') = u + (IF Unsettles(r) THEN PartSize[p] ELSE 0)
  BY <1>2, <1>3, MovedBytes DEF PartsInvariant
<1>6. HeldBytes'
  <2>1. PartBytes(HeldParts') = PartBytes(HeldParts)
    BY <1>3, <1>5
  <2>2. reserved' = PartBytes(HeldParts')
    BY <1>1, <2>1 DEF PartsInvariant, HeldBytes
  <2> QED BY <2>2 DEF HeldBytes, PartBytes, BytesOf
<1>7. /\ dir_bytes \in Nat /\ usedBytes \in Nat /\ miscounted \in Nat
      /\ \A q \in Parts : PartSize[q] \in Nat
  BY CountTypes DEF PartsInvariant
<1>8. PartSize[p] \in Nat
  BY <1>1, <1>7
<1>9. dir_bytes' = IF there THEN dir_bytes ELSE dir_bytes + PartSize[p]
  <2>1. dir_bytes' = PartBytes(onDisk \cup {p})
    BY <1>1 DEF dir_bytes, PartBytes, BytesOf
  <2>2. CASE there
    <3>1. onDisk \cup {p} = onDisk
      BY <2>2
    <3> QED BY <2>1, <2>2, <3>1 DEF dir_bytes
  <2>3. CASE ~there
    <3>1. onDisk \in SUBSET Parts
      BY DEF PartsInvariant, PartsShape
    <3>2. PartBytes(onDisk \cup {p}) = PartBytes(onDisk) + PartSize[p]
      BY <1>1, <2>3, <3>1, BytesAdd
    <3> QED BY <2>1, <2>3, <3>2 DEF dir_bytes
  <2> QED BY <2>2, <2>3
<1>10. PICK d \in Nat : /\ dir_bytes' = dir_bytes + d
                        /\ PartBytes(UnsettledParts') + miscounted' = PartBytes(UnsettledParts) + miscounted + d
                        /\ PartBytes(UnsettledParts) \in Nat /\ PartBytes(UnsettledParts') \in Nat /\ miscounted' \in Nat
  <2>1. CASE there
    <3>1. miscounted' = miscounted /\ PartBytes(UnsettledParts') = u /\ PartBytes(UnsettledParts) = u
          /\ dir_bytes' = dir_bytes
      BY <1>1, <1>3, <1>5, <1>9, <2>1
    <3> QED BY <1>7, <3>1
  <2>2. CASE ~there /\ fails
    <3>1. miscounted' = miscounted + PartSize[p] /\ PartBytes(UnsettledParts') = u /\ PartBytes(UnsettledParts) = u
          /\ dir_bytes' = dir_bytes + PartSize[p]
      BY <1>1, <1>3, <1>5, <1>9, <2>2
    <3> QED BY <1>7, <1>8, <3>1
  <2>3. CASE ~there /\ ~fails
    <3>1. miscounted' = miscounted /\ PartBytes(UnsettledParts') = u + PartSize[p] /\ PartBytes(UnsettledParts) = u
          /\ dir_bytes' = dir_bytes + PartSize[p]
      BY <1>1, <1>3, <1>5, <1>9, <2>3
    <3> QED BY <1>7, <1>8, <3>1
  <2> QED BY <2>1, <2>2, <2>3
<1>11. CountedBytes'
  <2>1. PartBytes(UnsettledParts)' = PartBytes(UnsettledParts')
    BY DEF PartBytes, BytesOf
  <2>2. sweep.pc # "idle" => PartSize[sweep.part] \in Nat
    BY <1>7 DEF PartsInvariant, PartsShape
  <2>3. dir_bytes' <= usedBytes + PartBytes(UnsettledParts') + miscounted'
    BY <1>7, <1>10 DEF PartsInvariant, CountedBytes
  <2>4. sweep.pc = "count" /\ ~sweep.measured =>
            dir_bytes' + PartSize[sweep.part] <= usedBytes + PartBytes(UnsettledParts') + miscounted'
    BY <1>7, <1>10, <2>2 DEF PartsInvariant, CountedBytes
  <2> QED BY <1>1, <2>1, <2>3, <2>4 DEF CountedBytes
<1>12. PartsShape'
  BY <1>1, <1>10 DEF PartsInvariant, PartsShape
<1>13. RecordedParts'
  <2>1. \A t \in Slots : slot'[t].pc \in {"settle", "record"} => slot'[t].part \in onDisk' \cup removed'
    BY <1>1, <1>2 DEF PartsInvariant, RecordedParts
  <2> QED BY <1>1, <2>1, RecordsStay DEF PartsInvariant
<1> QED BY <1>4, <1>6, <1>11, <1>12, <1>13 DEF PartsInvariant

(* A commit, in its two steps, and a retirement keep it.                   *)
LEMMA CommitKeeps ==
    ASSUME PartsInvariant, (\E p \in Parts : CommitChecks(p) \/ retire(p)) \/ CommitRecords
    PROVE  PartsInvariant'
PROOF
<1>1. UNCHANGED <<onDisk, usedBytes, miscounted, sweep, tokens, removed, rowLeft, slot, arriving, reserved>>
  BY DEF CommitChecks, retire, CommitRecords, storeVars
<1>2. SlotShape' /\ Arrivals' /\ HeldBytes' /\ UnsettledParts' = UnsettledParts
  BY <1>1, SlotsStay DEF PartsInvariant
<1>3. CountedBytes'
  BY <1>1, <1>2, CountsStay DEF PartsInvariant
<1>4. tier \in [Parts -> {"none", "warm", "cold"}] /\ commit \in Parts \cup {NoPart}
  BY DEF PartsInvariant, PartsShape
<1>5. /\ tier' \in [Parts -> {"none", "warm", "cold"}]
      /\ commit' \in Parts \cup {NoPart} /\ (commit' # NoPart => commit' \in onDisk \cup removed)
      /\ \A p \in Parts : tier'[p] # "none" => tier[p] # "none" \/ p \in onDisk \cup removed
  <2>1. ASSUME NEW p \in Parts, CommitChecks(p)
        PROVE  tier' = tier /\ commit' = p /\ p \in onDisk
    BY <2>1 DEF CommitChecks
  <2>2. ASSUME NEW p \in Parts, retire(p)
        PROVE  tier' = [tier EXCEPT ![p] = "cold"] /\ commit' = commit /\ tier[p] = "warm"
    BY <2>2 DEF retire
  <2>3. CASE CommitRecords
    <3>1. commit # NoPart /\ commit' = NoPart /\ tier' = [tier EXCEPT ![commit] = IF @ = "none" THEN "warm" ELSE @]
      BY <2>3 DEF CommitRecords
    <3>2. commit \in Parts /\ commit \in onDisk \cup removed
      BY <1>4, <3>1 DEF PartsInvariant, RecordedParts
    <3> QED BY <1>4, <3>1, <3>2
  <2>4. commit # NoPart => commit \in onDisk \cup removed
    BY DEF PartsInvariant, RecordedParts
  <2> QED BY <1>4, <2>1, <2>2, <2>3, <2>4
<1>6. PartsShape'
  BY <1>1, <1>5 DEF PartsInvariant, PartsShape
<1>7. RecordedParts'
  <2>1. CataloguedIsStored'
    BY <1>1, <1>5 DEF PartsInvariant, RecordedParts, CataloguedIsStored
  <2> QED BY <1>1, <1>5, <2>1 DEF PartsInvariant, RecordedParts
<1> QED BY <1>2, <1>3, <1>6, <1>7 DEF PartsInvariant

(* The sweep starts, gives up or ends.                                     *)
LEMMA SweepKeeps ==
    ASSUME PartsInvariant, (\E p \in Parts : SweepPicks(p)) \/ DeleteFails \/ DeleteSyncs \/ SweepLeavesRow \/ SweepFinishes
    PROVE  PartsInvariant'
PROOF
<1>1. UNCHANGED <<onDisk, usedBytes, miscounted, commit, tokens, removed, slot, arriving, reserved>>
  BY DEF SweepPicks, DeleteFails, DeleteSyncs, SweepLeavesRow, SweepFinishes, storeVars
<1>2. SlotShape' /\ Arrivals' /\ HeldBytes' /\ UnsettledParts' = UnsettledParts
  BY <1>1, SlotsStay DEF PartsInvariant
<1>3. NoSweep \in Sweeps /\ NoSweep.pc = "idle"
  BY DEF NoSweep, Sweeps
<1>4. tier \in [Parts -> {"none", "warm", "cold"}] /\ sweep \in Sweeps /\ (sweep.pc # "idle" => sweep.part \in Parts)
  BY DEF PartsInvariant, PartsShape
<1>5. /\ sweep' \in Sweeps /\ (sweep'.pc # "idle" => sweep'.part \in Parts) /\ sweep'.pc # "count"
      /\ tier' \in [Parts -> {"none", "warm", "cold"}]
      /\ \A p \in Parts : tier'[p] # "none" =>
             /\ tier[p] # "none" /\ (p \in rowLeft => p \in rowLeft')
             /\ sweep.part = p /\ sweep.pc \in {"count", "sync", "row"} =>
                   p \in onDisk \cup rowLeft' \/ (sweep'.part = p /\ sweep'.pc \in {"count", "sync", "row"})
  <2>1. ASSUME NEW p \in Parts, SweepPicks(p)
        PROVE  /\ sweep' \in Sweeps /\ sweep'.part \in Parts /\ sweep'.pc # "count"
               /\ tier' = tier /\ rowLeft' = rowLeft /\ sweep.pc = "idle"
    <3>1. /\ sweep' = [NoSweep EXCEPT !.pc = "file", !.part = p] /\ tier' = tier /\ rowLeft' = rowLeft
          /\ sweep.pc = "idle"
      BY <2>1 DEF SweepPicks
    <3>2. PICK w : w = [NoSweep EXCEPT !.pc = "file", !.part = p]
      OBVIOUS
    <3>3. w \in Sweeps /\ w.part = p /\ w.pc = "file"
      BY <1>3, <3>2 DEF Sweeps
    <3> QED BY <3>1, <3>2, <3>3
  <2>2. CASE DeleteFails
    BY <1>3, <1>4, <2>2 DEF DeleteFails
  <2>3. CASE SweepFinishes
    BY <1>3, <1>4, <2>3 DEF SweepFinishes
  <2>4. CASE DeleteSyncs
    BY <1>4, <2>4 DEF DeleteSyncs, Sweeps
  <2>5. CASE SweepLeavesRow
    BY <1>3, <1>4, <2>5 DEF SweepLeavesRow, LeavesRow
  <2> QED BY <1>4, <2>1, <2>2, <2>3, <2>4, <2>5
<1>6. CountedBytes'
  BY <1>1, <1>2, <1>5, CountsStay DEF PartsInvariant
<1>7. PartsShape'
  BY <1>1, <1>5 DEF PartsInvariant, PartsShape
<1>8. RecordedParts'
  <2>1. CataloguedIsStored'
    BY <1>1, <1>5 DEF PartsInvariant, RecordedParts, CataloguedIsStored
  <2> QED BY <1>1, <2>1 DEF PartsInvariant, RecordedParts
<1> QED BY <1>2, <1>6, <1>7, <1>8 DEF PartsInvariant

(* A part that leaves the directory takes its bytes along.                 *)
LEMMA DirShrinks ==
    ASSUME PartsShape, NEW p \in Parts, onDisk' = onDisk \ {p}
    PROVE  dir_bytes' = IF p \in onDisk THEN dir_bytes - PartSize[p] ELSE dir_bytes
PROOF
<1>1. dir_bytes' = PartBytes(onDisk \ {p})
  BY DEF dir_bytes, PartBytes, BytesOf
<1>2. onDisk \in SUBSET Parts
  BY DEF PartsShape
<1>3. CASE p \in onDisk
  <2>1. PartBytes(onDisk) = PartBytes(onDisk \ {p}) + PartSize[p]
    BY <1>2, <1>3, BytesRemove
  <2>2. PartBytes(onDisk \ {p}) \in Nat /\ PartSize[p] \in Nat
    BY <1>2, BytesFinite, PartsStoreAssumption
  <2> QED BY <1>1, <1>3, <2>1, <2>2 DEF dir_bytes
<1>4. CASE p \notin onDisk
  <2>1. onDisk \ {p} = onDisk
    BY <1>4
  <2> QED BY <1>1, <1>4, <2>1 DEF dir_bytes
<1> QED BY <1>3, <1>4

(* Removing a file in the sweep keeps it.                                  *)
LEMMA DeleteKeeps == ASSUME PartsInvariant, DeleteFile PROVE PartsInvariant'
PROOF
<1>1. /\ UNCHANGED <<usedBytes, miscounted, commit, tokens, rowLeft, slot, arriving, reserved>> /\ tier' = tier
      /\ sweep.pc = "file" /\ onDisk' = onDisk \ {sweep.part}
      /\ sweep' = [sweep EXCEPT !.pc = IF sweep.part \in onDisk THEN "count" ELSE "row"]
      /\ removed' = IF sweep.part \in BeingRecorded THEN removed \cup {sweep.part} ELSE removed
  BY DEF DeleteFile
<1>2. SlotShape' /\ Arrivals' /\ HeldBytes' /\ UnsettledParts' = UnsettledParts
  BY <1>1, SlotsStay DEF PartsInvariant
<1>3. sweep \in Sweeps /\ sweep.part \in Parts
  BY <1>1 DEF PartsInvariant, PartsShape
<1>4. /\ sweep' \in Sweeps /\ sweep'.part = sweep.part /\ sweep'.pc \in {"count", "sync", "row"}
      /\ sweep'.pc = "count" => sweep.part \in onDisk
  BY <1>1, <1>3 DEF Sweeps
<1>5. dir_bytes' = IF sweep.part \in onDisk THEN dir_bytes - PartSize[sweep.part] ELSE dir_bytes
  BY <1>1, <1>3, DirShrinks DEF PartsInvariant
<1>6. /\ dir_bytes \in Nat /\ usedBytes \in Nat /\ miscounted \in Nat
      /\ PartBytes(UnsettledParts) \in Nat /\ PartSize[sweep.part] \in Nat
  BY <1>3, CountTypes DEF PartsInvariant
<1>7. dir_bytes <= usedBytes + PartBytes(UnsettledParts) + miscounted
  BY DEF PartsInvariant, CountedBytes
<1>8. CountedBytes'
  <2>1. PartBytes(UnsettledParts)' = PartBytes(UnsettledParts)
    BY <1>2 DEF PartBytes, BytesOf
  <2>2. dir_bytes' <= usedBytes + PartBytes(UnsettledParts) + miscounted
    BY <1>5, <1>6, <1>7
  <2>3. sweep'.pc = "count" => dir_bytes' + PartSize[sweep.part] <= usedBytes + PartBytes(UnsettledParts) + miscounted
    BY <1>4, <1>5, <1>6, <1>7
  <2> QED BY <1>1, <1>4, <2>1, <2>2, <2>3 DEF CountedBytes
<1>9. PartsShape'
  BY <1>1, <1>3, <1>4 DEF PartsInvariant, PartsShape
<1>10. RecordedParts'
  <2>1. \A s \in Slots : slot[s].pc \in {"settle", "record"} => slot[s].part \in onDisk' \cup removed'
    BY <1>1 DEF PartsInvariant, RecordedParts, BeingRecorded
  <2>2. commit # NoPart => commit \in onDisk' \cup removed'
    BY <1>1 DEF PartsInvariant, RecordedParts, BeingRecorded
  <2>3. CataloguedIsStored'
    BY <1>1, <1>4 DEF PartsInvariant, RecordedParts, CataloguedIsStored
  <2> QED BY <1>1, <2>1, <2>2, <2>3 DEF RecordedParts
<1> QED BY <1>2, <1>8, <1>9, <1>10 DEF PartsInvariant

(* Taking the removed file off the count keeps it.                         *)
LEMMA DeleteCountsKeeps == ASSUME PartsInvariant, DeleteCounts PROVE PartsInvariant'
PROOF
<1>1. /\ UNCHANGED <<onDisk, commit, tokens, removed, rowLeft, slot, arriving, reserved>> /\ tier' = tier
      /\ sweep.pc = "count" /\ usedBytes' = TakenOff(PartSize[sweep.part])
      /\ miscounted' = IF sweep.measured THEN miscounted + PartSize[sweep.part] ELSE miscounted
      /\ sweep' = [sweep EXCEPT !.pc = "sync"]
  BY DEF DeleteCounts
<1>2. SlotShape' /\ Arrivals' /\ HeldBytes' /\ UnsettledParts' = UnsettledParts
  BY <1>1, SlotsStay DEF PartsInvariant
<1>3. sweep \in Sweeps /\ sweep.part \in Parts
  BY <1>1 DEF PartsInvariant, PartsShape
<1>4. sweep' \in Sweeps /\ sweep'.part = sweep.part /\ sweep'.pc = "sync"
  BY <1>1, <1>3 DEF Sweeps
<1>5. /\ dir_bytes \in Nat /\ usedBytes \in Nat /\ miscounted \in Nat
      /\ PartBytes(UnsettledParts) \in Nat /\ PartSize[sweep.part] \in Nat
  BY <1>3, CountTypes DEF PartsInvariant
<1>6. usedBytes' \in Nat /\ usedBytes' + PartSize[sweep.part] >= usedBytes
  BY <1>1, <1>5 DEF TakenOff
<1>7. miscounted' \in Nat
  BY <1>1, <1>5
<1>8. CountedBytes'
  <2>1. dir_bytes' = dir_bytes /\ PartBytes(UnsettledParts)' = PartBytes(UnsettledParts)
    BY <1>1, <1>2 DEF dir_bytes, PartBytes, BytesOf
  <2>2. dir_bytes <= usedBytes' + PartBytes(UnsettledParts) + miscounted'
    <3>1. CASE sweep.measured
      BY <1>1, <1>5, <1>6, <3>1 DEF PartsInvariant, CountedBytes
    <3>2. CASE ~sweep.measured
      BY <1>1, <1>5, <1>6, <3>2 DEF PartsInvariant, CountedBytes
    <3> QED BY <3>1, <3>2
  <2> QED BY <1>4, <2>1, <2>2 DEF CountedBytes
<1>9. PartsShape'
  BY <1>1, <1>3, <1>4, <1>6, <1>7 DEF PartsInvariant, PartsShape
<1>10. RecordedParts'
  <2>1. \A s \in Slots : slot'[s].pc \in {"settle", "record"} => slot'[s].part \in onDisk' \cup removed'
    BY <1>1 DEF PartsInvariant, RecordedParts
  <2> QED BY <1>1, <1>4, <2>1, RecordsStay DEF PartsInvariant
<1> QED BY <1>2, <1>8, <1>9, <1>10 DEF PartsInvariant

(* A restart of the central server keeps it: the directory is measured     *)
(* again and no reservation outlives the process.                          *)
LEMMA PartsRestartKeeps == ASSUME PartsInvariant, CentralRestarts PROVE PartsInvariant'
PROOF
<1>1. /\ usedBytes' = dir_bytes /\ reserved' = 0 /\ arriving' = {} /\ slot' = [s \in Slots |-> Idle]
      /\ commit' = NoPart /\ sweep' = NoSweep /\ tokens' = {} /\ miscounted' = 0 /\ onDisk' = onDisk /\ tier' = tier
      /\ removed' = removed /\ LeavesRow
  BY DEF CentralRestarts
<1>2. Idle \in Requests /\ Idle.pc = "idle" /\ NoSweep \in Sweeps /\ NoSweep.pc = "idle"
  BY DEF Idle, Requests, RequestSteps, NoSweep, Sweeps
<1>3. \A s \in Slots : slot'[s] = Idle
  BY <1>1
<1>4. HeldParts' = {} /\ UnsettledParts' = {}
  BY <1>2, <1>3 DEF HeldParts, UnsettledParts, Holds, Unsettles
<1>5. SlotShape' /\ Arrivals'
  BY <1>1, <1>2, <1>3 DEF SlotShape, Arrivals, Begun
<1>6. PartBytes(HeldParts)' = 0 /\ PartBytes(UnsettledParts)' = 0
  <2>1. PartBytes(HeldParts') = 0 /\ PartBytes(UnsettledParts') = 0
    BY <1>4, BytesNone
  <2> QED BY <2>1 DEF PartBytes, BytesOf
<1>7. HeldBytes'
  BY <1>1, <1>6 DEF HeldBytes
<1>8. dir_bytes \in Nat /\ dir_bytes' = dir_bytes
  <2>1. dir_bytes \in Nat
    BY CountTypes DEF PartsInvariant
  <2> QED BY <1>1, <2>1 DEF dir_bytes, PartBytes, BytesOf
<1>9. CountedBytes'
  <2>1. dir_bytes' <= usedBytes' + 0 + 0
    BY <1>1, <1>8
  <2> QED BY <1>1, <1>2, <1>6, <2>1 DEF CountedBytes
<1>10. PartsShape'
  BY <1>1, <1>2, <1>8 DEF PartsInvariant, PartsShape
<1>11. RecordedParts'
  <2>1. CataloguedIsStored'
    BY <1>1, <1>2 DEF PartsInvariant, RecordedParts, CataloguedIsStored, LeavesRow
  <2> QED BY <1>1, <1>2, <1>3, <2>1 DEF RecordedParts
<1> QED BY <1>5, <1>7, <1>9, <1>10, <1>11 DEF PartsInvariant

(* A file removed by hand keeps it.                                        *)
LEMMA RemovedKeeps == ASSUME PartsInvariant, NEW p \in Parts, RemovedByHand(p) PROVE PartsInvariant'
PROOF
<1>1. /\ UNCHANGED <<usedBytes, miscounted, commit, sweep, tokens, rowLeft, slot, arriving, reserved>> /\ tier' = tier
      /\ onDisk' = onDisk \ {p} /\ removed' = removed \cup {p}
  BY DEF RemovedByHand, centralVars
<1>2. SlotShape' /\ Arrivals' /\ HeldBytes' /\ UnsettledParts' = UnsettledParts
  BY <1>1, SlotsStay DEF PartsInvariant
<1>3. dir_bytes' = IF p \in onDisk THEN dir_bytes - PartSize[p] ELSE dir_bytes
  BY <1>1, DirShrinks DEF PartsInvariant
<1>4. /\ dir_bytes \in Nat /\ usedBytes \in Nat /\ miscounted \in Nat
      /\ PartBytes(UnsettledParts) \in Nat /\ PartSize[p] \in Nat
      /\ sweep.pc # "idle" => PartSize[sweep.part] \in Nat
  BY CountTypes DEF PartsInvariant, PartsShape
<1>5. dir_bytes' <= dir_bytes /\ dir_bytes' \in Int
  BY <1>3, <1>4
<1>6. CountedBytes'
  <2>1. PartBytes(UnsettledParts)' = PartBytes(UnsettledParts)
    BY <1>2 DEF PartBytes, BytesOf
  <2>2. dir_bytes' <= usedBytes + PartBytes(UnsettledParts) + miscounted
    BY <1>4, <1>5 DEF PartsInvariant, CountedBytes
  <2>3. sweep.pc = "count" /\ ~sweep.measured =>
           dir_bytes' + PartSize[sweep.part] <= usedBytes + PartBytes(UnsettledParts) + miscounted
    BY <1>4, <1>5 DEF PartsInvariant, CountedBytes
  <2> QED BY <1>1, <2>1, <2>2, <2>3 DEF CountedBytes
<1>7. PartsShape'
  BY <1>1 DEF PartsInvariant, PartsShape
<1>8. RecordedParts'
  <2>1. \A s \in Slots : slot'[s].pc \in {"settle", "record"} => slot'[s].part \in onDisk' \cup removed'
    BY <1>1 DEF PartsInvariant, RecordedParts
  <2> QED BY <1>1, <2>1, RecordsStay DEF PartsInvariant
<1> QED BY <1>2, <1>6, <1>7, <1>8 DEF PartsInvariant

(* Every step keeps the invariant.                                         *)
LEMMA PartsSteps == ASSUME PartsInvariant, [PartsNext]_partsVars PROVE PartsInvariant'
PROOF
<1>1. ASSUME NEW p \in Parts, Presign(p) \/ PresignRefused(p) \/ TokenExpires(p) PROVE PartsInvariant'
  BY <1>1, PresignKeeps
<1>2. ASSUME NEW p \in Parts, CommitChecks(p) \/ retire(p) PROVE PartsInvariant'
  BY <1>2, CommitKeeps
<1>3. ASSUME NEW p \in Parts, SweepPicks(p) PROVE PartsInvariant'
  BY <1>3, SweepKeeps
<1>4. ASSUME NEW p \in Parts, RemovedByHand(p) PROVE PartsInvariant'
  BY <1>4, RemovedKeeps
<1>5. ASSUME NEW p \in Parts, NEW s \in Slots, UploadHead(s, p) \/ FetchHead(s, p) PROVE PartsInvariant'
  BY <1>5, HeadKeeps
<1>6. ASSUME NEW s \in Slots, Begin(s) \/ Reserve(s) \/ BodyArrives(s) \/ BodyFails(s) PROVE PartsInvariant'
  BY <1>6, BeginKeeps, ReserveKeeps, ArriveKeeps, FailKeeps
<1>7. ASSUME NEW s \in Slots, Install(s, FALSE) \/ Install(s, TRUE) PROVE PartsInvariant'
  BY <1>7, PartInstallKeeps
<1>8. ASSUME NEW s \in Slots, SettlePart(s) \/ RecordReplicated(s) PROVE PartsInvariant'
  BY <1>8, SettleKeeps, ReplicatedKeeps
<1>9. CASE CommitRecords
  BY <1>9, CommitKeeps
<1>10. CASE DeleteFails \/ DeleteSyncs \/ SweepLeavesRow \/ SweepFinishes
  BY <1>10, SweepKeeps
<1>11. CASE DeleteFile
  BY <1>11, DeleteKeeps
<1>12. CASE DeleteCounts
  BY <1>12, DeleteCountsKeeps
<1>13. CASE CentralRestarts
  BY <1>13, PartsRestartKeeps
<1>14. CASE UNCHANGED partsVars
  <2>1. UNCHANGED <<onDisk, usedBytes, miscounted, commit, tokens, sweep, removed, rowLeft, slot, arriving, reserved>> /\ tier' = tier
    BY <1>14 DEF partsVars, storeVars, centralVars
  <2>2. SlotShape' /\ Arrivals' /\ HeldBytes' /\ UnsettledParts' = UnsettledParts
    BY <2>1, SlotsStay DEF PartsInvariant
  <2>3. CountedBytes'
    BY <2>1, <2>2, CountsStay DEF PartsInvariant
  <2>4. PartsShape'
    BY <2>1 DEF PartsInvariant, PartsShape
  <2>5. RecordedParts'
    BY <2>1 DEF PartsInvariant, RecordedParts, CataloguedIsStored
  <2> QED BY <2>2, <2>3, <2>4, <2>5 DEF PartsInvariant
<1> QED
  BY <1>1, <1>2, <1>3, <1>4, <1>5, <1>6, <1>7, <1>8, <1>9, <1>10, <1>11, <1>12, <1>13, <1>14 DEF PartsNext

(* The inductive invariant gives the one the runs check.                   *)
LEMMA PartsImplied == ASSUME PartsInvariant PROVE PartsInv
PROOF
<1>1. HeldParts = {slot[s].part : s \in Holding}
  BY DEF HeldParts, Holding, Holds
<1>2. UncountedParts = PartBytes(UnsettledParts)
  BY DEF UncountedParts, UnsettledParts, Unsettles
<1>3. reserved \in Nat
  BY UnsettledTypes, BytesFinite DEF PartsInvariant, HeldBytes
<1>4. PartsTypeOK
  BY <1>3 DEF PartsInvariant, PartsShape, SlotShape, PartsTypeOK
<1>5. ReservedIsHeld
  <2>1. \A s, t \in Holding : slot[s].part = slot[t].part => s = t
    BY DEF PartsInvariant, Arrivals, Holding, Begun
  <2> QED BY <1>1, <2>1 DEF PartsInvariant, HeldBytes, ReservedIsHeld
<1>6. PartsAreCounted
  BY <1>2 DEF PartsInvariant, CountedBytes, PartsAreCounted
<1> QED BY <1>4, <1>5, <1>6 DEF PartsInvariant, RecordedParts, PartsInv

(* PartsInv for every set of parts, of sizes and of requests in flight:    *)
(* what is reserved is the bytes of the uploads under way and nothing is   *)
(* left reserved for ever, the bytes on disk are within what is counted,   *)
(* and a catalogued part is stored unless it was removed by hand, is being *)
(* expired, was swept under a commit, or lost its file to a sweep that     *)
(* failed or died before the row.                                          *)
THEOREM PartsSafe == PartsSpec => []PartsInv
PROOF
<1>1. PartsInit => PartsInvariant
  BY PartsInitially
<1>2. PartsInvariant /\ [PartsNext]_partsVars => PartsInvariant'
  BY PartsSteps
<1>3. PartsInvariant => PartsInv
  BY PartsImplied
<1> QED BY <1>1, <1>2, <1>3, PTL DEF PartsSpec

-----------------------------------------------------------------------------
(* Reclaim. The difficulty is that files go before their rows, with a      *)
(* failure or a crash in between, and that the bytes reclaim counts are    *)
(* those of the rows. The invariant says at each step of a pass which rows *)
(* may be without a file, and bounds what is counted as used by the rows   *)
(* that are left.                                                          *)

(* A set of files has a finite number of bytes.                            *)
LEMMA SizeFinite ==
    ASSUME NEW S \in SUBSET Files
    PROVE  IsFiniteSet(BytesIn(S)) /\ Size(S) \in Nat
PROOF
<1> DEFINE each == [f \in S |-> {f} \X (1 .. Bytes[f])]
           all == {{f} \X (1 .. Bytes[f]) : f \in S}
<1>1. IsFiniteSet(S)
  BY ReclaimAssumption, FS_Subset
<1>2. each \in Surjection(S, all)
  BY DEF Surjection
<1>3. ASSUME NEW f \in S PROVE IsFiniteSet({f} \X (1 .. Bytes[f]))
  <2>1. Bytes[f] \in Nat
    BY ReclaimAssumption
  <2>2. IsFiniteSet(1 .. Bytes[f])
    BY <2>1, FS_Interval
  <2>3. IsFiniteSet({f})
    BY FS_Singleton
  <2> QED BY <2>2, <2>3, FS_Product
<1>4. \A T \in all : IsFiniteSet(T)
  BY <1>3
<1> HIDE DEF each, all
<1>5. IsFiniteSet(all)
  BY <1>1, <1>2, FS_Surjection
<1>6. IsFiniteSet(UNION all)
  BY <1>4, <1>5, FS_UNION
<1>7. BytesIn(S) = UNION all
  BY DEF BytesIn, all
<1> QED BY <1>6, <1>7, FS_CardinalityType DEF Size

(* Fewer files have no more bytes.                                         *)
LEMMA SizeGrows ==
    ASSUME NEW S \in SUBSET Files, NEW T \in SUBSET S
    PROVE  Size(T) <= Size(S)
PROOF
<1>1. BytesIn(T) \subseteq BytesIn(S)
  BY DEF BytesIn
<1>2. IsFiniteSet(BytesIn(S))
  BY SizeFinite
<1> QED BY <1>1, <1>2, FS_Subset DEF Size

(* One file less has its bytes less.                                       *)
LEMMA SizeRemoves ==
    ASSUME NEW S \in SUBSET Files, NEW f \in S
    PROVE  Size(S) = Size(S \ {f}) + Bytes[f]
PROOF
<1> DEFINE T == S \ {f}
           own == {f} \X (1 .. Bytes[f])
<1>1. BytesIn(S) = BytesIn(T) \cup own
  BY DEF BytesIn
<1>2. BytesIn(T) \cap own = {}
  BY DEF BytesIn
<1>3. Bytes[f] \in Nat /\ Bytes[f] >= 1
  BY ReclaimAssumption
<1>4. IsFiniteSet(own) /\ Cardinality(own) = Bytes[f]
  <2>1. IsFiniteSet({f}) /\ Cardinality({f}) = 1
    BY FS_Singleton
  <2>2. IsFiniteSet(1 .. Bytes[f]) /\ Cardinality(1 .. Bytes[f]) = Bytes[f]
    <3>1. Cardinality(1 .. Bytes[f]) = IF 1 > Bytes[f] THEN 0 ELSE Bytes[f] - 1 + 1
      BY <1>3, FS_Interval
    <3>2. IsFiniteSet(1 .. Bytes[f])
      BY <1>3, FS_Interval
    <3> QED BY <1>3, <3>1, <3>2
  <2>3. IsFiniteSet(own) /\ Cardinality(own) = 1 * Bytes[f]
    BY <2>1, <2>2, FS_Product
  <2> HIDE DEF own
  <2> QED BY <1>3, <2>3
<1>5. IsFiniteSet(BytesIn(T)) /\ Size(T) \in Nat
  BY SizeFinite
<1> HIDE DEF own, T
<1>6. Cardinality(BytesIn(T) \cup own) = Cardinality(BytesIn(T)) + Cardinality(own) - Cardinality({})
  BY <1>2, <1>4, <1>5, FS_Union
<1>7. Cardinality({}) = 0
  BY FS_EmptySet
<1>8. Cardinality(BytesIn(T) \cup own) = Cardinality(BytesIn(T)) + Bytes[f]
  <2>1. Cardinality(BytesIn(T)) \in Nat
    BY <1>5 DEF Size
  <2> QED BY <1>3, <1>4, <1>6, <1>7, <2>1
<1> QED BY <1>1, <1>8 DEF Size, T

(* No files have no bytes.                                                 *)
LEMMA SizeNone == Size({}) = 0
PROOF
<1>1. BytesIn({}) = {}
  BY DEF BytesIn
<1> QED BY <1>1, FS_EmptySet DEF Size

(* The limit on pins is at most a quarter of the budget.                   *)
LEMMA PinLimits ==
    ASSUME NEW p \in Policies
    PROVE  PinLimit(p) \in Nat /\ PinLimit(p) <= p.budget \div MAX_PIN_SHARE
PROOF
<1>1. PinBytes \in Nat /\ p.budget \in Nat
  BY ReclaimAssumption
<1>2. p.budget \div MAX_PIN_SHARE \in Nat
  BY <1>1 DEF MAX_PIN_SHARE
<1> HIDE DEF MAX_PIN_SHARE
<1> QED BY <1>1, <1>2 DEF PinLimit, Smaller

(* Among some files there is one that the plan meets last.                 *)
LEMMA LastOfPlan ==
    ASSUME NEW P \in SUBSET Files, P # {}, wrote \in [Files -> Nat]
    PROVE  \E f \in P : P \subseteq UpTo(P, f)
PROOF
<1>1. IsFiniteSet(P) /\ P \subseteq Nat
  BY ReclaimAssumption, FS_Subset
<1> DEFINE Rest(f) == P \ UpTo(P, f)
<1>2. \A f \in P : IsFiniteSet(Rest(f)) /\ Cardinality(Rest(f)) \in Nat
  BY <1>1, FS_Subset, FS_CardinalityType
<1> DEFINE Sizes == {Cardinality(Rest(f)) : f \in P}
<1>3. Sizes \subseteq Nat /\ Sizes # {}
  BY <1>2
<1> HIDE DEF Sizes
<1>4. PICK m \in Sizes : \A k \in Sizes : ~(<<k, m>> \in OpToRel(<, Nat))
  BY <1>3, NatLessThanWellFounded, WFMin
<1>5. PICK f \in P : m = Cardinality(Rest(f))
  BY <1>4 DEF Sizes
<1>6. \A g \in P : ~(Cardinality(Rest(g)) < Cardinality(Rest(f)))
  <2> SUFFICES ASSUME NEW g \in P PROVE ~(Cardinality(Rest(g)) < Cardinality(Rest(f)))
    OBVIOUS
  <2>1. Cardinality(Rest(g)) \in Sizes
    BY DEF Sizes
  <2>2. ~(<<Cardinality(Rest(g)), Cardinality(Rest(f))>> \in OpToRel(<, Nat))
    BY <1>4, <1>5, <2>1
  <2> HIDE DEF Rest
  <2> QED BY <1>2, <2>2 DEF OpToRel
<1>7. ASSUME NEW g \in P, g \notin UpTo(P, f) PROVE FALSE
  <2>1. wrote[g] \in Nat /\ wrote[f] \in Nat /\ f \in Nat /\ g \in Nat /\ \A h \in P : wrote[h] \in Nat /\ h \in Nat
    BY <1>1
  <2>2. UpTo(P, f) \subseteq UpTo(P, g) /\ g \in UpTo(P, g)
    <3>1. wrote[g] < wrote[f] \/ (wrote[g] = wrote[f] /\ g > f)
      BY <1>7, <2>1 DEF UpTo
    <3>2. ASSUME NEW h \in UpTo(P, f) PROVE h \in UpTo(P, g)
      <4>1. h \in P /\ (wrote[h] > wrote[f] \/ (wrote[h] = wrote[f] /\ h <= f))
        BY DEF UpTo
      <4>2. wrote[h] > wrote[g] \/ (wrote[h] = wrote[g] /\ h <= g)
        BY <2>1, <3>1, <4>1
      <4> QED BY <4>1, <4>2 DEF UpTo
    <3>3. g \in UpTo(P, g)
      BY <2>1 DEF UpTo
    <3> QED BY <3>2, <3>3
  <2>3. Rest(g) \subseteq Rest(f) /\ g \in Rest(f) /\ g \notin Rest(g)
    BY <1>7, <2>2
  <2> HIDE DEF Rest
  <2>4. Cardinality(Rest(g)) < Cardinality(Rest(f))
    <3>1. IsFiniteSet(Rest(f)) /\ Rest(g) # Rest(f)
      BY <1>2, <2>3
    <3>2. Cardinality(Rest(g)) <= Cardinality(Rest(f)) /\ (Cardinality(Rest(g)) = Cardinality(Rest(f)) => Rest(g) = Rest(f))
      BY <2>3, <3>1, FS_Subset
    <3> QED BY <1>2, <3>1, <3>2
  <2> QED BY <1>6, <2>4
<1> QED BY <1>7

(* What a plan pins is within the limit: the file it met last was pinned   *)
(* because everything up to it fits.                                       *)
LEMMA PlanFits ==
    ASSUME NEW U \in SUBSET Files, NEW p \in Policies, wrote \in [Files -> Nat]
    PROVE  Size(Plan(U, p)) <= PinLimit(p)
PROOF
<1> DEFINE P == Plan(U, p)
<1>1. P \in SUBSET U /\ P \in SUBSET Files
  BY DEF Plan
<1>2. CASE P = {}
  <2>1. PinLimit(p) \in Nat
    BY PinLimits
  <2> HIDE DEF P
  <2>2. Size(P) = 0
    BY <1>2, SizeNone
  <2> QED BY <2>1, <2>2 DEF P
<1>3. CASE P # {}
  <2> HIDE DEF P
  <2>1. PICK f \in P : P \subseteq UpTo(P, f)
    BY <1>1, <1>3, LastOfPlan
  <2>2. P \subseteq UpTo(U, f)
    BY <1>1, <2>1 DEF UpTo
  <2>3. f \in UpTo(U, f)
    BY <1>1, <2>1, <2>2
  <2>4. Size(UpTo(U, f)) <= PinLimit(p)
    BY <2>1, <2>3 DEF P, Plan
  <2>5. UpTo(U, f) \in SUBSET Files
    BY DEF UpTo
  <2>6. Size(P) <= Size(UpTo(U, f)) /\ Size(P) \in Nat /\ Size(UpTo(U, f)) \in Nat
    BY <1>1, <2>2, <2>5, SizeGrows, SizeFinite
  <2>7. PinLimit(p) \in Nat
    BY PinLimits
  <2> HIDE DEF Size, PinLimit
  <2> QED BY <2>4, <2>6, <2>7 DEF P
<1> QED BY <1>2, <1>3

(* Between two passes nothing is left of the last one.                     *)
Resting ==
    pc = "idle" => parts = {} /\ pinned = {} /\ expired = {} /\ left = {} /\ dropped = {} /\ stuck = {}

(* What a pass knows.                                                      *)
Passing ==
    /\ dropped \cap disk = {}
    /\ Size(pinned) <= PinLimit(snap)
    /\ pc \notin {"reclaim", "forgetReclaimed"} => left = {} /\ dropped = {} /\ stuck = {}
    /\ pc \in {"list", "reclaim", "forgetReclaimed"} => \E w \in WalBytes : used <= w + Size(rows \ dropped)
    /\ pc \in {"reclaim", "forgetReclaimed"} =>
          /\ left \cap (pinned \cup dropped) = {}
          /\ left \cup dropped \cup stuck = rows \ pinned
    /\ pc = "forgetReclaimed" => used <= Target(snap) \/ left = {}
    /\ pc # "forgetExpired"

(* What is deleted and not forgotten, without a failure.                   *)
CleanSoFar ==
    faults = 0 =>
        \A f \in Phantoms :
            \/ pc = "expire" /\ PartOf(f) \in expired
            \/ pc \in {"reclaim", "forgetReclaimed"} /\ f \in dropped

(* What is deleted and not forgotten, with failures.                       *)
Awaited == ~torn => \A f \in Phantoms : PartOf(f) \in dirs \/ (pc = "expire" /\ PartOf(f) \in expired)

(* The inductive invariant of Reclaim.                                     *)
ReclaimInvariant == ReclaimTypeOK /\ NeverUndercounts /\ Resting /\ Passing /\ CleanSoFar /\ Awaited

(* An empty store satisfies the invariant.                                 *)
LEMMA ReclaimInitially == ReclaimInit => ReclaimInvariant
PROOF
<1> SUFFICES ASSUME ReclaimInit PROVE ReclaimInvariant
  OBVIOUS
<1> USE DEF ReclaimInit
<1>1. snap \in Policies
  BY ReclaimAssumption DEF AnyPolicy
<1>2. MaxHour \in Nat /\ MaxFaults \in Nat
  BY ReclaimAssumption
<1>3. ReclaimTypeOK
  <2>1. {PartOf(f) : f \in disk} = {}
    OBVIOUS
  <2>2. now \in 0 .. MaxHour /\ faults \in 0 .. MaxFaults /\ wrote \in [Files -> 0 .. now]
    BY <1>2
  <2>3. torn \in BOOLEAN
    OBVIOUS
  <2> QED BY <1>1, <2>1, <2>2, <2>3 DEF ReclaimTypeOK, Levels, PassSteps
<1>4. Size(pinned) <= PinLimit(snap)
  <2>1. PinLimit(snap) \in Nat /\ Size(pinned) = 0
    BY <1>1, PinLimits, SizeNone
  <2> QED BY ONLY <2>1
<1>5. Resting /\ Passing
  BY <1>4 DEF Resting, Passing
<1>6. NeverUndercounts /\ CleanSoFar /\ Awaited
  BY DEF NeverUndercounts, CleanSoFar, Awaited, Phantoms
<1> QED BY <1>3, <1>5, <1>6 DEF ReclaimInvariant

(* The end of a pass.                                                      *)
LEMMA PassOverTypes ==
    ASSUME PassOver
    PROVE  /\ snap' \in Policies /\ pc' = "idle" /\ level' \in Levels /\ used' \in Nat /\ pc' \in PassSteps
           /\ pinned' = {} /\ parts' = {} /\ expired' = {} /\ left' = {} /\ dropped' = {} /\ stuck' = {}
           /\ Resting' /\ Passing'
PROOF
<1>1. AnyPolicy \in Policies
  BY ReclaimAssumption DEF AnyPolicy
<1>2. /\ snap' \in Policies /\ pc' = "idle" /\ level' \in Levels /\ used' \in Nat /\ pc' \in PassSteps
      /\ pinned' = {} /\ parts' = {} /\ expired' = {} /\ left' = {} /\ dropped' = {} /\ stuck' = {}
  BY <1>1 DEF PassOver, Levels, PassSteps
<1>3. Size(pinned') <= PinLimit(snap')
  <2>1. PinLimit(snap') \in Nat /\ Size(pinned') = 0
    BY <1>2, PinLimits, SizeNone
  <2> QED BY ONLY <2>1
<1> QED BY <1>2, <1>3 DEF Resting, Passing

(* A call that may fail.                                                   *)
LEMMA ReclaimTried ==
    ASSUME faults \in 0 .. MaxFaults, NEW ok, Try(ok)
    PROVE  faults' \in 0 .. MaxFaults /\ (faults' = 0 => ok /\ faults = 0) /\ (ok => faults' = faults)
PROOF
<1>1. MaxFaults \in Nat
  BY ReclaimAssumption
<1> QED BY <1>1 DEF Try

(* A merged file keeps the invariant, when its row cannot be committed     *)
(* too.                                                                    *)
LEMMA WriteFileKeeps ==
    ASSUME ReclaimInvariant, NEW f \in Files, WriteFile(f)
    PROVE  ReclaimInvariant'
PROOF
<1> USE DEF ReclaimInvariant
<1>1. PICK ok \in BOOLEAN :
        /\ Try(ok)
        /\ rows' = IF ok THEN rows \cup {f} ELSE rows
        /\ committed' = IF ok THEN committed \cup {f} ELSE committed
  BY DEF WriteFile
<1>2. /\ pc = "idle" /\ f \notin committed
      /\ disk' = disk \cup {f} /\ dirs' = dirs \cup {PartOf(f)} /\ wrote' = [wrote EXCEPT ![f] = now]
      /\ UNCHANGED <<confirmed, now, diskPressure, torn>>
      /\ UNCHANGED <<pc, snap, pinned, parts, expired, level, used, left, dropped, stuck>>
  BY DEF WriteFile, passState
<1>3. faults' \in 0 .. MaxFaults /\ (faults' = 0 => ok /\ faults = 0)
  BY <1>1, ReclaimTried DEF ReclaimTypeOK
<1>4. ReclaimTypeOK'
  <2>1. wrote' \in [Files -> 0 .. now']
    BY <1>2 DEF ReclaimTypeOK
  <2>2. /\ {PartOf(g) : g \in disk'} \subseteq dirs' /\ dirs' \subseteq Partition /\ disk' \subseteq Files
        /\ parts' \subseteq dirs'
    BY <1>2 DEF ReclaimTypeOK, Partition
  <2>3. rows' \subseteq Files /\ committed' \subseteq Files
    BY <1>1 DEF ReclaimTypeOK
  <2>4. torn' \in BOOLEAN
    BY <1>2 DEF ReclaimTypeOK
  <2> QED BY <1>2, <1>3, <2>1, <2>2, <2>3, <2>4 DEF ReclaimTypeOK
<1>5. NeverUndercounts'
  BY <1>1, <1>2 DEF NeverUndercounts
<1>6. Resting'
  BY <1>2 DEF Resting
<1>7. Passing'
  BY <1>2 DEF Passing, Resting
<1>8. CleanSoFar'
  BY <1>1, <1>2, <1>3 DEF CleanSoFar, Phantoms
<1>9. Awaited'
  <2>1. rows' \ disk' \subseteq rows \ disk /\ dirs \subseteq dirs'
    BY <1>1, <1>2
  <2> QED BY <1>2, <2>1 DEF Awaited, Phantoms
<1> QED BY <1>4, <1>5, <1>6, <1>7, <1>8, <1>9

(* A step that touches neither the files nor the pass.                     *)
LEMMA AroundKeeps ==
    ASSUME ReclaimInvariant,
           UNCHANGED <<disk, dirs, rows, committed, diskPressure, pc, snap, pinned, parts, expired, level, used, left, dropped, stuck, faults, torn>>,
           confirmed' \subseteq Files, now' \in 0 .. MaxHour, wrote' \in [Files -> 0 .. now']
    PROVE  ReclaimInvariant'
PROOF
<1> USE DEF ReclaimInvariant
<1>1. ReclaimTypeOK'
  <2>1. torn' \in BOOLEAN /\ {PartOf(g) : g \in disk'} \subseteq dirs'
    BY DEF ReclaimTypeOK
  <2> QED BY <2>1 DEF ReclaimTypeOK
<1>2. NeverUndercounts' /\ Resting' /\ CleanSoFar' /\ Awaited'
  BY DEF NeverUndercounts, Resting, CleanSoFar, Awaited, Phantoms
<1>3. Passing'
  BY DEF Passing
<1> QED BY <1>1, <1>2, <1>3

(* Time and the uploader keep it.                                          *)
LEMMA TickKeeps ==
    ASSUME ReclaimInvariant, Tick \/ (\E f \in Files : Confirm(f)) \/ UNCHANGED reclaimVars
    PROVE  ReclaimInvariant'
PROOF
<1>1. /\ UNCHANGED <<disk, dirs, rows, committed, wrote, diskPressure, faults, torn>>
      /\ UNCHANGED <<pc, snap, pinned, parts, expired, level, used, left, dropped, stuck>>
  BY DEF Tick, Confirm, reclaimVars, storeState, passState
<1>2. /\ confirmed \subseteq Files /\ now \in 0 .. MaxHour /\ wrote \in [Files -> 0 .. now] /\ MaxHour \in Nat
  BY ReclaimAssumption DEF ReclaimInvariant, ReclaimTypeOK
<1>3. confirmed' \subseteq Files
  BY <1>2 DEF Tick, Confirm, reclaimVars
<1>4. now' \in 0 .. MaxHour /\ now <= now'
  BY <1>2 DEF Tick, Confirm, reclaimVars
<1>5. wrote' \in [Files -> 0 .. now']
  <2>1. 0 .. now \subseteq 0 .. now'
    BY <1>2, <1>4
  <2> QED BY <1>1, <1>2, <2>1
<1> QED BY <1>1, <1>3, <1>4, <1>5, AroundKeeps

(* The start of a pass keeps it, whatever policy is live: its pins fit.    *)
LEMMA StartPassKeeps ==
    ASSUME ReclaimInvariant, StartPass
    PROVE  ReclaimInvariant'
PROOF
<1> USE DEF ReclaimInvariant
<1>1. PICK on \in BOOLEAN : pinned' = IF on THEN Plan(disk \ confirmed, snap') ELSE {}
  BY DEF StartPass
<1>2. /\ pc = "idle" /\ snap' \in Policies /\ parts' = Listed(snap') /\ expired' = {} /\ pc' = "expire"
      /\ UNCHANGED <<disk, dirs, rows, committed, wrote, confirmed, now, diskPressure, level, used, left, dropped, stuck, faults, torn>>
  BY DEF StartPass, storeState
<1>3. parts' \subseteq dirs' /\ pinned' \subseteq Files
  BY <1>1, <1>2 DEF Listed, Plan, ReclaimTypeOK
<1>4. Size(pinned') <= PinLimit(snap')
  <2>1. wrote \in [Files -> Nat] /\ disk \ confirmed \in SUBSET Files
    BY DEF ReclaimTypeOK
  <2>2. CASE on = TRUE
    BY <1>1, <1>2, <2>1, <2>2, PlanFits
  <2>3. CASE on = FALSE
    <3>1. PinLimit(snap') \in Nat /\ Size(pinned') = 0
      BY <1>1, <1>2, <2>3, PinLimits, SizeNone
    <3> QED BY ONLY <3>1
  <2> QED BY <2>2, <2>3
<1>5. ReclaimTypeOK'
  <2>1. torn' \in BOOLEAN /\ {PartOf(g) : g \in disk'} \subseteq dirs' /\ wrote' \in [Files -> 0 .. now'] /\ pc' \in PassSteps
    BY <1>2 DEF ReclaimTypeOK, PassSteps
  <2> QED BY <1>2, <1>3, <2>1 DEF ReclaimTypeOK
<1>6. Resting' /\ Passing'
  BY <1>2, <1>4 DEF Resting, Passing
<1>7. NeverUndercounts'
  BY <1>2 DEF NeverUndercounts
<1>8. CleanSoFar' /\ Awaited'
  BY <1>2 DEF CleanSoFar, Awaited, Phantoms
<1> QED BY <1>5, <1>6, <1>7, <1>8

(* Retention deletes files of a partition, none of them pinned.            *)
LEMMA ExpiryKeeps ==
    ASSUME ReclaimInvariant, NEW p \in parts, pc = "expire", NEW ok \in BOOLEAN, Try(ok), NEW gone \in SUBSET In(p),
           disk' = disk \ gone, gone \cap pinned = {},
           \/ dirs' = dirs
           \/ dirs' = dirs \ {p} /\ gone = In(p) /\ p \in expired',
           expired' \in {expired, expired \cup {p}}, ok /\ gone # {} => p \in expired',
           parts' = parts \ {p},
           UNCHANGED <<rows, committed, wrote, confirmed, now, diskPressure, pc, snap, pinned, level, used, left, dropped, stuck, torn>>
    PROVE  ReclaimInvariant' /\ pinned \cap disk \subseteq disk'
PROOF
<1> USE DEF ReclaimInvariant
<1>1. faults' \in 0 .. MaxFaults /\ (faults' = 0 => ok /\ faults = 0)
  BY ReclaimTried DEF ReclaimTypeOK
<1>2. \A f \in gone : f \in disk /\ PartOf(f) = p
  BY DEF In
<1>3. p \in dirs /\ p \in Partition /\ expired' \subseteq Partition
  BY DEF ReclaimTypeOK
<1>4. ReclaimTypeOK'
  <2>1. \A g \in disk' : PartOf(g) \in dirs'
    <3>1. \A g \in disk : PartOf(g) \in dirs
      BY DEF ReclaimTypeOK
    <3> QED BY <3>1 DEF In
  <2>2. torn' \in BOOLEAN /\ wrote' \in [Files -> 0 .. now'] /\ dirs' \subseteq Partition /\ parts' \subseteq dirs' /\ disk' \subseteq Files
    BY DEF ReclaimTypeOK
  <2>3. {PartOf(g) : g \in disk'} \subseteq dirs'
    BY <2>1
  <2> QED BY <1>1, <1>3, <2>2, <2>3 DEF ReclaimTypeOK
<1>5. NeverUndercounts'
  BY DEF NeverUndercounts
<1>6. Resting' /\ Passing'
  BY DEF Resting, Passing
<1>7. CleanSoFar'
  <2> SUFFICES ASSUME faults' = 0, NEW f \in rows' \ disk' PROVE PartOf(f) \in expired'
    BY DEF CleanSoFar, Phantoms
  <2>1. CASE f \in disk
    BY <1>1, <1>2, <2>1
  <2>2. CASE f \notin disk
    BY <1>1, <2>2 DEF CleanSoFar, Phantoms
  <2> QED BY <2>1, <2>2
<1>8. Awaited'
  <2> SUFFICES ASSUME ~torn', NEW f \in rows' \ disk' PROVE PartOf(f) \in dirs' \/ PartOf(f) \in expired'
    BY DEF Awaited, Phantoms
  <2>1. CASE f \in disk
    BY <1>2, <1>3, <2>1
  <2>2. CASE f \notin disk
    BY <1>2, <1>3, <2>2 DEF Awaited, Phantoms
  <2> QED BY <2>1, <2>2
<1> QED BY <1>4, <1>5, <1>6, <1>7, <1>8

(* Expiring a partition keeps it, half-way too.                            *)
LEMMA RemoveKeeps ==
    ASSUME ReclaimInvariant, NEW p \in parts, RemovePartition(p) \/ RemoveUnpinned(p)
    PROVE  ReclaimInvariant' /\ pinned \cap disk \subseteq disk'
PROOF
<1>1. CASE RemovePartition(p)
  <2>1. PICK ok \in BOOLEAN, gone \in SUBSET In(p) :
          /\ Try(ok)
          /\ ok => gone = In(p)
          /\ disk' = disk \ gone
          /\ dirs' = IF ok THEN dirs \ {p} ELSE dirs
          /\ expired' = IF ok THEN expired \cup {p} ELSE expired
    BY <1>1 DEF RemovePartition
  <2>2. /\ pc = "expire" /\ ~HasPin(p) /\ parts' = parts \ {p}
        /\ UNCHANGED <<rows, committed, wrote, confirmed, now, diskPressure, pc, snap, pinned, level, used, left, dropped, stuck, torn>>
    BY <1>1 DEF RemovePartition
  <2>3. gone \cap pinned = {}
    BY <2>1, <2>2 DEF HasPin, In
  <2> QED BY <2>1, <2>2, <2>3, ExpiryKeeps
<1>2. CASE RemoveUnpinned(p)
  <2>1. PICK ok \in BOOLEAN, gone \in SUBSET (In(p) \ pinned) :
          /\ Try(ok)
          /\ ok => gone = In(p) \ pinned
          /\ disk' = disk \ gone
          /\ expired' = IF gone # {} THEN expired \cup {p} ELSE expired
    BY <1>2 DEF RemoveUnpinned
  <2>2. /\ pc = "expire" /\ parts' = parts \ {p}
        /\ UNCHANGED <<dirs, rows, committed, wrote, confirmed, now, diskPressure, pc, snap, pinned, level, used, left, dropped, stuck, torn>>
    BY <1>2 DEF RemoveUnpinned
  <2>3. gone \in SUBSET In(p) /\ gone \cap pinned = {}
    OBVIOUS
  <2> QED BY <2>1, <2>2, <2>3, ExpiryKeeps
<1> QED BY <1>1, <1>2

(* Forgetting the rows of expired partitions keeps it, when the catalog    *)
(* fails too.                                                              *)
LEMMA ForgetExpiredKeeps ==
    ASSUME ReclaimInvariant, ForgetExpired
    PROVE  ReclaimInvariant'
PROOF
<1> USE DEF ReclaimInvariant
<1>1. PICK ok \in BOOLEAN :
        /\ Try(ok \/ expired = {})
        /\ rows' = IF ok THEN rows \ Forgettable ELSE rows
        /\ torn' = (torn \/ ~(ok \/ expired = {}))
  BY DEF ForgetExpired
<1>2. /\ pc = "expire" /\ pc' = "measure"
      /\ UNCHANGED <<disk, dirs, committed, wrote, confirmed, now, diskPressure, snap, pinned, parts, expired, level, used, left, dropped, stuck>>
  BY DEF ForgetExpired
<1>3. faults' \in 0 .. MaxFaults /\ (faults' = 0 => (ok \/ expired = {}) /\ faults = 0)
  BY <1>1, ReclaimTried DEF ReclaimTypeOK
<1>4. rows' \subseteq rows /\ \A f \in rows \ rows' : f \notin disk
  BY <1>1 DEF Forgettable
<1>5. ReclaimTypeOK'
  <2>1. torn' \in BOOLEAN
    BY <1>1 DEF ReclaimTypeOK
  <2>2. {PartOf(g) : g \in disk'} \subseteq dirs' /\ wrote' \in [Files -> 0 .. now'] /\ pc' \in PassSteps
    BY <1>2 DEF ReclaimTypeOK, PassSteps
  <2> QED BY <1>2, <1>3, <1>4, <2>1, <2>2 DEF ReclaimTypeOK
<1>6. NeverUndercounts'
  BY <1>2, <1>4 DEF NeverUndercounts
<1>7. Resting' /\ Passing'
  BY <1>2 DEF Resting, Passing
<1>8. \A f \in rows' \ disk' : (ok \/ expired = {}) => PartOf(f) \notin expired
  BY <1>1, <1>2 DEF Forgettable
<1>9. CleanSoFar'
  BY <1>2, <1>3, <1>4, <1>8 DEF CleanSoFar, Phantoms
<1>10. Awaited'
  BY <1>1, <1>2, <1>4, <1>8 DEF Awaited, Phantoms
<1> QED BY <1>5, <1>6, <1>7, <1>9, <1>10

(* What is measured is not more than the WAL and the rows.                 *)
LEMMA UsageMeasured ==
    ASSUME ReclaimInvariant, NEW u \in Usages, Usage(u)
    PROVE  /\ pc = "measure" /\ u \in Nat /\ faults' \in 0 .. MaxFaults /\ (faults' = 0 => faults = 0)
           /\ \E w \in WalBytes : u <= w + Size(rows)
PROOF
<1>1. PICK w \in WalBytes, ok \in BOOLEAN : Try(ok) /\ u = w + (IF ok THEN Size(rows) ELSE 0)
  BY DEF Usage
<1>2. faults' \in 0 .. MaxFaults /\ (faults' = 0 => faults = 0)
  BY <1>1, ReclaimTried DEF ReclaimInvariant, ReclaimTypeOK
<1>3. w \in Nat /\ Size(rows) \in Nat
  BY ReclaimAssumption, SizeFinite DEF ReclaimInvariant, ReclaimTypeOK
<1>4. u \in Nat /\ u <= w + Size(rows)
  BY <1>1, <1>3
<1> QED BY <1>2, <1>4 DEF Usage

(* A step that only ends the pass.                                         *)
LEMMA EndsPass ==
    ASSUME ReclaimInvariant, PassOver, UNCHANGED <<disk, dirs, committed, wrote, confirmed, now>>,
           diskPressure' \in Levels, faults' \in 0 .. MaxFaults, torn' \in BOOLEAN,
           rows' \subseteq rows, rows \ rows' \subseteq dropped,
           faults' = 0 => rows' \ disk = {},
           ~torn' => \A f \in rows' \ disk : PartOf(f) \in dirs
    PROVE  ReclaimInvariant'
PROOF
<1> USE DEF ReclaimInvariant
<1>1. /\ snap' \in Policies /\ pc' = "idle" /\ level' \in Levels /\ used' \in Nat /\ pc' \in PassSteps
      /\ pinned' = {} /\ parts' = {} /\ expired' = {} /\ left' = {} /\ dropped' = {} /\ stuck' = {}
      /\ Resting' /\ Passing'
  BY PassOverTypes
<1>2. ReclaimTypeOK'
  <2>1. {PartOf(g) : g \in disk'} \subseteq dirs' /\ wrote' \in [Files -> 0 .. now']
    BY DEF ReclaimTypeOK
  <2>2. rows' \subseteq Files
    BY DEF ReclaimTypeOK
  <2> QED BY <1>1, <2>1, <2>2 DEF ReclaimTypeOK
<1>3. NeverUndercounts'
  BY DEF NeverUndercounts, Passing
<1>4. CleanSoFar' /\ Awaited'
  BY DEF CleanSoFar, Awaited, Phantoms
<1> QED BY <1>1, <1>2, <1>3, <1>4

(* Measuring keeps it, under any pressure.                                 *)
LEMMA MeasureKeeps ==
    ASSUME ReclaimInvariant, NEW u \in Usages, NoPressure(u) \/ StartReclaim(u)
    PROVE  ReclaimInvariant'
PROOF
<1>1. CASE NoPressure(u)
  <2>1. Usage(u) /\ diskPressure' = "Normal" /\ PassOver /\ UNCHANGED <<disk, dirs, rows, committed, wrote, confirmed, now, torn>>
    BY <1>1 DEF NoPressure, storeState
  <2>2. pc = "measure" /\ faults' \in 0 .. MaxFaults /\ (faults' = 0 => faults = 0)
    BY <2>1, UsageMeasured
  <2>3. torn' \in BOOLEAN /\ diskPressure' \in Levels
    BY <2>1 DEF ReclaimInvariant, ReclaimTypeOK, Levels
  <2>4. faults' = 0 => rows' \ disk = {}
    BY <2>1, <2>2 DEF ReclaimInvariant, CleanSoFar, Phantoms
  <2>5. ~torn' => \A f \in rows' \ disk : PartOf(f) \in dirs
    BY <2>1, <2>2 DEF ReclaimInvariant, Awaited, Phantoms
  <2> QED BY <2>1, <2>2, <2>3, <2>4, <2>5, EndsPass
<1>2. CASE StartReclaim(u)
  <2> USE DEF ReclaimInvariant
  <2>1. /\ Usage(u) /\ level' = PressureOf(u, snap) /\ used' = u /\ pc' = "list"
        /\ UNCHANGED <<disk, dirs, rows, committed, wrote, confirmed, now, diskPressure, snap, pinned, parts, expired, left, dropped, stuck, torn>>
    BY <1>2 DEF StartReclaim, storeState
  <2>2. /\ pc = "measure" /\ u \in Nat /\ faults' \in 0 .. MaxFaults /\ (faults' = 0 => faults = 0)
        /\ \E w \in WalBytes : u <= w + Size(rows)
    BY <2>1, UsageMeasured
  <2>3. ReclaimTypeOK'
    <3>1. {PartOf(g) : g \in disk'} \subseteq dirs' /\ wrote' \in [Files -> 0 .. now'] /\ torn' \in BOOLEAN
      BY <2>1 DEF ReclaimTypeOK
    <3>2. level' \in Levels /\ pc' \in PassSteps
      BY <2>1 DEF PressureOf, Levels, PassSteps
    <3> QED BY <2>1, <2>2, <3>1, <3>2 DEF ReclaimTypeOK
  <2>4. NeverUndercounts' /\ CleanSoFar' /\ Awaited' /\ Resting'
    BY <2>1, <2>2 DEF NeverUndercounts, CleanSoFar, Awaited, Phantoms, Resting
  <2>5. Passing'
    <3>1. dropped = {} /\ rows' \ dropped' = rows
      BY <2>1, <2>2 DEF Passing
    <3> QED BY <2>1, <2>2, <3>1 DEF Passing
  <2> QED BY <2>3, <2>4, <2>5
<1> QED BY <1>1, <1>2

(* Listing the rows keeps it, when it fails too.                           *)
LEMMA ListKeeps ==
    ASSUME ReclaimInvariant, ListFiles \/ ListFails
    PROVE  ReclaimInvariant'
PROOF
<1>1. CASE ListFails
  <2>1. pc = "list" /\ Try(FALSE) /\ diskPressure' = level /\ PassOver /\ UNCHANGED <<disk, dirs, rows, committed, wrote, confirmed, now, torn>>
    BY <1>1 DEF ListFails, storeState
  <2>2. faults' \in 0 .. MaxFaults /\ faults' # 0
    BY <2>1, ReclaimTried DEF ReclaimInvariant, ReclaimTypeOK
  <2>3. torn' \in BOOLEAN /\ diskPressure' \in Levels
    BY <2>1 DEF ReclaimInvariant, ReclaimTypeOK
  <2>4. ~torn' => \A f \in rows' \ disk : PartOf(f) \in dirs
    BY <2>1 DEF ReclaimInvariant, Awaited, Phantoms
  <2> QED BY <2>1, <2>2, <2>3, <2>4, EndsPass
<1>2. CASE ListFiles
  <2> USE DEF ReclaimInvariant
  <2>1. /\ pc = "list" /\ pc' = "reclaim" /\ left' = rows \ pinned
        /\ UNCHANGED <<disk, dirs, rows, committed, wrote, confirmed, now, diskPressure, snap, pinned, parts, expired, level, used, dropped, stuck, faults, torn>>
    BY <1>2 DEF ListFiles, storeState
  <2>2. ReclaimTypeOK'
    <3>1. {PartOf(g) : g \in disk'} \subseteq dirs' /\ wrote' \in [Files -> 0 .. now'] /\ torn' \in BOOLEAN
      BY <2>1 DEF ReclaimTypeOK
    <3>2. left' \subseteq Files /\ pc' \in PassSteps
      BY <2>1 DEF ReclaimTypeOK, PassSteps
    <3> QED BY <2>1, <3>1, <3>2 DEF ReclaimTypeOK
  <2>3. NeverUndercounts' /\ CleanSoFar' /\ Awaited' /\ Resting'
    BY <2>1 DEF NeverUndercounts, CleanSoFar, Awaited, Phantoms, Resting
  <2>4. Passing'
    BY <2>1 DEF Passing
  <2> QED BY <2>2, <2>3, <2>4
<1> QED BY <1>1, <1>2

(* The end of the rounds keeps it.                                         *)
LEMMA EndReclaimKeeps ==
    ASSUME ReclaimInvariant, EndReclaim
    PROVE  ReclaimInvariant'
PROOF
<1> USE DEF ReclaimInvariant
<1>1. /\ pc = "reclaim" /\ pc' = "forgetReclaimed" /\ (used <= Target(snap) \/ left = {})
      /\ UNCHANGED <<disk, dirs, rows, committed, wrote, confirmed, now, diskPressure, snap, pinned, parts, expired, level, used, left, dropped, stuck, faults, torn>>
  BY DEF EndReclaim, storeState
<1>2. ReclaimTypeOK'
  <2>1. {PartOf(g) : g \in disk'} \subseteq dirs' /\ wrote' \in [Files -> 0 .. now'] /\ torn' \in BOOLEAN /\ pc' \in PassSteps
    BY <1>1 DEF ReclaimTypeOK, PassSteps
  <2> QED BY <1>1, <2>1 DEF ReclaimTypeOK
<1>3. NeverUndercounts' /\ CleanSoFar' /\ Awaited' /\ Resting'
  BY <1>1 DEF NeverUndercounts, CleanSoFar, Awaited, Phantoms, Resting
<1>4. Passing'
  BY <1>1 DEF Passing
<1> QED BY <1>2, <1>3, <1>4

(* Forgetting what was reclaimed keeps it.                                 *)
LEMMA ForgetReclaimedKeeps ==
    ASSUME ReclaimInvariant, ForgetReclaimed
    PROVE  ReclaimInvariant'
PROOF
<1>1. PICK ok \in BOOLEAN :
        /\ Try(ok \/ dropped = {})
        /\ rows' = IF ok THEN rows \ dropped ELSE rows
  BY DEF ForgetReclaimed
<1>2. /\ pc = "forgetReclaimed" /\ diskPressure' = level /\ PassOver
      /\ UNCHANGED <<disk, dirs, committed, wrote, confirmed, now, torn>>
  BY DEF ForgetReclaimed
<1>3. faults' \in 0 .. MaxFaults /\ (faults' = 0 => (ok \/ dropped = {}) /\ faults = 0)
  BY <1>1, ReclaimTried DEF ReclaimInvariant, ReclaimTypeOK
<1>4. torn' \in BOOLEAN /\ diskPressure' \in Levels
  BY <1>2 DEF ReclaimInvariant, ReclaimTypeOK
<1>5. rows' \subseteq rows /\ rows \ rows' \subseteq dropped
  BY <1>1
<1>6. faults' = 0 => rows' \ disk = {}
  BY <1>1, <1>2, <1>3 DEF ReclaimInvariant, CleanSoFar, Phantoms
<1>7. ~torn' => \A f \in rows' \ disk : PartOf(f) \in dirs
  BY <1>2, <1>5 DEF ReclaimInvariant, Awaited, Phantoms
<1> QED BY <1>2, <1>3, <1>4, <1>5, <1>6, <1>7, EndsPass

(* A crash at any step keeps it.                                           *)
LEMMA ReclaimCrashKeeps ==
    ASSUME ReclaimInvariant, Crash
    PROVE  ReclaimInvariant'
PROOF
<1>1. /\ Try(FALSE) /\ torn' = (torn \/ (pc = "expire" /\ expired # {})) /\ diskPressure' = "Normal" /\ PassOver
      /\ UNCHANGED <<disk, dirs, rows, committed, wrote, confirmed, now>>
  BY DEF Crash, storeState
<1>2. faults' \in 0 .. MaxFaults /\ faults' # 0
  BY <1>1, ReclaimTried DEF ReclaimInvariant, ReclaimTypeOK
<1>3. torn' \in BOOLEAN /\ diskPressure' \in Levels
  BY <1>1 DEF ReclaimInvariant, ReclaimTypeOK, Levels
<1>4. ~torn' => \A f \in rows' \ disk : PartOf(f) \in dirs
  BY <1>1 DEF ReclaimInvariant, Awaited, Phantoms
<1> QED BY <1>1, <1>2, <1>3, <1>4, EndsPass

(* One round of reclaim takes a file that is not pinned, and only while    *)
(* more than the target is in use.                                         *)
LEMMA ReclaimFileKeeps ==
    ASSUME ReclaimInvariant, NEW f \in left, ReclaimFile(f)
    PROVE  ReclaimInvariant' /\ pinned \cap disk \subseteq disk' /\ used > Target(snap)
PROOF
<1> USE DEF ReclaimInvariant
<1>1. PICK ok \in BOOLEAN :
          /\ Try(ok)
          /\ IF ok /\ f \in disk
             THEN /\ disk' = disk \ {f}
                  /\ used' = Freed(f)
                  /\ dropped' = dropped \cup {f}
                  /\ UNCHANGED stuck
             ELSE stuck' = stuck \cup {f} /\ UNCHANGED <<disk, used, dropped>>
  BY DEF ReclaimFile
<1>2. /\ pc = "reclaim" /\ used > Target(snap) /\ left' = left \ {f}
      /\ UNCHANGED <<dirs, rows, committed, wrote, confirmed, now, diskPressure, pc, snap, pinned, parts, expired, level, torn>>
  BY DEF ReclaimFile
<1>3. faults' \in 0 .. MaxFaults /\ (faults' = 0 => ok /\ faults = 0)
  BY <1>1, ReclaimTried DEF ReclaimTypeOK
<1>4. f \in Files /\ f \in rows /\ f \notin pinned /\ f \notin dropped
  BY <1>2 DEF ReclaimTypeOK, Passing
<1>5. used \in Nat /\ Bytes[f] \in Nat /\ Size(rows \ dropped) \in Nat /\ Size((rows \ dropped) \ {f}) \in Nat
  <2>1. rows \ dropped \in SUBSET Files /\ (rows \ dropped) \ {f} \in SUBSET Files
    BY DEF ReclaimTypeOK
  <2> QED BY <1>4, <2>1, SizeFinite, ReclaimAssumption DEF ReclaimTypeOK
<1>6. CASE ok /\ f \in disk
  <2>1. disk' = disk \ {f} /\ used' = Freed(f) /\ dropped' = dropped \cup {f} /\ stuck' = stuck
    BY <1>1, <1>6
  <2>2. used' \in Nat
    BY <1>5, <2>1 DEF Freed
  <2>3. ReclaimTypeOK'
    <3>1. {PartOf(g) : g \in disk'} \subseteq dirs' /\ wrote' \in [Files -> 0 .. now'] /\ torn' \in BOOLEAN
      BY <1>2, <2>1 DEF ReclaimTypeOK
    <3>2. disk' \subseteq Files /\ left' \subseteq Files /\ dropped' \subseteq Files
      BY <1>2, <1>4, <2>1 DEF ReclaimTypeOK
    <3> QED BY <1>2, <1>3, <2>1, <2>2, <3>1, <3>2 DEF ReclaimTypeOK
  <2>4. NeverUndercounts' /\ Resting'
    BY <1>2, <2>1 DEF NeverUndercounts, Resting
  <2>5. \E w \in WalBytes : used' <= w + Size(rows' \ dropped')
    <3>1. PICK w \in WalBytes : used <= w + Size(rows \ dropped)
      BY <1>2 DEF Passing
    <3>2. w \in Nat
      BY ReclaimAssumption
    <3>3. Size(rows \ dropped) = Size((rows \ dropped) \ {f}) + Bytes[f]
      BY <1>4, SizeRemoves DEF ReclaimTypeOK
    <3>4. rows' \ dropped' = (rows \ dropped) \ {f}
      BY <1>2, <2>1
    <3>5. used' = IF used > Bytes[f] THEN used - Bytes[f] ELSE 0
      BY <2>1 DEF Freed
    <3>6. used' <= w + Size((rows \ dropped) \ {f})
      BY ONLY <1>5, <3>1, <3>2, <3>3, <3>5
    <3> QED BY <3>4, <3>6
  <2>6. Passing'
    BY <1>2, <1>4, <2>1, <2>5 DEF Passing
  <2>7. PartOf(f) \in dirs
    BY <1>6 DEF ReclaimTypeOK
  <2>8. CleanSoFar' /\ Awaited'
    BY <1>2, <1>3, <2>1, <2>7 DEF CleanSoFar, Awaited, Phantoms
  <2> QED BY <1>2, <1>4, <2>1, <2>3, <2>4, <2>6, <2>8
<1>7. CASE ~(ok /\ f \in disk)
  <2>1. disk' = disk /\ used' = used /\ dropped' = dropped /\ stuck' = stuck \cup {f}
    BY <1>1, <1>7
  <2>2. ReclaimTypeOK'
    <3>1. {PartOf(g) : g \in disk'} \subseteq dirs' /\ wrote' \in [Files -> 0 .. now'] /\ torn' \in BOOLEAN
      BY <1>2, <2>1 DEF ReclaimTypeOK
    <3>2. left' \subseteq Files /\ stuck' \subseteq Files
      BY <1>2, <1>4, <2>1 DEF ReclaimTypeOK
    <3> QED BY <1>2, <1>3, <2>1, <3>1, <3>2 DEF ReclaimTypeOK
  <2>3. NeverUndercounts' /\ Resting' /\ CleanSoFar' /\ Awaited'
    BY <1>2, <1>3, <2>1 DEF NeverUndercounts, Resting, CleanSoFar, Awaited, Phantoms
  <2>4. Passing'
    BY <1>2, <1>4, <2>1 DEF Passing
  <2> QED BY <1>2, <2>1, <2>2, <2>3, <2>4
<1> QED BY <1>6, <1>7

(* Every step keeps the invariant; a file goes while a pass is under way   *)
(* only unpinned, and by reclaim only above the target.                    *)
LEMMA ReclaimStepKeeps ==
    ASSUME ReclaimInvariant, [ReclaimNext]_reclaimVars
    PROVE  /\ ReclaimInvariant'
           /\ pc # "idle" => pinned \cap disk \subseteq disk'
           /\ pc = "reclaim" /\ disk' # disk => used > Target(snap)
PROOF
<1>1. CASE \E f \in Files : WriteFile(f)
  <2>1. pc = "idle"
    BY <1>1 DEF WriteFile
  <2> QED BY <1>1, <2>1, WriteFileKeeps
<1>2. CASE Tick \/ (\E f \in Files : Confirm(f)) \/ UNCHANGED reclaimVars
  <2>1. disk' = disk
    BY <1>2 DEF Tick, Confirm, reclaimVars, storeState
  <2> QED BY <1>2, <2>1, TickKeeps
<1>3. CASE \E p \in parts : RemovePartition(p) \/ RemoveUnpinned(p)
  <2>1. pc = "expire"
    BY <1>3 DEF RemovePartition, RemoveUnpinned
  <2> QED BY <1>3, <2>1, RemoveKeeps
<1>4. CASE StartPass \/ ForgetExpired \/ ListFiles \/ ListFails \/ EndReclaim \/ ForgetReclaimed \/ Crash
  <2>1. disk' = disk
    BY <1>4 DEF StartPass, ForgetExpired, ListFiles, ListFails, EndReclaim, ForgetReclaimed, Crash, storeState
  <2> QED BY <1>4, <2>1, StartPassKeeps, ForgetExpiredKeeps, ListKeeps, EndReclaimKeeps, ForgetReclaimedKeeps, ReclaimCrashKeeps
<1>5. CASE \E u \in Usages : NoPressure(u) \/ StartReclaim(u)
  <2>1. disk' = disk
    BY <1>5 DEF NoPressure, StartReclaim, storeState
  <2> QED BY <1>5, <2>1, MeasureKeeps
<1>6. CASE \E f \in left : ReclaimFile(f)
  BY <1>6, ReclaimFileKeeps
<1> QED BY <1>1, <1>2, <1>3, <1>4, <1>5, <1>6 DEF ReclaimNext, PassNext

(* The inductive invariant gives the invariants the runs check.            *)
LEMMA ReclaimImplies ==
    ReclaimInvariant => ReclaimTypeOK /\ NeverUndercounts /\ PinsLeaveRoom /\ CleanPassForgets /\ PhantomsAwaitExpiry
PROOF
<1> SUFFICES ASSUME ReclaimInvariant
             PROVE  ReclaimTypeOK /\ NeverUndercounts /\ PinsLeaveRoom /\ CleanPassForgets /\ PhantomsAwaitExpiry
  OBVIOUS
<1> USE DEF ReclaimInvariant
<1>1. PinsLeaveRoom
  <2> SUFFICES ASSUME pc = "forgetReclaimed", used > Target(snap)
               PROVE  Size((rows \cap disk) \ stuck) <= snap.budget \div MAX_PIN_SHARE
    BY DEF PinsLeaveRoom
  <2>1. used \in Nat /\ Target(snap) \in Nat
    <3>1. snap \in Policies /\ used \in Nat
      BY DEF ReclaimTypeOK
    <3>2. snap.budget \in Nat /\ snap.reclaim_target \in Nat
      BY <3>1, ReclaimAssumption
    <3>3. snap.budget * snap.reclaim_target \in Nat
      BY <3>2
    <3> QED BY <3>1, <3>3 DEF Target
  <2>2. left = {}
    BY <2>1 DEF Passing
  <2>3. (rows \cap disk) \ stuck \subseteq pinned /\ pinned \in SUBSET Files
    BY <2>2 DEF Passing, ReclaimTypeOK
  <2>4. Size((rows \cap disk) \ stuck) <= Size(pinned) /\ Size((rows \cap disk) \ stuck) \in Nat /\ Size(pinned) \in Nat
    BY <2>3, SizeGrows, SizeFinite
  <2>5. Size(pinned) <= PinLimit(snap) /\ PinLimit(snap) \in Nat /\ PinLimit(snap) <= snap.budget \div MAX_PIN_SHARE
    BY PinLimits DEF Passing, ReclaimTypeOK
  <2>6. snap.budget \div MAX_PIN_SHARE \in Nat
    BY ReclaimAssumption DEF ReclaimTypeOK, MAX_PIN_SHARE
  <2> QED BY ONLY <2>4, <2>5, <2>6
<1>2. CleanPassForgets
  BY DEF CleanPassForgets, CleanSoFar
<1>3. PhantomsAwaitExpiry
  BY DEF PhantomsAwaitExpiry, Awaited
<1> QED BY <1>1, <1>2, <1>3

(* When reclaim deletes a file, what is on disk was above the target: what *)
(* it still counts as used is at most the WAL and the rows it has not      *)
(* dropped.                                                                *)
LEMMA MinimumIsTaken ==
    ASSUME ReclaimInvariant, [ReclaimNext]_reclaimVars, pc = "reclaim", disk' # disk, Phantoms \subseteq dropped
    PROVE  \E w \in WalBytes : w + Size(rows \cap disk) > Target(snap)
PROOF
<1> USE DEF ReclaimInvariant
<1>1. used > Target(snap)
  BY ReclaimStepKeeps
<1>2. PICK w \in WalBytes : used <= w + Size(rows \ dropped)
  BY DEF Passing
<1>3. rows \ dropped \subseteq rows \cap disk /\ rows \cap disk \in SUBSET Files
  BY DEF Phantoms, ReclaimTypeOK
<1>4. Size(rows \ dropped) <= Size(rows \cap disk) /\ Size(rows \ dropped) \in Nat /\ Size(rows \cap disk) \in Nat
  BY <1>3, SizeGrows, SizeFinite
<1>5. w \in Nat /\ used \in Nat
  BY ReclaimAssumption DEF ReclaimTypeOK
<1>6. Target(snap) \in Nat
  <2>1. snap.budget \in Nat /\ snap.reclaim_target \in Nat
    BY ReclaimAssumption DEF ReclaimTypeOK
  <2>2. snap.budget * snap.reclaim_target \in Nat
    BY <2>1
  <2> QED BY <2>2 DEF Target
<1>7. w + Size(rows \cap disk) > Target(snap)
  BY ONLY <1>1, <1>2, <1>4, <1>5, <1>6
<1> QED BY <1>7

(* ReclaimPromise for every set of files, of sizes and of policies: no     *)
(* committed file drops out of the total, pins are kept and hold at most a *)
(* quarter of the budget, reclaim takes no more than its target asks, and  *)
(* a row without its file is forgotten in the same pass or, after a        *)
(* failure, waits for a directory that is still there.                     *)
THEOREM ReclaimSafe == ReclaimSpec => ReclaimPromise
PROOF
<1>1. ReclaimSpec => []ReclaimInvariant
  <2>1. ReclaimInvariant /\ [ReclaimNext]_reclaimVars => ReclaimInvariant'
    BY ReclaimStepKeeps
  <2> QED BY ReclaimInitially, <2>1, PTL DEF ReclaimSpec
<1>2. ReclaimSpec => [](ReclaimTypeOK /\ NeverUndercounts /\ PinsLeaveRoom /\ CleanPassForgets /\ PhantomsAwaitExpiry)
  BY <1>1, ReclaimImplies, PTL
<1>3. ReclaimSpec => PinnedKept
  <2>1. ReclaimInvariant /\ [ReclaimNext]_reclaimVars => [pc # "idle" => pinned \cap disk \subseteq disk']_reclaimVars
    BY ReclaimStepKeeps
  <2> QED BY <1>1, <2>1, PTL DEF ReclaimSpec, PinnedKept
<1>4. ReclaimSpec => TakesTheMinimum
  <2>1. ReclaimInvariant /\ [ReclaimNext]_reclaimVars
          => [pc = "reclaim" /\ disk' # disk /\ Phantoms \subseteq dropped
                => \E w \in WalBytes : w + Size(rows \cap disk) > Target(snap)]_reclaimVars
    BY MinimumIsTaken
  <2> QED BY <1>1, <2>1, PTL DEF ReclaimSpec, TakesTheMinimum
<1> QED BY <1>2, <1>3, <1>4, PTL DEF ReclaimPromise
=============================================================================
