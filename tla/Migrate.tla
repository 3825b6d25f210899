------------------------------ MODULE Migrate ------------------------------
(***************************************************************************)
(* The one-off move of a store to the current layout (migrate.rs).  Every  *)
(* file of the old layout is read, its counter template ids are replaced   *)
(* by content hashes, its rows are regrouped by event hour and written,    *)
(* and it is removed; files of the current layout whose schema is older    *)
(* are rewritten in place.  A stop anywhere is repaired by running again.  *)
(*                                                                         *)
(* A row is its number and has one template; a file holds [row -> id].     *)
(***************************************************************************)
EXTENDS Naturals, FiniteSets, Functions

CONSTANTS
    StoreRows,       \* the rows there are
    MigrateHourOf,          \* [StoreRows -> event hour]
    OldFiles,        \* names of files of the old layout
    CurrentFiles,    \* names of files of the current layout and the older schema
    MaxMigrateStops  \* bound: stops of the command

VARIABLES
    files,       \* [paths -> [version, ids: row -> "counter", "hash" or "none"]]
    known,       \* rows whose counter the catalog has a text for
    catalogued,  \* paths in the catalog's files table
    seenRows,    \* rows counted in template_services
    migrating,   \* the command: pc, the file in hand, outputs left, files left
    migrateStops

migrateVars == <<files, known, catalogued, seenRows, migrating, migrateStops>>

Hours == Range(MigrateHourOf)

(* An output's name has one more part than any name that is already there. *)
ASSUME MigrateAssumption ==
    /\ MigrateHourOf \in [StoreRows -> Hours]
    /\ ((OldFiles \cup CurrentFiles) \X Hours) \cap (OldFiles \cup CurrentFiles) = {}
    /\ MaxMigrateStops \in Nat

(* Mutant of OutputPath: the hour is not part of the name.                 *)
OutputPathOf(f, hour) == <<f, CHOOSE h \in Hours : TRUE>>

(* The outputs' names are derived from the old path and the hour.          *)
OutputPath(f, hour) == <<f, hour>>

Paths == OldFiles \cup CurrentFiles \cup (OldFiles \X Hours)

NotMigrating == [pc |-> "idle", file |-> "none", left |-> {}]

File(version, rs, id) == [version |-> version, ids |-> [r \in rs |-> id]]

(* A row is in one file; an upgraded store may hold both kinds.            *)
MigrateInit ==
    /\ \E home \in [StoreRows -> OldFiles \cup CurrentFiles] :
          files = [f \in Range(home) |-> File("older", {r \in StoreRows : home[r] = f}, "counter")]
    /\ known \in SUBSET StoreRows
    /\ catalogued = {} /\ seenRows = {}
    /\ migrating = NotMigrating /\ migrateStops = 0

(* rekey: a counter becomes the hash of its text, or nothing when the      *)
(* catalog does not know it.  A hash is not a counter the catalog knows.   *)
Rekeyed(ids) ==
    [r \in DOMAIN ids |->
        IF ids[r] = "counter" /\ r \in known THEN "hash" ELSE "none"]

(* Rows of f by event hour.                                                *)
HourRows(f, hour) == {r \in DOMAIN files[f].ids : MigrateHourOf[r] = hour}

OutputsOf(f) == {h \in Hours : HourRows(f, h) # {}}

MigrateStarts ==
    /\ migrating.pc = "idle"
    /\ migrating' = [migrating EXCEPT !.pc = "old"]
    /\ UNCHANGED <<files, known, catalogued, seenRows, migrateStops>>

(* read_all of the next file of the old layout.                            *)
ReadOld(f) ==
    /\ migrating.pc = "old" /\ f \in OldFiles \cap DOMAIN files
    /\ migrating' = [pc |-> "write", file |-> f, left |-> OutputsOf(f)]
    /\ UNCHANGED <<files, known, catalogued, seenRows, migrateStops>>

(* write_partition_file_with: a temporary file and a rename, so the whole  *)
(* output or the file that was there.                                      *)
Written(p, content) == [q \in DOMAIN files \cup {p} |-> IF q = p THEN content ELSE files[q]]

WriteOutput(h) ==
    /\ migrating.pc = "write" /\ h \in migrating.left
    /\ LET f == migrating.file
           ids == Rekeyed(Restrict(files[f].ids, HourRows(f, h)))
       IN  files' = Written(OutputPath(f, h), [version |-> "current", ids |-> ids])
    /\ migrating' = [migrating EXCEPT !.left = @ \ {h}]
    /\ UNCHANGED <<known, catalogued, seenRows, migrateStops>>

RemoveOld ==
    /\ migrating.pc = "write" /\ migrating.left = {}
    /\ files' = Restrict(files, DOMAIN files \ {migrating.file})
    /\ migrating' = [migrating EXCEPT !.pc = "old"]
    /\ UNCHANGED <<known, catalogued, seenRows, migrateStops>>

(* Nothing of the old layout is left: every file is read.                  *)
OldDone ==
    /\ migrating.pc = "old" /\ OldFiles \cap DOMAIN files = {}
    /\ migrating' = [migrating EXCEPT !.pc = "rekey", !.left = DOMAIN files]
    /\ UNCHANGED <<files, known, catalogued, seenRows, migrateStops>>

(* read_schema_version: only a file of the older schema holds counters.    *)
HoldsCounters(f) == files[f].version # "current"

RekeyInPlace(f) ==
    /\ migrating.pc = "rekey" /\ f \in migrating.left
    /\ files' = IF HoldsCounters(f)
                THEN Written(f, [version |-> "current", ids |-> Rekeyed(files[f].ids)])
                ELSE files
    /\ migrating' = [migrating EXCEPT !.left = @ \ {f}]
    /\ UNCHANGED <<known, catalogued, seenRows, migrateStops>>

Templated(f) == {r \in DOMAIN files[f].ids : files[f].ids[r] # "none"}

(* replace_sightings, one transaction.                                     *)
ReplaceAllSightings ==
    /\ migrating.pc = "rekey" /\ migrating.left = {}
    /\ seenRows' = UNION {Templated(f) : f \in DOMAIN files}
    /\ migrating' = [migrating EXCEPT !.pc = "rebuild"]
    /\ UNCHANGED <<files, known, catalogued, migrateStops>>

(* Catalog::rebuild.                                                       *)
MigrateRebuilds ==
    /\ migrating.pc = "rebuild"
    /\ catalogued' = DOMAIN files
    /\ migrating' = [migrating EXCEPT !.pc = "done"]
    /\ UNCHANGED <<files, known, seenRows, migrateStops>>

MigrateReturns ==
    /\ migrating.pc = "done" /\ migrating' = NotMigrating
    /\ UNCHANGED <<files, known, catalogued, seenRows, migrateStops>>

MigrateStop ==
    /\ migrating.pc # "idle" /\ migrateStops < MaxMigrateStops
    /\ migrateStops' = migrateStops + 1
    /\ migrating' = NotMigrating
    /\ UNCHANGED <<files, known, catalogued, seenRows>>

MigrateNext ==
    \/ MigrateStarts \/ RemoveOld \/ OldDone \/ ReplaceAllSightings \/ MigrateRebuilds
    \/ MigrateReturns \/ MigrateStop
    \/ \E f \in Paths : ReadOld(f) \/ RekeyInPlace(f)
    \/ \E h \in Hours : WriteOutput(h)

MigrateSpec == MigrateInit /\ [][MigrateNext]_migrateVars

-----------------------------------------------------------------------------
HoldersOf(r) == {f \in DOMAIN files : r \in DOMAIN files[f].ids}

(* The type invariant: files are at known paths and hold known rows.       *)
MigrateTypeOK ==
    /\ DOMAIN files \subseteq Paths /\ catalogued \subseteq Paths
    /\ \A f \in DOMAIN files : DOMAIN files[f].ids \subseteq StoreRows
    /\ migrating.pc = "write" => migrating.file \in DOMAIN files
    /\ migrating.left \subseteq IF migrating.pc = "write" THEN Hours ELSE Paths

(* At every instant, stopped or not, each row is in a file of the store,   *)
(* and when a run is over it is in exactly one, of the current layout and  *)
(* schema, that the catalog lists.                                         *)
RowsStay ==
    \A r \in StoreRows :
        /\ HoldersOf(r) # {}
        /\ migrating.pc = "done" =>
              \E f \in catalogued :
                  HoldersOf(r) = {f} /\ f \notin OldFiles /\ files[f].version = "current"

(* A row whose counter the catalog knows keeps its template through every  *)
(* rewrite and every repeat, and is counted in the sightings at the end.   *)
IdsStay ==
    \A r \in known : \A f \in HoldersOf(r) :
        /\ files[f].ids[r] # "none"
        /\ migrating.pc = "done" => r \in seenRows /\ files[f].ids[r] = "hash"

(* What migrate.rs keeps to wherever it stops: the rows stay, once each    *)
(* when it is done, and an id that is a content hash stays.                *)
MigrateInv == MigrateTypeOK /\ RowsStay /\ IdsStay
=============================================================================
