---------------------------- MODULE TypedColumns ----------------------------
(***************************************************************************)
(* Typed attribute columns (typed.rs, schema.rs, store.rs and the registry *)
(* of catalog.rs): a merge or a compaction decides which attribute keys to *)
(* promote, registers their columns, writes a file whose typed columns     *)
(* hold the values that conform and whose JSON holds the rest, and records *)
(* it.  A file read back gives the attributes again.                       *)
(*                                                                         *)
(* One partition.  A key, a service and a number are naturals.  A value is *)
(* [kind, n]; "time" is a string in canonical form, "nan" a float that is  *)
(* not a number.  The stride of plan's sample is 1, and string lengths are *)
(* left out.  The catalog may be lost while the agent is down; rebuild     *)
(* follows before it starts again.                                         *)
(***************************************************************************)
EXTENDS Naturals, Sequences, FiniteSets, SequencesExt, FiniteSetsExt

CONSTANTS
    Batches,              \* what a WAL segment may hold: sequences of [service, attrs]
    ColumnOf,             \* column_name: a key's column, or NoColumn
    NoColumn,
    F64_EXACT_INT,
    max_per_service, max_columns, min_rows, MinPresencePercent, MinTypePercent,
    MaxSegments, MaxColumnCrashes, MaxCatalogLosses   \* bounds

ASSUME TypedColumnsAssumption ==
    max_per_service \in Nat \ {0} /\ max_columns \in Nat /\ min_rows \in Nat \ {0} /\ F64_EXACT_INT \in Nat

VARIABLES
    registry,      \* the catalog's typed_columns: [key, ty, service] by column
    columnSegments,      \* WAL segments not yet merged: [id, records]
    arrived,       \* history: the attributes of every record, by row id
    partFiles,     \* the files of the partition: [id, declared, rows]
    recorded,      \* the ids of the files in the catalog
    mergedIds,     \* merged_segments
    writing,       \* the merge or compaction under way: [phase, kind, inputs, id, records, layout]
    columnCrashes, catalogLosses, agentUp

columnVars == <<registry, columnSegments, arrived, partFiles, recorded, mergedIds, writing, columnCrashes, catalogLosses, agentUp>>

ColumnTypes == {"int64", "float64", "bool", "string", "timestamp"}
NotWriting == [phase |-> "idle", kind |-> "none", inputs |-> {}, id |-> 0, records |-> <<>>, layout |-> << >>]

TypedColumnsInit ==
    /\ registry = << >> /\ columnSegments = <<>> /\ arrived = << >> /\ partFiles = {} /\ recorded = {} /\ mergedIds = {}
    /\ writing = NotWriting /\ columnCrashes = 0 /\ catalogLosses = 0 /\ agentUp = TRUE

-----------------------------------------------------------------------------
(* plan.                                                                   *)

Widening(f, g) == [x \in DOMAIN f \cup DOMAIN g |-> IF x \in DOMAIN f THEN f[x] ELSE g[x]]
HasKey(layout, key) == \E c \in DOMAIN layout : layout[c].key = key
ColumnFor(layout, key) == CHOOSE c \in DOMAIN layout : layout[c].key = key

RowsOf(records, service) == {r \in DOMAIN records : records[r].service = service}
FirstAt(attrs, key) == Min({i \in DOMAIN attrs : attrs[i].key = key})
RowsWith(records, service, key) ==
    {r \in RowsOf(records, service) : \E i \in DOMAIN records[r].attrs : records[r].attrs[i].key = key}

(* KeyStats: how many of the key's first values are of the kinds.          *)
Observed(records, service, key, kinds) ==
    Cardinality({r \in RowsWith(records, service, key) :
                     records[r].attrs[FirstAt(records[r].attrs, key)].value.kind \in kinds})

(* stable_type: floats win over integers when both appear.                 *)
StableType(records, service, key) ==
    LET seen(kinds) == Observed(records, service, key, kinds)
        enough(kinds) == 100 * seen(kinds) >= MinTypePercent * Cardinality(RowsWith(records, service, key))
    IN CASE seen({"float", "nan"}) > 0 /\ enough({"int", "float", "nan"}) -> "float64"
         [] enough({"int"}) -> "int64"
         [] enough({"bool"}) -> "bool"
         [] enough({"time"}) -> "timestamp"
         [] enough({"string", "time"}) -> "string"
         [] OTHER -> "none"

Candidates(records, layout, service) ==
    {key \in DOMAIN ColumnOf :
        /\ ~HasKey(layout, key)
        /\ 100 * Cardinality(RowsWith(records, service, key)) >= MinPresencePercent * Cardinality(RowsOf(records, service))
        /\ RowsWith(records, service, key) # {}
        /\ StableType(records, service, key) # "none"}

(* Most-present first, then by key.                                        *)
Ordered(records, layout, service) ==
    LET present(key) == Cardinality(RowsWith(records, service, key))
    IN SetToSortSeq(Candidates(records, layout, service),
                    LAMBDA a, b : present(a) > present(b) \/ (present(a) = present(b) /\ a < b))

ChargedTo(layout, service) == Cardinality({c \in DOMAIN layout : layout[c].service = service})

(* One more column fits the store, and what the service has promoted now   *)
(* is within what the layout had left of its budget.                       *)
Affordable(held, old, service) ==
    /\ Cardinality(DOMAIN held) < max_columns
    /\ ChargedTo(held, service) - ChargedTo(old, service) < max_per_service - ChargedTo(old, service)

(* What plan holds at the end: the layout and the keys it promotes.        *)
Planned(records, layout) ==
    LET services == {records[r].service : r \in DOMAIN records}
        judged == {s \in services : Cardinality(RowsOf(records, s)) >= min_rows}
        promote(held, s, key) ==
            IF Affordable(held, layout, s) /\ ColumnOf[key] # NoColumn /\ ColumnOf[key] \notin DOMAIN held
            THEN Widening(held, ColumnOf[key] :> [key |-> key, ty |-> StableType(records, s, key), service |-> s])
            ELSE held
    IN FoldLeft(LAMBDA held, s : FoldLeft(LAMBDA h, key : promote(h, s, key), held, Ordered(records, layout, s)),
                layout, SetToSortSeq(judged, <))

-----------------------------------------------------------------------------
(* A row in a file and back.                                               *)

(* conform: the value as the column stores it, or NoCell.                  *)
NoCell == [kind |-> "none", n |-> 0]
Conform(value, ty) ==
    CASE ty = "int64" /\ value.kind = "int" -> value
      [] ty = "float64" /\ value.kind \in {"float", "nan"} -> value
      [] ty = "float64" /\ value.kind = "int" /\ value.n <= F64_EXACT_INT -> [value EXCEPT !.kind = "float"]
      [] ty = "bool" /\ value.kind = "bool" -> value
      [] ty = "string" /\ value.kind \in {"string", "time"} -> value
      [] ty = "timestamp" /\ value.kind = "time" -> value
      [] OTHER -> NoCell

(* to_record_batch_from: the first value of a key that conforms.           *)
GoesToColumn(attrs, i, layout) ==
    LET fits(j) == /\ HasKey(layout, attrs[j].key)
                   /\ Conform(attrs[j].value, layout[ColumnFor(layout, attrs[j].key)].ty) # NoCell
    IN fits(i) /\ \A j \in 1..(i - 1) : attrs[j].key = attrs[i].key => ~fits(j)

(* build_typed: a row's cells, by column.                                  *)
Cells(attrs, typed, layout) ==
    [c \in {ColumnFor(layout, attrs[i].key) : i \in typed} |->
         Conform(attrs[Max({i \in typed : ColumnFor(layout, attrs[i].key) = c})].value, layout[c].ty)]

(* A row: its cells, and the attributes left as JSON.                      *)
RowOf(record, layout) ==
    LET attrs == record.attrs
        typed == {i \in DOMAIN attrs : GoesToColumn(attrs, i, layout)}
        rest == SetToSortSeq(DOMAIN attrs \ typed, <)
    IN [id |-> record.id, service |-> record.service, cells |-> Cells(attrs, typed, layout),
        json |-> [i \in DOMAIN rest |-> attrs[rest[i]]]]

(* A file declares the columns that have a value in it.                    *)
FileColumns(rows, layout) ==
    [c \in {d \in DOMAIN layout : \E r \in DOMAIN rows : d \in DOMAIN rows[r].cells} |-> layout[c]]

FileOf(id, records, layout) ==
    LET rows == [r \in DOMAIN records |-> RowOf(records[r], layout)]
    IN [id |-> id, declared |-> FileColumns(rows, layout), rows |-> rows]

(* typed_reader: the column's value under the key the file declares.       *)
ReadCell(file, row, column) == [key |-> file.declared[column].key, value |-> row.cells[column]]

(* from_record_batch: typed values first, then the JSON when it parses.    *)
Decoded(file, row) ==
    LET columns == SetToSeq(DOMAIN row.cells)
        readable == \A i \in DOMAIN row.json : row.json[i].value.kind # "nan"
    IN [i \in DOMAIN columns |-> ReadCell(file, row, columns[i])]
       \o (IF readable THEN row.json ELSE <<>>)

(* read_all over the inputs of a compaction.                               *)
RowsRead(inputs) ==
    LET files == SetToSortSeq({f \in partFiles : f.id \in inputs}, LAMBDA f, g : f.id < g.id)
        read(f) == [r \in DOMAIN f.rows |-> [id |-> f.rows[r].id, service |-> f.rows[r].service,
                                             attrs |-> Decoded(f, f.rows[r])]]
    IN FlattenSeq([i \in DOMAIN files |-> read(files[i])])

-----------------------------------------------------------------------------
(* Ingest, merge and compaction.                                           *)

(* A segment is sealed.                                                    *)
SealSegment == \E batch \in Batches :
    /\ agentUp /\ Cardinality(DOMAIN arrived) + Len(batch) <= 2 * MaxSegments
    /\ Len(columnSegments) + Cardinality({f.id : f \in partFiles}) < MaxSegments
    /\ LET base == Cardinality(DOMAIN arrived)
           records == [i \in DOMAIN batch |-> [id |-> base + i, service |-> batch[i].service, attrs |-> batch[i].attrs]]
       IN /\ columnSegments' = Append(columnSegments, [id |-> base + 1, records |-> records])
          /\ arrived' = Widening(arrived, [i \in (base + 1)..(base + Len(batch)) |-> batch[i - base].attrs])
    /\ UNCHANGED <<registry, partFiles, recorded, mergedIds, writing, columnCrashes, catalogLosses, agentUp>>

WriteStep(from, to) ==
    /\ agentUp /\ writing.phase = from /\ writing' = to
    /\ UNCHANGED <<arrived, columnCrashes, catalogLosses, agentUp>>

(* merge: the oldest segment.  compact: all the files, once there are two. *)
StartMerge ==
    /\ columnSegments # <<>> /\ Head(columnSegments).id \notin mergedIds
    /\ WriteStep("idle", [phase |-> "read", kind |-> "merge", inputs |-> {}, id |-> Head(columnSegments).id,
                          records |-> Head(columnSegments).records, layout |-> registry])
    /\ UNCHANGED <<registry, columnSegments, partFiles, recorded, mergedIds>>

StartCompaction ==
    /\ columnSegments = <<>> /\ Cardinality(partFiles) >= 2
    /\ LET inputs == {f.id : f \in partFiles}
       IN WriteStep("idle", [phase |-> "read", kind |-> "compact", inputs |-> inputs, id |-> 100 + Max(inputs),
                             records |-> RowsRead(inputs), layout |-> registry])
    /\ UNCHANGED <<registry, columnSegments, partFiles, recorded, mergedIds>>

(* register_typed_columns: what is there stays as it is.                   *)
Registered(promoted) == Widening(registry, promoted)

RegisterColumns ==
    /\ LET planned == Planned(writing.records, writing.layout)
       IN /\ WriteStep("read", [writing EXCEPT !.phase = "registered", !.layout = planned])
          /\ registry' = Registered(planned)
    /\ UNCHANGED <<columnSegments, partFiles, recorded, mergedIds>>

(* write_partition_file: written aside, synced and renamed over the path.  *)
WritePartition ==
    /\ WriteStep("registered", [writing EXCEPT !.phase = "written"])
    /\ partFiles' = {f \in partFiles : f.id # writing.id} \cup {FileOf(writing.id, writing.records, writing.layout)}
    /\ UNCHANGED <<registry, columnSegments, recorded, mergedIds>>

(* commit_merge, record_compaction.                                        *)
RecordFile ==
    /\ WriteStep("written", [writing EXCEPT !.phase = "recorded"])
    /\ recorded' = (recorded \ writing.inputs) \cup {writing.id}
    /\ mergedIds' = IF writing.kind = "merge" THEN mergedIds \cup {writing.id} ELSE mergedIds
    /\ UNCHANGED <<registry, columnSegments, partFiles>>

RemoveInputs ==
    /\ WriteStep("recorded", NotWriting)
    /\ columnSegments' = IF writing.kind = "merge" THEN Tail(columnSegments) ELSE columnSegments
    /\ partFiles' = {f \in partFiles : f.id \notin writing.inputs}
    /\ UNCHANGED <<registry, recorded, mergedIds>>

(* A segment whose commit landed before the crash is only removed.         *)
SkipSegment ==
    /\ columnSegments # <<>> /\ Head(columnSegments).id \in mergedIds
    /\ WriteStep("idle", NotWriting)
    /\ columnSegments' = Tail(columnSegments)
    /\ UNCHANGED <<registry, partFiles, recorded, mergedIds>>

(* A crash between any two steps; the catalog may be lost with it.         *)
CrashWriter ==
    /\ agentUp /\ columnCrashes < MaxColumnCrashes /\ columnCrashes' = columnCrashes + 1
    /\ writing' = NotWriting
    /\ \/ UNCHANGED <<registry, recorded, mergedIds, catalogLosses, agentUp>>
       \/ /\ catalogLosses < MaxCatalogLosses /\ catalogLosses' = catalogLosses + 1
          /\ registry' = << >> /\ recorded' = {} /\ mergedIds' = {} /\ agentUp' = FALSE
    /\ UNCHANGED <<columnSegments, arrived, partFiles>>

(* Mutant of DeclaredBy: the columns of the footers are not read.          *)
DeclaredByNone(files) == << >>

(* read_typed_columns over the files, the first to declare a column.       *)
DeclaredBy(files) ==
    [c \in UNION {DOMAIN f.declared : f \in files} |-> (CHOOSE f \in files : c \in DOMAIN f.declared).declared[c]]

(* rebuild, and the agent starts again.                                    *)
Rebuild ==
    /\ ~agentUp /\ agentUp' = TRUE
    /\ registry' = Registered(DeclaredBy(partFiles))
    /\ recorded' = {f.id : f \in partFiles}
    /\ UNCHANGED <<columnSegments, arrived, partFiles, mergedIds, writing, columnCrashes, catalogLosses>>

TypedColumnsNext ==
    \/ SealSegment \/ StartMerge \/ SkipSegment \/ StartCompaction
    \/ RegisterColumns \/ WritePartition \/ RecordFile \/ RemoveInputs
    \/ CrashWriter \/ Rebuild

TypedColumnsSpec == TypedColumnsInit /\ [][TypedColumnsNext]_columnVars

-----------------------------------------------------------------------------

(* Type invariant.                                                         *)
TypedColumnsTypeOK ==
    /\ \A c \in DOMAIN registry : registry[c].ty \in ColumnTypes
    /\ writing.phase \in {"idle", "read", "registered", "written", "recorded"}
    /\ \A f \in partFiles : \A c \in DOMAIN f.declared : \E r \in Range(f.rows) : c \in DOMAIN r.cells

(* A column has one type and one key in every file of the store and in the *)
(* registry, which holds every column some file has: at every moment, also *)
(* after a crash between registering and writing and after a rebuild of a  *)
(* lost catalog (what union_by_name rests on).                             *)
ColumnHasOneType ==
    agentUp => \A f \in partFiles : \A c \in DOMAIN f.declared :
        c \in DOMAIN registry /\ registry[c].key = f.declared[c].key /\ registry[c].ty = f.declared[c].ty

(* Promotion stays within max_columns, and within max_per_service for the  *)
(* service it is charged to.                                               *)
ColumnsAreBounded ==
    /\ Cardinality(DOMAIN registry) <= max_columns
    /\ \A c \in DOMAIN registry : ChargedTo(registry, registry[c].service) <= max_per_service

(* A merge made again after a crash promotes nothing more than the first   *)
(* time: with the columns registered, plan finds nothing left to promote.  *)
ReplanAddsNothing ==
    writing.phase = "registered" => Planned(writing.records, registry) = registry

Numeric(value) == IF value.kind \in {"int", "float"} THEN [value EXCEPT !.kind = "number"] ELSE value
Times(attrs, a) ==
    Cardinality({i \in DOMAIN attrs : attrs[i].key = a.key /\ Numeric(attrs[i].value) = Numeric(a.value)})

(* Every row of every file still reads as the attributes that arrived,     *)
(* each as often, whatever was promoted when it was written and however    *)
(* often it was rewritten ("nothing is dropped").  A number is the same as *)
(* an integer or a float.                                                  *)
AttributesSurvive ==
    \A f \in partFiles : \A r \in Range(f.rows) :
        LET read == Decoded(f, r)
        IN \A a \in Range(read) \cup Range(arrived[r.id]) : Times(read, a) = Times(arrived[r.id], a)

(* What typed columns keep to: a column has one type, the plan is stable   *)
(* and bounded, and attributes read back as they were.                     *)
ColumnsInv ==
    /\ TypedColumnsTypeOK
    /\ ColumnHasOneType
    /\ ReplanAddsNothing
    /\ ColumnsAreBounded
    /\ AttributesSurvive
=============================================================================
