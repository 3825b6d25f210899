------------------------------ MODULE Restore ------------------------------
(***************************************************************************)
(* Rebuilding a store and its catalog from a bucket of parts (restore.rs): *)
(* the listing, one fetch and check per part, the rebuild of the file      *)
(* table, the three template writes, and the second look at what was       *)
(* installed.  The process may stop anywhere; --force starts over on top.  *)
(*                                                                         *)
(* A part is its number; its rows carry one template, whose content hash   *)
(* is the number too.  An object's kind is what verify_part would say.     *)
(***************************************************************************)
EXTENDS Naturals, Sequences, FiniteSets, SequencesExt, FiniteSetsExt

CONSTANTS
    MaxParts,          \* bound: parts there can be
    Layouts,           \* the directories the tenancy can place a part in
    MaxRestores,       \* bound: runs of the command
    MaxRestoreFaults   \* bound: failed fetches, deletions, rotten files

ASSUME RestoreAssumption == MaxParts \in Nat /\ Layouts # {}

VARIABLES
    bucket,      \* [names in the bucket -> kind]
    inventory,   \* names central's peer_parts has
    tree,        \* the store: set of [name, dir, bytes]
    restoreTmp,  \* what was fetched for the part in hand
    fileRows,    \* the catalog's files table, as a set of [name, dir]
    restoredTemplates,  \* the catalog's templates: sequence by counter of [text, lineage]
    sighted,     \* templates in template_services
    restoring,   \* the run: pc, names left, layout, reverify, installed
    outcome,     \* Report: [bucket of the report -> names]
    restores, restoreFaults

targetVars == <<tree, fileRows, restoredTemplates, sighted>>
restoreVars == <<bucket, inventory, targetVars, restoreTmp, restoring, outcome, restores, restoreFaults>>

PartNames == 1 .. MaxParts

Kinds == {"whole", "hash", "size", "rows", "unreadable"}

Buckets == {"restored", "hash", "size", "rows", "unreadable", "fetch_failed", "missing"}

NoOutcome == [b \in Buckets |-> {}]

NotRestoring == [pc |-> "idle", left |-> {}, layout |-> CHOOSE l \in Layouts : TRUE,
                 reverify |-> FALSE, listed |-> {}, installed |-> {}, bad |-> FALSE]

RestoreInit ==
    /\ bucket \in UNION {[s -> Kinds] : s \in SUBSET PartNames}
    /\ inventory \in SUBSET PartNames
    /\ tree = {} /\ fileRows = {} /\ restoredTemplates = <<>> /\ sighted = {}
    /\ restoreTmp = "none" /\ restoring = NotRestoring /\ outcome = NoOutcome
    /\ restores = 0 /\ restoreFaults = 0

RestoreFault == restoreFaults < MaxRestoreFaults /\ restoreFaults' = restoreFaults + 1

(* xml_values and valid_name: the keys that are part names.                *)
ListedNames == DOMAIN bucket

(* A target that holds a file or a catalog is refused without --force.     *)
TargetEmpty == tree = {} /\ fileRows = {} /\ restoredTemplates = <<>>

RestoreStarts(force, reverify, layout) ==
    /\ restoring.pc = "idle" /\ restores < MaxRestores
    /\ force \/ TargetEmpty
    /\ restores' = restores + 1
    /\ restoring' = [NotRestoring EXCEPT !.pc = "fetch", !.left = ListedNames, !.listed = ListedNames,
                                         !.layout = layout, !.reverify = reverify]
    /\ outcome' = [NoOutcome EXCEPT !["missing"] = inventory \ ListedNames]
    /\ UNCHANGED <<bucket, inventory, targetVars, restoreTmp, restoreFaults>>

Current == Min(restoring.left)

Reported(b) ==
    /\ outcome' = [outcome EXCEPT ![b] = @ \cup {Current}]
    /\ restoring' = [restoring EXCEPT !.pc = "fetch", !.left = @ \ {Current}]

(* fetch: the object as it is now, which may be gone since the listing.    *)
FetchPart ==
    /\ restoring.pc = "fetch" /\ restoring.left # {}
    /\ UNCHANGED <<bucket, inventory, targetVars, restores>>
    /\ \/ /\ Current \in DOMAIN bucket
          /\ restoreTmp' = bucket[Current]
          /\ restoring' = [restoring EXCEPT !.pc = "verify"]
          /\ UNCHANGED <<outcome, restoreFaults>>
       \/ /\ Current \notin DOMAIN bucket
          /\ Reported("missing") /\ UNCHANGED <<restoreTmp, restoreFaults>>
       \/ /\ RestoreFault
          /\ Reported("fetch_failed") /\ UNCHANGED restoreTmp

(* Mutant of Problem: what the inventory says is not compared.             *)
ProblemUninventoried(kind, name) == IF kind \in {"size", "rows"} THEN "whole" ELSE kind

(* verify_part: the sizes and rows are compared only when the inventory    *)
(* has the part.                                                           *)
Problem(kind, name) ==
    IF kind \in {"size", "rows"} /\ name \notin inventory THEN "whole" ELSE kind

Placed(name, bytes) == [name |-> name, dir |-> restoring.layout, bytes |-> bytes]

(* rebuild: the rows of every file under the store.                        *)
Row(file) == [name |-> file.name, dir |-> file.dir]

(* The rename replaces a file of that name in that directory.              *)
Others(file) == {f \in tree : Row(f) # Row(file)}

VerifyPart ==
    /\ restoring.pc = "verify"
    /\ restoreTmp' = "none"
    /\ LET problem == Problem(restoreTmp, Current)
           file == Placed(Current, restoreTmp)
       IN  IF problem = "whole"
           THEN /\ outcome' = [outcome EXCEPT !["restored"] = @ \cup {Current}]
                /\ tree' = Others(file) \cup {file}
                /\ restoring' = [restoring EXCEPT !.pc = "fetch", !.left = @ \ {Current},
                                                  !.installed = @ \cup {file}]
           ELSE Reported(problem) /\ UNCHANGED tree
    /\ UNCHANGED <<bucket, inventory, fileRows, restoredTemplates, sighted, restores, restoreFaults>>

RebuildFiles ==
    /\ restoring.pc = "fetch" /\ restoring.left = {}
    /\ fileRows' = {Row(f) : f \in tree}
    /\ restoring' = [restoring EXCEPT !.pc = "templates"]
    /\ UNCHANGED <<bucket, inventory, tree, restoredTemplates, sighted, restoreTmp, outcome, restores, restoreFaults>>

(* The counters 1, 2, ... over the hashes in order.                        *)
Counters == SetToSortSeq(outcome["restored"], <)

(* save_templates: a row that exists keeps its lineage.                    *)
RestoredTemplate(i) ==
    [text |-> Counters[i],
     lineage |-> IF i <= Len(restoredTemplates) THEN restoredTemplates[i].lineage ELSE Counters[i]]

RestoreTemplates ==
    /\ restoring.pc = "templates"
    /\ restoredTemplates' = [i \in 1 .. Len(Counters) |-> RestoredTemplate(i)]
                     \o SubSeq(restoredTemplates, Len(Counters) + 1, Len(restoredTemplates))
    /\ restoring' = [restoring EXCEPT !.pc = "sightings"]
    /\ UNCHANGED <<bucket, inventory, tree, fileRows, sighted, restoreTmp, outcome, restores, restoreFaults>>

ReplaceSightings ==
    /\ restoring.pc = "sightings"
    /\ sighted' = outcome["restored"]
    /\ restoring' = [restoring EXCEPT !.pc = IF restoring.reverify THEN "reverify" ELSE "done"]
    /\ UNCHANGED <<bucket, inventory, tree, fileRows, restoredTemplates, restoreTmp, outcome, restores, restoreFaults>>

(* The second look: the bytes of the installed files, and the catalog's    *)
(* totals against the report's.                                            *)
TotalsDiffer == Cardinality(fileRows) # Cardinality(outcome["restored"])

Reverify ==
    /\ restoring.pc = "reverify"
    /\ restoring' = [restoring EXCEPT !.pc = "done",
                        !.bad = TotalsDiffer \/ ~(restoring.installed \subseteq tree)]
    /\ UNCHANGED <<bucket, inventory, targetVars, restoreTmp, outcome, restores, restoreFaults>>

RestoreReturns ==
    /\ restoring.pc = "done"
    /\ restoring' = NotRestoring
    /\ UNCHANGED <<bucket, inventory, targetVars, restoreTmp, outcome, restores, restoreFaults>>

(* Outside the command: a stop at any step, an object deleted, a file that *)
(* no longer hashes to its name.                                           *)
RestoreCrash ==
    /\ restoring.pc # "idle" /\ RestoreFault
    /\ restoring' = NotRestoring /\ restoreTmp' = "none"
    /\ UNCHANGED <<bucket, inventory, targetVars, outcome, restores>>

ObjectDeleted(n) ==
    /\ n \in DOMAIN bucket /\ RestoreFault
    /\ bucket' = [m \in DOMAIN bucket \ {n} |-> bucket[m]]
    /\ UNCHANGED <<inventory, targetVars, restoreTmp, restoring, outcome, restores>>

FileRots(f) ==
    /\ f.bytes # "rotten" /\ RestoreFault
    /\ tree' = (tree \ {f}) \cup {[f EXCEPT !.bytes = "rotten"]}
    /\ UNCHANGED <<bucket, inventory, fileRows, restoredTemplates, sighted, restoreTmp, restoring, outcome, restores>>

RestoreNext ==
    \/ \E force, reverify \in BOOLEAN, l \in Layouts : RestoreStarts(force, reverify, l)
    \/ FetchPart \/ VerifyPart \/ RebuildFiles \/ RestoreTemplates \/ ReplaceSightings
    \/ Reverify \/ RestoreReturns \/ RestoreCrash
    \/ \E n \in PartNames : ObjectDeleted(n)
    \/ \E f \in tree : FileRots(f)

RestoreSpec == RestoreInit /\ [][RestoreNext]_restoreVars

-----------------------------------------------------------------------------
(* Properties.                                                             *)

Tried == outcome["hash"] \cup outcome["size"] \cup outcome["rows"] \cup outcome["unreadable"]
         \cup outcome["fetch_failed"] \cup outcome["missing"]

(* Report::ok.                                                             *)
ReportOk == Tried = {} /\ ~restoring.bad

(* The type invariant: a part is at one place per directory, and the       *)
(* report's lists name parts of the listing or of the inventory.           *)
RestoreTypeOK ==
    /\ \A f, g \in tree : Row(f) = Row(g) => f = g
    /\ \A b \in Buckets : outcome[b] \subseteq PartNames
    /\ restoring.left \subseteq restoring.listed
    /\ fileRows \subseteq [name : PartNames, dir : Layouts]
    /\ restoreTmp \in Kinds \cup {"none"}

(* Nothing the checks refuse is ever renamed into the store, whichever     *)
(* runs crashed before: every file not rotten since is a part the          *)
(* inventory does not contradict.                                          *)
InstalledIsVerified ==
    \A f \in tree : 
        f.bytes \in {"whole", "rotten"} \/ (f.bytes \in {"size", "rows"} /\ f.name \notin inventory)

(* A finished run accounts for every part of the listing and of the        *)
(* inventory, each in exactly one list of its report.                      *)
EveryPartReported ==
    restoring.pc = "done" =>
        \A n \in restoring.listed \cup inventory :
            Cardinality({b \in Buckets : n \in outcome[b]}) = 1

(* A run whose report is ok has put every part of the inventory and of the *)
(* listing in the file table; after reverify the table, the sightings and  *)
(* the store hold those parts and no other, each once, whatever earlier    *)
(* runs, other layouts and crashes left in the target.                     *)
OkIsComplete ==
    restoring.pc = "done" /\ ReportOk =>
        LET named == {r.name : r \in fileRows}
            wanted == restoring.listed \cup inventory
        IN  /\ wanted \subseteq named /\ sighted = wanted
            /\ restoring.reverify => named = wanted /\ Cardinality(fileRows) = Cardinality(wanted)

(* The comment on the templates a restore writes says the lineage is the   *)
(* hash itself; a forced second run renumbers the hashes and keeps the     *)
(* lineage of the row that had the number.                                 *)
LineageIsHash ==
    \A i \in DOMAIN restoredTemplates : restoredTemplates[i].lineage = restoredTemplates[i].text

(* What restore.rs keeps to: only verified parts are installed, each part  *)
(* is reported, and a run that ends well restored all of them.             *)
RestoreInv == RestoreTypeOK /\ InstalledIsVerified /\ EveryPartReported /\ OkIsComplete
=============================================================================
