------------------------------ MODULE MCStore -------------------------------
(***************************************************************************)
(* The parts that keep, serve, copy and remove what is stored, each with   *)
(* its own state.  Which component runs is chosen at the start and         *)
(* the others stay where they are, so the states of the run are those of   *)
(* the components side by side, and each property is checked of its own.   *)
(***************************************************************************)
EXTENDS PartsStore, Replicate, Restore, Reclaim, Migrate, Auth, S3Serve, MCTypedColumns, Templates

-----------------------------------------------------------------------------
(* PartsStore                                                              *)

MCPartSize == [p \in Parts |-> 1]

-----------------------------------------------------------------------------
(* Reclaim                                                                 *)

MCBytes == <<2, 3, 3>>
MCHourOf == <<0, 0, 0>>
MCBucketOf == <<"debug", "debug", "error">>

Watermarked(retention) ==
    [retention |-> retention, budget |-> 8, reclaim_target |-> 70, high |-> 80, critical |-> 95]

(* The second policy keeps errors longer and knows no debug bucket.        *)
MCPolicies == {Watermarked([debug |-> 0, error |-> 1]), Watermarked([error |-> 2])}

-----------------------------------------------------------------------------
(* Migrate                                                                 *)

CONSTANTS a, b, c

MCMigrateHourOf == [r \in StoreRows |-> IF r = 3 THEN 2 ELSE 1]

-----------------------------------------------------------------------------
(* S3Serve                                                                 *)

(* Names: 3 and 4.  A file beside a directory of its name, two files in    *)
(* it, one in another directory, and a temporary file.                     *)
MCStoreKeys == {<<3, DOT>>, <<3, SLASH, 3, DOT>>, <<3, SLASH, 4, DOT>>, <<4, SLASH, 3, DOT>>, <<4, SLASH, DOT>>}
MCHiddenKeys == {<<4, SLASH, DOT>>}
MCPartKeys == {<<3, SLASH, 3, DOT>>}

S3Ask(which, prefix, delimiter, max_keys, after) ==
    [bucket |-> which, prefix |-> prefix, delimiter |-> delimiter, max_keys |-> max_keys, after |-> after]

(* Flat and by directory, one unit and two to the page, from a prefix that *)
(* ends inside a name, from a directory, from a key; and the parts bucket. *)
MCListRequests == {
    S3Ask("store", <<>>, NoDelimiter, 1, <<>>), S3Ask("store", <<>>, NoDelimiter, 2, <<3, SLASH, 3>>),
    S3Ask("store", <<>>, SLASH, 1, <<>>), S3Ask("store", <<3>>, DOT, 1, <<>>), S3Ask("store", <<3, SLASH>>, SLASH, 1, <<>>),
    S3Ask("parts", <<>>, NoDelimiter, 2, <<>>), S3Ask("store", <<>>, NoDelimiter, 0, <<>>)}

Signer(proof, flaw, scope) == [proof |-> proof, flaw |-> flaw, scope |-> scope]

MCReaders == {
    Signer("session", "none", {<<3, SLASH>>}), Signer("key", "none", {<<>>}),
    Signer("key", "none", {<<3, SLASH, 3>>, <<4, SLASH>>}), Signer("none", "none", {}),
    Signer("unknown", "none", {}), Signer("forged", "none", {<<>>})}
        \cup {Signer("key", flaw, {<<>>}) : flaw \in {"host", "syntax", "date", "skew", "unsigned"}}

MCVersionLen == <<2, 3, 3, 2>>

-----------------------------------------------------------------------------
(* Templates                                                               *)

Word(text) == [text |-> text, mask |-> "", unit |-> FALSE, component |-> FALSE, aside |-> 0]
Number == [Word("7") EXCEPT !.mask = "<NUM>"]
Unit == [Word("sec") EXCEPT !.unit = TRUE]

(* A line that leads with a number, "7 sec (1.57 KB) y u"; one that falls  *)
(* in with it while its own leading token has no branch; and one that      *)
(* gives it a branch.                                                      *)
MCRawLines == {<<Number, Unit, [Word("(1.57") EXCEPT !.aside = 2], Word("KB)"), Word("y"), Word("u")>>,
               <<Word("b"), Word("y"), Word("u")>>,
               <<Word("b"), Word("z"), Word("v")>>}

-----------------------------------------------------------------------------
VARIABLE focus    \* the component that runs

StoreParts == {"PartsStore", "Replicate", "Restore", "Reclaim", "Migrate", "Auth", "S3Serve", "TypedColumns",
    "Templates"}

(* The components that do not run stay in one initial state.               *)
StoreInit ==
    /\ focus \in StoreParts
    /\ focus # "Replicate" => source = {}
    /\ focus # "Restore" => bucket = <<>> /\ inventory = {}
    /\ focus # "Migrate" => known = {} /\ files = [f \in CurrentFiles |-> File("older", StoreRows, "counter")]
    /\ focus # "S3Serve" => s3Closed = FALSE /\ reader = CHOOSE some \in Readers : TRUE
    /\ PartsInit
    /\ ReplicateInit
    /\ RestoreInit
    /\ ReclaimInit
    /\ MigrateInit
    /\ AuthInit
    /\ S3Init
    /\ TypedColumnsInit
    /\ TemplatesInit

StoreStill ==
    /\ UNCHANGED focus
    /\ focus # "PartsStore" => UNCHANGED partsVars
    /\ focus # "Replicate" => UNCHANGED replicateVars
    /\ focus # "Restore" => UNCHANGED restoreVars
    /\ focus # "Reclaim" => UNCHANGED reclaimVars
    /\ focus # "Migrate" => UNCHANGED migrateVars
    /\ focus # "Auth" => UNCHANGED authVars
    /\ focus # "S3Serve" => UNCHANGED s3Vars
    /\ focus # "TypedColumns" => UNCHANGED columnVars
    /\ focus # "Templates" => UNCHANGED templateVars

StoreNext ==
    \/ focus = "PartsStore" /\ StoreStill /\ PartsNext
    \/ focus = "Replicate" /\ StoreStill /\ ReplicateNext
    \/ focus = "Restore" /\ StoreStill /\ RestoreNext
    \/ focus = "Reclaim" /\ StoreStill /\ ReclaimNext
    \/ focus = "Migrate" /\ StoreStill /\ MigrateNext
    \/ focus = "Auth" /\ StoreStill /\ AuthNext
    \/ focus = "S3Serve" /\ StoreStill /\ S3Next
    \/ focus = "TypedColumns" /\ StoreStill /\ TypedColumnsNext
    \/ focus = "Templates" /\ StoreStill /\ TemplatesNext

StoreVars == <<focus, partsVars, replicateVars, restoreVars, reclaimVars, migrateVars, authVars, s3Vars, columnVars,
    templateVars>>

StoreSpec == StoreInit /\ [][StoreNext]_StoreVars
=============================================================================
