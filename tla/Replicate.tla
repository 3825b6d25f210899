----------------------------- MODULE Replicate -----------------------------
(***************************************************************************)
(* Replication between centrals (parts/replicate.rs): a replica pages      *)
(* through the source's catalog, compares each page with the same window   *)
(* of its own, and copies what it lacks into a temporary file that the     *)
(* next attempt or the next run resumes.                                   *)
(*                                                                         *)
(* Keys are 1 .. MaxKey in catalog order.  A part's bytes are the sequence *)
(* 1 .. PART_LEN and a wrong byte is 0, so that what was hashed and what   *)
(* is in the file can be told apart.                                       *)
(***************************************************************************)
EXTENDS Naturals, Sequences, FiniteSets, SequencesExt, FiniteSetsExt

CONSTANTS
    MaxKey,            \* bound: parts there are
    PART_LEN,          \* bytes of a part
    PAGE_SIZE,         \* page_size
    MaxSourceChanges,  \* bound: parts committed and expired at the source
    MaxTransferFaults  \* bound: answers that are not the bytes asked for

ASSUME ReplicateAssumption ==
    MaxKey \in Nat /\ PART_LEN \in Nat /\ PAGE_SIZE \in Nat \ {0}

VARIABLES
    source,     \* keys the source lists
    replicaRows,       \* keys in the replica's catalog
    copies,     \* [keys on the replica's disk -> their bytes]
    tmp,        \* [1 .. MaxKey -> bytes of the partial copy; <<>> when none]
    run,        \* the run: pc, after, window, page, more, key and its attempt
    hashed,     \* the bytes the hasher was given
    report,     \* RunReport
    sourceChanges, transferFaults,
    steady,     \* history: keys the source has listed since the run began
    refused     \* history: keys the run reported as not copied

replicaVars == <<replicaRows, copies, tmp>>
replicateVars == <<source, replicaVars, run, hashed, report, sourceChanges, transferFaults, steady, refused>>

Keys == 1 .. MaxKey

Whole == [i \in 1 .. PART_LEN |-> i]

NoRun == [pc |-> "idle", after |-> 0, window |-> {}, page |-> <<>>, more |-> FALSE, tries |-> 0]

NoReport == [present |-> 0, adopted |-> 0, fetched |-> 0, unusable |-> 0, complete |-> FALSE]

ReplicateInit ==
    /\ source \in SUBSET Keys
    /\ replicaRows = {} /\ copies = <<>> /\ tmp = [k \in Keys |-> <<>>]
    /\ run = NoRun /\ hashed = <<>> /\ report = NoReport
    /\ sourceChanges = 0 /\ transferFaults = 0
    /\ steady = {} /\ refused = {}

-----------------------------------------------------------------------------
(* The source, which commits and expires parts meanwhile.                  *)

SourceChanges(k) ==
    /\ sourceChanges < MaxSourceChanges
    /\ sourceChanges' = sourceChanges + 1
    /\ source' = IF k \in source THEN source \ {k} ELSE source \cup {k}
    /\ steady' = steady \ {k}
    /\ UNCHANGED <<replicaVars, run, hashed, report, transferFaults, refused>>

(* peer_parts_after: the first PAGE_SIZE keys after the one given, in      *)
(* order.  The i-th is the one with i of those keys up to it.              *)
Page(after) ==
    LET rest == {k \in source : k > after}
        upto(k) == Cardinality({j \in rest : j <= k})
    IN  [i \in 1 .. Min({PAGE_SIZE, Cardinality(rest)}) |-> CHOOSE k \in rest : upto(k) = i]

Fault == transferFaults < MaxTransferFaults /\ transferFaults' = transferFaults + 1

-----------------------------------------------------------------------------
(* The run.                                                                *)

(* claim: one run at a time, by the timer or by hand.                      *)
RunStarts ==
    /\ run.pc = "idle"
    /\ run' = [NoRun EXCEPT !.pc = "page"]
    /\ report' = NoReport /\ steady' = source /\ refused' = {}
    /\ UNCHANGED <<source, replicaVars, hashed, sourceChanges, transferFaults>>

(* The run ends early: stopped, unreachable, refused, out of budget.       *)
RunAborts == run' = NoRun /\ hashed' = <<>>

(* A full page is not the last.                                            *)
More(page) == Len(page) = PAGE_SIZE

(* A page that is not the last stands for the keys up to its last.         *)
WindowEnd(page, more) == IF more THEN Last(page) ELSE MaxKey

FetchPage ==
    /\ run.pc = "page"
    /\ LET page == Page(run.after)
           more == More(page)
       IN  run' = [run EXCEPT !.pc = "entry", !.page = page, !.more = more,
                              !.window = {k \in replicaRows : run.after < k /\ k <= WindowEnd(page, more)}]
    /\ UNCHANGED <<source, replicaVars, hashed, report, sourceChanges, transferFaults, steady, refused>>

(* Unreachable, refused, unreadable, or out of order.                      *)
FetchPageFails ==
    /\ run.pc = "page" /\ Fault /\ RunAborts
    /\ UNCHANGED <<source, replicaVars, report, sourceChanges, steady, refused>>

Key == Head(run.page)

Next1(r) == [r EXCEPT !.page = Tail(@), !.after = Key, !.pc = "entry", !.tries = 0]

Unusable ==
    /\ report' = [report EXCEPT !.unusable = @ + 1]
    /\ refused' = refused \cup {Key}
    /\ run' = Next1(run) /\ hashed' = <<>>

(* Mutant of Adoptable: a partial copy is taken for the part.              *)
AdoptablePartly(k) == k \in DOMAIN copies \/ tmp[k] # <<>>

Adoptable(k) == k \in DOMAIN copies

(* In the catalog already, on disk without a row, or to be fetched: the    *)
(* partial copy of an earlier run is hashed first.  An entry that cannot   *)
(* name a file is counted and left.                                        *)
LookAtEntry ==
    /\ run.pc = "entry" /\ run.page # <<>>
    /\ \/ /\ Key \in run.window
          /\ report' = [report EXCEPT !.present = @ + 1]
          /\ run' = Next1(run)
          /\ UNCHANGED <<hashed, transferFaults, refused>>
       \/ /\ Key \notin run.window
          /\ run' = [run EXCEPT !.pc = IF Adoptable(Key) THEN "adopt" ELSE "fetch", !.tries = 2]
          /\ hashed' = IF Adoptable(Key) THEN <<>> ELSE tmp[Key]
          /\ UNCHANGED <<report, transferFaults, refused>>
       \/ Fault /\ Unusable
    /\ UNCHANGED <<source, replicaVars, sourceChanges, steady>>

PageEnds ==
    /\ run.pc = "entry" /\ run.page = <<>>
    /\ IF run.more THEN run' = [run EXCEPT !.pc = "page"] /\ UNCHANGED report
       ELSE run' = NoRun /\ report' = [report EXCEPT !.complete = TRUE]
    /\ UNCHANGED <<source, replicaVars, hashed, sourceChanges, transferFaults, steady, refused>>

-----------------------------------------------------------------------------
(* fetch_into_place                                                        *)

Have == Len(hashed)

(* The partial copy starts over: the file is cut and the hasher is new.    *)
FromZero(k) == tmp' = [tmp EXCEPT ![k] = <<>>] /\ hashed' = <<>>

(* The bytes of an answer go to the file and to the hasher, after both     *)
(* were emptied when the answer is the whole part.                         *)
ReplicaRestart(bytes, answer) ==
    [file |-> (IF answer = 200 THEN <<>> ELSE tmp[Key]) \o bytes,
     hash |-> (IF answer = 200 THEN <<>> ELSE hashed) \o bytes]

ReplicaReceive(bytes, answer) ==
    LET r == ReplicaRestart(bytes, answer)
    IN  tmp' = [tmp EXCEPT ![Key] = r.file] /\ hashed' = r.hash

Served(answer) == SubSeq(Whole, IF answer = 206 THEN Have + 1 ELSE 1, PART_LEN)

(* One request of two: everything that is missing, or the whole part from  *)
(* a source that does not do ranges.                                       *)
FetchAll(answer) ==
    /\ run.pc = "fetch" /\ run.tries > 0 /\ Have < PART_LEN /\ Key \in source
    /\ answer = 206 => Have > 0
    /\ ReplicaReceive(Served(answer), answer)
    /\ run' = [run EXCEPT !.pc = "digest"]
    /\ UNCHANGED <<source, replicaRows, copies, report, sourceChanges, transferFaults, steady, refused>>

(* It breaks off and keeps what it has; the run ends.                      *)
FetchBreaks(answer, n) ==
    /\ run.pc = "fetch" /\ run.tries > 0 /\ Have < PART_LEN /\ Key \in source /\ Fault
    /\ answer = 206 => Have > 0
    /\ n < Len(Served(answer))
    /\ LET r == ReplicaRestart(SubSeq(Served(answer), 1, n), answer)
       IN  tmp' = [tmp EXCEPT ![Key] = r.file]
    /\ RunAborts
    /\ UNCHANGED <<source, replicaRows, copies, report, sourceChanges, steady, refused>>

(* A byte is wrong.                                                        *)
FetchDamaged(answer) ==
    /\ run.pc = "fetch" /\ run.tries > 0 /\ Have < PART_LEN /\ Key \in source /\ Fault
    /\ answer = 206 => Have > 0
    /\ ReplicaReceive([Served(answer) EXCEPT ![1] = 0], answer)
    /\ run' = [run EXCEPT !.pc = "digest"]
    /\ UNCHANGED <<source, replicaRows, copies, report, sourceChanges, steady, refused>>

(* 416, or a range that does not start where the copy ends.                *)
FetchRestarts ==
    /\ run.pc = "fetch" /\ run.tries > 0 /\ 0 < Have /\ Have < PART_LEN /\ Fault
    /\ FromZero(Key)
    /\ run' = [run EXCEPT !.tries = @ - 1]
    /\ UNCHANGED <<source, replicaRows, copies, report, sourceChanges, steady, refused>>

(* Both requests went to a restart: interrupted.                           *)
FetchGivesUp ==
    /\ run.pc = "fetch" /\ run.tries = 0 /\ Have < PART_LEN
    /\ RunAborts
    /\ UNCHANGED <<source, replicaVars, report, sourceChanges, transferFaults, steady, refused>>

(* The whole of it was there already.                                      *)
FetchNothing ==
    /\ run.pc = "fetch" /\ Have = PART_LEN
    /\ run' = [run EXCEPT !.pc = "digest"]
    /\ UNCHANGED <<source, replicaVars, hashed, report, sourceChanges, transferFaults, steady, refused>>

(* 404: listed and no longer served; or the wrong number of bytes.         *)
FetchUnservable ==
    /\ run.pc = "fetch" /\ run.tries > 0 /\ Have < PART_LEN
    /\ IF Key \in source THEN Fault ELSE UNCHANGED transferFaults
    /\ Unusable
    /\ UNCHANGED <<source, replicaVars, sourceChanges, steady>>

Discarded(k) == [tmp EXCEPT ![k] = <<>>]

DigestIsName == hashed = Whole

(* The digest is the name: into place.  If not, the copy is thrown away.   *)
CheckDigest ==
    /\ run.pc = "digest"
    /\ tmp' = IF DigestIsName THEN [tmp EXCEPT ![Key] = <<>>] ELSE Discarded(Key)
    /\ IF DigestIsName
       THEN /\ copies' = [k \in DOMAIN copies \cup {Key} |->
                             IF k \in DOMAIN copies THEN copies[k] ELSE tmp[Key]]
            /\ run' = [run EXCEPT !.pc = "record"] /\ hashed' = <<>>
            /\ UNCHANGED <<report, refused>>
       ELSE Unusable /\ UNCHANGED copies
    /\ UNCHANGED <<source, replicaRows, sourceChanges, transferFaults, steady>>

(* record_replicated_part                                                  *)
RecordCopy ==
    /\ run.pc \in {"record", "adopt"}
    /\ replicaRows' = replicaRows \cup {Key}
    /\ report' = IF run.pc = "record" THEN [report EXCEPT !.fetched = @ + 1]
                 ELSE [report EXCEPT !.adopted = @ + 1]
    /\ run' = Next1(run)
    /\ UNCHANGED <<source, copies, tmp, hashed, sourceChanges, transferFaults, steady, refused>>

(* Stopped, or the process dies: what is on disk stays.                    *)
RunStops ==
    /\ run.pc # "idle" /\ Fault
    /\ RunAborts
    /\ UNCHANGED <<source, replicaVars, report, sourceChanges, steady, refused>>

ReplicateStep ==
    \/ RunStarts \/ FetchPage \/ LookAtEntry \/ PageEnds
    \/ \E a \in {200, 206} : FetchAll(a)
    \/ FetchGivesUp \/ FetchNothing \/ FetchUnservable \/ CheckDigest \/ RecordCopy

ReplicateNext ==
    \/ ReplicateStep
    \/ \E k \in Keys : SourceChanges(k)
    \/ FetchPageFails \/ FetchRestarts \/ RunStops
    \/ \E a \in {200, 206} : FetchDamaged(a) \/ \E n \in 0 .. PART_LEN : FetchBreaks(a, n)

ReplicateFairness == WF_replicateVars(ReplicateStep)

ReplicateSpec == ReplicateInit /\ [][ReplicateNext]_replicateVars /\ ReplicateFairness

-----------------------------------------------------------------------------
(* Properties.                                                             *)

ReplicateTypeOK ==
    /\ source \subseteq Keys /\ replicaRows \subseteq Keys /\ DOMAIN copies \subseteq Keys
    /\ \A k \in Keys : Len(tmp[k]) <= PART_LEN
    /\ run.tries \in 0 .. 2

(* A file under its final name is the part, byte for byte, however many    *)
(* attempts and runs its bytes came in.                                    *)
InstalledIsWhole == \A k \in DOMAIN copies : copies[k] = Whole

(* A catalogued part is on disk: the row comes last, and a run that died   *)
(* before it adopts the file.                                              *)
RecordedHasCopy == replicaRows \subseteq DOMAIN copies

(* A run that says it is complete has caught up: whatever the source has   *)
(* listed from its beginning is here, or was counted as not copied.        *)
CompleteIsCaughtUp == report.complete => steady \subseteq replicaRows \cup refused

(* Once the source settles, what it lists is copied, whatever was left     *)
(* behind by the runs before.                                              *)
ListedIsCopied == \A k \in Keys : <>[](k \in source) => <>(k \in replicaRows)

(* What a replica keeps to: what it installs is whole, what it records it  *)
(* has, and a run that calls itself complete has caught up.                *)
ReplicateInv == ReplicateTypeOK /\ InstalledIsWhole /\ RecordedHasCopy /\ CompleteIsCaughtUp
=============================================================================
