------------------------------ MODULE PartsEdge ------------------------------
(***************************************************************************)
(* The edge's half of the parts path: the upload job (run_job, Uploader in *)
(* parts.rs) with its retries, the state file that remembers what central  *)
(* confirmed, the timer that starts the job and the pass that retires what *)
(* the edge has lost (Driver, retire_pass in parts_edge.rs), two threads   *)
(* that share the state file, and a crash between any two of their steps.  *)
(*                                                                         *)
(* Central is what its answers and its sweep make of it: the parts stored  *)
(* and the tier of each.  A part is its content, so two files may be one   *)
(* part.  Every answer may be lost after it took effect.  A write to the   *)
(* state file may fail or be cut: the next line is appended to what is     *)
(* there, newline or not, and the two are then one line that does not      *)
(* parse.                                                                  *)
(***************************************************************************)
EXTENDS Naturals, FiniteSets, Sequences, SequencesExt

CONSTANTS
    Files,          \* paths of committed files
    Contents,       \* what a file may hold
    ATTEMPTS,       \* Tuning::attempts
    MaxRuns,        \* bound: runs of the upload job
    MaxLost,        \* bound: answers lost, refused or cut off, and writes that fail
    MaxEdgeCrashes, \* bound: crashes
    MaxSweeps       \* bound: parts expired at central

ASSUME PartsEdgeAssumption == IsFiniteSet(Files) /\ ATTEMPTS \in Nat \ {0}

VARIABLES
    content,    \* [Files -> Contents], fixed
    here,       \* files in the store
    partLines,  \* the state file: paths of the lines that parse
    ragged,     \* the state file does not end in a newline
    unclosed,   \* the line before that end, when it parses
    unsure,     \* lines that parse though their append did not return Ok
    job,        \* the upload job
    retires,    \* the retire pass
    storedParts,     \* central: contents it has
    coldness,   \* central: [Contents -> "none", "warm", "cold"]
    runs, lost, edgeCrashes, sweeps,
    confirmed,  \* history: files whose commit central answered
    linesRecorded, \* history: files whose append returned Ok
    forgottenParts,  \* history: files whose line a retire pass dropped
    lineTears       \* history: appends that left the file ragged

stateFile == <<partLines, ragged, unclosed, unsure, lineTears>>
edgeVars == <<here, stateFile, job, retires>>
farVars == <<storedParts, coldness>>
edgeCounts == <<runs, lost, edgeCrashes, sweeps>>
edgeHistory == <<confirmed, linesRecorded, forgottenParts>>
partsEdgeVars == <<content, edgeVars, farVars, edgeCounts, edgeHistory>>

NoFile == "none"

NoJob == [pc |-> "idle", queue |-> <<>>, done |-> {}, file |-> NoFile,
          url |-> "none", put |-> FALSE, attempt |-> 0, stalled |-> 0]

NoRetire == [pc |-> "idle", pending |-> <<>>, forget |-> {}]

PartsEdgeInit ==
    /\ content \in [Files -> Contents]
    /\ here = Files /\ partLines = {} /\ ragged = FALSE /\ unclosed = {} /\ unsure = {} /\ lineTears = 0
    /\ job = NoJob /\ retires = NoRetire
    /\ storedParts = {} /\ coldness = [c \in Contents |-> "none"]
    /\ runs = 0 /\ lost = 0 /\ edgeCrashes = 0 /\ sweeps = 0
    /\ confirmed = {} /\ linesRecorded = {} /\ forgottenParts = {}

PartsAnswered == lost' = lost

NotAnswered == lost < MaxLost /\ lost' = lost + 1

-----------------------------------------------------------------------------
(* run_job                                                                 *)

(* The files there now, and the lines of earlier runs, read once.          *)
StartRun ==
    /\ job.pc = "idle" /\ runs < MaxRuns
    /\ runs' = runs + 1
    /\ \E order \in SetToSeqs(here) :
          job' = [NoJob EXCEPT !.pc = "next", !.queue = order, !.done = partLines]
    /\ UNCHANGED <<content, here, stateFile, retires, farVars, lost, edgeCrashes, sweeps, edgeHistory>>

(* A file an earlier run confirmed is skipped, and one that is gone.       *)
NextFile ==
    /\ job.pc = "next" /\ job.queue # <<>>
    /\ LET f == Head(job.queue)
           rest == [NoJob EXCEPT !.pc = "next", !.queue = Tail(job.queue), !.done = job.done]
       IN  job' = IF f \in job.done \/ f \notin here THEN rest
                  ELSE [rest EXCEPT !.pc = "presign", !.file = f]
    /\ UNCHANGED <<content, here, stateFile, retires, farVars, edgeCounts, edgeHistory>>

RunEnds ==
    /\ job.pc = "next" /\ job.queue = <<>>
    /\ job' = NoJob
    /\ UNCHANGED <<content, here, stateFile, retires, farVars, edgeCounts, edgeHistory>>

(* One more attempt, or the run gives up.                                  *)
Again(j) == IF j.attempt + 1 < ATTEMPTS THEN [j EXCEPT !.attempt = @ + 1, !.pc = "presign"] ELSE NoJob

(* Failure::Rejected: this file is left, and the next one tried.           *)
Rejected == [NoJob EXCEPT !.pc = "next", !.queue = job.queue, !.done = job.done]

Part == content[job.file]

(* 1. A URL, unless there is one that has not run out, or the upload is    *)
(* done.                                                                   *)
PresignPart ==
    /\ job.pc = "presign"
    /\ \/ (job.put \/ job.url # "none") /\ job' = [job EXCEPT !.pc = "put"] /\ PartsAnswered
       \/ ~job.put /\ job.url # "present" /\ PartsAnswered
          /\ job' = [job EXCEPT !.url = IF Part \in storedParts THEN "present" ELSE "url", !.pc = "put"]
       \/ ~job.put /\ job.url = "none" /\ NotAnswered
          /\ job' \in {Again(job), NoJob, Rejected}
    /\ UNCHANGED <<content, here, stateFile, retires, farVars, runs, edgeCrashes, sweeps, edgeHistory>>

(* 2. The upload.  A file that has gone is rejected; a refused URL is      *)
(* asked for again at once; two stalls reject the file.                    *)
PutPart ==
    /\ job.pc = "put"
    /\ \/ (job.put \/ job.url = "present") /\ job' = [job EXCEPT !.pc = "commit"] /\ UNCHANGED storedParts /\ PartsAnswered
       \/ /\ ~job.put /\ job.url = "url"
          /\ \/ job.file \notin here /\ job' = Rejected /\ UNCHANGED storedParts /\ PartsAnswered
             \/ job.file \in here /\ storedParts' = storedParts \cup {Part} /\ PartsAnswered
                /\ job' = [job EXCEPT !.put = TRUE, !.pc = "commit"]
             \/ job.file \in here /\ NotAnswered /\ storedParts' \in {storedParts, storedParts \cup {Part}}
                /\ job' \in {Again([job EXCEPT !.url = "none"]), Again(job)}
             \/ job.file \in here /\ NotAnswered /\ UNCHANGED storedParts
                /\ job' = IF job.stalled = 1 THEN Rejected ELSE Again([job EXCEPT !.stalled = 1])
    /\ UNCHANGED <<content, here, stateFile, retires, coldness, runs, edgeCrashes, sweeps, edgeHistory>>

(* central's commit: INSERT OR IGNORE of a part that is stored.            *)
Committed == coldness' = [coldness EXCEPT ![Part] = IF @ = "none" THEN "warm" ELSE @]

CommitMissed(j) == Again([j EXCEPT !.url = "none", !.put = FALSE])

(* 3. The commit.  Central that cannot see the part has it sent again.     *)
CommitPart ==
    /\ job.pc = "commit"
    /\ \/ /\ Part \in storedParts /\ PartsAnswered /\ Committed
          /\ job' = [job EXCEPT !.pc = "record"]
       \/ /\ Part \notin storedParts /\ PartsAnswered /\ UNCHANGED coldness
          /\ job' = CommitMissed(job)
       \/ /\ NotAnswered
          /\ IF Part \in storedParts THEN Committed \/ UNCHANGED coldness ELSE UNCHANGED coldness
          /\ job' \in {Again(job), NoJob, Rejected}
    /\ confirmed' = IF job'.pc = "record" /\ Part \in storedParts THEN confirmed \cup {job.file} ELSE confirmed
    /\ UNCHANGED <<content, here, stateFile, retires, storedParts, runs, edgeCrashes, sweeps, linesRecorded, forgottenParts>>

(* The bytes of a line go to the end of the file: behind a ragged end they *)
(* join what is there, and neither parses.                                 *)
LineWritten(f, synced) ==
    /\ partLines' = IF ragged THEN partLines \ unclosed ELSE partLines \cup {f}
    /\ unsure' = IF ragged THEN unsure \ unclosed
                ELSE IF synced THEN unsure \ {f} ELSE unsure \cup ({f} \ partLines)
    /\ ragged' = FALSE /\ unclosed' = {}
    /\ UNCHANGED lineTears

(* A part of them: a piece of the line, or all of it but the newline.      *)
LineTorn(f) ==
    /\ ragged' = TRUE /\ lineTears' = lineTears + 1
    /\ \/ unclosed' = {} /\ partLines' = partLines \ unclosed /\ unsure' = unsure \ unclosed
       \/ /\ ~ragged /\ unclosed' = {f} \ partLines
          /\ partLines' = partLines \cup {f} /\ unsure' = unsure \cup unclosed'

(* What an append that does not return Ok leaves: nothing, a part of the   *)
(* line, or the line, written and not synced.                              *)
LineCut(f) ==
    \/ UNCHANGED stateFile
    \/ LineTorn(f)
    \/ LineWritten(f, FALSE)

(* append_state, under the lock of the file.  An error is logged, and the  *)
(* run goes on to the next file.                                           *)
RecordLine ==
    /\ job.pc = "record"
    /\ \/ /\ LineWritten(job.file, TRUE) /\ PartsAnswered
          /\ linesRecorded' = linesRecorded \cup {job.file}
          /\ forgottenParts' = forgottenParts \ {job.file}
       \/ LineCut(job.file) /\ NotAnswered /\ UNCHANGED <<linesRecorded, forgottenParts>>
    /\ job' = Rejected
    /\ UNCHANGED <<content, here, retires, farVars, runs, edgeCrashes, sweeps, confirmed>>

(* A cancel, seen between two steps of a run.                              *)
CancelRun ==
    /\ job.pc \in {"next", "presign"}
    /\ job' = NoJob
    /\ UNCHANGED <<content, here, stateFile, retires, farVars, edgeCounts, edgeHistory>>

-----------------------------------------------------------------------------
(* retire_pass                                                             *)

(* Contents an uploaded file still holds.                                  *)
LivePart == {content[f] : f \in partLines \cap here}

(* pending_retires: the lines whose file is gone.                          *)
Gone == partLines \ here

StartRetire ==
    /\ retires.pc = "idle" /\ Gone # {}
    /\ \E order \in SetToSeqs(Gone) :
          retires' = [pc |-> "tell", forget |-> {},
                      pending |-> [i \in DOMAIN order |->
                                      [file |-> order[i], tell |-> content[order[i]] \notin LivePart]]]
    /\ UNCHANGED <<content, here, stateFile, job, farVars, edgeCounts, edgeHistory>>

RetireNext ==
    /\ retires.pc = "tell" /\ retires.pending # <<>>
    /\ LET p == Head(retires.pending)
           c == content[p.file]
           told == [retires EXCEPT !.pending = Tail(@), !.forget = @ \cup {p.file}]
           cooled == [coldness EXCEPT ![c] = IF @ = "warm" THEN "cold" ELSE @]
       IN  \/ ~p.tell /\ retires' = told /\ UNCHANGED coldness /\ PartsAnswered
           \/ p.tell /\ PartsAnswered /\ retires' = told /\ coldness' = cooled
           \/ p.tell /\ NotAnswered /\ coldness' \in {coldness, cooled}
              /\ retires' = [retires EXCEPT !.pending = <<>>]
    /\ UNCHANGED <<content, here, stateFile, job, storedParts, runs, edgeCrashes, sweeps, edgeHistory>>

(* Mutant of Kept: the file is written again as it was when the pass began *)
(* to read it, so a line appended since is lost.                           *)
KeptOld(forget) == {f \in partLines \ forget : job.pc = "idle" \/ f \in job.done}

Kept(forget) == partLines \ forget

(* drop_state: nothing to forget leaves the file alone; else what parses   *)
(* is written to another file, a newline after every line, synced and      *)
(* renamed over it.  When that fails the lines stay for the next pass.     *)
ForgetLines ==
    /\ retires.pc = "tell" /\ retires.pending = <<>>
    /\ \/ /\ retires.forget # {} /\ PartsAnswered
          /\ partLines' = Kept(retires.forget)
          /\ ragged' = FALSE /\ unclosed' = {} /\ unsure' = {} /\ UNCHANGED lineTears
          /\ forgottenParts' = forgottenParts \cup retires.forget
       \/ /\ retires.forget = {} /\ PartsAnswered
          /\ UNCHANGED <<stateFile, forgottenParts>>
       \/ /\ retires.forget # {} /\ NotAnswered
          /\ UNCHANGED <<stateFile, forgottenParts>>
    /\ retires' = NoRetire
    /\ UNCHANGED <<content, here, job, farVars, runs, edgeCrashes, sweeps, confirmed, linesRecorded>>

-----------------------------------------------------------------------------

(* Retention, compaction or the budget takes a file.                       *)
FileGoes(f) ==
    /\ f \in here
    /\ here' = here \ {f}
    /\ UNCHANGED <<content, stateFile, job, retires, farVars, edgeCounts, edgeHistory>>

(* A crash, of the process or of the machine: an append under way is cut,  *)
(* and lines that were never synced may be lost.                           *)
EdgeCrash ==
    /\ edgeCrashes < MaxEdgeCrashes
    /\ edgeCrashes' = edgeCrashes + 1
    /\ \/ job.pc = "record" /\ LineCut(job.file)
       \/ /\ \E gone \in SUBSET unsure :
                 /\ partLines' = partLines \ gone /\ unsure' = unsure \ gone
                 /\ unclosed' = unclosed \ gone
          /\ UNCHANGED <<ragged, lineTears>>
    /\ job' = NoJob /\ retires' = NoRetire
    /\ UNCHANGED <<content, here, farVars, runs, lost, sweeps, edgeHistory>>

(* Central expires a part.                                                 *)
CentralSweeps(c) ==
    /\ coldness[c] # "none" /\ sweeps < MaxSweeps
    /\ sweeps' = sweeps + 1
    /\ storedParts' = storedParts \ {c}
    /\ coldness' = [coldness EXCEPT ![c] = "none"]
    /\ UNCHANGED <<content, edgeVars, runs, lost, edgeCrashes, edgeHistory>>

JobNext ==
    NextFile \/ RunEnds \/ PresignPart \/ PutPart \/ CommitPart \/ RecordLine

RetireStep == StartRetire \/ RetireNext \/ ForgetLines

PartsEdgeNext ==
    \/ StartRun \/ JobNext \/ CancelRun
    \/ RetireStep
    \/ \E f \in Files : FileGoes(f)
    \/ EdgeCrash
    \/ \E c \in Contents : CentralSweeps(c)

PartsEdgeFairness == WF_partsEdgeVars(JobNext) /\ WF_partsEdgeVars(RetireStep)

PartsEdgeSpec == PartsEdgeInit /\ [][PartsEdgeNext]_partsEdgeVars /\ PartsEdgeFairness

-----------------------------------------------------------------------------
(* Properties.                                                             *)

PartsEdgeTypeOK ==
    /\ here \subseteq Files /\ partLines \subseteq Files
    /\ ragged \in BOOLEAN /\ unclosed \subseteq unsure /\ unsure \subseteq partLines
    /\ lineTears \in Nat
    /\ job.pc \in {"idle", "next", "presign", "put", "commit", "record"}
    /\ job.attempt < ATTEMPTS /\ job.stalled \in {0, 1}
    /\ job.pc \in {"commit", "record"} => job.put \/ job.url = "present"
    /\ retires.pc \in {"idle", "tell"}

(* A file is remembered as uploaded only after central confirmed it: what  *)
(* the pins and the reclaim let go of is at central.                       *)
RecordedIsConfirmed == partLines \subseteq confirmed

(* A line leaves the state file only when its file is gone, whichever way  *)
(* the pass that rewrites the file and the job that appends to it meet.    *)
ForgottenIsGone == \A f \in forgottenParts : f \notin here

(* A line that parses stays until a pass forgets it: all that is lost any  *)
(* other way is a line whose own append never returned Ok.                 *)
LinesSurvive == [][partLines \ partLines' \subseteq forgottenParts' \cup unsure]_partsEdgeVars

(* Lines whose append returned Ok that are neither there nor forgotten.    *)
Swallowed == linesRecorded \ (partLines \cup forgottenParts)

(* An append that returned Ok recorded its file, but for one append after  *)
(* each write that was cut: that one has gone behind the cut line and      *)
(* cannot be read, though the code was told that it is there.              *)
SwallowedByTears == Cardinality(Swallowed) <= lineTears

(* A file that is gone is reported to central, and its line dropped, in    *)
(* the end, through lost answers and crashes.                              *)
GoneIsRetired == \A f \in Files : (f \in partLines /\ f \notin here) ~> f \notin partLines

(* What the edge promises about the parts it remembers: a line stands for  *)
(* a part central confirmed, is forgotten only when the file is gone, and  *)
(* is lost by neither of the two threads that write the file; a write that *)
(* was cut costs the line appended behind it, and no other.                *)
PartsEdgePromise ==
    /\ [](PartsEdgeTypeOK /\ RecordedIsConfirmed /\ ForgottenIsGone /\ SwallowedByTears)
    /\ LinesSurvive
=============================================================================
