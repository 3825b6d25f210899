------------------------------ MODULE FileTail ------------------------------
(***************************************************************************)
(* The file tailer (tail.rs): one followed path, the files that come and   *)
(* go under it, the poll that reads them, the checkpoint it saves, the     *)
(* record path that then takes the lines or drops them, and the queue and  *)
(* WAL behind it, whose lines a crash takes until they are synced.         *)
(*                                                                         *)
(* A line is written in two pieces, of which the second ends it; offsets   *)
(* count pieces.  Files never share an inode.  Which paths a source claims *)
(* (patterns, exclusions) is left to Claimed, one path being enough here;  *)
(* the second part is about the patterns alone.                            *)
(***************************************************************************)
EXTENDS Integers, Sequences, FiniteSets, SequencesExt, FiniteSetsExt

CONSTANTS
    MaxLines,     \* bound: lines written
    MaxInodes,    \* bound: files that are at the path in turn
    MaxTruncates, \* bound: truncations
    MaxTailCrashes, \* bound: crashes
    Paths,        \* the paths of the sources
    Matches       \* [Paths -> Seq(sources)]: the sources that match, in order

ASSUME FileTailAssumption ==
    /\ {MaxLines, MaxInodes, MaxTruncates, MaxTailCrashes} \subseteq Nat
    /\ DOMAIN Matches = Paths

VARIABLES
    files,        \* [inodes -> sequences of pieces]
    at,           \* the inode at the path; 0 when there is none
    inodes,       \* inodes handed out so far
    lines,        \* lines begun so far
    partialLine,  \* the line being written, or 0
    known,        \* the tailer has a cursor for the path
    cur,          \* the cursor: id, offset, partial, handle (0 when not open)
    step,         \* where the poll is
    stat,         \* what metadata(path) said: id and len
    from_end,     \* TailSource::from_end
    started,      \* a poll has run
    checkpoint,   \* the saved cursor: id and offset, or none
    polled,       \* texts the poll has read and not handed on
    pipeline,     \* texts in the queue and the WAL, not on disk
    stored,       \* texts on disk, in order
    truncates, tailCrashes,
    excused,      \* history: lines that no tailer could read whole
    torn,         \* history: lines whose first piece was dropped at a crash
    lostInFlight, \* history: lines the crash took before they were on disk
    droppedLines, \* history: lines read and then refused, shed or cut off
    replayed,     \* history: the crash came between a read and its checkpoint
    cut,          \* history: the file was truncated since the cursor read it,
                  \* or before the last crash
    raced         \* history: the path changed file between stat and open, or
                  \* a file shrank and grew again unseen

diskVars == <<files, at, inodes, lines, partialLine, truncates>>
tailVars == <<known, cur, step, stat, started>>
outVars == <<polled, pipeline, stored>>
tailHistory == <<excused, torn, lostInFlight, droppedLines, replayed, cut, raced>>
allTailVars == <<diskVars, tailVars, from_end, checkpoint, outVars, tailCrashes, tailHistory>>

NoCursor == [id |-> 0, offset |-> 0, partial |-> <<>>, handle |-> 0]

(* The sources are independent, and the first that matches a path owns it. *)
Claimed(p) == Matches[p][1]

TailInit ==
    /\ files = [i \in 1 .. MaxInodes |-> <<>>]
    /\ at \in {0, 1} /\ inodes = at
    /\ lines = 0 /\ partialLine = 0
    /\ known = FALSE /\ cur = NoCursor
    /\ step = "idle" /\ stat = [id |-> 0, len |-> 0]
    /\ from_end \in BOOLEAN
    /\ started = FALSE
    /\ checkpoint = [id |-> 0, offset |-> 0]
    /\ polled = <<>> /\ pipeline = <<>> /\ stored = <<>>
    /\ truncates = 0 /\ tailCrashes = 0
    /\ excused = {} /\ torn = {} /\ lostInFlight = {} /\ droppedLines = {}
    /\ replayed = FALSE /\ cut = FALSE /\ raced = FALSE

-----------------------------------------------------------------------------
(* The application that writes the log.                                    *)

First(l) == <<l, 1>>

Second(l) == <<l, 2>>

EndsIn(pieces) == {l \in 1 .. MaxLines : Second(l) \in ToSet(pieces)}

BeginsIn(pieces) == {l \in 1 .. MaxLines : First(l) \in ToSet(pieces)}

BeginLine ==
    /\ at # 0 /\ partialLine = 0 /\ lines < MaxLines
    /\ lines' = lines + 1
    /\ partialLine' = lines + 1
    /\ files' = [files EXCEPT ![at] = Append(@, First(lines + 1))]
    /\ UNCHANGED <<at, inodes, truncates, tailVars, from_end, checkpoint, outVars, tailCrashes, tailHistory>>

EndLine ==
    /\ at # 0 /\ partialLine # 0
    /\ partialLine' = 0
    /\ files' = [files EXCEPT ![at] = Append(@, Second(partialLine))]
    /\ UNCHANGED <<at, inodes, lines, truncates, tailVars, from_end, checkpoint, outVars, tailCrashes, tailHistory>>

Unopened(i) == cur.handle # i

(* Rotation: the file is renamed away, and another appears at once, or     *)
(* later.  The tailer can still read the old one if it has it open; a line *)
(* being written is abandoned, and its beginning stays in the old file.    *)
Rotate(next) ==
    /\ at # 0
    /\ partialLine' = 0
    /\ next \in {0, inodes + 1} /\ next <= MaxInodes
    /\ at' = next
    /\ inodes' = IF next = 0 THEN inodes ELSE next
    /\ excused' = excused \cup (IF Unopened(at) THEN BeginsIn(files[at]) ELSE {}) \cup ({partialLine} \ {0})
    /\ raced' = (raced \/ step \in {"open", "look", "reopen"})
    /\ UNCHANGED <<files, lines, truncates, tailVars, from_end, checkpoint, outVars, tailCrashes, torn, lostInFlight, droppedLines, replayed, cut>>

(* A file appears, where the last one was.                                 *)
Appear ==
    /\ at = 0 /\ inodes < MaxInodes
    /\ at' = inodes + 1 /\ inodes' = inodes + 1
    /\ raced' = (raced \/ step \in {"open", "look", "reopen"})
    /\ UNCHANGED <<files, lines, partialLine, truncates, tailVars, from_end, checkpoint, outVars, tailCrashes, excused, torn, lostInFlight, droppedLines, replayed, cut>>

(* Truncation: the inode stays.  What was not read is gone.                *)
Truncate ==
    /\ at # 0 /\ partialLine = 0 /\ truncates < MaxTruncates
    /\ truncates' = truncates + 1
    /\ files' = [files EXCEPT ![at] = <<>>]
    /\ excused' = excused \cup BeginsIn(files[at])
    /\ cut' = (cut \/ at \in {cur.id, checkpoint.id})
    /\ UNCHANGED <<at, inodes, lines, partialLine, tailVars, from_end, checkpoint, outVars, tailCrashes, torn, lostInFlight, droppedLines, replayed, raced>>

-----------------------------------------------------------------------------
(* poll_one                                                                *)

(* metadata(path); a path that is gone keeps its cursor.                   *)
Stat ==
    /\ step = "idle" /\ at # 0
    /\ stat' = [id |-> at, len |-> Len(files[at])]
    /\ started' = TRUE
    /\ LET skip == from_end /\ ~started
           c == IF known THEN cur
                ELSE [id |-> at, offset |-> IF skip THEN Len(files[at]) ELSE 0, partial |-> <<>>, handle |-> 0]
       IN  /\ cur' = c
           /\ excused' = IF ~known /\ skip THEN excused \cup BeginsIn(files[at]) ELSE excused
    /\ known' = TRUE
    /\ step' = "open"
    /\ UNCHANGED <<diskVars, from_end, checkpoint, outVars, tailCrashes, torn, lostInFlight, droppedLines, replayed, cut, raced>>

PollMissing ==
    /\ step = "idle" /\ at = 0 /\ ~started
    /\ started' = TRUE
    /\ UNCHANGED <<diskVars, known, cur, step, stat, from_end, checkpoint, outVars, tailCrashes, tailHistory>>

(* A cursor without a handle opens the path; one from a checkpoint whose   *)
(* file has gone starts over with the new one.                             *)
OpenHandle ==
    /\ step = "open"
    /\ LET c == IF cur.handle # 0 THEN cur
                ELSE IF cur.id # stat.id
                THEN [id |-> stat.id, offset |-> 0, partial |-> <<>>, handle |-> at]
                ELSE [cur EXCEPT !.handle = at]
       IN  /\ cur' = c
           /\ excused' = IF cur.handle = 0 /\ cur.id # stat.id
                         THEN excused \cup BeginsIn(files[cur.id]) ELSE excused
    /\ step' = "look"
    /\ UNCHANGED <<diskVars, known, stat, started, from_end, checkpoint, outVars, tailCrashes, torn, lostInFlight, droppedLines, replayed, cut, raced>>

(* The texts of the complete lines of some pieces, and what is left over.  *)
LineEnds(pieces) == {i \in DOMAIN pieces : pieces[i][2] = 2}

LastEnd(pieces) == IF LineEnds(pieces) = {} THEN 0 ELSE CHOOSE i \in LineEnds(pieces) : \A j \in LineEnds(pieces) : j <= i

Texts(pieces) ==
    LET ends == SetToSortSeq(LineEnds(pieces), <)
    IN  [i \in 1 .. Len(ends) |->
            SubSeq(pieces, IF i = 1 THEN 1 ELSE ends[i - 1] + 1, ends[i])]

(* drain_handle: everything from the offset to the end of the open file.   *)
NewPieces == IF cur.handle = 0 THEN <<>>
             ELSE SubSeq(files[cur.handle], cur.offset + 1, Len(files[cur.handle]))

Drained(c) ==
    LET text == c.partial \o NewPieces
        n == LastEnd(text)
    IN  [emit |-> Texts(SubSeq(text, 1, n)),
         cursor |-> [c EXCEPT !.offset = @ + Len(NewPieces), !.partial = SubSeq(text, n + 1, Len(text))]]

(* Mutant of Afresh: the fragment of the old file is kept for the new.     *)
AfreshKept(partial) == [id |-> stat.id, offset |-> 0, partial |-> partial, handle |-> 0]

Afresh(partial) == [id |-> stat.id, offset |-> 0, partial |-> <<>>, handle |-> 0]

Leftover(partial) == IF partial = <<>> THEN <<>> ELSE <<partial>>

(* A rotated file is drained through its handle, its last fragment goes    *)
(* out as it is, and the new file is opened, as it then is.                *)
DrainRotated ==
    /\ step = "look" /\ cur.id # stat.id
    /\ LET d == Drained(cur)
       IN  /\ polled' = polled \o d.emit \o Leftover(d.cursor.partial)
           /\ cur' = Afresh(d.cursor.partial)
           /\ excused' = excused \cup (BeginsIn(d.cursor.partial) \ EndsIn(d.cursor.partial))
    /\ step' = "reopen"
    /\ UNCHANGED <<diskVars, known, stat, started, from_end, checkpoint, pipeline, stored, tailCrashes, torn, lostInFlight, droppedLines, replayed, cut, raced>>

Reopen ==
    /\ step = "reopen"
    /\ cur' = [cur EXCEPT !.handle = at]
    /\ step' = "drain"
    /\ UNCHANGED <<diskVars, known, stat, started, from_end, checkpoint, outVars, tailCrashes, tailHistory>>

Shrunk == stat.len < cur.offset

(* A file shorter than the offset was truncated; one that has grown past   *)
(* it again since is not recognised.                                       *)
CheckLength ==
    /\ step = "look" /\ cur.id = stat.id
    /\ cur' = IF Shrunk THEN Afresh(cur.partial) ELSE cur
    /\ step' = IF Shrunk THEN "reopen" ELSE "drain"
    /\ cut' = (cut /\ ~Shrunk)
    /\ UNCHANGED <<diskVars, known, stat, started, from_end, checkpoint, outVars, tailCrashes, excused, torn, lostInFlight, droppedLines, replayed, raced>>

DrainFile ==
    /\ step = "drain"
    /\ LET d == Drained(cur)
       IN  polled' = polled \o d.emit /\ cur' = d.cursor
    /\ step' = "save"
    /\ raced' = (raced \/ (cut /\ NewPieces # <<>>))
    /\ UNCHANGED <<diskVars, known, stat, started, from_end, checkpoint, pipeline, stored, tailCrashes, excused, torn, lostInFlight, droppedLines, replayed, cut>>

(* save_checkpoint: the offset, which is behind the fragment held back.    *)
SaveCheckpoint ==
    /\ step = "save"
    /\ checkpoint' = [id |-> cur.id, offset |-> cur.offset]
    /\ step' = IF polled = <<>> THEN "idle" ELSE "hand"
    /\ UNCHANGED <<diskVars, known, cur, stat, started, from_end, outVars, tailCrashes, tailHistory>>

WholeLines(texts) == {l \in 1 .. MaxLines : \E i \in DOMAIN texts : texts[i] = <<First(l), Second(l)>>}

(* The record path takes what the poll read, after the checkpoint is       *)
(* saved.  Any of it (refused) may not go on: its index is refused, it is  *)
(* DEBUG under critical pressure, the queue sheds it, or the record cap    *)
(* ends the loop before it.  Nothing brings it back.                       *)
HandOver(refused) ==
    /\ step = "hand" /\ refused \subseteq DOMAIN polled
    /\ LET taken == SetToSortSeq(DOMAIN polled \ refused, <)
       IN  pipeline' = pipeline \o [i \in DOMAIN taken |-> polled[taken[i]]]
    /\ droppedLines' = droppedLines \cup WholeLines([i \in refused |-> polled[i]])
    /\ polled' = <<>>
    /\ step' = "idle"
    /\ UNCHANGED <<diskVars, known, cur, stat, started, from_end, checkpoint, stored, tailCrashes, excused, torn, lostInFlight, replayed, cut, raced>>

-----------------------------------------------------------------------------

(* The WAL syncs what it was given.                                        *)
SyncLines ==
    /\ pipeline # <<>>
    /\ stored' = stored \o pipeline
    /\ pipeline' = <<>>
    /\ UNCHANGED <<diskVars, tailVars, from_end, checkpoint, polled, tailCrashes, tailHistory>>

(* load_checkpoint: the fragment is not saved, and is not read again.      *)
Restored == [id |-> checkpoint.id, offset |-> checkpoint.offset, partial |-> <<>>, handle |-> 0]

(* The first pieces before the saved offset whose line ends behind it.     *)
Split == IF checkpoint.id = 0 THEN {}
         ELSE LET n == Len(files[checkpoint.id])
                  read == SubSeq(files[checkpoint.id], 1, IF checkpoint.offset < n THEN checkpoint.offset ELSE n)
              IN  BeginsIn(read) \ EndsIn(read)

TailCrash ==
    /\ tailCrashes < MaxTailCrashes
    /\ tailCrashes' = tailCrashes + 1
    /\ lostInFlight' = lostInFlight \cup WholeLines(pipeline \o polled)
    /\ torn' = torn \cup Split
    /\ replayed' = (replayed \/ step \notin {"idle", "open", "hand"})
    /\ excused' = IF cur.handle # 0 /\ cur.handle # at
                  THEN excused \cup BeginsIn(files[cur.handle]) ELSE excused
    /\ polled' = <<>> /\ pipeline' = <<>>
    /\ cur' = IF checkpoint.id = 0 THEN NoCursor ELSE Restored
    /\ known' = (checkpoint.id # 0)
    /\ step' = "idle" /\ started' = FALSE
    /\ stat' = [id |-> 0, len |-> 0]
    /\ cut' = (truncates > 0)
    /\ UNCHANGED <<diskVars, from_end, checkpoint, stored, droppedLines, raced>>

TailerNext ==
    \/ Stat \/ PollMissing \/ OpenHandle \/ DrainRotated \/ Reopen \/ CheckLength \/ DrainFile
    \/ SaveCheckpoint \/ \E refused \in SUBSET DOMAIN polled : HandOver(refused)

TailNext ==
    \/ BeginLine \/ EndLine \/ \E i \in 0 .. MaxInodes : Rotate(i)
    \/ Appear \/ Truncate
    \/ TailerNext
    \/ SyncLines
    \/ TailCrash

TailFairness == WF_allTailVars(TailerNext) /\ WF_allTailVars(SyncLines)

TailSpec == TailInit /\ [][TailNext]_allTailVars /\ TailFairness

-----------------------------------------------------------------------------
(* Properties.                                                             *)

FileTailTypeOK ==
    /\ at \in 0 .. MaxInodes
    /\ cur.id \in 0 .. MaxInodes /\ cur.handle \in 0 .. MaxInodes
    /\ step \in {"idle", "open", "look", "reopen", "drain", "save", "hand"}
    /\ lines \in 0 .. MaxLines /\ partialLine \in {0, lines}
    /\ ~known => cur = NoCursor
    /\ cur.handle # 0 /\ truncates = 0 /\ ~raced => cur.offset <= Len(files[cur.handle])

Emitted == stored \o pipeline \o polled

Unread == IF ~known THEN EndsIn(files[IF at = 0 THEN 1 ELSE at])
          ELSE UNION {EndsIn(SubSeq(files[i], 1 + (IF i = cur.id THEN cur.offset ELSE 0), Len(files[i]))) :
                        i \in {at, cur.id, cur.handle} \ {0}}

Finished == {l \in 1 .. lines : l # partialLine}

(* Nothing is skipped: every finished line has been read whole (and may    *)
(* then have been dropped by the record path) or is still ahead of the     *)
(* cursor, through rotations before, between and after polls, unless its   *)
(* file was truncated or gone before it could be opened.  A crash takes    *)
(* what was in flight, and the line it cut in two.                         *)
LinesAreRead ==
    ~raced /\ ~cut /\ step = "idle" =>
        Finished \ (excused \cup torn \cup lostInFlight) \subseteq WholeLines(Emitted) \cup droppedLines \cup Unread

(* tail.rs, in load_checkpoint: "Partial lines are deliberately not        *)
(* persisted: on restart the fragment is re-read from the file itself".    *)
FragmentsAreReread ==
    ~raced /\ ~cut /\ step = "idle" =>
        Finished \ (excused \cup lostInFlight) \subseteq WholeLines(Emitted) \cup droppedLines \cup Unread

(* No line is emitted twice, unless the crash came after its read and      *)
(* before the checkpoint.                                                  *)
EmittedOnce ==
    ~raced /\ ~replayed =>
        \A l \in 1 .. MaxLines : Cardinality({i \in DOMAIN Emitted : Second(l) \in ToSet(Emitted[i])}) <= 1

(* No text is glued together from two lines: a fragment is completed by    *)
(* its own line, goes out alone, or is dropped, whatever happens to the    *)
(* file while it is held back.                                             *)
NothingIsGlued ==
    truncates = 0 /\ ~raced =>
        \A i \in DOMAIN Emitted : \A j, k \in DOMAIN Emitted[i] : Emitted[i][j][1] = Emitted[i][k][1]

(* A finished line reaches the disk in the end, unless the record path     *)
(* dropped it, a crash took it, or no tailer could read it whole.          *)
LinesAreStored ==
    \A l \in 1 .. MaxLines :
        l \in Finished ~>
            \/ l \in WholeLines(stored) \cup droppedLines \cup excused \cup torn \cup lostInFlight
            \/ raced \/ at = 0

(* What tail.rs keeps to: no line is made of two, and each line written is *)
(* read unless its file was cut or gone before a poll saw it.              *)
FileTailInv == FileTailTypeOK /\ NothingIsGlued /\ LinesAreRead

-----------------------------------------------------------------------------
(* The path patterns of a source: the walk that finds the files of a       *)
(* pattern, component by component, with ** for any depth; the matching of *)
(* one component, with its backtracking loop; and the matching of a whole  *)
(* path that excludes files.  One of them runs at a time: a component is   *)
(* matched (glob_match, a step per turn of its loop), or a tree is walked  *)
(* (walk_glob, a step per call).                                           *)
(*                                                                         *)
(* A name and a pattern component are sequences of characters; Rank orders *)
(* them.  A tree is a set of [path, kind], kind "file", "dir" or "link" (a *)
(* symbolic link to a directory without files).                            *)

CONSTANTS
    GlobNames,      \* file names matched
    Components,     \* patterns of one component
    Trees,
    PathPatterns,   \* patterns of a path: sequences of components
    Rank            \* the order of the characters

VARIABLES
    glob,      \* the matcher: [pattern, name, pi, ni, star, star_n, result]
    walk       \* the walk: [pattern, tree, calls, out]

globVars == <<glob, walk>>

STAR == "*"
DoubleStar == <<"*", "*">>
Special == {"*", "?", "["}
UsizeMax == -1       \* usize::MAX: no star yet

-----------------------------------------------------------------------------
(* One component.                                                          *)

(* class_match at pattern[start]: what the class holds and its length, or  *)
(* length 0 when it is not closed.                                         *)
ClassMatch(pattern, start, c) ==
    LET closes == {i \in start..Len(pattern) : pattern[i] = "]"}
        close == Min(closes)
        negated == pattern[start + 1] \in {"!", "^"}
        first == IF negated THEN start + 2 ELSE start + 1
        body == SubSeq(pattern, first, close - 1)
        ranges == {i \in DOMAIN body : i + 2 <= Len(body) /\ body[i + 1] = "-"}
        inRange == \E i \in ranges : Rank[body[i]] <= Rank[c] /\ Rank[c] <= Rank[body[i + 2]]
        alone == {i \in DOMAIN body : \A r \in ranges : i \notin r..(r + 2)}
        named == \E i \in alone : body[i] = c
    IN IF closes = {} THEN [length |-> 0, matched |-> FALSE]
       ELSE [length |-> close - start + 1, matched |-> (inRange \/ named) # negated]

(* glob_match, one turn of its loop: the indices are the code's.           *)
Advance(g) == [g EXCEPT !.pi = @ + 1, !.ni = @ + 1]

(* The last star takes one character more, or there is none.               *)
Backtrack(g) ==
    IF g.star # UsizeMax THEN [g EXCEPT !.pi = g.star + 1, !.star_n = @ + 1, !.ni = g.star_n + 1]
    ELSE [g EXCEPT !.result = "no"]

GlobTurn(g) ==
    LET more == g.pi < Len(g.pattern)
        p == g.pattern[g.pi + 1]
        c == g.name[g.ni + 1]
        class == ClassMatch(g.pattern, g.pi + 1, c)
    IN CASE more /\ p = STAR -> [g EXCEPT !.star = g.pi, !.star_n = g.ni, !.pi = @ + 1]
         [] more /\ p # STAR /\ (p = "?" \/ p = c) -> Advance(g)
         [] more /\ p = "[" /\ p # c ->
              IF class.length > 0 /\ class.matched THEN [g EXCEPT !.pi = @ + class.length, !.ni = @ + 1]
              ELSE Backtrack(g)
         [] OTHER -> Backtrack(g)

(* The name is used up: what is left of the pattern must be stars.         *)
GlobEnd(g) ==
    [g EXCEPT !.result = IF \A i \in (g.pi + 1)..Len(g.pattern) : g.pattern[i] = STAR THEN "yes" ELSE "no"]

GlobStep ==
    /\ glob.result = "unknown"
    /\ glob' = IF glob.ni < Len(glob.name) THEN GlobTurn(glob) ELSE GlobEnd(glob)
    /\ UNCHANGED walk

(* What a component means: the pieces of the pattern, a star any run of    *)
(* characters.                                                             *)
GlobMatches(pattern, name) ==
    LET np == Len(pattern)
        nn == Len(name)
        class(i, j) == ClassMatch(pattern, i, name[j])
        m[i \in 1..(np + 1), j \in 1..(nn + 1)] ==
            CASE i > np -> j > nn
              [] i <= np /\ pattern[i] = STAR -> m[i + 1, j] \/ (j <= nn /\ m[i, j + 1])
              [] i <= np /\ pattern[i] # STAR /\ j > nn -> FALSE
              [] OTHER ->
                   IF pattern[i] = "[" /\ class(i, j).length > 0
                   THEN class(i, j).matched /\ m[i + class(i, j).length, j + 1]
                   ELSE pattern[i] \in {"?", name[j]} /\ m[i + 1, j + 1]
    IN m[1, 1]

-----------------------------------------------------------------------------
(* A path.                                                                 *)

IsPatternSegment(segment) == \E i \in DOMAIN segment : segment[i] \in Special

(* segments_match: ** spans any number of components.                      *)
SegmentsMatch(pattern, path) ==
    LET m[i \in 1..(Len(pattern) + 1), j \in 1..(Len(path) + 1)] ==
            CASE i > Len(pattern) -> j > Len(path)
              [] i <= Len(pattern) /\ pattern[i] = DoubleStar -> m[i + 1, j] \/ (j <= Len(path) /\ m[i, j + 1])
              [] OTHER -> j <= Len(path) /\ GlobMatches(pattern[i], path[j]) /\ m[i + 1, j + 1]
    IN m[1, 1]

(* A trailing ** means every file below.                                   *)
Segments(pattern) == IF pattern[Len(pattern)] = DoubleStar THEN Append(pattern, <<STAR>>) ELSE pattern

Entries(tree, dir) == {e \in tree : Len(e.path) = Len(dir) + 1 /\ IsPrefix(dir, e.path)}
IsFile(tree, path) == [path |-> path, kind |-> "file"] \in tree

(* Mutant of Descends: ** starts one directory down.                       *)
DescendsBelow(tree, dir, rest) == {[dir |-> e.path, rest |-> rest] : e \in {x \in Entries(tree, dir) : x.kind = "dir"}}

(* The calls a ** makes: what follows here, and itself in each directory.  *)
Descends(tree, dir, rest) ==
    {[dir |-> dir, rest |-> Tail(rest)]}
        \cup {[dir |-> e.path, rest |-> rest] : e \in {x \in Entries(tree, dir) : x.kind = "dir"}}

(* The entries a component takes: named, or matched.                       *)
Taken(tree, dir, segment) ==
    IF IsPatternSegment(segment)
    THEN {e.path : e \in {x \in Entries(tree, dir) : GlobMatches(segment, x.path[Len(x.path)])}}
    ELSE {Append(dir, segment)}

(* walk_glob: one call.  A call below what is no directory finds nothing.  *)
WalkStep(call) ==
    LET segment == Head(call.rest)
        rest == Tail(call.rest)
        taken == Taken(walk.tree, call.dir, segment)
        calls == walk.calls \ {call}
    IN /\ call \in walk.calls
       /\ walk' = IF segment = DoubleStar THEN [walk EXCEPT !.calls = calls \cup Descends(walk.tree, call.dir, call.rest)]
                  ELSE IF rest = <<>> THEN [walk EXCEPT !.calls = calls, !.out = @ \cup {p \in taken : IsFile(walk.tree, p)}]
                  ELSE [walk EXCEPT !.calls = calls \cup {[dir |-> p, rest |-> rest] : p \in taken}]
       /\ UNCHANGED glob

-----------------------------------------------------------------------------
NoGlob == [pattern |-> <<>>, name |-> <<>>, pi |-> 0, ni |-> 0, star |-> UsizeMax, star_n |-> 0, result |-> "none"]
NoWalk == [pattern |-> <<>>, tree |-> {}, calls |-> {}, out |-> {}]

GlobInit == glob = NoGlob /\ walk = NoWalk

(* A name is matched, or (glob_paths) a pattern is walked.                 *)
MatchStarts ==
    /\ glob = NoGlob /\ walk = NoWalk
    /\ \E pattern \in Components, name \in GlobNames :
          glob' = [NoGlob EXCEPT !.pattern = pattern, !.name = name, !.result = "unknown"]
    /\ UNCHANGED walk

WalkStarts ==
    /\ glob = NoGlob /\ walk = NoWalk
    /\ \E pattern \in PathPatterns, tree \in Trees :
          walk' = [pattern |-> pattern, tree |-> tree, calls |-> {[dir |-> <<>>, rest |-> Segments(pattern)]}, out |-> {}]
    /\ UNCHANGED glob

GlobSteps == GlobStep \/ \E call \in walk.calls : WalkStep(call)

GlobNext == MatchStarts \/ WalkStarts \/ GlobSteps

GlobFairness == WF_globVars(GlobSteps)

GlobSpec == GlobInit /\ [][GlobNext]_globVars /\ GlobFairness

-----------------------------------------------------------------------------
(* The loop's indices stay within the pattern and the name.                *)
GlobTypeOK ==
    /\ glob.pi \in 0..Len(glob.pattern) /\ glob.ni \in 0..Len(glob.name)
    /\ glob.star \in {UsizeMax} \cup 0..Len(glob.pattern) /\ glob.star_n \in 0..glob.ni
    /\ \A path \in walk.out : IsFile(walk.tree, path)

(* The loop that only ever goes back to the last star decides what the     *)
(* pattern means.                                                          *)
GlobIsExact == glob.result \in {"yes", "no"} => (glob.result = "yes") = GlobMatches(glob.pattern, glob.name)

(* The walk finds the files the matching of whole paths (the excludes)     *)
(* accepts for the same components, however the stars nest.                *)
WalkFindsMatches ==
    walk # NoWalk /\ walk.calls = {} =>
        walk.out = {e.path : e \in {x \in walk.tree : x.kind = "file" /\ SegmentsMatch(Segments(walk.pattern), x.path)}}

(* Matching and walking end, however many stars the pattern has.           *)
GlobEnds == (glob.result = "unknown" \/ walk.calls # {}) ~> (glob.result # "unknown" /\ walk.calls = {})

(* What the patterns of tail.rs keep to: a component matches what its      *)
(* pattern means, and a walk finds the files the pattern names.            *)
GlobInv == GlobTypeOK /\ GlobIsExact /\ WalkFindsMatches
=============================================================================
