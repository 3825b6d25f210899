------------------------------- MODULE Spool --------------------------------
(***************************************************************************)
(* The durable outbound queue of spool.rs: append-only segments read from  *)
(* the front, and a cursor in a file of its own.  Its operations are       *)
(* actions over the spool's state, for the threads that own one to take.   *)
(*                                                                         *)
(* A segment is the sequence of its cells: a frame, or TornTail for bytes  *)
(* that do not read back as one (a write that failed half-way, or what a   *)
(* crash left of the last frame).  Offsets count cells; sizes count HEADER *)
(* and FRAME bytes, a frame being a byte of payload and a byte of          *)
(* overhead.                                                               *)
(***************************************************************************)
EXTENDS Naturals, Sequences, FiniteSets, SequencesExt, FiniteSetsExt, Functions

CONSTANTS
    SegmentBytes,    \* SpoolConfig::segment_bytes
    MaxTotalBytes,   \* SpoolConfig::max_total_bytes
    MaxSpoolFaults   \* bound: failed calls, crashes and lost answers

ASSUME SpoolAssumption == {SegmentBytes, MaxTotalBytes, MaxSpoolFaults} \subseteq Nat

HEADER_BYTES == 1

FRAME_OVERHEAD == 1

VARIABLES
    segments,      \* [segment ids -> sequences of cells]: the files
    onDisk,        \* [segment ids -> Nat]: cells of each that are synced
    write_segment, \* the segment being appended to
    cursor,        \* the reader's position in memory
    cursorFile,    \* the cursor as saved; segment 0 while there is no file
    accepted,      \* history: the frames push took
    hidden,        \* history: frames appended where the reader will not look
    gone,          \* history: frames a crash took before they were synced
    usable,        \* open succeeded
    spoolFaults    \* failures so far

spoolVars == <<segments, onDisk, write_segment, cursor, cursorFile, accepted, hidden, gone, usable, spoolFaults>>

TornTail == 0

Cursor(s, o) == [segment |-> s, offset |-> o]

list_segments == DOMAIN segments

(* A file is its header and, for each cell, a byte, and one more when it   *)
(* is a whole frame.                                                       *)
SegmentSize(cells) == HEADER_BYTES + Len(cells) + Cardinality({i \in DOMAIN cells : cells[i] # TornTail})

(* The bytes of all the files, each told by its file and its place in it.  *)
total_bytes == Cardinality(UNION {{s} \X (1 .. SegmentSize(segments[s])) : s \in list_segments})

SpoolInit ==
    /\ segments = [s \in {1} |-> <<>>]
    /\ onDisk = [s \in {1} |-> 0]
    /\ write_segment = 1
    /\ cursor = Cursor(1, 0)
    /\ cursorFile = Cursor(0, 0)
    /\ accepted = {}
    /\ hidden = {} /\ gone = {}
    /\ usable = TRUE
    /\ spoolFaults = 0

(* A call that may fail, within the bound.                                 *)
Faulty(ok) ==
    /\ ok \/ spoolFaults < MaxSpoolFaults
    /\ spoolFaults' = IF ok THEN spoolFaults ELSE spoolFaults + 1

(* Where reading starts in a segment.                                      *)
StartIn(s) == IF s = cursor.segment THEN cursor.offset ELSE 0

(* The undelivered frames, each told by the cursor it ends at: in every    *)
(* segment from the cursor's on, up to the first cell that is not a frame  *)
(* (read_frame).                                                           *)
Ahead ==
    {c \in UNION {{Cursor(s, i) : i \in DOMAIN segments[s]} : s \in list_segments} :
        /\ c.segment >= cursor.segment /\ c.offset > StartIn(c.segment)
        /\ \A i \in StartIn(c.segment) + 1 .. c.offset : segments[c.segment][i] # TornTail}

Earlier(c, d) == c.segment < d.segment \/ (c.segment = d.segment /\ c.offset < d.offset)

PlaceOf(c) == Cardinality({d \in Ahead : d = c \/ Earlier(d, c)})

FrameAt(c) == segments[c.segment][c.offset]

(* Every undelivered frame, segment by segment from the cursor.            *)
Undelivered ==
    [i \in 1 .. Cardinality(Ahead) |->
        LET c == CHOOSE c \in Ahead : PlaceOf(c) = i
        IN  [end |-> c, frame |-> FrameAt(c)]]

peek(max) == SubSeq(Undelivered, 1, Min({max, Len(Undelivered)}))

FramesOf(entries) == {entries[i].frame : i \in DOMAIN entries}

(* The file the writer appends to: the newest there is.  write_segment is  *)
(* ahead of it after a roll whose new file could not be made.              *)
writer == Max(DOMAIN segments)

-----------------------------------------------------------------------------
(* push.  Its parts first: a frame that would take the spool over its      *)
(* limit is refused, and one that would take a segment with frames over    *)
(* its size rolls to a new one.                                            *)

NoRoom == total_bytes + 1 > MaxTotalBytes

Rolls == LET cells == segments[writer]
         IN  /\ SegmentSize(cells) + FRAME_OVERHEAD + 1 > SegmentBytes
             /\ SegmentSize(cells) > HEADER_BYTES

(* Where the reader will not look: behind a tear, or before the cursor.    *)
Unreadable(cells, s) ==
    \/ \E i \in DOMAIN cells : cells[i] = TornTail
    \/ s = cursor.segment /\ Len(cells) < cursor.offset

(* What an append does to the files; roll syncs the segment it leaves.     *)
Write(s, cells, f, whole, left) ==
    /\ segments' = [t \in DOMAIN segments \cup {s} |->
                      IF t = s THEN Append(cells, IF whole THEN f ELSE TornTail) ELSE segments[t]]
    /\ onDisk' = left
    /\ write_segment' = s
    /\ accepted' = IF whole THEN accepted \cup {f} ELSE accepted
    /\ hidden' = IF whole /\ Unreadable(cells, s) THEN hidden \cup {f} ELSE hidden

RollAndWrite(f, whole) ==
    Write(write_segment + 1, <<>>, f, whole,
          [t \in DOMAIN segments \cup {write_segment + 1} |->
              IF t = write_segment + 1 THEN 0 ELSE IF t = writer THEN Len(segments[t]) ELSE onDisk[t]])

(* push: TRUE for a frame taken, FALSE for one that is not, because the    *)
(* spool is full, or roll or the write failed.                             *)
push(f, taken) ==
    /\ UNCHANGED <<cursor, cursorFile, gone, usable>>
    /\ \/ /\ NoRoom /\ ~taken
          /\ UNCHANGED <<segments, onDisk, write_segment, accepted, hidden, spoolFaults>>
       \/ /\ ~NoRoom /\ ~Rolls
          /\ Faulty(taken)
          /\ Write(writer, segments[writer], f, taken, onDisk)
       \/ /\ ~NoRoom /\ Rolls
          /\ Faulty(taken)
          /\ RollAndWrite(f, taken)
       \/ /\ ~NoRoom /\ Rolls /\ ~taken
          /\ Faulty(FALSE)
          /\ write_segment' \in write_segment .. write_segment + 1
          /\ UNCHANGED <<segments, onDisk, accepted, hidden>>

(* sync: the segment being written reaches the disk, or the call fails.    *)
sync(ok) ==
    /\ Faulty(ok)
    /\ onDisk' = IF ok THEN [onDisk EXCEPT ![writer] = Len(segments[writer])] ELSE onDisk
    /\ UNCHANGED <<segments, write_segment, cursor, cursorFile, accepted, hidden, gone, usable>>

(* Whole segments behind the cursor are unlinked.                          *)
Behind(c) == {s \in list_segments : s < c.segment /\ s # write_segment}

(* Mutant of Moved: the cursor in memory stays.                            *)
CursorStays(c, moved) == cursor

Moved(c, moved) == IF moved THEN c ELSE cursor

(* commit: the cursor file is replaced by rename, then the cursor in       *)
(* memory, then the consumed segments go.  It fails before the rename, or  *)
(* at an unlink, when the cursor has moved.                                *)
commit(c, ok) ==
    /\ Faulty(ok)
    /\ \E moved \in BOOLEAN :
          /\ ok => moved
          /\ cursorFile' = IF moved THEN c ELSE cursorFile
          /\ cursor' = Moved(c, moved)
    /\ LET keep == DOMAIN segments \ (IF ok THEN Behind(c) ELSE {})
       IN  segments' = Restrict(segments, keep) /\ onDisk' = Restrict(onDisk, keep)
    /\ UNCHANGED <<write_segment, accepted, hidden, gone, usable>>

(* What a crash leaves of a segment: at least what was synced, and perhaps *)
(* a torn piece of the next frame.                                         *)
CrashLeaves(s) ==
    LET cells == segments[s]
    IN  {SubSeq(cells, 1, n) : n \in onDisk[s] .. Len(cells)}
        \cup {Append(SubSeq(cells, 1, n), TornTail) : n \in onDisk[s] .. Len(cells) - 1}

(* open: the cursor of the file, or the start of the first segment.        *)
OpenCursor == IF cursorFile.segment = 0 THEN Cursor(Min(DOMAIN segments), 0) ELSE cursorFile

(* The machine stops and the spool is opened again, to append to the last  *)
(* segment.  Only that one has cells that are not synced; a torn tail is   *)
(* kept, and appended after.                                               *)
CrashAndOpen ==
    /\ Faulty(FALSE)
    /\ \E left \in CrashLeaves(writer) :
          LET lost == ToSet(segments[writer]) \ (ToSet(left) \cup {TornTail})
          IN  /\ segments' = [segments EXCEPT ![writer] = left]
              /\ onDisk' = [onDisk EXCEPT ![writer] = Len(left)]
              /\ gone' = gone \cup lost
    /\ write_segment' = writer
    /\ cursor' = OpenCursor
    /\ UNCHANGED <<cursorFile, accepted, hidden, usable>>

(* The machine stops between the creation of a segment and its header:     *)
(* open cannot read the magic, now and at every later start.               *)
CrashInRoll ==
    /\ Faulty(FALSE)
    /\ ~NoRoom /\ Rolls
    /\ usable' = FALSE
    /\ UNCHANGED <<segments, onDisk, write_segment, cursor, cursorFile, accepted, hidden, gone>>

SpoolTypeOK ==
    /\ DOMAIN onDisk = DOMAIN segments
    /\ \A s \in DOMAIN segments : onDisk[s] \in 0 .. Len(segments[s])
    /\ write_segment >= writer
    /\ cursor.segment \in 1 .. writer
    /\ usable \in BOOLEAN
    /\ spoolFaults \in 0 .. MaxSpoolFaults
=============================================================================
