----------------------------- MODULE GridFSFile -----------------------------
(***************************************************************************)
(* An open GridFS file: the page that is read and written, the cursor that *)
(* pages are read from, and the chunks and the document that the server    *)
(* keeps.  One caller reads, writes, seeks, saves and opens it again; an   *)
(* update or a query of the server may fail.  The parts of an operation    *)
(* that loop over pages are steps of their own.                            *)
(***************************************************************************)
EXTENDS Integers, FiniteSetsExt, SequencesExt

CONSTANTS
    ChunkSize,
    ChunksPerBatch,     \* what a batch of the server holds, as the file estimates it
    ServerBatch,        \* and what it does hold
    Reads, Writes,      \* the lengths and least counts that are read, and the bytes that are written
    None,
    MaxLength,          \* bound: no write ends, and no seek goes, beyond it
    MaxFailures         \* bound: failures of the server

ASSUME GridFSAssumption ==
    /\ ChunkSize \in Nat \ {0} /\ ChunksPerBatch \in Nat \ {0} /\ ServerBatch \in Nat \ {0}
    /\ Reads \subseteq (Nat \ {0}) \X Nat
    /\ IsFiniteSet(Writes) /\ Writes \subseteq Seq(1 .. 8) \ {<<>>}
    /\ MaxLength \in Nat /\ MaxFailures \in Nat

VARIABLES
    pos, n, length, isDirty,
    page,       \* None or [data, offset, dirty]; dirty: it has a buffer of its own
    cursor,     \* None or [at, last, batch, next, open]: at and last are cursor_range
    chunks, saved,      \* the server: data by number, and the length of the file's document
    call,       \* the call that is under way: [pc, data, want, min, got, target, failed]
    failures,   \* how many requests failed
    broken      \* a failed update has left the page or the document wrong: the model ends

vars == <<pos, n, length, isDirty, page, cursor, chunks, saved, call, failures, broken>>

file == <<pos, n, length, isDirty, page, cursor>>

Bytes == Seq(0 .. 9)

PageType == [data: Bytes, offset: Nat, dirty: BOOLEAN]

\* batch holds the chunks that were fetched and not yet taken, next is where the server
\* goes on, open tells that it will.
CursorType == [at: Nat, last: Nat, batch: Seq([n: Nat, data: Bytes]), next: Nat, open: BOOLEAN]

ASSUME NoneAssumption == None \notin Nat \cup PageType \cup CursorType

CallType ==
    [pc: {"idle", "reading", "writing", "extending"}, data: Bytes, want: Nat, min: Nat, got: Bytes,
     target: Nat, failed: BOOLEAN]

Idle == call.pc = "idle"

DivideRoundUp(a, b) == (a + b - 1) \div b

-----------------------------------------------------------------------------
(* Pages.                                                                  *)

NewPage(data, offset) == [data |-> data, offset |-> offset, dirty |-> FALSE]

\* Bytes in place of those at the page's offset; what is between the page's end and its
\* offset, 9, is not set by anyone.
Overlaid(p, src) ==
    [p EXCEPT !.data = [i \in 1 .. p.offset |-> IF i <= Len(p.data) THEN p.data[i] ELSE 9]
                       \o src \o SubSeq(@, p.offset + Len(src) + 1, Len(@)),
              !.offset = @ + Len(src), !.dirty = TRUE]

PageWrite(p, src) == Overlaid(p, SubSeq(src, 1, Min({Len(src), ChunkSize - p.offset})))

PageMemset0(p, len) == Overlaid(p, [i \in 1 .. Min({len, ChunkSize - p.offset}) |-> 0])

-----------------------------------------------------------------------------
(* The cursor.                                                             *)

KeepCursor(k) == cursor.at <= k /\ k <= cursor.last /\ k < cursor.at + 2 * ChunksPerBatch

NewCursor(k) == [at |-> k, last |-> length \div ChunkSize, batch |-> <<>>, next |-> k, open |-> TRUE]

\* The chunks that the server gives from number k on.
Live(k) ==
    LET later == {j \in DOMAIN chunks : j >= k}
        number(i) == CHOOSE j \in later : Cardinality({l \in later : l < j}) = i - 1
    IN [i \in 1 .. Cardinality(later) |-> [n |-> number(i), data |-> chunks[number(i)]]]

\* c when batches were fetched until it holds m chunks, or all there are.  A last batch that
\* is full can leave the server's cursor open.
Fetched(c, m) ==
    IF Len(c.batch) >= m \/ ~c.open THEN {c}
    ELSE LET live == Live(c.next)
             size == DivideRoundUp(m - Len(c.batch), ServerBatch) * ServerBatch
             batch == SubSeq(live, 1, Min({size, Len(live)}))
             open == IF Len(live) > size THEN {TRUE} ELSE IF Len(live) = size THEN BOOLEAN ELSE {FALSE}
         IN {[c EXCEPT !.batch = @ \o batch, !.open = o,
                       !.next = IF batch = <<>> THEN @ ELSE Last(batch).n + 1] : o \in open}

-----------------------------------------------------------------------------
(* _mongoc_gridfs_file_refresh_page: what it can do at a position.         *)

\* Mutated: a chunk that is not full does not count.
ExistingFull == length \div ChunkSize

Existing == DivideRoundUp(length, ChunkSize)

\* Chunk k is taken from cursor c.
Taken(c, k, offset) ==
    LET m == k - c.at + 1
    IN {IF Len(f.batch) >= m /\ f.batch[m].n = k
        THEN [ok |-> TRUE, page |-> NewPage(f.batch[m].data, offset),
              cursor |-> [f EXCEPT !.at = k + 1, !.batch = SubSeq(@, m + 1, Len(@))], fails |-> 0]
        ELSE [ok |-> FALSE, page |-> None,
              cursor |-> [f EXCEPT !.at = @ + Min({m, Len(f.batch)}),
                                   !.batch = SubSeq(@, m + 1, Len(@))], fails |-> 0] :
           f \in Fetched(c, m)}

\* The query or the next batch fails; the cursor has failed for good.
Untaken(c) == {[ok |-> FALSE, page |-> None, cursor |-> [c EXCEPT !.batch = <<>>, !.open = FALSE], fails |-> 1] :
               x \in IF failures < MaxFailures THEN {0} ELSE {}}

Refresh(at) ==
    LET k == at \div ChunkSize
        offset == at % ChunkSize
        c == IF cursor = None THEN NewCursor(k) ELSE IF KeepCursor(k) THEN cursor ELSE NewCursor(k)
    IN IF DivideRoundUp(at + 1, ChunkSize) > Existing
       THEN {[ok |-> TRUE, page |-> NewPage(<<>>, offset), cursor |-> cursor, fails |-> 0]}
       ELSE Taken(c, k, offset)
            \cup (IF Len(c.batch) < k - c.at + 1 /\ c.open THEN Untaken(c) ELSE {})

-----------------------------------------------------------------------------
(* Updates of the server.                                                  *)

Updates == IF failures < MaxFailures THEN {TRUE, FALSE} ELSE {TRUE}

\* What a flush of the page leaves: the chunk's update is ok or not, and so is that of the
\* file's document, which is tried if the file is dirty.  page is left alone on failure.
Flush ==
    {f \in [chunk: Updates, doc: IF isDirty THEN Updates ELSE {TRUE}] : f.chunk \/ f.doc}

Flushed(f) == f.chunk /\ f.doc

AfterFlush(f) ==
    /\ chunks' = IF f.chunk THEN [i \in DOMAIN chunks \cup {n} |-> IF i = n THEN page.data ELSE chunks[i]]
                 ELSE chunks
    /\ saved' = IF f.chunk /\ f.doc /\ isDirty THEN length ELSE saved
    /\ failures' = failures + (IF Flushed(f) THEN 0 ELSE 1)

-----------------------------------------------------------------------------
(* Calls.                                                                  *)

NewCall == [pc |-> "idle", data |-> <<>>, want |-> 0, min |-> 0, got |-> <<>>, target |-> 0, failed |-> FALSE]

Returns == call' = NewCall

Fails == call' = [NewCall EXCEPT !.failed = TRUE]

\* Mutated: a page is let go when it does not hold the new position.
SeekPageAway(offset) ==
    IF offset \div ChunkSize = n
    THEN /\ page' = IF page = None THEN None ELSE [page EXCEPT !.offset = offset % ChunkSize]
         /\ UNCHANGED <<isDirty, chunks, saved, failures, broken>>
    ELSE page' = None /\ UNCHANGED <<isDirty, chunks, saved, failures, broken>>

\* What mongoc_gridfs_file_seek does to the page; a failed flush is ignored.
SeekPage(offset) ==
    IF offset \div ChunkSize = n
    THEN /\ page' = IF page = None THEN None ELSE [page EXCEPT !.offset = offset % ChunkSize]
         /\ UNCHANGED <<isDirty, chunks, saved, failures, broken>>
    ELSE IF page # None /\ page.dirty
    THEN \E f \in Flush :
            /\ AfterFlush(f)
            /\ page' = IF f.chunk THEN None ELSE page
            /\ isDirty' = (isDirty /\ ~f.chunk)
            /\ broken' = (broken \/ ~Flushed(f))
    ELSE page' = None /\ UNCHANGED <<isDirty, chunks, saved, failures, broken>>

Seek(offset) ==
    /\ Idle
    /\ SeekPage(offset)
    /\ pos' = offset /\ n' = offset \div ChunkSize
    /\ call' = NewCall
    /\ UNCHANGED <<length, cursor>>

\* A page is brought in for the position, or the call fails.
Loads(pc) ==
    \E r \in Refresh(pos) :
        /\ page' = r.page /\ cursor' = r.cursor /\ n' = pos \div ChunkSize
        /\ failures' = failures + r.fails
        /\ IF r.ok THEN call' = [call EXCEPT !.pc = pc] ELSE Fails
        /\ UNCHANGED <<pos, length, isDirty, chunks, saved, broken>>

BeginRead(want, min) ==
    /\ Idle
    /\ call' = IF pos >= length THEN NewCall
               ELSE [NewCall EXCEPT !.pc = "reading", !.want = want, !.min = min]
    /\ UNCHANGED <<file, chunks, saved, failures, broken>>

LoadToRead == call.pc = "reading" /\ page = None /\ Loads("reading")

\* How many bytes the page gives.
Gives == Min({call.want, Len(page.data) - page.offset})

\* The offset is in the page, or the count of bytes left would wrap: that no read stops here
\* is a part of CallsReturn.
ReadPage ==
    /\ call.pc = "reading" /\ page # None /\ page.offset <= Len(page.data)
    /\ Gives > 0
    /\ page' = [page EXCEPT !.offset = @ + Gives]
    /\ pos' = pos + Gives
    /\ call' = [call EXCEPT !.got = @ \o SubSeq(page.data, page.offset + 1, page.offset + Gives),
                            !.want = @ - Gives]
    /\ UNCHANGED <<n, length, isDirty, cursor, chunks, saved, failures, broken>>

\* What follows when the page has no more, or enough was read.
ReadEnds ==
    /\ call.pc = "reading" /\ page # None
    /\ Gives = 0
    /\ IF call.want = 0 \/ length = pos \/ Len(call.got) >= call.min
       THEN Returns /\ UNCHANGED <<file, chunks, saved, failures, broken>>
       ELSE Loads("reading")

BeginWrite(data) ==
    /\ Idle /\ pos + Len(data) <= MaxLength
    /\ call' = [NewCall EXCEPT !.pc = "writing", !.data = data]
    /\ UNCHANGED <<file, chunks, saved, failures, broken>>

LoadToWrite == call.pc = "writing" /\ page = None /\ Loads("writing")

\* The position is beyond the end: the gap is filled from the end on.
BeginExtend ==
    /\ call.pc = "writing" /\ page # None /\ pos > length
    /\ SeekPage(length)
    /\ pos' = length /\ n' = length \div ChunkSize
    /\ call' = [call EXCEPT !.pc = "extending", !.target = pos]
    /\ UNCHANGED <<length, cursor>>

LoadToExtend == call.pc = "extending" /\ page = None /\ Loads("extending")

\* Mutated: the position stays where it was.
FillAgain ==
    /\ call.pc = "extending" /\ page # None /\ pos < call.target
    /\ page' = PageMemset0(page, call.target - pos)
    /\ UNCHANGED <<pos, n, length, isDirty, cursor, chunks, saved, call, failures, broken>>

Fill ==
    /\ call.pc = "extending" /\ page # None /\ pos < call.target /\ page.offset < ChunkSize
    /\ page' = PageMemset0(page, call.target - pos)
    /\ pos' = pos + page'.offset - page.offset
    /\ UNCHANGED <<n, length, isDirty, cursor, chunks, saved, call, failures, broken>>

\* The page is full: it is flushed, and a failure ends the call with zeros in the page that
\* are beyond the end.
FillNext ==
    /\ call.pc = "extending" /\ page # None /\ pos < call.target /\ page.offset = ChunkSize
    /\ \E f \in Flush :
          /\ AfterFlush(f)
          /\ page' = IF f.chunk THEN None ELSE page
          /\ isDirty' = (isDirty /\ ~f.chunk)
          /\ broken' = ~Flushed(f)
          /\ IF Flushed(f) THEN UNCHANGED call ELSE Fails
    /\ UNCHANGED <<pos, n, length, cursor>>

ExtendEnds ==
    /\ call.pc = "extending" /\ page # None /\ pos = call.target
    /\ length' = call.target /\ isDirty' = TRUE
    /\ call' = [call EXCEPT !.pc = "writing", !.target = 0]
    /\ UNCHANGED <<pos, n, page, cursor, chunks, saved, failures, broken>>

WritePage ==
    /\ call.pc = "writing" /\ page # None /\ pos <= length
    /\ page.offset < ChunkSize
    /\ page' = PageWrite(page, call.data)
    /\ LET r == page'.offset - page.offset
       IN /\ pos' = pos + r
          /\ length' = Max({length, pos + r})
          /\ IF r = Len(call.data) THEN Returns /\ isDirty' = TRUE
             ELSE call' = [call EXCEPT !.data = SubSeq(@, r + 1, Len(@))] /\ UNCHANGED isDirty
    /\ UNCHANGED <<n, cursor, chunks, saved, failures, broken>>

\* The page is full: it is flushed, and a flush that fails is tried again.
WriteNext ==
    /\ call.pc = "writing" /\ page # None /\ pos <= length /\ page.offset = ChunkSize
    /\ \E f \in Flush :
          /\ AfterFlush(f)
          /\ page' = IF f.chunk THEN None ELSE [page EXCEPT !.dirty = TRUE]
          /\ isDirty' = (isDirty /\ ~f.chunk)
    /\ UNCHANGED <<pos, n, length, cursor, call, broken>>

\* mongoc_gridfs_file_save returns what the last update does.
Save ==
    /\ Idle /\ isDirty
    /\ \E f \in (IF page # None /\ page.dirty THEN Flush ELSE {[chunk |-> FALSE, doc |-> TRUE]}), r \in Updates :
          LET flushes == page # None /\ page.dirty
          IN /\ chunks' = IF flushes /\ f.chunk
                          THEN [i \in DOMAIN chunks \cup {n} |-> IF i = n THEN page.data ELSE chunks[i]]
                          ELSE chunks
             /\ page' = IF flushes /\ f.chunk THEN None ELSE page
             /\ saved' = IF r \/ (flushes /\ Flushed(f)) THEN length ELSE saved
             /\ failures' = failures + (IF flushes /\ ~Flushed(f) THEN 1 ELSE 0) + (IF r THEN 0 ELSE 1)
             /\ failures' <= MaxFailures
             /\ broken' = (broken \/ ~r \/ (flushes /\ ~f.chunk))
             /\ call' = [NewCall EXCEPT !.failed = ~r]
    /\ isDirty' = FALSE
    /\ UNCHANGED <<pos, n, length, cursor>>

\* The file, which was saved, is destroyed and found again.
Reopen ==
    /\ Idle /\ ~isDirty
    /\ pos' = 0 /\ n' = 0 /\ length' = saved /\ isDirty' = FALSE
    /\ page' = None /\ cursor' = None
    /\ call' = NewCall
    /\ UNCHANGED <<chunks, saved, failures, broken>>

Init ==
    /\ pos = 0 /\ n = 0 /\ length = 0 /\ isDirty = TRUE
    /\ page = None /\ cursor = None
    /\ chunks = <<>> /\ saved = None
    /\ call = NewCall
    /\ failures = 0 /\ broken = FALSE

Step ==
    \/ LoadToRead \/ ReadPage \/ ReadEnds
    \/ LoadToWrite \/ BeginExtend \/ LoadToExtend \/ Fill \/ FillNext \/ ExtendEnds \/ WritePage \/ WriteNext

Next ==
    /\ ~broken
    /\ \/ Step \/ Save \/ Reopen
       \/ \E read \in Reads : BeginRead(read[1], read[2])
       \/ \E data \in Writes : BeginWrite(data)
       \/ \E offset \in 0 .. MaxLength : Seek(offset)

Spec == Init /\ [][Next]_vars

\* The caller's thread goes on.
FairSpec == Spec /\ WF_vars(~broken /\ Step)
-----------------------------------------------------------------------------
(* Properties.                                                             *)

\* The type invariant: a page, and a chunk, is never longer than a chunk.
GridFSTypeOK ==
    /\ {pos, n, length, failures} \subseteq Nat /\ {isDirty, broken} \subseteq BOOLEAN
    /\ page # None => page \in PageType /\ Len(page.data) <= ChunkSize /\ page.offset <= ChunkSize
    /\ cursor # None => cursor \in CursorType
    /\ \A i \in DOMAIN chunks : i \in Nat /\ chunks[i] \in Bytes /\ Len(chunks[i]) <= ChunkSize
    /\ saved \in Nat \cup {None}
    /\ call \in CallType

\* The byte at i, in the page or at the server; -1 if it is nowhere.
ByteAt(i) ==
    LET k == (i - 1) \div ChunkSize
        o == ((i - 1) % ChunkSize) + 1
        inPage == IF page = None THEN FALSE ELSE k = n /\ o <= Len(page.data)
        inChunk == IF k \in DOMAIN chunks THEN o <= Len(chunks[k]) ELSE FALSE
    IN IF inPage THEN page.data[o] ELSE IF inChunk THEN chunks[k][o] ELSE -1

Contents == [i \in 1 .. length |-> ByteAt(i)]

Abstract == INSTANCE ByteFile WITH
    bytes <- Contents,
    at <- IF call.pc = "extending" THEN call.target ELSE pos,
    todo <- call.data,
    got <- call.got,
    safe <- ~isDirty /\ call.pc \notin {"writing", "extending"}

\* A GridFS file is a sequence of bytes: what is read is what was written, in any order of
\* reads, writes and seeks over pages, with zeros in the gaps, and what was saved is there
\* when it is opened again.  It is weaker in one point: see Forget.
IsByteFile == Abstract!Spec

\* A write is only forgotten by a read that goes on to the next chunk, while the page with
\* the write has not been flushed.
OnlyReadsForget ==
    [][\A i \in 1 .. length : i <= length' /\ ByteAt(i)' # ByteAt(i)
       => broken' \/ call.pc = "writing" \/ (call.pc = "reading" /\ page.dirty /\ pos % ChunkSize = 0)]_vars

\* A file that is not dirty is at the server, whole.
SavedIsStored ==
    Idle /\ ~isDirty /\ ~broken =>
        /\ saved = length
        /\ \A i \in 1 .. length : LET k == (i - 1) \div ChunkSize
                                  IN k \in DOMAIN chunks /\ (i - 1) % ChunkSize < Len(chunks[k])
                                     /\ chunks[k][((i - 1) % ChunkSize) + 1] = ByteAt(i)

\* Without a failure of the server a call fails for one reason only: the cursor was opened
\* when the file ended with the chunk before, and is kept for a chunk it has not seen.
FailsWithCause ==
    call.failed /\ failures = 0 =>
        cursor # None /\ ~cursor.open /\ cursor.at = n /\ cursor.last = n /\ n * ChunkSize < length

\* The chunks that a cursor has fetched ahead are those of the server: no write went past it.
CursorIsCurrent ==
    cursor # None /\ ~broken =>
        \A i \in DOMAIN cursor.batch : cursor.batch[i].data = chunks[cursor.batch[i].n]

\* The page, the cursor over the chunks and the chunks at the server agree.
FileIsSound == GridFSTypeOK /\ SavedIsStored /\ CursorIsCurrent /\ FailsWithCause

\* Every call returns, with failures that are told or overcome.
CallsReturn == ~Idle ~> Idle \/ broken

=============================================================================
