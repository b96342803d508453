-------------------------- MODULE GridFSFileProofs --------------------------
(***************************************************************************)
(* Page, cursor and chunks of a GridFS file agree, and implement an array  *)
(* of bytes, for any size of chunks and batches, whatever is read and      *)
(* written and whichever requests fail.                                    *)
(***************************************************************************)
EXTENDS GridFSFile, FiniteSetTheorems, SequenceTheorems, TLAPS

\* Where the bytes end that page and chunks hold: beyond the length, while a gap is filled.
End == IF call.pc = "extending" THEN pos ELSE length

\* How many of them are in chunk k.
Extent(k) == IF End <= k * ChunkSize THEN 0
             ELSE IF End - k * ChunkSize <= ChunkSize THEN End - k * ChunkSize ELSE ChunkSize

Dirty == page # None /\ page.dirty

\* The page is where the position says, has all bytes of its chunk, and is that of the
\* server if it was not written to.
PageFits ==
    page # None =>
        /\ n * ChunkSize + page.offset = pos
        /\ Len(page.data) = Extent(n)
        /\ page.dirty => n * ChunkSize < End
        /\ ~page.dirty /\ n * ChunkSize < End => n \in DOMAIN chunks /\ page.data = chunks[n]

\* The server has every chunk whole and no more, but for one: the last, while it is in a
\* page that is to be flushed.
ChunksFit ==
    /\ \A k \in DOMAIN chunks : k * ChunkSize < End
    /\ \A k \in Nat : k * ChunkSize < End =>
          \/ k \in DOMAIN chunks /\ Len(chunks[k]) = Extent(k)
          \/ Dirty /\ n = k /\ End <= k * ChunkSize + ChunkSize

\* What a cursor has: chunks without a gap, as they are at the server.  One that the server
\* has closed, without a failure, had fetched all that it was opened for.
Holds(c, fails) ==
    /\ c \in CursorType
    /\ \A j \in DOMAIN c.batch :
          /\ c.batch[j].n = c.at + j - 1 /\ c.at + j - 1 \in DOMAIN chunks
          /\ c.batch[j].data = chunks[c.at + j - 1]
    /\ c.open => c.next = c.at + Len(c.batch)
    /\ ~c.open /\ fails = 0 => c.last <= c.at + Len(c.batch)
    /\ c.last * ChunkSize <= length

\* A batch never has the chunk that is in the page.
CursorFits ==
    cursor # None =>
        /\ Holds(cursor, failures)
        /\ page # None => \A j \in DOMAIN cursor.batch : cursor.at + j - 1 # n

\* Where a call may be while it reads, writes and fills a gap, and that what was written is
\* remembered as dirty when it is over.
CallFits ==
    /\ ~Idle => ~call.failed
    /\ call.pc = "reading" => pos <= length
    /\ call.pc \in {"writing", "extending"} => call.data # <<>>
    /\ call.pc = "extending" =>
          /\ length <= pos /\ pos <= call.target /\ length < call.target
          /\ pos = call.target => Dirty
          /\ page = None /\ length < pos => pos % ChunkSize = 0
    /\ Dirty => isDirty \/ call.pc \in {"writing", "extending"}

\* The document has the length, or will have: the file is new, its last page is to be
\* flushed, or a write that lengthens it is under way.
SavedFits ==
    \/ saved = length
    \/ saved = None /\ length = 0 /\ isDirty
    \/ Dirty /\ isDirty /\ length <= n * ChunkSize + Len(page.data)
    \/ call.pc = "writing" /\ pos = length /\ (page = None => pos % ChunkSize = 0)

\* The inductive invariant.
Inv ==
    /\ GridFSTypeOK
    /\ FailsWithCause
    /\ ~broken => PageFits /\ ChunksFit /\ CursorFits /\ CallFits /\ SavedFits

-----------------------------------------------------------------------------
(* Places: a position is in a chunk, at an offset.                         *)

LEMMA Division ==
    ASSUME NEW a \in Nat, NEW b \in Nat \ {0}
    PROVE  /\ a \div b \in Nat /\ a % b \in Nat
           /\ a = (a \div b) * b + (a % b) /\ a % b < b
  OBVIOUS

LEMMA QuotientIsUnique ==
    ASSUME NEW b \in Nat \ {0}, NEW q \in Nat, NEW r \in Nat, r < b,
           NEW a \in Nat, a = q * b + r
    PROVE  a \div b = q /\ a % b = r
  OBVIOUS

LEMMA ProductsGrow ==
    ASSUME NEW b \in Nat, NEW j \in Nat, NEW k \in Nat, j < k
    PROVE  j * b \in Nat /\ k * b \in Nat /\ j * b + b <= k * b
  OBVIOUS

LEMMA Sizes == ChunkSize \in Nat \ {0} /\ ChunksPerBatch \in Nat \ {0} /\ ServerBatch \in Nat \ {0}
  BY GridFSAssumption

LEMMA MinOfTwo ==
    ASSUME NEW a \in Int, NEW b \in Int
    PROVE  Min({a, b}) = IF a <= b THEN a ELSE b
<1> DEFINE m == IF a <= b THEN a ELSE b
<1>1. /\ m \in {a, b} /\ m \in Int
      /\ \A y \in {a, b} : m <= y
  OBVIOUS
<1>2. \A x \in {a, b} : (\A y \in {a, b} : x <= y) => x = m
  OBVIOUS
<1>3. Min({a, b}) = CHOOSE x \in {a, b} : \A y \in {a, b} : x <= y
  BY DEF Min
<1> HIDE DEF m
<1>4. (CHOOSE x \in {a, b} : \A y \in {a, b} : x <= y) = m
  BY <1>1, <1>2
<1>5. QED BY <1>3, <1>4 DEF m

LEMMA MaxOfTwo ==
    ASSUME NEW a \in Int, NEW b \in Int
    PROVE  Max({a, b}) = IF a <= b THEN b ELSE a
<1> DEFINE m == IF a <= b THEN b ELSE a
<1>1. /\ m \in {a, b} /\ m \in Int
      /\ \A y \in {a, b} : m >= y
  OBVIOUS
<1>2. \A x \in {a, b} : (\A y \in {a, b} : x >= y) => x = m
  OBVIOUS
<1>3. Max({a, b}) = CHOOSE x \in {a, b} : \A y \in {a, b} : x >= y
  BY DEF Max
<1> HIDE DEF m
<1>4. (CHOOSE x \in {a, b} : \A y \in {a, b} : x >= y) = m
  BY <1>1, <1>2
<1>5. QED BY <1>3, <1>4 DEF m

\* As many chunks as bytes need: those that begin before the last byte.
LEMMA RoundingUp ==
    ASSUME NEW a \in Nat, NEW b \in Nat \ {0}
    PROVE  /\ DivideRoundUp(a, b) \in Nat /\ a <= DivideRoundUp(a, b) * b
           /\ \A k \in Nat : k < DivideRoundUp(a, b) <=> k * b < a
<1> DEFINE q == DivideRoundUp(a, b)
           r == (a + b - 1) % b
<1>1. /\ q \in Nat /\ r \in Nat
      /\ a + b - 1 = q * b + r /\ r < b
  BY Division, a + b - 1 \in Nat DEF DivideRoundUp
<1> HIDE DEF q, r
<1>2. q * b \in Nat /\ a <= q * b
  BY <1>1
<1>3. ASSUME NEW k \in Nat PROVE k < q <=> k * b < a
  <2>1. CASE k < q
    <3>1. k * b \in Nat /\ k * b + b <= q * b
      BY <1>1, <2>1, ProductsGrow
    <3>2. QED BY <1>1, <2>1, <3>1
  <2>2. CASE k = q
    BY <1>2, <2>2
  <2>3. CASE q < k
    <3>1. k * b \in Nat /\ q * b + b <= k * b
      BY <1>1, <2>3, ProductsGrow
    <3>2. QED BY <1>1, <1>2, <2>3, <3>1
  <2>4. QED BY <1>1, <2>1, <2>2, <2>3
<1>4. QED BY <1>1, <1>2, <1>3 DEF q

\* The chunk after that of a position is one that the file does not need if the chunk of
\* the position begins at the end or beyond it.
LEMMA NewPageIsBeyond ==
    ASSUME NEW at \in Nat, length \in Nat
    PROVE  /\ at \div ChunkSize \in Nat
           /\ DivideRoundUp(at + 1, ChunkSize) > Existing <=> length <= (at \div ChunkSize) * ChunkSize
<1> DEFINE d == at \div ChunkSize
           m == at % ChunkSize
<1>1. /\ d \in Nat /\ m \in Nat
      /\ at = d * ChunkSize + m /\ m < ChunkSize
  BY Division, Sizes
<1> HIDE DEF d, m
<1>2. DivideRoundUp(at + 1, ChunkSize) = d + 1
  <2>1. at + 1 + ChunkSize - 1 = (d + 1) * ChunkSize + m
    BY <1>1, Sizes
  <2>2. at + 1 + ChunkSize - 1 \in Nat /\ d + 1 \in Nat
    BY <1>1, Sizes
  <2>3. (at + 1 + ChunkSize - 1) \div ChunkSize = d + 1
    BY <1>1, <2>1, <2>2, Sizes, QuotientIsUnique
  <2>4. QED BY <2>3 DEF DivideRoundUp
<1>3. Existing \in Nat /\ (d < Existing <=> d * ChunkSize < length)
  BY <1>1, RoundingUp, Sizes DEF Existing
<1>4. d * ChunkSize \in Nat
  BY <1>1, Sizes
<1>5. QED BY <1>1, <1>2, <1>3, <1>4 DEF d

-----------------------------------------------------------------------------
(* The chunks that are fetched.                                            *)

LEMMA EmptySequence ==
    ASSUME NEW T
    PROVE  <<>> \in Seq(T) /\ Len(<<>>) = 0
  OBVIOUS

LEMMA FrontOfSequence ==
    ASSUME NEW T, NEW s \in Seq(T), NEW m \in 0 .. Len(s)
    PROVE  /\ SubSeq(s, 1, m) \in Seq(T) /\ Len(SubSeq(s, 1, m)) = m
           /\ \A i \in 1 .. m : SubSeq(s, 1, m)[i] = s[i]
  OBVIOUS

LEMMA RestOfSequence ==
    ASSUME NEW T, NEW s \in Seq(T), NEW m \in 0 .. Len(s)
    PROVE  /\ SubSeq(s, m + 1, Len(s)) \in Seq(T) /\ Len(SubSeq(s, m + 1, Len(s))) = Len(s) - m
           /\ \A i \in 1 .. Len(s) - m : SubSeq(s, m + 1, Len(s))[i] = s[m + i]
  OBVIOUS

LEMMA JoinedSequences ==
    ASSUME NEW T, NEW s \in Seq(T), NEW t \in Seq(T)
    PROVE  /\ s \o t \in Seq(T) /\ Len(s \o t) = Len(s) + Len(t)
           /\ \A i \in 1 .. Len(s) : (s \o t)[i] = s[i]
           /\ \A i \in 1 .. Len(t) : (s \o t)[Len(s) + i] = t[i]
  OBVIOUS

\* The chunks at the server from one number on are in the order of their numbers.
LEMMA LiveIsInOrder ==
    ASSUME NEW S \in Nat, DOMAIN chunks = 0 .. S - 1, NEW k \in Nat
    PROVE  Live(k) = [i \in 1 .. (IF k < S THEN S - k ELSE 0) |->
                         [n |-> k + i - 1, data |-> chunks[k + i - 1]]]
<1> DEFINE later == {j \in DOMAIN chunks : j >= k}
           number(i) == CHOOSE j \in later : Cardinality({l \in later : l < j}) = i - 1
           size == IF k < S THEN S - k ELSE 0
<1>1. Cardinality(later) = size /\ size \in Nat
  <2>1. CASE k < S
    <3>1. later = k .. S - 1
      BY <2>1
    <3>2. Cardinality(k .. S - 1) = IF k > S - 1 THEN 0 ELSE S - 1 - k + 1
      BY FS_Interval, S - 1 \in Int, k \in Int
    <3> HIDE DEF later
    <3>3. QED BY <2>1, <3>1, <3>2
  <2>2. CASE ~(k < S)
    <3>1. later = {}
      BY <2>2
    <3>2. QED BY <2>2, <3>1, FS_EmptySet
  <2>3. QED BY <2>1, <2>2
<1>2. ASSUME NEW i \in 1 .. size PROVE number(i) = k + i - 1
  <2>1. k < S /\ size = S - k
    OBVIOUS
  <2>2. ASSUME NEW j \in later PROVE Cardinality({l \in later : l < j}) = j - k
    <3>1. {l \in later : l < j} = k .. j - 1
      BY <2>1, <2>2
    <3>2. j \in Int /\ j >= k
      BY <2>2
    <3>3. Cardinality(k .. j - 1) = IF k > j - 1 THEN 0 ELSE j - 1 - k + 1
      BY <3>2, FS_Interval, j - 1 \in Int, k \in Int
    <3> DEFINE before == {l \in later : l < j}
    <3> HIDE DEF before, later
    <3>4. before = k .. j - 1
      BY <3>1 DEF before
    <3>5. Cardinality(before) = j - k
      BY <3>2, <3>3, <3>4
    <3>6. QED BY <3>5 DEF before
  <2>3. k + i - 1 \in later
    BY <2>1
  <2> HIDE DEF later
  <2>4. Cardinality({l \in later : l < k + i - 1}) = i - 1
    <3>1. Cardinality({l \in later : l < k + i - 1}) = k + i - 1 - k
      BY <2>2, <2>3
    <3>2. QED BY <3>1
  <2>5. \A j \in later : Cardinality({l \in later : l < j}) = i - 1 => j = k + i - 1
    <3> TAKE j \in later
    <3>1. j \in Int
      BY DEF later
    <3>2. Cardinality({l \in later : l < j}) = j - k
      BY <2>2
    <3>3. QED BY <3>1, <3>2
  <2>6. QED BY <2>3, <2>4, <2>5
<1>3. Live(k) = [i \in 1 .. Cardinality(later) |-> [n |-> number(i), data |-> chunks[number(i)]]]
  BY DEF Live
<1> HIDE DEF later, number, size
<1>4. Live(k) = [i \in 1 .. size |-> [n |-> number(i), data |-> chunks[number(i)]]]
  BY <1>1, <1>3
<1>5. QED BY <1>2, <1>4 DEF size

\* The server has all chunks with a number below S.
StoredUpTo(S) == DOMAIN chunks = 0 .. S - 1 /\ \A i \in DOMAIN chunks : chunks[i] \in Bytes

\* A cursor that got a batch of some size, or what there is.
Longer(c, size, o) ==
    LET live == Live(c.next)
        batch == SubSeq(live, 1, Min({size, Len(live)}))
    IN [c EXCEPT !.batch = @ \o batch, !.open = o,
                 !.next = IF batch = <<>> THEN @ ELSE Last(batch).n + 1]

HoldsMore(f, c, fails, size, o) ==
    /\ Holds(f, fails) /\ f.at = c.at /\ f.last = c.last /\ f.open = o
    /\ Len(f.batch) = Len(c.batch) + size \/ Len(Live(c.next)) < size

\* A cursor's batch with more of the chunks that follow it is as the server has it.
LEMMA LongerBatchHolds ==
    ASSUME NEW S \in Nat, StoredUpTo(S), NEW c, NEW fails \in Nat, Holds(c, fails), c.open,
           NEW size \in Nat, NEW o \in BOOLEAN,
           c.last <= S, o = TRUE \/ Len(Live(c.next)) <= size
    PROVE  HoldsMore(Longer(c, size, o), c, fails, size, o)
<1> DEFINE f == Longer(c, size, o)
           live == Live(c.next)
           batch == SubSeq(live, 1, Min({size, Len(live)}))
           L == IF c.next < S THEN S - c.next ELSE 0
           m == IF size <= L THEN size ELSE L
           Chunk == [n: Nat, data: Bytes]
<1>1. /\ c \in CursorType
      /\ \A j \in DOMAIN c.batch :
            /\ c.batch[j].n = c.at + j - 1 /\ c.at + j - 1 \in DOMAIN chunks
            /\ c.batch[j].data = chunks[c.at + j - 1]
      /\ c.next = c.at + Len(c.batch) /\ c.last * ChunkSize <= length
  BY DEF Holds
<1>2. /\ c.at \in Nat /\ c.last \in Nat /\ c.batch \in Seq(Chunk) /\ c.next \in Nat
  BY <1>1 DEF CursorType
<1>3. /\ L \in Nat /\ m \in Nat /\ m <= L /\ m = IF size <= L THEN size ELSE L
      /\ S <= c.next + L
  BY <1>2
<1>4. live = [i \in 1 .. L |-> [n |-> c.next + i - 1, data |-> chunks[c.next + i - 1]]]
  BY <1>2, LiveIsInOrder DEF StoredUpTo
<1>5. \A i \in 1 .. L : c.next + i - 1 \in 0 .. S - 1
  BY <1>2
<1>6. live \in Seq(Chunk) /\ Len(live) = L
  <2>1. \A i \in 1 .. L : live[i] \in Chunk
    BY <1>4, <1>5 DEF StoredUpTo
  <2> HIDE DEF L, live, Chunk
  <2>2. live = [i \in 1 .. L |-> live[i]]
    BY <1>4
  <2>3. QED BY <1>3, <2>1, <2>2
<1>7. batch \in Seq(Chunk) /\ Len(batch) = m /\ \A i \in 1 .. m : batch[i] = live[i]
  <2>1. Min({size, Len(live)}) = m
    BY <1>3, <1>6, MinOfTwo
  <2> HIDE DEF L, live, m, Chunk
  <2>2. m \in 0 .. Len(live)
    BY <1>3, <1>6
  <2>3. QED BY <1>6, <2>1, <2>2, FrontOfSequence
<1> HIDE DEF f, live, batch, Chunk, m, L
<1>8. \A i \in 1 .. m : batch[i].n = c.next + i - 1 /\ batch[i].data = chunks[c.next + i - 1]
  <2> TAKE i \in 1 .. m
  <2>1. i \in 1 .. L
    BY <1>3
  <2>2. live[i] = [n |-> c.next + i - 1, data |-> chunks[c.next + i - 1]]
    BY <1>4, <2>1
  <2>3. batch[i] = live[i]
    BY <1>7
  <2>4. QED BY <2>2, <2>3
<1>9. /\ c.batch \o batch \in Seq(Chunk) /\ Len(c.batch \o batch) = Len(c.batch) + m
      /\ \A i \in 1 .. Len(c.batch) : (c.batch \o batch)[i] = c.batch[i]
      /\ \A i \in 1 .. m : (c.batch \o batch)[Len(c.batch) + i] = batch[i]
  <2>1. c.batch \in Seq(Chunk) /\ batch \in Seq(Chunk) /\ Len(batch) = m
    BY <1>2, <1>7
  <2>2. /\ c.batch \o batch \in Seq(Chunk) /\ Len(c.batch \o batch) = Len(c.batch) + Len(batch)
        /\ \A i \in 1 .. Len(c.batch) : (c.batch \o batch)[i] = c.batch[i]
        /\ \A i \in 1 .. Len(batch) : (c.batch \o batch)[Len(c.batch) + i] = batch[i]
    <3>1. c.batch \o batch \in Seq(Chunk)
      BY <2>1, JoinedSequences
    <3>2. Len(c.batch \o batch) = Len(c.batch) + Len(batch)
      BY <2>1, JoinedSequences
    <3>3. \A i \in 1 .. Len(c.batch) : (c.batch \o batch)[i] = c.batch[i]
      BY <2>1, JoinedSequences
    <3>4. \A i \in 1 .. Len(batch) : (c.batch \o batch)[Len(c.batch) + i] = batch[i]
      BY <2>1, JoinedSequences
    <3>5. QED BY <3>1, <3>2, <3>3, <3>4
  <2>3. QED BY <2>1, <2>2, Zenon
<1> DEFINE next == IF batch = <<>> THEN c.next ELSE Last(batch).n + 1
<1>10. next = c.next + m
  <2>1. CASE m = 0
    BY <1>2, <1>7, <2>1
  <2>2. CASE m # 0
    <3>1. batch # <<>> /\ Last(batch) = batch[m]
      BY <1>7, <2>2 DEF Last
    <3>2. Last(batch).n = c.next + m - 1
      BY <1>3, <1>8, <2>2, <3>1
    <3>3. next = c.next + m - 1 + 1
      BY <3>1, <3>2
    <3>4. QED BY <1>2, <1>3, <3>3
  <2>3. QED BY <2>1, <2>2
<1>11. /\ f \in CursorType
       /\ f.batch = c.batch \o batch /\ f.open = o /\ f.next = next /\ f.at = c.at /\ f.last = c.last
  <2> HIDE DEF next, m, L
  <2>1. next \in Nat
    BY <1>2, <1>3, <1>10
  <2>2. f = [c EXCEPT !.batch = c.batch \o batch, !.open = o, !.next = next]
    BY DEF next, batch, live, f, Longer
  <2>3. QED BY <1>1, <1>9, <2>1, <2>2 DEF CursorType, Chunk
<1> HIDE DEF next
<1>12. ASSUME NEW j \in DOMAIN f.batch
       PROVE  /\ f.batch[j].n = f.at + j - 1 /\ f.at + j - 1 \in DOMAIN chunks
              /\ f.batch[j].data = chunks[f.at + j - 1]
  <2>1. PICK l \in Nat : l = Len(c.batch) /\ DOMAIN c.batch = 1 .. l
    BY <1>2
  <2>2. f.batch = c.batch \o batch /\ f.at = c.at
    BY <1>11
  <2>3. j \in 1 .. l + m
    <3>1. f.batch \in Seq(Chunk) /\ Len(f.batch) = l + m
      BY <1>9, <2>1, <2>2
    <3>2. QED BY <3>1
  <2>4. CASE j <= l
    <3>1. f.batch[j] = c.batch[j] /\ j \in DOMAIN c.batch
      BY <1>9, <2>1, <2>2, <2>3, <2>4
    <3>2. QED BY <1>1, <2>2, <3>1
  <2>5. CASE j > l
    <3>1. j - l \in 1 .. m /\ j = l + (j - l)
      BY <1>3, <2>3, <2>5
    <3>2. f.batch[j] = batch[j - l]
      BY <1>9, <2>1, <2>2, <3>1
    <3>3. c.next + (j - l) - 1 = c.at + j - 1
      <4>1. c.next = c.at + l /\ c.at \in Nat /\ l \in Nat /\ j \in Int
        BY <1>1, <1>2, <1>3, <2>1, <2>3
      <4>2. QED BY <4>1
    <3>4. c.next + (j - l) - 1 \in DOMAIN chunks
      BY <1>3, <1>5, <3>1 DEF StoredUpTo
    <3>5. QED BY <1>8, <2>2, <3>1, <3>2, <3>3, <3>4
  <2>6. QED BY <2>3, <2>4, <2>5
<1>13. Len(f.batch) = Len(c.batch) + m
  BY <1>9, <1>11
<1>14. PICK l \in Nat : l = Len(c.batch)
  BY <1>2
<1>15. f.next = f.at + Len(f.batch)
  <2>1. c.next = c.at + l
    BY <1>1, <1>14
  <2>2. f.next = c.at + l + m
    BY <1>10, <1>11, <2>1
  <2>3. Len(f.batch) = l + m
    BY <1>13, <1>14
  <2>4. QED BY <1>2, <1>3, <1>11, <2>2, <2>3
<1>16. ~f.open => f.last <= f.at + Len(f.batch)
  <2> SUFFICES ASSUME ~f.open PROVE f.last <= f.at + Len(f.batch)
    OBVIOUS
  <2>1. m = L
    <3>1. Len(live) <= size
      BY <1>11 DEF live
    <3>2. QED BY <1>3, <1>6, <3>1
  <2>2. S <= c.next + L
    BY <1>3
  <2>3. c.last \in Nat /\ c.at \in Nat /\ c.next \in Nat
    BY <1>2
  <2>4. f.at + Len(f.batch) = c.next + m /\ f.last = c.last
    BY <1>3, <1>15, <1>10, <1>11
  <2> HIDE DEF m, L
  <2>5. QED BY <1>3, <2>1, <2>2, <2>3, <2>4
<1>17. Holds(f, fails)
  BY <1>1, <1>11, <1>12, <1>15, <1>16 DEF Holds
<1>18. m = size \/ Len(live) < size
  BY <1>3, <1>6
<1>19. QED BY <1>11, <1>13, <1>17, <1>18 DEF live, f, HoldsMore

\* A cursor that was to fetch m chunks has them, or the server has no more.
LEMMA FetchedHolds ==
    ASSUME NEW S \in Nat, StoredUpTo(S), NEW c, NEW fails \in Nat, Holds(c, fails), c.last <= S,
           NEW m \in Nat, NEW f \in Fetched(c, m)
    PROVE  /\ Holds(f, fails) /\ f.at = c.at /\ f.last = c.last
           /\ Len(f.batch) < m => ~f.open
<1>1. CASE Len(c.batch) >= m \/ ~c.open
  <2>1. f = c
    BY <1>1 DEF Fetched
  <2>2. c \in CursorType
    BY DEF Holds
  <2>3. Len(c.batch) \in Nat
    BY <2>2 DEF CursorType
  <2>4. QED BY <1>1, <2>1, <2>3
<1>2. CASE ~(Len(c.batch) >= m \/ ~c.open)
  <2> DEFINE live == Live(c.next)
             size == DivideRoundUp(m - Len(c.batch), ServerBatch) * ServerBatch
  <2>1. PICK o \in IF Len(live) > size THEN {TRUE} ELSE IF Len(live) = size THEN BOOLEAN ELSE {FALSE} :
            f = Longer(c, size, o)
    BY <1>2 DEF Fetched, Longer
  <2>2. c \in CursorType
    BY DEF Holds
  <2>3. c.next \in Nat /\ Len(c.batch) \in Nat
    BY <2>2 DEF CursorType
  <2>4. Len(live) \in Nat
    BY <2>3, LiveIsInOrder DEF StoredUpTo
  <2>5. m - Len(c.batch) \in Nat
    BY <1>2, <2>3
  <2>6. size \in Nat /\ m - Len(c.batch) <= size
    <3>1. /\ DivideRoundUp(m - Len(c.batch), ServerBatch) \in Nat
          /\ m - Len(c.batch) <= DivideRoundUp(m - Len(c.batch), ServerBatch) * ServerBatch
      BY <2>5, Sizes, RoundingUp
    <3> DEFINE r == DivideRoundUp(m - Len(c.batch), ServerBatch)
    <3> HIDE DEF r
    <3>2. r \in Nat /\ r * ServerBatch \in Nat
      BY <3>1, Sizes DEF r
    <3>3. QED BY <3>1, <3>2 DEF r
  <2>7. o \in BOOLEAN /\ (~o => Len(live) <= size) /\ (Len(live) < size => ~o)
    <3>1. PICK l \in Nat : l = Len(live)
      BY <2>4
    <3> HIDE DEF live, size
    <3>2. o \in IF l > size THEN {TRUE} ELSE IF l = size THEN BOOLEAN ELSE {FALSE}
      BY <2>1, <3>1
    <3>3. CASE l > size
      BY <2>6, <3>1, <3>2, <3>3
    <3>4. CASE l = size
      <4>1. ~(l > size)
        BY <3>4
      <4>2. o \in BOOLEAN
        BY <3>2, <3>4, <4>1, Zenon
      <4>3. l <= size /\ ~(l < size)
        BY <2>6, <3>4
      <4>4. QED BY <3>1, <4>2, <4>3
    <3>5. CASE l < size
      <4>1. ~(l > size) /\ l # size /\ l <= size
        BY <2>6, <3>5
      <4>2. o \in {FALSE}
        BY <3>2, <4>1, Zenon
      <4>3. QED BY <3>1, <4>1, <4>2
    <3>6. QED BY <2>6, <3>1, <3>3, <3>4, <3>5
  <2> HIDE DEF size
  <2>8. /\ Holds(f, fails) /\ f.at = c.at /\ f.last = c.last /\ f.open = o
        /\ Len(f.batch) = Len(c.batch) + size \/ Len(Live(c.next)) < size
    <3>1. c.open
      BY <1>2
    <3>2. o = TRUE \/ Len(Live(c.next)) <= size
      BY <2>7
    <3>3. size \in Nat /\ o \in BOOLEAN
      BY <2>6, <2>7
    <3>4. f = Longer(c, size, o)
      BY <2>1
    <3>5. HoldsMore(Longer(c, size, o), c, fails, size, o)
      BY <3>1, <3>2, <3>3, LongerBatchHolds, Zenon
    <3>6. HoldsMore(f, c, fails, size, o)
      BY <3>4, <3>5
    <3>7. QED BY <3>6 DEF HoldsMore
  <2>9. PICK b \in Nat : b = Len(c.batch)
    BY <2>3
  <2>10. Len(f.batch) < m => ~f.open
    <3>1. m - b \in Nat /\ m - b <= size /\ size \in Nat
      BY <2>5, <2>6, <2>9
    <3>2. CASE Len(f.batch) = b + size
      BY <2>9, <3>1, <3>2
    <3>3. CASE Len(live) < size
      BY <2>7, <2>8, <3>3
    <3>4. QED BY <2>8, <2>9, <3>2, <3>3
  <2>11. QED BY <2>8, <2>10
<1>3. QED BY <1>1, <1>2

\* A cursor from which the first d chunks of its batch were taken.
Dropped(f, d) == [f EXCEPT !.at = f.at + d, !.batch = SubSeq(f.batch, d + 1, Len(f.batch))]

LEMMA DroppedHolds ==
    ASSUME NEW f, NEW fails \in Nat, Holds(f, fails), NEW d \in 0 .. Len(f.batch)
    PROVE  Holds(Dropped(f, d), fails)
<1> DEFINE g == Dropped(f, d)
           Chunk == [n: Nat, data: Bytes]
<1>1. /\ f \in CursorType
      /\ \A j \in DOMAIN f.batch :
            /\ f.batch[j].n = f.at + j - 1 /\ f.at + j - 1 \in DOMAIN chunks
            /\ f.batch[j].data = chunks[f.at + j - 1]
      /\ f.open => f.next = f.at + Len(f.batch)
      /\ ~f.open /\ fails = 0 => f.last <= f.at + Len(f.batch)
      /\ f.last * ChunkSize <= length
  BY DEF Holds
<1>2. /\ f.at \in Nat /\ f.last \in Nat /\ f.batch \in Seq(Chunk) /\ f.next \in Nat
  BY <1>1 DEF CursorType
<1>3. PICK l \in Nat : l = Len(f.batch) /\ DOMAIN f.batch = 1 .. l
  BY <1>2
<1>4. d \in Nat /\ d <= l
  BY <1>3
<1> HIDE DEF Chunk
<1> DEFINE rest == SubSeq(f.batch, d + 1, Len(f.batch))
<1>5. /\ rest \in Seq(Chunk) /\ Len(rest) = l - d
      /\ \A i \in 1 .. l - d : rest[i] = f.batch[d + i]
  <2>1. d \in 0 .. Len(f.batch)
    OBVIOUS
  <2>2. /\ rest \in Seq(Chunk) /\ Len(rest) = Len(f.batch) - d
        /\ \A i \in 1 .. Len(f.batch) - d : rest[i] = f.batch[d + i]
    BY <1>2, <2>1, RestOfSequence, Zenon
  <2>3. QED BY <1>3, <2>2
<1> HIDE DEF rest
<1>6. /\ g \in CursorType
      /\ g.batch = rest /\ g.at = f.at + d /\ g.open = f.open /\ g.next = f.next /\ g.last = f.last
  <2>1. g = [f EXCEPT !.at = f.at + d, !.batch = rest]
    BY DEF Dropped, rest
  <2>2. f.at + d \in Nat
    BY <1>2, <1>4
  <2> HIDE DEF g
  <2>3. QED BY <1>1, <1>5, <2>1, <2>2 DEF CursorType, Chunk
<1> HIDE DEF g
<1>7. ASSUME NEW j \in DOMAIN g.batch
      PROVE  /\ g.batch[j].n = g.at + j - 1 /\ g.at + j - 1 \in DOMAIN chunks
             /\ g.batch[j].data = chunks[g.at + j - 1]
  <2>1. j \in 1 .. l - d
    BY <1>4, <1>5, <1>6
  <2>2. d + j \in 1 .. l /\ g.at + j - 1 = f.at + (d + j) - 1
    BY <1>2, <1>4, <1>6, <2>1
  <2>3. g.batch[j] = f.batch[d + j]
    BY <1>5, <1>6, <2>1
  <2>4. d + j \in DOMAIN f.batch
    BY <1>3, <2>2
  <2>5. QED BY <1>1, <2>2, <2>3, <2>4
<1>8. g.at + Len(g.batch) = f.at + l
  BY <1>2, <1>4, <1>5, <1>6
<1>9. QED BY <1>1, <1>3, <1>6, <1>7, <1>8 DEF Holds, g

\* What it means to take chunk k: a page with it, or none, and without a failure of the
\* server only because the cursor was opened when the file ended with the chunk before.
Took(r, k, offset) ==
    /\ Holds(r.cursor, failures + r.fails) /\ r.fails \in {0, 1} /\ r.ok \in BOOLEAN
    /\ r.ok => r.page = NewPage(chunks[k], offset) /\ r.fails = 0 /\ r.cursor.at = k + 1
    /\ ~r.ok =>
          /\ r.page = None
          /\ failures + r.fails = 0 => ~r.cursor.open /\ r.cursor.at = k /\ r.cursor.last = k

LEMMA ChunkIsTaken ==
    ASSUME NEW S \in Nat, StoredUpTo(S), failures \in Nat, NEW c, Holds(c, failures), c.last <= S,
           NEW k \in Nat, c.at <= k, k <= c.last, NEW offset, NEW r \in Taken(c, k, offset)
    PROVE  Took(r, k, offset)
<1> DEFINE m == k - c.at + 1
<1>1. PICK f \in Fetched(c, m) :
          r = IF Len(f.batch) >= m /\ f.batch[m].n = k
              THEN [ok |-> TRUE, page |-> NewPage(f.batch[m].data, offset),
                    cursor |-> [f EXCEPT !.at = k + 1, !.batch = SubSeq(@, m + 1, Len(@))], fails |-> 0]
              ELSE [ok |-> FALSE, page |-> None,
                    cursor |-> [f EXCEPT !.at = @ + Min({m, Len(f.batch)}),
                                         !.batch = SubSeq(@, m + 1, Len(@))], fails |-> 0]
  BY DEF Taken
<1>2. c \in CursorType /\ c.at \in Nat /\ c.last \in Nat
  BY DEF Holds, CursorType
<1>3. m \in Nat /\ m >= 1 /\ c.at + m = k + 1
  BY <1>2
<1> HIDE DEF m
<1>4. /\ Holds(f, failures) /\ f.at = c.at /\ f.last = c.last
      /\ Len(f.batch) < m => ~f.open
  BY <1>3, FetchedHolds
<1>5. /\ f \in CursorType
      /\ \A j \in DOMAIN f.batch :
            /\ f.batch[j].n = f.at + j - 1 /\ f.batch[j].data = chunks[f.at + j - 1]
      /\ ~f.open /\ failures = 0 => f.last <= f.at + Len(f.batch)
  BY <1>4 DEF Holds
<1>6. f.batch \in Seq([n: Nat, data: Bytes])
  BY <1>5 DEF CursorType
<1>7. PICK l \in Nat : l = Len(f.batch) /\ DOMAIN f.batch = 1 .. l
  BY <1>6
<1>8. CASE l >= m
  <2>1. m \in DOMAIN f.batch /\ f.at + m - 1 = k
    BY <1>2, <1>3, <1>4, <1>7, <1>8
  <2>2. f.batch[m].n = k /\ f.batch[m].data = chunks[k]
    BY <1>5, <2>1
  <2>3. r = [ok |-> TRUE, page |-> NewPage(chunks[k], offset),
             cursor |-> [f EXCEPT !.at = k + 1, !.batch = SubSeq(@, m + 1, Len(@))], fails |-> 0]
    BY <1>1, <1>7, <1>8, <2>2
  <2>4. [f EXCEPT !.at = k + 1, !.batch = SubSeq(@, m + 1, Len(@))] = Dropped(f, m)
    BY <1>3, <1>4 DEF Dropped
  <2>5. Holds(Dropped(f, m), failures)
    <3>1. m \in 0 .. Len(f.batch)
      BY <1>3, <1>7, <1>8
    <3>2. QED BY <1>4, <3>1, DroppedHolds
  <2>6. Dropped(f, m).at = k + 1
    BY <1>3, <1>4, <1>5 DEF Dropped, CursorType
  <2>7. /\ r.ok = TRUE /\ r.page = NewPage(chunks[k], offset) /\ r.fails = 0
        /\ r.cursor = Dropped(f, m)
    BY <2>3, <2>4
  <2>8. failures + r.fails = failures
    BY <2>7
  <2>9. QED BY <2>5, <2>6, <2>7, <2>8 DEF Took
<1>9. CASE l < m
  <2>1. r = [ok |-> FALSE, page |-> None,
             cursor |-> [f EXCEPT !.at = @ + Min({m, Len(f.batch)}),
                                  !.batch = SubSeq(@, m + 1, Len(@))], fails |-> 0]
    BY <1>1, <1>3, <1>7, <1>9
  <2>2. Min({m, Len(f.batch)}) = Len(f.batch)
    BY <1>3, <1>7, <1>9, MinOfTwo
  <2>3. SubSeq(f.batch, m + 1, Len(f.batch)) = SubSeq(f.batch, Len(f.batch) + 1, Len(f.batch))
    BY <1>3, <1>6, <1>7, <1>9
  <2>4. [f EXCEPT !.at = @ + Min({m, Len(f.batch)}), !.batch = SubSeq(@, m + 1, Len(@))]
          = Dropped(f, Len(f.batch))
    BY <2>2, <2>3 DEF Dropped
  <2>5. Holds(Dropped(f, Len(f.batch)), failures)
    <3>1. Len(f.batch) \in 0 .. Len(f.batch)
      BY <1>7
    <3>2. QED BY <1>4, <3>1, DroppedHolds
  <2>6. /\ Dropped(f, Len(f.batch)).at = f.at + l /\ Dropped(f, Len(f.batch)).last = f.last
        /\ Dropped(f, Len(f.batch)).open = f.open
    BY <1>5, <1>7 DEF Dropped, CursorType
  <2>7. /\ r.ok = FALSE /\ r.page = None /\ r.fails = 0
        /\ r.cursor = Dropped(f, Len(f.batch))
    BY <2>1, <2>4
  <2>8. failures + r.fails = failures
    BY <2>7
  <2>9. failures = 0 => ~f.open /\ f.at + l = k /\ f.last = k
    BY <1>2, <1>3, <1>4, <1>5, <1>7, <1>9
  <2>10. QED BY <2>5, <2>6, <2>7, <2>8, <2>9 DEF Took
<1>10. QED BY <1>3, <1>7, <1>8, <1>9

\* A query or a batch that fails.
LEMMA FailureIsNotTaken ==
    ASSUME failures \in Nat, NEW c, Holds(c, failures), NEW k, NEW offset, NEW r \in Untaken(c)
    PROVE  Took(r, k, offset)
<1> DEFINE g == [c EXCEPT !.batch = <<>>, !.open = FALSE]
<1>1. r = [ok |-> FALSE, page |-> None, cursor |-> g, fails |-> 1]
  BY DEF Untaken
<1>2. c \in CursorType /\ c.last * ChunkSize <= length
  BY DEF Holds
<1>3. g \in CursorType /\ g.batch = <<>> /\ g.open = FALSE /\ g.last = c.last
  <2>1. PICK e : e = <<>> /\ e \in Seq([n: Nat, data: Bytes])
    BY EmptySequence, Zenon
  <2>2. g = [c EXCEPT !.batch = e, !.open = FALSE]
    BY <2>1
  <2> HIDE DEF g
  <2>3. g \in CursorType /\ g.batch = e /\ g.open = FALSE /\ g.last = c.last
    BY <1>2, <2>1, <2>2 DEF CursorType
  <2>4. QED BY <2>1, <2>3
<1> HIDE DEF g
<1>4. r.ok = FALSE /\ r.page = None /\ r.cursor = g /\ r.fails = 1
  BY <1>1
<1>5. failures + r.fails # 0 /\ failures + r.fails \in Nat
  BY <1>4
<1>6. Holds(g, failures + r.fails)
  BY <1>2, <1>3, <1>5 DEF Holds
<1>7. QED BY <1>4, <1>5, <1>6 DEF Took

\* The chunks of the server are those that the length calls for.
AllStored == \A k : k \in DOMAIN chunks <=> k \in Nat /\ k * ChunkSize < length

LEMMA AllAreStored ==
    ASSUME length \in Nat, AllStored, \A i \in DOMAIN chunks : chunks[i] \in Bytes
    PROVE  /\ Existing \in Nat /\ StoredUpTo(Existing)
           /\ \A c, fails : Holds(c, fails) => c.last <= Existing
<1>1. /\ Existing \in Nat /\ length <= Existing * ChunkSize
      /\ \A k \in Nat : k < Existing <=> k * ChunkSize < length
  BY RoundingUp, Sizes DEF Existing
<1>2. DOMAIN chunks = 0 .. Existing - 1
  <2>1. PICK e \in Nat : e = Existing
    BY <1>1
  <2>2. \A k : k \in DOMAIN chunks <=> k \in Nat /\ k < e
    BY <1>1, <2>1 DEF AllStored
  <2>3. \A k : k \in 0 .. e - 1 <=> k \in Nat /\ k < e
    OBVIOUS
  <2>4. DOMAIN chunks = 0 .. e - 1
    BY <2>2, <2>3, Zenon
  <2>5. QED BY <2>1, <2>4
<1>3. ASSUME NEW c, NEW fails, Holds(c, fails) PROVE c.last <= Existing
  <2>1. c \in CursorType /\ c.last * ChunkSize <= length
    BY <1>3 DEF Holds
  <2>2. c.last \in Nat
    BY <2>1 DEF CursorType
  <2>3. ~(Existing < c.last)
    <3> SUFFICES ASSUME Existing < c.last PROVE FALSE
      OBVIOUS
    <3>1. /\ Existing * ChunkSize \in Nat /\ c.last * ChunkSize \in Nat
          /\ Existing * ChunkSize + ChunkSize <= c.last * ChunkSize
      BY <1>1, <2>2, Sizes, ProductsGrow
    <3>2. QED BY <1>1, <2>1, <3>1, Sizes
  <2>4. QED BY <1>1, <2>2, <2>3
<1>4. QED BY <1>1, <1>2, <1>3 DEF StoredUpTo

LEMMA CursorIsNew ==
    ASSUME length \in Nat, NEW k \in Nat, k * ChunkSize < length, NEW fails
    PROVE  Holds(NewCursor(k), fails) /\ NewCursor(k).at = k /\ k <= NewCursor(k).last
<1> DEFINE c == NewCursor(k)
           last == length \div ChunkSize
<1>1. last \in Nat /\ last * ChunkSize <= length /\ length < last * ChunkSize + ChunkSize
  <2>1. PICK r \in Nat : last \in Nat /\ length = last * ChunkSize + r /\ r < ChunkSize
    BY Division, Sizes
  <2> HIDE DEF last
  <2>2. last * ChunkSize \in Nat
    BY <2>1, Sizes
  <2>3. QED BY <2>1, <2>2, Sizes
<1> HIDE DEF last
<1>2. PICK e : e = <<>> /\ e \in Seq([n: Nat, data: Bytes]) /\ Len(e) = 0
  BY EmptySequence, Zenon
<1>3. c = [at |-> k, last |-> last, batch |-> e, next |-> k, open |-> TRUE]
  BY <1>2 DEF NewCursor, last
<1>4. c \in CursorType
  <2> HIDE DEF c
  <2>1. QED BY <1>1, <1>2, <1>3 DEF CursorType
<1>5. c.at = k /\ c.last = last /\ c.batch = e /\ c.next = k /\ c.open = TRUE
  BY <1>3
<1> HIDE DEF c
<1>6. DOMAIN c.batch = {} /\ c.at + Len(c.batch) = k
  BY <1>2, <1>5
<1>7. Holds(c, fails)
  BY <1>1, <1>4, <1>5, <1>6 DEF Holds
<1>8. ~(last < k)
  <2> SUFFICES ASSUME last < k PROVE FALSE
    OBVIOUS
  <2>1. last * ChunkSize \in Nat /\ k * ChunkSize \in Nat /\ last * ChunkSize + ChunkSize <= k * ChunkSize
    BY <1>1, Sizes, ProductsGrow
  <2>2. QED BY <1>1, <2>1, Sizes
<1>9. k <= last
  BY <1>1, <1>8
<1>10. QED BY <1>5, <1>7, <1>9 DEF c

\* A page for a position is a new one beyond the end, and else its chunk or nothing.
LEMMA RefreshGives ==
    ASSUME length \in Nat, failures \in Nat, \A i \in DOMAIN chunks : chunks[i] \in Bytes,
           cursor # None => Holds(cursor, failures),
           NEW at \in Nat, NEW k \in Nat, k = at \div ChunkSize,
           k * ChunkSize < length => AllStored, NEW r \in Refresh(at)
    PROVE  \/ /\ length <= k * ChunkSize
              /\ r = [ok |-> TRUE, page |-> NewPage(<<>>, at % ChunkSize), cursor |-> cursor, fails |-> 0]
           \/ k * ChunkSize < length /\ k \in DOMAIN chunks /\ Took(r, k, at % ChunkSize)
<1> DEFINE c == IF cursor = None THEN NewCursor(k) ELSE IF KeepCursor(k) THEN cursor ELSE NewCursor(k)
<1>1. DivideRoundUp(at + 1, ChunkSize) > Existing <=> length <= k * ChunkSize
  BY NewPageIsBeyond
<1>2. k * ChunkSize \in Nat
  BY Sizes
<1>3. CASE length <= k * ChunkSize
  BY <1>1, <1>3 DEF Refresh
<1>4. CASE k * ChunkSize < length
  <2>1. r \in Taken(c, k, at % ChunkSize) \cup (IF Len(c.batch) < k - c.at + 1 /\ c.open THEN Untaken(c) ELSE {})
    BY <1>1, <1>2, <1>4 DEF Refresh
  <2>2. Holds(c, failures) /\ c.at <= k /\ k <= c.last
    <3>1. Holds(NewCursor(k), failures) /\ NewCursor(k).at = k /\ k <= NewCursor(k).last
      BY <1>4, CursorIsNew
    <3>2. CASE cursor # None /\ KeepCursor(k)
      BY <3>2 DEF KeepCursor
    <3>3. CASE ~(cursor # None /\ KeepCursor(k))
      <4>1. c = NewCursor(k)
        BY <3>3
      <4> HIDE DEF c
      <4>2. QED BY <3>1, <4>1
    <3>4. QED BY <3>2, <3>3
  <2>3. Existing \in Nat /\ StoredUpTo(Existing) /\ c.last <= Existing
    BY <1>4, <2>2, AllAreStored
  <2> HIDE DEF c
  <2>4. Took(r, k, at % ChunkSize)
    <3>1. CASE r \in Taken(c, k, at % ChunkSize)
      BY <2>2, <2>3, <3>1, ChunkIsTaken
    <3>2. CASE r \in Untaken(c)
      BY <2>2, <3>2, FailureIsNotTaken
    <3>3. QED BY <2>1, <3>1, <3>2
  <2>5. k \in DOMAIN chunks
    BY <1>4 DEF AllStored
  <2>6. QED BY <1>4, <2>4, <2>5
<1>5. QED BY <1>2, <1>3, <1>4

-----------------------------------------------------------------------------
(* Parts of the invariant that a step leaves alone.                        *)

LEMMA SameEnd ==
    ASSUME End' = End
    PROVE  \A k : Extent(k)' = Extent(k)
  BY DEF Extent

LEMMA EndIsNatural ==
    ASSUME GridFSTypeOK
    PROVE  End \in Nat
  BY DEF GridFSTypeOK, End

\* A new call, one that has failed, and one that goes on are calls.
LEMMA CallsAreTyped ==
    /\ NewCall \in CallType /\ NewCall.pc = "idle" /\ NewCall.failed = FALSE
    /\ [NewCall EXCEPT !.failed = TRUE] \in CallType
    /\ [NewCall EXCEPT !.failed = TRUE].pc = "idle" /\ [NewCall EXCEPT !.failed = TRUE].failed = TRUE
<1>1. PICK e : e = <<>> /\ e \in Bytes
  BY EmptySequence, Zenon DEF Bytes
<1>2. NewCall = [pc |-> "idle", data |-> e, want |-> 0, min |-> 0, got |-> e, target |-> 0, failed |-> FALSE]
  BY <1>1 DEF NewCall
<1>3. QED BY <1>1, <1>2 DEF CallType

\* The cursor fits as long as it is the same, the server has what it has fetched, and the
\* page is the same or gone.
LEMMA CursorStaysFit ==
    ASSUME CursorFits, cursor' = cursor,
           length \in Nat, length' \in Nat, length <= length',
           failures \in Nat, failures' \in Nat, failures <= failures',
           \A k \in DOMAIN chunks :
               k \in DOMAIN chunks' /\ (chunks'[k] = chunks[k] \/ (page # None /\ k = n)),
           page' # None => page # None /\ n' = n
    PROVE  CursorFits'
<1> SUFFICES ASSUME cursor # None
             PROVE  /\ Holds(cursor, failures)'
                    /\ page' # None => \A j \in DOMAIN cursor.batch : cursor.at + j - 1 # n'
  BY DEF CursorFits
<1>1. /\ Holds(cursor, failures)
      /\ page # None => \A j \in DOMAIN cursor.batch : cursor.at + j - 1 # n
  BY DEF CursorFits
<1>2. /\ cursor \in CursorType
      /\ \A j \in DOMAIN cursor.batch :
            /\ cursor.batch[j].n = cursor.at + j - 1 /\ cursor.at + j - 1 \in DOMAIN chunks
            /\ cursor.batch[j].data = chunks[cursor.at + j - 1]
      /\ cursor.open => cursor.next = cursor.at + Len(cursor.batch)
      /\ ~cursor.open /\ failures = 0 => cursor.last <= cursor.at + Len(cursor.batch)
      /\ cursor.last * ChunkSize <= length
  BY <1>1 DEF Holds
<1>3. \A j \in DOMAIN cursor.batch :
         /\ cursor.at + j - 1 \in DOMAIN chunks'
         /\ cursor.batch[j].data = chunks'[cursor.at + j - 1]
  BY <1>1, <1>2
<1>4. cursor.last * ChunkSize <= length'
  <2>1. cursor.last \in Nat
    BY <1>2 DEF CursorType
  <2>2. cursor.last * ChunkSize \in Nat
    BY <2>1, Sizes
  <2>3. QED BY <1>2, <2>2
<1>5. failures' = 0 => failures = 0
  OBVIOUS
<1>6. Holds(cursor, failures)'
  BY <1>2, <1>3, <1>4, <1>5 DEF Holds
<1>7. QED BY <1>1, <1>6

\* The server has every chunk whole.
AllWhole ==
    /\ \A k \in DOMAIN chunks : k * ChunkSize < End
    /\ \A k \in Nat : k * ChunkSize < End => k \in DOMAIN chunks /\ Len(chunks[k]) = Extent(k)

LEMMA WholeChunksFit == AllWhole => ChunksFit
  BY DEF AllWhole, ChunksFit

LEMMA WholeWithoutDirty ==
    ASSUME ChunksFit, ~Dirty
    PROVE  AllWhole
  BY DEF AllWhole, ChunksFit

LEMMA StaysWhole ==
    ASSUME AllWhole, End' = End, chunks' = chunks
    PROVE  AllWhole'
  BY SameEnd DEF AllWhole

LEMMA ChunksStayFit ==
    ASSUME ChunksFit, End' = End, chunks' = chunks, Dirty => Dirty' /\ n' = n
    PROVE  ChunksFit'
  BY SameEnd DEF ChunksFit

\* The page is at the server, which then has every chunk whole.
PageStored == chunks' = [i \in DOMAIN chunks \cup {n} |-> IF i = n THEN page.data ELSE chunks[i]]

LEMMA PageIsStored ==
    ASSUME GridFSTypeOK, PageFits, ChunksFit, page # None, n * ChunkSize < End,
           End' = End, PageStored
    PROVE  /\ AllWhole'
           /\ \A i \in DOMAIN chunks' : i \in Nat /\ chunks'[i] \in Bytes /\ Len(chunks'[i]) <= ChunkSize
           /\ \A k \in DOMAIN chunks :
                  k \in DOMAIN chunks' /\ (chunks'[k] = chunks[k] \/ (page # None /\ k = n))
<1>1. /\ DOMAIN chunks' = DOMAIN chunks \cup {n} /\ chunks'[n] = page.data
      /\ \A i \in DOMAIN chunks : i # n => chunks'[i] = chunks[i]
  BY DEF PageStored
<1>2. \A k : Extent(k)' = Extent(k)
  BY SameEnd
<1>3. \A k \in DOMAIN chunks' : k * ChunkSize < End'
  BY <1>1 DEF ChunksFit
<1>4. \A k \in Nat : k * ChunkSize < End => k \in DOMAIN chunks' /\ Len(chunks'[k]) = Extent(k)
  BY <1>1 DEF ChunksFit, PageFits
<1>5. AllWhole'
  BY <1>2, <1>3, <1>4 DEF AllWhole
<1>6. \A i \in DOMAIN chunks' : i \in Nat /\ chunks'[i] \in Bytes /\ Len(chunks'[i]) <= ChunkSize
  BY <1>1 DEF GridFSTypeOK, PageType
<1>7. QED BY <1>1, <1>5, <1>6

-----------------------------------------------------------------------------
(* Bringing in a page.                                                     *)

\* Where a page is brought in: there is none, or a read has come to the end of one.
MayLoad ==
    /\ call.pc \in {"reading", "writing", "extending"}
    /\ page = None \/ (call.pc = "reading" /\ Gives = 0 /\ call.want # 0 /\ length # pos)

\* A read that goes on has come to the end of a full page.
LEMMA PageIsPassed ==
    ASSUME GridFSTypeOK, PageFits, page # None, Gives = 0, call.want # 0,
           End = length, pos < length
    PROVE  pos = n * ChunkSize + ChunkSize /\ Len(page.data) = ChunkSize
<1>1. PICK l \in Nat : l = Len(page.data)
  BY DEF GridFSTypeOK, PageType, Bytes
<1>2. page.offset \in Nat /\ call.want \in Nat /\ n \in Nat /\ length \in Nat
  BY DEF GridFSTypeOK, PageType, CallType
<1>3. page.offset = l
  <2>1. Gives = IF call.want <= l - page.offset THEN call.want ELSE l - page.offset
    BY <1>1, <1>2, MinOfTwo DEF Gives
  <2>2. QED BY <1>1, <1>2, <2>1
<1>4. n * ChunkSize \in Nat /\ ChunkSize \in Nat
  BY <1>2, Sizes
<1>5. n * ChunkSize + l = pos /\ l = Extent(n)
  BY <1>1, <1>3 DEF PageFits
<1>6. QED BY <1>1, <1>2, <1>4, <1>5 DEF Extent

\* Where the file needs a chunk the server has all that the file needs.
LEMMA NeededIsStored ==
    ASSUME Inv, ~broken, MayLoad, NEW k \in Nat, NEW o \in Nat, pos = k * ChunkSize + o, o < ChunkSize
    PROVE  /\ k * ChunkSize < length => End = length /\ AllWhole /\ AllStored
           /\ length <= k * ChunkSize => page = None /\ End <= k * ChunkSize
<1>1. GridFSTypeOK /\ PageFits /\ ChunksFit /\ CallFits
  BY DEF Inv
<1>2. length \in Nat /\ pos \in Nat /\ k * ChunkSize \in Nat /\ \A j \in DOMAIN chunks : j \in Nat
  BY <1>1, Sizes DEF GridFSTypeOK
<1>3. CASE page = None
  <2>1. call.pc = "extending" /\ length < pos => o = 0
    <3>1. pos % ChunkSize = o
      BY <1>2, Sizes, QuotientIsUnique
    <3>2. QED BY <1>1, <1>3, <3>1 DEF CallFits
  <2>2. call.pc = "extending" => length <= pos
    BY <1>1 DEF CallFits
  <2>3. k * ChunkSize < length => End = length
    BY <1>2, <2>1, <2>2 DEF End
  <2>4. AllWhole
    BY <1>1, <1>3, WholeWithoutDirty DEF Dirty
  <2>5. End = length => AllStored
    BY <1>2, <2>4 DEF AllWhole, AllStored
  <2>6. length <= k * ChunkSize => End <= k * ChunkSize
    BY <1>2, <2>1, <2>2 DEF End
  <2>7. QED BY <1>3, <2>3, <2>4, <2>5, <2>6
<1>4. CASE page # None
  <2>1. call.pc = "reading" /\ Gives = 0 /\ call.want # 0 /\ length # pos
    BY <1>4 DEF MayLoad
  <2>2. End = length /\ pos < length
    BY <1>1, <1>2, <2>1 DEF CallFits, End
  <2>3. pos = n * ChunkSize + ChunkSize
    BY <1>1, <1>4, <2>1, <2>2, PageIsPassed
  <2>4. AllWhole
    <3>1. n * ChunkSize \in Nat
      BY <1>1, Sizes DEF GridFSTypeOK
    <3>2. ~(End <= n * ChunkSize + ChunkSize)
      BY <1>2, <2>2, <2>3
    <3>3. QED BY <1>1, <3>2 DEF AllWhole, ChunksFit
  <2>5. AllStored
    BY <1>2, <2>2, <2>4 DEF AllWhole, AllStored
  <2>6. k * ChunkSize < length
    BY <1>2, <2>2
  <2>7. QED BY <1>2, <2>2, <2>4, <2>5, <2>6
<1>5. QED BY <1>3, <1>4

\* What a page that is brought in, or none, leaves.
Loaded(r, k, offset) ==
    \/ /\ length <= k * ChunkSize
       /\ r = [ok |-> TRUE, page |-> NewPage(<<>>, offset), cursor |-> cursor, fails |-> 0]
    \/ k * ChunkSize < length /\ k \in DOMAIN chunks /\ Took(r, k, offset)

LEMMA PagesAreTyped ==
    ASSUME NEW d \in Bytes, NEW o \in Nat
    PROVE  /\ NewPage(d, o) \in PageType /\ NewPage(d, o) # None
           /\ NewPage(d, o).data = d /\ NewPage(d, o).offset = o /\ NewPage(d, o).dirty = FALSE
<1>1. NewPage(d, o) \in PageType
  BY DEF NewPage, PageType
<1>2. QED BY <1>1, NoneAssumption DEF NewPage

LEMMA LoadsKeepsInv ==
    ASSUME Inv, ~broken, MayLoad, Loads(call.pc)
    PROVE  Inv'
<1>1. /\ GridFSTypeOK /\ FailsWithCause /\ PageFits /\ ChunksFit /\ CursorFits /\ CallFits /\ SavedFits
  BY DEF Inv
<1>2. /\ pos \in Nat /\ n \in Nat /\ length \in Nat /\ failures \in Nat /\ call \in CallType
      /\ \A i \in DOMAIN chunks : i \in Nat /\ chunks[i] \in Bytes /\ Len(chunks[i]) <= ChunkSize
  BY <1>1 DEF GridFSTypeOK
<1> DEFINE k == pos \div ChunkSize
           o == pos % ChunkSize
<1>3. k \in Nat /\ o \in Nat /\ pos = k * ChunkSize + o /\ o < ChunkSize
  BY <1>2, Division, Sizes
<1>4. PICK r \in Refresh(pos) :
          /\ page' = r.page /\ cursor' = r.cursor /\ n' = k
          /\ failures' = failures + r.fails
          /\ IF r.ok THEN call' = [call EXCEPT !.pc = call.pc] ELSE Fails
          /\ UNCHANGED <<pos, length, isDirty, chunks, saved, broken>>
  BY DEF Loads
<1>5. /\ k * ChunkSize < length => End = length /\ AllWhole /\ AllStored
      /\ length <= k * ChunkSize => page = None /\ End <= k * ChunkSize
  <2> HIDE DEF k, o
  <2>1. QED BY <1>3, NeededIsStored
<1>6. Loaded(r, k, o)
  <2>1. cursor # None => Holds(cursor, failures)
    BY <1>1 DEF CursorFits
  <2>2. k * ChunkSize < length => AllStored
    BY <1>5
  <2>3. k = pos \div ChunkSize
    OBVIOUS
  <2> HIDE DEF k
  <2>4. QED BY <1>2, <1>3, <2>1, <2>2, <2>3, RefreshGives DEF Loaded
<1> HIDE DEF k, o
<1>7. ~broken' /\ k * ChunkSize \in Nat /\ ~call.failed /\ ~Idle
  BY <1>1, <1>3, <1>4, Sizes DEF MayLoad, CallFits, Idle
<1>8. [call EXCEPT !.pc = call.pc] = call
  BY <1>2 DEF CallType
<1>9. CASE length <= k * ChunkSize
  <2>1. r = [ok |-> TRUE, page |-> NewPage(<<>>, o), cursor |-> cursor, fails |-> 0]
    BY <1>2, <1>6, <1>7, <1>9 DEF Loaded
  <2>2. PICK e : e = <<>> /\ e \in Bytes /\ Len(e) = 0
    BY EmptySequence, Zenon DEF Bytes
  <2>3. /\ page' = NewPage(e, o) /\ cursor' = cursor /\ failures' = failures /\ call' = call
    BY <1>2, <1>4, <1>8, <2>1, <2>2
  <2>4. /\ page' \in PageType /\ page' # None
        /\ page'.data = e /\ page'.offset = o /\ page'.dirty = FALSE
    BY <1>3, <2>2, <2>3, PagesAreTyped
  <2>5. page = None /\ End <= k * ChunkSize
    BY <1>5, <1>9
  <2>6. End' = End
    BY <1>4, <2>3 DEF End
  <2>7. GridFSTypeOK'
    BY <1>1, <1>2, <1>3, <1>4, <2>2, <2>3, <2>4, Sizes DEF GridFSTypeOK
  <2>8. FailsWithCause'
    BY <1>7, <2>3 DEF FailsWithCause
  <2>9. End \in Nat
    BY <1>1, EndIsNatural
  <2>10. PageFits'
    <3>1. Extent(k) = 0
      BY <2>5 DEF Extent
    <3>2. Extent(n') = Extent(k) /\ Extent(n)' = Extent(n')
      BY <1>4, <2>6 DEF Extent
    <3>3. ~(n' * ChunkSize < End')
      BY <1>4, <1>7, <2>5, <2>6, <2>9
    <3>4. n' * ChunkSize + page'.offset = pos'
      BY <1>3, <1>4, <2>4
    <3>5. QED BY <2>2, <2>4, <3>1, <3>2, <3>3, <3>4 DEF PageFits
  <2>11. ChunksFit'
    BY <1>1, <1>4, <2>5, <2>6, ChunksStayFit DEF Dirty
  <2>12. CursorFits'
    <3> SUFFICES ASSUME cursor # None
                 PROVE  /\ Holds(cursor, failures)'
                        /\ \A j \in DOMAIN cursor.batch : cursor.at + j - 1 # k
      BY <1>4, <2>3 DEF CursorFits
    <3>1. Holds(cursor, failures)
      BY <1>1 DEF CursorFits
    <3>2. Holds(cursor, failures)'
      BY <1>4, <2>3, <3>1 DEF Holds
    <3>3. \A j \in DOMAIN cursor.batch : cursor.at + j - 1 \in DOMAIN chunks
      BY <3>1 DEF Holds
    <3>4. k \notin DOMAIN chunks
      BY <1>1, <1>7, <2>5, <2>9 DEF ChunksFit
    <3>5. QED BY <3>2, <3>3, <3>4
  <2>13. CallFits'
    BY <1>1, <1>4, <2>3, <2>4, <2>5 DEF CallFits, Dirty, Idle
  <2>14. SavedFits'
    BY <1>1, <1>4, <2>3, <2>4, <2>5 DEF SavedFits, Dirty
  <2>15. QED BY <2>7, <2>8, <2>10, <2>11, <2>12, <2>13, <2>14 DEF Inv
<1>10. CASE k * ChunkSize < length
  <2>1. Took(r, k, o) /\ k \in DOMAIN chunks
    BY <1>2, <1>6, <1>7, <1>10 DEF Loaded
  <2>2. End = length /\ AllWhole
    BY <1>5, <1>10
  <2>3. /\ Holds(r.cursor, failures') /\ r.fails \in {0, 1} /\ failures' \in Nat
    BY <1>2, <1>4, <2>1 DEF Took
  <2>4. cursor' \in CursorType /\ cursor' # None
    BY <1>4, <2>3, NoneAssumption DEF Holds
  <2>5. Holds(cursor, failures)'
    BY <1>4, <2>3 DEF Holds
  <2>6. CASE r.ok
    <3>1. page' = NewPage(chunks[k], o) /\ failures' = failures /\ cursor'.at = k + 1 /\ call' = call
      BY <1>2, <1>4, <1>8, <2>1, <2>6 DEF Took
    <3>2. /\ page' \in PageType /\ page' # None
          /\ page'.data = chunks[k] /\ page'.offset = o /\ page'.dirty = FALSE
      BY <1>2, <1>3, <2>1, <3>1, PagesAreTyped
    <3>3. End' = End
      BY <1>4, <3>1 DEF End
    <3>4. GridFSTypeOK'
      BY <1>1, <1>2, <1>3, <1>4, <2>1, <2>4, <3>1, <3>2, Sizes DEF GridFSTypeOK
    <3>5. FailsWithCause'
      BY <1>7, <3>1 DEF FailsWithCause
    <3>6. AllWhole'
      BY <1>4, <2>2, <3>3, StaysWhole
    <3>7. PageFits'
      <4>1. Len(chunks[k]) = Extent(k)
        BY <1>3, <1>10, <2>2 DEF AllWhole
      <4>2. Extent(n)' = Extent(k)
        BY <1>4, <3>3 DEF Extent
      <4>3. QED BY <1>3, <1>4, <2>1, <3>2, <4>1, <4>2 DEF PageFits
    <3>8. CursorFits'
      <4>1. cursor'.batch \in Seq([n: Nat, data: Bytes])
        BY <2>4 DEF CursorType
      <4>2. \A j \in DOMAIN cursor'.batch : j \in Nat /\ j >= 1
        BY <4>1
      <4>3. \A j \in DOMAIN cursor'.batch : cursor'.at + j - 1 # n'
        BY <1>3, <1>4, <3>1, <4>2
      <4>4. QED BY <2>5, <4>3 DEF CursorFits
    <3>9. CallFits'
      <4>1. call.pc = "extending" => pos # call.target
        BY <1>1 DEF CallFits, Dirty, MayLoad
      <4>2. QED BY <1>1, <1>4, <3>1, <3>2, <4>1 DEF CallFits, Dirty, Idle
    <3>10. SavedFits'
      <4>1. page # None => ~(length <= n * ChunkSize + Len(page.data))
        <5> SUFFICES ASSUME page # None PROVE ~(length <= n * ChunkSize + Len(page.data))
          OBVIOUS
        <5>1. call.pc = "reading" /\ Gives = 0 /\ call.want # 0 /\ length # pos
          BY DEF MayLoad
        <5>2. pos < length
          BY <1>1, <1>2, <5>1 DEF CallFits
        <5>3. pos = n * ChunkSize + ChunkSize /\ Len(page.data) = ChunkSize
          BY <1>1, <2>2, <5>1, <5>2, PageIsPassed
        <5>4. QED BY <1>2, <5>2, <5>3, Sizes
      <4>2. QED BY <1>1, <1>4, <3>1, <3>2, <4>1 DEF SavedFits, Dirty
    <3>11. QED BY <3>4, <3>5, <3>6, <3>7, <3>8, <3>9, <3>10, WholeChunksFit, PTL DEF Inv
  <2>7. CASE ~r.ok
    <3>1. /\ page' = None /\ call' = [NewCall EXCEPT !.failed = TRUE]
          /\ failures' = 0 => ~cursor'.open /\ cursor'.at = k /\ cursor'.last = k
      BY <1>4, <2>1, <2>7 DEF Took, Fails
    <3>2. call' \in CallType /\ call'.pc = "idle" /\ call'.failed = TRUE
      BY <3>1, CallsAreTyped
    <3>3. End' = End
      BY <1>4, <2>2, <3>2 DEF End
    <3>4. GridFSTypeOK'
      BY <1>1, <1>2, <1>3, <1>4, <2>3, <2>4, <3>1, <3>2 DEF GridFSTypeOK
    <3>5. FailsWithCause'
      BY <1>4, <1>10, <2>4, <3>1 DEF FailsWithCause
    <3>6. AllWhole'
      BY <1>4, <2>2, <3>3, StaysWhole
    <3>7. PageFits' /\ CursorFits'
      BY <2>5, <3>1 DEF PageFits, CursorFits
    <3>8. CallFits'
      BY <3>1, <3>2 DEF CallFits, Dirty, Idle
    <3>9. SavedFits'
      <4>1. page # None => ~(length <= n * ChunkSize + Len(page.data)) /\ call.pc # "writing"
        <5> SUFFICES ASSUME page # None
                     PROVE  ~(length <= n * ChunkSize + Len(page.data)) /\ call.pc # "writing"
          OBVIOUS
        <5>1. call.pc = "reading" /\ Gives = 0 /\ call.want # 0 /\ length # pos
          BY DEF MayLoad
        <5>2. pos < length
          BY <1>1, <1>2, <5>1 DEF CallFits
        <5>3. pos = n * ChunkSize + ChunkSize /\ Len(page.data) = ChunkSize
          BY <1>1, <2>2, <5>1, <5>2, PageIsPassed
        <5>4. QED BY <1>2, <5>1, <5>2, <5>3, Sizes
      <4>2. page = None => ~(pos = length /\ pos % ChunkSize = 0)
        <5>1. pos % ChunkSize = o
          BY <1>2, <1>3, Sizes, QuotientIsUnique, SMTT(30)
        <5>2. QED BY <1>2, <1>3, <1>7, <1>10, <5>1
      <4>3. saved = length \/ (saved = None /\ length = 0 /\ isDirty)
        BY <1>1, <4>1, <4>2 DEF SavedFits, Dirty
      <4>4. QED BY <1>4, <4>3 DEF SavedFits
    <3>10. QED BY <3>4, <3>5, <3>6, <3>7, <3>8, <3>9, WholeChunksFit, PTL DEF Inv
  <2>8. QED BY <2>6, <2>7
<1>11. QED BY <1>2, <1>7, <1>9, <1>10

-----------------------------------------------------------------------------
(* Seeking.                                                                *)

\* A flush stores the page, or leaves the server alone.
LEMMA FlushedPage ==
    ASSUME GridFSTypeOK, NEW f \in Flush, AfterFlush(f)
    PROVE  /\ f.chunk = TRUE => PageStored
           /\ f.chunk = FALSE => chunks' = chunks
           /\ f.chunk \in BOOLEAN /\ f.doc \in BOOLEAN
           /\ f.chunk = FALSE => f.doc = TRUE
           /\ isDirty = FALSE => f.doc = TRUE
           /\ failures' \in Nat /\ failures <= failures'
           /\ ~Flushed(f) => failures' # 0
           /\ saved' = length \/ saved' = saved
           /\ Flushed(f) /\ isDirty => saved' = length
           /\ ~(Flushed(f) /\ isDirty) => saved' = saved
<1>1. /\ f \in [chunk: Updates, doc: IF isDirty THEN Updates ELSE {TRUE}]
      /\ f.chunk \/ f.doc
  BY DEF Flush
<1>2. Updates \subseteq BOOLEAN
  BY DEF Updates
<1>3. PICK c \in BOOLEAN, d \in BOOLEAN : c = f.chunk /\ d = f.doc
  BY <1>1, <1>2
<1>4. f.chunk = c /\ f.doc = d
  BY <1>3
<1>5. isDirty = FALSE => d = TRUE
  BY <1>1, <1>3
<1>6. ~(c = FALSE /\ d = FALSE)
  BY <1>1, <1>3
<1>7. failures \in Nat /\ isDirty \in BOOLEAN
  BY DEF GridFSTypeOK
<1>8. /\ c = TRUE => PageStored
      /\ c = FALSE => chunks' = chunks
  BY <1>4 DEF AfterFlush, PageStored
<1>9. /\ saved' = IF c /\ d /\ isDirty THEN length ELSE saved
      /\ failures' = failures + (IF c /\ d THEN 0 ELSE 1)
  BY <1>4 DEF AfterFlush, Flushed
<1>10. failures' \in Nat /\ failures <= failures' /\ (~(c /\ d) => failures' # 0)
  BY <1>7, <1>9
<1>11. QED BY <1>4, <1>5, <1>6, <1>7, <1>8, <1>9, <1>10 DEF Flushed

\* The page at another position: it is kept for a place in its chunk, and flushed or dropped
\* for any other.
LEMMA SeekPageFits ==
    ASSUME Inv, ~broken, call.pc \in {"idle", "writing"}, NEW offset \in Nat, SeekPage(offset),
           pos' = offset, n' = offset \div ChunkSize, length' = length, cursor' = cursor,
           call' \in CallType, ~call'.failed, End' = length,
           call.pc = "writing" => pos # length
    PROVE  /\ GridFSTypeOK' /\ FailsWithCause'
           /\ ~broken' => PageFits' /\ ChunksFit' /\ CursorFits' /\ SavedFits' /\ (Dirty' => Dirty /\ isDirty' = isDirty)
<1>1. GridFSTypeOK /\ PageFits /\ ChunksFit /\ CursorFits /\ CallFits /\ SavedFits
  BY DEF Inv
<1>2. /\ pos \in Nat /\ n \in Nat /\ length \in Nat /\ failures \in Nat /\ broken = FALSE /\ isDirty \in BOOLEAN
      /\ \A i \in DOMAIN chunks : i \in Nat /\ chunks[i] \in Bytes /\ Len(chunks[i]) <= ChunkSize
  BY <1>1 DEF GridFSTypeOK
<1>3. End = length /\ End' = End
  BY DEF End
<1>4. n' \in Nat /\ offset % ChunkSize \in Nat /\ offset = n' * ChunkSize + (offset % ChunkSize)
      /\ offset % ChunkSize < ChunkSize
  BY Division, Sizes
<1> DEFINE o == offset % ChunkSize
<1> HIDE DEF o
<1>5. FailsWithCause'
  BY DEF FailsWithCause
<1>6. saved = length \/ (saved = None /\ length = 0 /\ isDirty) \/ (Dirty /\ isDirty /\ length <= n * ChunkSize + Len(page.data))
  BY <1>1 DEF SavedFits
<1>7. CASE offset \div ChunkSize = n
  <2>1. /\ page' = IF page = None THEN None ELSE [page EXCEPT !.offset = o]
        /\ UNCHANGED <<isDirty, chunks, saved, failures, broken>>
        /\ n' = n
    BY <1>7 DEF SeekPage, o
  <2>2. page = None => page' = None
    BY <2>1
  <2>3. page # None => /\ page' \in PageType /\ page' # None /\ page'.data = page.data
                       /\ page'.offset = o /\ page'.dirty = page.dirty
    <3> SUFFICES ASSUME page # None
                 PROVE  /\ page' \in PageType /\ page'.data = page.data
                        /\ page'.offset = o /\ page'.dirty = page.dirty
      BY NoneAssumption
    <3>1. page \in PageType /\ page' = [page EXCEPT !.offset = o]
      BY <1>1, <2>1 DEF GridFSTypeOK
    <3>2. QED BY <1>4, <3>1 DEF PageType, o
  <2>4. GridFSTypeOK'
    <3>1. page' # None => page' \in PageType /\ Len(page'.data) <= ChunkSize /\ page'.offset <= ChunkSize
      <4>1. o \in Nat /\ o <= ChunkSize
        BY <1>4, Sizes DEF o
      <4>2. page # None => Len(page.data) <= ChunkSize
        BY <1>1 DEF GridFSTypeOK
      <4>3. QED BY <2>2, <2>3, <4>1, <4>2
    <3>2. QED BY <1>1, <1>2, <1>4, <2>1, <3>1 DEF GridFSTypeOK
  <2>5. Dirty' <=> Dirty
    BY <2>2, <2>3 DEF Dirty
  <2>6. PageFits'
    <3>1. Extent(n)' = Extent(n)
      BY <1>3, <2>1 DEF Extent
    <3>2. QED BY <1>1, <1>3, <1>4, <2>1, <2>2, <2>3, <3>1 DEF PageFits, o
  <2>7. ChunksFit'
    BY <1>1, <1>3, <2>1, <2>5, ChunksStayFit
  <2>8. CursorFits'
    BY <1>1, <1>2, <2>1, <2>2, CursorStaysFit
  <2>9. SavedFits'
    BY <1>6, <2>1, <2>3, <2>5 DEF SavedFits, Dirty
  <2>10. QED BY <1>5, <2>1, <2>4, <2>5, <2>6, <2>7, <2>8, <2>9
<1>8. CASE offset \div ChunkSize # n /\ Dirty
  <2>1. PICK f \in Flush :
            /\ AfterFlush(f)
            /\ page' = IF f.chunk THEN None ELSE page
            /\ isDirty' = (isDirty /\ ~f.chunk)
            /\ broken' = (broken \/ ~Flushed(f))
    BY <1>8 DEF SeekPage, Dirty
  <2>2. page # None /\ n * ChunkSize < End
    BY <1>1, <1>8 DEF Dirty, PageFits
  <2>3. /\ f.chunk = TRUE => PageStored
        /\ f.chunk = FALSE => chunks' = chunks
        /\ f.chunk \in BOOLEAN /\ failures' \in Nat /\ failures <= failures'
        /\ saved' = length \/ saved' = saved
        /\ Flushed(f) /\ isDirty => saved' = length
        /\ ~(Flushed(f) /\ isDirty) => saved' = saved
    BY <1>1, <2>1, FlushedPage
  <2>4. PageStored => AllWhole' /\ (\A i \in DOMAIN chunks' : i \in Nat /\ chunks'[i] \in Bytes /\ Len(chunks'[i]) <= ChunkSize)
                      /\ (\A k \in DOMAIN chunks :
                             k \in DOMAIN chunks' /\ (chunks'[k] = chunks[k] \/ (page # None /\ k = n)))
    BY <1>1, <1>3, <2>2, PageIsStored
  <2>5. GridFSTypeOK'
    BY <1>1, <1>2, <1>4, <2>1, <2>3, <2>4 DEF GridFSTypeOK
  <2>6. ASSUME ~broken'
        PROVE  PageFits' /\ ChunksFit' /\ CursorFits' /\ SavedFits' /\ ~Dirty'
    <3>1. Flushed(f) /\ f.chunk = TRUE /\ page' = None /\ isDirty' = FALSE
      BY <1>2, <2>1, <2>3, <2>6 DEF Flushed
    <3>2. PageFits' /\ ~Dirty'
      BY <3>1 DEF PageFits, Dirty
    <3>3. ChunksFit'
      BY <2>3, <2>4, <3>1, WholeChunksFit, PTL
    <3>4. CursorFits'
      BY <1>1, <1>2, <2>3, <2>4, <3>1, CursorStaysFit
    <3>5. saved' = length'
      BY <1>6, <2>3, <3>1
    <3>6. QED BY <3>2, <3>3, <3>4, <3>5 DEF SavedFits
  <2>7. QED BY <1>5, <2>5, <2>6
<1>9. CASE offset \div ChunkSize # n /\ ~Dirty
  <2>1. page' = None /\ UNCHANGED <<isDirty, chunks, saved, failures, broken>>
    BY <1>9 DEF SeekPage, Dirty
  <2>2. GridFSTypeOK'
    BY <1>1, <1>2, <1>4, <2>1 DEF GridFSTypeOK
  <2>3. PageFits' /\ ~Dirty'
    BY <2>1 DEF PageFits, Dirty
  <2>4. ChunksFit'
    BY <1>1, <1>3, <1>9, <2>1, ChunksStayFit
  <2>5. CursorFits'
    BY <1>1, <1>2, <2>1, CursorStaysFit
  <2>6. SavedFits'
    BY <1>6, <1>9, <2>1 DEF SavedFits
  <2>7. QED BY <1>5, <2>2, <2>3, <2>4, <2>5, <2>6
<1>10. QED BY <1>7, <1>8, <1>9

LEMMA SeekKeepsInv ==
    ASSUME Inv, ~broken, NEW offset \in Nat, Seek(offset)
    PROVE  Inv'
<1>1. /\ call.pc = "idle" /\ SeekPage(offset)
      /\ pos' = offset /\ n' = offset \div ChunkSize /\ length' = length /\ cursor' = cursor
      /\ call' = NewCall
  BY DEF Seek, Idle
<1>2. call' \in CallType /\ call'.pc = "idle" /\ ~call'.failed
  BY <1>1, CallsAreTyped
<1>3. End' = length
  BY <1>1, <1>2 DEF End
<1>4. /\ GridFSTypeOK' /\ FailsWithCause'
      /\ ~broken' => PageFits' /\ ChunksFit' /\ CursorFits' /\ SavedFits' /\ (Dirty' => Dirty /\ isDirty' = isDirty)
  BY <1>1, <1>2, <1>3, SeekPageFits
<1>5. ~broken' => CallFits'
  <2>1. CallFits
    BY DEF Inv
  <2>2. Dirty => isDirty
    BY <1>1, <2>1 DEF CallFits
  <2>3. QED BY <1>2, <1>4, <2>2 DEF CallFits, Idle
<1>6. QED BY <1>4, <1>5 DEF Inv

LEMMA BeginExtendKeepsInv ==
    ASSUME Inv, ~broken, BeginExtend
    PROVE  Inv'
<1>1. /\ call.pc = "writing" /\ SeekPage(length) /\ pos > length
      /\ pos' = length /\ n' = length \div ChunkSize /\ length' = length /\ cursor' = cursor
      /\ call' = [call EXCEPT !.pc = "extending", !.target = pos]
  BY DEF BeginExtend
<1>2. GridFSTypeOK /\ CallFits
  BY DEF Inv
<1>3. length \in Nat /\ pos \in Nat /\ call \in CallType
  BY <1>2 DEF GridFSTypeOK
<1>4. /\ call' \in CallType /\ call'.pc = "extending" /\ call'.failed = call.failed
      /\ call'.target = pos /\ call'.data = call.data
  BY <1>1, <1>3 DEF CallType
<1>5. ~call.failed /\ call.data # <<>>
  BY <1>1, <1>2 DEF CallFits, Idle
<1>6. End' = length
  BY <1>1, <1>4 DEF End
<1>7. pos # length
  BY <1>1, <1>3
<1>8. /\ GridFSTypeOK' /\ FailsWithCause'
      /\ ~broken' => PageFits' /\ ChunksFit' /\ CursorFits' /\ SavedFits' /\ (Dirty' => Dirty /\ isDirty' = isDirty)
  BY <1>1, <1>3, <1>4, <1>5, <1>6, <1>7, SeekPageFits
<1>9. CallFits'
  BY <1>1, <1>3, <1>4, <1>5 DEF CallFits, Idle
<1>10. QED BY <1>8, <1>9 DEF Inv

-----------------------------------------------------------------------------
(* Steps that change the call only.                                        *)

\* Page, cursor and chunks are as before a step of the call.
LEMMA OnlyCallChanges ==
    ASSUME Inv, ~broken, UNCHANGED <<file, chunks, saved, failures, broken>>,
           call.pc # "extending", call'.pc # "extending", call' \in CallType, ~call'.failed,
           call'.pc \in {"reading"} => pos <= length,
           call'.pc \in {"writing"} => call'.data # <<>>,
           Dirty => isDirty, call.pc # "writing"
    PROVE  Inv'
<1>1. GridFSTypeOK /\ PageFits /\ ChunksFit /\ CursorFits /\ CallFits /\ SavedFits
  BY DEF Inv
<1>2. /\ pos' = pos /\ n' = n /\ length' = length /\ isDirty' = isDirty /\ page' = page /\ cursor' = cursor
      /\ chunks' = chunks /\ saved' = saved /\ failures' = failures /\ broken' = broken
  BY DEF file
<1>3. End' = End
  BY <1>2 DEF End
<1>4. GridFSTypeOK'
  BY <1>1, <1>2 DEF GridFSTypeOK
<1>5. FailsWithCause'
  BY DEF FailsWithCause
<1>6. PageFits'
  <2>1. Extent(n)' = Extent(n)
    BY <1>2, <1>3 DEF Extent
  <2>2. QED BY <1>1, <1>2, <1>3, <2>1 DEF PageFits
<1>7. ChunksFit'
  BY <1>1, <1>2, <1>3, ChunksStayFit DEF Dirty
<1>8. CursorFits'
  BY <1>1, <1>2, CursorStaysFit DEF GridFSTypeOK
<1>9. CallFits'
  BY <1>1, <1>2 DEF CallFits, Dirty, Idle
<1>10. SavedFits'
  BY <1>1, <1>2 DEF SavedFits, Dirty
<1>11. QED BY <1>4, <1>5, <1>6, <1>7, <1>8, <1>9, <1>10 DEF Inv

LEMMA BeginReadKeepsInv ==
    ASSUME Inv, ~broken, NEW want \in Nat, NEW min \in Nat, BeginRead(want, min)
    PROVE  Inv'
<1>1. /\ call.pc = "idle" /\ UNCHANGED <<file, chunks, saved, failures, broken>>
      /\ call' = IF pos >= length THEN NewCall
                 ELSE [NewCall EXCEPT !.pc = "reading", !.want = want, !.min = min]
  BY DEF BeginRead, Idle
<1>2. pos \in Nat /\ length \in Nat /\ (Dirty => isDirty)
  BY <1>1 DEF Inv, GridFSTypeOK, CallFits
<1>3. /\ call' \in CallType /\ ~call'.failed /\ call'.pc \in {"idle", "reading"}
      /\ call'.pc = "reading" => pos < length
  <2>1. CASE pos >= length
    BY <1>1, <2>1, CallsAreTyped
  <2>2. CASE ~(pos >= length)
    <3>1. call' = [NewCall EXCEPT !.pc = "reading", !.want = want, !.min = min]
      BY <1>1, <2>2
    <3>2. call' \in CallType /\ ~call'.failed /\ call'.pc = "reading"
      BY <3>1, CallsAreTyped DEF CallType
    <3>3. QED BY <1>2, <2>2, <3>2
  <2>3. QED BY <2>1, <2>2
<1>4. QED BY <1>1, <1>2, <1>3, OnlyCallChanges

LEMMA BeginWriteKeepsInv ==
    ASSUME Inv, ~broken, NEW data \in Writes, BeginWrite(data)
    PROVE  Inv'
<1>1. /\ call.pc = "idle" /\ UNCHANGED <<file, chunks, saved, failures, broken>>
      /\ call' = [NewCall EXCEPT !.pc = "writing", !.data = data]
  BY DEF BeginWrite, Idle
<1>2. Dirty => isDirty
  BY <1>1 DEF Inv, CallFits
<1>3. data \in Bytes /\ data # <<>>
  <2>1. data \in Seq(1 .. 8) /\ data # <<>>
    BY GridFSAssumption
  <2>2. QED BY <2>1 DEF Bytes
<1>4. call' \in CallType /\ ~call'.failed /\ call'.pc = "writing" /\ call'.data = data
  BY <1>1, <1>3, CallsAreTyped DEF CallType
<1>5. QED BY <1>1, <1>2, <1>3, <1>4, OnlyCallChanges

LEMMA ReadEndsKeepsInv ==
    ASSUME Inv, ~broken, ReadEnds
    PROVE  Inv'
<1>1. CASE call.want = 0 \/ length = pos \/ Len(call.got) >= call.min
  <2>1. /\ call.pc = "reading" /\ call' = NewCall /\ UNCHANGED <<file, chunks, saved, failures, broken>>
    BY <1>1 DEF ReadEnds, Returns
  <2>2. Dirty => isDirty
    BY <2>1 DEF Inv, CallFits
  <2>3. call' \in CallType /\ ~call'.failed /\ call'.pc = "idle"
    BY <2>1, CallsAreTyped
  <2>4. QED BY <2>1, <2>2, <2>3, OnlyCallChanges
<1>2. CASE ~(call.want = 0 \/ length = pos \/ Len(call.got) >= call.min)
  <2>1. call.pc = "reading" /\ Gives = 0 /\ call.want # 0 /\ length # pos /\ Loads("reading")
    BY <1>2 DEF ReadEnds
  <2>2. Loads(call.pc) /\ MayLoad
    BY <2>1 DEF MayLoad
  <2>3. QED BY <2>2, LoadsKeepsInv
<1>3. QED BY <1>1, <1>2

LEMMA LoadKeepsInv ==
    ASSUME Inv, ~broken, LoadToRead \/ LoadToWrite \/ LoadToExtend
    PROVE  Inv'
<1>1. Loads(call.pc) /\ MayLoad
  BY DEF LoadToRead, LoadToWrite, LoadToExtend, MayLoad
<1>2. QED BY <1>1, LoadsKeepsInv

LEMMA ReadPageKeepsInv ==
    ASSUME Inv, ~broken, ReadPage
    PROVE  Inv'
<1>1. GridFSTypeOK /\ PageFits /\ ChunksFit /\ CursorFits /\ CallFits /\ SavedFits
  BY DEF Inv
<1>2. /\ call.pc = "reading" /\ page # None /\ page.offset <= Len(page.data) /\ Gives > 0
      /\ page' = [page EXCEPT !.offset = @ + Gives]
      /\ pos' = pos + Gives
      /\ call' = [call EXCEPT !.got = @ \o SubSeq(page.data, page.offset + 1, page.offset + Gives),
                              !.want = @ - Gives]
      /\ UNCHANGED <<n, length, isDirty, cursor, chunks, saved, failures, broken>>
  BY DEF ReadPage
<1>3. /\ pos \in Nat /\ n \in Nat /\ length \in Nat /\ failures \in Nat /\ page \in PageType /\ call \in CallType
  BY <1>1, <1>2 DEF GridFSTypeOK
<1>4. PICK l \in Nat : l = Len(page.data) /\ l <= ChunkSize
  BY <1>1, <1>2 DEF GridFSTypeOK, PageType, Bytes
<1>5. page.offset \in Nat /\ call.want \in Nat /\ page.data \in Bytes /\ call.got \in Bytes
  BY <1>3 DEF PageType, CallType
<1>6. Gives \in Nat /\ Gives <= call.want /\ page.offset + Gives <= l
  <2>1. Gives = IF call.want <= l - page.offset THEN call.want ELSE l - page.offset
    BY <1>4, <1>5, MinOfTwo DEF Gives
  <2>2. QED BY <1>2, <1>4, <1>5, <2>1
<1>7. /\ page' \in PageType /\ page' # None
      /\ page'.data = page.data /\ page'.offset = page.offset + Gives /\ page'.dirty = page.dirty
  <2>1. page.offset + Gives \in Nat
    BY <1>5, <1>6
  <2>2. /\ page' \in PageType
        /\ page'.data = page.data /\ page'.offset = page.offset + Gives /\ page'.dirty = page.dirty
    BY <1>2, <1>3, <2>1 DEF PageType
  <2>3. QED BY <2>2, NoneAssumption
<1>8. call' \in CallType /\ call'.pc = "reading" /\ call'.failed = call.failed
  <2> DEFINE more == SubSeq(page.data, page.offset + 1, page.offset + Gives)
  <2>1. more \in Bytes
    BY <1>4, <1>5, <1>6, SMTT(30) DEF Bytes
  <2> HIDE DEF more
  <2>2. call.got \o more \in Bytes /\ call.want - Gives \in Nat
    BY <1>5, <1>6, <2>1 DEF Bytes
  <2>3. call' = [call EXCEPT !.got = call.got \o more, !.want = call.want - Gives]
    BY <1>2 DEF more
  <2>4. QED BY <1>2, <1>3, <2>2, <2>3 DEF CallType
<1>9. End = length /\ End' = End
  BY <1>2, <1>8 DEF End
<1>10. GridFSTypeOK'
  <2>1. Len(page'.data) <= ChunkSize /\ page'.offset <= ChunkSize /\ pos' \in Nat
    BY <1>2, <1>3, <1>4, <1>5, <1>6, <1>7, Sizes, SMTT(30)
  <2>2. QED BY <1>1, <1>2, <1>3, <1>7, <1>8, <2>1 DEF GridFSTypeOK
<1>11. PageFits'
  <2>1. Extent(n)' = Extent(n)
    BY <1>2, <1>9 DEF Extent
  <2>2. n * ChunkSize \in Nat
    BY <1>3, Sizes
  <2>3. QED BY <1>1, <1>2, <1>3, <1>5, <1>6, <1>7, <1>9, <2>1, <2>2 DEF PageFits
<1>12. ChunksFit'
  BY <1>1, <1>2, <1>7, <1>9, ChunksStayFit DEF Dirty
<1>13. CursorFits'
  BY <1>1, <1>2, <1>3, CursorStaysFit
<1>14. pos' <= length
  <2>1. n * ChunkSize \in Nat
    BY <1>3, Sizes
  <2>2. l = Extent(n) /\ n * ChunkSize + page.offset = pos
    BY <1>1, <1>2, <1>4 DEF PageFits
  <2>3. n * ChunkSize + l <= length
    BY <1>2, <1>3, <1>5, <1>6, <1>9, <2>1, <2>2 DEF Extent
  <2>4. QED BY <1>2, <1>3, <1>5, <1>6, <2>1, <2>2, <2>3
<1>15. CallFits'
  BY <1>1, <1>2, <1>7, <1>8, <1>14 DEF CallFits, Dirty, Idle
<1>16. SavedFits'
  BY <1>1, <1>2, <1>7, <1>8 DEF SavedFits, Dirty
<1>17. FailsWithCause'
  BY <1>1, <1>2, <1>8 DEF FailsWithCause, CallFits, Idle
<1>18. QED BY <1>10, <1>11, <1>12, <1>13, <1>15, <1>16, <1>17 DEF Inv

-----------------------------------------------------------------------------
(* Bytes in a page.                                                        *)

LEMMA PartOfSequence ==
    ASSUME NEW T, NEW s \in Seq(T), NEW a \in Nat
    PROVE  /\ SubSeq(s, a + 1, Len(s)) \in Seq(T)
           /\ Len(SubSeq(s, a + 1, Len(s))) = IF a <= Len(s) THEN Len(s) - a ELSE 0
           /\ \A i \in 1 .. Len(s) - a : SubSeq(s, a + 1, Len(s))[i] = s[a + i]
  OBVIOUS

\* The bytes of a page with others from its offset on.
LEMMA OverlaidPage ==
    ASSUME NEW p \in PageType, NEW src \in Bytes, NEW a \in Nat, a = p.offset + Len(src)
    PROVE  /\ Overlaid(p, src) \in PageType
           /\ Overlaid(p, src).offset = a /\ Overlaid(p, src).dirty = TRUE
           /\ Len(Overlaid(p, src).data) = IF Len(p.data) <= a THEN a ELSE Len(p.data)
           /\ \A i \in 1 .. p.offset : i <= Len(p.data) => Overlaid(p, src).data[i] = p.data[i]
           /\ \A i \in 1 .. Len(src) : Overlaid(p, src).data[p.offset + i] = src[i]
           /\ \A i \in 1 .. Len(p.data) : i > a => Overlaid(p, src).data[i] = p.data[i]
<1> DEFINE head == [i \in 1 .. p.offset |-> IF i <= Len(p.data) THEN p.data[i] ELSE 9]
           tail == SubSeq(p.data, a + 1, Len(p.data))
           q == Overlaid(p, src)
<1>1. p.data \in Bytes /\ p.offset \in Nat
  BY DEF PageType
<1>2. PICK l \in Nat, m \in Nat, o \in Nat : l = Len(p.data) /\ m = Len(src) /\ o = p.offset
  BY <1>1 DEF Bytes
<1>3. head \in Bytes /\ Len(head) = o /\ \A i \in 1 .. o : i <= l => head[i] = p.data[i]
  <2>1. \A i \in 1 .. o : (IF i <= l THEN p.data[i] ELSE 9) \in 0 .. 9
    BY <1>1, <1>2 DEF Bytes
  <2>2. head = [i \in 1 .. o |-> IF i <= l THEN p.data[i] ELSE 9]
    BY <1>2
  <2> HIDE DEF head
  <2>3. DOMAIN head = 1 .. o /\ \A i \in 1 .. o : head[i] \in 0 .. 9 /\ (i <= l => head[i] = p.data[i])
    BY <2>1, <2>2
  <2>4. head = [i \in 1 .. o |-> head[i]]
    BY <2>2
  <2>5. head \in Seq(0 .. 9) /\ Len(head) = o
    BY <2>3, <2>4
  <2>6. QED BY <2>3, <2>5 DEF Bytes
<1>4. /\ tail \in Bytes /\ Len(tail) = IF a <= l THEN l - a ELSE 0
      /\ \A i \in 1 .. l - a : tail[i] = p.data[a + i]
  BY <1>1, <1>2, PartOfSequence DEF Bytes
<1>5. /\ q.data = head \o src \o tail /\ q.offset = a /\ q.dirty = TRUE
      /\ head \o src \o tail \in Bytes => q \in PageType
  <2>1. q = [p EXCEPT !.data = head \o src \o tail, !.offset = a, !.dirty = TRUE]
    BY DEF Overlaid
  <2> HIDE DEF head, tail, q
  <2>2. QED BY <2>1 DEF PageType
<1> HIDE DEF head, tail, q
<1>6. /\ head \o src \in Bytes /\ Len(head \o src) = a
      /\ \A i \in 1 .. o : (head \o src)[i] = head[i]
      /\ \A i \in 1 .. m : (head \o src)[o + i] = src[i]
  <2>1. head \o src \in Bytes
    BY <1>3, JoinedSequences DEF Bytes
  <2>2. Len(head \o src) = Len(head) + Len(src)
    BY <1>3, JoinedSequences DEF Bytes
  <2>3. \A i \in 1 .. Len(head) : (head \o src)[i] = head[i]
    BY <1>3, JoinedSequences DEF Bytes
  <2>4. \A i \in 1 .. Len(src) : (head \o src)[Len(head) + i] = src[i]
    BY <1>3, JoinedSequences DEF Bytes
  <2>5. QED BY <1>2, <1>3, <2>1, <2>2, <2>3, <2>4
<1> DEFINE front == head \o src
<1> HIDE DEF front
<1>7. /\ front \o tail \in Bytes /\ Len(front \o tail) = a + Len(tail)
      /\ \A i \in 1 .. a : (front \o tail)[i] = front[i]
      /\ \A i \in 1 .. Len(tail) : (front \o tail)[a + i] = tail[i]
  <2>1. front \in Bytes /\ Len(front) = a
    BY <1>6 DEF front
  <2>2. front \o tail \in Bytes
    BY <1>4, <2>1, JoinedSequences DEF Bytes
  <2>3. Len(front \o tail) = Len(front) + Len(tail)
    BY <1>4, <2>1, JoinedSequences DEF Bytes
  <2>4. \A i \in 1 .. Len(front) : (front \o tail)[i] = front[i]
    BY <1>4, <2>1, JoinedSequences DEF Bytes
  <2>5. \A i \in 1 .. Len(tail) : (front \o tail)[Len(front) + i] = tail[i]
    BY <1>4, <2>1, JoinedSequences, SMTT(30) DEF Bytes
  <2>6. QED BY <2>1, <2>2, <2>3, <2>4, <2>5
<1>8. q.data = front \o tail
  BY <1>5 DEF front
<1>9. q \in PageType /\ q.offset = a /\ q.dirty = TRUE
  BY <1>5, <1>7 DEF front
<1>10. Len(q.data) = IF l <= a THEN a ELSE l
  BY <1>2, <1>4, <1>7, <1>8, SMTT(30)
<1>11. \A i \in 1 .. o : i <= l => q.data[i] = p.data[i]
  <2> SUFFICES ASSUME NEW i \in 1 .. o, i <= l PROVE q.data[i] = p.data[i]
    OBVIOUS
  <2>1. i \in 1 .. a
    BY <1>2
  <2>2. q.data[i] = front[i]
    BY <1>7, <1>8, <2>1
  <2>3. QED BY <1>3, <1>6, <2>2 DEF front
<1>12. \A i \in 1 .. m : q.data[o + i] = src[i]
  <2> SUFFICES ASSUME NEW i \in 1 .. m PROVE q.data[o + i] = src[i]
    OBVIOUS
  <2>1. o + i \in 1 .. a
    BY <1>2
  <2>2. q.data[o + i] = front[o + i]
    BY <1>7, <1>8, <2>1
  <2>3. QED BY <1>6, <2>2 DEF front
<1>13. \A i \in 1 .. l : i > a => q.data[i] = p.data[i]
  <2> SUFFICES ASSUME NEW i \in 1 .. l, i > a PROVE q.data[i] = p.data[i]
    OBVIOUS
  <2>1. i - a \in 1 .. l - a /\ i - a \in 1 .. Len(tail) /\ a + (i - a) = i
    <3>1. a <= l /\ Len(tail) = l - a
      BY <1>4
    <3>2. QED BY <3>1
  <2>2. q.data[a + (i - a)] = tail[i - a]
    BY <1>7, <1>8, <2>1
  <2>3. tail[i - a] = p.data[a + (i - a)]
    BY <1>4, <2>1
  <2>4. QED BY <2>1, <2>2, <2>3
<1>14. QED BY <1>2, <1>9, <1>10, <1>11, <1>12, <1>13 DEF q

\* A page that gets r bytes at its offset has what its chunk is to have, and is dirty.
LEMMA PageGrows ==
    ASSUME GridFSTypeOK, PageFits, ChunksFit, page # None, pos <= End,
           NEW r \in Nat, r >= 1, page.offset + r <= ChunkSize,
           page' \in PageType, page'.offset = page.offset + r, page'.dirty,
           Len(page'.data) = IF Len(page.data) <= page.offset + r THEN page.offset + r ELSE Len(page.data),
           pos' = pos + r, End' = IF End <= pos + r THEN pos + r ELSE End,
           n' = n, chunks' = chunks
    PROVE  PageFits' /\ ChunksFit' /\ Dirty' /\ Len(page'.data) = Extent(n)'
<1>1. page' # None /\ Dirty'
  BY NoneAssumption DEF Dirty
<1>2. /\ pos \in Nat /\ n \in Nat /\ page.offset \in Nat
      /\ \A i \in DOMAIN chunks : i \in Nat
  BY DEF GridFSTypeOK, PageType
<1>3. PICK l \in Nat, o \in Nat, s \in Nat, e \in Nat :
          /\ l = Len(page.data) /\ o = page.offset /\ s = n * ChunkSize /\ e = End
          /\ l <= ChunkSize
  <2>1. Len(page.data) \in Nat /\ Len(page.data) <= ChunkSize
    BY DEF GridFSTypeOK, PageType, Bytes
  <2>2. n * ChunkSize \in Nat /\ End \in Nat
    BY <1>2, Sizes, EndIsNatural
  <2>3. QED BY <1>2, <2>1, <2>2
<1>4. PICK f \in Nat : f = End' /\ f = IF e <= pos + r THEN pos + r ELSE e
  BY <1>2, <1>3
<1>5. s + o = pos /\ l = Extent(n) /\ ChunkSize \in Nat
  BY <1>3, Sizes DEF PageFits
<1>6. l = IF e <= s THEN 0 ELSE IF e - s <= ChunkSize THEN e - s ELSE ChunkSize
  BY <1>3, <1>5 DEF Extent
<1>7. Extent(n)' = IF f <= s THEN 0 ELSE IF f - s <= ChunkSize THEN f - s ELSE ChunkSize
  BY <1>3, <1>4 DEF Extent
<1>8. Len(page'.data) = Extent(n)' /\ s < f
  <2>1. Len(page'.data) = IF l <= o + r THEN o + r ELSE l
    BY <1>3
  <2>2. s + o <= e /\ o + r <= ChunkSize /\ f = IF e <= s + o + r THEN s + o + r ELSE e
    BY <1>3, <1>4, <1>5
  <2>3. s < f
    BY <2>2
  <2>4. CASE e <= s + o + r
    BY <1>5, <1>6, <1>7, <2>1, <2>2, <2>3, <2>4
  <2>5. CASE ~(e <= s + o + r)
    <3>1. f = e /\ o + r < e - s /\ ~(e <= s) /\ ~(f <= s)
      BY <2>2, <2>5
    <3>2. l = Extent(n)' /\ o + r <= l
      BY <1>5, <1>6, <1>7, <2>2, <3>1
    <3>3. QED BY <2>1, <2>3, <3>2
  <2>6. QED BY <2>4, <2>5
<1>9. PageFits'
  <2>1. n' * ChunkSize + page'.offset = pos'
    BY <1>2, <1>3, <1>5, SMTT(30)
  <2>2. n' * ChunkSize < End'
    BY <1>3, <1>4, <1>8
  <2>3. Len(page'.data) = Extent(n)'
    BY <1>8
  <2>4. QED BY <2>1, <2>2, <2>3 DEF PageFits
<1>10. ChunksFit'
  <2>1. ASSUME NEW k \in DOMAIN chunks PROVE k * ChunkSize < f
    <3>1. k * ChunkSize < e /\ k * ChunkSize \in Nat
      BY <1>2, <1>3, Sizes DEF ChunksFit
    <3>2. QED BY <1>2, <1>3, <1>4, <3>1
  <2>2. ASSUME NEW k \in Nat, k * ChunkSize < f
        PROVE  \/ k \in DOMAIN chunks /\ Len(chunks[k]) = Extent(k)'
               \/ n = k /\ f <= k * ChunkSize + ChunkSize
    <3>1. k * ChunkSize \in Nat
      BY Sizes
    <3>2. Extent(k) = IF e <= k * ChunkSize THEN 0
                      ELSE IF e - k * ChunkSize <= ChunkSize THEN e - k * ChunkSize ELSE ChunkSize
      BY <1>3 DEF Extent
    <3>3. Extent(k)' = IF f <= k * ChunkSize THEN 0
                       ELSE IF f - k * ChunkSize <= ChunkSize THEN f - k * ChunkSize ELSE ChunkSize
      BY <1>4 DEF Extent
    <3>4. k * ChunkSize < e => \/ k \in DOMAIN chunks /\ Len(chunks[k]) = Extent(k)
                               \/ n = k /\ e <= k * ChunkSize + ChunkSize
      BY <1>3 DEF ChunksFit
    <3>5. CASE k < n
      <4>1. k * ChunkSize + ChunkSize <= s
        BY <1>2, <1>3, <3>5, Sizes, ProductsGrow
      <4> DEFINE x == k * ChunkSize
      <4> HIDE DEF x
      <4>2. x \in Nat /\ x + ChunkSize <= s /\ ChunkSize \in Nat \ {0}
        BY <3>1, <4>1, Sizes DEF x
      <4>3. s <= e /\ e <= f
        BY <1>2, <1>3, <1>4, <1>5
      <4>4. x < e /\ x < f /\ ChunkSize <= e - x /\ ChunkSize <= f - x
        BY <1>3, <1>4, <4>2, <4>3
      <4>5. k \in DOMAIN chunks /\ Len(chunks[k]) = Extent(k)
        BY <1>2, <3>4, <3>5, <4>4 DEF x
      <4>6. Extent(k) = ChunkSize /\ Extent(k)' = ChunkSize
        <5>1. Extent(k) = IF e <= x THEN 0 ELSE IF e - x <= ChunkSize THEN e - x ELSE ChunkSize
          BY <3>2 DEF x
        <5>2. Extent(k)' = IF f <= x THEN 0 ELSE IF f - x <= ChunkSize THEN f - x ELSE ChunkSize
          BY <3>3 DEF x
        <5>3. QED BY <1>3, <1>4, <4>2, <4>4, <5>1, <5>2
      <4>7. QED BY <4>5, <4>6
    <3>6. CASE k = n
      <4>1. CASE f = e
        BY <1>3, <1>4, <2>2, <3>2, <3>3, <3>4, <4>1
      <4>2. CASE f # e
        <5>1. f = pos + r
          BY <1>4, <4>2
        <5>2. f <= s + ChunkSize
          BY <1>2, <1>3, <1>5, <5>1
        <5>3. QED BY <1>3, <3>6, <5>2
      <4>3. QED BY <4>1, <4>2
    <3>7. CASE n < k
      <4>1. s + ChunkSize <= k * ChunkSize
        BY <1>2, <1>3, <3>7, Sizes, ProductsGrow
      <4>2. f = e
        <5>1. pos + r <= s + ChunkSize
          BY <1>2, <1>3, <1>5
        <5>2. QED BY <1>2, <1>3, <1>4, <2>2, <3>1, <4>1, <5>1, Sizes
      <4>3. QED BY <1>2, <2>2, <3>2, <3>3, <3>4, <3>7, <4>2
    <3>8. QED BY <1>2, <3>5, <3>6, <3>7
  <2>3. QED BY <1>1, <1>4, <2>1, <2>2 DEF ChunksFit
<1>11. QED BY <1>1, <1>8, <1>9, <1>10

LEMMA FillKeepsInv ==
    ASSUME Inv, ~broken, Fill
    PROVE  Inv'
<1>1. GridFSTypeOK /\ PageFits /\ ChunksFit /\ CursorFits /\ CallFits /\ SavedFits
  BY DEF Inv
<1>2. /\ call.pc = "extending" /\ page # None /\ pos < call.target /\ page.offset < ChunkSize
      /\ page' = PageMemset0(page, call.target - pos)
      /\ pos' = pos + page'.offset - page.offset
      /\ UNCHANGED <<n, length, isDirty, cursor, chunks, saved, call, failures, broken>>
  BY DEF Fill
<1>3. /\ pos \in Nat /\ n \in Nat /\ length \in Nat /\ failures \in Nat /\ page \in PageType
      /\ call \in CallType /\ call.target \in Nat /\ page.offset \in Nat
      /\ Len(page.data) \in Nat /\ Len(page.data) <= ChunkSize
  BY <1>1, <1>2 DEF GridFSTypeOK, PageType, CallType, Bytes
<1> DEFINE r == Min({call.target - pos, ChunkSize - page.offset})
           zeros == [i \in 1 .. r |-> 0]
<1>4. r \in Nat /\ r >= 1 /\ r <= call.target - pos /\ page.offset + r <= ChunkSize
  <2>1. r = IF call.target - pos <= ChunkSize - page.offset THEN call.target - pos ELSE ChunkSize - page.offset
    BY <1>3, MinOfTwo, Sizes
  <2> HIDE DEF r
  <2>2. QED BY <1>2, <1>3, <2>1, Sizes
<1>5. page' = Overlaid(page, zeros)
  BY <1>2 DEF PageMemset0
<1> HIDE DEF r
<1>6. zeros \in Bytes /\ Len(zeros) = r
  BY <1>4 DEF Bytes
<1> HIDE DEF zeros
<1>7. /\ page' \in PageType /\ page'.offset = page.offset + r /\ page'.dirty = TRUE
      /\ Len(page'.data) = IF Len(page.data) <= page.offset + r THEN page.offset + r ELSE Len(page.data)
  <2>1. page.offset + r \in Nat /\ page.offset + r = page.offset + Len(zeros)
    BY <1>3, <1>4, <1>6
  <2>2. QED BY <1>3, <1>5, <1>6, <2>1, OverlaidPage, ZenonT(40)
<1>8. pos' = pos + r
  BY <1>2, <1>3, <1>4, <1>7
<1>9. End = pos /\ End' = pos + r
  BY <1>2, <1>8 DEF End
<1>10. PageFits' /\ ChunksFit' /\ Dirty'
  <2>1. End' = IF End <= pos + r THEN pos + r ELSE End
    BY <1>3, <1>4, <1>9
  <2>2. pos <= End
    BY <1>3, <1>9
  <2>3. QED BY <1>1, <1>2, <1>3, <1>4, <1>7, <1>8, <2>1, <2>2, PageGrows
<1>11. GridFSTypeOK'
  <2>1. Len(page'.data) <= ChunkSize /\ page'.offset <= ChunkSize /\ pos' \in Nat
    BY <1>3, <1>4, <1>7, <1>8
  <2>2. QED BY <1>1, <1>2, <1>3, <1>7, <2>1 DEF GridFSTypeOK
<1>12. FailsWithCause'
  BY <1>1, <1>2 DEF FailsWithCause, CallFits, Idle
<1>13. CursorFits'
  BY <1>1, <1>2, <1>3, CursorStaysFit
<1>14. CallFits'
  BY <1>1, <1>2, <1>3, <1>4, <1>8, <1>10 DEF CallFits, Idle, Dirty
<1>15. SavedFits'
  <2>1. Len(page.data) <= Len(page'.data) /\ Len(page'.data) \in Nat /\ n * ChunkSize \in Nat
    BY <1>3, <1>4, <1>7, Sizes
  <2>2. length <= n * ChunkSize + Len(page.data) => length <= n * ChunkSize + Len(page'.data)
    BY <1>3, <2>1
  <2>3. QED BY <1>1, <1>2, <1>10, <2>2 DEF SavedFits
<1>16. QED BY <1>10, <1>11, <1>12, <1>13, <1>14, <1>15 DEF Inv

LEMMA FillNextKeepsInv ==
    ASSUME Inv, ~broken, FillNext
    PROVE  Inv'
<1>1. GridFSTypeOK /\ PageFits /\ ChunksFit /\ CursorFits /\ CallFits /\ SavedFits
  BY DEF Inv
<1>2. PICK f \in Flush :
          /\ AfterFlush(f)
          /\ page' = IF f.chunk THEN None ELSE page
          /\ isDirty' = (isDirty /\ ~f.chunk)
          /\ broken' = ~Flushed(f)
          /\ IF Flushed(f) THEN UNCHANGED call ELSE Fails
  BY DEF FillNext
<1>3. /\ call.pc = "extending" /\ page # None /\ pos < call.target /\ page.offset = ChunkSize
      /\ UNCHANGED <<pos, n, length, cursor>>
  BY DEF FillNext
<1>4. /\ pos \in Nat /\ n \in Nat /\ length \in Nat /\ failures \in Nat /\ isDirty \in BOOLEAN /\ call \in CallType
  BY <1>1 DEF GridFSTypeOK
<1>5. /\ f.chunk = TRUE => PageStored
      /\ f.chunk = FALSE => chunks' = chunks
      /\ f.chunk \in BOOLEAN /\ failures' \in Nat /\ failures <= failures'
      /\ ~Flushed(f) => failures' # 0
      /\ saved' = length \/ saved' = saved
      /\ Flushed(f) /\ isDirty => saved' = length
      /\ ~(Flushed(f) /\ isDirty) => saved' = saved
  BY <1>1, <1>2, FlushedPage
<1>6. n * ChunkSize \in Nat /\ End = pos /\ n * ChunkSize + ChunkSize = pos /\ n * ChunkSize < End
  BY <1>1, <1>3, <1>4, Sizes DEF PageFits, End
<1>7. CASE Flushed(f)
  <2>1. f.chunk = TRUE /\ call' = call /\ page' = None /\ isDirty' = FALSE
    BY <1>2, <1>5, <1>7 DEF Flushed
  <2>2. End' = End
    BY <1>3, <2>1 DEF End
  <2>3. /\ AllWhole' /\ (\A i \in DOMAIN chunks' : i \in Nat /\ chunks'[i] \in Bytes /\ Len(chunks'[i]) <= ChunkSize)
        /\ (\A k \in DOMAIN chunks :
               k \in DOMAIN chunks' /\ (chunks'[k] = chunks[k] \/ (page # None /\ k = n)))
    BY <1>1, <1>3, <1>5, <1>6, <2>1, <2>2, PageIsStored
  <2>4. GridFSTypeOK'
    BY <1>1, <1>2, <1>3, <1>4, <1>5, <2>1, <2>3 DEF GridFSTypeOK
  <2>5. FailsWithCause'
    BY <1>1, <1>3, <2>1 DEF FailsWithCause, CallFits, Idle
  <2>6. PageFits' /\ ~Dirty'
    BY <2>1 DEF PageFits, Dirty
  <2>7. CursorFits'
    BY <1>1, <1>3, <1>4, <1>5, <2>1, <2>3, CursorStaysFit
  <2>8. CallFits'
    <3>1. pos % ChunkSize = 0
      <4>1. pos = (n + 1) * ChunkSize + 0
        BY <1>4, <1>6, Sizes
      <4>2. n + 1 \in Nat /\ 0 \in Nat /\ 0 < ChunkSize
        BY <1>4, Sizes
      <4>3. QED BY <1>4, <4>1, <4>2, QuotientIsUnique, Sizes
    <3>2. pos # call.target
      BY <1>3, <1>4 DEF CallType
    <3>3. QED BY <1>1, <1>3, <2>1, <2>6, <3>1, <3>2 DEF CallFits, Idle
  <2>9. SavedFits'
    <3>1. saved = length \/ isDirty
      BY <1>1, <1>3 DEF SavedFits
    <3>2. saved' = length'
      BY <1>3, <1>4, <1>5, <1>7, <3>1
    <3>3. QED BY <3>2 DEF SavedFits
  <2>10. QED BY <2>3, <2>4, <2>5, <2>6, <2>7, <2>8, <2>9, WholeChunksFit, PTL DEF Inv
<1>8. CASE ~Flushed(f)
  <2>1. call' = [NewCall EXCEPT !.failed = TRUE] /\ broken' = TRUE /\ failures' # 0
    BY <1>2, <1>5, <1>8 DEF Fails
  <2>2. PageStored => \A i \in DOMAIN chunks' : i \in Nat /\ chunks'[i] \in Bytes /\ Len(chunks'[i]) <= ChunkSize
    <3>1. page.data \in Bytes /\ Len(page.data) <= ChunkSize
      BY <1>1, <1>3 DEF GridFSTypeOK, PageType
    <3>2. QED BY <1>1, <1>4, <3>1 DEF PageStored, GridFSTypeOK
  <2>3. GridFSTypeOK'
    BY <1>1, <1>2, <1>3, <1>4, <1>5, <2>1, <2>2, CallsAreTyped DEF GridFSTypeOK
  <2>4. FailsWithCause'
    BY <2>1 DEF FailsWithCause
  <2>5. QED BY <2>1, <2>3, <2>4 DEF Inv
<1>9. QED BY <1>7, <1>8

LEMMA ExtendEndsKeepsInv ==
    ASSUME Inv, ~broken, ExtendEnds
    PROVE  Inv'
<1>1. GridFSTypeOK /\ PageFits /\ ChunksFit /\ CursorFits /\ CallFits /\ SavedFits
  BY DEF Inv
<1>2. /\ call.pc = "extending" /\ page # None /\ pos = call.target
      /\ length' = pos /\ isDirty' = TRUE
      /\ call' = [call EXCEPT !.pc = "writing", !.target = 0]
      /\ UNCHANGED <<pos, n, page, cursor, chunks, saved, failures, broken>>
  BY DEF ExtendEnds
<1>3. /\ pos \in Nat /\ n \in Nat /\ length \in Nat /\ failures \in Nat /\ page \in PageType
      /\ call \in CallType /\ page.offset \in Nat /\ Len(page.data) \in Nat /\ page.offset <= ChunkSize
  BY <1>1, <1>2 DEF GridFSTypeOK, PageType, Bytes
<1>4. /\ call' \in CallType /\ call'.pc = "writing" /\ call'.failed = call.failed /\ call'.data = call.data
  BY <1>2, <1>3 DEF CallType
<1>5. End = pos /\ End' = End
  BY <1>2, <1>4 DEF End
<1>6. Dirty /\ Dirty' /\ length <= pos /\ ~call.failed /\ call.data # <<>>
  BY <1>1, <1>2 DEF CallFits, Dirty, Idle
<1>7. GridFSTypeOK'
  BY <1>1, <1>2, <1>3, <1>4 DEF GridFSTypeOK
<1>8. FailsWithCause'
  BY <1>4, <1>6 DEF FailsWithCause
<1>9. PageFits'
  <2>1. Extent(n)' = Extent(n)
    BY <1>2, <1>5 DEF Extent
  <2>2. QED BY <1>1, <1>2, <1>5, <2>1 DEF PageFits
<1>10. ChunksFit'
  BY <1>1, <1>2, <1>5, <1>6, ChunksStayFit
<1>11. CursorFits'
  BY <1>1, <1>2, <1>3, <1>6, CursorStaysFit
<1>12. CallFits'
  BY <1>2, <1>4, <1>6 DEF CallFits, Idle
<1>13. SavedFits'
  <2>1. n * ChunkSize \in Nat
    BY <1>3, Sizes
  <2>2. n * ChunkSize + page.offset = pos /\ Len(page.data) = Extent(n) /\ n * ChunkSize < pos
    BY <1>1, <1>2, <1>5, <1>6 DEF PageFits, Dirty
  <2>3. pos <= n * ChunkSize + Len(page.data)
    BY <1>3, <1>5, <2>1, <2>2 DEF Extent
  <2>4. QED BY <1>2, <1>6, <2>3 DEF SavedFits
<1>14. QED BY <1>7, <1>8, <1>9, <1>10, <1>11, <1>12, <1>13 DEF Inv

LEMMA WritePageKeepsInv ==
    ASSUME Inv, ~broken, WritePage
    PROVE  Inv'
<1>1. GridFSTypeOK /\ PageFits /\ ChunksFit /\ CursorFits /\ CallFits /\ SavedFits
  BY DEF Inv
<1> DEFINE r == page'.offset - page.offset
<1>2. /\ call.pc = "writing" /\ page # None /\ pos <= length /\ page.offset < ChunkSize
      /\ page' = PageWrite(page, call.data)
      /\ pos' = pos + r
      /\ length' = Max({length, pos + r})
      /\ IF r = Len(call.data) THEN call' = NewCall /\ isDirty' = TRUE
         ELSE call' = [call EXCEPT !.data = SubSeq(@, r + 1, Len(@))] /\ isDirty' = isDirty
      /\ UNCHANGED <<n, cursor, chunks, saved, failures, broken>>
  BY DEF WritePage, Returns
<1>3. /\ pos \in Nat /\ n \in Nat /\ length \in Nat /\ failures \in Nat /\ isDirty \in BOOLEAN
      /\ page \in PageType /\ call \in CallType /\ call.data \in Bytes /\ page.offset \in Nat
      /\ Len(page.data) \in Nat /\ Len(page.data) <= ChunkSize
  BY <1>1, <1>2 DEF GridFSTypeOK, PageType, CallType, Bytes
<1>4. PICK m \in Nat : m = Len(call.data)
  BY <1>3 DEF Bytes
<1>5. call.data # <<>> /\ m >= 1 /\ ~call.failed
  <2>1. call.data # <<>> /\ ~call.failed
    BY <1>1, <1>2 DEF CallFits, Idle
  <2>2. QED BY <1>3, <1>4, <2>1 DEF Bytes
<1> DEFINE w == Min({Len(call.data), ChunkSize - page.offset})
           src == SubSeq(call.data, 1, w)
<1>6. w \in Nat /\ w >= 1 /\ w <= m /\ page.offset + w <= ChunkSize
      /\ (w = m \/ page.offset + w = ChunkSize)
  <2>1. w = IF m <= ChunkSize - page.offset THEN m ELSE ChunkSize - page.offset
    BY <1>3, <1>4, MinOfTwo, Sizes
  <2> HIDE DEF w
  <2>2. QED BY <1>2, <1>3, <1>4, <1>5, <2>1, Sizes, SMTT(30)
<1>7. page' = Overlaid(page, src)
  BY <1>2 DEF PageWrite
<1> HIDE DEF w
<1>8. src \in Bytes /\ Len(src) = w
  <2>1. w \in 0 .. Len(call.data)
    BY <1>4, <1>6
  <2>2. QED BY <1>3, <2>1, FrontOfSequence DEF Bytes
<1> HIDE DEF src
<1>9. /\ page' \in PageType /\ page'.offset = page.offset + w /\ page'.dirty = TRUE
      /\ Len(page'.data) = IF Len(page.data) <= page.offset + w THEN page.offset + w ELSE Len(page.data)
  <2>1. PICK a \in Nat : a = page.offset + w /\ a = page.offset + Len(src)
    BY <1>3, <1>6, <1>8
  <2>2. /\ Overlaid(page, src) \in PageType
        /\ Overlaid(page, src).offset = a /\ Overlaid(page, src).dirty = TRUE
        /\ Len(Overlaid(page, src).data) = IF Len(page.data) <= a THEN a ELSE Len(page.data)
    BY <1>3, <1>8, <2>1, OverlaidPage, ZenonT(40)
  <2>3. QED BY <1>7, <2>1, <2>2
<1>10. r = w
  BY <1>3, <1>6, <1>9
<1> HIDE DEF r
<1>11. /\ pos' = pos + w /\ pos' \in Nat
       /\ length' = IF length <= pos + w THEN pos + w ELSE length
       /\ length' \in Nat /\ length <= length'
  <2>1. pos' = pos + w /\ length' = Max({length, pos + w})
    BY <1>2, <1>10
  <2>2. pos + w \in Nat
    BY <1>3, <1>6
  <2>3. Max({length, pos + w}) = IF length <= pos + w THEN pos + w ELSE length
    BY <1>3, <2>2, MaxOfTwo
  <2>4. QED BY <1>3, <2>1, <2>2, <2>3
<1>12. /\ call' \in CallType /\ call'.failed = FALSE
       /\ \/ w = m /\ call' = NewCall /\ call'.pc = "idle" /\ isDirty' = TRUE
          \/ w # m /\ call'.pc = "writing" /\ call'.data # <<>> /\ isDirty' = isDirty
  <2>1. CASE w = m
    BY <1>2, <1>4, <1>10, <2>1, CallsAreTyped
  <2>2. CASE w # m
    <3> DEFINE rest == SubSeq(call.data, w + 1, Len(call.data))
    <3>1. call' = [call EXCEPT !.data = rest] /\ isDirty' = isDirty
      BY <1>2, <1>4, <1>10, <2>2
    <3>2. rest \in Bytes /\ Len(rest) = m - w
      <4>1. w \in 0 .. Len(call.data)
        BY <1>4, <1>6
      <4>2. QED BY <1>3, <1>4, <4>1, RestOfSequence DEF Bytes
    <3> HIDE DEF rest
    <3>3. Len(rest) # 0
      BY <1>4, <1>6, <2>2, <3>2
    <3>4. rest # <<>>
      BY <3>3, EmptySequence
    <3>5. call' \in CallType /\ call'.failed = call.failed /\ call'.pc = call.pc /\ call'.data = rest
      BY <1>3, <3>1, <3>2 DEF CallType
    <3>6. call.failed = FALSE
      BY <1>3, <1>5 DEF CallType
    <3>7. QED BY <1>2, <2>2, <3>1, <3>4, <3>5, <3>6
  <2>3. QED BY <2>1, <2>2
<1>13. End = length /\ End' = length'
  BY <1>2, <1>12 DEF End
<1>14. PageFits' /\ ChunksFit' /\ Dirty' /\ Len(page'.data) = Extent(n)'
  <2>1. End' = IF End <= pos + w THEN pos + w ELSE End
    BY <1>11, <1>13
  <2>2. pos <= End
    BY <1>2, <1>13
  <2>3. QED BY <1>1, <1>2, <1>3, <1>6, <1>9, <1>11, <2>1, <2>2, PageGrows
<1>15. GridFSTypeOK'
  <2>1. Len(page'.data) <= ChunkSize /\ page'.offset <= ChunkSize
    BY <1>3, <1>6, <1>9
  <2>2. isDirty' \in BOOLEAN
    BY <1>3, <1>12
  <2>3. QED BY <1>1, <1>2, <1>3, <1>9, <1>11, <1>12, <2>1, <2>2 DEF GridFSTypeOK
<1>16. FailsWithCause'
  BY <1>12 DEF FailsWithCause
<1>17. CursorFits'
  BY <1>1, <1>2, <1>3, <1>11, CursorStaysFit
<1>18. CallFits'
  BY <1>12 DEF CallFits, Idle
<1>19. SavedFits'
  <2>1. PICK s \in Nat : s = n * ChunkSize /\ s + page.offset = pos
    BY <1>1, <1>2, <1>3, Sizes DEF PageFits
  <2>2. pos + w <= s + ChunkSize
    BY <1>3, <1>6, <2>1, Sizes
  <2>3. page' # None
    BY <1>14 DEF Dirty
  <2>4. Len(page.data) <= Len(page'.data) /\ Len(page'.data) \in Nat /\ page'.data = page'.data
    BY <1>3, <1>6, <1>9
  <2>5. CASE w = m
    <3>1. isDirty' /\ Dirty'
      BY <1>12, <1>14, <2>5
    <3>2. CASE length' <= s + ChunkSize
      <4>1. s < length'
        BY <1>3, <1>6, <1>11, <2>1
      <4>2. n' * ChunkSize = s /\ Extent(n)' = length' - s
        <5>1. n' * ChunkSize = s
          BY <1>2, <2>1
        <5>2. Extent(n)' = IF length' <= s THEN 0
                           ELSE IF length' - s <= ChunkSize THEN length' - s ELSE ChunkSize
          BY <1>13, <5>1 DEF Extent
        <5>3. ~(length' <= s) /\ length' - s <= ChunkSize
          BY <1>11, <2>1, <3>2, <4>1, Sizes
        <5>4. QED BY <5>1, <5>2, <5>3
      <4>3. length' <= n' * ChunkSize + Len(page'.data)
        BY <1>11, <1>14, <2>1, <4>1, <4>2
      <4>4. QED BY <3>1, <4>3 DEF SavedFits
    <3>3. CASE ~(length' <= s + ChunkSize)
      <4>1. length' = length /\ s + ChunkSize < length
        BY <1>3, <1>6, <1>11, <2>1, <2>2, <3>3, Sizes
      <4>2. ~(length <= n * ChunkSize + Len(page.data)) /\ pos # length /\ length # 0
        <5>1. PICK l \in Nat : l = Len(page.data) /\ l <= ChunkSize
          BY <1>3
        <5>2. ~(length <= s + l) /\ pos # length /\ length # 0
          <6>1. length \in Nat /\ pos \in Nat /\ w \in Nat /\ ChunkSize \in Nat
            BY <1>3, <1>6, Sizes
          <6>2. pos <= s + ChunkSize /\ s + l <= s + ChunkSize
            BY <2>2, <5>1, <6>1
          <6>3. QED BY <4>1, <5>1, <6>1, <6>2
        <5>3. QED BY <2>1, <5>1, <5>2
      <4>3. saved = length
        BY <1>1, <4>2 DEF SavedFits
      <4>4. QED BY <1>2, <4>1, <4>3 DEF SavedFits
    <3>4. QED BY <3>2, <3>3
  <2>6. CASE w # m
    <3>1. call'.pc = "writing" /\ isDirty' = isDirty
      BY <1>12, <2>6
    <3>2. CASE length <= pos + w
      BY <1>11, <2>3, <3>1, <3>2 DEF SavedFits
    <3>3. CASE ~(length <= pos + w)
      <4>1. length' = length /\ pos # length
        BY <1>3, <1>6, <1>11, <3>3
      <4>2. length <= n * ChunkSize + Len(page.data) => length' <= n' * ChunkSize + Len(page'.data)
        BY <1>2, <1>3, <2>1, <2>4, <4>1
      <4>3. saved' = saved /\ (isDirty => isDirty')
        BY <1>2, <3>1
      <4>4. QED BY <1>1, <1>14, <4>1, <4>2, <4>3 DEF SavedFits
    <3>4. QED BY <3>2, <3>3
  <2>7. QED BY <2>5, <2>6
<1>20. QED BY <1>14, <1>15, <1>16, <1>17, <1>18, <1>19 DEF Inv

LEMMA WriteNextKeepsInv ==
    ASSUME Inv, ~broken, WriteNext
    PROVE  Inv'
<1>1. GridFSTypeOK /\ PageFits /\ ChunksFit /\ CursorFits /\ CallFits /\ SavedFits
  BY DEF Inv
<1>2. PICK f \in Flush :
          /\ AfterFlush(f)
          /\ page' = IF f.chunk THEN None ELSE [page EXCEPT !.dirty = TRUE]
          /\ isDirty' = (isDirty /\ ~f.chunk)
  BY DEF WriteNext
<1>3. /\ call.pc = "writing" /\ page # None /\ pos <= length /\ page.offset = ChunkSize
      /\ UNCHANGED <<pos, n, length, cursor, call, broken>>
  BY DEF WriteNext
<1>4. /\ pos \in Nat /\ n \in Nat /\ length \in Nat /\ failures \in Nat /\ isDirty \in BOOLEAN /\ call \in CallType
      /\ page \in PageType /\ Len(page.data) \in Nat /\ Len(page.data) <= ChunkSize
  BY <1>1, <1>3 DEF GridFSTypeOK, PageType, Bytes
<1>5. /\ f.chunk = TRUE => PageStored
      /\ f.chunk = FALSE => chunks' = chunks
      /\ f.chunk \in BOOLEAN /\ f.doc \in BOOLEAN /\ failures' \in Nat /\ failures <= failures'
      /\ saved' = length \/ saved' = saved
      /\ Flushed(f) /\ isDirty => saved' = length
      /\ ~(Flushed(f) /\ isDirty) => saved' = saved
      /\ isDirty = FALSE => f.doc = TRUE
  BY <1>1, <1>2, <1>4, FlushedPage
<1>6. n * ChunkSize \in Nat /\ End = length /\ n * ChunkSize + ChunkSize = pos /\ n * ChunkSize < End
  BY <1>1, <1>3, <1>4, Sizes DEF PageFits, End
<1>7. End' = End
  BY <1>3 DEF End
<1>8. FailsWithCause'
  BY <1>1, <1>3 DEF FailsWithCause, CallFits, Idle
<1>9. CASE f.chunk = TRUE
  <2>1. page' = None /\ isDirty' = FALSE /\ PageStored
    BY <1>2, <1>5, <1>9
  <2>2. /\ AllWhole' /\ (\A i \in DOMAIN chunks' : i \in Nat /\ chunks'[i] \in Bytes /\ Len(chunks'[i]) <= ChunkSize)
        /\ (\A k \in DOMAIN chunks :
               k \in DOMAIN chunks' /\ (chunks'[k] = chunks[k] \/ (page # None /\ k = n)))
    BY <1>1, <1>3, <1>6, <1>7, <2>1, PageIsStored
  <2>3. GridFSTypeOK'
    BY <1>1, <1>3, <1>4, <1>5, <2>1, <2>2 DEF GridFSTypeOK
  <2>4. PageFits' /\ ~Dirty'
    BY <2>1 DEF PageFits, Dirty
  <2>5. CursorFits'
    BY <1>1, <1>3, <1>4, <1>5, <2>1, <2>2, CursorStaysFit
  <2>6. CallFits'
    BY <1>1, <1>3, <2>4 DEF CallFits, Idle
  <2>7. SavedFits'
    <3>1. pos % ChunkSize = 0
      <4>1. pos = (n + 1) * ChunkSize + 0
        BY <1>4, <1>6, Sizes
      <4>2. n + 1 \in Nat /\ 0 \in Nat /\ 0 < ChunkSize
        BY <1>4, Sizes
      <4>3. QED BY <1>4, <4>1, <4>2, QuotientIsUnique, Sizes
    <3>2. saved = length \/ pos = length \/ (isDirty /\ (length = 0 \/ length <= n * ChunkSize + Len(page.data)))
      BY <1>1 DEF SavedFits, Dirty
    <3>3. length = 0 \/ length <= n * ChunkSize + Len(page.data) => pos = length
      <4>1. PICK s \in Nat, l \in Nat : s = n * ChunkSize /\ l = Len(page.data) /\ l <= ChunkSize
        BY <1>4, <1>6
      <4>2. s + ChunkSize = pos
        BY <1>6, <4>1
      <4>3. length = 0 \/ length <= s + l => pos = length
        <5>1. length \in Nat /\ pos \in Nat /\ pos <= length /\ ChunkSize \in Nat \ {0}
          BY <1>3, <1>4, Sizes
        <5>2. s + l <= pos /\ pos # 0
          BY <4>1, <4>2, <5>1
        <5>3. QED BY <5>1, <5>2
      <4>4. QED BY <4>1, <4>3
    <3>4. saved' = length' \/ pos = length
      BY <1>3, <1>5, <3>2, <3>3
    <3>5. QED BY <1>3, <3>1, <3>4 DEF SavedFits
  <2>8. QED BY <1>8, <2>2, <2>3, <2>4, <2>5, <2>6, <2>7, WholeChunksFit, PTL DEF Inv
<1>10. CASE f.chunk = FALSE
  <2>1. /\ page' = [page EXCEPT !.dirty = TRUE] /\ isDirty' = isDirty /\ chunks' = chunks /\ saved' = saved
    BY <1>2, <1>4, <1>5, <1>10 DEF Flushed
  <2>2. /\ page' \in PageType /\ page' # None
        /\ page'.data = page.data /\ page'.offset = page.offset /\ page'.dirty = TRUE
    <3>1. /\ page' \in PageType
          /\ page'.data = page.data /\ page'.offset = page.offset /\ page'.dirty = TRUE
      BY <1>4, <2>1 DEF PageType
    <3>2. QED BY <3>1, NoneAssumption
  <2>3. GridFSTypeOK'
    BY <1>1, <1>3, <1>4, <1>5, <2>1, <2>2, Sizes DEF GridFSTypeOK
  <2>4. Dirty'
    BY <2>2 DEF Dirty
  <2>5. PageFits'
    <3>1. Extent(n)' = Extent(n)
      BY <1>3, <1>7 DEF Extent
    <3>2. QED BY <1>1, <1>3, <1>6, <1>7, <2>1, <2>2, <3>1 DEF PageFits
  <2>6. ChunksFit'
    BY <1>1, <1>3, <1>7, <2>1, <2>4, ChunksStayFit
  <2>7. CursorFits'
    BY <1>1, <1>3, <1>4, <1>5, <2>1, CursorStaysFit
  <2>8. CallFits'
    BY <1>1, <1>3 DEF CallFits, Idle
  <2>9. SavedFits'
    BY <1>1, <1>3, <2>1, <2>2, <2>4 DEF SavedFits, Dirty
  <2>10. QED BY <1>8, <2>3, <2>5, <2>6, <2>7, <2>8, <2>9 DEF Inv
<1>11. QED BY <1>5, <1>9, <1>10

-----------------------------------------------------------------------------
(* Saving and opening again.                                               *)

\* What save leaves: f is what became of the page, r whether the document was updated.
Saved(f, r) ==
    /\ chunks' = IF Dirty /\ f.chunk
                 THEN [i \in DOMAIN chunks \cup {n} |-> IF i = n THEN page.data ELSE chunks[i]]
                 ELSE chunks
    /\ page' = IF Dirty /\ f.chunk THEN None ELSE page
    /\ saved' = IF r \/ (Dirty /\ Flushed(f)) THEN length ELSE saved
    /\ failures' = failures + (IF Dirty /\ ~Flushed(f) THEN 1 ELSE 0) + (IF r THEN 0 ELSE 1)
    /\ broken' = (broken \/ ~r \/ (Dirty /\ ~f.chunk))
    /\ call' = [NewCall EXCEPT !.failed = ~r]

LEMMA SaveKeepsInv ==
    ASSUME Inv, ~broken, Save
    PROVE  Inv'
<1>1. GridFSTypeOK /\ PageFits /\ ChunksFit /\ CursorFits /\ CallFits /\ SavedFits
  BY DEF Inv
<1>2. PICK f \in (IF Dirty THEN Flush ELSE {[chunk |-> FALSE, doc |-> TRUE]}), r \in Updates : Saved(f, r)
  BY DEF Save, Saved, Dirty
<1>3. call.pc = "idle" /\ isDirty' = FALSE /\ UNCHANGED <<pos, n, length, cursor>>
  BY DEF Save, Idle
<1>4. /\ pos \in Nat /\ n \in Nat /\ length \in Nat /\ failures \in Nat /\ broken = FALSE /\ call \in CallType
  BY <1>1 DEF GridFSTypeOK
<1>5. r \in BOOLEAN /\ f.chunk \in BOOLEAN
  <2>1. Updates \subseteq BOOLEAN
    BY DEF Updates
  <2>2. Dirty => f \in [chunk: Updates, doc: IF isDirty THEN Updates ELSE {TRUE}]
    BY <1>2 DEF Flush
  <2>3. ~Dirty => f = [chunk |-> FALSE, doc |-> TRUE]
    BY <1>2
  <2>4. r \in BOOLEAN
    BY <2>1
  <2>5. CASE Dirty
    BY <2>1, <2>2, <2>4, <2>5
  <2>6. CASE ~Dirty
    <3>1. f = [chunk |-> FALSE, doc |-> TRUE]
      BY <2>3, <2>6
    <3>2. f.chunk = FALSE
      BY <3>1
    <3>3. QED BY <2>4, <3>2
  <2>7. QED BY <2>5, <2>6
<1>6. failures' \in Nat /\ failures <= failures' /\ (r = FALSE => failures' # 0)
  <2>1. PICK a \in {0, 1} : a = IF Dirty /\ ~Flushed(f) THEN 1 ELSE 0
    OBVIOUS
  <2>2. failures' = failures + a + (IF r THEN 0 ELSE 1)
    BY <1>2, <2>1 DEF Saved
  <2>3. QED BY <1>4, <1>5, <2>1, <2>2
<1>7. call' \in CallType /\ call'.pc = "idle" /\ (r = TRUE => call'.failed = FALSE)
  <2>1. PICK q \in BOOLEAN : q = (~r)
    BY <1>5, Zenon
  <2>2. call' = [NewCall EXCEPT !.failed = q]
    BY <1>2, <2>1 DEF Saved
  <2>3. call' \in CallType /\ call'.pc = "idle" /\ call'.failed = q
    BY <2>2, CallsAreTyped DEF CallType
  <2>4. r = TRUE => q = FALSE
    BY <2>1
  <2>5. QED BY <2>3, <2>4
<1>8. End = length /\ End' = End
  BY <1>3, <1>7 DEF End
<1>9. Dirty => page # None /\ n * ChunkSize < End
  BY <1>1 DEF Dirty, PageFits
<1>10. /\ saved' = length \/ saved' = saved
       /\ r = TRUE => saved' = length
       /\ broken' = FALSE => r = TRUE /\ (Dirty => f.chunk = TRUE)
       /\ broken' \in BOOLEAN
  BY <1>2, <1>4, <1>5 DEF Saved
<1>11. FailsWithCause'
  BY <1>5, <1>6, <1>7 DEF FailsWithCause
<1>12. CASE Dirty /\ f.chunk = TRUE
  <2>1. PageStored /\ page' = None
    BY <1>2, <1>12 DEF Saved, PageStored
  <2>2. /\ AllWhole' /\ (\A i \in DOMAIN chunks' : i \in Nat /\ chunks'[i] \in Bytes /\ Len(chunks'[i]) <= ChunkSize)
        /\ (\A k \in DOMAIN chunks :
               k \in DOMAIN chunks' /\ (chunks'[k] = chunks[k] \/ (page # None /\ k = n)))
    BY <1>1, <1>8, <1>9, <1>12, <2>1, PageIsStored
  <2>3. GridFSTypeOK'
    BY <1>1, <1>3, <1>4, <1>6, <1>7, <1>10, <2>1, <2>2 DEF GridFSTypeOK
  <2>4. PageFits' /\ ~Dirty'
    BY <2>1 DEF PageFits, Dirty
  <2>5. CursorFits'
    BY <1>1, <1>3, <1>4, <1>6, <2>1, <2>2, CursorStaysFit
  <2>6. broken' = FALSE => CallFits' /\ SavedFits'
    BY <1>3, <1>7, <1>10, <2>4 DEF CallFits, SavedFits, Idle
  <2>7. broken' \in BOOLEAN
    BY <1>10
  <2>8. ChunksFit'
    BY <2>2, WholeChunksFit, PTL
  <2>9. QED BY <1>11, <2>3, <2>4, <2>5, <2>6, <2>7, <2>8 DEF Inv
<1>13. CASE ~(Dirty /\ f.chunk = TRUE)
  <2>1. page' = page /\ chunks' = chunks
    BY <1>2, <1>5, <1>13 DEF Saved
  <2>2. GridFSTypeOK'
    BY <1>1, <1>3, <1>4, <1>6, <1>7, <1>10, <2>1 DEF GridFSTypeOK
  <2>3. ASSUME broken' = FALSE
        PROVE  PageFits' /\ ChunksFit' /\ CursorFits' /\ CallFits' /\ SavedFits'
    <3>1. ~Dirty /\ ~Dirty'
      BY <1>10, <1>13, <2>1, <2>3 DEF Dirty
    <3>2. PageFits'
      <4>1. Extent(n)' = Extent(n)
        BY <1>3, <1>8 DEF Extent
      <4>2. QED BY <1>1, <1>3, <1>8, <2>1, <4>1 DEF PageFits
    <3>3. ChunksFit'
      BY <1>1, <1>8, <2>1, <3>1, ChunksStayFit
    <3>4. CursorFits'
      BY <1>1, <1>3, <1>4, <1>6, <2>1, CursorStaysFit
    <3>5. CallFits' /\ SavedFits'
      BY <1>3, <1>7, <1>10, <2>3, <3>1 DEF CallFits, SavedFits, Idle
    <3>6. QED BY <3>2, <3>3, <3>4, <3>5
  <2>4. broken' \in BOOLEAN
    BY <1>10
  <2>5. QED BY <1>11, <2>2, <2>3, <2>4 DEF Inv
<1>14. QED BY <1>12, <1>13

LEMMA ReopenKeepsInv ==
    ASSUME Inv, ~broken, Reopen
    PROVE  Inv'
<1>1. GridFSTypeOK /\ PageFits /\ ChunksFit /\ CallFits /\ SavedFits
  BY DEF Inv
<1>2. /\ call.pc = "idle" /\ ~isDirty
      /\ pos' = 0 /\ n' = 0 /\ length' = saved /\ isDirty' = FALSE /\ page' = None /\ cursor' = None
      /\ call' = NewCall
      /\ UNCHANGED <<chunks, saved, failures, broken>>
  BY DEF Reopen, Idle
<1>3. ~Dirty /\ saved = length
  BY <1>1, <1>2 DEF CallFits, SavedFits
<1>4. call' \in CallType /\ call'.pc = "idle" /\ call'.failed = FALSE
  BY <1>2, CallsAreTyped
<1>5. End' = End
  BY <1>2, <1>3, <1>4 DEF End
<1>6. GridFSTypeOK'
  <2>1. length' \in Nat /\ pos' \in Nat /\ n' \in Nat /\ isDirty' \in BOOLEAN
    BY <1>1, <1>2, <1>3 DEF GridFSTypeOK
  <2>2. failures' \in Nat /\ broken' \in BOOLEAN /\ saved' \in Nat \cup {None}
    BY <1>1, <1>2 DEF GridFSTypeOK
  <2>3. \A i \in DOMAIN chunks' : i \in Nat /\ chunks'[i] \in Bytes /\ Len(chunks'[i]) <= ChunkSize
    BY <1>1, <1>2 DEF GridFSTypeOK
  <2>4. QED BY <1>2, <1>4, <2>1, <2>2, <2>3 DEF GridFSTypeOK
<1>7. FailsWithCause'
  BY <1>4 DEF FailsWithCause
<1>8. PageFits' /\ CursorFits' /\ ~Dirty'
  BY <1>2 DEF PageFits, CursorFits, Dirty
<1>9. ChunksFit'
  BY <1>1, <1>2, <1>3, <1>5, ChunksStayFit
<1>10. CallFits'
  BY <1>4, <1>8 DEF CallFits, Idle
<1>11. SavedFits'
  BY <1>2 DEF SavedFits
<1>12. QED BY <1>6, <1>7, <1>8, <1>9, <1>10, <1>11 DEF Inv

-----------------------------------------------------------------------------
(* The invariant, and what follows from it.                                *)

LEMMA InitHasInv == Init => Inv
<1> SUFFICES ASSUME Init PROVE Inv
  OBVIOUS
<1>1. /\ pos = 0 /\ n = 0 /\ length = 0 /\ isDirty = TRUE /\ page = None /\ cursor = None
      /\ chunks = <<>> /\ saved = None /\ call = NewCall /\ failures = 0 /\ broken = FALSE
  BY DEF Init
<1>2. call \in CallType /\ call.pc = "idle" /\ call.failed = FALSE
  BY <1>1, CallsAreTyped
<1>3. DOMAIN chunks = {}
  BY <1>1
<1>4. End = 0 /\ \A k \in Nat : ~(k * ChunkSize < End)
  <2>1. End = 0
    BY <1>1, <1>2 DEF End
  <2>2. \A k \in Nat : k * ChunkSize \in Nat
    BY Sizes
  <2>3. QED BY <2>1, <2>2
<1>5. GridFSTypeOK
  <2>1. length \in Nat /\ pos \in Nat /\ n \in Nat /\ isDirty \in BOOLEAN /\ failures \in Nat
        /\ broken \in BOOLEAN /\ saved \in Nat \cup {None}
    BY <1>1
  <2>2. \A i \in DOMAIN chunks : i \in Nat /\ chunks[i] \in Bytes /\ Len(chunks[i]) <= ChunkSize
    BY <1>3
  <2>3. QED BY <1>1, <1>2, <2>1, <2>2 DEF GridFSTypeOK
<1>6. FailsWithCause /\ PageFits /\ CursorFits
  BY <1>1, <1>2 DEF FailsWithCause, PageFits, CursorFits
<1>7. ChunksFit
  BY <1>3, <1>4 DEF ChunksFit
<1>8. CallFits /\ SavedFits
  BY <1>1, <1>2 DEF CallFits, SavedFits, Dirty, Idle
<1>9. QED BY <1>5, <1>6, <1>7, <1>8 DEF Inv

LEMMA StutterKeepsInv ==
    ASSUME Inv, UNCHANGED vars
    PROVE  Inv'
<1>1. /\ pos' = pos /\ n' = n /\ length' = length /\ isDirty' = isDirty /\ page' = page /\ cursor' = cursor
      /\ chunks' = chunks /\ saved' = saved /\ call' = call /\ failures' = failures /\ broken' = broken
  BY DEF vars
<1>2. End' = End
  BY <1>1 DEF End
<1>3. \A k : Extent(k)' = Extent(k)
  BY <1>2, SameEnd
<1>4. GridFSTypeOK' /\ FailsWithCause'
  BY <1>1 DEF Inv, GridFSTypeOK, FailsWithCause
<1>5. SUFFICES ASSUME ~broken
               PROVE  PageFits' /\ ChunksFit' /\ CursorFits' /\ CallFits' /\ SavedFits'
  BY <1>1, <1>4 DEF Inv
<1>6. GridFSTypeOK /\ PageFits /\ ChunksFit /\ CursorFits /\ CallFits /\ SavedFits
  BY <1>5 DEF Inv
<1>7. PageFits'
  <2>1. Extent(n)' = Extent(n)
    BY <1>1, <1>2 DEF Extent
  <2>2. QED BY <1>1, <1>2, <1>6, <2>1 DEF PageFits
<1>8. ChunksFit'
  BY <1>1, <1>2, <1>6, ChunksStayFit DEF Dirty
<1>9. CursorFits'
  BY <1>1, <1>6, CursorStaysFit DEF GridFSTypeOK
<1>10. CallFits' /\ SavedFits'
  BY <1>1, <1>6 DEF CallFits, SavedFits, Dirty, Idle
<1>11. QED BY <1>7, <1>8, <1>9, <1>10

LEMMA NextKeepsInv == Inv /\ [Next]_vars => Inv'
<1> SUFFICES ASSUME Inv, [Next]_vars PROVE Inv'
  OBVIOUS
<1>1. CASE Next
  <2>1. ~broken
    BY <1>1 DEF Next
  <2>2. CASE Step
    <3>1. CASE LoadToRead \/ LoadToWrite \/ LoadToExtend
      BY <2>1, <3>1, LoadKeepsInv
    <3>2. CASE ReadPage
      BY <2>1, <3>2, ReadPageKeepsInv
    <3>3. CASE ReadEnds
      BY <2>1, <3>3, ReadEndsKeepsInv
    <3>4. CASE BeginExtend
      BY <2>1, <3>4, BeginExtendKeepsInv
    <3>5. CASE Fill
      BY <2>1, <3>5, FillKeepsInv
    <3>6. CASE FillNext
      BY <2>1, <3>6, FillNextKeepsInv
    <3>7. CASE ExtendEnds
      BY <2>1, <3>7, ExtendEndsKeepsInv
    <3>8. CASE WritePage
      BY <2>1, <3>8, WritePageKeepsInv
    <3>9. CASE WriteNext
      BY <2>1, <3>9, WriteNextKeepsInv
    <3>10. QED BY <2>2, <3>1, <3>2, <3>3, <3>4, <3>5, <3>6, <3>7, <3>8, <3>9 DEF Step
  <2>3. CASE Save
    BY <2>1, <2>3, SaveKeepsInv
  <2>4. CASE Reopen
    BY <2>1, <2>4, ReopenKeepsInv
  <2>5. ASSUME NEW read \in Reads, BeginRead(read[1], read[2]) PROVE Inv'
    <3>1. read[1] \in Nat /\ read[2] \in Nat
      BY GridFSAssumption
    <3>2. QED BY <2>1, <2>5, <3>1, BeginReadKeepsInv
  <2>6. ASSUME NEW data \in Writes, BeginWrite(data) PROVE Inv'
    BY <2>1, <2>6, BeginWriteKeepsInv
  <2>7. ASSUME NEW offset \in 0 .. MaxLength, Seek(offset) PROVE Inv'
    <3>1. offset \in Nat
      BY GridFSAssumption
    <3>2. QED BY <2>1, <2>7, <3>1, SeekKeepsInv
  <2>8. QED BY <1>1, <2>2, <2>3, <2>4, <2>5, <2>6, <2>7 DEF Next
<1>2. CASE UNCHANGED vars
  BY <1>2, StutterKeepsInv
<1>3. QED BY <1>1, <1>2

LEMMA InvIsInvariant == Spec => []Inv
  BY InitHasInv, NextKeepsInv, PTL DEF Spec

LEMMA InvGivesSavedIsStored == Inv => SavedIsStored
<1> SUFFICES ASSUME Inv, Idle, ~isDirty, ~broken, NEW i \in 1 .. length
             PROVE  /\ saved = length
                    /\ (i - 1) \div ChunkSize \in DOMAIN chunks
                    /\ (i - 1) % ChunkSize < Len(chunks[(i - 1) \div ChunkSize])
                    /\ chunks[(i - 1) \div ChunkSize][((i - 1) % ChunkSize) + 1] = ByteAt(i)
  <2>1. ASSUME Inv, Idle, ~isDirty, ~broken PROVE saved = length
    BY <2>1 DEF Inv, CallFits, SavedFits, Idle
  <2>2. QED BY <2>1 DEF SavedIsStored
<1> DEFINE k == (i - 1) \div ChunkSize
           o == (i - 1) % ChunkSize
<1>1. GridFSTypeOK /\ PageFits /\ ChunksFit /\ CallFits /\ SavedFits
  BY DEF Inv
<1>2. ~Dirty /\ saved = length /\ End = length
  BY <1>1 DEF CallFits, SavedFits, Idle, End
<1>3. i - 1 \in Nat /\ length \in Nat /\ i - 1 < length
  BY <1>1 DEF GridFSTypeOK
<1>4. k \in Nat /\ o \in Nat /\ i - 1 = k * ChunkSize + o /\ o < ChunkSize
  BY <1>3, Division, Sizes
<1>5. ByteAt(i) = IF (IF page = None THEN FALSE ELSE k = n /\ o + 1 <= Len(page.data)) THEN page.data[o + 1]
                  ELSE IF (IF k \in DOMAIN chunks THEN o + 1 <= Len(chunks[k]) ELSE FALSE) THEN chunks[k][o + 1]
                  ELSE -1
  BY DEF ByteAt
<1> HIDE DEF k, o
<1>6. k * ChunkSize \in Nat /\ k * ChunkSize < End
  BY <1>2, <1>3, <1>4, Sizes
<1>7. k \in DOMAIN chunks /\ Len(chunks[k]) = Extent(k)
  BY <1>1, <1>2, <1>4, <1>6 DEF ChunksFit
<1>8. o < Extent(k) /\ Extent(k) \in Nat
  BY <1>2, <1>3, <1>4, <1>6, Sizes DEF Extent
<1>9. chunks[k][o + 1] = ByteAt(i)
  <2>1. o + 1 <= Len(chunks[k])
    BY <1>4, <1>7, <1>8
  <2>2. page # None /\ k = n => page.data = chunks[k]
    BY <1>1, <1>2, <1>6 DEF PageFits, Dirty
  <2>3. QED BY <1>5, <1>7, <2>1, <2>2
<1>10. QED BY <1>2, <1>7, <1>8, <1>9 DEF k, o

LEMMA InvGivesCursorIsCurrent == Inv => CursorIsCurrent
  BY DEF Inv, CursorFits, Holds, CursorIsCurrent

\* Page, cursor, chunks and document of a file agree, whatever is read, written and sought
\* and whichever updates and queries fail: a file that is not dirty is whole at the server,
\* the chunks that were fetched ahead are current, and a call fails without a failure of the
\* server only where mongoc_gridfs_file_seek has kept a cursor that ended too early.
THEOREM FileStaysSound == Spec => []FileIsSound
<1>1. Inv => FileIsSound
  BY InvGivesSavedIsStored, InvGivesCursorIsCurrent DEF Inv, FileIsSound
<1>2. QED BY <1>1, InvIsInvariant, PTL

-----------------------------------------------------------------------------
(* The bytes.                                                              *)

\* What was read and what is to be written is forgotten when the call is over.
CallIsClean ==
    /\ call.pc \notin {"writing", "extending"} => call.data = <<>>
    /\ call.pc # "reading" => call.got = <<>>

\* The part of a gap that was filled is zeros.
GapIsZero == call.pc = "extending" => \A i \in length + 1 .. pos : ByteAt(i) = 0

\* Byte i is in a chunk, at a place.
ChunkOf(i) == (i - 1) \div ChunkSize
PlaceOf(i) == ((i - 1) % ChunkSize) + 1

\* What a chunk has, in the page or at the server.
Data(k) == IF page # None /\ n = k THEN page.data ELSE chunks[k]

LEMMA Places ==
    ASSUME NEW i \in Nat, i >= 1
    PROVE  /\ ChunkOf(i) \in Nat /\ PlaceOf(i) \in Nat /\ PlaceOf(i) >= 1 /\ PlaceOf(i) <= ChunkSize
           /\ i = ChunkOf(i) * ChunkSize + PlaceOf(i)
<1>1. i - 1 \in Nat
  OBVIOUS
<1> DEFINE k == (i - 1) \div ChunkSize
           o == (i - 1) % ChunkSize
<1>2. k \in Nat /\ o \in Nat /\ i - 1 = k * ChunkSize + o /\ o < ChunkSize
  BY <1>1, Division, Sizes
<1> HIDE DEF k, o
<1>3. k * ChunkSize \in Nat
  BY <1>2, Sizes
<1>4. i = k * ChunkSize + (o + 1) /\ o + 1 \in Nat /\ o + 1 >= 1 /\ o + 1 <= ChunkSize
  BY <1>2, <1>3, Sizes
<1>5. QED BY <1>2, <1>4 DEF ChunkOf, PlaceOf, k, o

LEMMA PlaceIsUnique ==
    ASSUME NEW i \in Nat, NEW k \in Nat, NEW o \in Nat, o >= 1, o <= ChunkSize, i = k * ChunkSize + o
    PROVE  ChunkOf(i) = k /\ PlaceOf(i) = o
<1>1. k * ChunkSize \in Nat
  BY Sizes
<1>2. i - 1 \in Nat /\ o - 1 \in Nat /\ o - 1 < ChunkSize /\ i - 1 = k * ChunkSize + (o - 1)
  BY <1>1, Sizes
<1> DEFINE j == i - 1
           p == o - 1
<1> HIDE DEF j, p
<1>3. j \in Nat /\ p \in Nat /\ p < ChunkSize /\ j = k * ChunkSize + p
  BY <1>2 DEF j, p
<1>4. j \div ChunkSize = k /\ j % ChunkSize = p
  BY <1>3, Sizes, QuotientIsUnique
<1>5. QED BY <1>4, <1>2 DEF j, p, ChunkOf, PlaceOf

\* A byte before the end is in the data of its chunk.
IsThere(i) ==
    /\ PlaceOf(i) <= Len(Data(ChunkOf(i)))
    /\ ByteAt(i) = Data(ChunkOf(i))[PlaceOf(i)]
    /\ Data(ChunkOf(i)) \in Bytes

AllThere == \A i \in 1 .. End : IsThere(i)

LEMMA BytesAreThere == Inv /\ ~broken => AllThere
<1> SUFFICES ASSUME Inv, ~broken, NEW i \in 1 .. End PROVE IsThere(i)
  BY DEF AllThere
<1>1. GridFSTypeOK /\ PageFits /\ ChunksFit
  BY DEF Inv
<1>2. PICK e \in Nat : e = End
  BY <1>1, EndIsNatural
<1> DEFINE k == ChunkOf(i)
           o == PlaceOf(i)
<1>3. i \in Nat /\ i >= 1 /\ i <= e
  BY <1>2
<1>4. k \in Nat /\ o \in Nat /\ o >= 1 /\ o <= ChunkSize /\ i = k * ChunkSize + o
  BY <1>3, Places
<1>5. ByteAt(i) = IF (IF page = None THEN FALSE ELSE k = n /\ o <= Len(page.data)) THEN page.data[o]
                  ELSE IF (IF k \in DOMAIN chunks THEN o <= Len(chunks[k]) ELSE FALSE) THEN chunks[k][o]
                  ELSE -1
  BY DEF ByteAt, ChunkOf, PlaceOf
<1>6. IsThere(i) <=> o <= Len(Data(k)) /\ ByteAt(i) = Data(k)[o] /\ Data(k) \in Bytes
  BY DEF IsThere
<1> HIDE DEF k, o
<1>7. k * ChunkSize \in Nat /\ k * ChunkSize < e
  BY <1>3, <1>4, Sizes
<1>8. o <= Extent(k)
  <2>1. Extent(k) = IF e <= k * ChunkSize THEN 0
                    ELSE IF e - k * ChunkSize <= ChunkSize THEN e - k * ChunkSize ELSE ChunkSize
    BY <1>2 DEF Extent
  <2>2. QED BY <1>3, <1>4, <1>7, <2>1
<1>9. CASE page # None /\ n = k
  <2>1. Len(page.data) = Extent(k) /\ page.data \in Bytes
    BY <1>1, <1>9 DEF PageFits, GridFSTypeOK, PageType
  <2>2. Data(k) = page.data
    BY <1>9 DEF Data
  <2>3. ByteAt(i) = page.data[o]
    BY <1>5, <1>8, <1>9, <2>1
  <2>4. QED BY <1>6, <1>8, <2>1, <2>2, <2>3
<1>10. CASE ~(page # None /\ n = k)
  <2>1. k \in DOMAIN chunks /\ Len(chunks[k]) = Extent(k)
    BY <1>1, <1>2, <1>4, <1>7, <1>10 DEF ChunksFit, Dirty
  <2>2. Data(k) = chunks[k] /\ chunks[k] \in Bytes
    BY <1>1, <1>10, <2>1 DEF Data, GridFSTypeOK
  <2>3. ByteAt(i) = chunks[k][o]
    BY <1>5, <1>8, <1>10, <2>1
  <2>4. QED BY <1>6, <1>8, <2>1, <2>2, <2>3
<1>11. QED BY <1>9, <1>10

LEMMA BytesAreThereNext == Inv' /\ ~broken' => AllThere'
  BY BytesAreThere, PTL

\* Page and server together have the data they had.
Steady ==
    \/ chunks' = chunks /\ (page' = None <=> page = None) /\ (page # None => n' = n /\ page'.data = page.data)
    \/ chunks' = chunks /\ ~Dirty /\ ~Dirty'
    \/ PageStored /\ page # None /\ ~Dirty'

\* A chunk that is in a page that was not written to is that of the server.
AllClean == ~Dirty => \A k \in Nat : k * ChunkSize < End => Data(k) = chunks[k]

LEMMA CleanData == Inv /\ ~broken => AllClean
  BY DEF Inv, PageFits, Dirty, Data, AllClean

LEMMA CleanDataNext == Inv' /\ ~broken' => AllClean'
  BY CleanData, PTL

LEMMA SteadyData ==
    ASSUME Inv, ~broken, Inv', ~broken', Steady, NEW k \in Nat, k * ChunkSize < End, k * ChunkSize < End'
    PROVE  Data(k)' = Data(k)
<1>1. ~Dirty' => Data(k)' = chunks'[k]
  BY CleanDataNext DEF AllClean
<1>2. ~Dirty => Data(k) = chunks[k]
  BY CleanData DEF AllClean
<1>3. CASE chunks' = chunks /\ (page' = None <=> page = None) /\ (page # None => n' = n /\ page'.data = page.data)
  BY <1>3 DEF Data
<1>4. CASE chunks' = chunks /\ ~Dirty /\ ~Dirty'
  BY <1>1, <1>2, <1>4
<1>5. CASE PageStored /\ page # None /\ ~Dirty'
  <2>1. k = n => chunks'[k] = page.data
    BY <1>5 DEF PageStored
  <2>2. k # n => k \in DOMAIN chunks
    BY DEF Inv, ChunksFit
  <2>3. k # n => chunks'[k] = chunks[k]
    BY <1>5, <2>2 DEF PageStored
  <2>4. QED BY <1>1, <1>5, <2>1, <2>3 DEF Data
<1>6. QED BY <1>3, <1>4, <1>5 DEF Steady

LEMMA EndsAreNatural ==
    ASSUME Inv, Inv'
    PROVE  End \in Nat /\ End' \in Nat
  BY DEF Inv, GridFSTypeOK, End

\* A byte stays when the data of its chunk does, up to its place.
LEMMA ByteStays ==
    ASSUME Inv, ~broken, Inv', ~broken', NEW i \in 1 .. End, i \in 1 .. End',
           (Data(ChunkOf(i)))'[PlaceOf(i)] = Data(ChunkOf(i))[PlaceOf(i)]
    PROVE  ByteAt(i)' = ByteAt(i)
<1>1. IsThere(i)
  BY BytesAreThere DEF AllThere
<1>2. IsThere(i)'
  BY BytesAreThereNext DEF AllThere
<1>3. ByteAt(i)' = (Data(ChunkOf(i)))'[PlaceOf(i)]
  BY <1>2 DEF IsThere, ChunkOf, PlaceOf
<1>4. ByteAt(i) = Data(ChunkOf(i))[PlaceOf(i)]
  BY <1>1 DEF IsThere
<1>5. QED BY <1>3, <1>4

LEMMA SteadyBytes ==
    ASSUME Inv, ~broken, Inv', ~broken', Steady
    PROVE  \A i \in 1 .. End : i <= End' => ByteAt(i)' = ByteAt(i)
<1> SUFFICES ASSUME NEW i \in 1 .. End, i <= End' PROVE ByteAt(i)' = ByteAt(i)
  OBVIOUS
<1>1. End \in Nat /\ End' \in Nat
  BY EndsAreNatural
<1>2. i \in Nat /\ i >= 1
  BY <1>1
<1>3. ChunkOf(i) \in Nat /\ PlaceOf(i) \in Nat /\ PlaceOf(i) >= 1 /\ i = ChunkOf(i) * ChunkSize + PlaceOf(i)
  BY <1>2, Places
<1>4. ChunkOf(i) * ChunkSize < End /\ ChunkOf(i) * ChunkSize < End'
  <2>1. ChunkOf(i) * ChunkSize \in Nat
    BY <1>3, Sizes
  <2>2. QED BY <1>1, <1>3, <2>1
<1>5. (Data(ChunkOf(i)))' = Data(ChunkOf(i))
  <2>1. PICK k \in Nat : k = ChunkOf(i)
    BY <1>3
  <2>2. Data(k)' = Data(k)
    BY <1>4, <2>1, SteadyData
  <2>3. QED BY <2>1, <2>2 DEF ChunkOf
<1>6. i \in 1 .. End'
  BY <1>1
<1>7. QED BY <1>5, <1>6, ByteStays

-----------------------------------------------------------------------------
(* Which steps leave the bytes alone.                                      *)

LEMMA SeekPageIsSteady ==
    ASSUME Inv, ~broken, ~broken', NEW offset \in Nat, SeekPage(offset), n' = offset \div ChunkSize
    PROVE  Steady
<1>1. GridFSTypeOK
  BY DEF Inv
<1>2. CASE offset \div ChunkSize = n
  <2>1. /\ n' = n /\ chunks' = chunks
        /\ page' = IF page = None THEN None ELSE [page EXCEPT !.offset = offset % ChunkSize]
    BY <1>2 DEF SeekPage
  <2>2. page # None => page' \in PageType /\ page'.data = page.data
    <3>1. offset % ChunkSize \in Nat
      BY Division, Sizes
    <3>2. QED BY <1>1, <2>1, <3>1 DEF GridFSTypeOK, PageType
  <2>3. page' = None <=> page = None
    BY <2>1, <2>2, NoneAssumption
  <2>4. QED BY <2>1, <2>2, <2>3 DEF Steady
<1>3. CASE offset \div ChunkSize # n /\ Dirty
  <2>1. PICK f \in Flush : /\ AfterFlush(f)
                           /\ page' = IF f.chunk THEN None ELSE page
                           /\ broken' = (broken \/ ~Flushed(f))
    BY <1>3 DEF SeekPage, Dirty
  <2>2. f.chunk
    BY <2>1 DEF Flushed
  <2>3. PageStored /\ page' = None
    BY <2>1, <2>2 DEF AfterFlush, PageStored
  <2>4. QED BY <1>3, <2>3 DEF Steady, Dirty
<1>4. CASE offset \div ChunkSize # n /\ ~Dirty
  <2>1. page' = None /\ chunks' = chunks
    BY <1>4 DEF SeekPage, Dirty
  <2>2. QED BY <1>4, <2>1 DEF Steady, Dirty
<1>5. QED BY <1>2, <1>3, <1>4

\* A page that was brought in has not been written to.
LEMMA LoadedIsClean ==
    ASSUME NEW pc, Loads(pc)
    PROVE  ~Dirty' /\ chunks' = chunks
<1>1. PICK r \in Refresh(pos) : page' = r.page /\ chunks' = chunks
  BY DEF Loads
<1> DEFINE k == pos \div ChunkSize
           o == pos % ChunkSize
           c == IF cursor = None THEN NewCursor(k) ELSE IF KeepCursor(k) THEN cursor ELSE NewCursor(k)
<1>2. \/ r = [ok |-> TRUE, page |-> NewPage(<<>>, o), cursor |-> cursor, fails |-> 0]
      \/ r \in Taken(c, k, o)
      \/ r \in Untaken(c)
  BY DEF Refresh
<1> HIDE DEF c, k, o
<1>3. \A d, e : NewPage(d, e).dirty = FALSE
  BY DEF NewPage
<1>4. r.page = None \/ r.page.dirty = FALSE
  <2>1. CASE r = [ok |-> TRUE, page |-> NewPage(<<>>, o), cursor |-> cursor, fails |-> 0]
    <3>1. r.page = NewPage(<<>>, o)
      BY <2>1
    <3>2. QED BY <1>3, <3>1
  <2>2. CASE r \in Taken(c, k, o)
    <3> DEFINE m == k - c.at + 1
    <3>1. PICK f \in Fetched(c, m) :
              r = IF Len(f.batch) >= m /\ f.batch[m].n = k
                  THEN [ok |-> TRUE, page |-> NewPage(f.batch[m].data, o),
                        cursor |-> [f EXCEPT !.at = k + 1, !.batch = SubSeq(f.batch, m + 1, Len(f.batch))],
                        fails |-> 0]
                  ELSE [ok |-> FALSE, page |-> None,
                        cursor |-> [f EXCEPT !.at = f.at + Min({m, Len(f.batch)}),
                                             !.batch = SubSeq(f.batch, m + 1, Len(f.batch))], fails |-> 0]
      BY <2>2 DEF Taken
    <3>2. r.page = NewPage(f.batch[m].data, o) \/ r.page = None
      BY <3>1
    <3>3. QED BY <1>3, <3>2
  <2>3. CASE r \in Untaken(c)
    <3>1. r.page = None
      BY <2>3 DEF Untaken
    <3>2. QED BY <3>1
  <2>4. QED BY <1>2, <2>1, <2>2, <2>3
<1>5. page' = None \/ page'.dirty = FALSE
  BY <1>1, <1>4
<1>6. QED BY <1>1, <1>5 DEF Dirty

LEMMA FlushesAreSteady ==
    ASSUME Inv, ~broken, ~broken', FillNext \/ WriteNext \/ Save
    PROVE  Steady
<1>1. GridFSTypeOK
  BY DEF Inv
<1>2. CASE FillNext
  <2>1. PICK f \in Flush : /\ AfterFlush(f) /\ page # None
                           /\ page' = IF f.chunk THEN None ELSE page
                           /\ broken' = ~Flushed(f)
    BY <1>2 DEF FillNext
  <2>2. f.chunk
    BY <2>1 DEF Flushed
  <2>3. QED BY <2>1, <2>2 DEF AfterFlush, PageStored, Steady, Dirty
<1>3. CASE WriteNext
  <2>1. PICK f \in Flush : /\ AfterFlush(f) /\ page # None /\ n' = n
                           /\ page' = IF f.chunk THEN None ELSE [page EXCEPT !.dirty = TRUE]
    BY <1>3 DEF WriteNext
  <2>2. CASE f.chunk
    BY <2>1, <2>2 DEF AfterFlush, PageStored, Steady, Dirty
  <2>3. CASE ~f.chunk
    <3>1. page' = [page EXCEPT !.dirty = TRUE] /\ chunks' = chunks
      BY <2>1, <2>3 DEF AfterFlush
    <3>2. PICK q \in BOOLEAN : q = TRUE
      OBVIOUS
    <3>3. page' = [page EXCEPT !.dirty = q]
      BY <3>1, <3>2
    <3>4. page' \in PageType /\ page'.data = page.data
      BY <1>1, <2>1, <3>3 DEF GridFSTypeOK, PageType
    <3>5. QED BY <2>1, <3>1, <3>4, NoneAssumption DEF Steady
  <2>4. QED BY <2>2, <2>3
<1>4. CASE Save
  <2>1. CASE Dirty
    <3>1. PICK f \in Flush :
             /\ chunks' = IF f.chunk THEN [i \in DOMAIN chunks \cup {n} |-> IF i = n THEN page.data ELSE chunks[i]]
                          ELSE chunks
             /\ page' = IF f.chunk THEN None ELSE page
             /\ ~f.chunk => broken'
      BY <1>4, <2>1 DEF Save, Dirty
    <3>2. f.chunk
      BY <3>1
    <3>3. QED BY <2>1, <3>1, <3>2 DEF PageStored, Steady, Dirty
  <2>2. CASE ~Dirty
    <3>1. page' = page /\ chunks' = chunks /\ n' = n
      BY <1>4, <2>2 DEF Save, Dirty
    <3>2. QED BY <3>1 DEF Steady
  <2>3. QED BY <2>1, <2>2
<1>5. QED BY <1>2, <1>3, <1>4

LEMMA CallsAreSteady ==
    ASSUME Inv, ~broken,
           \/ UNCHANGED <<file, chunks>>
           \/ ReadPage
           \/ ExtendEnds
           \/ Reopen
    PROVE  Steady
<1>1. GridFSTypeOK
  BY DEF Inv
<1>2. CASE UNCHANGED <<file, chunks>>
  BY <1>2 DEF file, Steady
<1>3. CASE ExtendEnds
  BY <1>3 DEF ExtendEnds, Steady
<1>4. CASE ReadPage
  <2>1. page # None /\ n' = n /\ chunks' = chunks /\ page' = [page EXCEPT !.offset = page.offset + Gives]
    BY <1>4 DEF ReadPage
  <2>2. page'.data = page.data /\ page' # None
    <3>1. page \in PageType
      BY <1>1, <2>1 DEF GridFSTypeOK
    <3>2. page' \in PageType
      <4>1. page.offset + Gives \in Nat
        <5>1. PICK l \in Nat : l = Len(page.data)
          BY <3>1 DEF PageType, Bytes
        <5>2. page.offset \in Nat /\ call.want \in Nat
          BY <1>1, <3>1 DEF GridFSTypeOK, PageType, CallType
        <5>3. Gives = IF call.want <= l - page.offset THEN call.want ELSE l - page.offset
          BY <5>1, <5>2, MinOfTwo DEF Gives
        <5>4. Gives > 0
          BY <1>4 DEF ReadPage
        <5>5. QED BY <5>2, <5>1, <5>3, <5>4
      <4>2. QED BY <2>1, <3>1, <4>1 DEF PageType
    <3>3. QED BY <2>1, <3>1, <3>2, NoneAssumption DEF PageType
  <2>3. QED BY <2>1, <2>2 DEF Steady
<1>5. CASE Reopen
  <2>1. ~Dirty
    BY <1>5 DEF Inv, CallFits, Reopen, Idle
  <2>2. page' = None /\ chunks' = chunks
    BY <1>5 DEF Reopen
  <2>3. QED BY <2>1, <2>2 DEF Steady, Dirty
<1>6. QED BY <1>2, <1>3, <1>4, <1>5

-----------------------------------------------------------------------------
(* Which steps change bytes.                                               *)

\* A page that is not flushed has the bytes at its offset replaced.
LEMMA OverlaidBytes ==
    ASSUME Inv, ~broken, Inv', ~broken', page # None, NEW src \in Bytes, page' = Overlaid(page, src),
           n' = n, chunks' = chunks, pos' = pos + Len(src),
           pos <= End, End <= End', pos' <= End'
    PROVE  /\ \A i \in 1 .. End : i <= pos \/ i > pos + Len(src) => ByteAt(i)' = ByteAt(i)
           /\ \A j \in 1 .. Len(src), i \in Nat : i = pos + j => ByteAt(i)' = src[j]
<1>1. GridFSTypeOK /\ PageFits /\ GridFSTypeOK'
  BY DEF Inv
<1>2. page \in PageType /\ page.data \in Bytes /\ page.offset \in Nat /\ n \in Nat /\ pos \in Nat
  BY <1>1 DEF GridFSTypeOK, PageType
<1>3. PICK l \in Nat, m \in Nat, o \in Nat, s \in Nat :
          l = Len(page.data) /\ m = Len(src) /\ o = page.offset /\ s = n * ChunkSize
  BY <1>2, Sizes DEF Bytes
<1>4. s + o = pos /\ ChunkSize \in Nat
  BY <1>1, <1>3, Sizes DEF PageFits
<1>5. End \in Nat /\ End' \in Nat
  BY EndsAreNatural
<1>6. /\ page' \in PageType /\ page'.offset = o + m
      /\ \A i \in 1 .. o : i <= l => page'.data[i] = page.data[i]
      /\ \A i \in 1 .. m : page'.data[o + i] = src[i]
      /\ \A i \in 1 .. l : i > o + m => page'.data[i] = page.data[i]
  <2>1. PICK a \in Nat : a = o + m /\ a = page.offset + Len(src)
    BY <1>3
  <2> DEFINE q == Overlaid(page, src)
  <2>2. /\ q \in PageType /\ q.offset = a
        /\ \A i \in 1 .. page.offset : i <= Len(page.data) => q.data[i] = page.data[i]
        /\ \A i \in 1 .. Len(src) : q.data[page.offset + i] = src[i]
        /\ \A i \in 1 .. Len(page.data) : i > a => q.data[i] = page.data[i]
    BY <1>2, <2>1, OverlaidPage, ZenonT(40)
  <2>3. page' = q
    OBVIOUS
  <2> HIDE DEF q
  <2>4. QED BY <1>3, <2>1, <2>2, <2>3
<1>7. page' # None /\ o + m <= ChunkSize
  BY <1>1, <1>6, NoneAssumption DEF GridFSTypeOK
<1>8. Data(n) = page.data /\ Data(n)' = page'.data
  BY <1>7 DEF Data
<1>9. ASSUME NEW i \in 1 .. End, i <= pos \/ i > pos + m PROVE ByteAt(i)' = ByteAt(i)
  <2>1. i \in Nat /\ i >= 1 /\ i \in 1 .. End'
    BY <1>5
  <2>2. PICK k \in Nat, p \in Nat :
            k = ChunkOf(i) /\ p = PlaceOf(i) /\ p >= 1 /\ p <= ChunkSize /\ i = k * ChunkSize + p
    BY <2>1, Places
  <2>3. (Data(k))'[p] = Data(k)[p]
    <3>1. CASE k # n
      BY <3>1 DEF Data
    <3>2. CASE k = n
      <4>1. i = s + p
        BY <1>3, <2>2, <3>2
      <4>2. p <= o \/ p > o + m
        <5>1. pos \in Nat /\ i = s + p /\ pos = s + o /\ (i <= pos \/ i > pos + m)
          BY <1>2, <1>4, <1>9, <4>1
        <5>2. QED BY <5>1
      <4>3. p <= l
        BY <1>3, <1>8, <2>2, <3>2, BytesAreThere DEF AllThere, IsThere
      <4>4. page'.data[p] = page.data[p]
        BY <1>6, <2>2, <4>2, <4>3
      <4>5. QED BY <1>8, <3>2, <4>4
    <3>3. QED BY <3>1, <3>2
  <2>4. (Data(ChunkOf(i)))'[PlaceOf(i)] = Data(ChunkOf(i))[PlaceOf(i)]
    BY <2>2, <2>3 DEF ChunkOf
  <2>5. QED BY <2>1, <2>4, ByteStays
<1>10. ASSUME NEW j \in 1 .. m, NEW i \in Nat, i = pos + j PROVE ByteAt(i)' = src[j]
  <2>1. i = pos + j
    BY <1>10
  <2>2. i >= 1 /\ i \in 1 .. End'
    BY <1>2, <1>3, <1>5, <2>1
  <2>3. PICK p \in Nat : p = o + j /\ p >= 1 /\ p <= ChunkSize
    BY <1>4, <1>7
  <2>4. i = n * ChunkSize + p
    <3>1. i = s + p
      BY <1>4, <2>1, <2>3
    <3>2. QED BY <1>3, <3>1
  <2>5. ChunkOf(i) = n /\ PlaceOf(i) = p
    BY <1>2, <2>3, <2>4, PlaceIsUnique
  <2>6. IsThere(i)'
    BY <2>2, BytesAreThereNext DEF AllThere
  <2>7. ByteAt(i)' = (Data(n))'[p]
    BY <2>5, <2>6 DEF IsThere, ChunkOf, PlaceOf
  <2>8. (Data(n))'[p] = src[j]
    BY <1>6, <1>8, <2>3
  <2>9. QED BY <2>7, <2>8
<1>11. QED BY <1>3, <1>9, <1>10

\* A read that brings in another page can only change the bytes of the page it leaves.
LEMMA LoadedBytes ==
    ASSUME Inv, ~broken, Inv', ~broken', NEW pc, Loads(pc), NEW i \in 1 .. End, i \in 1 .. End',
           Dirty => ChunkOf(i) # n
    PROVE  ByteAt(i)' = ByteAt(i)
<1>1. ~Dirty' /\ chunks' = chunks
  BY LoadedIsClean
<1>2. End \in Nat /\ End' \in Nat
  BY EndsAreNatural
<1>3. i \in Nat /\ i >= 1 /\ i <= End /\ i <= End'
  BY <1>2
<1>4. PICK k \in Nat, p \in Nat :
          k = ChunkOf(i) /\ p = PlaceOf(i) /\ p >= 1 /\ p <= ChunkSize /\ i = k * ChunkSize + p
  BY <1>3, Places
<1>5. k * ChunkSize < End /\ k * ChunkSize < End'
  <2>1. k * ChunkSize \in Nat
    BY Sizes
  <2>2. QED BY <1>2, <1>3, <1>4, <2>1
<1>6. Data(k)' = chunks[k]
  BY <1>1, <1>5, CleanDataNext DEF AllClean
<1>7. Data(k) = chunks[k]
  <2>1. CASE Dirty
    BY <1>4, <2>1 DEF Data
  <2>2. CASE ~Dirty
    BY <1>5, <2>2, CleanData DEF AllClean
  <2>3. QED BY <2>1, <2>2
<1>8. (Data(ChunkOf(i)))'[PlaceOf(i)] = Data(ChunkOf(i))[PlaceOf(i)]
  BY <1>4, <1>6, <1>7 DEF ChunkOf
<1>9. QED BY <1>8, ByteStays

\* What a fill and a write put into the page.
LEMMA FilledWithZeros ==
    ASSUME Inv, ~broken, Fill
    PROVE  \E src \in Bytes :
              /\ page' = Overlaid(page, src) /\ pos' = pos + Len(src)
              /\ Len(src) \in Nat /\ \A j \in 1 .. Len(src) : src[j] = 0
<1>1. /\ call.pc = "extending" /\ page # None /\ pos < call.target /\ page.offset < ChunkSize
      /\ page' = PageMemset0(page, call.target - pos)
      /\ pos' = pos + page'.offset - page.offset
  BY DEF Fill
<1>2. /\ pos \in Nat /\ page \in PageType /\ call.target \in Nat /\ page.offset \in Nat
  BY <1>1 DEF Inv, GridFSTypeOK, PageType, CallType
<1> DEFINE r == Min({call.target - pos, ChunkSize - page.offset})
           zeros == [i \in 1 .. r |-> 0]
<1>3. r \in Nat
  <2>1. r = IF call.target - pos <= ChunkSize - page.offset THEN call.target - pos ELSE ChunkSize - page.offset
    BY <1>2, MinOfTwo, Sizes
  <2> HIDE DEF r
  <2>2. QED BY <1>1, <1>2, <2>1, Sizes
<1>4. page' = Overlaid(page, zeros)
  BY <1>1 DEF PageMemset0
<1> HIDE DEF r
<1>5. zeros \in Bytes /\ Len(zeros) = r /\ \A j \in 1 .. r : zeros[j] = 0
  BY <1>3 DEF Bytes
<1> HIDE DEF zeros
<1>6. page'.offset = page.offset + r
  <2>1. page.offset + r \in Nat /\ page.offset + r = page.offset + Len(zeros)
    BY <1>2, <1>3, <1>5
  <2>2. QED BY <1>2, <1>4, <1>5, <2>1, OverlaidPage, ZenonT(40)
<1>7. pos' = pos + r
  BY <1>1, <1>2, <1>3, <1>6
<1>8. QED BY <1>3, <1>4, <1>5, <1>7

LEMMA WrittenFromData ==
    ASSUME Inv, ~broken, WritePage
    PROVE  \E m \in 1 .. Len(call.data) :
              /\ SubSeq(call.data, 1, m) \in Bytes /\ Len(SubSeq(call.data, 1, m)) = m
              /\ page' = Overlaid(page, SubSeq(call.data, 1, m)) /\ pos' = pos + m
              /\ length' = IF length <= pos + m THEN pos + m ELSE length
              /\ IF m = Len(call.data) THEN call' = NewCall /\ isDirty' = TRUE
                 ELSE call' = [call EXCEPT !.data = SubSeq(call.data, m + 1, Len(call.data))] /\ isDirty' = isDirty
<1> DEFINE r == page'.offset - page.offset
<1>1. /\ call.pc = "writing" /\ page # None /\ pos <= length /\ page.offset < ChunkSize
      /\ page' = PageWrite(page, call.data)
      /\ pos' = pos + r
      /\ length' = Max({length, pos + r})
      /\ IF r = Len(call.data) THEN call' = NewCall /\ isDirty' = TRUE
         ELSE call' = [call EXCEPT !.data = SubSeq(call.data, r + 1, Len(call.data))] /\ isDirty' = isDirty
  BY DEF WritePage, Returns
<1>2. /\ pos \in Nat /\ length \in Nat /\ page \in PageType /\ call.data \in Bytes /\ page.offset \in Nat
      /\ call.data # <<>>
  BY <1>1 DEF Inv, GridFSTypeOK, PageType, CallType, CallFits
<1>3. PICK l \in Nat : l = Len(call.data) /\ l >= 1
  BY <1>2 DEF Bytes
<1> DEFINE m == Min({Len(call.data), ChunkSize - page.offset})
           src == SubSeq(call.data, 1, m)
<1>4. m \in 1 .. l
  <2>1. m = IF l <= ChunkSize - page.offset THEN l ELSE ChunkSize - page.offset
    BY <1>2, <1>3, MinOfTwo, Sizes
  <2> HIDE DEF m
  <2>2. QED BY <1>1, <1>2, <1>3, <2>1, Sizes
<1>5. page' = Overlaid(page, src)
  BY <1>1 DEF PageWrite
<1> HIDE DEF m
<1>6. src \in Bytes /\ Len(src) = m
  <2>1. m \in 0 .. Len(call.data)
    BY <1>3, <1>4
  <2>2. QED BY <1>2, <2>1, FrontOfSequence DEF Bytes
<1> HIDE DEF src
<1>7. page'.offset = page.offset + m
  <2>1. page.offset + m \in Nat /\ page.offset + m = page.offset + Len(src)
    BY <1>2, <1>4, <1>6
  <2>2. Overlaid(page, src).offset = page.offset + m
    <3>1. PICK a \in Nat : a = page.offset + m /\ a = page.offset + Len(src)
      BY <2>1
    <3>2. Overlaid(page, src).offset = a
      BY <1>2, <1>6, <3>1, OverlaidPage
    <3>3. QED BY <3>1, <3>2
  <2>3. QED BY <1>5, <2>2
<1>8. r = m
  BY <1>2, <1>4, <1>7
<1> HIDE DEF r
<1>9. length' = IF length <= pos + m THEN pos + m ELSE length
  <2>1. pos + m \in Nat
    BY <1>2, <1>4
  <2>2. QED BY <1>1, <1>2, <1>8, <2>1, MaxOfTwo
<1>10. m \in 1 .. Len(call.data)
  BY <1>3, <1>4
<1>11. QED BY <1>1, <1>5, <1>6, <1>8, <1>9, <1>10 DEF src

\* Every step but a fill, a write and a read that leaves a page it has written to.
Quiet ==
    \/ LoadToRead \/ ReadPage
    \/ ReadEnds /\ (Dirty => UNCHANGED <<file, chunks>>)
    \/ LoadToWrite \/ BeginExtend \/ LoadToExtend \/ FillNext \/ ExtendEnds \/ WriteNext
    \/ Save \/ Reopen
    \/ \E read \in Reads : BeginRead(read[1], read[2])
    \/ \E data \in Writes : BeginWrite(data)
    \/ \E offset \in 0 .. MaxLength : Seek(offset)
    \/ UNCHANGED vars

LEMMA QuietSteps ==
    ASSUME Inv, ~broken, Inv', ~broken', Quiet
    PROVE  \A i \in 1 .. End : i <= End' => ByteAt(i)' = ByteAt(i)
<1>1. CASE LoadToRead \/ LoadToWrite \/ LoadToExtend
  <2>1. ~Dirty /\ ~Dirty' /\ chunks' = chunks
    BY <1>1, LoadedIsClean DEF LoadToRead, LoadToWrite, LoadToExtend, Dirty
  <2>2. QED BY <2>1, SteadyBytes DEF Steady
<1>2. CASE ReadEnds /\ (Dirty => UNCHANGED <<file, chunks>>)
  <2>1. CASE UNCHANGED <<file, chunks>>
    BY <2>1, CallsAreSteady, SteadyBytes
  <2>2. CASE ~Dirty /\ Loads("reading")
    <3>1. ~Dirty /\ ~Dirty' /\ chunks' = chunks
      BY <2>2, LoadedIsClean
    <3>2. QED BY <3>1, SteadyBytes DEF Steady
  <2>3. Loads("reading") \/ UNCHANGED <<file, chunks>>
    BY <1>2 DEF ReadEnds
  <2>4. QED BY <1>2, <2>1, <2>2, <2>3
<1>3. CASE ReadPage \/ ExtendEnds \/ Reopen
  BY <1>3, CallsAreSteady, SteadyBytes
<1>4. CASE \/ \E read \in Reads : BeginRead(read[1], read[2])
           \/ \E data \in Writes : BeginWrite(data)
           \/ UNCHANGED vars
  <2>1. UNCHANGED <<file, chunks>>
    BY <1>4 DEF BeginRead, BeginWrite, vars, file
  <2>2. QED BY <2>1, CallsAreSteady, SteadyBytes
<1>5. CASE FillNext \/ WriteNext \/ Save
  BY <1>5, FlushesAreSteady, SteadyBytes
<1>6. CASE BeginExtend
  <2>1. SeekPage(length) /\ n' = length \div ChunkSize /\ length \in Nat
    BY <1>6 DEF BeginExtend, Inv, GridFSTypeOK
  <2>2. QED BY <2>1, SeekPageIsSteady, SteadyBytes
<1>7. CASE \E offset \in 0 .. MaxLength : Seek(offset)
  <2>1. PICK offset \in 0 .. MaxLength : Seek(offset)
    BY <1>7
  <2>2. SeekPage(offset) /\ n' = offset \div ChunkSize /\ offset \in Nat
    BY <2>1, GridFSAssumption DEF Seek
  <2>3. QED BY <2>2, SeekPageIsSteady, SteadyBytes
<1>8. QED BY <1>1, <1>2, <1>3, <1>4, <1>5, <1>6, <1>7 DEF Quiet

\* The length is within the bytes.
LEMMA LengthIsWithin ==
    ASSUME Inv, ~broken
    PROVE  length \in Nat /\ End \in Nat /\ length <= End
  BY DEF Inv, GridFSTypeOK, CallFits, End

LEMMA LengthIsWithinNext ==
    ASSUME Inv', ~broken'
    PROVE  length' \in Nat /\ End' \in Nat /\ length' <= End'
  BY DEF Inv, GridFSTypeOK, CallFits, End

\* A read leaves a page at its end.
LEMMA ReadLeavesAtEnd ==
    ASSUME Inv, ~broken, ReadEnds, Dirty, ~UNCHANGED <<file, chunks>>
    PROVE  call.pc = "reading" /\ Loads("reading") /\ page.dirty /\ pos % ChunkSize = 0
<1>1. /\ call.pc = "reading" /\ page # None /\ Gives = 0 /\ Loads("reading")
      /\ call.want # 0 /\ length # pos
  BY DEF ReadEnds
<1>2. GridFSTypeOK /\ PageFits /\ CallFits
  BY DEF Inv
<1>3. pos \in Nat /\ length \in Nat /\ n \in Nat
  BY <1>2 DEF GridFSTypeOK
<1>4. End = length /\ pos < length
  BY <1>1, <1>2, <1>3 DEF End, CallFits
<1>5. pos = n * ChunkSize + ChunkSize
  BY <1>1, <1>2, <1>4, PageIsPassed
<1>6. PICK k \in Nat, z \in Nat : k = n + 1 /\ z = 0
  BY <1>3
<1>7. k * ChunkSize = n * ChunkSize + ChunkSize
  BY <1>3, <1>6, Sizes
<1>8. pos = k * ChunkSize + z /\ z < ChunkSize
  <2>1. n * ChunkSize \in Nat /\ ChunkSize \in Nat \ {0}
    BY <1>3, Sizes
  <2>2. QED BY <1>5, <1>6, <1>7, <2>1
<1>9. pos % ChunkSize = z
  BY <1>3, <1>8, QuotientIsUnique, Sizes
<1>10. QED BY <1>1, <1>6, <1>9 DEF Dirty

LEMMA NextForgetsByReading ==
    ASSUME Inv, Inv', Next, NEW i \in 1 .. length, i <= length', ByteAt(i)' # ByteAt(i)
    PROVE  broken' \/ call.pc = "writing" \/ (call.pc = "reading" /\ page.dirty /\ pos % ChunkSize = 0)
<1> SUFFICES ASSUME ~broken', call.pc # "writing"
             PROVE  call.pc = "reading" /\ page.dirty /\ pos % ChunkSize = 0
  OBVIOUS
<1>1. ~broken
  BY DEF Next
<1>2. i \in 1 .. End /\ i <= End'
  BY <1>1, LengthIsWithin, LengthIsWithinNext
<1>3. ~Quiet
  BY <1>1, <1>2, QuietSteps
<1>4. Fill \/ WritePage \/ (ReadEnds /\ Dirty /\ ~UNCHANGED <<file, chunks>>)
  BY <1>3 DEF Next, Step, Quiet
<1>5. ~WritePage
  BY DEF WritePage
<1>6. ~Fill
  <2> SUFFICES ASSUME Fill PROVE FALSE
    OBVIOUS
  <2>1. PICK src \in Bytes : page' = Overlaid(page, src) /\ pos' = pos + Len(src) /\ Len(src) \in Nat
    BY <1>1, FilledWithZeros
  <2>2. page # None /\ n' = n /\ chunks' = chunks /\ End = pos /\ End' = pos' /\ pos \in Nat
    BY DEF Fill, End, Inv, GridFSTypeOK
  <2>3. pos <= End /\ End <= End' /\ pos' <= End'
    BY <2>1, <2>2
  <2>4. i <= pos
    BY <1>2, <2>2
  <2>5. QED BY <1>1, <1>2, <2>1, <2>2, <2>3, <2>4, OverlaidBytes
<1>7. QED BY <1>1, <1>4, <1>5, <1>6, ReadLeavesAtEnd

\* A write is only forgotten by a read that goes on to the next chunk, while the page with
\* the write has not been flushed.
THEOREM WritesAreForgottenByReads == Spec => OnlyReadsForget
<1>1. ASSUME Inv, Inv', [Next]_vars
      PROVE  [\A i \in 1 .. length : i <= length' /\ ByteAt(i)' # ByteAt(i)
                => broken' \/ call.pc = "writing" \/ (call.pc = "reading" /\ page.dirty /\ pos % ChunkSize = 0)]_vars
  BY <1>1, NextForgetsByReading
<1>2. QED BY <1>1, InvIsInvariant, PTL DEF Spec, OnlyReadsForget

-----------------------------------------------------------------------------
(* The file as a sequence of bytes.                                        *)

\* What ByteFile calls at and safe.
At == IF call.pc = "extending" THEN call.target ELSE pos
Safe == ~isDirty /\ call.pc \notin {"writing", "extending"}

LEMMA ContentsAreBytes ==
    ASSUME Inv, ~broken
    PROVE  /\ Contents \in Bytes /\ Len(Contents) = length
           /\ \A i \in 1 .. length : Contents[i] = ByteAt(i)
<1>1. length \in Nat /\ End \in Nat /\ length <= End
  BY LengthIsWithin
<1>2. ASSUME NEW i \in 1 .. length PROVE ByteAt(i) \in 0 .. 9
  <2>1. i \in 1 .. End /\ i \in Nat /\ i >= 1
    BY <1>1
  <2>2. IsThere(i)
    BY <2>1, BytesAreThere DEF AllThere
  <2>3. PICK d \in Bytes, o \in Nat :
            d = Data(ChunkOf(i)) /\ o = PlaceOf(i) /\ o >= 1 /\ o <= Len(d) /\ ByteAt(i) = d[o]
    BY <2>1, <2>2, Places DEF IsThere
  <2>4. QED BY <2>3 DEF Bytes
<1>3. Contents = [i \in 1 .. length |-> ByteAt(i)]
  BY DEF Contents
<1>4. Contents \in Seq(0 .. 9) /\ Len(Contents) = length
  BY <1>1, <1>2, <1>3
<1>5. QED BY <1>3, <1>4 DEF Bytes

ContentsFit ==
    /\ Contents \in Bytes /\ Len(Contents) = length
    /\ \A i \in 1 .. length : Contents[i] = ByteAt(i)

LEMMA ContentsFitNow == Inv /\ ~broken => ContentsFit
  BY ContentsAreBytes DEF ContentsFit

LEMMA ContentsFitNext == Inv' /\ ~broken' => ContentsFit'
  BY ContentsFitNow, PTL

\* The contents afterwards.
LEMMA ContentsNext == Contents' = [i \in 1 .. length' |-> ByteAt(i)']
  BY DEF Contents

LEMMA ContentsAreBytesNext ==
    ASSUME Inv', ~broken'
    PROVE  /\ Contents' \in Bytes /\ Len(Contents') = length'
           /\ \A i \in 1 .. length' : Contents'[i] = ByteAt(i)'
<1>1. Inv' /\ ~broken' => ContentsFit'
  BY ContentsFitNext
<1>2. QED BY <1>1 DEF ContentsFit

LEMMA ContentsStay ==
    ASSUME length' = length, \A i \in 1 .. length : ByteAt(i)' = ByteAt(i)
    PROVE  Contents' = Contents
<1>1. Contents = [i \in 1 .. length |-> ByteAt(i)]
  BY DEF Contents
<1>2. QED BY <1>1, ContentsNext

LEMMA QuietContents ==
    ASSUME Inv, ~broken, Inv', ~broken', Quiet, length' = length
    PROVE  Contents' = Contents
<1>1. length \in Nat /\ End \in Nat /\ length <= End /\ End' \in Nat /\ length' <= End'
  BY LengthIsWithin, LengthIsWithinNext
<1>2. \A i \in 1 .. length : ByteAt(i)' = ByteAt(i)
  BY <1>1, QuietSteps
<1>3. QED BY <1>2, ContentsStay

LEMMA Stutters ==
    ASSUME ~broken, ~broken', Contents' = Contents, At' = At, call'.data = call.data, call'.got = call.got,
           Safe' <=> Safe, broken' = broken
    PROVE  UNCHANGED Abstract!vars
<1>1. Safe' = Safe
  BY Zenon DEF Safe
<1>2. QED BY <1>1 DEF Abstract!vars, At, Safe

\* The step of ByteFile that is taken when everything but call and position is as before.
LEMMA AbstractNext ==
    ASSUME ~broken, ~broken', Abstract!Normal
    PROVE  Abstract!Next
  BY DEF Abstract!Next

LEMMA NewCallIsClean ==
    /\ NewCall.data = <<>> /\ NewCall.got = <<>> /\ NewCall.pc = "idle"
    /\ [NewCall EXCEPT !.failed = TRUE].data = <<>> /\ [NewCall EXCEPT !.failed = TRUE].got = <<>>
    /\ [NewCall EXCEPT !.failed = TRUE].pc = "idle"
  BY DEF NewCall

\* The load of a page keeps the call as it is, or ends it.
LEMMA LoadedCall ==
    ASSUME Inv, Loads(call.pc)
    PROVE  /\ call' = call \/ call' = [NewCall EXCEPT !.failed = TRUE]
           /\ pos' = pos /\ length' = length /\ isDirty' = isDirty /\ broken' = broken
<1>1. PICK r \in Refresh(pos) :
          /\ IF r.ok THEN call' = [call EXCEPT !.pc = call.pc] ELSE Fails
          /\ UNCHANGED <<pos, length, isDirty, chunks, saved, broken>>
  BY DEF Loads
<1>2. call \in CallType
  BY DEF Inv, GridFSTypeOK
<1>3. [call EXCEPT !.pc = call.pc] = call
  BY <1>2 DEF CallType
<1>4. QED BY <1>1, <1>3 DEF Fails

\* A step of the file is one of ByteFile, or one that its caller does not see.
Allowed == Abstract!Next \/ UNCHANGED Abstract!vars

LEMMA BrokenIsBoolean ==
    ASSUME Inv, ~broken, Inv', ~broken'
    PROVE  broken' = broken
  BY DEF Inv, GridFSTypeOK

LEMMA SeekIsAllowed ==
    ASSUME Inv, ~broken, Inv', ~broken', CallIsClean, NEW offset \in 0 .. MaxLength, Seek(offset)
    PROVE  Allowed
<1>1. /\ call.pc = "idle" /\ SeekPage(offset) /\ pos' = offset /\ call' = NewCall /\ length' = length
      /\ offset \in Nat
  BY GridFSAssumption DEF Seek, Idle
<1>2. Contents' = Contents
  BY <1>1, QuietContents DEF Quiet
<1>3. call.data = <<>> /\ call'.data = <<>> /\ call'.got = <<>> /\ call'.pc = "idle"
  BY <1>1, NewCallIsClean DEF CallIsClean
<1>4. isDirty' = isDirty \/ isDirty' = FALSE
  <2>1. CASE \E f \in Flush : isDirty' = (isDirty /\ ~f.chunk) /\ broken' = (broken \/ ~Flushed(f))
    BY <2>1, Zenon DEF Flushed
  <2>2. QED BY <1>1, <2>1 DEF SeekPage
<1>5. CASE isDirty' = isDirty
  <2>1. Safe' = Safe
    BY <1>1, <1>3, <1>5 DEF Safe
  <2>2. Abstract!Seek
    BY <1>1, <1>2, <1>3, <2>1 DEF Abstract!Seek, Safe
  <2>3. QED BY <2>2, AbstractNext DEF Abstract!Normal, Allowed
<1>6. CASE isDirty' = FALSE
  <2>1. Abstract!SeekAndSave
    BY <1>1, <1>2, <1>3, <1>6 DEF Abstract!SeekAndSave
  <2>2. QED BY <2>1, AbstractNext DEF Abstract!Normal, Allowed
<1>7. QED BY <1>4, <1>5, <1>6

LEMMA BeginReadIsAllowed ==
    ASSUME Inv, ~broken, Inv', ~broken', CallIsClean, NEW read \in Reads, BeginRead(read[1], read[2])
    PROVE  Allowed
<1>1. /\ call.pc = "idle" /\ UNCHANGED <<file, chunks, saved, failures, broken>>
      /\ call' = NewCall \/ call' = [NewCall EXCEPT !.pc = "reading", !.want = read[1], !.min = read[2]]
  BY DEF BeginRead, Idle
<1>2. pos' = pos /\ length' = length /\ isDirty' = isDirty
  BY <1>1 DEF file
<1>3. Contents' = Contents
  BY <1>2, QuietContents DEF Quiet
<1>4. /\ call'.data = <<>> /\ call'.got = <<>> /\ call'.pc \in {"idle", "reading"}
      /\ call.data = <<>> /\ call.got = <<>>
  <2>1. call.data = <<>> /\ call.got = <<>>
    BY <1>1 DEF CallIsClean
  <2>2. CASE call' = NewCall
    BY <2>1, <2>2, NewCallIsClean
  <2>3. CASE call' = [NewCall EXCEPT !.pc = "reading", !.want = read[1], !.min = read[2]]
    <3>1. PICK a, b : a = read[1] /\ b = read[2]
      OBVIOUS
    <3>2. call' = [NewCall EXCEPT !.pc = "reading", !.want = a, !.min = b]
      BY <2>3, <3>1
    <3>3. call'.data = NewCall.data /\ call'.got = NewCall.got /\ call'.pc = "reading"
      BY <3>2 DEF NewCall
    <3>4. QED BY <2>1, <3>3, NewCallIsClean
  <2>4. QED BY <1>1, <2>2, <2>3
<1>5. At' = At /\ (Safe' <=> Safe)
  BY <1>1, <1>2, <1>4 DEF At, Safe
<1>6. QED BY <1>3, <1>4, <1>5, BrokenIsBoolean, Stutters DEF Allowed

LEMMA BeginWriteIsAllowed ==
    ASSUME Inv, ~broken, Inv', ~broken', CallIsClean, NEW data \in Writes, BeginWrite(data)
    PROVE  Allowed
<1>1. /\ call.pc = "idle" /\ UNCHANGED <<file, chunks, saved, failures, broken>>
      /\ call' = [NewCall EXCEPT !.pc = "writing", !.data = data]
  BY DEF BeginWrite, Idle
<1>2. pos' = pos /\ length' = length /\ isDirty' = isDirty
  BY <1>1 DEF file
<1>3. Contents' = Contents
  BY <1>2, QuietContents DEF Quiet
<1>4. call'.data = data /\ call'.got = <<>> /\ call'.pc = "writing" /\ call.data = <<>>
  BY <1>1 DEF CallIsClean, NewCall
<1>5. data \in Seq(Nat)
  BY GridFSAssumption
<1>6. Abstract!BeginWrite
  BY <1>1, <1>2, <1>3, <1>4, <1>5 DEF Abstract!BeginWrite
<1>7. QED BY <1>6, AbstractNext DEF Abstract!Normal, Allowed

\* A page is brought in, or the call fails.
LEMMA LoadIsAllowed ==
    ASSUME Inv, ~broken, Inv', ~broken', Loads(call.pc), Contents' = Contents
    PROVE  Allowed
<1>1. /\ call' = call \/ call' = [NewCall EXCEPT !.failed = TRUE]
      /\ pos' = pos /\ isDirty' = isDirty /\ pos \in Nat
  BY LoadedCall DEF Inv, GridFSTypeOK
<1>2. CASE call' = call
  <2>1. At' = At /\ (Safe' <=> Safe)
    BY <1>1, <1>2 DEF At, Safe
  <2>2. QED BY <1>2, <2>1, BrokenIsBoolean, Stutters DEF Allowed
<1>3. CASE call' = [NewCall EXCEPT !.failed = TRUE]
  <2>1. call'.data = <<>> /\ call'.got = <<>> /\ call'.pc = "idle"
    BY <1>3, NewCallIsClean
  <2>2. Abstract!Fail
    BY <1>1, <2>1 DEF Abstract!Fail
  <2>3. QED BY <2>2, AbstractNext DEF Abstract!Normal, Allowed
<1>4. QED BY <1>1, <1>2, <1>3

LEMMA LoadsAreAllowed ==
    ASSUME Inv, ~broken, Inv', ~broken', LoadToRead \/ LoadToWrite \/ LoadToExtend
    PROVE  Allowed
<1>1. Loads(call.pc)
  BY DEF LoadToRead, LoadToWrite, LoadToExtend
<1>2. length' = length
  BY <1>1, LoadedCall
<1>3. Contents' = Contents
  BY <1>2, QuietContents DEF Quiet
<1>4. QED BY <1>1, <1>3, LoadIsAllowed

LEMMA FillsAreAllowed ==
    ASSUME Inv, ~broken, Inv', ~broken', Fill \/ FillNext \/ WriteNext
    PROVE  Allowed
<1>1. /\ call' = call /\ length' = length /\ (call.pc = "extending" \/ pos' = pos)
      /\ call.pc \in {"extending", "writing"}
  <2>1. CASE Fill
    BY <2>1 DEF Fill
  <2>2. CASE FillNext
    BY <2>2 DEF FillNext
  <2>3. CASE WriteNext
    BY <2>3 DEF WriteNext
  <2>4. QED BY <2>1, <2>2, <2>3
<1>2. Contents' = Contents
  <2>1. CASE Fill
    <3>1. PICK src \in Bytes : page' = Overlaid(page, src) /\ pos' = pos + Len(src) /\ Len(src) \in Nat
      BY <2>1, FilledWithZeros
    <3>2. page # None /\ n' = n /\ chunks' = chunks /\ End = pos /\ End' = pos' /\ pos \in Nat
      BY <2>1 DEF Fill, End, Inv, GridFSTypeOK
    <3>3. pos <= End /\ End <= End' /\ pos' <= End' /\ length \in Nat /\ length <= pos
      BY <3>1, <3>2, LengthIsWithin
    <3>4. \A i \in 1 .. length : i \in 1 .. End /\ i <= pos
      BY <3>2, <3>3
    <3>5. \A i \in 1 .. length : ByteAt(i)' = ByteAt(i)
      BY <3>1, <3>2, <3>3, <3>4, OverlaidBytes
    <3>6. QED BY <1>1, <3>5, ContentsStay
  <2>2. CASE FillNext \/ WriteNext
    BY <1>1, <2>2, QuietContents DEF Quiet
  <2>3. QED BY <2>1, <2>2
<1>3. At' = At /\ (Safe' <=> Safe)
  BY <1>1 DEF At, Safe
<1>4. QED BY <1>1, <1>2, <1>3, BrokenIsBoolean, Stutters DEF Allowed

LEMMA BeginExtendIsAllowed ==
    ASSUME Inv, ~broken, Inv', ~broken', BeginExtend
    PROVE  Allowed
<1>1. /\ call.pc = "writing" /\ length' = length /\ call \in CallType /\ pos \in Nat
      /\ call' = [call EXCEPT !.pc = "extending", !.target = pos]
  BY DEF BeginExtend, Inv, GridFSTypeOK
<1>2. call'.pc = "extending" /\ call'.target = pos /\ call'.data = call.data /\ call'.got = call.got
  BY <1>1 DEF CallType
<1>3. Contents' = Contents
  BY <1>1, QuietContents DEF Quiet
<1>4. At' = At /\ (Safe' <=> Safe)
  BY <1>1, <1>2 DEF At, Safe
<1>5. QED BY <1>2, <1>3, <1>4, BrokenIsBoolean, Stutters DEF Allowed

LEMMA SaveIsAllowed ==
    ASSUME Inv, ~broken, Inv', ~broken', CallIsClean, Save
    PROVE  Allowed
<1>1. /\ call.pc = "idle" /\ length' = length /\ pos' = pos /\ isDirty' = FALSE
      /\ \E r \in Updates : call' = [NewCall EXCEPT !.failed = ~r]
  BY DEF Save, Idle
<1>2. call'.pc = "idle" /\ call'.data = <<>> /\ call'.got = <<>> /\ call.data = <<>>
  BY <1>1 DEF NewCall, CallIsClean
<1>3. Contents' = Contents
  BY <1>1, QuietContents DEF Quiet
<1>4. Abstract!Save
  BY <1>1, <1>2, <1>3 DEF Abstract!Save
<1>5. QED BY <1>4, AbstractNext DEF Abstract!Normal, Allowed

LEMMA ReopenIsAllowed ==
    ASSUME Inv, ~broken, Inv', ~broken', Reopen
    PROVE  Allowed
<1>1. /\ call.pc = "idle" /\ ~isDirty /\ pos' = 0 /\ length' = saved /\ isDirty' = FALSE /\ call' = NewCall
  BY DEF Reopen, Idle
<1>2. saved = length
  BY <1>1, InvGivesSavedIsStored DEF SavedIsStored, Idle
<1>3. Contents' = Contents
  BY <1>1, <1>2, QuietContents DEF Quiet
<1>4. call'.pc = "idle" /\ call'.data = <<>> /\ call'.got = <<>>
  BY <1>1, NewCallIsClean
<1>5. Abstract!Reopen
  BY <1>1, <1>3, <1>4 DEF Abstract!Reopen
<1>6. QED BY <1>5, AbstractNext DEF Abstract!Normal, Allowed

-----------------------------------------------------------------------------
(* Steps that read, write and lengthen.                                    *)

LEMMA PartBetween ==
    ASSUME NEW T, NEW s \in Seq(T), NEW a \in Nat, NEW m \in Nat, a + m <= Len(s)
    PROVE  /\ SubSeq(s, a + 1, a + m) \in Seq(T) /\ Len(SubSeq(s, a + 1, a + m)) = m
           /\ \A j \in 1 .. m : SubSeq(s, a + 1, a + m)[j] = s[a + j]
<1>1. PICK c \in Int, d \in Int : c = a + 1 /\ d = a + m
  OBVIOUS
<1>2. \A i \in c .. d : s[i] \in T
  BY <1>1
<1> DEFINE x == SubSeq(s, c, d)
<1>3. x \in Seq(T) /\ Len(x) = (IF c <= d THEN d - c + 1 ELSE 0) /\ \A j \in 1 .. d - c + 1 : x[j] = s[c + j - 1]
  BY <1>2, SubSeqProperties
<1> HIDE DEF x
<1>4. d - c + 1 = m /\ Len(x) = m
  BY <1>1, <1>3
<1>5. \A j \in 1 .. m : x[j] = s[a + j]
  <2> SUFFICES ASSUME NEW j \in 1 .. m PROVE x[j] = s[a + j]
    OBVIOUS
  <2>1. x[j] = s[c + j - 1] /\ c + j - 1 = a + j
    BY <1>1, <1>3, <1>4
  <2>2. QED BY <2>1
<1>6. QED BY <1>1, <1>3, <1>4, <1>5 DEF x

\* The m elements after a in s are those after b in t.
PartAgrees(s, t, a, b, m) ==
    /\ a + m <= Len(s) /\ b + m <= Len(t)
    /\ \A j \in 1 .. m : s[a + j] = t[b + j]

LEMMA SamePart ==
    ASSUME NEW T, NEW s \in Seq(T), NEW t \in Seq(T), NEW a \in Nat, NEW b \in Nat, NEW m \in Nat,
           PartAgrees(s, t, a, b, m)
    PROVE  SubSeq(s, a + 1, a + m) = SubSeq(t, b + 1, b + m)
<1> DEFINE x == SubSeq(s, a + 1, a + m)
           y == SubSeq(t, b + 1, b + m)
<1>1. a + m <= Len(s) /\ b + m <= Len(t) /\ \A j \in 1 .. m : s[a + j] = t[b + j]
  BY DEF PartAgrees
<1>2. x \in Seq(T) /\ Len(x) = m /\ \A j \in 1 .. m : x[j] = s[a + j]
  BY <1>1, PartBetween
<1>3. y \in Seq(T) /\ Len(y) = m /\ \A j \in 1 .. m : y[j] = t[b + j]
  BY <1>1, PartBetween
<1> HIDE DEF x, y
<1>4. x = y
  BY <1>1, <1>2, <1>3, SeqEqual
<1>5. QED BY <1>4 DEF x, y

LEMMA SamePartOfBytes ==
    ASSUME NEW s \in Bytes, NEW t \in Bytes, NEW a \in Nat, NEW b \in Nat, NEW m \in Nat,
           PartAgrees(s, t, a, b, m)
    PROVE  SubSeq(s, a + 1, a + m) = SubSeq(t, b + 1, b + m)
  BY SamePart DEF Bytes

\* t is s with src, of length m, in place of what was at p.
Replaced(t, s, src, p, m) ==
    /\ m = Len(src) /\ p <= Len(s)
    /\ Len(t) = IF Len(s) <= p + m THEN p + m ELSE Len(s)
    /\ \A i \in 1 .. p : t[i] = s[i]
    /\ \A j \in 1 .. m : t[p + j] = src[j]
    /\ \A i \in 1 .. Len(s) : i > p + m => t[i] = s[i]

LEMMA ReplacedPart ==
    ASSUME NEW T, NEW s \in Seq(T), NEW src \in Seq(T), NEW t \in Seq(T),
           NEW p \in Nat, NEW m \in Nat, Replaced(t, s, src, p, m)
    PROVE  t = SubSeq(s, 1, p) \o src \o SubSeq(s, p + m + 1, Len(s))
<1> DEFINE head == SubSeq(s, 1, p)
           tail == SubSeq(s, p + m + 1, Len(s))
           front == head \o src
           all == front \o tail
<1>1. PICK l \in Nat : l = Len(s) /\ p <= l /\ m = Len(src)
  BY DEF Replaced
<1>2. head \in Seq(T) /\ Len(head) = p /\ \A i \in 1 .. p : head[i] = s[i]
  <2>1. p \in 0 .. Len(s)
    BY <1>1
  <2>2. QED BY <2>1, FrontOfSequence
<1>3. PICK a \in Nat : a = p + m
  OBVIOUS
<1>4. /\ tail \in Seq(T) /\ Len(tail) = IF a <= l THEN l - a ELSE 0
      /\ \A i \in 1 .. l - a : tail[i] = s[a + i]
  BY <1>1, <1>3, PartOfSequence
<1> HIDE DEF head, tail
<1>5. front \in Seq(T)
  BY <1>2, JoinedSequences
<1>6. Len(front) = a
  <2>1. Len(front) = Len(head) + Len(src)
    BY <1>2, JoinedSequences
  <2>2. QED BY <1>1, <1>2, <1>3, <2>1
<1>7. \A i \in 1 .. p : front[i] = s[i]
  <2>1. \A i \in 1 .. Len(head) : front[i] = head[i]
    BY <1>2, JoinedSequences
  <2>2. QED BY <1>2, <2>1
<1>8. \A j \in 1 .. m : front[p + j] = src[j]
  <2>1. \A j \in 1 .. Len(src) : front[Len(head) + j] = src[j]
    BY <1>2, JoinedSequences
  <2>2. QED BY <1>1, <1>2, <2>1
<1> HIDE DEF front
<1>9. all \in Seq(T)
  BY <1>4, <1>5, JoinedSequences
<1>10. Len(all) = IF l <= a THEN a ELSE l
  <2>1. Len(all) = Len(front) + Len(tail)
    BY <1>4, <1>5, JoinedSequences
  <2>2. QED BY <1>3, <1>4, <1>6, <2>1
<1>11. \A i \in 1 .. a : all[i] = front[i]
  <2>1. \A i \in 1 .. Len(front) : all[i] = front[i]
    BY <1>4, <1>5, JoinedSequences
  <2>2. QED BY <1>6, <2>1
<1>12. \A i \in 1 .. Len(tail) : all[a + i] = tail[i]
  <2>1. \A i \in 1 .. Len(tail) : all[Len(front) + i] = tail[i]
    BY <1>4, <1>5, JoinedSequences
  <2>2. QED BY <1>6, <2>1
<1> HIDE DEF all
<1>13. /\ Len(t) = IF l <= a THEN a ELSE l
       /\ \A i \in 1 .. p : t[i] = s[i]
       /\ \A j \in 1 .. m : t[p + j] = src[j]
       /\ \A i \in 1 .. l : i > a => t[i] = s[i]
  BY <1>1, <1>3 DEF Replaced
<1>14. ASSUME NEW i \in 1 .. Len(t) PROVE t[i] = all[i]
  <2>1. CASE i <= p
    <3>1. i \in 1 .. p /\ i \in 1 .. a
      BY <1>3, <2>1
    <3>2. QED BY <1>7, <1>11, <1>13, <3>1
  <2>2. CASE p < i /\ i <= a
    <3>1. PICK j \in 1 .. m : i = p + j
      <4>1. i - p \in 1 .. m /\ i = p + (i - p)
        BY <1>3, <2>2
      <4>2. QED BY <4>1
    <3>2. i \in 1 .. a
      BY <2>2
    <3>3. QED BY <1>8, <1>11, <1>13, <3>1, <3>2
  <2>3. CASE a < i
    <3>1. a <= l /\ Len(tail) = l - a /\ i \in 1 .. l
      BY <1>1, <1>3, <1>4, <1>13, <2>3
    <3>2. PICK j \in 1 .. l - a : i = a + j
      <4>1. i - a \in 1 .. l - a /\ i = a + (i - a)
        BY <1>3, <2>3, <3>1
      <4>2. QED BY <4>1
    <3>3. all[i] = s[i]
      BY <1>4, <1>12, <3>1, <3>2
    <3>4. QED BY <1>13, <2>3, <3>1, <3>3
  <2>4. QED BY <1>3, <2>1, <2>2, <2>3
<1>15. t = all
  BY <1>9, <1>10, <1>14, <1>13, SeqEqual
<1>16. QED BY <1>15 DEF all, front, head, tail

LEMMA ReplacedBytes ==
    ASSUME NEW s \in Bytes, NEW src \in Bytes, NEW t \in Bytes,
           NEW p \in Nat, NEW m \in Nat, Replaced(t, s, src, p, m)
    PROVE  t = SubSeq(s, 1, p) \o src \o SubSeq(s, p + m + 1, Len(s))
  BY ReplacedPart, ZenonT(40) DEF Bytes

LEMMA ReadPageIsAllowed ==
    ASSUME Inv, ~broken, Inv', ~broken', ReadPage
    PROVE  Allowed
<1>1. GridFSTypeOK /\ PageFits
  BY DEF Inv
<1>2. /\ call.pc = "reading" /\ page # None /\ page.offset <= Len(page.data) /\ Gives > 0
      /\ pos' = pos + Gives /\ length' = length /\ isDirty' = isDirty
      /\ call' = [call EXCEPT !.got = call.got \o SubSeq(page.data, page.offset + 1, page.offset + Gives),
                              !.want = call.want - Gives]
  BY DEF ReadPage
<1>3. /\ pos \in Nat /\ n \in Nat /\ length \in Nat /\ call \in CallType
      /\ page.offset \in Nat /\ call.want \in Nat /\ page.data \in Bytes
  BY <1>1, <1>2 DEF GridFSTypeOK, PageType, CallType
<1>4. PICK l \in Nat, o \in Nat, s \in Nat, e \in Nat, m \in Nat :
          /\ l = Len(page.data) /\ o = page.offset /\ s = n * ChunkSize /\ e = length /\ m = Gives
          /\ m >= 1 /\ o + m <= l
  <2>1. n * ChunkSize \in Nat /\ Len(page.data) \in Nat
    BY <1>3, Sizes DEF Bytes
  <2>2. Gives = IF call.want <= Len(page.data) - page.offset THEN call.want ELSE Len(page.data) - page.offset
    BY <1>3, <2>1, MinOfTwo DEF Gives
  <2>3. Gives \in Nat /\ Gives >= 1 /\ page.offset + Gives <= Len(page.data)
    BY <1>2, <1>3, <2>1, <2>2
  <2>4. QED BY <1>3, <2>1, <2>3
<1>5. End = e /\ s + o = pos /\ l = Extent(n)
  BY <1>1, <1>2, <1>4 DEF End, PageFits
<1>6. l = IF e <= s THEN 0 ELSE IF e - s <= ChunkSize THEN e - s ELSE ChunkSize
  BY <1>4, <1>5 DEF Extent
<1>7. l <= ChunkSize /\ s + l <= e /\ ChunkSize \in Nat
  BY <1>4, <1>6, Sizes
<1>8. Contents \in Bytes /\ Len(Contents) = e /\ \A i \in 1 .. e : Contents[i] = ByteAt(i)
  BY <1>4, ContentsAreBytes
<1>9. pos + m <= e
  BY <1>4, <1>5, <1>7
<1>10. ASSUME NEW j \in 1 .. m PROVE page.data[o + j] = Contents[pos + j]
  <2>1. PICK i \in Nat, p \in Nat : i = pos + j /\ p = o + j
    <3>1. pos + j \in Nat /\ o + j \in Nat
      BY <1>3
    <3>2. QED BY <3>1
  <2>2. i \in 1 .. e /\ i \in 1 .. End /\ p >= 1 /\ p <= ChunkSize
    BY <1>3, <1>4, <1>5, <1>7, <1>9, <2>1
  <2>3. i = n * ChunkSize + p
    BY <1>3, <1>4, <1>5, <2>1
  <2>4. ChunkOf(i) = n /\ PlaceOf(i) = p
    BY <1>3, <2>2, <2>3, PlaceIsUnique
  <2>5. ByteAt(i) = Data(n)[p]
    BY <2>2, <2>4, BytesAreThere DEF AllThere, IsThere
  <2>6. Data(n) = page.data
    BY <1>2 DEF Data
  <2>7. QED BY <1>8, <2>1, <2>2, <2>5, <2>6
<1>11. SubSeq(page.data, page.offset + 1, page.offset + Gives) = SubSeq(Contents, pos + 1, pos + m)
  <2>1. SubSeq(page.data, o + 1, o + m) = SubSeq(Contents, pos + 1, pos + m)
    <3> DEFINE C == Contents
               d == page.data
    <3>1. C \in Bytes /\ d \in Bytes
      BY <1>3, <1>8
    <3>2. PartAgrees(d, C, o, pos, m)
      BY <1>3, <1>4, <1>8, <1>9, <1>10 DEF PartAgrees
    <3>3. PICK p \in Nat : p = pos
      BY <1>3
    <3> HIDE DEF C, d
    <3>4. PartAgrees(d, C, o, p, m)
      BY <3>2, <3>3
    <3>5. SubSeq(d, o + 1, o + m) = SubSeq(C, p + 1, p + m)
      BY <3>1, <3>4, SamePartOfBytes
    <3>6. QED BY <3>3, <3>5 DEF C, d
  <2>2. QED BY <1>4, <2>1
<1>12. /\ call'.pc = "reading" /\ call'.data = call.data
       /\ call'.got = call.got \o SubSeq(Contents, pos + 1, pos + m)
  BY <1>2, <1>3, <1>11 DEF CallType
<1>13. Contents' = Contents
  BY <1>2, QuietContents DEF Quiet
<1>14. m \in 1 .. Len(Contents) - pos /\ pos' = pos + m
  BY <1>2, <1>3, <1>4, <1>8, <1>9
<1>15. Abstract!Read
  BY <1>2, <1>12, <1>13, <1>14 DEF Abstract!Read
<1>16. QED BY <1>15, AbstractNext DEF Abstract!Normal, Allowed

LEMMA ReadEndsIsAllowed ==
    ASSUME Inv, ~broken, Inv', ~broken', CallIsClean, ReadEnds
    PROVE  Allowed
<1>1. call.pc = "reading" /\ call.data = <<>>
  BY DEF ReadEnds, CallIsClean
<1>2. CASE call.want = 0 \/ length = pos \/ Len(call.got) >= call.min
  <2>1. call' = NewCall /\ UNCHANGED <<file, chunks, saved, failures, broken>>
    BY <1>2 DEF ReadEnds, Returns
  <2>2. pos' = pos /\ length' = length /\ isDirty' = isDirty /\ UNCHANGED <<file, chunks>>
    BY <2>1 DEF file
  <2>3. Contents' = Contents
    BY <2>2, QuietContents DEF Quiet
  <2>4. call'.data = <<>> /\ call'.got = <<>> /\ call'.pc = "idle"
    BY <2>1, NewCallIsClean
  <2>5. Abstract!EndRead
    BY <1>1, <2>2, <2>3, <2>4 DEF Abstract!EndRead
  <2>6. QED BY <2>5, AbstractNext DEF Abstract!Normal, Allowed
<1>3. CASE Loads(call.pc) /\ ~Dirty
  <2>1. length' = length
    BY <1>3, LoadedCall
  <2>2. Contents' = Contents
    BY <1>3, <2>1, QuietContents DEF Quiet
  <2>3. QED BY <1>3, <2>2, LoadIsAllowed
<1>4. CASE Loads(call.pc) /\ Dirty
  <2>1. /\ call' = call \/ call' = [NewCall EXCEPT !.failed = TRUE]
        /\ pos' = pos /\ length' = length /\ isDirty' = isDirty
    BY <1>4, LoadedCall
  <2>2. pos \in Nat /\ n \in Nat /\ length \in Nat /\ End \in Nat /\ length <= End /\ End' \in Nat /\ length' <= End'
    BY LengthIsWithin, LengthIsWithinNext DEF Inv, GridFSTypeOK
  <2>3. Contents \in Bytes /\ Len(Contents) = length /\ \A i \in 1 .. length : Contents[i] = ByteAt(i)
    BY ContentsAreBytes
  <2>4. Contents' \in Bytes /\ Len(Contents') = length /\ \A i \in 1 .. length : Contents'[i] = ByteAt(i)'
    BY <2>1, ContentsAreBytesNext
  <2>5. isDirty /\ n * ChunkSize < length
    BY <1>1, <1>4 DEF Inv, CallFits, PageFits, Dirty, End
  <2>6. n \in 0 .. length \div ChunkSize
    <3>1. PICK d \in Nat, r \in Nat : d = length \div ChunkSize /\ length = d * ChunkSize + r /\ r < ChunkSize
      BY <2>2, Division, Sizes
    <3>2. CASE d < n
      <4>1. d * ChunkSize + ChunkSize <= n * ChunkSize /\ d * ChunkSize \in Nat /\ n * ChunkSize \in Nat
        BY <2>2, <3>2, ProductsGrow, Sizes
      <4>2. QED BY <2>2, <2>5, <3>1, <4>1, Sizes
    <3>3. QED BY <2>2, <3>1, <3>2
  <2>7. \A i \in 1 .. length : (i - 1) \div ChunkSize # n => Contents'[i] = Contents[i]
    <3> SUFFICES ASSUME NEW i \in 1 .. length, ChunkOf(i) # n PROVE Contents'[i] = Contents[i]
      BY DEF ChunkOf
    <3>1. i \in 1 .. End /\ i \in 1 .. End'
      BY <2>1, <2>2
    <3>2. ByteAt(i)' = ByteAt(i)
      BY <1>4, <3>1, LoadedBytes
    <3>3. QED BY <2>3, <2>4, <3>2
  <2>8. Abstract!Forgets
    BY <1>1, <2>3, <2>4, <2>5, <2>6, <2>7 DEF Abstract!Forgets
  <2>9. CASE call' = call
    <3>1. Abstract!Forget
      BY <1>1, <2>1, <2>8, <2>9 DEF Abstract!Forget
    <3>2. QED BY <3>1, AbstractNext DEF Abstract!Normal, Allowed
  <2>10. CASE call' = [NewCall EXCEPT !.failed = TRUE]
    <3>1. call'.data = <<>> /\ call'.got = <<>> /\ call'.pc = "idle"
      BY <2>10, NewCallIsClean
    <3>2. Abstract!Fail
      BY <2>1, <2>2, <2>8, <3>1 DEF Abstract!Fail
    <3>3. QED BY <3>2, AbstractNext DEF Abstract!Normal, Allowed
  <2>11. QED BY <2>1, <2>9, <2>10
<1>5. QED BY <1>1, <1>2, <1>3, <1>4 DEF ReadEnds

LEMMA ExtendEndsIsAllowed ==
    ASSUME Inv, ~broken, Inv', ~broken', GapIsZero, ExtendEnds
    PROVE  Allowed
<1>1. /\ call.pc = "extending" /\ pos = call.target /\ length' = call.target /\ isDirty' = TRUE /\ pos' = pos
      /\ call' = [call EXCEPT !.pc = "writing", !.target = 0]
  BY DEF ExtendEnds
<1>2. /\ call \in CallType /\ pos \in Nat /\ length \in Nat /\ length < pos /\ call.data # <<>>
  BY <1>1 DEF Inv, GridFSTypeOK, CallFits
<1>3. call'.pc = "writing" /\ call'.data = call.data /\ call'.got = call.got
  <2>1. PICK z \in Nat : z = 0
    OBVIOUS
  <2>2. call' = [call EXCEPT !.pc = "writing", !.target = z]
    BY <1>1, <2>1
  <2>3. QED BY <1>2, <2>2 DEF CallType
<1>4. End = pos /\ End' = pos
  BY <1>1, <1>3 DEF End
<1>5. \A i \in 1 .. pos : ByteAt(i)' = ByteAt(i)
  BY <1>2, <1>4, QuietSteps DEF Quiet
<1>6. Contents \in Bytes /\ Len(Contents) = length /\ \A i \in 1 .. length : Contents[i] = ByteAt(i)
  BY ContentsAreBytes
<1>7. \A i \in 1 .. pos : ByteAt(i) = IF i <= length THEN Contents[i] ELSE 0
  <2>1. ASSUME NEW i \in 1 .. pos, i <= length PROVE ByteAt(i) = Contents[i]
    BY <1>2, <1>6, <2>1
  <2>2. ASSUME NEW i \in 1 .. pos, ~(i <= length) PROVE ByteAt(i) = 0
    BY <1>1, <1>2, <2>2 DEF GapIsZero
  <2>3. QED BY <2>1, <2>2
<1>8. Contents' = [i \in 1 .. pos |-> IF i <= Len(Contents) THEN Contents[i] ELSE 0]
  <2>1. Contents' = [i \in 1 .. pos |-> ByteAt(i)']
    BY <1>1, ContentsNext
  <2>2. QED BY <1>5, <1>6, <1>7, <2>1
<1>9. Abstract!Extend
  BY <1>1, <1>2, <1>3, <1>6, <1>8 DEF Abstract!Extend, Abstract!Extended
<1>10. QED BY <1>9, AbstractNext DEF Abstract!Normal, Allowed

LEMMA WritePageIsAllowed ==
    ASSUME Inv, ~broken, Inv', ~broken', CallIsClean, WritePage
    PROVE  Allowed
<1>1. /\ call.pc = "writing" /\ page # None /\ pos <= length /\ n' = n /\ chunks' = chunks
  BY DEF WritePage
<1>2. /\ call \in CallType /\ pos \in Nat /\ length \in Nat /\ call.data \in Bytes
      /\ call.data # <<>> /\ call.got = <<>>
  BY <1>1 DEF Inv, GridFSTypeOK, CallType, CallFits, CallIsClean
<1>3. PICK m \in 1 .. Len(call.data) :
          /\ SubSeq(call.data, 1, m) \in Bytes /\ Len(SubSeq(call.data, 1, m)) = m
          /\ page' = Overlaid(page, SubSeq(call.data, 1, m)) /\ pos' = pos + m
          /\ length' = IF length <= pos + m THEN pos + m ELSE length
          /\ IF m = Len(call.data) THEN call' = NewCall /\ isDirty' = TRUE
             ELSE call' = [call EXCEPT !.data = SubSeq(call.data, m + 1, Len(call.data))] /\ isDirty' = isDirty
  BY WrittenFromData
<1>4. m \in Nat
  OBVIOUS
<1> DEFINE src == SubSeq(call.data, 1, m)
<1>5. /\ call'.data = SubSeq(call.data, m + 1, Len(call.data)) /\ call'.got = <<>>
      /\ call'.pc # "extending" /\ ~Safe'
  <2>1. CASE m = Len(call.data)
    <3>1. call' = NewCall /\ isDirty' = TRUE
      BY <1>3, <2>1
    <3>2. call'.data = <<>> /\ call'.got = <<>> /\ call'.pc = "idle"
      BY <3>1, NewCallIsClean
    <3>3. SubSeq(call.data, m + 1, Len(call.data)) = <<>>
      BY <1>2, <2>1, SubSeqEmpty DEF Bytes
    <3>4. QED BY <3>1, <3>2, <3>3 DEF Safe
  <2>2. CASE m # Len(call.data)
    <3>1. call' = [call EXCEPT !.data = SubSeq(call.data, m + 1, Len(call.data))]
      BY <1>3, <2>2
    <3>2. call'.data = SubSeq(call.data, m + 1, Len(call.data)) /\ call'.got = call.got /\ call'.pc = "writing"
      BY <1>1, <1>2, <3>1 DEF CallType
    <3>3. QED BY <1>2, <3>2 DEF Safe
  <2>3. QED BY <2>1, <2>2
<1>6. End = length /\ End' = length'
  BY <1>1, <1>5 DEF End
<1>7. Contents \in Bytes /\ Len(Contents) = length /\ \A i \in 1 .. length : Contents[i] = ByteAt(i)
  BY ContentsAreBytes
<1>8. Contents' \in Bytes /\ Len(Contents') = length' /\ \A i \in 1 .. length' : Contents'[i] = ByteAt(i)'
  BY ContentsAreBytesNext
<1>9. /\ \A i \in 1 .. length : i <= pos \/ i > pos + m => ByteAt(i)' = ByteAt(i)
      /\ \A j \in 1 .. m, i \in Nat : i = pos + j => ByteAt(i)' = src[j]
  <2>1. src \in Bytes /\ Len(src) = m /\ page' = Overlaid(page, src) /\ pos' = pos + Len(src)
    BY <1>3
  <2>2. pos <= End /\ End <= End' /\ pos' <= End'
    BY <1>1, <1>2, <1>3, <1>4, <1>6
  <2> HIDE DEF src
  <2>3. /\ \A i \in 1 .. End : i <= pos \/ i > pos + Len(src) => ByteAt(i)' = ByteAt(i)
        /\ \A j \in 1 .. Len(src), i \in Nat : i = pos + j => ByteAt(i)' = src[j]
    BY <1>1, <2>1, <2>2, OverlaidBytes
  <2>4. QED BY <1>6, <2>1, <2>3
<1>10. Contents' = SubSeq(Contents, 1, pos) \o src \o SubSeq(Contents, pos + m + 1, Len(Contents))
  <2>1. src \in Bytes /\ Len(src) = m
    BY <1>3
  <2> HIDE DEF src
  <2>2. Len(Contents') = IF length <= pos + m THEN pos + m ELSE length
    BY <1>3, <1>8
  <2>3. \A i \in 1 .. pos : Contents'[i] = Contents[i]
    <3> SUFFICES ASSUME NEW i \in 1 .. pos PROVE Contents'[i] = Contents[i]
      OBVIOUS
    <3>1. i \in 1 .. length /\ i \in 1 .. length' /\ i <= pos
      BY <1>1, <1>2, <1>3
    <3>2. QED BY <1>7, <1>8, <1>9, <3>1
  <2>4. \A j \in 1 .. m : Contents'[pos + j] = src[j]
    <3> SUFFICES ASSUME NEW j \in 1 .. m PROVE Contents'[pos + j] = src[j]
      OBVIOUS
    <3>1. PICK i \in Nat : i = pos + j /\ i \in 1 .. length'
      BY <1>2, <1>3
    <3>2. QED BY <1>8, <1>9, <3>1
  <2>5. \A i \in 1 .. length : i > pos + m => Contents'[i] = Contents[i]
    <3> SUFFICES ASSUME NEW i \in 1 .. length, i > pos + m PROVE Contents'[i] = Contents[i]
      OBVIOUS
    <3>1. i \in 1 .. length'
      BY <1>2, <1>3
    <3>2. QED BY <1>7, <1>8, <1>9, <3>1
  <2> DEFINE C == Contents
             D == Contents'
  <2>6. C \in Bytes /\ D \in Bytes /\ Len(C) = length
    BY <1>7, <1>8
  <2>7. Replaced(D, C, src, pos, m)
    BY <1>1, <1>7, <2>1, <2>2, <2>3, <2>4, <2>5 DEF Replaced
  <2> HIDE DEF C, D
  <2>8. D = SubSeq(C, 1, pos) \o src \o SubSeq(C, pos + m + 1, Len(C))
    <3>1. PICK p \in Nat : p = pos
      BY <1>2
    <3>2. Replaced(D, C, src, p, m)
      BY <2>7, <3>1
    <3>3. C \in Bytes /\ D \in Bytes /\ src \in Bytes
      BY <2>1, <2>6
    <3>4. D = SubSeq(C, 1, p) \o src \o SubSeq(C, p + m + 1, Len(C))
      BY <1>4, <3>2, <3>3, ReplacedBytes, ZenonT(40)
    <3>5. QED BY <3>1, <3>4
  <2>9. QED BY <2>8 DEF C, D
<1>11. Abstract!Write
  BY <1>1, <1>2, <1>3, <1>5, <1>7, <1>10 DEF Abstract!Write, Safe
<1>12. QED BY <1>11, AbstractNext DEF Abstract!Normal, Allowed

-----------------------------------------------------------------------------
(* Clean calls, gaps of zeros, and the implementation.                     *)

LEMMA CallStaysClean ==
    ASSUME Inv, CallIsClean, [Next]_vars
    PROVE  CallIsClean'
<1>1. call \in CallType
  BY DEF Inv, GridFSTypeOK
<1>2. CASE call' = NewCall \/ call' = [NewCall EXCEPT !.failed = TRUE]
  BY <1>2, NewCallIsClean DEF CallIsClean
<1>3. CASE call' = call
  BY <1>3 DEF CallIsClean
<1>4. CASE LoadToRead \/ LoadToWrite \/ LoadToExtend
  <2>1. Loads(call.pc)
    BY <1>4 DEF LoadToRead, LoadToWrite, LoadToExtend
  <2>2. QED BY <1>2, <1>3, <2>1, LoadedCall
<1>5. CASE ReadPage
  <2>1. /\ call.pc = "reading"
        /\ call' = [call EXCEPT !.got = call.got \o SubSeq(page.data, page.offset + 1, page.offset + Gives),
                                !.want = call.want - Gives]
    BY <1>5 DEF ReadPage
  <2>2. call'.pc = "reading" /\ call'.data = call.data
    BY <1>1, <2>1 DEF CallType
  <2>3. QED BY <2>1, <2>2 DEF CallIsClean
<1>6. CASE ReadEnds
  <2>1. call' = NewCall \/ Loads(call.pc)
    BY <1>6 DEF ReadEnds, Returns
  <2>2. QED BY <1>2, <1>3, <2>1, LoadedCall
<1>7. CASE BeginExtend
  <2>1. call.pc = "writing" /\ call' = [call EXCEPT !.pc = "extending", !.target = pos]
    BY <1>7 DEF BeginExtend
  <2>2. call'.pc = "extending" /\ call'.got = call.got
    BY <1>1, <2>1 DEF CallType
  <2>3. QED BY <2>1, <2>2 DEF CallIsClean
<1>8. CASE Fill \/ WriteNext
  BY <1>3, <1>8 DEF Fill, WriteNext
<1>9. CASE FillNext
  BY <1>2, <1>3, <1>9 DEF FillNext, Fails
<1>10. CASE ExtendEnds
  <2>1. call.pc = "extending" /\ call' = [call EXCEPT !.pc = "writing", !.target = 0]
    BY <1>10 DEF ExtendEnds
  <2>2. PICK z : z = 0
    OBVIOUS
  <2>3. call' = [call EXCEPT !.pc = "writing", !.target = z]
    BY <2>1, <2>2
  <2>4. call'.pc = "writing" /\ call'.got = call.got
    BY <1>1, <2>3 DEF CallType
  <2>5. QED BY <2>1, <2>4 DEF CallIsClean
<1>11. CASE WritePage
  <2>1. call.pc = "writing"
    BY <1>11 DEF WritePage
  <2>2. call' = NewCall \/ \E r : call' = [call EXCEPT !.data = SubSeq(call.data, r + 1, Len(call.data))]
    BY <1>11 DEF WritePage, Returns
  <2>3. CASE \E r : call' = [call EXCEPT !.data = SubSeq(call.data, r + 1, Len(call.data))]
    <3>1. PICK d : call' = [call EXCEPT !.data = d]
      BY <2>3
    <3>2. call'.pc = call.pc /\ call'.got = call.got
      BY <1>1, <3>1 DEF CallType
    <3>3. QED BY <2>1, <3>2 DEF CallIsClean
  <2>4. QED BY <1>2, <2>2, <2>3
<1>12. CASE Save
  <2>1. PICK r : call' = [NewCall EXCEPT !.failed = r]
    BY <1>12 DEF Save
  <2>2. call'.data = NewCall.data /\ call'.got = NewCall.got
    BY <2>1 DEF NewCall
  <2>3. QED BY <2>2, NewCallIsClean DEF CallIsClean
<1>13. CASE Reopen
  BY <1>2, <1>13 DEF Reopen
<1>14. CASE \E read \in Reads : BeginRead(read[1], read[2])
  <2>1. PICK read \in Reads : BeginRead(read[1], read[2])
    BY <1>14
  <2>2. PICK a, b : BeginRead(a, b)
    BY <2>1
  <2>3. call' = NewCall \/ call' = [NewCall EXCEPT !.pc = "reading", !.want = a, !.min = b]
    BY <2>2 DEF BeginRead
  <2>4. CASE call' = [NewCall EXCEPT !.pc = "reading", !.want = a, !.min = b]
    <3>1. call'.data = NewCall.data /\ call'.got = NewCall.got
      BY <2>4 DEF NewCall
    <3>2. QED BY <3>1, NewCallIsClean DEF CallIsClean
  <2>5. QED BY <1>2, <2>3, <2>4
<1>15. CASE \E data \in Writes : BeginWrite(data)
  <2>1. PICK d : call' = [NewCall EXCEPT !.pc = "writing", !.data = d]
    BY <1>15 DEF BeginWrite
  <2>2. call'.pc = "writing" /\ call'.got = NewCall.got
    BY <2>1 DEF NewCall
  <2>3. QED BY <2>2, NewCallIsClean DEF CallIsClean
<1>16. CASE \E offset \in 0 .. MaxLength : Seek(offset)
  BY <1>2, <1>16 DEF Seek
<1>17. CASE UNCHANGED vars
  BY <1>3, <1>17 DEF vars
<1>18. QED BY <1>4, <1>5, <1>6, <1>7, <1>8, <1>9, <1>10, <1>11, <1>12, <1>13, <1>14, <1>15, <1>16, <1>17
            DEF Next, Step

\* The gap has the zeros it had, and those that a fill adds.
LEMMA GapStaysZero ==
    ASSUME Inv, ~broken, Inv', ~broken', GapIsZero, [Next]_vars
    PROVE  GapIsZero'
<1> SUFFICES ASSUME call'.pc = "extending", NEW i \in length' + 1 .. pos' PROVE ByteAt(i)' = 0
  BY DEF GapIsZero
<1>1. /\ call \in CallType /\ pos \in Nat /\ length \in Nat /\ length' \in Nat /\ pos' \in Nat
      /\ End' = pos' /\ i \in Nat /\ i >= 1
  BY DEF Inv, GridFSTypeOK, End
<1>2. CASE BeginExtend
  BY <1>1, <1>2 DEF BeginExtend
<1>3. CASE call.pc = "extending" /\ Quiet /\ pos' = pos /\ length' = length
  <2>1. i \in length + 1 .. pos /\ i \in 1 .. End /\ i <= End'
    BY <1>1, <1>3 DEF End
  <2>2. ByteAt(i) = 0
    BY <1>3, <2>1 DEF GapIsZero
  <2>3. QED BY <1>3, <2>1, <2>2, QuietSteps
<1>4. CASE Fill
  <2>1. PICK src \in Bytes :
            /\ page' = Overlaid(page, src) /\ pos' = pos + Len(src)
            /\ Len(src) \in Nat /\ \A j \in 1 .. Len(src) : src[j] = 0
    BY <1>4, FilledWithZeros
  <2>2. /\ page # None /\ n' = n /\ chunks' = chunks /\ End = pos /\ length' = length
        /\ call.pc = "extending"
    BY <1>4 DEF Fill, End
  <2>3. pos <= End /\ End <= End' /\ pos' <= End'
    BY <1>1, <2>1, <2>2
  <2>4. /\ \A k \in 1 .. End : k <= pos \/ k > pos + Len(src) => ByteAt(k)' = ByteAt(k)
        /\ \A j \in 1 .. Len(src), k \in Nat : k = pos + j => ByteAt(k)' = src[j]
    BY <2>1, <2>2, <2>3, OverlaidBytes
  <2>5. CASE i <= pos
    <3>1. i \in 1 .. End /\ i \in length + 1 .. pos
      BY <1>1, <2>2, <2>5
    <3>2. ByteAt(i) = 0
      BY <2>2, <3>1 DEF GapIsZero
    <3>3. QED BY <2>4, <2>5, <3>1, <3>2
  <2>6. CASE pos < i
    <3>1. PICK j \in 1 .. Len(src) : i = pos + j
      <4>1. i - pos \in 1 .. Len(src) /\ i = pos + (i - pos)
        BY <1>1, <2>1, <2>6
      <4>2. QED BY <4>1
    <3>2. QED BY <1>1, <2>1, <2>4, <3>1
  <2>7. QED BY <1>1, <2>5, <2>6
<1>5. CASE LoadToRead \/ LoadToWrite \/ LoadToExtend
  <2>1. Loads(call.pc)
    BY <1>5 DEF LoadToRead, LoadToWrite, LoadToExtend
  <2>2. call' = call /\ pos' = pos /\ length' = length
    BY <2>1, LoadedCall, NewCallIsClean
  <2>3. Quiet
    BY <1>5 DEF Quiet
  <2>4. QED BY <1>3, <2>2, <2>3
<1>6. CASE FillNext
  <2>1. call.pc = "extending" /\ pos' = pos /\ length' = length
    BY <1>6 DEF FillNext
  <2>2. Quiet
    BY <1>6 DEF Quiet
  <2>3. QED BY <1>3, <2>1, <2>2
<1>7. CASE UNCHANGED vars
  <2>1. call' = call /\ pos' = pos /\ length' = length /\ Quiet
    BY <1>7 DEF vars, Quiet
  <2>2. QED BY <1>3, <2>1
<1>8. ~ReadPage /\ ~ReadEnds /\ ~ExtendEnds /\ ~WritePage /\ ~WriteNext /\ ~Save /\ ~Reopen
  <2>1. ~ReadPage
    BY <1>1 DEF ReadPage, CallType
  <2>2. ~ReadEnds
    <3> SUFFICES ASSUME ReadEnds PROVE FALSE
      OBVIOUS
    <3>1. call.pc = "reading" /\ (call' = NewCall \/ Loads(call.pc))
      BY DEF ReadEnds, Returns
    <3>2. QED BY <3>1, LoadedCall, NewCallIsClean
  <2>3. ~ExtendEnds
    BY <1>1 DEF ExtendEnds, CallType
  <2>4. ~WritePage
    <3> SUFFICES ASSUME WritePage PROVE FALSE
      OBVIOUS
    <3>1. call.pc = "writing"
      BY DEF WritePage
    <3>2. call' = NewCall \/ \E d : call' = [call EXCEPT !.data = d]
      BY DEF WritePage, Returns
    <3>3. CASE \E d : call' = [call EXCEPT !.data = d]
      BY <1>1, <3>1, <3>3 DEF CallType
    <3>4. QED BY <3>2, <3>3, NewCallIsClean
  <2>5. ~WriteNext
    BY DEF WriteNext
  <2>6. ~Save
    BY DEF Save, NewCall
  <2>7. ~Reopen
    BY NewCallIsClean DEF Reopen
  <2>8. QED BY <2>1, <2>2, <2>3, <2>4, <2>5, <2>6, <2>7
<1>9. /\ ~\E read \in Reads : BeginRead(read[1], read[2])
      /\ ~\E data \in Writes : BeginWrite(data)
      /\ ~\E offset \in 0 .. MaxLength : Seek(offset)
  <2>1. ASSUME NEW a, NEW b, BeginRead(a, b) PROVE FALSE
    BY <2>1 DEF BeginRead, NewCall
  <2>2. ASSUME NEW d, BeginWrite(d) PROVE FALSE
    BY <2>2 DEF BeginWrite, NewCall
  <2>3. ASSUME NEW offset, Seek(offset) PROVE FALSE
    BY <2>3, NewCallIsClean DEF Seek
  <2>4. QED BY <2>1, <2>2, <2>3
<1>10. QED BY <1>2, <1>4, <1>5, <1>6, <1>7, <1>8, <1>9 DEF Next, Step

\* The invariant that the implementation needs.
BytesInv == Inv /\ CallIsClean /\ (~broken => GapIsZero)

LEMMA BytesInvIsInvariant == Spec => []BytesInv
<1>1. Init => BytesInv
  BY InitHasInv, NewCallIsClean DEF Init, BytesInv, CallIsClean, GapIsZero
<1>2. BytesInv /\ [Next]_vars => BytesInv'
  <2> SUFFICES ASSUME BytesInv, [Next]_vars PROVE BytesInv'
    OBVIOUS
  <2>1. Inv' /\ CallIsClean'
    BY NextKeepsInv, CallStaysClean DEF BytesInv
  <2>2. ~broken' => ~broken
    BY DEF Next, vars
  <2>3. QED BY <2>1, <2>2, GapStaysZero DEF BytesInv
<1>3. QED BY <1>1, <1>2, PTL DEF Spec

\* Every step is one that ByteFile allows.
LEMMA NextIsAllowed ==
    ASSUME BytesInv, BytesInv', [Next]_vars
    PROVE  [Abstract!Next]_(Abstract!vars)
<1>1. CASE UNCHANGED vars
  <2>1. UNCHANGED <<pos, n, length, isDirty, page, chunks, call, broken>>
    BY <1>1 DEF vars
  <2>2. Contents' = Contents
    BY <2>1 DEF Contents, ByteAt
  <2>3. QED BY <2>1, <2>2 DEF Abstract!vars
<1>2. CASE broken'
  BY <1>2 DEF Abstract!Next
<1>3. CASE Next /\ ~broken'
  <2>1. Inv /\ Inv' /\ ~broken /\ ~broken' /\ CallIsClean /\ GapIsZero
    BY <1>3 DEF BytesInv, Next
  <2>2. Allowed
    <3>1. CASE LoadToRead \/ LoadToWrite \/ LoadToExtend
      BY <2>1, <3>1, LoadsAreAllowed
    <3>2. CASE ReadPage
      BY <2>1, <3>2, ReadPageIsAllowed
    <3>3. CASE ReadEnds
      BY <2>1, <3>3, ReadEndsIsAllowed
    <3>4. CASE BeginExtend
      BY <2>1, <3>4, BeginExtendIsAllowed
    <3>5. CASE Fill \/ FillNext \/ WriteNext
      BY <2>1, <3>5, FillsAreAllowed
    <3>6. CASE ExtendEnds
      BY <2>1, <3>6, ExtendEndsIsAllowed
    <3>7. CASE WritePage
      BY <2>1, <3>7, WritePageIsAllowed
    <3>8. CASE Save
      BY <2>1, <3>8, SaveIsAllowed
    <3>9. CASE Reopen
      BY <2>1, <3>9, ReopenIsAllowed
    <3>10. CASE \E read \in Reads : BeginRead(read[1], read[2])
      BY <2>1, <3>10, BeginReadIsAllowed
    <3>11. CASE \E data \in Writes : BeginWrite(data)
      BY <2>1, <3>11, BeginWriteIsAllowed
    <3>12. CASE \E offset \in 0 .. MaxLength : Seek(offset)
      BY <2>1, <3>12, SeekIsAllowed
    <3>13. QED BY <1>3, <3>1, <3>2, <3>3, <3>4, <3>5, <3>6, <3>7, <3>8, <3>9, <3>10, <3>11, <3>12 DEF Next, Step
  <2>3. QED BY <2>2 DEF Allowed
<1>4. QED BY <1>1, <1>2, <1>3

LEMMA InitIsAllowed == Init => Abstract!Init
<1> SUFFICES ASSUME Init PROVE Abstract!Init
  OBVIOUS
<1>1. Contents = <<>>
  BY DEF Init, Contents
<1>2. call.data = <<>> /\ call.got = <<>> /\ call.pc = "idle"
  BY NewCallIsClean DEF Init
<1>3. QED BY <1>1, <1>2 DEF Init, Abstract!Init

\* A GridFS file is a sequence of bytes: what is read is what was written, in any order of
\* reads, writes and seeks over pages, with zeros in the gaps, and what was saved is there
\* when it is opened again; a read may forget what was written to the page it leaves.
THEOREM FileIsByteFile == Spec => IsByteFile
<1>1. Init => Abstract!Init
  BY InitIsAllowed
<1>2. BytesInv /\ BytesInv' /\ [Next]_vars => [Abstract!Next]_(Abstract!vars)
  BY NextIsAllowed
<1>3. QED BY <1>1, <1>2, BytesInvIsInvariant, PTL DEF Spec, IsByteFile, Abstract!Spec
=============================================================================
