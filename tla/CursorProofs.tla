----------------------------- MODULE CursorProofs -----------------------------
(***************************************************************************)
(* Cursors of one client share a stream: each takes its own replies, gives *)
(* the documents of its query in order and leaves nothing open, for any    *)
(* cursors, queries and numbers of documents.  Scans that come while a     *)
(* cursor is in exhaust are excluded, as in the runs.                      *)
(***************************************************************************)
EXTENDS Cursor, SequenceTheorems, TLAPS

(***************************************************************************)
(* What holds of a cursor c, and of the values it has in the middle of a   *)
(* call: its query q, which has t documents for the client, its            *)
(* mongoc_cursor_t u, the stream and the server w, and the number n of the *)
(* documents returned.                                                     *)
(***************************************************************************)

\* Outside of exhaust every reply was read.
Rests(c, u, w, n) ==
    /\ w.srv[c].replies = u.replies
    /\ w.srv[c].open <=> u.id
    /\ w.srv[c].sent = n + Len(u.buffer)
    /\ ~w.srv[c].pushing

\* Replies r follow on each other: at[i] documents came before the ith of them.
Chained(c, r, at) ==
    \A i \in 1 .. Len(r) :
        /\ at[i + 1] = at[i] + Len(r[i].docs)
        /\ \A j \in 1 .. Len(r[i].docs) : r[i].docs[j] = <<c, at[i] + j>>

\* Replies r hold the documents between the first and the last.
Brings(c, r, first, last) ==
    \E at \in [1 .. Len(r) + 1 -> 0 .. last] :
        at[1] = first /\ at[Len(r) + 1] = last /\ Chained(c, r, at)

\* One of the replies in the pipe of a cursor in exhaust.
IsNext(c, q, a, nth, more) ==
    /\ a.of = c /\ a.nth = nth
    /\ a.kind \in {"batch", "error"}
    /\ a.kind = "error" => a.docs = <<>> /\ ~a.more
    /\ more => a.more
    /\ a.more /\ ~q.tailable => a.docs # <<>>

\* In exhaust the replies not read yet are in the pipe.
Flows(c, q, t, u, w, n) ==
    /\ w.open
    /\ w.srv[c].replies = u.replies + Len(w.pipe)
    /\ \A i \in 1 .. Len(w.pipe) : IsNext(c, q, w.pipe[i], u.replies + i, i < Len(w.pipe))
    /\ Brings(c, w.pipe, n + Len(u.buffer), w.srv[c].sent)
    /\ w.pipe = <<>> => (w.srv[c].pushing <=> u.id)
    /\ w.pipe # <<>> => u.id /\ (w.srv[c].pushing <=> w.pipe[Len(w.pipe)].more)
    /\ w.pipe # <<>> /\ w.pipe[Len(w.pipe)].kind = "batch" /\ ~w.srv[c].pushing /\ ~q.tailable
          => w.srv[c].sent = t

\* A cursor that has sent its query and not failed.
Works(c, q, t, u, w, n) ==
    /\ u.replies > 0
    /\ u.inExhaust <=> q.kind = "exhaust"
    /\ u.inExhaust => Flows(c, q, t, u, w, n)
    /\ ~u.inExhaust => Rests(c, u, w, n)
    /\ ~u.id /\ ~q.tailable /\ q.limit >= 0 => w.srv[c].sent = t
    /\ q.kind = "find" /\ u.id /\ q.limit # 0 => w.srv[c].sent < Magnitude(q.limit)

\* And one that has not.
Unused(c, u, w, n) ==
    /\ n = 0 /\ u.count = 0 /\ u.replies = 0 /\ u.buffer = <<>> /\ u.current = None
    /\ ~u.id /\ ~u.inExhaust /\ ~u.done
    /\ w.srv[c] = [open |-> FALSE, sent |-> 0, replies |-> 0, pushing |-> FALSE]

\* Cursor and server as long as the application has the cursor.
Stands(c, q, t, u, w, n) ==
    /\ w.srv[c].sent <= t
    /\ u.replies <= w.srv[c].replies
    /\ q.kind = "exhaust" => (w.srv[c].open <=> w.srv[c].pushing)
    /\ u.inExhaust => q.kind = "exhaust"
    /\ w.srv[c].pushing => u.inExhaust /\ u.error = "none" /\ w.open
    /\ w.srv[c].open /\ w.srv[c].replies = u.replies => u.id \/ u.inExhaust
    /\ u.sent /\ u.error = "none" => Works(c, q, t, u, w, n)
    /\ ~u.sent => Unused(c, u, w, n)

CursorsStand ==
    \A c \in Cursor :
        /\ php[c].stage # "gone" => Stands(c, query[c], Total(c), cur[c], wire, Len(given[c]))
        /\ php[c].stage = "gone" => ~cur[c].inExhaust /\ ~wire.srv[c].pushing

\* The stream has nothing unread but for a cursor in exhaust that goes on.
StreamFits ==
    /\ wire.answer = None
    /\ ~wire.open => wire.pipe = <<>>
    /\ ~InExhaust => wire.pipe = <<>>
    /\ \A c, d \in Cursor : cur[c].inExhaust /\ cur[d].inExhaust => c = d
    /\ \A c \in Cursor :
          cur[c].inExhaust =>
              /\ cur[c].error # "none" => wire.pipe = <<>>
              /\ cur[c].done => ~cur[c].id \/ cur[c].error # "none"

\* What count says of the documents returned, and the current one.
Counts(c, q, u, n) ==
    /\ n <= u.count
    /\ u.current # None => n > 0 /\ u.current = <<c, n>>
    /\ q.kind \in {"query", "exhaust"} /\ q.limit # 0 => n <= Magnitude(q.limit)
    /\ ~q.tailable =>
          \/ u.count = n
          \/ u.current = None /\ (u.done \/ (~u.id /\ u.buffer = <<>>))

CallsFit ==
    \A c \in Cursor :
        /\ php[c].stage = "new" => ~cur[c].sent /\ cur[c].error = "none" /\ php[c].key = 0
        /\ php[c].stage = "made" /\ cur[c].error = "none" =>
              /\ cur[c].sent
              /\ Counts(c, query[c], cur[c], Len(given[c]))
              /\ cur[c].count = php[c].key + 1
              /\ php[c].child \in {None, cur[c].current}
        /\ php[c].stage # "made" => php[c].child = None

GivenInOrder == \A c \in Cursor : \A i \in DOMAIN given[c] : given[c][i] = <<c, i>>

\* The inductive invariant.
Inv == TypeOK /\ CursorsStand /\ StreamFits /\ CallsFit /\ GivenInOrder /\ LimitRemains
       /\ NothingLeaks /\ CommandsTakeTheirReplies

-----------------------------------------------------------------------------
(* Queries, batches and what the server has.                               *)

ServerType == [open: BOOLEAN, sent: Nat, replies: Nat, pushing: BOOLEAN]

\* The queries and the documents that match them.
Asked ==
    /\ query \in Queries
    /\ DOMAIN docs = Cursor /\ \A c \in Cursor : docs[c] \in 0 .. MaxDocs[c]

LEMMA QueriesAre ==
    ASSUME Asked, NEW c \in Cursor
    PROVE  /\ query[c] \in QueryType
           /\ query[c].kind \in {"exhaust", "aggregate"} => query[c].limit = 0
           /\ MaxDocs[c] \in Nat /\ docs[c] \in Nat /\ docs[c] <= MaxDocs[c]
  BY QueryAssumption DEF Asked

LEMMA TotalsAre ==
    ASSUME Asked, NEW c \in Cursor
    PROVE  /\ Total(c) \in Nat /\ Total(c) <= docs[c]
           /\ query[c].kind = "find" /\ query[c].limit # 0 => Total(c) <= Magnitude(query[c].limit)
           /\ query[c].kind = "find" /\ query[c].limit # 0 =>
                 Total(c) = docs[c] \/ Total(c) = Magnitude(query[c].limit)
           /\ query[c].kind # "find" \/ query[c].limit = 0 => Total(c) = docs[c]
<1>1. /\ query[c].limit \in Int
      /\ docs[c] \in Nat
  BY QueriesAre DEF QueryType
<1>2. QED BY <1>1 DEF Total, Magnitude, AtMost

LEMMA BatchesFit ==
    ASSUME Asked, NEW c \in Cursor, NEW w, w.srv[c] \in ServerType, w.srv[c].sent <= Total(c),
           NEW n \in Int, NEW b \in Batches(w, c, n)
    PROVE  /\ b.size \in Nat /\ b.more \in BOOLEAN
           /\ w.srv[c].sent + b.size <= Total(c)
           /\ b.more /\ ~query[c].tailable => b.size > 0
           /\ ~b.more /\ n >= 0 => w.srv[c].sent + b.size = Total(c)
           /\ query[c].kind = "find" /\ query[c].limit # 0 /\ b.more
                 => w.srv[c].sent + b.size < Magnitude(query[c].limit)
<1>1. /\ query[c].limit \in Int /\ Total(c) \in Nat /\ w.srv[c].sent \in Nat
  BY QueriesAre, TotalsAre DEF QueryType, ServerType
<1> DEFINE left == Total(c) - w.srv[c].sent
           limited == query[c].kind = "find" /\ query[c].limit # 0
                      /\ w.srv[c].sent + left = Magnitude(query[c].limit)
<1>2. /\ b \in [size : 0 .. left, more : BOOLEAN]
      /\ b.more => ~(limited /\ b.size = left)
      /\ b.more => b.size > 0 \/ query[c].tailable
      /\ ~b.more => n < 0 \/ b.size = left
  BY Zenon DEF Batches
<1>3. b.size \in 0 .. left /\ b.more \in BOOLEAN
  BY <1>2
<1>4. left \in Nat
  BY <1>1
<1>5. b.size \in Nat /\ b.size <= left
  BY <1>3, <1>4
<1>6. b.more /\ ~query[c].tailable => b.size > 0
  BY <1>2
<1>7. w.srv[c].sent + b.size <= Total(c)
  BY <1>1, <1>5
<1>8. ~b.more /\ n >= 0 => w.srv[c].sent + b.size = Total(c)
  BY <1>1, <1>2, <1>5
<1>9. query[c].kind = "find" /\ query[c].limit # 0 /\ b.more
         => w.srv[c].sent + b.size < Magnitude(query[c].limit)
  <2>1. SUFFICES ASSUME query[c].kind = "find", query[c].limit # 0, b.more
                 PROVE  w.srv[c].sent + b.size < Magnitude(query[c].limit)
    OBVIOUS
  <2>2. Total(c) <= Magnitude(query[c].limit) /\ Magnitude(query[c].limit) \in Nat
    BY <1>1, <2>1, TotalsAre DEF Magnitude
  <2>3. w.srv[c].sent + left = Total(c)
    BY <1>1
  <2>4. b.size # left \/ Total(c) # Magnitude(query[c].limit)
    BY <1>2, <2>1, <2>3
  <2>5. QED BY <1>1, <1>5, <2>2, <2>4
<1>10. QED BY <1>3, <1>5, <1>6, <1>7, <1>8, <1>9

LEMMA DocumentsAre ==
    ASSUME Asked, NEW c \in Cursor, NEW w, w.srv[c].sent \in Nat, NEW b, b.size \in Nat,
           w.srv[c].sent + b.size <= Total(c)
    PROVE  /\ Documents(w, c, b) \in Seq(Document)
           /\ Len(Documents(w, c, b)) = b.size
           /\ \A i \in 1 .. b.size : Documents(w, c, b)[i] = <<c, w.srv[c].sent + i>>
<1>1. Total(c) <= MaxDocs[c] /\ Total(c) \in Nat /\ MaxDocs[c] \in Nat
  BY QueriesAre, TotalsAre
<1>2. ASSUME NEW i \in 1 .. b.size PROVE <<c, w.srv[c].sent + i>> \in Document
  <2>1. w.srv[c].sent + i \in 1 .. MaxDocs[c]
    BY <1>1
  <2>2. <<c, w.srv[c].sent + i>> \in {c} \X (1 .. MaxDocs[c])
    BY <2>1
  <2>3. QED BY <2>2, Zenon DEF Document
<1>3. QED BY <1>2 DEF Documents

\* The server has dealt with a request.
LEMMA ServedIs ==
    ASSUME Asked, NEW c \in Cursor, NEW w \in WireType, w.srv[c].sent <= Total(c), NEW n \in Int,
           NEW b \in Batches(w, c, n), NEW pushing \in BOOLEAN
    PROVE  LET s == Served(w, c, b, pushing)
           IN /\ s \in [Cursor -> ServerType]
              /\ s[c].open = b.more /\ s[c].sent = w.srv[c].sent + b.size
              /\ s[c].replies = w.srv[c].replies + 1
              /\ s[c].pushing = (pushing /\ b.more)
              /\ \A d \in Cursor \ {c} : s[d] = w.srv[d]
<1>1. w.srv \in [Cursor -> ServerType]
  BY DEF WireType, ServerType
<1>2. b.size \in Nat /\ b.more \in BOOLEAN
  BY <1>1, BatchesFit
<1>3. w.srv[c].sent + b.size \in Nat /\ w.srv[c].replies + 1 \in Nat
  BY <1>1, <1>2 DEF ServerType
<1>4. PICK p \in BOOLEAN : p = (pushing /\ b.more)
  BY Zenon
<1>5. Served(w, c, b, pushing) =
        [w.srv EXCEPT ![c] = [open |-> b.more, sent |-> w.srv[c].sent + b.size,
                              replies |-> w.srv[c].replies + 1, pushing |-> p]]
  BY <1>4, Zenon DEF Served
<1>6. [open |-> b.more, sent |-> w.srv[c].sent + b.size, replies |-> w.srv[c].replies + 1,
       pushing |-> p] \in ServerType
  BY <1>2, <1>3 DEF ServerType
<1>7. /\ Served(w, c, b, pushing) \in [Cursor -> ServerType]
      /\ Served(w, c, b, pushing)[c] =
            [open |-> b.more, sent |-> w.srv[c].sent + b.size,
             replies |-> w.srv[c].replies + 1, pushing |-> p]
      /\ \A d \in Cursor \ {c} : Served(w, c, b, pushing)[d] = w.srv[d]
  BY <1>1, <1>5, <1>6
<1>8. Served(w, c, b, pushing)[c].pushing = (pushing /\ b.more)
  BY <1>4, <1>7
<1>9. QED BY <1>7, <1>8

LEMMA RefusedIs ==
    ASSUME NEW c \in Cursor, NEW w \in WireType
    PROVE  LET s == Refused(w, c)
           IN /\ s \in [Cursor -> ServerType]
              /\ ~s[c].open /\ s[c].sent = w.srv[c].sent
              /\ s[c].replies = w.srv[c].replies + 1 /\ ~s[c].pushing
              /\ \A d \in Cursor \ {c} : s[d] = w.srv[d]
<1>1. w.srv \in [Cursor -> ServerType]
  BY DEF WireType, ServerType
<1>2. Refused(w, c) = [w.srv EXCEPT ![c] = [open |-> FALSE, sent |-> w.srv[c].sent,
                                            replies |-> w.srv[c].replies + 1, pushing |-> FALSE]]
  BY <1>1 DEF Refused, ServerType
<1>3. QED BY <1>1, <1>2 DEF ServerType

\* Where no cursor is in exhaust nothing is lost on the server with the stream.
LEMMA DroppedIs ==
    ASSUME NEW s \in [Cursor -> ServerType]
    PROVE  /\ Dropped(s) \in [Cursor -> ServerType]
           /\ \A d \in Cursor :
                 /\ Dropped(s)[d].sent = s[d].sent /\ Dropped(s)[d].replies = s[d].replies
                 /\ Dropped(s)[d].open <=> s[d].open /\ ~s[d].pushing
                 /\ ~Dropped(s)[d].pushing
                 /\ ~s[d].pushing => Dropped(s)[d] = s[d]
<1>1. ASSUME NEW d \in Cursor
      PROVE  /\ Dropped(s)[d] \in ServerType
             /\ Dropped(s)[d].sent = s[d].sent /\ Dropped(s)[d].replies = s[d].replies
             /\ Dropped(s)[d].open <=> s[d].open /\ ~s[d].pushing
             /\ ~Dropped(s)[d].pushing
             /\ ~s[d].pushing => Dropped(s)[d] = s[d]
  <2>1. PICK o \in BOOLEAN : o <=> s[d].open /\ ~s[d].pushing
    OBVIOUS
  <2>2. Dropped(s)[d] = [s[d] EXCEPT !.open = o, !.pushing = FALSE]
    BY <2>1, Zenon DEF Dropped
  <2>3. s[d] \in ServerType
    OBVIOUS
  <2>4. PICK x : x = [s[d] EXCEPT !.open = o, !.pushing = FALSE]
    OBVIOUS
  <2>5. /\ x \in ServerType /\ x.sent = s[d].sent /\ x.replies = s[d].replies
        /\ x.open = o /\ ~x.pushing
    BY <2>3, <2>4 DEF ServerType
  <2>6. ~s[d].pushing => x = s[d]
    <3>1. ~s[d].pushing => s[d].pushing = FALSE /\ s[d].open = o
      BY <2>1, <2>3 DEF ServerType
    <3>2. QED BY <2>3, <2>4, <3>1 DEF ServerType
  <2>7. Dropped(s)[d] = x
    BY <2>2, <2>4
  <2>8. QED BY <2>1, <2>5, <2>6, <2>7
<1>2. DOMAIN Dropped(s) = Cursor /\ Dropped(s) = [d \in Cursor |-> Dropped(s)[d]]
  BY DEF Dropped
<1>3. QED BY <1>1, <1>2

-----------------------------------------------------------------------------
(* Round trips on a stream with nothing in it.                             *)

\* No reply is in the stream and none will come.
Quiet(w) == w.pipe = <<>> /\ \A d \in Cursor : ~w.srv[d].pushing

LEMMA StreamsAre ==
    ASSUME NEW s \in [Cursor -> ServerType]
    PROVE  /\ Disconnected(s) \in WireType
           /\ ~Disconnected(s).open /\ Disconnected(s).pipe = <<>>
           /\ Disconnected(s).answer = None /\ Disconnected(s).srv = Dropped(s)
<1>1. Dropped(s) \in [Cursor -> ServerType]
  BY DroppedIs
<1>2. <<>> \in Seq(ReplyType)
  OBVIOUS
<1>3. QED BY <1>1, <1>2 DEF Disconnected, WireType, ServerType

\* The reply to the request is what the client reads.
LEMMA AnsweredIs ==
    ASSUME NEW w \in WireType, w.pipe = <<>>, NEW s \in [Cursor -> ServerType],
           NEW reply \in ReplyType, NEW command \in BOOLEAN,
           reply.kind # "rest", command => reply.kind # "batch"
    PROVE  LET x == Answered(w, reply, s, command)
           IN /\ x \in WireType
              /\ x.open /\ x.pipe = <<>> /\ x.answer = reply /\ x.srv = s
<1> DEFINE v == [w EXCEPT !.open = TRUE, !.srv = s,
                          !.pipe = IF w.open THEN Append(@, reply) ELSE <<reply>>]
<1>1. Append(w.pipe, reply) = <<reply>>
  OBVIOUS
<1>2. v.open = TRUE /\ v.pipe = <<reply>> /\ v.srv = s /\ v.answer = w.answer
  BY <1>1 DEF WireType
<1>3. v \in WireType
  <2>1. <<reply>> \in Seq(ReplyType)
    OBVIOUS
  <2>2. Append(w.pipe, reply) \in Seq(ReplyType)
    BY <1>1, <2>1
  <2>3. QED BY <2>1, <2>2 DEF WireType, ServerType
<1> HIDE DEF v
<1>4. Head(v.pipe) = reply /\ Tail(v.pipe) = <<>>
  BY <1>2
<1>5. Taken(v, command) = [v EXCEPT !.pipe = Tail(@), !.answer = reply]
  <2>1. CASE command
    BY <2>1, <1>4 DEF Taken
  <2>2. CASE ~command
    BY <2>2, <1>4 DEF Taken
  <2>3. QED BY <2>1, <2>2
<1>6. Answered(w, reply, s, command) = [v EXCEPT !.pipe = Tail(@), !.answer = reply]
  BY <1>5, Zenon DEF Answered, v
<1>7. <<>> \in Seq(ReplyType)
  OBVIOUS
<1>8. QED BY <1>2, <1>3, <1>4, <1>6, <1>7 DEF WireType, ServerType

\* The request or its answer was lost.
Lost(c, w, x) ==
    /\ x.answer = None
    /\ ~x.srv[c].pushing
    /\ x.srv[c].sent <= Total(c) /\ x.srv[c].replies >= w.srv[c].replies
    /\ query[c].kind = "exhaust" => ~x.srv[c].open
    /\ x.srv[c].open /\ x.srv[c].replies = w.srv[c].replies => w.srv[c].open

\* The server refused it.
Declined(c, w, x) ==
    /\ x.open /\ x.answer = Reply(w, "error", c, <<>>, FALSE)
    /\ ~x.srv[c].open /\ ~x.srv[c].pushing
    /\ x.srv[c].sent = w.srv[c].sent /\ x.srv[c].replies = w.srv[c].replies + 1

\* A batch has come.
Brought(c, w, x, b, kind) ==
    /\ x.open /\ x.answer = Reply(w, kind, c, Documents(w, c, b), b.more)
    /\ x.srv[c].open = b.more
    /\ x.srv[c].pushing <=> query[c].kind = "exhaust" /\ b.more
    /\ x.srv[c].sent = w.srv[c].sent + b.size /\ x.srv[c].replies = w.srv[c].replies + 1

\* What becomes of the stream otherwise.
Kept(c, w, x) ==
    /\ x \in WireType /\ x.pipe = <<>>
    /\ \A d \in Cursor \ {c} : x.srv[d] = w.srv[d]

\* The ends of a round trip.
Round(c, w, n, kind, x) ==
    /\ Kept(c, w, x)
    /\ \/ Lost(c, w, x)
       \/ Declined(c, w, x)
       \/ \E b \in Batches(w, c, n) : Brought(c, w, x, b, kind)

LEMMA RepliesAre ==
    ASSUME NEW c \in Cursor, NEW w \in WireType, NEW kind \in {"batch", "cursor", "error"},
           NEW batch \in Seq(Document), NEW more \in BOOLEAN
    PROVE  LET a == Reply(w, kind, c, batch, more)
           IN /\ a \in ReplyType /\ a # None
              /\ a.kind = kind /\ a.of = c /\ a.nth = w.srv[c].replies + 1
              /\ a.docs = batch /\ a.more = more
<1>1. w.srv[c].replies + 1 \in Nat
  BY DEF WireType
<1>2. Reply(w, kind, c, batch, more) \in ReplyType
  BY <1>1 DEF Reply, ReplyType
<1>3. Reply(w, kind, c, batch, more) # None
  BY <1>2, NoneIsNothing
<1>4. QED BY <1>2, <1>3 DEF Reply

LEMMA ErrorsAre ==
    ASSUME NEW c \in Cursor, NEW w \in WireType
    PROVE  LET a == Reply(w, "error", c, <<>>, FALSE)
           IN /\ a \in ReplyType /\ a # None
              /\ a.kind = "error" /\ a.of = c /\ a.nth = w.srv[c].replies + 1
              /\ a.docs = <<>> /\ ~a.more
<1>1. w.srv[c].replies + 1 \in Nat /\ <<>> \in Seq(Document)
  BY DEF WireType
<1>2. Reply(w, "error", c, <<>>, FALSE) \in ReplyType
  BY <1>1 DEF Reply, ReplyType
<1>3. Reply(w, "error", c, <<>>, FALSE) # None
  BY <1>2, NoneIsNothing
<1>4. QED BY <1>2, <1>3 DEF Reply

LEMMA UnsentIs ==
    ASSUME NEW c \in Cursor, NEW w \in WireType, Quiet(w), w.srv[c].sent <= Total(c),
           query[c].kind = "exhaust" => ~w.srv[c].open,
           NEW command \in BOOLEAN, NEW x \in Unsent(w, command)
    PROVE  Kept(c, w, x) /\ Lost(c, w, x) /\ x.srv = w.srv
<1>1. w.srv \in [Cursor -> ServerType]
  BY DEF WireType, ServerType
<1>2. Dropped(w.srv) = w.srv
  BY <1>1, DroppedIs DEF Quiet
<1>3. x = Disconnected(w.srv) \/ x = [w EXCEPT !.answer = None]
  BY Zenon DEF Unsent
<1>4. x \in WireType /\ x.pipe = <<>> /\ x.answer = None /\ x.srv = w.srv
  <2>1. CASE x = Disconnected(w.srv)
    BY <1>1, <1>2, <2>1, StreamsAre
  <2>2. CASE x = [w EXCEPT !.answer = None]
    BY <2>2 DEF Quiet, WireType
  <2>3. QED BY <1>3, <2>1, <2>2
<1>5. w.srv[c].replies \in Nat
  BY <1>1 DEF ServerType
<1>6. QED BY <1>4, <1>5 DEF Kept, Lost, Quiet

LEMMA RequestsEnd ==
    ASSUME Asked, NEW c \in Cursor, NEW w \in WireType, Quiet(w), w.srv[c].sent <= Total(c),
           query[c].kind = "exhaust" => ~w.srv[c].open,
           NEW n \in Int, NEW kind \in {"batch", "cursor"},
           NEW pushing \in BOOLEAN, pushing <=> query[c].kind = "exhaust",
           NEW x \in Requests(w, c, n, kind, pushing)
    PROVE  Round(c, w, n, kind, x)
<1>1. w.srv \in [Cursor -> ServerType]
  BY DEF WireType, ServerType
<1>2. PICK command \in BOOLEAN : command = (kind = "cursor")
  BY Zenon
<1>3. \/ x \in Unsent(w, command)
      \/ \E b \in Batches(w, c, n) : x = Disconnected(Served(w, c, b, pushing))
      \/ \E b \in Batches(w, c, n) :
            x = Answered(w, Reply(w, kind, c, Documents(w, c, b), b.more),
                         Served(w, c, b, pushing), command)
      \/ x = Answered(w, Reply(w, "error", c, <<>>, FALSE), Refused(w, c), command)
  <2>1. \/ x \in Unsent(w, command)
        \/ \E b \in IF w.srv[c].replies > 0 /\ ~w.srv[c].open THEN {} ELSE Batches(w, c, n) :
              x = Disconnected(Served(w, c, b, pushing))
        \/ \E b \in IF w.srv[c].replies > 0 /\ ~w.srv[c].open THEN {} ELSE Batches(w, c, n) :
              x = Answered(w, Reply(w, kind, c, Documents(w, c, b), b.more),
                           Served(w, c, b, pushing), command)
        \/ x = Answered(w, Reply(w, "error", c, <<>>, FALSE), Refused(w, c), command)
    BY <1>2, Zenon DEF Requests
  <2>2. QED BY <2>1
<1>4. CASE x \in Unsent(w, command)
  BY <1>4, UnsentIs DEF Round
<1>5. ASSUME NEW b \in Batches(w, c, n), x = Disconnected(Served(w, c, b, pushing))
      PROVE  Round(c, w, n, kind, x)
  <2> DEFINE s == Served(w, c, b, pushing)
  <2>1. /\ s \in [Cursor -> ServerType]
        /\ s[c].open = b.more /\ s[c].sent = w.srv[c].sent + b.size
        /\ s[c].replies = w.srv[c].replies + 1
        /\ s[c].pushing = (pushing /\ b.more)
        /\ \A d \in Cursor \ {c} : s[d] = w.srv[d]
    BY ServedIs
  <2> HIDE DEF s
  <2>2. /\ x \in WireType /\ x.pipe = <<>> /\ x.answer = None /\ x.srv = Dropped(s)
    BY <1>5, <2>1, StreamsAre DEF s
  <2>3. \A d \in Cursor \ {c} : x.srv[d] = w.srv[d]
    BY <2>1, <2>2, DroppedIs DEF Quiet
  <2>4. Kept(c, w, x)
    BY <2>2, <2>3 DEF Kept
  <2>5. /\ ~x.srv[c].pushing
        /\ x.srv[c].sent = w.srv[c].sent + b.size /\ x.srv[c].replies = w.srv[c].replies + 1
        /\ x.srv[c].open <=> b.more /\ ~pushing
    <3>1. /\ Dropped(s)[c].sent = s[c].sent /\ Dropped(s)[c].replies = s[c].replies
          /\ Dropped(s)[c].open <=> s[c].open /\ ~s[c].pushing
          /\ ~Dropped(s)[c].pushing
      BY <2>1, DroppedIs
    <3>2. QED BY <2>1, <2>2, <3>1
  <2>6. x.srv[c].sent <= Total(c) /\ w.srv[c].replies \in Nat
    BY <1>1, <2>5, BatchesFit DEF ServerType
  <2>7. Lost(c, w, x)
    BY <2>2, <2>5, <2>6 DEF Lost
  <2>8. QED BY <2>4, <2>7 DEF Round
<1>6. ASSUME NEW b \in Batches(w, c, n),
             x = Answered(w, Reply(w, kind, c, Documents(w, c, b), b.more),
                          Served(w, c, b, pushing), command)
      PROVE  Round(c, w, n, kind, x)
  <2> DEFINE s == Served(w, c, b, pushing)
             a == Reply(w, kind, c, Documents(w, c, b), b.more)
  <2>1. /\ s \in [Cursor -> ServerType]
        /\ s[c].open = b.more /\ s[c].sent = w.srv[c].sent + b.size
        /\ s[c].replies = w.srv[c].replies + 1
        /\ s[c].pushing = (pushing /\ b.more)
        /\ \A d \in Cursor \ {c} : s[d] = w.srv[d]
    BY ServedIs
  <2>2. b.size \in Nat /\ b.more \in BOOLEAN /\ w.srv[c].sent + b.size <= Total(c)
    BY <1>1, BatchesFit
  <2>3. Documents(w, c, b) \in Seq(Document)
    BY <1>1, <2>2, DocumentsAre DEF ServerType
  <2>4. a \in ReplyType /\ a.kind = kind
    BY <2>2, <2>3, RepliesAre
  <2> HIDE DEF s, a
  <2>5. x = Answered(w, a, s, command)
    BY <1>6, Zenon DEF s, a
  <2>6. a.kind # "rest" /\ (command => a.kind # "batch")
    BY <1>2, <2>4
  <2>7. x \in WireType /\ x.open /\ x.pipe = <<>> /\ x.answer = a /\ x.srv = s
    BY <2>1, <2>4, <2>5, <2>6, AnsweredIs DEF Quiet
  <2>8. Brought(c, w, x, b, kind)
    BY <2>1, <2>7 DEF Brought, a
  <2>9. Kept(c, w, x)
    BY <2>1, <2>7 DEF Kept
  <2>10. QED BY <2>8, <2>9 DEF Round
<1>7. CASE x = Answered(w, Reply(w, "error", c, <<>>, FALSE), Refused(w, c), command)
  <2> DEFINE s == Refused(w, c)
             a == Reply(w, "error", c, <<>>, FALSE)
  <2>1. /\ s \in [Cursor -> ServerType]
        /\ ~s[c].open /\ s[c].sent = w.srv[c].sent
        /\ s[c].replies = w.srv[c].replies + 1 /\ ~s[c].pushing
        /\ \A d \in Cursor \ {c} : s[d] = w.srv[d]
    BY RefusedIs
  <2>2. a \in ReplyType /\ a.kind = "error"
    BY ErrorsAre
  <2> HIDE DEF s, a
  <2>3. x = Answered(w, a, s, command)
    BY <1>7, Zenon DEF s, a
  <2>4. x \in WireType /\ x.open /\ x.pipe = <<>> /\ x.answer = a /\ x.srv = s
    BY <2>1, <2>2, <2>3, AnsweredIs DEF Quiet
  <2>5. Declined(c, w, x)
    BY <2>1, <2>4 DEF Declined, a
  <2>6. Kept(c, w, x)
    BY <2>1, <2>4 DEF Kept
  <2>7. QED BY <2>5, <2>6 DEF Round
<1>8. QED BY <1>3, <1>4, <1>5, <1>6, <1>7

-----------------------------------------------------------------------------
(* What the client makes of the end of a round trip.                       *)

\* The documents of a batch that is being read follow on those returned.
Follow(c, u, n) == \A i \in DOMAIN u.buffer : u.buffer[i] = <<c, n + i>>

\* What holds in the middle of a call as well.
Sound(c, u, w, n) ==
    /\ u \in CursorType /\ w \in WireType /\ n \in Nat
    /\ Follow(c, u, n)
    /\ Stands(c, query[c], Total(c), u, w, n)
    /\ \A d \in Cursor \ {c} : ~w.srv[d].pushing
    /\ ~w.open => w.pipe = <<>>
    /\ ~u.inExhaust \/ u.error # "none" => w.pipe = <<>>

\* A cursor that has nothing to read may ask for more.
Asks(c, u, w, n) ==
    /\ u \in CursorType /\ w \in WireType /\ n \in Nat
    /\ u.buffer = <<>> /\ u.error = "none" /\ u.sent
    /\ Quiet(w)
    /\ w.srv[c].replies = u.replies /\ w.srv[c].sent = n /\ w.srv[c].sent <= Total(c)
    /\ w.srv[c].open <=> u.id
    /\ query[c].kind = "exhaust" => ~w.srv[c].open

\* What a call does not touch when it asks for more.
SameCall(u, v) ==
    /\ v \in CursorType /\ v.sent
    /\ v.count = u.count /\ v.current = u.current /\ v.done = u.done

Fails(u, v, x) ==
    /\ SameCall(u, v)
    /\ v.error = "failed" /\ v.buffer = u.buffer /\ v.replies = u.replies /\ ~v.inExhaust
    /\ x.answer = None => v.id = u.id

Takes(c, u, v, w, x, b) ==
    /\ SameCall(u, v)
    /\ v.error = "none" /\ v.buffer = Documents(w, c, b) /\ v.id = b.more
    /\ v.replies = x.srv[c].replies
    /\ v.inExhaust <=> query[c].kind = "exhaust"

\* After a request.
Fetched(c, u, v, w, x) ==
    /\ SameCall(u, v)
    /\ v.error \in {"none", "failed", "aborted"}
    /\ v.error # "none" => v.buffer = <<>>
    /\ v.error = "aborted" => Aborts(c)
    /\ v.error = "none" /\ v.id /\ ~query[c].tailable => v.buffer # <<>>
    /\ \A d \in Cursor \ {c} : x.srv[d] = w.srv[d]

LEMMA FailureIsSound ==
    ASSUME Asked, NEW c \in Cursor, NEW u, NEW w, NEW n, Asks(c, u, w, n),
           NEW x, Kept(c, w, x), Lost(c, w, x) \/ Declined(c, w, x), NEW v, Fails(u, v, x)
    PROVE  Sound(c, v, x, n) /\ Fetched(c, u, v, w, x)
<1>1. /\ u \in CursorType /\ w \in WireType /\ n \in Nat /\ x \in WireType /\ v \in CursorType
      /\ x.pipe = <<>>
  BY DEF Asks, Kept, Fails, SameCall
<1>2. /\ w.srv[c] \in ServerType /\ x.srv[c] \in ServerType /\ Total(c) \in Nat
      /\ u.replies \in Nat
  BY <1>1, TotalsAre DEF WireType, ServerType, CursorType
<1>3. Follow(c, v, n) /\ v.buffer = <<>>
  BY DEF Asks, Fails, Follow
<1>4. /\ x.srv[c].sent <= Total(c) /\ v.replies <= x.srv[c].replies
      /\ ~x.srv[c].pushing
      /\ query[c].kind = "exhaust" => ~x.srv[c].open
      /\ x.srv[c].open /\ x.srv[c].replies = v.replies => v.id
  <2>1. CASE Lost(c, w, x)
    <3>1. v.replies = w.srv[c].replies /\ v.id = u.id
      BY <2>1 DEF Asks, Fails, Lost
    <3>2. QED BY <1>2, <2>1, <3>1 DEF Asks, Lost, ServerType
  <2>2. CASE Declined(c, w, x)
    <3>1. v.replies = w.srv[c].replies
      BY DEF Asks, Fails
    <3>2. QED BY <1>2, <2>2, <3>1 DEF Asks, Declined, ServerType
  <2>3. QED BY <2>1, <2>2
<1>5. Stands(c, query[c], Total(c), v, x, n)
  BY <1>4 DEF Stands, Fails, SameCall
<1>6. \A d \in Cursor \ {c} : x.srv[d] = w.srv[d] /\ ~x.srv[d].pushing
  BY DEF Kept, Asks, Quiet
<1>7. Sound(c, v, x, n)
  BY <1>1, <1>3, <1>5, <1>6 DEF Sound, Asks
<1>8. Fetched(c, u, v, w, x)
  BY <1>3, <1>6 DEF Fetched, Fails
<1>9. QED BY <1>7, <1>8

LEMMA BatchIsSound ==
    ASSUME Asked, NEW c \in Cursor, NEW u, NEW w, NEW n, Asks(c, u, w, n),
           NEW m \in Int, query[c].limit >= 0 => m >= 0, NEW kind,
           NEW x, Kept(c, w, x), NEW b \in Batches(w, c, m), Brought(c, w, x, b, kind),
           NEW v, Takes(c, u, v, w, x, b)
    PROVE  Sound(c, v, x, n) /\ Fetched(c, u, v, w, x)
<1> DEFINE q == query[c]
<1>1. /\ u \in CursorType /\ w \in WireType /\ n \in Nat /\ x \in WireType /\ v \in CursorType
      /\ x.pipe = <<>>
  BY DEF Asks, Kept, Takes, SameCall
<1>2. /\ w.srv[c] \in ServerType /\ x.srv[c] \in ServerType /\ Total(c) \in Nat
      /\ w.srv[c].sent <= Total(c) /\ w.srv[c].sent = n
  BY <1>1, TotalsAre DEF WireType, ServerType, Asks
<1>3. /\ b.size \in Nat /\ b.more \in BOOLEAN
      /\ n + b.size <= Total(c)
      /\ b.more /\ ~q.tailable => b.size > 0
      /\ ~b.more /\ m >= 0 => n + b.size = Total(c)
      /\ q.kind = "find" /\ q.limit # 0 /\ b.more => n + b.size < Magnitude(q.limit)
  BY <1>2, BatchesFit
<1>4. /\ v.buffer \in Seq(Document) /\ Len(v.buffer) = b.size
      /\ \A i \in 1 .. b.size : v.buffer[i] = <<c, n + i>>
  <2>1. /\ Documents(w, c, b) \in Seq(Document) /\ Len(Documents(w, c, b)) = b.size
        /\ \A i \in 1 .. b.size : Documents(w, c, b)[i] = <<c, w.srv[c].sent + i>>
    BY <1>2, <1>3, DocumentsAre DEF ServerType
  <2>2. QED BY <1>2, <2>1 DEF Takes
<1>5. Follow(c, v, n)
  BY <1>4 DEF Follow
<1>6. /\ x.open /\ x.srv[c].open = b.more
      /\ x.srv[c].pushing <=> q.kind = "exhaust" /\ b.more
      /\ x.srv[c].sent = n + b.size /\ x.srv[c].replies = u.replies + 1
      /\ v.replies = u.replies + 1 /\ v.id = b.more /\ v.error = "none" /\ v.sent
      /\ v.inExhaust <=> q.kind = "exhaust"
  BY <1>2 DEF Brought, Takes, SameCall, Asks
<1>7. v.inExhaust => Flows(c, q, Total(c), v, x, n)
  <2>1. Len(x.pipe) = 0
    BY <1>1
  <2>2. Brings(c, x.pipe, n + Len(v.buffer), x.srv[c].sent)
    <3> DEFINE at == [i \in 1 .. Len(x.pipe) + 1 |-> n + b.size]
    <3>1. n + b.size \in 0 .. x.srv[c].sent
      BY <1>1, <1>3, <1>6
    <3>2. at \in [1 .. Len(x.pipe) + 1 -> 0 .. x.srv[c].sent]
      BY <3>1
    <3>3. at[1] = n + Len(v.buffer) /\ at[Len(x.pipe) + 1] = x.srv[c].sent
      BY <1>4, <1>6, <2>1
    <3>4. Chained(c, x.pipe, at)
      BY <2>1 DEF Chained
    <3>5. QED BY <3>2, <3>3, <3>4, Zenon DEF Brings
  <2>3. x.srv[c].replies = v.replies + Len(x.pipe)
    BY <1>1, <1>2, <1>6, <2>1 DEF ServerType
  <2>4. QED BY <1>1, <1>6, <2>1, <2>2, <2>3 DEF Flows
<1>8. ~v.inExhaust => Rests(c, v, x, n)
  BY <1>3, <1>4, <1>6 DEF Rests
<1>9. v.replies > 0
  BY <1>1, <1>6 DEF CursorType
<1>10. Works(c, q, Total(c), v, x, n)
  BY <1>3, <1>6, <1>7, <1>8, <1>9 DEF Works
<1>11. Stands(c, q, Total(c), v, x, n)
  BY <1>2, <1>3, <1>6, <1>10 DEF Stands, ServerType
<1>12. \A d \in Cursor \ {c} : x.srv[d] = w.srv[d] /\ ~x.srv[d].pushing
  BY DEF Kept, Asks, Quiet
<1>13. Sound(c, v, x, n)
  BY <1>1, <1>5, <1>11, <1>12 DEF Sound, Asks
<1>14. v.buffer = <<>> => b.size = 0
  BY <1>4
<1>15. Fetched(c, u, v, w, x)
  BY <1>3, <1>6, <1>12, <1>14 DEF Fetched, Takes
<1>16. QED BY <1>13, <1>15

\* A batch that was read, before the cursor is said to be in exhaust.
Reads(c, u, v, w, x, b) ==
    /\ SameCall(u, v)
    /\ v.error = "none" /\ v.buffer = Documents(w, c, b) /\ v.id = b.more
    /\ v.replies = x.srv[c].replies
    /\ v.inExhaust = u.inExhaust

\* The two ways in which a round trip ends for the cursor.
Learns(c, u, v, w, n, kind, x) ==
    \/ Fails(u, v, x) /\ (Lost(c, w, x) \/ Declined(c, w, x))
    \/ \E b \in Batches(w, c, n) : Brought(c, w, x, b, kind) /\ Reads(c, u, v, w, x, b)

LEMMA OpReplyIs ==
    ASSUME Asked, NEW c \in Cursor, NEW u, NEW w, NEW n, Asks(c, u, w, n), ~u.inExhaust,
           NEW m \in Int, NEW x, Round(c, w, m, "batch", x)
    PROVE  Learns(c, u, OpReply(c, u, x, x.srv[c].replies), w, m, "batch", x)
<1> DEFINE v == OpReply(c, u, x, x.srv[c].replies)
<1>1. /\ u \in CursorType /\ w \in WireType /\ x \in WireType
      /\ u.sent /\ u.error = "none"
  BY DEF Asks, Round, Kept
<1>2. w.srv[c] \in ServerType /\ x.srv[c] \in ServerType
  BY <1>1 DEF WireType, ServerType
<1>3. CASE Lost(c, w, x)
  <2>1. v = [u EXCEPT !.error = "failed"]
    BY <1>3 DEF Lost, OpReply
  <2>2. Fails(u, v, x)
    BY <1>1, <2>1 DEF Fails, SameCall, CursorType
  <2>3. QED BY <1>3, <2>2 DEF Learns
<1>4. CASE Declined(c, w, x)
  <2> DEFINE a == Reply(w, "error", c, <<>>, FALSE)
  <2>1. a # None /\ a.kind = "error" /\ ~a.more
    BY <1>1, ErrorsAre
  <2>2. x.answer = a
    BY <1>4 DEF Declined
  <2> HIDE DEF a
  <2>3. v = [u EXCEPT !.error = "failed", !.id = x.answer.more]
    BY <2>1, <2>2 DEF OpReply
  <2>4. v = [u EXCEPT !.error = "failed", !.id = FALSE]
    <3>1. PICK f \in BOOLEAN : f = x.answer.more
      BY <1>1, <2>1, <2>2 DEF WireType, ReplyType
    <3>2. f = FALSE
      BY <2>1, <2>2, <3>1
    <3>3. QED BY <2>3, <3>1, <3>2
  <2>5. Fails(u, v, x)
    BY <1>1, <2>1, <2>2, <2>4 DEF Fails, SameCall, CursorType
  <2>6. QED BY <1>4, <2>5 DEF Learns
<1>5. ASSUME NEW b \in Batches(w, c, m), Brought(c, w, x, b, "batch")
      PROVE  Learns(c, u, v, w, m, "batch", x)
  <2> DEFINE a == Reply(w, "batch", c, Documents(w, c, b), b.more)
  <2>1. b.size \in Nat /\ b.more \in BOOLEAN /\ w.srv[c].sent + b.size <= Total(c)
    BY <1>2, BatchesFit DEF Asks
  <2>2. Documents(w, c, b) \in Seq(Document)
    BY <1>2, <2>1, DocumentsAre DEF ServerType
  <2>3. /\ a # None /\ a.kind = "batch" /\ a.of = c /\ a.nth = w.srv[c].replies + 1
        /\ a.docs = Documents(w, c, b) /\ a.more = b.more
    BY <1>1, <2>1, <2>2, RepliesAre
  <2>4. x.answer = a /\ x.srv[c].replies = w.srv[c].replies + 1
    BY <1>5 DEF Brought
  <2> HIDE DEF a
  <2>5. v = [u EXCEPT !.buffer = x.answer.docs, !.id = x.answer.more,
                      !.replies = x.srv[c].replies]
    BY <2>3, <2>4 DEF OpReply
  <2>6. Reads(c, u, v, w, x, b)
    <3>1. x.answer.docs = Documents(w, c, b) /\ x.answer.more = b.more
      BY <2>3, <2>4
    <3>2. v = [u EXCEPT !.buffer = Documents(w, c, b), !.id = b.more,
                        !.replies = x.srv[c].replies]
      BY <2>5, <3>1
    <3>3. QED BY <1>1, <1>2, <2>1, <2>2, <3>2 DEF Reads, SameCall, CursorType, ServerType
  <2>7. QED BY <1>5, <2>6 DEF Learns
<1>6. QED BY <1>3, <1>4, <1>5 DEF Round

LEMMA CommandReplyIs ==
    ASSUME Asked, NEW c \in Cursor, NEW u, NEW w, NEW n, Asks(c, u, w, n), ~u.inExhaust,
           NEW m \in Int, NEW x, Round(c, w, m, "cursor", x)
    PROVE  Learns(c, u, CommandReply(u, x), w, m, "cursor", x)
<1> DEFINE v == CommandReply(u, x)
<1>1. /\ u \in CursorType /\ w \in WireType /\ x \in WireType
      /\ u.sent /\ u.error = "none"
  BY DEF Asks, Round, Kept
<1>2. w.srv[c] \in ServerType /\ x.srv[c] \in ServerType
  BY <1>1 DEF WireType, ServerType
<1>3. CASE Lost(c, w, x)
  <2>1. v = [u EXCEPT !.error = "failed"]
    BY <1>3 DEF Lost, CommandReply
  <2>2. Fails(u, v, x)
    BY <1>1, <2>1 DEF Fails, SameCall, CursorType
  <2>3. QED BY <1>3, <2>2 DEF Learns
<1>4. CASE Declined(c, w, x)
  <2>1. x.answer.kind = "error"
    <3> DEFINE a == Reply(w, "error", c, <<>>, FALSE)
    <3>1. a.kind = "error"
      BY <1>1, ErrorsAre
    <3>2. x.answer = a
      BY <1>4 DEF Declined
    <3> HIDE DEF a
    <3>3. QED BY <3>1, <3>2
  <2>2. v = [u EXCEPT !.error = "failed"]
    BY <2>1 DEF CommandReply
  <2>3. Fails(u, v, x)
    BY <1>1, <2>2 DEF Fails, SameCall, CursorType
  <2>4. QED BY <1>4, <2>3 DEF Learns
<1>5. ASSUME NEW b \in Batches(w, c, m), Brought(c, w, x, b, "cursor")
      PROVE  Learns(c, u, v, w, m, "cursor", x)
  <2> DEFINE a == Reply(w, "cursor", c, Documents(w, c, b), b.more)
  <2>1. b.size \in Nat /\ b.more \in BOOLEAN /\ w.srv[c].sent + b.size <= Total(c)
    BY <1>2, BatchesFit DEF Asks
  <2>2. Documents(w, c, b) \in Seq(Document)
    BY <1>2, <2>1, DocumentsAre DEF ServerType
  <2>3. /\ a # None /\ a.kind = "cursor"
        /\ a.docs = Documents(w, c, b) /\ a.more = b.more
    BY <1>1, <2>1, <2>2, RepliesAre
  <2>4. x.answer = a /\ x.srv[c].replies = w.srv[c].replies + 1
    BY <1>5 DEF Brought
  <2> HIDE DEF a
  <2>5. v = [u EXCEPT !.buffer = x.answer.docs, !.id = x.answer.more, !.replies = @ + 1]
    BY <2>3, <2>4 DEF CommandReply
  <2>6. Reads(c, u, v, w, x, b)
    <3>1. x.answer.docs = Documents(w, c, b) /\ x.answer.more = b.more
      BY <2>3, <2>4
    <3>2. v = [u EXCEPT !.buffer = Documents(w, c, b), !.id = b.more, !.replies = u.replies + 1]
      BY <2>5, <3>1
    <3>3. u.replies + 1 = x.srv[c].replies /\ u.replies + 1 \in Nat
      BY <1>1, <2>4 DEF Asks, CursorType
    <3>4. QED BY <1>1, <2>1, <2>2, <3>2, <3>3 DEF Reads, SameCall, CursorType
  <2>7. QED BY <1>5, <2>6 DEF Learns
<1>6. QED BY <1>3, <1>4, <1>5 DEF Round

\* The cursor z is v, and in exhaust if it has to be.
Settles(c, v, z) ==
    /\ z \in CursorType
    /\ z.sent = v.sent /\ z.error = v.error /\ z.done = v.done /\ z.count = v.count /\ z.id = v.id
    /\ z.buffer = v.buffer /\ z.replies = v.replies /\ z.current = v.current
    /\ z.inExhaust <=> query[c].kind = "exhaust" /\ v.error = "none"

\* What was learnt is sound, once it is settled whether the cursor is in exhaust.
LEMMA LearningIsSound ==
    ASSUME Asked, NEW c \in Cursor, NEW u, NEW w, NEW n, Asks(c, u, w, n),
           NEW m \in Int, query[c].limit >= 0 => m >= 0, NEW kind,
           NEW x, Kept(c, w, x), NEW v, Learns(c, u, v, w, m, kind, x),
           NEW z, Settles(c, v, z)
    PROVE  Sound(c, z, x, n) /\ Fetched(c, u, z, w, x)
<1>1. CASE Fails(u, v, x) /\ (Lost(c, w, x) \/ Declined(c, w, x))
  <2>1. Fails(u, z, x)
    BY <1>1 DEF Fails, SameCall, Settles
  <2>2. QED BY <1>1, <2>1, FailureIsSound
<1>2. ASSUME NEW b \in Batches(w, c, m), Brought(c, w, x, b, kind), Reads(c, u, v, w, x, b)
      PROVE  Sound(c, z, x, n) /\ Fetched(c, u, z, w, x)
  <2>1. Takes(c, u, z, w, x, b)
    BY <1>2 DEF Reads, Takes, SameCall, Settles
  <2>2. QED BY <1>2, <2>1, BatchIsSound
<1>3. QED BY <1>1, <1>2 DEF Learns

\* How many documents are asked for.
LEMMA AmountsAre ==
    ASSUME Asked, NEW c \in Cursor, cur[c] \in CursorType
    PROVE  /\ First(c) \in Int /\ Following(c) \in Int
           /\ query[c].limit >= 0 /\ cur[c].count = 0 => First(c) >= 0
           /\ query[c].limit >= 0 /\ ~Aborts(c) => Following(c) >= 0
<1>1. query[c].limit \in Int /\ query[c].batchSize \in Nat /\ cur[c].count \in Nat
  BY QueriesAre DEF QueryType, CursorType
<1>2. NReturn(c) \in Int /\ (query[c].limit = 0 => NReturn(c) >= 0)
  BY <1>1 DEF NReturn, AtMost
<1>3. query[c].limit > 0 /\ cur[c].count < query[c].limit => NReturn(c) >= 0
  BY <1>1 DEF NReturn, AtMost
<1>4. First(c) \in Int /\ (query[c].limit >= 0 /\ cur[c].count = 0 => First(c) >= 0)
  BY <1>1, <1>2, <1>3 DEF First
<1>5. Following(c) \in Int
  BY <1>1, <1>2 DEF Following, Magnitude
<1>6. query[c].limit >= 0 /\ ~Aborts(c) => Following(c) >= 0
  <2>1. CASE query[c].kind = "find"
    BY <1>1, <1>2, <2>1 DEF Following, Magnitude
  <2>2. CASE query[c].kind # "find"
    BY <1>1, <1>2, <1>3, <2>2 DEF Following, Aborts
  <2>3. QED BY <2>1, <2>2
<1>7. QED BY <1>4, <1>5, <1>6

LEMMA InitialQueryIsSound ==
    ASSUME Asked, NEW c \in Cursor, NEW n, Sound(c, cur[c], wire, n), Quiet(wire),
           ~cur[c].sent, cur[c].error = "none", NEW r \in InitialQuery(c)
    PROVE  Sound(c, r.u, r.w, n) /\ Fetched(c, cur[c], r.u, wire, r.w)
<1> DEFINE u == [cur[c] EXCEPT !.sent = TRUE]
           m == First(c)
<1>1. cur[c] \in CursorType /\ wire \in WireType /\ n \in Nat
  BY DEF Sound
<1>2. Unused(c, cur[c], wire, n)
  BY DEF Sound, Stands
<1>3. /\ u \in CursorType /\ u.sent /\ u.error = "none" /\ u.buffer = <<>> /\ u.replies = 0
      /\ u.count = cur[c].count /\ u.current = cur[c].current /\ u.done = cur[c].done
      /\ ~u.id /\ ~u.inExhaust
  BY <1>1, <1>2 DEF CursorType, Unused
<1>4. Asks(c, u, wire, n)
  <2>1. wire.srv[c].sent <= Total(c)
    BY DEF Sound, Stands
  <2>2. /\ wire.srv[c].replies = 0 /\ wire.srv[c].sent = 0 /\ ~wire.srv[c].open /\ n = 0
    BY <1>2 DEF Unused
  <2>3. QED BY <1>1, <1>3, <2>1, <2>2 DEF Asks
<1>5. m \in Int /\ (query[c].limit >= 0 => m >= 0)
  BY <1>1, <1>2, AmountsAre DEF Unused
<1>6. wire.srv[c].sent <= Total(c) /\ (query[c].kind = "exhaust" => ~wire.srv[c].open)
  BY <1>4 DEF Asks
<1>7. Fetched(c, u, r.u, wire, r.w) => Fetched(c, cur[c], r.u, wire, r.w)
  BY <1>3 DEF Fetched, SameCall
<1> HIDE DEF u, m
<1>8. CASE query[c].kind = "find"
  <2>1. r \in ByCommand(u, Requests(wire, c, m, "cursor", FALSE))
    BY <1>8 DEF InitialQuery, u, m
  <2>2. PICK x \in Requests(wire, c, m, "cursor", FALSE) : r = [u |-> CommandReply(u, x), w |-> x]
    BY <2>1 DEF ByCommand
  <2>3. Round(c, wire, m, "cursor", x)
    BY <1>1, <1>5, <1>6, <1>8, <2>2, RequestsEnd
  <2>4. Learns(c, u, CommandReply(u, x), wire, m, "cursor", x)
    BY <1>3, <1>4, <1>5, <2>3, CommandReplyIs
  <2>5. Settles(c, CommandReply(u, x), CommandReply(u, x))
    BY <1>3, <1>8, <2>4 DEF Learns, Fails, Reads, SameCall, Settles
  <2>6. Sound(c, r.u, r.w, n) /\ Fetched(c, u, r.u, wire, r.w)
    BY <1>4, <1>5, <2>2, <2>3, <2>4, <2>5, LearningIsSound DEF Round
  <2>7. QED BY <1>7, <2>6
<1>9. CASE query[c].kind # "find"
  <2>1. PICK pushing \in BOOLEAN : pushing = (query[c].kind = "exhaust")
    BY Zenon
  <2>2. PICK y \in ByOp(c, u, Requests(wire, c, m, "batch", pushing)) :
            r = [y EXCEPT !.u.inExhaust = query[c].kind = "exhaust" /\ y.u.error = "none"]
    BY <1>9, <2>1, Zenon DEF InitialQuery, u, m
  <2>3. PICK x \in Requests(wire, c, m, "batch", pushing) :
            y = [u |-> OpReply(c, u, x, x.srv[c].replies), w |-> x]
    BY <2>2 DEF ByOp
  <2>4. Round(c, wire, m, "batch", x)
    BY <1>1, <1>5, <1>6, <2>1, <2>3, RequestsEnd
  <2>5. Learns(c, u, y.u, wire, m, "batch", x)
    BY <1>3, <1>4, <1>5, <2>3, <2>4, OpReplyIs
  <2>6. y.u \in CursorType
    BY <2>5 DEF Learns, Fails, Reads, SameCall
  <2>7. PICK f \in BOOLEAN : f <=> query[c].kind = "exhaust" /\ y.u.error = "none"
    OBVIOUS
  <2>8. r = [y EXCEPT !.u.inExhaust = f]
    BY <2>2, <2>7, Zenon
  <2>9. r.u = [y.u EXCEPT !.inExhaust = f] /\ r.w = x
    BY <2>3, <2>8
  <2>10. Settles(c, y.u, r.u)
    BY <2>6, <2>7, <2>9 DEF Settles, CursorType
  <2>11. Sound(c, r.u, r.w, n) /\ Fetched(c, u, r.u, wire, r.w)
    BY <1>4, <1>5, <2>4, <2>5, <2>9, <2>10, LearningIsSound DEF Round
  <2>12. QED BY <1>7, <2>11
<1>10. QED BY <1>8, <1>9

-----------------------------------------------------------------------------
(* The stream of a cursor in exhaust.                                      *)

\* The documents in the pipe when its first reply was taken.
LEMMA RestBrings ==
    ASSUME NEW c \in Cursor, NEW r \in Seq(ReplyType), r # <<>>,
           NEW first \in Nat, NEW last \in Nat, Brings(c, r, first, last)
    PROVE  /\ Brings(c, Tail(r), first + Len(r[1].docs), last)
           /\ \A j \in 1 .. Len(r[1].docs) : r[1].docs[j] = <<c, first + j>>
<1>1. PICK at \in [1 .. Len(r) + 1 -> 0 .. last] :
          at[1] = first /\ at[Len(r) + 1] = last /\ Chained(c, r, at)
  BY Zenon DEF Brings
<1>2. /\ Len(r) \in Nat /\ Len(r) >= 1 /\ Len(Tail(r)) = Len(r) - 1
      /\ \A i \in 1 .. Len(Tail(r)) : Tail(r)[i] = r[i + 1]
  OBVIOUS
<1> DEFINE rest == [i \in 1 .. Len(Tail(r)) + 1 |-> at[i + 1]]
<1>3. rest \in [1 .. Len(Tail(r)) + 1 -> 0 .. last]
  BY <1>2
<1>4. at[2] = first + Len(r[1].docs) /\ \A j \in 1 .. Len(r[1].docs) : r[1].docs[j] = <<c, first + j>>
  BY <1>1, <1>2 DEF Chained
<1>5. rest[1] = first + Len(r[1].docs) /\ rest[Len(Tail(r)) + 1] = last
  BY <1>1, <1>2, <1>4
<1>6. Chained(c, Tail(r), rest)
  <2>1. ASSUME NEW i \in 1 .. Len(Tail(r))
        PROVE  /\ rest[i + 1] = rest[i] + Len(Tail(r)[i].docs)
               /\ \A j \in 1 .. Len(Tail(r)[i].docs) : Tail(r)[i].docs[j] = <<c, rest[i] + j>>
    <3>1. i + 1 \in 1 .. Len(r) /\ Tail(r)[i] = r[i + 1]
      BY <1>2
    <3>2. /\ at[(i + 1) + 1] = at[i + 1] + Len(r[i + 1].docs)
          /\ \A j \in 1 .. Len(r[i + 1].docs) : r[i + 1].docs[j] = <<c, at[i + 1] + j>>
      BY <1>1, <3>1 DEF Chained
    <3>3. rest[i] = at[i + 1] /\ rest[i + 1] = at[(i + 1) + 1]
      BY <1>2
    <3>4. QED BY <3>1, <3>2, <3>3
  <2>2. QED BY <2>1, Zenon DEF Chained
<1>7. Brings(c, Tail(r), first + Len(r[1].docs), last)
  BY <1>3, <1>5, <1>6, Zenon DEF Brings
<1>8. QED BY <1>4, <1>7

\* And when the server has sent another one.
LEMMA PushBrings ==
    ASSUME NEW c \in Cursor, NEW r \in Seq(ReplyType), NEW a \in ReplyType,
           NEW first \in Nat, NEW last \in Nat, Brings(c, r, first, last),
           \A j \in 1 .. Len(a.docs) : a.docs[j] = <<c, last + j>>
    PROVE  Brings(c, Append(r, a), first, last + Len(a.docs))
<1>1. PICK at \in [1 .. Len(r) + 1 -> 0 .. last] :
          at[1] = first /\ at[Len(r) + 1] = last /\ Chained(c, r, at)
  BY Zenon DEF Brings
<1>2. Len(a.docs) \in Nat
  BY DEF ReplyType
<1> DEFINE s == Append(r, a)
           len == Len(r)
           end == last + Len(a.docs)
           all == [i \in 1 .. Len(s) + 1 |-> IF i <= len + 1 THEN at[i] ELSE end]
<1>3. /\ len \in Nat /\ Len(s) = len + 1 /\ s[len + 1] = a
      /\ \A i \in 1 .. len : s[i] = r[i]
  OBVIOUS
<1>4. all \in [1 .. Len(s) + 1 -> 0 .. end]
  BY <1>2, <1>3
<1>5. all[1] = first /\ all[Len(s) + 1] = end
  BY <1>1, <1>3
<1>6. /\ \A i \in 1 .. len + 1 : all[i] = at[i]
      /\ all[(len + 1) + 1] = end
  BY <1>3
<1> HIDE DEF all, s, end
<1>7. Chained(c, s, all)
  <2>1. ASSUME NEW i \in 1 .. Len(s)
        PROVE  /\ all[i + 1] = all[i] + Len(s[i].docs)
               /\ \A j \in 1 .. Len(s[i].docs) : s[i].docs[j] = <<c, all[i] + j>>
    <3>1. CASE i <= len
      <4>1. /\ at[i + 1] = at[i] + Len(r[i].docs)
            /\ \A j \in 1 .. Len(r[i].docs) : r[i].docs[j] = <<c, at[i] + j>>
        BY <1>1, <1>3, <3>1 DEF Chained
      <4>2. all[i] = at[i] /\ all[i + 1] = at[i + 1] /\ s[i] = r[i]
        BY <1>3, <1>6, <3>1
      <4>3. QED BY <4>1, <4>2
    <3>2. CASE i = len + 1
      <4>1. all[i] = last /\ all[i + 1] = end /\ s[i] = a
        BY <1>1, <1>3, <1>6, <3>2
      <4>2. QED BY <4>1 DEF end
    <3>3. QED BY <1>3, <3>1, <3>2
  <2>2. QED BY <2>1, Zenon DEF Chained
<1>8. QED BY <1>4, <1>5, <1>7, Zenon DEF Brings, s, end

LEMMA TailsAre ==
    ASSUME NEW r \in Seq(ReplyType), r # <<>>
    PROVE  /\ Tail(r) \in Seq(ReplyType) /\ Len(r) \in Nat /\ Len(r) >= 1
           /\ Len(Tail(r)) = Len(r) - 1
           /\ \A i \in 1 .. Len(r) - 1 : Tail(r)[i] = r[i + 1]
           /\ Len(r) = 1 => Tail(r) = <<>>
<1>1. /\ Tail(r) \in Seq(ReplyType) /\ Len(r) \in Nat /\ Len(r) >= 1
      /\ Len(Tail(r)) = Len(r) - 1
      /\ \A i \in 1 .. Len(r) - 1 : Tail(r)[i] = r[i + 1]
  OBVIOUS
<1>2. Len(r) = 1 => Tail(r) = <<>>
  <2>1. \A s \in Seq(ReplyType) : s # <<>> => Len(s) # 0
    BY EmptySeq
  <2>2. Len(r) = 1 => Len(Tail(r)) = 0
    BY <1>1
  <2>3. QED BY <1>1, <2>1, <2>2, Zenon
<1>3. QED BY <1>1, <1>2

\* A cursor in exhaust takes the next of its replies, or learns that there is none.
LEMMA ReceivingIsSound ==
    ASSUME Asked, NEW c \in Cursor, NEW u, NEW w, NEW n, Sound(c, u, w, n),
           u.sent, u.error = "none", u.buffer = <<>>, u.inExhaust, NEW x \in Receives(w)
    PROVE  /\ Sound(c, OpReply(c, u, x, u.replies + 1), x, n)
           /\ Fetched(c, u, OpReply(c, u, x, u.replies + 1), w, x)
<1> DEFINE v == OpReply(c, u, x, u.replies + 1)
           q == query[c]
           t == Total(c)
<1>1. u \in CursorType /\ w \in WireType /\ n \in Nat
  BY DEF Sound
<1>2. w.srv \in [Cursor -> ServerType] /\ w.pipe \in Seq(ReplyType) /\ w.srv[c] \in ServerType
  BY <1>1 DEF WireType, ServerType
<1>3. Stands(c, q, t, u, w, n) /\ Works(c, q, t, u, w, n) /\ Flows(c, q, t, u, w, n)
  BY DEF Sound, Stands, Works
<1>4. \A d \in Cursor \ {c} : ~w.srv[d].pushing
  BY DEF Sound
<1>5. q.kind = "exhaust"
  BY <1>3 DEF Stands
<1>6. CASE x = Disconnected(w.srv)
  <2>1. x \in WireType /\ x.pipe = <<>> /\ x.answer = None /\ x.srv = Dropped(w.srv)
    BY <1>2, <1>6, StreamsAre
  <2>2. v = [u EXCEPT !.error = "failed"]
    BY <2>1 DEF OpReply
  <2>3. /\ v \in CursorType /\ v.error = "failed" /\ v.buffer = <<>> /\ v.sent
        /\ v.replies = u.replies /\ v.count = u.count /\ v.current = u.current /\ v.done = u.done
        /\ v.inExhaust
    BY <1>1, <2>2 DEF CursorType
  <2>4. /\ x.srv[c].sent = w.srv[c].sent /\ x.srv[c].replies = w.srv[c].replies
        /\ ~x.srv[c].open /\ ~x.srv[c].pushing
    <3>1. /\ Dropped(w.srv)[c].sent = w.srv[c].sent /\ Dropped(w.srv)[c].replies = w.srv[c].replies
          /\ Dropped(w.srv)[c].open <=> w.srv[c].open /\ ~w.srv[c].pushing
          /\ ~Dropped(w.srv)[c].pushing
      BY <1>2, DroppedIs
    <3>2. w.srv[c].open <=> w.srv[c].pushing
      BY <1>3, <1>5 DEF Stands
    <3>3. QED BY <2>1, <3>1, <3>2
  <2>5. \A d \in Cursor \ {c} : x.srv[d] = w.srv[d]
    BY <1>2, <1>4, <2>1, DroppedIs
  <2>6. Stands(c, q, t, v, x, n)
    BY <1>3, <1>5, <2>3, <2>4 DEF Stands
  <2>7. Follow(c, v, n)
    BY <2>3 DEF Follow
  <2>8. Sound(c, v, x, n)
    BY <1>1, <1>4, <2>1, <2>3, <2>5, <2>6, <2>7 DEF Sound
  <2>9. Fetched(c, u, v, w, x)
    BY <2>3, <2>5 DEF Fetched, SameCall
  <2>10. QED BY <2>8, <2>9
<1>7. ASSUME w.open, w.pipe # <<>>, x = Taken(w, FALSE)
      PROVE  Sound(c, v, x, n) /\ Fetched(c, u, v, w, x)
  <2> DEFINE a == w.pipe[1]
             len == Len(w.pipe)
  <2>1. len \in Nat /\ len >= 1 /\ a \in ReplyType /\ Head(w.pipe) = a
    BY <1>2, <1>7
  <2>2. IsNext(c, q, a, u.replies + 1, 1 < len)
    <3>1. \A i \in 1 .. len : IsNext(c, q, w.pipe[i], u.replies + i, i < len)
      BY <1>3 DEF Flows
    <3>2. 1 \in 1 .. len
      BY <2>1
    <3>3. QED BY <3>1, <3>2
  <2>3. /\ a.of = c /\ a.nth = u.replies + 1 /\ a.kind \in {"batch", "error"}
        /\ a.kind = "error" => a.docs = <<>> /\ ~a.more
        /\ 1 < len => a.more
        /\ a.more /\ ~q.tailable => a.docs # <<>>
    BY <2>2, Zenon DEF IsNext
  <2>4. x = [w EXCEPT !.pipe = Tail(@), !.answer = a]
    BY <1>7, <2>1, <2>3 DEF Taken
  <2>5. Tail(w.pipe) \in Seq(ReplyType)
    BY <1>2, <1>7
  <2>6. /\ x \in WireType /\ x.open /\ x.pipe = Tail(w.pipe) /\ x.answer = a /\ x.srv = w.srv
    BY <1>1, <1>7, <2>1, <2>4, <2>5 DEF WireType
  <2>7. a # None
    BY <2>1, NoneIsNothing
  <2>8. /\ Brings(c, Tail(w.pipe), n + Len(a.docs), w.srv[c].sent)
        /\ \A j \in 1 .. Len(a.docs) : a.docs[j] = <<c, n + j>>
    <3>1. Brings(c, w.pipe, n, w.srv[c].sent)
      <4>1. n + Len(u.buffer) = n
        BY <1>1
      <4>2. QED BY <1>3, <4>1 DEF Flows
    <3>2. w.srv[c].sent \in Nat
      BY <1>2 DEF ServerType
    <3>3. QED BY <1>1, <1>2, <1>7, <3>1, <3>2, RestBrings
  <2>9. w.srv[c].replies = u.replies + len
    BY <1>3 DEF Flows
  <2>10. w.srv[c].pushing <=> w.pipe[len].more
    BY <1>3, <1>7 DEF Flows
  <2>11. w.srv[c].open <=> w.srv[c].pushing
    BY <1>3, <1>5 DEF Stands
  <2>12. /\ a.docs \in Seq(Document) /\ a.more \in BOOLEAN
    BY <2>1 DEF ReplyType
  <2> HIDE DEF a, len
  <2>13. CASE a.kind = "error"
    <3>1. v = [u EXCEPT !.error = "failed", !.id = a.more]
      BY <2>3, <2>6, <2>7, <2>13 DEF OpReply
    <3>2. /\ v \in CursorType /\ v.error = "failed" /\ v.buffer = <<>> /\ v.sent
          /\ v.replies = u.replies /\ v.count = u.count /\ v.current = u.current /\ v.done = u.done
          /\ v.inExhaust
      BY <1>1, <2>12, <3>1 DEF CursorType
    <3>3. len = 1 /\ ~w.srv[c].pushing /\ ~w.srv[c].open
      BY <2>1, <2>3, <2>10, <2>11, <2>13 DEF a
    <3>4. x.pipe = <<>>
      BY <1>2, <1>7, <2>6, <3>3, TailsAre DEF len
    <3>5. Stands(c, q, t, v, x, n)
      BY <1>3, <1>5, <2>6, <3>2, <3>3 DEF Stands
    <3>6. Follow(c, v, n)
      BY <3>2 DEF Follow
    <3>7. Sound(c, v, x, n)
      BY <1>1, <1>4, <2>6, <3>2, <3>4, <3>5, <3>6 DEF Sound
    <3>8. Fetched(c, u, v, w, x)
      BY <2>6, <3>2 DEF Fetched, SameCall
    <3>9. QED BY <3>7, <3>8
  <2>14. CASE a.kind = "batch"
    <3>1. v = [u EXCEPT !.buffer = a.docs, !.id = a.more, !.replies = u.replies + 1]
      BY <2>3, <2>6, <2>7, <2>14 DEF OpReply
    <3>2. /\ v \in CursorType /\ v.error = "none" /\ v.buffer = a.docs /\ v.sent
          /\ v.id = a.more
          /\ v.replies = u.replies + 1 /\ v.count = u.count /\ v.current = u.current
          /\ v.done = u.done /\ v.inExhaust
      <4>1. u.replies + 1 \in Nat
        BY <1>1 DEF CursorType
      <4>2. QED BY <1>1, <2>12, <3>1, <4>1 DEF CursorType
    <3>3. Follow(c, v, n)
      BY <2>8, <2>12, <3>2 DEF Follow
    <3>4. Len(x.pipe) = len - 1 /\ \A i \in 1 .. len - 1 : x.pipe[i] = w.pipe[i + 1]
      <4>1. PICK p \in Seq(ReplyType) : p = w.pipe /\ p # <<>>
        BY <1>2, <1>7
      <4>2. Len(Tail(p)) = Len(p) - 1 /\ \A i \in 1 .. Len(p) - 1 : Tail(p)[i] = p[i + 1]
        BY <4>1, TailsAre
      <4>3. x.pipe = Tail(p) /\ len = Len(p)
        BY <2>6, <4>1 DEF len
      <4>4. QED BY <4>1, <4>2, <4>3
    <3>5. \A i \in 1 .. Len(x.pipe) : IsNext(c, q, x.pipe[i], v.replies + i, i < Len(x.pipe))
      <4>1. ASSUME NEW i \in 1 .. Len(x.pipe)
            PROVE  IsNext(c, q, x.pipe[i], v.replies + i, i < Len(x.pipe))
        <5>1. i + 1 \in 1 .. len /\ x.pipe[i] = w.pipe[i + 1]
          BY <2>1, <3>4
        <5>2. IsNext(c, q, w.pipe[i + 1], u.replies + (i + 1), i + 1 < len)
          BY <1>3, <5>1, Zenon DEF Flows, len
        <5>3. u.replies + (i + 1) = v.replies + i
          BY <1>1, <3>2 DEF CursorType
        <5>4. PICK f \in BOOLEAN : f <=> i < Len(x.pipe)
          OBVIOUS
        <5>5. f <=> i + 1 < len
          BY <2>1, <3>4, <5>4
        <5>6. QED BY <5>1, <5>2, <5>3, <5>4, <5>5 DEF IsNext
      <4>2. QED BY <4>1
    <3>6. x.srv[c].replies = v.replies + Len(x.pipe)
      <4>1. u.replies \in Nat
        BY <1>1 DEF CursorType
      <4>2. x.srv[c].replies = u.replies + len /\ v.replies = u.replies + 1
        BY <2>6, <2>9, <3>2
      <4>3. QED BY <2>1, <3>4, <4>1, <4>2
    <3>7. Brings(c, x.pipe, n + Len(v.buffer), x.srv[c].sent)
      BY <2>6, <2>8, <3>2
    <3>8. x.pipe = <<>> => len = 1
      BY <2>1, <3>4
    <3>9. x.pipe = <<>> => (x.srv[c].pushing <=> v.id)
      BY <2>6, <2>10, <3>2, <3>8 DEF a
    <3>10. x.pipe # <<>> => 1 < len /\ w.pipe # <<>> /\ x.pipe[Len(x.pipe)] = w.pipe[len]
      BY <2>1, <2>6, <3>4
    <3>11. x.pipe # <<>> => v.id /\ (x.srv[c].pushing <=> x.pipe[Len(x.pipe)].more)
      BY <2>3, <2>6, <2>10, <3>2, <3>10
    <3>12. w.pipe[len].kind = "batch" /\ ~w.srv[c].pushing /\ ~q.tailable => w.srv[c].sent = t
      BY <1>3, <1>7 DEF Flows, len
    <3>13. Flows(c, q, t, v, x, n)
      BY <2>6, <3>5, <3>6, <3>7, <3>9, <3>10, <3>11, <3>12, Zenon DEF Flows
    <3>14. ~v.id /\ ~q.tailable => x.srv[c].sent = t
      <4>1. ~v.id => len = 1 /\ x.pipe = <<>>
        BY <2>1, <2>3, <3>2, <3>10
      <4>2. QED BY <2>6, <2>14, <3>9, <3>12, <4>1 DEF a
    <3>15. v.replies > 0
      BY <1>1, <3>2 DEF CursorType
    <3>16. Works(c, q, t, v, x, n)
      BY <1>5, <3>2, <3>13, <3>14, <3>15 DEF Works
    <3>17. v.replies <= x.srv[c].replies
      <4>1. v.replies \in Nat
        BY <3>2 DEF CursorType
      <4>2. QED BY <2>1, <3>4, <3>6, <4>1
    <3>18. Stands(c, q, t, v, x, n)
      BY <1>3, <1>5, <2>6, <2>11, <3>2, <3>16, <3>17 DEF Stands
    <3>19. Sound(c, v, x, n)
      BY <1>1, <1>4, <2>6, <3>2, <3>3, <3>18 DEF Sound
    <3>20. Fetched(c, u, v, w, x)
      BY <2>3, <2>6, <3>2 DEF Fetched, SameCall
    <3>21. QED BY <3>19, <3>20
  <2>15. QED BY <2>3, <2>13, <2>14
<1>8. x = Disconnected(w.srv) \/ (w.open /\ w.pipe # <<>> /\ x = Taken(w, FALSE))
  BY Zenon DEF Receives
<1>9. QED BY <1>6, <1>7, <1>8

-----------------------------------------------------------------------------
(* The calls of mongoc_cursor_next.                                        *)

LEMMA GetMoreIsSound ==
    ASSUME Asked, NEW c \in Cursor, cur[c] \in CursorType, NEW u, NEW w, NEW n, Sound(c, u, w, n),
           u.sent, u.error = "none", u.buffer = <<>>, u.id, NEW r \in GetMore(c, u, w)
    PROVE  Sound(c, r.u, r.w, n) /\ Fetched(c, u, r.u, w, r.w)
<1> DEFINE q == query[c]
           t == Total(c)
           m == Following(c)
<1>1. u \in CursorType /\ w \in WireType /\ n \in Nat
  BY DEF Sound
<1>2. Stands(c, q, t, u, w, n) /\ Works(c, q, t, u, w, n)
  BY DEF Sound, Stands
<1>3. u.inExhaust <=> q.kind = "exhaust"
  BY <1>2 DEF Works
<1>4. CASE u.inExhaust
  <2>1. PICK x \in Receives(w) : r = [u |-> OpReply(c, u, x, u.replies + 1), w |-> x]
    BY <1>4 DEF GetMore
  <2>2. QED BY <1>4, <2>1, ReceivingIsSound
<1>5. CASE ~u.inExhaust /\ Aborts(c)
  <2>1. r.u = [u EXCEPT !.error = "aborted"] /\ r.w = w
    BY <1>5 DEF GetMore
  <2>2. /\ r.u \in CursorType /\ r.u.error = "aborted" /\ r.u.buffer = u.buffer /\ r.u.sent
        /\ r.u.replies = u.replies /\ r.u.count = u.count /\ r.u.current = u.current
        /\ r.u.done = u.done /\ r.u.id = u.id /\ ~r.u.inExhaust
    BY <1>1, <1>5, <2>1 DEF CursorType
  <2>3. Stands(c, q, t, r.u, w, n)
    BY <1>2, <1>5, <2>2 DEF Stands
  <2>4. Follow(c, r.u, n)
    BY <2>2 DEF Sound, Follow
  <2>5. Sound(c, r.u, r.w, n)
    BY <1>5, <2>1, <2>2, <2>3, <2>4 DEF Sound
  <2>6. Fetched(c, u, r.u, w, r.w)
    BY <1>5, <2>1, <2>2 DEF Fetched, SameCall
  <2>7. QED BY <2>5, <2>6
<1>6. CASE ~u.inExhaust /\ ~Aborts(c)
  <2>1. Rests(c, u, w, n)
    BY <1>2, <1>6 DEF Works
  <2>2. Quiet(w)
    BY <1>6, <2>1 DEF Quiet, Sound, Rests
  <2>3. Asks(c, u, w, n)
    <3>1. w.srv[c].sent = n
      BY <1>1, <2>1 DEF Rests
    <3>2. w.srv[c].sent <= Total(c) /\ (q.kind = "exhaust" => ~w.srv[c].open)
      BY <1>2, <2>1 DEF Stands, Rests
    <3>3. QED BY <1>1, <2>1, <2>2, <3>1, <3>2 DEF Asks, Rests
  <2>4. m \in Int /\ (q.limit >= 0 => m >= 0)
    BY <1>6, AmountsAre
  <2>5. w.srv[c].sent <= Total(c) /\ (q.kind = "exhaust" => ~w.srv[c].open)
    BY <2>3 DEF Asks
  <2>6. q.kind # "exhaust"
    BY <1>3, <1>6
  <2> HIDE DEF m
  <2>7. CASE q.kind = "find"
    <3>1. PICK x \in Requests(w, c, m, "cursor", FALSE) : r = [u |-> CommandReply(u, x), w |-> x]
      BY <1>6, <2>7 DEF GetMore, ByCommand, m
    <3>2. Round(c, w, m, "cursor", x)
      BY <1>1, <2>2, <2>4, <2>5, <2>6, RequestsEnd
    <3>3. Learns(c, u, CommandReply(u, x), w, m, "cursor", x)
      BY <1>6, <2>3, <2>4, <3>2, CommandReplyIs
    <3>4. Settles(c, CommandReply(u, x), CommandReply(u, x))
      BY <1>6, <2>6, <3>3 DEF Learns, Fails, Reads, SameCall, Settles
    <3>5. QED BY <2>3, <2>4, <3>1, <3>2, <3>3, <3>4, LearningIsSound DEF Round
  <2>8. CASE q.kind # "find"
    <3>1. PICK x \in Requests(w, c, m, "batch", FALSE) :
              r = [u |-> OpReply(c, u, x, x.srv[c].replies), w |-> x]
      BY <1>6, <2>8 DEF GetMore, ByOp, m
    <3>2. Round(c, w, m, "batch", x)
      BY <1>1, <2>2, <2>4, <2>5, <2>6, RequestsEnd
    <3> DEFINE v == OpReply(c, u, x, x.srv[c].replies)
    <3>3. Learns(c, u, v, w, m, "batch", x)
      BY <1>6, <2>3, <2>4, <3>2, OpReplyIs
    <3>4. r.u = v /\ r.w = x
      BY <3>1
    <3> HIDE DEF v
    <3>5. Settles(c, v, v)
      BY <1>6, <2>6, <3>3 DEF Learns, Fails, Reads, SameCall, Settles
    <3>6. QED BY <2>3, <2>4, <3>2, <3>3, <3>4, <3>5, LearningIsSound DEF Round
  <2>9. QED BY <2>7, <2>8
<1>7. QED BY <1>4, <1>5, <1>6

After(doc, n) == IF doc = None THEN n ELSE n + 1

\* The document that is read is the next one.
LEMMA ReadingIsSound ==
    ASSUME NEW c \in Cursor, NEW r, NEW n, Sound(c, r.u, r.w, n),
           r.u.error # "none" => r.u.buffer = <<>>,
           r.u.error = "none" => r.u.sent, NEW y, y = Reading(r)
    PROVE  /\ Sound(c, y.u, y.w, After(y.doc, n)) /\ y.w = r.w
           /\ y.doc \in Document \cup {None}
           /\ y.doc # None => y.doc = <<c, n + 1>> /\ y.u.error = "none"
           /\ y.doc = None <=> r.u.buffer = <<>>
           /\ y.doc = None => y.u = r.u
           /\ y.u.sent = r.u.sent /\ y.u.error = r.u.error /\ y.u.id = r.u.id
           /\ y.u.replies = r.u.replies /\ y.u.inExhaust = r.u.inExhaust
           /\ y.u.count = r.u.count /\ y.u.current = r.u.current /\ y.u.done = r.u.done
<1> DEFINE u == r.u
           v == y.u
<1>1. u \in CursorType /\ r.w \in WireType /\ n \in Nat
  BY DEF Sound
<1>2. CASE u.buffer = <<>>
  <2>1. y.u = r.u /\ y.w = r.w /\ y.doc = None
    BY <1>2 DEF Reading
  <2>2. QED BY <1>2, <2>1, NoneIsNothing DEF After
<1>3. CASE u.buffer # <<>>
  <2>1. y.u = [u EXCEPT !.buffer = Tail(u.buffer)] /\ y.w = r.w /\ y.doc = Head(u.buffer)
    BY <1>3 DEF Reading
  <2>2. u.buffer \in Seq(Document) /\ u.error = "none" /\ u.sent
    BY <1>1, <1>3 DEF CursorType
  <2>3. /\ Tail(u.buffer) \in Seq(Document) /\ Len(u.buffer) \in Nat /\ Len(u.buffer) >= 1
        /\ Len(Tail(u.buffer)) = Len(u.buffer) - 1
        /\ \A i \in 1 .. Len(u.buffer) - 1 : Tail(u.buffer)[i] = u.buffer[i + 1]
        /\ Head(u.buffer) = u.buffer[1] /\ u.buffer[1] \in Document
    BY <1>3, <2>2
  <2>4. \A i \in 1 .. Len(u.buffer) : u.buffer[i] = <<c, n + i>>
    BY <2>2 DEF Sound, Follow
  <2>5. y.doc = <<c, n + 1>> /\ y.doc \in Document /\ y.doc # None
    BY <2>1, <2>3, <2>4, NoneIsNothing
  <2>6. /\ v \in CursorType /\ v.buffer = Tail(u.buffer)
        /\ v.sent = u.sent /\ v.error = u.error /\ v.id = u.id
        /\ v.replies = u.replies /\ v.inExhaust = u.inExhaust
        /\ v.count = u.count /\ v.current = u.current /\ v.done = u.done
    BY <1>1, <2>1, <2>3 DEF CursorType
  <2>7. Follow(c, v, n + 1)
    <3>1. ASSUME NEW i \in 1 .. Len(Tail(u.buffer))
          PROVE  Tail(u.buffer)[i] = <<c, (n + 1) + i>>
      <4>1. i \in 1 .. Len(u.buffer) - 1 /\ i + 1 \in 1 .. Len(u.buffer)
        BY <2>3
      <4>2. Tail(u.buffer)[i] = <<c, n + (i + 1)>>
        BY <2>3, <2>4, <4>1
      <4>3. n + (i + 1) = (n + 1) + i
        BY <1>1
      <4>4. QED BY <4>2, <4>3
    <3>2. DOMAIN v.buffer = 1 .. Len(Tail(u.buffer))
      BY <2>3, <2>6
    <3>3. QED BY <2>6, <3>1, <3>2 DEF Follow
  <2>8. Stands(c, query[c], Total(c), u, y.w, n)
    BY <2>1 DEF Sound
  <2>9. (n + 1) + Len(v.buffer) = n + Len(u.buffer)
    <3>1. Len(v.buffer) = Len(u.buffer) - 1
      BY <2>3, <2>6, Zenon
    <3>2. \A k \in Nat, i \in Nat : (i + 1) + (k - 1) = i + k
      OBVIOUS
    <3>3. Len(u.buffer) \in Nat
      BY <2>3, Zenon
    <3>4. QED BY <1>1, <3>1, <3>2, <3>3, Zenon
  <2> HIDE DEF u, v
  <2>10. Works(c, query[c], Total(c), u, y.w, n)
    BY <2>2, <2>8 DEF Stands
  <2>11. Works(c, query[c], Total(c), v, y.w, n + 1)
    BY <2>6, <2>9, <2>10, Zenon DEF Works, Flows, Rests
  <2>12. Stands(c, query[c], Total(c), v, y.w, n + 1)
    BY <2>2, <2>6, <2>8, <2>11 DEF Stands
  <2>13. Sound(c, v, y.w, n + 1)
    BY <1>1, <2>1, <2>2, <2>6, <2>7, <2>12 DEF Sound, u
  <2>14. QED BY <1>3, <2>1, <2>2, <2>5, <2>6, <2>13 DEF After, u, v
<1>4. QED BY <1>2, <1>3

\* A cursor that may be asked for its next document, outside or inside of exhaust.
Callable(c, n) ==
    /\ Sound(c, cur[c], wire, n)
    /\ cur[c].error = "none" /\ ~cur[c].done
    /\ ~cur[c].sent => Quiet(wire)

\* What there is to read from, after what had to be asked for.
Ready(c, x, n) ==
    /\ Sound(c, x.u, x.w, n)
    /\ x.u.sent /\ x.u.error \in {"none", "failed", "aborted"}
    /\ x.u.error # "none" => x.u.buffer = <<>>
    /\ x.u.count = cur[c].count /\ x.u.current = cur[c].current /\ x.u.done = cur[c].done
    /\ \A d \in Cursor \ {c} : x.w.srv[d] = wire.srv[d]
    /\ x.u.error = "none" /\ x.u.buffer = <<>> /\ ~query[c].tailable => ~x.u.id
    /\ cur[c].sent /\ ~cur[c].id /\ cur[c].buffer = <<>> => x.u.buffer = <<>>
    /\ x.u.error = "aborted" =>
          Aborts(c) /\ cur[c].sent /\ cur[c].id /\ cur[c].buffer = <<>>

LEMMA UnusedDoNotAbort ==
    ASSUME Asked, NEW c \in Cursor, NEW n, Sound(c, cur[c], wire, n), ~cur[c].sent
    PROVE  ~Aborts(c) /\ cur[c].buffer = <<>> /\ ~cur[c].id /\ cur[c].count = 0
<1>1. Unused(c, cur[c], wire, n)
  BY DEF Sound, Stands
<1>2. query[c].limit \in Int
  BY QueriesAre DEF QueryType
<1>3. QED BY <1>1, <1>2 DEF Unused, Aborts

LEMMA FetchedIsReady ==
    ASSUME Asked, NEW c \in Cursor, NEW n, Sound(c, cur[c], wire, n), NEW x,
           Sound(c, x.u, x.w, n), Fetched(c, cur[c], x.u, wire, x.w),
           cur[c].sent => cur[c].id /\ cur[c].buffer = <<>>
    PROVE  Ready(c, x, n)
<1>1. x.u.error = "aborted" => cur[c].sent
  BY UnusedDoNotAbort DEF Fetched
<1>2. QED BY <1>1 DEF Fetched, SameCall, Ready

LEMMA StaysReady ==
    ASSUME NEW c \in Cursor, NEW n, Callable(c, n), cur[c].sent,
           cur[c].buffer = <<>> /\ ~query[c].tailable => ~cur[c].id,
           NEW x, x.u = cur[c], x.w = wire
    PROVE  Ready(c, x, n)
  BY DEF Ready, Callable

LEMMA OpReads ==
    ASSUME Asked, NEW c \in Cursor, NEW n, Callable(c, n), NEW y \in OpNext(c),
           ~(Magnitude(query[c].limit) > 0 /\ cur[c].count >= Magnitude(query[c].limit))
    PROVE  \E x : Ready(c, x, n) /\ y = OpDone(c, Reading(x))
<1> DEFINE u == cur[c]
           same == {[u |-> u, w |-> wire]}
           from == CASE u.buffer # <<>> -> same
                     [] ~u.sent -> InitialQuery(c)
                     [] u.sent /\ u.buffer = <<>> -> IF u.id THEN GetMore(c, u, wire) ELSE same
<1>1. /\ Sound(c, cur[c], wire, n) /\ cur[c].error = "none" /\ cur[c] \in CursorType
  BY DEF Callable, Sound
<1>2. PICK x \in from : y = OpDone(c, Reading(x))
  <2>1. OpNext(c) = {OpDone(c, Reading(r)) : r \in from}
    BY Zenon DEF OpNext
  <2> HIDE DEF from
  <2>2. QED BY <2>1
<1>3. CASE u.buffer # <<>>
  <2>1. u.sent
    BY <1>1, <1>3, UnusedDoNotAbort
  <2>2. x \in same
    BY <1>3, <2>1
  <2>3. QED BY <1>2, <1>3, <2>1, <2>2, StaysReady
<1>4. CASE ~u.sent
  <2>1. u.buffer = <<>>
    BY <1>1, <1>4, UnusedDoNotAbort
  <2>2. x \in InitialQuery(c)
    BY <1>4, <2>1
  <2>3. Sound(c, x.u, x.w, n) /\ Fetched(c, cur[c], x.u, wire, x.w)
    BY <1>1, <1>4, <2>2, InitialQueryIsSound DEF Callable
  <2>4. QED BY <1>1, <1>2, <1>4, <2>3, FetchedIsReady
<1>5. CASE u.sent /\ u.buffer = <<>> /\ u.id
  <2>1. x \in GetMore(c, u, wire)
    BY <1>5
  <2>2. Sound(c, x.u, x.w, n) /\ Fetched(c, cur[c], x.u, wire, x.w)
    BY <1>1, <1>5, <2>1, GetMoreIsSound
  <2>3. QED BY <1>1, <1>2, <1>5, <2>2, FetchedIsReady
<1>6. CASE u.sent /\ u.buffer = <<>> /\ ~u.id
  <2>1. x \in same
    BY <1>6
  <2>2. QED BY <1>2, <1>6, <2>1, StaysReady
<1>7. QED BY <1>3, <1>4, <1>5, <1>6

LEMMA CursoridReads ==
    ASSUME Asked, NEW c \in Cursor, NEW n, Callable(c, n), NEW y \in CursoridNext(c)
    PROVE  \E x : Ready(c, x, n) /\ \E f \in BOOLEAN : y = [Reading(x) EXCEPT !.u.done = f]
<1> DEFINE primed == IF cur[c].sent THEN {[u |-> cur[c], w |-> wire]} ELSE InitialQuery(c)
           refreshed == UNION {IF r.u.error = "none" /\ r.u.buffer = <<>> /\ r.u.id
                               THEN GetMore(c, r.u, r.w) ELSE {r} : r \in primed}
           first == ~cur[c].sent /\ query[c].kind = "find"
<1>1. /\ Sound(c, cur[c], wire, n) /\ cur[c].error = "none" /\ cur[c] \in CursorType
  BY DEF Callable, Sound
<1>2. PICK x \in refreshed, f \in BOOLEAN : y = [Reading(x) EXCEPT !.u.done = f]
  <2>1. PICK z \in {Reading(x) : x \in refreshed} :
            y = [z EXCEPT !.u.done = ~first /\ (z.u.done \/ (z.doc = None /\ ~z.u.id))]
    BY Zenon DEF CursoridNext
  <2> HIDE DEF refreshed, first
  <2>2. PICK x \in refreshed : z = Reading(x)
    BY <2>1
  <2>3. PICK f \in BOOLEAN : f = (~first /\ (z.u.done \/ (z.doc = None /\ ~z.u.id)))
    BY Zenon
  <2>4. y = [z EXCEPT !.u.done = f]
    BY <2>1, <2>3, Zenon
  <2>5. QED BY <2>2, <2>4
<1>3. PICK r \in primed :
          x \in IF r.u.error = "none" /\ r.u.buffer = <<>> /\ r.u.id
                THEN GetMore(c, r.u, r.w) ELSE {r}
  BY <1>2
<1>4. CASE cur[c].sent
  <2>1. r.u = cur[c] /\ r.w = wire
    BY <1>3, <1>4
  <2>2. CASE cur[c].buffer = <<>> /\ cur[c].id
    <3>1. x \in GetMore(c, cur[c], wire)
      BY <1>1, <1>3, <2>1, <2>2
    <3>2. Sound(c, x.u, x.w, n) /\ Fetched(c, cur[c], x.u, wire, x.w)
      BY <1>1, <1>4, <2>2, <3>1, GetMoreIsSound
    <3>3. Ready(c, x, n)
      BY <1>1, <2>2, <3>2, FetchedIsReady
    <3>4. QED BY <1>2, <3>3
  <2>3. CASE ~(cur[c].buffer = <<>> /\ cur[c].id)
    <3>1. x.u = cur[c] /\ x.w = wire
      BY <1>1, <1>3, <2>1, <2>3
    <3>2. Ready(c, x, n)
      BY <1>4, <2>3, <3>1, StaysReady
    <3>3. QED BY <1>2, <3>2
  <2>4. QED BY <2>2, <2>3
<1>5. CASE ~cur[c].sent
  <2>1. r \in InitialQuery(c)
    BY <1>3, <1>5
  <2>2. Sound(c, r.u, r.w, n) /\ Fetched(c, cur[c], r.u, wire, r.w)
    BY <1>1, <1>5, <2>1, InitialQueryIsSound DEF Callable
  <2>3. CASE r.u.error = "none" /\ r.u.buffer = <<>> /\ r.u.id
    <3>1. x \in GetMore(c, r.u, r.w)
      BY <1>3, <2>3
    <3>2. r.u.sent
      BY <2>2 DEF Fetched, SameCall
    <3>3. Sound(c, x.u, x.w, n) /\ Fetched(c, r.u, x.u, r.w, x.w)
      BY <1>1, <2>2, <2>3, <3>1, <3>2, GetMoreIsSound
    <3>4. Fetched(c, cur[c], x.u, wire, x.w)
      BY <2>2, <3>3 DEF Fetched, SameCall
    <3>5. Ready(c, x, n)
      BY <1>1, <1>5, <3>3, <3>4, FetchedIsReady
    <3>6. QED BY <1>2, <3>5
  <2>4. CASE ~(r.u.error = "none" /\ r.u.buffer = <<>> /\ r.u.id)
    <3>1. x = r
      BY <1>3, <2>4
    <3>2. Ready(c, x, n)
      BY <1>1, <1>5, <2>2, <3>1, FetchedIsReady
    <3>3. QED BY <1>2, <3>2
  <2>5. QED BY <2>3, <2>4
<1>6. QED BY <1>4, <1>5

\* A cursor is as sound whatever count, current and done say of it.
LEMMA CountingIsSound ==
    ASSUME NEW c \in Cursor, NEW u, NEW w, NEW n, Sound(c, u, w, n), u.sent,
           NEW v \in CursorType, v.sent, v.error = u.error, v.id = u.id, v.buffer = u.buffer,
           v.replies = u.replies, v.inExhaust = u.inExhaust
    PROVE  Sound(c, v, w, n)
<1>1. Works(c, query[c], Total(c), u, w, n) => Works(c, query[c], Total(c), v, w, n)
  BY Zenon DEF Works, Flows, Rests
<1>2. Stands(c, query[c], Total(c), v, w, n)
  BY <1>1 DEF Sound, Stands
<1>3. QED BY <1>2 DEF Sound, Follow

\* What a call leads to, when it is made: documents come in order, and there is no other only when
\* the server has none or the limit is reached.
Returned(c, r, n) ==
    /\ Sound(c, r.u, r.w, After(r.doc, n))
    /\ r.doc \in Document \cup {None}
    /\ r.doc # None => r.doc = <<c, n + 1>> /\ r.u.error = "none"
    /\ r.u.sent /\ r.u.error \in {"none", "failed", "aborted"}
    /\ \A d \in Cursor \ {c} : r.w.srv[d] = wire.srv[d]
    /\ r.u.error = "none" /\ r.doc = None /\ ~query[c].tailable =>
          \/ UsesOpQuery(c) /\ query[c].limit # 0
             /\ cur[c].count >= Magnitude(query[c].limit) /\ r.u.done
          \/ ~r.u.id /\ r.u.buffer = <<>>
    /\ r.u.inExhaust /\ r.u.done /\ r.u.error = "none" => ~r.u.id
    /\ r.doc # None /\ UsesOpQuery(c) /\ query[c].limit # 0 =>
          cur[c].count < Magnitude(query[c].limit)
    /\ cur[c].sent /\ ~cur[c].id /\ cur[c].buffer = <<>> => r.doc = None
    /\ r.u.error = "aborted" =>
          Aborts(c) /\ query[c].kind = "find" /\ cur[c].sent /\ cur[c].id /\ cur[c].buffer = <<>>

LEMMA ReadingReturns ==
    ASSUME Asked, NEW c \in Cursor, NEW n, NEW x, Ready(c, x, n), NEW z, z = Reading(x),
           NEW r, r.u \in CursorType, r.w = z.w, r.doc = z.doc,
           r.u.sent = z.u.sent, r.u.error = z.u.error, r.u.id = z.u.id,
           r.u.buffer = z.u.buffer, r.u.replies = z.u.replies, r.u.inExhaust = z.u.inExhaust,
           r.u.inExhaust /\ r.u.done /\ r.u.error = "none" => ~r.u.id,
           UsesOpQuery(c) => ~(Magnitude(query[c].limit) > 0
                               /\ cur[c].count >= Magnitude(query[c].limit)),
           cur[c] \in CursorType
    PROVE  Returned(c, r, n)
<1>1. /\ Sound(c, z.u, z.w, After(z.doc, n)) /\ z.w = x.w
      /\ z.doc \in Document \cup {None}
      /\ z.doc # None => z.doc = <<c, n + 1>> /\ z.u.error = "none"
      /\ z.doc = None <=> x.u.buffer = <<>>
      /\ z.doc = None => z.u = x.u
      /\ z.u.sent = x.u.sent /\ z.u.error = x.u.error /\ z.u.id = x.u.id
  <2>1. /\ Sound(c, x.u, x.w, n)
        /\ x.u.error # "none" => x.u.buffer = <<>>
        /\ x.u.error = "none" => x.u.sent
    BY DEF Ready
  <2>2. QED BY <2>1, ReadingIsSound
<1>2. z.u.sent
  BY <1>1 DEF Ready
<1>3. Sound(c, r.u, r.w, After(r.doc, n))
  BY <1>1, <1>2, CountingIsSound
<1>4. query[c].limit \in Int /\ cur[c].count \in Nat /\ query[c].kind \in Kind
  BY QueriesAre DEF QueryType, CursorType
<1>5. r.doc # None /\ UsesOpQuery(c) /\ query[c].limit # 0 =>
          cur[c].count < Magnitude(query[c].limit)
  BY <1>4 DEF Magnitude
<1>6. r.u.error = "aborted" =>
          Aborts(c) /\ query[c].kind = "find" /\ cur[c].sent /\ cur[c].id /\ cur[c].buffer = <<>>
  <2>1. SUFFICES ASSUME r.u.error = "aborted" PROVE query[c].kind = "find"
    BY <1>1 DEF Ready
  <2>2. Aborts(c)
    BY <1>1, <2>1 DEF Ready
  <2>3. query[c].limit > 0 /\ query[c].limit <= cur[c].count
    BY <2>2 DEF Aborts
  <2>4. ~UsesOpQuery(c)
    BY <1>4, <2>3 DEF Magnitude
  <2>5. query[c].kind # "aggregate"
    BY <1>4, <2>3, QueriesAre
  <2>6. QED BY <1>4, <2>4, <2>5 DEF UsesOpQuery, Kind
<1>7. QED BY <1>1, <1>3, <1>5, <1>6 DEF Returned, Ready

LEMMA OpNextReturns ==
    ASSUME Asked, NEW c \in Cursor, NEW n, Callable(c, n), UsesOpQuery(c), NEW r \in OpNext(c)
    PROVE  Returned(c, r, n) /\ r.u.count = cur[c].count /\ r = [u |-> r.u, w |-> r.w, doc |-> r.doc]
<1>1. Sound(c, cur[c], wire, n) /\ cur[c] \in CursorType /\ cur[c].error = "none" /\ n \in Nat
  BY DEF Callable, Sound
<1>2. query[c].limit \in Int /\ cur[c].count \in Nat
  BY <1>1, QueriesAre DEF QueryType, CursorType
<1>3. ASSUME Magnitude(query[c].limit) > 0, cur[c].count >= Magnitude(query[c].limit)
      PROVE  /\ Returned(c, r, n) /\ r.u.count = cur[c].count
             /\ r = [u |-> r.u, w |-> r.w, doc |-> r.doc]
  <2>1. r = [u |-> [cur[c] EXCEPT !.done = TRUE], w |-> wire, doc |-> None]
    BY <1>3, Zenon DEF OpNext
  <2>2. /\ r.u = [cur[c] EXCEPT !.done = TRUE] /\ r.w = wire /\ r.doc = None
        /\ r = [u |-> r.u, w |-> r.w, doc |-> r.doc]
    BY <2>1
  <2>3. /\ r.u \in CursorType /\ r.u.done
        /\ r.u.sent = cur[c].sent /\ r.u.error = cur[c].error /\ r.u.id = cur[c].id
        /\ r.u.buffer = cur[c].buffer /\ r.u.replies = cur[c].replies
        /\ r.u.inExhaust = cur[c].inExhaust /\ r.u.count = cur[c].count
    BY <1>1, <2>2 DEF CursorType
  <2>4. query[c].limit # 0
    BY <1>3 DEF Magnitude
  <2>5. cur[c].count # 0 /\ cur[c].sent
    BY <1>1, <1>2, <1>3, UnusedDoNotAbort DEF Magnitude
  <2>6. Sound(c, r.u, r.w, n)
    BY <1>1, <2>2, <2>3, <2>5, CountingIsSound
  <2>7. ~r.u.inExhaust
    BY <1>1, <2>3, <2>4, QueriesAre DEF Sound, Stands
  <2>8. QED BY <1>1, <1>3, <2>2, <2>3, <2>4, <2>5, <2>6, <2>7 DEF Returned, After
<1>4. ASSUME ~(Magnitude(query[c].limit) > 0 /\ cur[c].count >= Magnitude(query[c].limit))
      PROVE  /\ Returned(c, r, n) /\ r.u.count = cur[c].count
             /\ r = [u |-> r.u, w |-> r.w, doc |-> r.doc]
  <2>1. PICK x : Ready(c, x, n) /\ r = OpDone(c, Reading(x))
    BY <1>4, OpReads
  <2> DEFINE z == Reading(x)
  <2>2. PICK f \in BOOLEAN :
          f = (/\ z.u.replies > 0
               /\ z.u.buffer = <<>>
               /\ \/ z.u.inExhaust /\ ~z.u.id
                  \/ z.doc = None /\ ~query[c].tailable)
    BY Zenon
  <2>3. /\ Sound(c, z.u, z.w, After(z.doc, n)) /\ (z.doc = None => z.u = x.u)
        /\ z.doc = None <=> x.u.buffer = <<>>
        /\ z.u.count = x.u.count
    <3>1. /\ Sound(c, x.u, x.w, n)
          /\ x.u.error # "none" => x.u.buffer = <<>>
          /\ x.u.error = "none" => x.u.sent
      BY <2>1 DEF Ready
    <3>2. QED BY <3>1, ReadingIsSound
  <2>4. z.u \in CursorType
    BY <2>3 DEF Sound
  <2>5. /\ r.u = [z.u EXCEPT !.done = f] /\ r.w = z.w /\ r.doc = z.doc
        /\ r = [u |-> r.u, w |-> r.w, doc |-> r.doc] /\ z = Reading(x)
    <3>1. z = [u |-> z.u, w |-> z.w, doc |-> z.doc]
      BY DEF Reading
    <3> HIDE DEF z
    <3>2. r = [z EXCEPT !.u.done = f]
      BY <2>1, <2>2, Zenon DEF OpDone, z
    <3>3. z = Reading(x)
      BY DEF z
    <3>4. QED BY <3>1, <3>2, <3>3
  <2> HIDE DEF z
  <2>6. /\ r.u \in CursorType /\ r.u.done = f
        /\ r.u.sent = z.u.sent /\ r.u.error = z.u.error /\ r.u.id = z.u.id
        /\ r.u.buffer = z.u.buffer /\ r.u.replies = z.u.replies
        /\ r.u.inExhaust = z.u.inExhaust /\ r.u.count = z.u.count
    BY <2>4, <2>5 DEF CursorType
  <2>7. r.u.inExhaust /\ r.u.done /\ r.u.error = "none" => ~r.u.id
    BY <2>1, <2>2, <2>3, <2>6 DEF Ready
  <2>8. Returned(c, r, n)
    <3>1. UsesOpQuery(c) => ~(Magnitude(query[c].limit) > 0
                              /\ cur[c].count >= Magnitude(query[c].limit))
      BY <1>4, Zenon
    <3>2. Ready(c, x, n) /\ z = Reading(x) /\ r.w = z.w /\ r.doc = z.doc
      BY <2>1, <2>5
    <3>3. QED BY <1>1, <2>6, <2>7, <3>1, <3>2, ReadingReturns
  <2>9. r.u.count = cur[c].count
    BY <2>1, <2>3, <2>6 DEF Ready
  <2>10. QED BY <2>5, <2>8, <2>9
<1>5. QED BY <1>3, <1>4

LEMMA CursoridNextReturns ==
    ASSUME Asked, NEW c \in Cursor, NEW n, Callable(c, n), ~UsesOpQuery(c),
           NEW r \in CursoridNext(c)
    PROVE  Returned(c, r, n) /\ r.u.count = cur[c].count /\ r = [u |-> r.u, w |-> r.w, doc |-> r.doc]
<1>1. Sound(c, cur[c], wire, n) /\ cur[c] \in CursorType
  BY DEF Callable, Sound
<1>2. PICK x : Ready(c, x, n) /\ \E f \in BOOLEAN : r = [Reading(x) EXCEPT !.u.done = f]
  BY CursoridReads
<1>3. PICK f \in BOOLEAN : r = [Reading(x) EXCEPT !.u.done = f]
  BY <1>2
<1> DEFINE z == Reading(x)
<1>4. Sound(c, z.u, z.w, After(z.doc, n)) /\ z.u.count = x.u.count
  <2>1. /\ Sound(c, x.u, x.w, n)
        /\ x.u.error # "none" => x.u.buffer = <<>>
        /\ x.u.error = "none" => x.u.sent
    BY <1>2 DEF Ready
  <2>2. QED BY <2>1, ReadingIsSound
<1>5. /\ r.u = [z.u EXCEPT !.done = f] /\ r.w = z.w /\ r.doc = z.doc
      /\ r = [u |-> r.u, w |-> r.w, doc |-> r.doc]
  <2>1. z = [u |-> z.u, w |-> z.w, doc |-> z.doc]
    BY DEF Reading
  <2>2. QED BY <1>3, <2>1
<1> HIDE DEF z
<1>6. z.u \in CursorType
  BY <1>4 DEF Sound
<1>7. /\ r.u \in CursorType
      /\ r.u.sent = z.u.sent /\ r.u.error = z.u.error /\ r.u.id = z.u.id
      /\ r.u.buffer = z.u.buffer /\ r.u.replies = z.u.replies
      /\ r.u.inExhaust = z.u.inExhaust /\ r.u.count = z.u.count
  BY <1>5, <1>6 DEF CursorType
<1>8. ~r.u.inExhaust
  BY <1>4, <1>7 DEF Sound, Stands, UsesOpQuery
<1>9. Returned(c, r, n)
  BY <1>1, <1>2, <1>5, <1>7, <1>8, ReadingReturns DEF z
<1>10. r.u.count = cur[c].count
  BY <1>2, <1>4, <1>7 DEF Ready
<1>11. QED BY <1>5, <1>9, <1>10

\* A call either does nothing, because of an error or since there is nothing more, or returns.
Refuses(c, r) ==
    /\ r.u = [cur[c] EXCEPT !.error = Objection(c)]
    /\ Objection(c) # "none" /\ r.w = wire /\ r.doc = None

LEMMA CallsReturn ==
    ASSUME Asked, NEW c \in Cursor, NEW n, Objection(c) = "none" => Callable(c, n),
           NEW r \in NextCalls(c)
    PROVE  \/ Refuses(c, r)
           \/ /\ Objection(c) = "none" /\ Returned(c, r, n)
              /\ r.u.count = cur[c].count + 1 /\ r.u.current = r.doc
<1>1. CASE Objection(c) # "none"
  BY <1>1 DEF NextCalls, Refuses
<1>2. CASE Objection(c) = "none"
  <2>1. PICK y \in IF UsesOpQuery(c) THEN OpNext(c) ELSE CursoridNext(c) :
            r = [y EXCEPT !.u.count = y.u.count + 1, !.u.current = y.doc]
    BY <1>2, Zenon DEF NextCalls
  <2>2. Returned(c, y, n) /\ y.u.count = cur[c].count /\ y = [u |-> y.u, w |-> y.w, doc |-> y.doc]
    BY <1>2, <2>1, OpNextReturns, CursoridNextReturns
  <2>4. r.u = [y.u EXCEPT !.count = y.u.count + 1, !.current = y.doc] /\ r.w = y.w /\ r.doc = y.doc
    BY <2>1, <2>2
  <2>5. y.u \in CursorType /\ y.u.sent /\ y.doc \in Document \cup {None}
    BY <2>2 DEF Returned, Sound
  <2>6. /\ r.u \in CursorType /\ r.u.count = y.u.count + 1 /\ r.u.current = r.doc
        /\ r.u.sent = y.u.sent /\ r.u.error = y.u.error /\ r.u.id = y.u.id
        /\ r.u.buffer = y.u.buffer /\ r.u.replies = y.u.replies
        /\ r.u.inExhaust = y.u.inExhaust /\ r.u.done = y.u.done
    <3>1. y.u.count + 1 \in Nat
      BY <2>5 DEF CursorType
    <3>2. QED BY <2>4, <2>5, <3>1 DEF CursorType
  <2>7. Sound(c, r.u, r.w, After(r.doc, n))
    BY <2>2, <2>4, <2>5, <2>6, CountingIsSound DEF Returned
  <2>8. Returned(c, r, n)
    BY <2>2, <2>4, <2>6, <2>7 DEF Returned
  <2>9. QED BY <1>2, <2>2, <2>6, <2>8
<1>3. QED BY <1>1, <1>2

-----------------------------------------------------------------------------
(* The steps.                                                              *)

PhpType == [stage: {"new", "made", "gone"}, iterating: BOOLEAN, key: 0 .. MaxCalls,
            child: Document \cup {None}]

LEMMA TotalsStay ==
    ASSUME NEW c \in Cursor, UNCHANGED <<query, docs>>
    PROVE  Total(c)' = Total(c)
  BY DEF Total

\* The iterator is made, goes back to the start, or decodes the current document again.
LEMMA ShowingKeeps ==
    ASSUME Inv, NEW c \in Cursor, php[c].stage = "made",
           UNCHANGED <<query, docs, wire, cur, given, abandoned, mistaken>>,
           NEW p \in PhpType, p.stage = "made", p.key = php[c].key,
           p.child \in {None, cur[c].current}, php' = [php EXCEPT ![c] = p]
    PROVE  Inv'
<1>1. /\ \A d \in Cursor \ {c} : php'[d] = php[d]
      /\ php'[c] = p /\ php' \in [Cursor -> PhpType]
  BY DEF Inv, TypeOK, PhpType
<1>2. \A d \in Cursor : php'[d].stage = php[d].stage /\ php'[d].key = php[d].key
  BY <1>1
<1>3. TypeOK'
  BY <1>1 DEF Inv, TypeOK, PhpType
<1>4. CursorsStand'
  <2>1. ASSUME NEW d \in Cursor
        PROVE  /\ php'[d].stage # "gone" =>
                     Stands(d, query'[d], Total(d)', cur'[d], wire', Len(given'[d]))
               /\ php'[d].stage = "gone" => ~cur'[d].inExhaust /\ ~wire'.srv[d].pushing
    <3>1. Total(d)' = Total(d)
      BY TotalsStay
    <3>2. QED BY <1>2, <3>1 DEF Inv, CursorsStand
  <2>2. QED BY <2>1 DEF CursorsStand
<1>5. StreamFits'
  BY DEF Inv, StreamFits, InExhaust
<1>6. CallsFit'
  <2>1. ASSUME NEW d \in Cursor
        PROVE  /\ php'[d].stage = "new" => ~cur'[d].sent /\ cur'[d].error = "none" /\ php'[d].key = 0
               /\ php'[d].stage = "made" /\ cur'[d].error = "none" =>
                     /\ cur'[d].sent
                     /\ Counts(d, query'[d], cur'[d], Len(given'[d]))
                     /\ cur'[d].count = php'[d].key + 1
                     /\ php'[d].child \in {None, cur'[d].current}
               /\ php'[d].stage # "made" => php'[d].child = None
    <3>1. CASE d = c
      BY <1>1, <3>1 DEF Inv, CallsFit
    <3>2. CASE d # c
      BY <1>1, <3>2 DEF Inv, CallsFit
    <3>3. QED BY <3>1, <3>2
  <2>2. QED BY <2>1 DEF CallsFit
<1>7. GivenInOrder' /\ LimitRemains' /\ CommandsTakeTheirReplies'
  BY DEF Inv, GivenInOrder, LimitRemains, CommandsTakeTheirReplies
<1>8. NothingLeaks'
  BY <1>2 DEF Inv, NothingLeaks
<1>9. QED BY <1>3, <1>4, <1>5, <1>6, <1>7, <1>8 DEF Inv

LEMMA GetIteratorKeeps ==
    ASSUME Inv, NEW c \in Cursor, GetIterator(c)
    PROVE  Inv'
<1> DEFINE p == [php[c] EXCEPT !.iterating = TRUE, !.child = None]
<1>1. php[c] \in PhpType /\ php[c].stage = "made"
  BY DEF Inv, TypeOK, PhpType, GetIterator
<1>2. p \in PhpType /\ p.stage = "made" /\ p.key = php[c].key /\ p.child = None
  BY <1>1 DEF PhpType
<1>3. php' = [php EXCEPT ![c] = p]
  BY DEF GetIterator, Inv, TypeOK
<1> HIDE DEF p
<1>4. QED BY <1>1, <1>2, <1>3, ShowingKeeps DEF GetIterator

LEMMA ShowingCurrentKeeps ==
    ASSUME Inv, NEW c \in Cursor, Rewind(c) \/ SetTypeMap(c)
    PROVE  Inv'
<1> DEFINE p == [php[c] EXCEPT !.child = cur[c].current]
<1>1. /\ php[c] \in PhpType /\ php[c].stage = "made"
      /\ cur[c].current \in Document \cup {None}
  BY DEF Inv, TypeOK, PhpType, Rewind, SetTypeMap, CursorType
<1>2. p \in PhpType /\ p.stage = "made" /\ p.key = php[c].key /\ p.child = cur[c].current
  BY <1>1 DEF PhpType
<1>3. php' = [php EXCEPT ![c] = p]
  BY DEF Rewind, SetTypeMap, Inv, TypeOK
<1> HIDE DEF p
<1>4. QED BY <1>1, <1>2, <1>3, ShowingKeeps DEF Rewind, SetTypeMap

\* Only tailable cursors see that there are more documents than there were.
LEMMA InsertKeeps ==
    ASSUME Inv, NEW c \in Cursor, Insert(c)
    PROVE  Inv'
<1>1. /\ query[c].tailable /\ docs[c] < MaxDocs[c] /\ docs' = [docs EXCEPT ![c] = @ + 1]
      /\ UNCHANGED <<query, wire, cur, php, given, abandoned, mistaken>>
  BY DEF Insert
<1>2. /\ DOMAIN docs = Cursor /\ Asked
      /\ \A d \in Cursor : docs[d] \in 0 .. MaxDocs[d]
  BY DEF Inv, TypeOK, Asked
<1>3. DOMAIN docs' = Cursor /\ \A d \in Cursor : docs'[d] = IF d = c THEN docs[d] + 1 ELSE docs[d]
  BY <1>1, <1>2
<1>4. \A d \in Cursor : docs'[d] \in 0 .. MaxDocs[d]
  <2>1. MaxDocs[c] \in Nat /\ docs[c] \in Nat
    BY <1>2, QueriesAre
  <2>2. docs[c] + 1 \in 0 .. MaxDocs[c]
    BY <1>1, <2>1
  <2>3. QED BY <1>2, <1>3, <2>2
<1>5. TypeOK'
  BY <1>1, <1>3, <1>4 DEF Inv, TypeOK
<1>6. CursorsStand'
  <2>1. ASSUME NEW d \in Cursor
        PROVE  /\ php'[d].stage # "gone" =>
                     Stands(d, query'[d], Total(d)', cur'[d], wire', Len(given'[d]))
               /\ php'[d].stage = "gone" => ~cur'[d].inExhaust /\ ~wire'.srv[d].pushing
    <3>1. CASE d = c
      <4>1. Total(c) <= Total(c)' /\ Total(c) \in Nat /\ Total(c)' \in Nat
        <5>1. query[c].limit \in Int /\ docs[c] \in Nat
          BY <1>2, QueriesAre DEF QueryType
        <5>2. docs'[c] = docs[c] + 1
          BY <1>3
        <5>3. QED BY <1>1, <5>1, <5>2 DEF Total, Magnitude, AtMost
      <4>2. wire.srv[c].sent \in Nat
        BY DEF Inv, TypeOK, WireType
      <4>3. Stands(c, query[c], Total(c), cur[c], wire, Len(given[c])) =>
                Stands(c, query[c], Total(c)', cur[c], wire, Len(given[c]))
        <5>1. Works(c, query[c], Total(c), cur[c], wire, Len(given[c])) =>
                  Works(c, query[c], Total(c)', cur[c], wire, Len(given[c]))
          BY <1>1, Zenon DEF Works, Flows
        <5>2. wire.srv[c].sent <= Total(c) => wire.srv[c].sent <= Total(c)'
          BY <4>1, <4>2
        <5>3. QED BY <5>1, <5>2 DEF Stands
      <4>4. QED BY <1>1, <3>1, <4>3 DEF Inv, CursorsStand
    <3>2. CASE d # c
      <4>1. Total(d)' = Total(d)
        BY <1>1, <1>3, <3>2 DEF Total
      <4>2. QED BY <1>1, <4>1 DEF Inv, CursorsStand
    <3>3. QED BY <3>1, <3>2
  <2>2. QED BY <2>1 DEF CursorsStand
<1>7. StreamFits' /\ CallsFit'
  BY <1>1 DEF Inv, StreamFits, InExhaust, CallsFit
<1>8. GivenInOrder' /\ LimitRemains' /\ CommandsTakeTheirReplies' /\ NothingLeaks'
  BY <1>1 DEF Inv, GivenInOrder, LimitRemains, CommandsTakeTheirReplies, NothingLeaks
<1>9. QED BY <1>5, <1>6, <1>7, <1>8 DEF Inv

\* Another cursor, which is not in exhaust, looks at nothing but what the server has of it.
LEMMA OthersStand ==
    ASSUME NEW d, NEW q, NEW t, NEW u, NEW w, NEW x, NEW n, Stands(d, q, t, u, w, n),
           ~u.inExhaust, x.srv[d] = w.srv[d]
    PROVE  Stands(d, q, t, u, x, n)
<1>1. Works(d, q, t, u, w, n) => Works(d, q, t, u, x, n)
  BY DEF Works, Rests
<1>2. QED BY <1>1 DEF Stands, Unused

\* A cursor that the server pushes is the only one in exhaust, and it works.
LEMMA PushedFlows ==
    ASSUME Inv, NEW c \in Cursor, wire.srv[c].pushing
    PROVE  /\ php[c].stage # "gone" /\ query[c].kind = "exhaust"
           /\ cur[c].inExhaust /\ cur[c].sent /\ cur[c].error = "none"
           /\ Stands(c, query[c], Total(c), cur[c], wire, Len(given[c]))
           /\ Works(c, query[c], Total(c), cur[c], wire, Len(given[c]))
           /\ Flows(c, query[c], Total(c), cur[c], wire, Len(given[c]))
           /\ \A d \in Cursor \ {c} : ~cur[d].inExhaust
<1>1. /\ php[c].stage # "gone"
      /\ Stands(c, query[c], Total(c), cur[c], wire, Len(given[c]))
  BY DEF Inv, CursorsStand
<1>2. cur[c].inExhaust /\ cur[c].error = "none" /\ query[c].kind = "exhaust"
  BY <1>1 DEF Stands
<1>3. cur[c].sent
  BY <1>1, <1>2 DEF Stands, Unused
<1>4. Works(c, query[c], Total(c), cur[c], wire, Len(given[c]))
  BY <1>1, <1>2, <1>3 DEF Stands
<1>5. Flows(c, query[c], Total(c), cur[c], wire, Len(given[c]))
  BY <1>2, <1>4 DEF Works
<1>6. \A d \in Cursor \ {c} : ~cur[d].inExhaust
  BY <1>2 DEF Inv, StreamFits
<1>7. QED BY <1>1, <1>2, <1>3, <1>4, <1>5, <1>6

\* From w the server comes to x by sending another reply a of cursor c.
Pushes(c, q, t, w, a, x) ==
    /\ IsNext(c, q, a, w.srv[c].replies + 1, FALSE)
    /\ \A j \in 1 .. Len(a.docs) : a.docs[j] = <<c, w.srv[c].sent + j>>
    /\ x \in WireType /\ x.open /\ x.pipe = Append(w.pipe, a)
    /\ x.srv[c].sent = w.srv[c].sent + Len(a.docs)
    /\ x.srv[c].replies = w.srv[c].replies + 1
    /\ x.srv[c].pushing <=> a.more
    /\ a.kind = "batch" /\ ~a.more /\ ~q.tailable => x.srv[c].sent = t

LEMMA PushedReplyFlows ==
    ASSUME NEW c \in Cursor, NEW q, NEW t, NEW u \in CursorType, NEW n \in Nat,
           NEW w \in WireType, w.srv[c].pushing, Flows(c, q, t, u, w, n),
           NEW a \in ReplyType, NEW x, Pushes(c, q, t, w, a, x)
    PROVE  Flows(c, q, t, u, x, n) /\ u.id
<1>0. /\ \A j \in 1 .. Len(a.docs) : a.docs[j] = <<c, w.srv[c].sent + j>>
      /\ x \in WireType /\ x.open /\ x.pipe = Append(w.pipe, a)
      /\ x.srv[c].sent = w.srv[c].sent + Len(a.docs)
      /\ x.srv[c].replies = w.srv[c].replies + 1
      /\ x.srv[c].pushing <=> a.more
      /\ a.kind = "batch" /\ ~a.more /\ ~q.tailable => x.srv[c].sent = t
  BY DEF Pushes
<1> DEFINE len == Len(w.pipe)
<1>1. /\ w.pipe \in Seq(ReplyType) /\ len \in Nat /\ w.srv[c] \in ServerType
      /\ u.replies \in Nat /\ u.buffer \in Seq(Document) /\ Len(u.buffer) \in Nat
  BY DEF WireType, ServerType, CursorType
<1>2. Len(x.pipe) = len + 1 /\ x.pipe[len + 1] = a /\ \A i \in 1 .. len : x.pipe[i] = w.pipe[i]
  BY <1>0, <1>1
<1>3. w.srv[c].replies = u.replies + len
  BY DEF Flows
<1>4. u.id /\ (len > 0 => w.pipe[len].more)
  <2>1. w.pipe # <<>> => u.id /\ w.pipe[len].more
    BY DEF Flows
  <2>2. w.pipe = <<>> => u.id
    BY DEF Flows
  <2>3. w.pipe = <<>> => len = 0
    OBVIOUS
  <2>4. QED BY <2>1, <2>2, <2>3
<1>5. \A i \in 1 .. Len(x.pipe) : IsNext(c, q, x.pipe[i], u.replies + i, i < Len(x.pipe))
  <2>1. ASSUME NEW i \in 1 .. Len(x.pipe)
        PROVE  IsNext(c, q, x.pipe[i], u.replies + i, i < Len(x.pipe))
    <3>1. CASE i = len + 1
      <4>1. ~(i < Len(x.pipe))
        BY <1>1, <1>2, <3>1
      <4>2. u.replies + i = w.srv[c].replies + 1
        <5>1. PICK k \in Nat : k = u.replies
          BY <1>1
        <5>2. w.srv[c].replies = k + len
          BY <1>3, <5>1, Zenon
        <5>3. len \in Nat
          BY <1>1
        <5> HIDE DEF len
        <5>4. k + i = (k + len) + 1
          BY <3>1, <5>3
        <5>5. QED BY <5>1, <5>2, <5>4, Zenon
      <4>3. x.pipe[i] = a
        BY <1>2, <3>1
      <4>4. QED BY <4>1, <4>2, <4>3 DEF IsNext, Pushes
    <3>2. CASE i \in 1 .. len
      <4>1. IsNext(c, q, w.pipe[i], u.replies + i, i < len) /\ x.pipe[i] = w.pipe[i]
        BY <1>2, <3>2 DEF Flows
      <4>2. i = len => w.pipe[i].more
        BY <1>1, <1>4, <3>2
      <4>3. i < len \/ i = len
        BY <1>1, <3>2
      <4>4. QED BY <4>1, <4>2, <4>3 DEF IsNext
    <3>3. QED BY <1>1, <1>2, <3>1, <3>2
  <2>2. QED BY <2>1
<1>6. Brings(c, x.pipe, n + Len(u.buffer), x.srv[c].sent)
  <2>1. n + Len(u.buffer) \in Nat /\ w.srv[c].sent \in Nat
    BY <1>1 DEF ServerType
  <2>2. Brings(c, w.pipe, n + Len(u.buffer), w.srv[c].sent)
    BY DEF Flows
  <2>3. Brings(c, Append(w.pipe, a), n + Len(u.buffer), w.srv[c].sent + Len(a.docs))
    BY <1>0, <1>1, <2>1, <2>2, PushBrings
  <2>4. QED BY <1>0, <2>3, Zenon
<1>7. x.srv[c].replies = u.replies + Len(x.pipe)
  BY <1>0, <1>1, <1>2, <1>3
<1>8. x.pipe # <<>> /\ x.pipe[Len(x.pipe)] = a
  <2>1. Len(x.pipe) # 0
    BY <1>1, <1>2
  <2>2. x.pipe = <<>> => Len(x.pipe) = 0
    OBVIOUS
  <2>3. QED BY <1>2, <2>1, <2>2, Zenon
<1>9. QED BY <1>0, <1>4, <1>5, <1>6, <1>7, <1>8 DEF Flows

\* What the server may do on its own for cursor c keeps the others as they are.
LEMMA PushingKeeps ==
    ASSUME Inv, NEW c \in Cursor, wire.srv[c].pushing,
           UNCHANGED <<query, docs, cur, php, given, abandoned, mistaken>>,
           wire' \in WireType, wire'.open, wire'.answer = None,
           \A d \in Cursor \ {c} : wire'.srv[d] = wire.srv[d],
           wire'.srv[c].sent <= Total(c), cur[c].replies <= wire'.srv[c].replies,
           wire'.srv[c].open <=> wire'.srv[c].pushing,
           Flows(c, query[c], Total(c), cur[c], wire', Len(given[c])), cur[c].id
    PROVE  Inv'
<1>1. /\ php[c].stage # "gone" /\ query[c].kind = "exhaust"
      /\ cur[c].inExhaust /\ cur[c].sent /\ cur[c].error = "none"
      /\ Stands(c, query[c], Total(c), cur[c], wire, Len(given[c]))
      /\ Works(c, query[c], Total(c), cur[c], wire, Len(given[c]))
      /\ \A d \in Cursor \ {c} : ~cur[d].inExhaust
  BY PushedFlows
<1>2. TypeOK'
  BY DEF Inv, TypeOK
<1>3. Stands(c, query[c], Total(c), cur[c], wire', Len(given[c]))
  <2>1. Works(c, query[c], Total(c), cur[c], wire', Len(given[c]))
    BY <1>1 DEF Works
  <2>2. QED BY <1>1, <2>1 DEF Stands
<1>4. CursorsStand'
  <2>1. ASSUME NEW d \in Cursor
        PROVE  /\ php'[d].stage # "gone" =>
                     Stands(d, query'[d], Total(d)', cur'[d], wire', Len(given'[d]))
               /\ php'[d].stage = "gone" => ~cur'[d].inExhaust /\ ~wire'.srv[d].pushing
    <3>1. Total(d)' = Total(d)
      BY TotalsStay
    <3>2. CASE d = c
      BY <1>1, <1>3, <3>1, <3>2
    <3>3. CASE d # c
      <4>1. wire'.srv[d] = wire.srv[d] /\ ~cur[d].inExhaust
        BY <1>1, <3>3
      <4>2. php[d].stage # "gone" =>
                Stands(d, query[d], Total(d), cur[d], wire', Len(given[d]))
        BY <4>1, OthersStand DEF Inv, CursorsStand
      <4>3. QED BY <3>1, <4>1, <4>2 DEF Inv, CursorsStand
    <3>4. QED BY <3>2, <3>3
  <2>2. QED BY <2>1 DEF CursorsStand
<1>5. StreamFits'
  BY <1>1 DEF Inv, StreamFits, InExhaust
<1>6. CallsFit' /\ GivenInOrder' /\ LimitRemains' /\ CommandsTakeTheirReplies'
  BY DEF Inv, CallsFit, GivenInOrder, LimitRemains, CommandsTakeTheirReplies
<1>7. NothingLeaks'
  BY <1>1 DEF Inv, NothingLeaks
<1>8. QED BY <1>2, <1>3, <1>4, <1>5, <1>6, <1>7 DEF Inv

LEMMA PushKeeps ==
    ASSUME Inv, NEW c \in Cursor, Push(c)
    PROVE  Inv'
<1> DEFINE n == Len(given[c])
<1>1. /\ wire.srv[c].pushing /\ wire.open /\ wire \in WireType /\ wire.answer = None
      /\ UNCHANGED <<query, docs, cur, php, given, abandoned, mistaken>>
  BY DEF Push, Inv, TypeOK, StreamFits
<1>2. /\ query[c].kind = "exhaust"
      /\ Stands(c, query[c], Total(c), cur[c], wire, n)
      /\ Flows(c, query[c], Total(c), cur[c], wire, n)
  BY <1>1, PushedFlows
<1>3. Asked /\ cur[c] \in CursorType /\ n \in Nat
  BY DEF Inv, TypeOK, Asked
<1>4. wire.srv \in [Cursor -> ServerType] /\ wire.srv[c] \in ServerType
      /\ wire.pipe \in Seq(ReplyType) /\ wire.srv[c].sent <= Total(c)
      /\ cur[c].replies <= wire.srv[c].replies /\ cur[c].replies \in Nat
  BY <1>1, <1>2, <1>3 DEF WireType, ServerType, Stands, CursorType
<1>5. ASSUME NEW a \in ReplyType, NEW s \in [Cursor -> ServerType],
             wire' = [wire EXCEPT !.srv = s, !.pipe = Append(@, a)],
             IsNext(c, query[c], a, wire.srv[c].replies + 1, FALSE),
             \A j \in 1 .. Len(a.docs) : a.docs[j] = <<c, wire.srv[c].sent + j>>,
             s[c].sent = wire.srv[c].sent + Len(a.docs), s[c].sent <= Total(c),
             s[c].replies = wire.srv[c].replies + 1,
             s[c].pushing <=> a.more, s[c].open <=> a.more,
             \A d \in Cursor \ {c} : s[d] = wire.srv[d],
             a.kind = "batch" /\ ~a.more /\ ~query[c].tailable => s[c].sent = Total(c)
      PROVE  Inv'
  <2>1. Append(wire.pipe, a) \in Seq(ReplyType)
    BY <1>4
  <2>2. /\ wire' \in WireType /\ wire'.open /\ wire'.answer = None
        /\ wire'.pipe = Append(wire.pipe, a) /\ wire'.srv = s
    BY <1>1, <1>5, <2>1 DEF WireType, ServerType
  <2>3. Flows(c, query[c], Total(c), cur[c], wire', n) /\ cur[c].id
    <3>0. PICK x : x = wire'
      OBVIOUS
    <3>1. /\ x \in WireType /\ x.open /\ x.pipe = Append(wire.pipe, a)
          /\ x.srv[c].sent = wire.srv[c].sent + Len(a.docs)
          /\ x.srv[c].replies = wire.srv[c].replies + 1
          /\ x.srv[c].pushing <=> a.more
          /\ a.kind = "batch" /\ ~a.more /\ ~query[c].tailable => x.srv[c].sent = Total(c)
      BY <1>5, <2>2, <3>0
    <3>2. Pushes(c, query[c], Total(c), wire, a, x)
      BY <1>5, <3>1 DEF Pushes
    <3> HIDE DEF n
    <3>3. Flows(c, query[c], Total(c), cur[c], x, n) /\ cur[c].id
      BY <1>1, <1>2, <1>3, <3>2, PushedReplyFlows
    <3>4. QED BY <3>0, <3>3
  <2>4. cur[c].replies <= wire'.srv[c].replies
    BY <1>4, <1>5, <2>2 DEF ServerType
  <2>5. QED BY <1>1, <1>5, <2>2, <2>3, <2>4, PushingKeeps
<1>6. ASSUME NEW b \in Batches(wire, c, query[c].batchSize),
             wire' = [wire EXCEPT !.srv = Served(wire, c, b, TRUE),
                                  !.pipe = Append(@, Reply(wire, "batch", c,
                                                    Documents(wire, c, b), b.more))]
      PROVE  Inv'
  <2>0. PICK yes \in BOOLEAN : yes = TRUE
    BY Zenon
  <2> DEFINE a == Reply(wire, "batch", c, Documents(wire, c, b), b.more)
             s == Served(wire, c, b, yes)
  <2>1. query[c].batchSize \in Int /\ query[c].batchSize >= 0
    BY <1>3, QueriesAre DEF QueryType
  <2>2. /\ b.size \in Nat /\ b.more \in BOOLEAN /\ wire.srv[c].sent + b.size <= Total(c)
        /\ b.more /\ ~query[c].tailable => b.size > 0
        /\ ~b.more => wire.srv[c].sent + b.size = Total(c)
    BY <1>3, <1>4, <2>1, BatchesFit
  <2>3. /\ Documents(wire, c, b) \in Seq(Document) /\ Len(Documents(wire, c, b)) = b.size
        /\ \A i \in 1 .. b.size : Documents(wire, c, b)[i] = <<c, wire.srv[c].sent + i>>
    BY <1>3, <1>4, <2>2, DocumentsAre DEF ServerType
  <2>4. /\ a \in ReplyType /\ a.kind = "batch" /\ a.of = c /\ a.nth = wire.srv[c].replies + 1
        /\ a.docs = Documents(wire, c, b) /\ a.more = b.more
    BY <1>1, <2>2, <2>3, RepliesAre
  <2>5. /\ s \in [Cursor -> ServerType]
        /\ s[c].open = b.more /\ s[c].sent = wire.srv[c].sent + b.size
        /\ s[c].replies = wire.srv[c].replies + 1
        /\ s[c].pushing = (yes /\ b.more)
        /\ \A d \in Cursor \ {c} : s[d] = wire.srv[d]
    BY <1>1, <1>3, <1>4, <2>1, ServedIs
  <2>6. wire' = [wire EXCEPT !.srv = s, !.pipe = Append(@, a)]
    BY <1>6, <2>0, Zenon
  <2> HIDE DEF a, s
  <2>7. a.docs = <<>> => b.size = 0
    BY <2>3, <2>4
  <2>8. IsNext(c, query[c], a, wire.srv[c].replies + 1, FALSE)
    BY <2>2, <2>4, <2>7 DEF IsNext
  <2>9. /\ Len(a.docs) = b.size
        /\ \A j \in 1 .. Len(a.docs) : a.docs[j] = <<c, wire.srv[c].sent + j>>
    BY <2>3, <2>4
  <2>10. /\ s[c].pushing <=> a.more
         /\ s[c].open <=> a.more
         /\ s[c].sent = wire.srv[c].sent + Len(a.docs) /\ s[c].sent <= Total(c)
         /\ a.kind = "batch" /\ ~a.more /\ ~query[c].tailable => s[c].sent = Total(c)
    BY <2>0, <2>2, <2>4, <2>5, <2>9
  <2>11. s[c].replies = wire.srv[c].replies + 1 /\ \A d \in Cursor \ {c} : s[d] = wire.srv[d]
    BY <2>5
  <2>12. a \in ReplyType /\ s \in [Cursor -> ServerType]
    BY <2>4, <2>5
  <2>13. QED BY <1>5, <2>6, <2>8, <2>9, <2>10, <2>11, <2>12, Zenon
<1>7. CASE wire' = [wire EXCEPT !.srv = Refused(wire, c),
                                !.pipe = Append(@, Reply(wire, "error", c, <<>>, FALSE))]
  <2> DEFINE a == Reply(wire, "error", c, <<>>, FALSE)
             s == Refused(wire, c)
  <2>1. /\ a \in ReplyType /\ a.kind = "error" /\ a.of = c /\ a.nth = wire.srv[c].replies + 1
        /\ a.docs = <<>> /\ ~a.more
    BY <1>1, ErrorsAre
  <2>2. /\ s \in [Cursor -> ServerType]
        /\ ~s[c].open /\ s[c].sent = wire.srv[c].sent
        /\ s[c].replies = wire.srv[c].replies + 1 /\ ~s[c].pushing
        /\ \A d \in Cursor \ {c} : s[d] = wire.srv[d]
    BY <1>1, RefusedIs
  <2>3. wire' = [wire EXCEPT !.srv = s, !.pipe = Append(@, a)]
    BY <1>7
  <2> HIDE DEF a, s
  <2>4. IsNext(c, query[c], a, wire.srv[c].replies + 1, FALSE)
    BY <2>1 DEF IsNext
  <2>5. /\ Len(a.docs) = 0
        /\ \A j \in 1 .. Len(a.docs) : a.docs[j] = <<c, wire.srv[c].sent + j>>
    BY <2>1
  <2>6. s[c].sent = wire.srv[c].sent + Len(a.docs) /\ s[c].sent <= Total(c)
    BY <1>4, <2>2, <2>5 DEF ServerType
  <2>7. /\ s[c].pushing <=> a.more
        /\ s[c].open <=> a.more
        /\ a.kind = "batch" /\ ~a.more /\ ~query[c].tailable => s[c].sent = Total(c)
    BY <2>1, <2>2
  <2>8. s[c].replies = wire.srv[c].replies + 1 /\ \A d \in Cursor \ {c} : s[d] = wire.srv[d]
    BY <2>2
  <2>9. a \in ReplyType /\ s \in [Cursor -> ServerType]
    BY <2>1, <2>2
  <2>10. QED BY <1>5, <2>3, <2>4, <2>5, <2>6, <2>7, <2>8, <2>9, Zenon
<1>8. QED BY <1>6, <1>7 DEF Push

LEMMA PlainIs == Plain \in ReplyType /\ Plain # None /\ Plain.kind = "ok"
<1>1. <<>> \in Seq(Document)
  OBVIOUS
<1>2. Plain \in ReplyType
  BY <1>1 DEF Plain, ReplyType
<1>3. QED BY <1>2, NoneIsNothing DEF Plain

LEMMA PlainAnsweredIs ==
    ASSUME NEW w \in WireType, w.pipe = <<>>, NEW s \in [Cursor -> ServerType]
    PROVE  LET x == Answered(w, Plain, s, TRUE)
           IN x \in WireType /\ x.open /\ x.pipe = <<>> /\ x.answer # None /\ x.srv = s
<1>1. PICK command \in BOOLEAN : command = TRUE
  BY Zenon
<1>2. PICK a : a = Plain
  OBVIOUS
<1>3. a \in ReplyType /\ a # None /\ a.kind = "ok"
  BY <1>2, PlainIs
<1>4. PICK x : x = Answered(w, a, s, command)
  OBVIOUS
<1>5. x \in WireType /\ x.open /\ x.pipe = <<>> /\ x.answer = a /\ x.srv = s
  BY <1>3, <1>4, AnsweredIs
<1>6. x = Answered(w, Plain, s, TRUE)
  BY <1>1, <1>2, <1>4, Zenon
<1>7. QED BY <1>3, <1>5, <1>6

\* A command that is about no batch, on a stream with nothing in it.
LEMMA CommandsEnd ==
    ASSUME NEW w \in WireType, Quiet(w), NEW s \in [Cursor -> ServerType],
           \A d \in Cursor : ~s[d].pushing, NEW x \in Commands(w, s)
    PROVE  /\ x \in WireType /\ x.pipe = <<>>
           /\ \/ x \in Unsent(w, TRUE) /\ x.srv = w.srv
              \/ x.srv = s
<1>1. w.pipe = <<>> /\ w.srv \in [Cursor -> ServerType]
  BY DEF Quiet, WireType, ServerType
<1>2. x \in Unsent(w, TRUE) \/ x = Disconnected(s) \/ x = Answered(w, Plain, s, TRUE)
  BY Zenon DEF Commands
<1>3. CASE x \in Unsent(w, TRUE)
  <2>1. x = Disconnected(w.srv)
    BY <1>3 DEF Unsent
  <2>2. x \in WireType /\ x.pipe = <<>> /\ x.srv = Dropped(w.srv)
    BY <1>1, <2>1, StreamsAre
  <2>3. Dropped(w.srv) = w.srv
    <3>1. \A d \in Cursor : Dropped(w.srv)[d] = w.srv[d]
      BY <1>1, DroppedIs DEF Quiet
    <3>2. Dropped(w.srv) \in [Cursor -> ServerType]
      BY <1>1, DroppedIs
    <3>3. QED BY <1>1, <3>1, <3>2
  <2>4. QED BY <1>3, <2>2, <2>3
<1>4. CASE x = Disconnected(s)
  <2>1. x \in WireType /\ x.pipe = <<>> /\ x.srv = Dropped(s)
    BY <1>4, StreamsAre
  <2>2. \A d \in Cursor : Dropped(s)[d] = s[d]
    BY DroppedIs
  <2>3. Dropped(s) \in [Cursor -> ServerType]
    BY DroppedIs
  <2>4. Dropped(s) = s
    BY <2>2, <2>3
  <2>5. QED BY <2>1, <2>4
<1>5. CASE x = Answered(w, Plain, s, TRUE)
  BY <1>1, <1>5, PlainAnsweredIs
<1>6. QED BY <1>2, <1>3, <1>4, <1>5

LEMMA IdleIs ==
    ASSUME NEW w \in WireType
    PROVE  /\ Idle(w) \in WireType /\ Idle(w).answer = None
           /\ Idle(w).open = w.open /\ Idle(w).pipe = w.pipe /\ Idle(w).srv = w.srv
  BY DEF Idle, WireType

\* Without a cursor in exhaust the stream is at rest.
LEMMA StreamRests ==
    ASSUME Inv, ~InExhaust
    PROVE  Quiet(wire)
<1>1. \A d \in Cursor : ~cur[d].inExhaust
  BY DEF InExhaust
<1>2. \A d \in Cursor : ~wire.srv[d].pushing
  BY <1>1 DEF Inv, CursorsStand, Stands
<1>3. QED BY <1>2 DEF Inv, StreamFits, Quiet

\* Something that is about no cursor has come over the stream.
LEMMA StreamUseKeeps ==
    ASSUME Inv, ~InExhaust, UNCHANGED <<query, docs, cur, php, given, abandoned, mistaken>>,
           wire' \in WireType, wire'.answer = None, wire'.pipe = <<>>, wire'.srv = wire.srv
    PROVE  Inv'
<1>1. \A d \in Cursor : ~cur[d].inExhaust
  BY DEF InExhaust
<1>2. TypeOK'
  BY DEF Inv, TypeOK
<1>3. CursorsStand'
  <2>1. ASSUME NEW d \in Cursor
        PROVE  /\ php'[d].stage # "gone" =>
                     Stands(d, query'[d], Total(d)', cur'[d], wire', Len(given'[d]))
               /\ php'[d].stage = "gone" => ~cur'[d].inExhaust /\ ~wire'.srv[d].pushing
    <3>1. Total(d)' = Total(d)
      BY TotalsStay
    <3>2. php[d].stage # "gone" =>
              Stands(d, query[d], Total(d), cur[d], wire', Len(given[d]))
      BY <1>1, OthersStand DEF Inv, CursorsStand
    <3>3. QED BY <3>1, <3>2 DEF Inv, CursorsStand
  <2>2. QED BY <2>1 DEF CursorsStand
<1>4. StreamFits'
  BY <1>1 DEF Inv, StreamFits, InExhaust
<1>5. CallsFit' /\ GivenInOrder' /\ LimitRemains' /\ CommandsTakeTheirReplies' /\ NothingLeaks'
  BY DEF Inv, CallsFit, GivenInOrder, LimitRemains, CommandsTakeTheirReplies, NothingLeaks
<1>6. QED BY <1>2, <1>3, <1>4, <1>5 DEF Inv

LEMMA AppCommandKeeps ==
    ASSUME Inv, AppCommand
    PROVE  Inv'
<1>1. /\ ~InExhaust /\ Quiet(wire) /\ wire \in WireType /\ wire.pipe = <<>>
      /\ UNCHANGED <<query, docs, cur, php, given, abandoned>>
  BY StreamRests DEF AppCommand, Quiet, Inv, TypeOK
<1>2. PICK w \in Commands(wire, wire.srv) :
          /\ wire' = Idle(w)
          /\ mistaken' = (mistaken \/ (w.answer # None /\ wire.open /\ wire.pipe # <<>>))
  BY DEF AppCommand
<1>3. wire.srv \in [Cursor -> ServerType]
  BY <1>1 DEF WireType, ServerType
<1>4. w \in WireType /\ w.pipe = <<>> /\ w.srv = wire.srv
  BY <1>1, <1>2, <1>3, CommandsEnd DEF Quiet
<1>5. mistaken' = mistaken
  BY <1>1, <1>2 DEF Inv, TypeOK
<1>6. wire' \in WireType /\ wire'.answer = None /\ wire'.pipe = <<>> /\ wire'.srv = wire.srv
  BY <1>2, <1>4, IdleIs
<1>7. QED BY <1>1, <1>5, <1>6, StreamUseKeeps

LEMMA ScanKeeps ==
    ASSUME ~Scans, Inv, Scan
    PROVE  Inv'
<1>1. /\ ~InExhaust /\ Quiet(wire) /\ wire \in WireType /\ wire.pipe = <<>>
      /\ UNCHANGED <<query, docs, cur, php, given, abandoned, mistaken>>
  BY StreamRests DEF Scan, Quiet, Inv, TypeOK
<1>2. wire.srv \in [Cursor -> ServerType]
  BY <1>1 DEF WireType, ServerType
<1>3. PICK w \in Commands(wire, wire.srv) : wire' = w \/ wire' = Idle(w)
  BY DEF Scan, Commands
<1>4. w \in WireType /\ w.pipe = <<>> /\ w.srv = wire.srv
  BY <1>1, <1>2, <1>3, CommandsEnd DEF Quiet
<1>5. wire'.answer = None
  <2>1. Disconnected(wire.srv).answer = None
    BY <1>2, StreamsAre
  <2>2. wire' = Disconnected(wire.srv) \/ wire' = Idle(Answered(wire, Plain, wire.srv, TRUE))
    BY Zenon DEF Scan
  <2>3. Idle(Answered(wire, Plain, wire.srv, TRUE)).answer = None
    BY <1>1, <1>2, PlainAnsweredIs, IdleIs
  <2>4. QED BY <2>1, <2>2, <2>3
<1>6. wire' \in WireType /\ wire'.pipe = <<>> /\ wire'.srv = wire.srv
  BY <1>3, <1>4, IdleIs
<1>7. QED BY <1>1, <1>5, <1>6, StreamUseKeeps

-----------------------------------------------------------------------------
(* Calls of the application.                                               *)

Alone(c) == \A d \in Cursor \ {c} : ~cur[d].inExhaust

\* The cursor u, the stream w and the document that may be put in the place of what there is.
Fits(c, u, w, doc) ==
    /\ u \in CursorType /\ w \in WireType /\ doc \in Document \cup {None}
    /\ doc # None => doc = <<c, Len(given[c]) + 1>>
    /\ Follow(c, u, After(doc, Len(given[c])))
    /\ \A d \in Cursor \ {c} : w.srv[d] = wire.srv[d]
    /\ ~w.open => w.pipe = <<>>
    /\ u.inExhaust => Alone(c)
    /\ u.inExhaust /\ u.error # "none" => w.pipe = <<>>
    /\ u.inExhaust /\ u.done => ~u.id \/ u.error # "none"
    /\ ~Alone(c) => w.open = wire.open /\ w.pipe = wire.pipe /\ w.srv = wire.srv
    /\ Alone(c) /\ ~u.inExhaust => w.pipe = <<>>

\* A cursor that is not in exhaust, whatever else has changed on the stream.
LEMMA SameStreamStands ==
    ASSUME NEW d, NEW q, NEW t, NEW u, NEW w, NEW x, NEW n, Stands(d, q, t, u, w, n),
           x.srv = w.srv, x.open = w.open, x.pipe = w.pipe
    PROVE  Stands(d, q, t, u, x, n)
<1>1. Works(d, q, t, u, w, n) => Works(d, q, t, u, x, n)
  BY Zenon DEF Works, Flows, Rests
<1>2. QED BY <1>1 DEF Stands, Unused

LEMMA BecomingIs ==
    ASSUME Inv, NEW c \in Cursor, NEW u, NEW w, NEW doc, Fits(c, u, w, doc),
           Became(c, u, w, doc)
    PROVE  /\ cur' \in [Cursor -> CursorType] /\ given' \in [Cursor -> Seq(Document)]
           /\ wire' \in WireType /\ wire'.answer = None
           /\ wire'.open = w.open /\ wire'.pipe = w.pipe /\ wire'.srv = w.srv
           /\ cur'[c] = u /\ Len(given'[c]) = After(doc, Len(given[c]))
           /\ \A d \in Cursor \ {c} : cur'[d] = cur[d] /\ given'[d] = given[d]
           /\ GivenInOrder'
<1>1. /\ u \in CursorType /\ w \in WireType /\ doc \in Document \cup {None}
      /\ doc # None => doc = <<c, Len(given[c]) + 1>>
  BY DEF Fits
<1>2. /\ cur \in [Cursor -> CursorType] /\ given \in [Cursor -> Seq(Document)]
      /\ cur' = [cur EXCEPT ![c] = u] /\ wire' = Idle(w)
  BY DEF Inv, TypeOK, Became
<1>3. /\ wire' \in WireType /\ wire'.answer = None
      /\ wire'.open = w.open /\ wire'.pipe = w.pipe /\ wire'.srv = w.srv
  BY <1>1, <1>2, IdleIs
<1>4. /\ cur' \in [Cursor -> CursorType] /\ cur'[c] = u
      /\ \A d \in Cursor \ {c} : cur'[d] = cur[d]
  BY <1>1, <1>2
<1>5. \A d \in Cursor : \A i \in 1 .. Len(given[d]) : given[d][i] = <<d, i>>
  BY <1>2 DEF Inv, GivenInOrder
<1>6. CASE doc = None
  <2>1. given' = given
    BY <1>6 DEF Became
  <2>2. QED BY <1>2, <1>3, <1>4, <1>6, <2>1 DEF After, Inv, GivenInOrder
<1>7. CASE doc # None
  <2>1. given' = [given EXCEPT ![c] = Append(given[c], doc)] /\ doc \in Document
    BY <1>1, <1>7 DEF Became
  <2>2. given[c] \in Seq(Document) /\ Len(given[c]) \in Nat
    BY <1>2
  <2>3. /\ Append(given[c], doc) \in Seq(Document)
        /\ Len(Append(given[c], doc)) = Len(given[c]) + 1
        /\ Append(given[c], doc)[Len(given[c]) + 1] = doc
        /\ \A i \in 1 .. Len(given[c]) : Append(given[c], doc)[i] = given[c][i]
    BY <2>1, <2>2
  <2>4. /\ given' \in [Cursor -> Seq(Document)] /\ given'[c] = Append(given[c], doc)
        /\ \A d \in Cursor \ {c} : given'[d] = given[d]
    BY <1>2, <2>1, <2>3
  <2>5. \A i \in 1 .. Len(given[c]) + 1 : given'[c][i] = <<c, i>>
    BY <1>1, <1>5, <1>7, <2>2, <2>3, <2>4
  <2>6. GivenInOrder'
    <3>1. ASSUME NEW d \in Cursor, NEW i \in DOMAIN given'[d]
          PROVE  given'[d][i] = <<d, i>>
      <4>1. CASE d = c
        BY <2>3, <2>4, <2>5, <4>1
      <4>2. CASE d # c
        BY <1>5, <2>4, <4>2
      <4>3. QED BY <4>1, <4>2
    <3>2. QED BY <3>1 DEF GivenInOrder
  <2>7. QED BY <1>3, <1>4, <1>7, <2>3, <2>4, <2>6 DEF After
<1>8. QED BY <1>6, <1>7

\* What it leaves of the invariant to be shown is about the cursor itself.
LEMMA BecomingKeeps ==
    ASSUME Inv, NEW c \in Cursor, NEW u, NEW w, NEW doc, Fits(c, u, w, doc),
           Became(c, u, w, doc), UNCHANGED <<query, docs>>
    PROVE  /\ \A d \in Cursor : \A i \in DOMAIN cur'[d].buffer :
                 cur'[d].buffer[i] = <<d, Len(given'[d]) + i>>
           /\ StreamFits'
           /\ \A d \in Cursor \ {c} :
                 /\ php[d].stage # "gone" =>
                       Stands(d, query'[d], Total(d)', cur'[d], wire', Len(given'[d]))
                 /\ php[d].stage = "gone" => ~cur'[d].inExhaust /\ ~wire'.srv[d].pushing
<1>1. /\ cur' \in [Cursor -> CursorType] /\ given' \in [Cursor -> Seq(Document)]
      /\ wire' \in WireType /\ wire'.answer = None
      /\ wire'.open = w.open /\ wire'.pipe = w.pipe /\ wire'.srv = w.srv
      /\ cur'[c] = u /\ Len(given'[c]) = After(doc, Len(given[c]))
      /\ \A d \in Cursor \ {c} : cur'[d] = cur[d] /\ given'[d] = given[d]
  BY BecomingIs
<1>2. \A d \in Cursor : \A i \in DOMAIN cur'[d].buffer :
          cur'[d].buffer[i] = <<d, Len(given'[d]) + i>>
  <2>1. ASSUME NEW d \in Cursor, NEW i \in DOMAIN cur'[d].buffer
        PROVE  cur'[d].buffer[i] = <<d, Len(given'[d]) + i>>
    <3>1. CASE d = c
      BY <1>1, <3>1 DEF Fits, Follow
    <3>2. CASE d # c
      BY <1>1, <3>2 DEF Inv, TypeOK
    <3>3. QED BY <3>1, <3>2
  <2>2. QED BY <2>1
<1>3. StreamFits'
  <2>1. ~wire'.open => wire'.pipe = <<>>
    BY <1>1 DEF Fits
  <2>2. ASSUME \A d \in Cursor : ~cur'[d].inExhaust
        PROVE  wire'.pipe = <<>>
    <3>1. Alone(c) /\ ~u.inExhaust
      BY <1>1, <2>2 DEF Alone
    <3>2. QED BY <1>1, <3>1 DEF Fits
  <2>3. ASSUME NEW d \in Cursor, NEW e \in Cursor, cur'[d].inExhaust, cur'[e].inExhaust
        PROVE  d = e
    <3>1. d # c /\ e # c => d = e
      BY <1>1, <2>3 DEF Inv, StreamFits
    <3>2. u.inExhaust => Alone(c)
      BY DEF Fits
    <3>3. QED BY <1>1, <2>3, <3>1, <3>2 DEF Alone
  <2>4. ASSUME NEW d \in Cursor, cur'[d].inExhaust
        PROVE  /\ cur'[d].error # "none" => wire'.pipe = <<>>
               /\ cur'[d].done => ~cur'[d].id \/ cur'[d].error # "none"
    <3>1. CASE d = c
      BY <1>1, <2>4, <3>1 DEF Fits
    <3>2. CASE d # c
      <4>1. cur'[d] = cur[d] /\ cur[d].inExhaust
        BY <1>1, <2>4, <3>2
      <4>2. ~Alone(c)
        BY <3>2, <4>1 DEF Alone
      <4>3. wire'.pipe = wire.pipe
        BY <1>1, <4>2 DEF Fits
      <4>4. QED BY <4>1, <4>3 DEF Inv, StreamFits
    <3>3. QED BY <3>1, <3>2
  <2>5. QED BY <1>1, <2>1, <2>2, <2>3, <2>4 DEF StreamFits, InExhaust
<1>4. ASSUME NEW d \in Cursor \ {c}
      PROVE  /\ php[d].stage # "gone" =>
                   Stands(d, query'[d], Total(d)', cur'[d], wire', Len(given'[d]))
             /\ php[d].stage = "gone" => ~cur'[d].inExhaust /\ ~wire'.srv[d].pushing
  <2>1. Total(d)' = Total(d) /\ query'[d] = query[d]
    BY TotalsStay
  <2>2. cur'[d] = cur[d] /\ given'[d] = given[d] /\ wire'.srv[d] = wire.srv[d]
    BY <1>1 DEF Fits
  <2>3. php[d].stage # "gone" => Stands(d, query[d], Total(d), cur[d], wire', Len(given[d]))
    <3>1. CASE cur[d].inExhaust
      <4>1. ~Alone(c)
        BY <3>1 DEF Alone
      <4>2. wire'.open = wire.open /\ wire'.pipe = wire.pipe /\ wire'.srv = wire.srv
        BY <1>1, <4>1 DEF Fits
      <4>3. QED BY <4>2, SameStreamStands DEF Inv, CursorsStand
    <3>2. CASE ~cur[d].inExhaust
      BY <2>2, <3>2, OthersStand DEF Inv, CursorsStand
    <3>3. QED BY <3>1, <3>2
  <2>4. QED BY <2>1, <2>2, <2>3 DEF Inv, CursorsStand
<1>5. QED BY <1>2, <1>3, <1>4

\* The cursor that the application has.
LEMMA HeldIs ==
    ASSUME Inv, NEW c \in Cursor, php[c].stage # "gone"
    PROVE  /\ Asked /\ cur[c] \in CursorType /\ wire \in WireType /\ Len(given[c]) \in Nat
           /\ Stands(c, query[c], Total(c), cur[c], wire, Len(given[c]))
           /\ Follow(c, cur[c], Len(given[c]))
           /\ \A d \in Cursor : wire.srv[d].pushing => cur[d].inExhaust
           /\ InExhaust /\ ~cur[c].inExhaust <=> ~Alone(c) /\ ~cur[c].inExhaust
           /\ Alone(c) /\ ~cur[c].inExhaust => wire.pipe = <<>>
           /\ cur[c].inExhaust => Alone(c)
<1>1. /\ Asked /\ cur[c] \in CursorType /\ wire \in WireType /\ Len(given[c]) \in Nat
      /\ Follow(c, cur[c], Len(given[c]))
  BY DEF Inv, TypeOK, Asked, Follow
<1>2. Stands(c, query[c], Total(c), cur[c], wire, Len(given[c]))
  BY DEF Inv, CursorsStand
<1>3. \A d \in Cursor : wire.srv[d].pushing => cur[d].inExhaust
  BY DEF Inv, CursorsStand, Stands
<1>4. InExhaust /\ ~cur[c].inExhaust <=> ~Alone(c) /\ ~cur[c].inExhaust
  BY DEF InExhaust, Alone
<1>5. Alone(c) /\ ~cur[c].inExhaust => wire.pipe = <<>>
  BY <1>4 DEF Inv, StreamFits
<1>6. cur[c].inExhaust => Alone(c)
  BY DEF Inv, StreamFits, Alone
<1>7. QED BY <1>1, <1>2, <1>3, <1>4, <1>5, <1>6

LEMMA HeldFits ==
    ASSUME Inv, NEW c \in Cursor, php[c].stage # "gone"
    PROVE  Fits(c, cur[c], wire, None)
<1>1. /\ cur[c] \in CursorType /\ wire \in WireType
      /\ Follow(c, cur[c], Len(given[c]))
      /\ Alone(c) /\ ~cur[c].inExhaust => wire.pipe = <<>>
      /\ cur[c].inExhaust => Alone(c)
  BY HeldIs
<1>2. /\ ~wire.open => wire.pipe = <<>>
      /\ cur[c].inExhaust /\ cur[c].error # "none" => wire.pipe = <<>>
      /\ cur[c].inExhaust /\ cur[c].done => ~cur[c].id \/ cur[c].error # "none"
  BY DEF Inv, StreamFits
<1>3. QED BY <1>1, <1>2 DEF Fits, After

LEMMA HeldIsCallable ==
    ASSUME Inv, NEW c \in Cursor, php[c].stage # "gone", Objection(c) = "none"
    PROVE  Callable(c, Len(given[c])) /\ Alone(c)
<1>1. /\ cur[c] \in CursorType /\ wire \in WireType /\ Len(given[c]) \in Nat
      /\ Stands(c, query[c], Total(c), cur[c], wire, Len(given[c]))
      /\ Follow(c, cur[c], Len(given[c]))
      /\ \A d \in Cursor : wire.srv[d].pushing => cur[d].inExhaust
      /\ InExhaust /\ ~cur[c].inExhaust <=> ~Alone(c) /\ ~cur[c].inExhaust
      /\ Alone(c) /\ ~cur[c].inExhaust => wire.pipe = <<>>
      /\ cur[c].inExhaust => Alone(c)
  BY HeldIs
<1>2. cur[c].error = "none" /\ ~cur[c].done /\ ~(InExhaust /\ ~cur[c].inExhaust)
  <2>1. cur[c].error = "none"
    BY Zenon DEF Objection
  <2>2. ~cur[c].done
    <3>1. SUFFICES ASSUME cur[c].done PROVE FALSE
      OBVIOUS
    <3>2. Objection(c) = "completed"
      BY <2>1, <3>1 DEF Objection
    <3>3. QED BY <3>2
  <2>3. ~(InExhaust /\ ~cur[c].inExhaust)
    <3>1. SUFFICES ASSUME InExhaust /\ ~cur[c].inExhaust PROVE FALSE
      OBVIOUS
    <3>2. Objection(c) = "inExhaust"
      BY <2>1, <2>2, <3>1 DEF Objection
    <3>3. QED BY <3>2
  <2>4. QED BY <2>1, <2>2, <2>3
<1>3. Alone(c)
  BY <1>1, <1>2
<1>4. \A d \in Cursor \ {c} : ~wire.srv[d].pushing
  BY <1>1, <1>3 DEF Alone
<1>5. ~wire.open => wire.pipe = <<>>
  BY DEF Inv, StreamFits
<1>6. Sound(c, cur[c], wire, Len(given[c]))
  BY <1>1, <1>2, <1>3, <1>4, <1>5 DEF Sound
<1>7. ~cur[c].sent => Quiet(wire)
  BY <1>1, <1>3, <1>4 DEF Quiet, Stands, Unused
<1>8. QED BY <1>2, <1>3, <1>6, <1>7 DEF Callable

LEMMA ObjectionsAre ==
    ASSUME NEW c \in Cursor, cur[c] \in CursorType, Objection(c) # "none"
    PROVE  /\ Objection(c) \in {"inExhaust", "completed", "failed", "aborted"}
           /\ Objection(c) = "aborted" => cur[c].error = "aborted"
           /\ cur[c].error # "none" \/ cur[c].done \/ (InExhaust /\ ~cur[c].inExhaust)
<1>1. CASE cur[c].error # "none"
  <2>1. Objection(c) = cur[c].error
    BY <1>1 DEF Objection
  <2>2. QED BY <1>1, <2>1 DEF CursorType
<1>2. CASE cur[c].error = "none" /\ cur[c].done
  <2>1. Objection(c) = "completed"
    BY <1>2 DEF Objection
  <2>2. QED BY <1>2, <2>1
<1>3. CASE cur[c].error = "none" /\ ~cur[c].done
  <2>1. Objection(c) = IF InExhaust /\ ~cur[c].inExhaust THEN "inExhaust" ELSE "none"
    BY <1>3 DEF Objection
  <2>2. QED BY <2>1
<1>4. QED BY <1>1, <1>2, <1>3

\* A call leaves things as they have to be.
LEMMA CallsFitIn ==
    ASSUME Inv, NEW c \in Cursor, php[c].stage # "gone", NEW r \in NextCalls(c)
    PROVE  /\ Fits(c, r.u, r.w, r.doc)
           /\ Stands(c, query[c], Total(c), r.u, r.w, After(r.doc, Len(given[c])))
           /\ r.u.error # "none" => r.doc = None
<1> DEFINE n == Len(given[c])
<1>1. /\ Asked /\ cur[c] \in CursorType /\ wire \in WireType /\ n \in Nat
      /\ Stands(c, query[c], Total(c), cur[c], wire, n)
      /\ Follow(c, cur[c], n)
      /\ InExhaust /\ ~cur[c].inExhaust <=> ~Alone(c) /\ ~cur[c].inExhaust
  BY HeldIs
<1>2. Fits(c, cur[c], wire, None)
  BY HeldFits
<1>3. \/ Refuses(c, r)
      \/ /\ Objection(c) = "none" /\ Returned(c, r, n)
         /\ r.u.count = cur[c].count + 1 /\ r.u.current = r.doc
  BY <1>1, HeldIsCallable, CallsReturn
<1>4. CASE Refuses(c, r)
  <2>1. r.u = [cur[c] EXCEPT !.error = Objection(c)] /\ r.w = wire /\ r.doc = None
    BY <1>4 DEF Refuses
  <2>2. /\ Objection(c) \in {"inExhaust", "completed", "failed", "aborted"}
        /\ cur[c].error # "none" \/ cur[c].done \/ (InExhaust /\ ~cur[c].inExhaust)
    BY <1>1, <1>4, ObjectionsAre DEF Refuses
  <2>3. /\ r.u \in CursorType /\ r.u.error = Objection(c) /\ r.u.error # "none"
        /\ r.u.sent = cur[c].sent /\ r.u.done = cur[c].done /\ r.u.id = cur[c].id
        /\ r.u.buffer = cur[c].buffer /\ r.u.replies = cur[c].replies
        /\ r.u.inExhaust = cur[c].inExhaust /\ r.u.count = cur[c].count
        /\ r.u.current = cur[c].current
    BY <1>1, <2>1, <2>2 DEF CursorType
  <2>4. ~wire.srv[c].pushing /\ (cur[c].inExhaust => wire.pipe = <<>>)
    <3>1. CASE cur[c].error # "none"
      BY <1>1, <1>2, <3>1 DEF Stands, Fits
    <3>2. CASE cur[c].error = "none" /\ cur[c].inExhaust
      <4>1. cur[c].done /\ ~cur[c].id
        BY <1>2, <2>2, <3>2 DEF Fits
      <4>2. cur[c].sent
        BY <1>1, <4>1 DEF Stands, Unused
      <4>3. Flows(c, query[c], Total(c), cur[c], wire, n)
        BY <1>1, <3>2, <4>2 DEF Stands, Works
      <4>4. QED BY <4>1, <4>3 DEF Flows
    <3>3. CASE ~cur[c].inExhaust
      BY <1>1, <3>3 DEF Stands
    <3>4. QED BY <3>1, <3>2, <3>3
  <2>5. Stands(c, query[c], Total(c), r.u, r.w, n)
    BY <1>1, <2>1, <2>3, <2>4 DEF Stands, Unused
  <2>6. Follow(c, r.u, n)
    BY <1>1, <2>3 DEF Follow
  <2>7. Fits(c, r.u, r.w, r.doc)
    BY <1>2, <2>1, <2>3, <2>4, <2>6 DEF Fits, After
  <2>8. QED BY <2>1, <2>5, <2>7 DEF After
<1>5. CASE Objection(c) = "none" /\ Returned(c, r, n)
  <2>1. Alone(c)
    BY <1>5, HeldIsCallable
  <2>2. /\ Sound(c, r.u, r.w, After(r.doc, n)) /\ r.doc \in Document \cup {None}
        /\ r.doc # None => r.doc = <<c, n + 1>> /\ r.u.error = "none"
        /\ \A d \in Cursor \ {c} : r.w.srv[d] = wire.srv[d]
        /\ r.u.inExhaust /\ r.u.done /\ r.u.error = "none" => ~r.u.id
    BY <1>5 DEF Returned
  <2>3. Fits(c, r.u, r.w, r.doc)
    BY <2>1, <2>2 DEF Fits, Sound
  <2>4. QED BY <2>2, <2>3 DEF Sound
<1>6. QED BY <1>3, <1>4, <1>5

LEMMA HeldCounts ==
    ASSUME Inv, NEW c \in Cursor, php[c].stage # "gone", cur[c].error = "none"
    PROVE  /\ Counts(c, query[c], cur[c], Len(given[c]))
           /\ ~cur[c].sent => cur[c].count = 0 /\ Len(given[c]) = 0
<1>1. php[c].stage \in {"new", "made"}
  BY DEF Inv, TypeOK
<1>2. Stands(c, query[c], Total(c), cur[c], wire, Len(given[c])) /\ query[c].limit \in Int
  BY HeldIs, QueriesAre DEF QueryType
<1>3. ~cur[c].sent => /\ cur[c].count = 0 /\ Len(given[c]) = 0 /\ cur[c].current = None
  BY <1>2 DEF Stands, Unused
<1>4. CASE ~cur[c].sent
  <2>1. 0 <= Magnitude(query[c].limit)
    BY <1>2 DEF Magnitude
  <2>2. QED BY <1>3, <1>4, <2>1 DEF Counts
<1>5. CASE cur[c].sent
  BY <1>1, <1>5 DEF Inv, CallsFit
<1>6. QED BY <1>4, <1>5

\* After a call that does not fail the count is right, and a limit is asserted in vain only by
\* a tailable cursor.
LEMMA CallsCount ==
    ASSUME Inv, NEW c \in Cursor, php[c].stage # "gone", NEW r \in NextCalls(c)
    PROVE  /\ r.u.error = "none" =>
                 /\ cur[c].error = "none" /\ r.u.sent
                 /\ r.u.count = cur[c].count + 1 /\ r.u.current = r.doc
                 /\ Counts(c, query[c], r.u, After(r.doc, Len(given[c])))
           /\ r.u.error = "aborted" => query[c].tailable /\ query[c].limit > 0
<1> DEFINE n == Len(given[c])
           q == query[c]
<1>1. /\ Asked /\ cur[c] \in CursorType /\ n \in Nat
      /\ Stands(c, q, Total(c), cur[c], wire, n)
  BY HeldIs
<1>2. \/ Refuses(c, r)
      \/ /\ Objection(c) = "none" /\ Returned(c, r, n)
         /\ r.u.count = cur[c].count + 1 /\ r.u.current = r.doc
  BY <1>1, HeldIsCallable, CallsReturn
<1>3. q.limit \in Int /\ cur[c].count \in Nat /\ cur[c].buffer \in Seq(Document)
  BY <1>1, QueriesAre DEF QueryType, CursorType
<1>4. CASE Refuses(c, r)
  <2>1. r.u.error = Objection(c) /\ Objection(c) # "none"
    BY <1>1, <1>4 DEF Refuses, CursorType
  <2>2. r.u.error = "aborted" => cur[c].error = "aborted"
    BY <1>1, <2>1, ObjectionsAre
  <2>3. QED BY <2>1, <2>2 DEF Inv, LimitRemains
<1>5. ASSUME Objection(c) = "none", Returned(c, r, n),
             r.u.count = cur[c].count + 1, r.u.current = r.doc
      PROVE  /\ r.u.error = "none" => Counts(c, q, r.u, After(r.doc, n))
             /\ r.u.error = "aborted" => q.tailable /\ q.limit > 0
             /\ cur[c].error = "none" /\ r.u.sent
  <2>1. cur[c].error = "none" /\ ~cur[c].done
    BY <1>5, HeldIsCallable DEF Callable
  <2>2. Counts(c, q, cur[c], n) /\ (~cur[c].sent => cur[c].count = 0 /\ n = 0)
    BY <2>1, HeldCounts
  <2>3. /\ n <= cur[c].count
        /\ q.kind \in {"query", "exhaust"} /\ q.limit # 0 => n <= Magnitude(q.limit)
        /\ ~q.tailable => cur[c].count = n \/ (~cur[c].id /\ cur[c].buffer = <<>> /\ cur[c].sent)
    BY <2>1, <2>2 DEF Counts
  <2>4. /\ r.doc # None => r.doc = <<c, n + 1>>
        /\ r.u.sent
        /\ r.u.error = "none" /\ r.doc = None /\ ~q.tailable =>
              r.u.done \/ (~r.u.id /\ r.u.buffer = <<>>)
        /\ r.doc # None /\ UsesOpQuery(c) /\ q.limit # 0 => cur[c].count < Magnitude(q.limit)
        /\ cur[c].sent /\ ~cur[c].id /\ cur[c].buffer = <<>> => r.doc = None
        /\ r.u.error = "aborted" =>
              Aborts(c) /\ q.kind = "find" /\ cur[c].sent /\ cur[c].id /\ cur[c].buffer = <<>>
    BY <1>5 DEF Returned
  <2>5. Magnitude(q.limit) \in Nat
    BY <1>3 DEF Magnitude
  <2>6. ASSUME r.u.error = "none" PROVE Counts(c, q, r.u, After(r.doc, n))
    <3> HIDE DEF n, q
    <3>1. CASE r.doc = None
      <4>1. n <= cur[c].count + 1
        BY <1>1, <1>3, <2>3
      <4>2. ~q.tailable => r.u.done \/ (~r.u.id /\ r.u.buffer = <<>>)
        BY <2>4, <2>6, <3>1
      <4>3. QED BY <1>5, <2>3, <3>1, <4>1, <4>2 DEF Counts, After
    <3>2. CASE r.doc # None
      <4>1. n + 1 <= cur[c].count + 1 /\ n + 1 > 0
        BY <1>1, <1>3, <2>3
      <4>2. q.kind \in {"query", "exhaust"} /\ q.limit # 0 => n + 1 <= Magnitude(q.limit)
        <5>1. q.kind \in {"query", "exhaust"} /\ q.limit # 0 => cur[c].count < Magnitude(q.limit)
          BY <2>4, <3>2 DEF UsesOpQuery, q
        <5>2. QED BY <1>1, <1>3, <2>3, <2>5, <5>1
      <4>3. ~q.tailable => cur[c].count + 1 = n + 1
        BY <2>3, <2>4, <3>2
      <4>4. r.doc = <<c, n + 1>>
        BY <2>4, <3>2
      <4>5. QED BY <1>5, <3>2, <4>1, <4>2, <4>3, <4>4 DEF Counts, After
    <3>3. QED BY <3>1, <3>2
  <2>7. ASSUME r.u.error = "aborted" PROVE q.tailable /\ q.limit > 0
    <3>1. /\ Aborts(c) /\ q.kind = "find" /\ cur[c].sent /\ cur[c].id /\ cur[c].buffer = <<>>
      BY <2>4, <2>7
    <3>2. q.limit > 0 /\ q.limit <= cur[c].count
      BY <3>1 DEF Aborts
    <3>3. Works(c, q, Total(c), cur[c], wire, n)
      BY <1>1, <2>1, <3>1 DEF Stands
    <3>4. Rests(c, cur[c], wire, n) /\ wire.srv[c].sent < Magnitude(q.limit)
      BY <1>3, <3>1, <3>2, <3>3 DEF Works
    <3>5. Len(cur[c].buffer) = 0
      BY <3>1
    <3>6. wire.srv[c].sent = n
      BY <1>1, <3>4, <3>5 DEF Rests
    <3>7. n < q.limit
      BY <1>3, <3>2, <3>4, <3>6 DEF Magnitude
    <3>8. cur[c].count # n
      BY <1>1, <1>3, <3>2, <3>7
    <3>9. QED BY <2>3, <3>1, <3>2, <3>8
  <2>8. QED BY <2>1, <2>4, <2>6, <2>7
<1>6. QED BY <1>2, <1>4, <1>5

\* What is left of the stream x when a cursor has been destroyed.
LEMMA LeavingFits ==
    ASSUME NEW c \in Cursor, NEW u, NEW w, Fits(c, u, w, None), NEW x \in WireType,
           \A d \in Cursor \ {c} : x.srv[d] = w.srv[d],
           ~x.open => x.pipe = <<>>, Alone(c) => x.pipe = <<>>,
           ~Alone(c) => x.open = w.open /\ x.pipe = w.pipe /\ x.srv = w.srv
    PROVE  Fits(c, [u EXCEPT !.inExhaust = FALSE], x, None)
<1>1. PICK v : v = [u EXCEPT !.inExhaust = FALSE]
  OBVIOUS
<1>2. /\ v \in CursorType /\ ~v.inExhaust /\ v.buffer = u.buffer
  BY <1>1 DEF Fits, CursorType
<1>3. Fits(c, v, x, None)
  BY <1>2 DEF Fits, Follow
<1>4. QED BY <1>1, <1>3

\* The server closes a cursor whose replies were all read, unless it is not told.
Ends(c, u, d) ==
    /\ Fits(c, [u EXCEPT !.inExhaust = FALSE], d.w, None)
    /\ ~d.w.srv[c].pushing /\ d.told \in BOOLEAN
    /\ d.w.srv[c].open /\ d.w.srv[c].replies = u.replies => ~d.told

LEMMA DestroyingInExhaustEnds ==
    ASSUME Inv, NEW c \in Cursor, php[c].stage # "gone", NEW u, NEW w, Fits(c, u, w, None),
           Stands(c, query[c], Total(c), u, w, Len(given[c])), u.inExhaust,
           NEW d \in Destroys(c, u, w)
    PROVE  Ends(c, u, d)
<1>1. d = [w |-> IF u.done THEN w ELSE Disconnected(w.srv), told |-> TRUE]
  BY Zenon DEF Destroys
<1>2. Alone(c) /\ w \in WireType /\ w.srv \in [Cursor -> ServerType]
  BY DEF Fits, WireType, ServerType
<1>3. /\ query[c].kind = "exhaust"
      /\ w.srv[c].open <=> w.srv[c].pushing
  BY DEF Stands
<1>4. \A e \in Cursor \ {c} : ~w.srv[e].pushing
  BY <1>2, HeldIs DEF Alone, Fits
<1>5. CASE u.done
  <2>1. d.w = w /\ d.told = TRUE
    BY <1>1, <1>5
  <2>2. w.pipe = <<>> /\ ~w.srv[c].pushing
    <3>1. CASE u.error # "none"
      BY <3>1 DEF Fits, Stands
    <3>2. CASE u.error = "none"
      <4>1. ~u.id
        BY <1>5, <3>2 DEF Fits
      <4>2. u.sent
        BY <1>5 DEF Stands, Unused
      <4>3. Flows(c, query[c], Total(c), u, w, Len(given[c]))
        BY <3>2, <4>2 DEF Stands, Works
      <4>4. QED BY <4>1, <4>3 DEF Flows
    <3>3. QED BY <3>1, <3>2
  <2>3. Fits(c, [u EXCEPT !.inExhaust = FALSE], w, None)
    BY <1>2, <2>2, LeavingFits
  <2>4. QED BY <1>3, <2>1, <2>2, <2>3 DEF Ends
<1>6. CASE ~u.done
  <2>1. d.w = Disconnected(w.srv) /\ d.told = TRUE
    BY <1>1, <1>6
  <2>2. /\ d.w \in WireType /\ ~d.w.open /\ d.w.pipe = <<>> /\ d.w.srv = Dropped(w.srv)
    BY <1>2, <2>1, StreamsAre
  <2>3. /\ \A e \in Cursor \ {c} : d.w.srv[e] = w.srv[e]
        /\ ~d.w.srv[c].pushing /\ ~d.w.srv[c].open
    <3>1. /\ Dropped(w.srv)[c].open <=> w.srv[c].open /\ ~w.srv[c].pushing
          /\ ~Dropped(w.srv)[c].pushing
          /\ \A e \in Cursor \ {c} : Dropped(w.srv)[e] = w.srv[e]
      BY <1>2, <1>4, DroppedIs
    <3>2. QED BY <1>3, <2>2, <3>1
  <2>4. Fits(c, [u EXCEPT !.inExhaust = FALSE], d.w, None)
    BY <1>2, <2>2, <2>3, LeavingFits
  <2>5. QED BY <2>1, <2>3, <2>4 DEF Ends
<1>7. QED BY <1>5, <1>6

LEMMA DestroyingEnds ==
    ASSUME Inv, NEW c \in Cursor, php[c].stage # "gone", NEW u, NEW w, Fits(c, u, w, None),
           Stands(c, query[c], Total(c), u, w, Len(given[c])), ~u.inExhaust,
           NEW d \in Destroys(c, u, w)
    PROVE  Ends(c, u, d)
<1>1. /\ w \in WireType /\ w.srv \in [Cursor -> ServerType] /\ u \in CursorType
      /\ ~w.open => w.pipe = <<>>
      /\ Alone(c) => w.pipe = <<>>
  BY DEF Fits, WireType, ServerType
<1>2. /\ ~w.srv[c].pushing /\ w.srv[c].sent <= Total(c)
      /\ query[c].kind = "exhaust" => ~w.srv[c].open
      /\ w.srv[c].open /\ w.srv[c].replies = u.replies => u.id
  BY DEF Stands
<1>3. Fits(c, [u EXCEPT !.inExhaust = FALSE], w, None)
  BY <1>1, LeavingFits
<1> DEFINE closed == [w.srv EXCEPT ![c].open = FALSE]
           find == query[c].kind = "find"
<1>4. CASE ~u.id
  <2>1. d = [w |-> w, told |-> TRUE]
    BY <1>4, Zenon DEF Destroys
  <2>2. QED BY <1>2, <1>3, <1>4, <2>1 DEF Ends
<1>5. CASE u.id /\ (~w.open \/ InExhaust)
  <2>1. d = [w |-> w, told |-> FALSE]
    BY <1>5, Zenon DEF Destroys
  <2>2. QED BY <1>2, <1>3, <2>1 DEF Ends
<1>6. CASE u.id /\ w.open /\ ~InExhaust
  <2>1. Alone(c)
    BY <1>6 DEF Alone, InExhaust
  <2>2. Quiet(w)
    <3>1. \A e \in Cursor \ {c} : ~w.srv[e].pushing
      BY <2>1, HeldIs DEF Alone, Fits
    <3>2. QED BY <1>1, <1>2, <2>1, <3>1 DEF Quiet
  <2>3. /\ closed \in [Cursor -> ServerType] /\ ~closed[c].open
        /\ \A e \in Cursor \ {c} : closed[e] = w.srv[e]
        /\ \A e \in Cursor : ~closed[e].pushing
    BY <1>1, <2>2 DEF ServerType, Quiet
  <2>4. PICK command \in BOOLEAN : command = (query[c].kind = "find")
    BY Zenon
  <2>5. \/ d.told = FALSE /\ d.w \in Unsent(w, command)
        \/ d.told = TRUE /\ d.w \notin Unsent(w, command) /\ command /\ d.w \in Commands(w, closed)
        \/ d.told = TRUE /\ ~command /\ d.w = [w EXCEPT !.srv = closed]
    <3> DEFINE unsent == Unsent(w, query[c].kind = "find")
               sent == IF query[c].kind = "find" THEN Commands(w, closed) \ unsent
                                                 ELSE {[w EXCEPT !.srv = closed]}
    <3>1. d \in {[w |-> x, told |-> TRUE] : x \in sent}
               \cup {[w |-> x, told |-> FALSE] : x \in unsent}
      BY <1>6, Zenon DEF Destroys
    <3>2. unsent = Unsent(w, command)
      BY <2>4, Zenon
    <3> HIDE DEF unsent, closed
    <3>3. CASE d \in {[w |-> x, told |-> FALSE] : x \in unsent}
      BY <3>2, <3>3
    <3>4. ASSUME NEW x \in sent, d = [w |-> x, told |-> TRUE]
          PROVE  /\ d.told = TRUE
                 /\ \/ d.w \notin Unsent(w, command) /\ command /\ d.w \in Commands(w, closed)
                    \/ ~command /\ d.w = [w EXCEPT !.srv = closed]
      BY <2>4, <3>2, <3>4
    <3>5. QED BY <3>1, <3>3, <3>4
  <2> HIDE DEF closed
  <2>6. CASE d.told = FALSE /\ d.w \in Unsent(w, command)
    <3>1. Kept(c, w, d.w) /\ Lost(c, w, d.w)
      BY <1>1, <1>2, <2>2, <2>6, UnsentIs
    <3>2. /\ d.w \in WireType /\ d.w.pipe = <<>> /\ ~d.w.srv[c].pushing
          /\ \A e \in Cursor \ {c} : d.w.srv[e] = w.srv[e]
      BY <3>1 DEF Kept, Lost
    <3>3. Fits(c, [u EXCEPT !.inExhaust = FALSE], d.w, None)
      BY <2>1, <3>2, LeavingFits
    <3>4. QED BY <2>6, <3>2, <3>3 DEF Ends
  <2>7. CASE d.told = TRUE /\ (d.w \in WireType /\ d.w.pipe = <<>> /\ d.w.srv = closed)
    <3>1. /\ \A e \in Cursor \ {c} : d.w.srv[e] = w.srv[e]
          /\ ~d.w.srv[c].pushing /\ ~d.w.srv[c].open
      BY <2>3, <2>7
    <3>2. Fits(c, [u EXCEPT !.inExhaust = FALSE], d.w, None)
      BY <2>1, <2>7, <3>1, LeavingFits
    <3>3. QED BY <2>7, <3>1, <3>2 DEF Ends
  <2>8. ASSUME d.w \notin Unsent(w, command), command, d.w \in Commands(w, closed)
        PROVE  d.w \in WireType /\ d.w.pipe = <<>> /\ d.w.srv = closed
    <3>1. Unsent(w, command) = Unsent(w, TRUE)
      <4>1. command = TRUE
        BY <2>8
      <4>2. QED BY <4>1, Zenon
    <3>2. /\ d.w \in WireType /\ d.w.pipe = <<>>
          /\ d.w \in Unsent(w, TRUE) \/ d.w.srv = closed
      BY <1>1, <2>2, <2>3, <2>8, CommandsEnd
    <3>3. QED BY <2>8, <3>1, <3>2
  <2>9. ASSUME d.w = [w EXCEPT !.srv = closed]
        PROVE  d.w \in WireType /\ d.w.pipe = <<>> /\ d.w.srv = closed
    BY <1>1, <2>1, <2>3, <2>9 DEF WireType, ServerType
  <2>10. QED BY <2>5, <2>6, <2>7, <2>8, <2>9
<1>7. QED BY <1>4, <1>5, <1>6

\* The application keeps the cursor.
LEMMA KeepingKeeps ==
    ASSUME Inv, NEW c \in Cursor, php[c].stage # "gone", NEW r \in NextCalls(c),
           Became(c, r.u, r.w, r.doc), UNCHANGED <<query, docs, abandoned, mistaken>>,
           NEW p \in PhpType, php' = [php EXCEPT ![c] = p], p.stage = "made",
           p.child = None \/ p.child = r.doc,
           r.u.error = "none" => cur[c].count = p.key
    PROVE  Inv'
<1>1. /\ Fits(c, r.u, r.w, r.doc)
      /\ Stands(c, query[c], Total(c), r.u, r.w, After(r.doc, Len(given[c])))
  BY CallsFitIn
<1>2. /\ r.u.error = "none" =>
            /\ cur[c].error = "none" /\ r.u.sent
            /\ r.u.count = cur[c].count + 1 /\ r.u.current = r.doc
            /\ Counts(c, query[c], r.u, After(r.doc, Len(given[c])))
      /\ r.u.error = "aborted" => query[c].tailable /\ query[c].limit > 0
  BY CallsCount
<1>3. /\ cur' \in [Cursor -> CursorType] /\ given' \in [Cursor -> Seq(Document)]
      /\ wire' \in WireType
      /\ wire'.open = r.w.open /\ wire'.pipe = r.w.pipe /\ wire'.srv = r.w.srv
      /\ cur'[c] = r.u /\ Len(given'[c]) = After(r.doc, Len(given[c]))
      /\ \A d \in Cursor \ {c} : cur'[d] = cur[d] /\ given'[d] = given[d]
      /\ GivenInOrder'
  BY <1>1, BecomingIs
<1>4. /\ \A d \in Cursor : \A i \in DOMAIN cur'[d].buffer :
            cur'[d].buffer[i] = <<d, Len(given'[d]) + i>>
      /\ StreamFits'
      /\ \A d \in Cursor \ {c} :
            /\ php[d].stage # "gone" =>
                  Stands(d, query'[d], Total(d)', cur'[d], wire', Len(given'[d]))
            /\ php[d].stage = "gone" => ~cur'[d].inExhaust /\ ~wire'.srv[d].pushing
  BY <1>1, BecomingKeeps
<1>5. /\ php' \in [Cursor -> PhpType] /\ php'[c] = p
      /\ \A d \in Cursor \ {c} : php'[d] = php[d]
  BY DEF Inv, TypeOK, PhpType
<1>6. TypeOK'
  BY <1>3, <1>4, <1>5 DEF Inv, TypeOK, PhpType
<1>7. CursorsStand'
  <2>1. ASSUME NEW d \in Cursor
        PROVE  /\ php'[d].stage # "gone" =>
                     Stands(d, query'[d], Total(d)', cur'[d], wire', Len(given'[d]))
               /\ php'[d].stage = "gone" => ~cur'[d].inExhaust /\ ~wire'.srv[d].pushing
    <3>1. CASE d = c
      <4>1. Total(c)' = Total(c) /\ query'[c] = query[c]
        BY TotalsStay
      <4>2. Stands(c, query[c], Total(c), r.u, wire', After(r.doc, Len(given[c])))
        BY <1>1, <1>3, SameStreamStands
      <4>3. QED BY <1>3, <1>5, <3>1, <4>1, <4>2
    <3>2. CASE d # c
      BY <1>4, <1>5, <3>2
    <3>3. QED BY <3>1, <3>2
  <2>2. QED BY <2>1 DEF CursorsStand
<1>8. CallsFit'
  <2>1. ASSUME NEW d \in Cursor
        PROVE  /\ php'[d].stage = "new" => ~cur'[d].sent /\ cur'[d].error = "none" /\ php'[d].key = 0
               /\ php'[d].stage = "made" /\ cur'[d].error = "none" =>
                     /\ cur'[d].sent
                     /\ Counts(d, query'[d], cur'[d], Len(given'[d]))
                     /\ cur'[d].count = php'[d].key + 1
                     /\ php'[d].child \in {None, cur'[d].current}
               /\ php'[d].stage # "made" => php'[d].child = None
    <3>1. CASE d = c
      BY <1>2, <1>3, <1>5, <3>1
    <3>2. CASE d # c
      BY <1>3, <1>5, <3>2 DEF Inv, CallsFit
    <3>3. QED BY <3>1, <3>2
  <2>2. QED BY <2>1 DEF CallsFit
<1>9. LimitRemains'
  BY <1>2, <1>3 DEF Inv, LimitRemains
<1>10. CommandsTakeTheirReplies'
  BY DEF Inv, CommandsTakeTheirReplies
<1>11. NothingLeaks'
  <2>1. ASSUME NEW d \in Cursor, php'[d].stage = "gone", wire'.srv[d].open,
               wire'.srv[d].replies = cur'[d].replies
        PROVE  d \in abandoned'
    <3>1. d # c /\ php[d].stage = "gone" /\ cur'[d] = cur[d]
      BY <1>3, <1>5, <2>1
    <3>2. wire'.srv[d] = wire.srv[d]
      BY <1>1, <1>3, <3>1 DEF Fits
    <3>3. QED BY <2>1, <3>1, <3>2 DEF Inv, NothingLeaks
  <2>2. QED BY <2>1 DEF NothingLeaks
<1>12. QED BY <1>3, <1>4, <1>6, <1>7, <1>8, <1>9, <1>10, <1>11 DEF Inv

\* It lets it go.
LEMMA GoneKeeps ==
    ASSUME Inv, NEW c \in Cursor, php[c].stage # "gone", NEW u, NEW w, Fits(c, u, w, None),
           Stands(c, query[c], Total(c), u, w, Len(given[c])),
           u.error = "aborted" => query[c].tailable /\ query[c].limit > 0,
           Gone(c, u, w, None), UNCHANGED <<query, docs, mistaken>>
    PROVE  Inv'
<1>1. PICK d \in Destroys(c, u, w) :
          /\ Became(c, [u EXCEPT !.inExhaust = FALSE], d.w, None)
          /\ abandoned' = IF d.told THEN abandoned ELSE abandoned \cup {c}
          /\ php' = [php EXCEPT ![c].stage = "gone", ![c].child = None]
  BY Zenon DEF Gone
<1>2. Ends(c, u, d)
  BY DestroyingInExhaustEnds, DestroyingEnds
<1>3. PICK v : v = [u EXCEPT !.inExhaust = FALSE]
  OBVIOUS
<1>4. /\ Fits(c, v, d.w, None) /\ ~d.w.srv[c].pushing /\ d.told \in BOOLEAN
      /\ d.w.srv[c].open /\ d.w.srv[c].replies = u.replies => ~d.told
      /\ Became(c, v, d.w, None)
  BY <1>1, <1>2, <1>3 DEF Ends
<1>5. ~v.inExhaust /\ v.error = u.error /\ v.replies = u.replies
  BY <1>3 DEF Fits, CursorType
<1>6. /\ cur' \in [Cursor -> CursorType] /\ given' \in [Cursor -> Seq(Document)]
      /\ wire' \in WireType
      /\ wire'.open = d.w.open /\ wire'.pipe = d.w.pipe /\ wire'.srv = d.w.srv
      /\ cur'[c] = v
      /\ \A e \in Cursor \ {c} : cur'[e] = cur[e] /\ given'[e] = given[e]
      /\ GivenInOrder'
  BY <1>4, BecomingIs
<1>7. /\ \A e \in Cursor : \A i \in DOMAIN cur'[e].buffer :
            cur'[e].buffer[i] = <<e, Len(given'[e]) + i>>
      /\ StreamFits'
      /\ \A e \in Cursor \ {c} :
            /\ php[e].stage # "gone" =>
                  Stands(e, query'[e], Total(e)', cur'[e], wire', Len(given'[e]))
            /\ php[e].stage = "gone" => ~cur'[e].inExhaust /\ ~wire'.srv[e].pushing
  BY <1>4, BecomingKeeps
<1>8. /\ php' \in [Cursor -> PhpType] /\ php'[c].stage = "gone" /\ php'[c].child = None
      /\ \A e \in Cursor \ {c} : php'[e] = php[e]
  <2>1. php[c] \in PhpType /\ php \in [Cursor -> PhpType]
    BY DEF Inv, TypeOK, PhpType
  <2>2. PICK p : p = [php[c] EXCEPT !.stage = "gone", !.child = None]
    OBVIOUS
  <2>3. p \in PhpType /\ p.stage = "gone" /\ p.child = None
    BY <2>1, <2>2 DEF PhpType
  <2>4. php' = [php EXCEPT ![c] = p]
    BY <1>1, <2>1, <2>2
  <2>5. QED BY <2>1, <2>3, <2>4
<1>9. abandoned' \subseteq Cursor /\ abandoned \subseteq abandoned'
  BY <1>1 DEF Inv, TypeOK
<1>10. TypeOK'
  BY <1>6, <1>7, <1>8, <1>9 DEF Inv, TypeOK, PhpType
<1>11. CursorsStand'
  <2>1. ASSUME NEW e \in Cursor
        PROVE  /\ php'[e].stage # "gone" =>
                     Stands(e, query'[e], Total(e)', cur'[e], wire', Len(given'[e]))
               /\ php'[e].stage = "gone" => ~cur'[e].inExhaust /\ ~wire'.srv[e].pushing
    <3>1. CASE e = c
      BY <1>4, <1>5, <1>6, <1>8, <3>1
    <3>2. CASE e # c
      BY <1>7, <1>8, <3>2
    <3>3. QED BY <3>1, <3>2
  <2>2. QED BY <2>1 DEF CursorsStand
<1>12. CallsFit'
  <2>1. ASSUME NEW e \in Cursor
        PROVE  /\ php'[e].stage = "new" => ~cur'[e].sent /\ cur'[e].error = "none" /\ php'[e].key = 0
               /\ php'[e].stage = "made" /\ cur'[e].error = "none" =>
                     /\ cur'[e].sent
                     /\ Counts(e, query'[e], cur'[e], Len(given'[e]))
                     /\ cur'[e].count = php'[e].key + 1
                     /\ php'[e].child \in {None, cur'[e].current}
               /\ php'[e].stage # "made" => php'[e].child = None
    <3>1. CASE e = c
      BY <1>8, <3>1
    <3>2. CASE e # c
      BY <1>6, <1>8, <3>2 DEF Inv, CallsFit
    <3>3. QED BY <3>1, <3>2
  <2>2. QED BY <2>1 DEF CallsFit
<1>13. LimitRemains'
  BY <1>5, <1>6 DEF Inv, LimitRemains
<1>14. CommandsTakeTheirReplies'
  BY DEF Inv, CommandsTakeTheirReplies
<1>15. NothingLeaks'
  <2>1. ASSUME NEW e \in Cursor, php'[e].stage = "gone", wire'.srv[e].open,
               wire'.srv[e].replies = cur'[e].replies
        PROVE  e \in abandoned'
    <3>1. CASE e = c
      <4>1. ~d.told
        BY <1>4, <1>5, <1>6, <2>1, <3>1
      <4>2. QED BY <1>1, <3>1, <4>1
    <3>2. CASE e # c
      <4>1. php[e].stage = "gone" /\ cur'[e] = cur[e]
        BY <1>6, <1>8, <2>1, <3>2
      <4>2. wire'.srv[e] = wire.srv[e]
        BY <1>4, <1>6, <3>2 DEF Fits
      <4>3. QED BY <1>9, <2>1, <4>1, <4>2 DEF Inv, NothingLeaks
    <3>3. QED BY <3>1, <3>2
  <2>2. QED BY <2>1 DEF NothingLeaks
<1>16. QED BY <1>6, <1>7, <1>10, <1>11, <1>12, <1>13, <1>14, <1>15 DEF Inv

LEMMA MoveForwardKeeps ==
    ASSUME Inv, NEW c \in Cursor, MoveForward(c)
    PROVE  Inv'
<1>1. PICK r \in NextCalls(c) :
          /\ Became(c, r.u, r.w, r.doc)
          /\ php' = [php EXCEPT ![c].key = @ + 1, ![c].child = r.doc]
  BY DEF MoveForward
<1>2. /\ php[c].stage = "made" /\ php[c].key < MaxCalls
      /\ UNCHANGED <<query, docs, abandoned, mistaken>>
  BY DEF MoveForward
<1>3. php[c] \in PhpType /\ php \in [Cursor -> PhpType] /\ r.doc \in Document \cup {None}
  BY <1>2, CallsFitIn DEF Fits, Inv, TypeOK, PhpType
<1>4. PICK p : p = [php[c] EXCEPT !.key = @ + 1, !.child = r.doc]
  OBVIOUS
<1>5. php[c].key + 1 \in 0 .. MaxCalls
  <2>1. MaxCalls \in Nat
    BY QueryAssumption
  <2>2. QED BY <1>2, <1>3, <2>1 DEF PhpType
<1>6. p \in PhpType /\ p.stage = "made" /\ p.child = r.doc /\ p.key = php[c].key + 1
  BY <1>2, <1>3, <1>4, <1>5 DEF PhpType
<1>7. php' = [php EXCEPT ![c] = p]
  BY <1>1, <1>3, <1>4
<1>8. r.u.error = "none" => cur[c].count = p.key
  <2>1. r.u.error = "none" => cur[c].error = "none"
    BY <1>2, CallsCount
  <2>2. QED BY <1>2, <1>6, <2>1 DEF Inv, CallsFit
<1>9. QED BY <1>1, <1>2, <1>6, <1>7, <1>8, KeepingKeeps

LEMMA ExecuteKeeps ==
    ASSUME Inv, NEW c \in Cursor, Execute(c)
    PROVE  Inv'
<1>1. PICK r \in NextCalls(c) :
          \/ /\ r.u.error = "none"
             /\ Became(c, r.u, r.w, r.doc)
             /\ php' = [php EXCEPT ![c].stage = "made"]
             /\ UNCHANGED abandoned
          \/ /\ r.u.error # "none"
             /\ Gone(c, r.u, r.w, r.doc)
  BY DEF Execute
<1>2. php[c].stage = "new" /\ UNCHANGED <<query, docs, mistaken>>
  BY DEF Execute
<1>3. CASE /\ r.u.error = "none"
           /\ Became(c, r.u, r.w, r.doc)
           /\ php' = [php EXCEPT ![c].stage = "made"]
           /\ UNCHANGED abandoned
  <2>1. php[c] \in PhpType /\ php \in [Cursor -> PhpType]
    BY DEF Inv, TypeOK, PhpType
  <2>2. PICK p : p = [php[c] EXCEPT !.stage = "made"]
    OBVIOUS
  <2>3. php[c].child = None /\ php[c].key = 0 /\ ~cur[c].sent
    BY <1>2 DEF Inv, CallsFit
  <2>4. p \in PhpType /\ p.stage = "made" /\ p.child = None /\ p.key = 0
    BY <2>1, <2>2, <2>3 DEF PhpType
  <2>5. php' = [php EXCEPT ![c] = p]
    BY <1>3, <2>1, <2>2
  <2>6. cur[c].count = 0
    BY <1>2, <2>3, HeldIs DEF Stands, Unused
  <2>7. QED BY <1>2, <1>3, <2>4, <2>5, <2>6, KeepingKeeps
<1>4. CASE r.u.error # "none" /\ Gone(c, r.u, r.w, r.doc)
  <2>1. /\ Fits(c, r.u, r.w, r.doc) /\ r.doc = None
        /\ Stands(c, query[c], Total(c), r.u, r.w, After(r.doc, Len(given[c])))
    BY <1>2, <1>4, CallsFitIn
  <2>2. r.u.error = "aborted" => query[c].tailable /\ query[c].limit > 0
    BY <1>2, CallsCount
  <2>3. QED BY <1>2, <1>4, <2>1, <2>2, GoneKeeps DEF After
<1>5. QED BY <1>1, <1>3, <1>4

LEMMA FreeKeeps ==
    ASSUME Inv, NEW c \in Cursor, Free(c)
    PROVE  Inv'
<1>1. /\ php[c].stage = "made" /\ Gone(c, cur[c], wire, None)
      /\ UNCHANGED <<query, docs, mistaken>>
  BY DEF Free
<1>2. /\ Fits(c, cur[c], wire, None)
      /\ Stands(c, query[c], Total(c), cur[c], wire, Len(given[c]))
  BY <1>1, HeldFits, HeldIs
<1>3. cur[c].error = "aborted" => query[c].tailable /\ query[c].limit > 0
  BY DEF Inv, LimitRemains
<1>4. QED BY <1>1, <1>2, <1>3, GoneKeeps

-----------------------------------------------------------------------------
(* The invariant.                                                          *)

LEMMA InvAtFirst == Init => Inv
<1> SUFFICES ASSUME Init PROVE Inv
  OBVIOUS
<1> DEFINE unasked == [open |-> FALSE, sent |-> 0, replies |-> 0, pushing |-> FALSE]
           unused == [sent |-> FALSE, error |-> "none", done |-> FALSE, count |-> 0, id |-> FALSE,
                      buffer |-> <<>>, replies |-> 0, inExhaust |-> FALSE, current |-> None]
           fresh == [stage |-> "new", iterating |-> FALSE, key |-> 0, child |-> None]
<1>1. /\ query \in Queries /\ given = [c \in Cursor |-> <<>>] /\ abandoned = {} /\ mistaken = FALSE
      /\ wire = [open |-> FALSE, pipe |-> <<>>, answer |-> None,
                 srv |-> [c \in Cursor |-> unasked]]
      /\ cur = [c \in Cursor |-> unused]
      /\ php = [c \in Cursor |-> fresh]
  BY DEF Init
<1>2. DOMAIN docs = Cursor /\ \A c \in Cursor : docs[c] \in 0 .. MaxDocs[c]
  <2>1. /\ docs \in [Cursor -> UNION {0 .. MaxDocs[c] : c \in Cursor}]
        /\ \A c \in Cursor : docs[c] <= MaxDocs[c]
    BY DEF Init
  <2>2. ASSUME NEW c \in Cursor PROVE docs[c] \in 0 .. MaxDocs[c]
    <3>1. docs[c] \in UNION {0 .. MaxDocs[d] : d \in Cursor}
      BY <2>1
    <3>2. PICK d \in Cursor : docs[c] \in 0 .. MaxDocs[d]
      BY <3>1
    <3>3. MaxDocs[c] \in Nat /\ MaxDocs[d] \in Nat
      BY QueryAssumption
    <3>4. QED BY <2>1, <3>2, <3>3
  <2>3. QED BY <2>1, <2>2
<1>3. unasked \in ServerType
  BY DEF ServerType
<1>4. /\ wire \in WireType /\ ~wire.open /\ wire.pipe = <<>> /\ wire.answer = None
      /\ \A c \in Cursor : wire.srv[c] = unasked
  <2>1. <<>> \in Seq(ReplyType)
    OBVIOUS
  <2>2. [c \in Cursor |-> unasked] \in [Cursor -> ServerType]
    BY <1>3
  <2> HIDE DEF unasked
  <2>3. QED BY <1>1, <2>1, <2>2 DEF WireType, ServerType
<1>5. unused \in CursorType
  <2>1. <<>> \in Seq(Document)
    OBVIOUS
  <2>2. QED BY <2>1 DEF CursorType
<1>6. fresh \in PhpType
  <2>1. 0 \in 0 .. MaxCalls
    BY QueryAssumption
  <2>2. QED BY <2>1 DEF PhpType
<1>7. \A c \in Cursor : cur[c] = unused /\ php[c] = fresh /\ given[c] = <<>>
  BY <1>1
<1>8. \A c \in Cursor :
        /\ ~cur[c].sent /\ cur[c].error = "none" /\ ~cur[c].done /\ cur[c].count = 0 /\ ~cur[c].id
        /\ cur[c].buffer = <<>> /\ cur[c].replies = 0 /\ ~cur[c].inExhaust
        /\ cur[c].current = None
        /\ php[c].stage = "new" /\ php[c].key = 0 /\ php[c].child = None
        /\ Len(given[c]) = 0
  BY <1>7
<1>9. TypeOK
  <2>1. cur \in [Cursor -> CursorType] /\ php \in [Cursor -> PhpType]
    BY <1>1, <1>5, <1>6
  <2>2. given \in [Cursor -> Seq(Document)]
    <3>1. <<>> \in Seq(Document)
      OBVIOUS
    <3>2. QED BY <1>1, <3>1
  <2>3. \A c \in Cursor : \A i \in DOMAIN cur[c].buffer :
            cur[c].buffer[i] = <<c, Len(given[c]) + i>>
    BY <1>8
  <2> HIDE DEF unused, fresh, unasked
  <2>4. QED BY <1>1, <1>2, <1>4, <2>1, <2>2, <2>3 DEF TypeOK, PhpType
<1>10. CursorsStand
  <2>1. ASSUME NEW c \in Cursor
        PROVE  Stands(c, query[c], Total(c), cur[c], wire, Len(given[c]))
    <3>1. Total(c) \in Nat
      BY <1>1, <1>2, TotalsAre DEF Asked
    <3>2. /\ wire.srv[c] = unasked /\ ~wire.srv[c].open /\ wire.srv[c].sent = 0
          /\ wire.srv[c].replies = 0 /\ ~wire.srv[c].pushing
      BY <1>4
    <3>3. QED BY <1>8, <3>1, <3>2 DEF Stands, Unused
  <2>2. QED BY <1>8, <2>1 DEF CursorsStand
<1>11. StreamFits /\ CallsFit /\ LimitRemains /\ NothingLeaks
  BY <1>4, <1>8 DEF StreamFits, InExhaust, CallsFit, LimitRemains, NothingLeaks
<1>12. GivenInOrder /\ CommandsTakeTheirReplies
  BY <1>1, <1>7 DEF GivenInOrder, CommandsTakeTheirReplies
<1>13. QED BY <1>9, <1>10, <1>11, <1>12 DEF Inv

LEMMA StepsKeep ==
    ASSUME ~Scans, Inv, [Next]_vars
    PROVE  Inv'
<1>1. ASSUME NEW c \in Cursor,
             \/ Execute(c) \/ GetIterator(c) \/ Rewind(c) \/ MoveForward(c)
             \/ SetTypeMap(c) \/ Free(c) \/ Push(c) \/ Insert(c)
      PROVE  Inv'
  BY <1>1, ExecuteKeeps, GetIteratorKeeps, ShowingCurrentKeeps, MoveForwardKeeps, FreeKeeps,
     PushKeeps, InsertKeeps
<1>2. CASE AppCommand
  BY <1>2, AppCommandKeeps
<1>3. CASE Scan
  BY <1>3, ScanKeeps
<1>4. CASE UNCHANGED vars
  <2>1. UNCHANGED <<query, docs, wire, cur, php, given, abandoned, mistaken>>
    BY <1>4 DEF vars
  <2>2. \A c \in Cursor : Total(c)' = Total(c)
    BY <2>1, TotalsStay
  <2>3. TypeOK' /\ StreamFits' /\ CallsFit'
    BY <2>1 DEF Inv, TypeOK, StreamFits, InExhaust, CallsFit
  <2>4. CursorsStand'
    <3>1. ASSUME NEW d \in Cursor
          PROVE  /\ php'[d].stage # "gone" =>
                       Stands(d, query'[d], Total(d)', cur'[d], wire', Len(given'[d]))
                 /\ php'[d].stage = "gone" => ~cur'[d].inExhaust /\ ~wire'.srv[d].pushing
      BY <2>1, <2>2 DEF Inv, CursorsStand
    <3>2. QED BY <3>1 DEF CursorsStand
  <2>5. GivenInOrder' /\ LimitRemains' /\ NothingLeaks' /\ CommandsTakeTheirReplies'
    BY <2>1 DEF Inv, GivenInOrder, LimitRemains, NothingLeaks, CommandsTakeTheirReplies
  <2>6. QED BY <2>3, <2>4, <2>5 DEF Inv
<1>5. QED BY <1>1, <1>2, <1>3, <1>4 DEF Next

\* Whatever the cursors ask for, however many they are and whatever gets lost: what each cursor, the
\* stream and the server behind it know of each other fits, if no scan comes in between the
\* replies of a cursor in exhaust.
THEOREM InvIsInvariant ==
    ASSUME ~Scans
    PROVE  Spec => []Inv
<1>1. Init => Inv
  BY InvAtFirst
<1>2. Inv /\ [Next]_vars => Inv'
  BY StepsKeep
<1>3. QED BY <1>1, <1>2, PTL DEF Spec

\* The iterator shows the last document.
LEMMA LastIsShown == Inv => ShowsLastDocument
<1> SUFFICES ASSUME Inv, NEW c \in Cursor, php[c].child # None, cur[c].error = "none"
             PROVE  /\ php[c].child = Last(given[c])
                    /\ query[c].tailable \/ php[c].key = Len(given[c]) - 1
  BY DEF ShowsLastDocument
<1> DEFINE n == Len(given[c])
<1>1. php[c].stage = "made"
  BY DEF Inv, CallsFit
<1>2. /\ Counts(c, query[c], cur[c], n) /\ cur[c].count = php[c].key + 1
      /\ php[c].child \in {None, cur[c].current}
  BY <1>1 DEF Inv, CallsFit
<1>3. cur[c].current # None /\ php[c].child = cur[c].current
  BY <1>2
<1>4. n \in Nat /\ php[c].key \in 0 .. MaxCalls /\ given[c] \in Seq(Document)
  BY DEF Inv, TypeOK
<1>5. /\ n > 0 /\ cur[c].current = <<c, n>>
      /\ ~query[c].tailable => cur[c].count = n
  BY <1>2, <1>3 DEF Counts
<1>6. given[c][n] = <<c, n>>
  <2>1. n \in DOMAIN given[c]
    BY <1>4, <1>5
  <2>2. QED BY <2>1 DEF Inv, GivenInOrder
<1>7. php[c].child = Last(given[c])
  BY <1>3, <1>5, <1>6 DEF Last
<1>8. query[c].tailable \/ php[c].key = n - 1
  <2>1. MaxCalls \in Nat /\ php[c].key \in Nat
    BY <1>4, QueryAssumption
  <2> HIDE DEF n
  <2>2. QED BY <1>2, <1>4, <1>5, <2>1
<1>9. QED BY <1>7, <1>8

\* What an iterator shows is the last document that its cursor returned, under its number, and no
\* cursor but a tailable one asks for more when its limit is reached.
THEOREM CursorsStaySound ==
    ASSUME ~Scans
    PROVE  Spec => []CursorsAreSound
<1>1. Inv => CursorsAreSound
  BY LastIsShown DEF Inv, CursorsAreSound
<1>2. QED BY <1>1, InvIsInvariant, PTL

\* No command takes the reply of another request for its own.
THEOREM CommandsTakeTheirs ==
    ASSUME ~Scans
    PROVE  Spec => []CommandsTakeTheirReplies
<1>1. Inv => CommandsTakeTheirReplies
  BY DEF Inv
<1>2. QED BY <1>1, InvIsInvariant, PTL

\* The server keeps no cursor open that was let go when all its replies had been read, unless it
\* could not be told.
THEOREM NothingIsLeaked ==
    ASSUME ~Scans
    PROVE  Spec => []NothingLeaks
<1>1. Inv => NothingLeaks
  BY DEF Inv
<1>2. QED BY <1>1, InvIsInvariant, PTL

-----------------------------------------------------------------------------
(* The refinement.                                                         *)

\* What the abstract cursors have given, and how they have ended.
ShownOf(g) ==
    [c \in Cursor |-> [i \in DOMAIN g[c] |-> IF g[c][i][1] = c THEN g[c][i][2] ELSE 0]]
EndsOf(u, q) ==
    [c \in Cursor |->
        CASE u[c].error # "none" -> "failed"
          [] u[c].error = "none" /\ u[c].done /\ u[c].current = None
             /\ ~q[c].tailable -> "noMore"
          [] OTHER -> "none"]

LEMMA AbstractInit ==
    ASSUME query \in [Cursor -> QueryType], docs \in [Cursor -> Nat],
           ShownOf(given) = [c \in Cursor |-> <<>>],
           EndsOf(cur, query) = [c \in Cursor |-> "none"]
    PROVE  RS!Init
  BY Zenon DEF RS!Init, ShownOf, EndsOf

LEMMA AbstractGive ==
    ASSUME NEW c \in Cursor, EndsOf(cur, query)[c] = "none",
           Len(ShownOf(given)[c]) < RS!Wanted(c),
           ShownOf(given') = [ShownOf(given) EXCEPT ![c] =
                                 Append(ShownOf(given)[c], Len(ShownOf(given)[c]) + 1)],
           query' = query, docs' = docs, EndsOf(cur', query') = EndsOf(cur, query)
    PROVE  RS!Give(c)
  BY Zenon DEF RS!Give, ShownOf, EndsOf

LEMMA AbstractNoMore ==
    ASSUME NEW c \in Cursor, EndsOf(cur, query)[c] = "none", ~query[c].tailable,
           Len(ShownOf(given)[c]) = RS!Wanted(c) \/ query[c].limit < 0,
           EndsOf(cur', query') = [EndsOf(cur, query) EXCEPT ![c] = "noMore"],
           query' = query, docs' = docs, ShownOf(given') = ShownOf(given)
    PROVE  RS!NoMore(c)
  BY Zenon DEF RS!NoMore, ShownOf, EndsOf

LEMMA AbstractFail ==
    ASSUME NEW c \in Cursor,
           EndsOf(cur', query') = [EndsOf(cur, query) EXCEPT ![c] = "failed"],
           query' = query, docs' = docs, ShownOf(given') = ShownOf(given)
    PROVE  RS!Fail(c)
  BY Zenon DEF RS!Fail, ShownOf, EndsOf

LEMMA AbstractInsert ==
    ASSUME NEW c \in Cursor, query[c].tailable, docs' = [docs EXCEPT ![c] = docs[c] + 1],
           query' = query, cur' = cur, given' = given
    PROVE  RS!Insert(c)
  BY Zenon DEF RS!Insert

LEMMA AbstractStutter ==
    ASSUME query' = query, docs' = docs, ShownOf(given') = ShownOf(given),
           EndsOf(cur', query') = EndsOf(cur, query)
    PROVE  UNCHANGED RS!vars
  BY Zenon DEF RS!vars, ShownOf, EndsOf

\* How many documents the application is to get.
LEMMA WantedIs ==
    ASSUME Asked, NEW c \in Cursor
    PROVE  /\ RS!Wanted(c) \in Nat
           /\ query[c].limit = 0 => RS!Wanted(c) = docs[c]
           /\ query[c].limit # 0 =>
                 RS!Wanted(c) = AtMost(docs[c], Magnitude(query[c].limit))
<1>1. query[c].limit \in Int /\ docs[c] \in Nat
  BY QueriesAre DEF QueryType
<1>2. QED BY <1>1 DEF RS!Wanted, RS!Magnitude, Magnitude, AtMost

Numbers(n) == [i \in 1 .. n |-> i]

LEMMA NumbersAre ==
    ASSUME NEW n \in Nat
    PROVE  /\ Len(Numbers(n)) = n
           /\ Numbers(0) = <<>>
           /\ Append(Numbers(n), Len(Numbers(n)) + 1) = Numbers(n + 1)
<1>1. \A k \in Nat : Numbers(k) \in Seq(Nat) /\ Len(Numbers(k)) = k
  BY DEF Numbers
<1>2. Numbers(0) = <<>>
  BY <1>1, EmptySeq
<1>3. Append(Numbers(n), n + 1) = Numbers(n + 1)
  <2>1. /\ Append(Numbers(n), n + 1) \in Seq(Nat)
        /\ Len(Append(Numbers(n), n + 1)) = n + 1
    BY <1>1
  <2>2. \A i \in 1 .. n + 1 : Append(Numbers(n), n + 1)[i] = i
    BY <1>1 DEF Numbers
  <2>3. QED BY <1>1, <2>1, <2>2 DEF Numbers
<1>4. QED BY <1>1, <1>2, <1>3

\* They are numbered from one.
LEMMA ShownIs ==
    ASSUME NEW g \in [Cursor -> Seq(Document)],
           \A c \in Cursor : \A i \in DOMAIN g[c] : g[c][i] = <<c, i>>
    PROVE  ShownOf(g) = [c \in Cursor |-> Numbers(Len(g[c]))]
<1>1. ASSUME NEW c \in Cursor
      PROVE  [i \in DOMAIN g[c] |-> IF g[c][i][1] = c THEN g[c][i][2] ELSE 0] = Numbers(Len(g[c]))
  <2>1. DOMAIN g[c] = 1 .. Len(g[c])
    OBVIOUS
  <2>2. \A i \in 1 .. Len(g[c]) : (IF g[c][i][1] = c THEN g[c][i][2] ELSE 0) = i
    BY <2>1
  <2>3. QED BY <2>1, <2>2 DEF Numbers
<1>2. QED BY <1>1 DEF ShownOf

LEMMA EndsAre ==
    ASSUME NEW u, NEW q, NEW c \in Cursor
    PROVE  /\ u[c].error # "none" => EndsOf(u, q)[c] = "failed"
           /\ u[c].error = "none" /\ u[c].done /\ u[c].current = None /\ ~q[c].tailable
                 => EndsOf(u, q)[c] = "noMore"
           /\ u[c].error = "none" /\ ~(u[c].done /\ u[c].current = None /\ ~q[c].tailable)
                 => EndsOf(u, q)[c] = "none"
<1>1. CASE u[c].error # "none"
  BY <1>1 DEF EndsOf
<1>2. CASE u[c].error = "none" /\ u[c].done /\ u[c].current = None /\ ~q[c].tailable
  BY <1>2 DEF EndsOf
<1>3. CASE u[c].error = "none" /\ ~(u[c].done /\ u[c].current = None /\ ~q[c].tailable)
  BY <1>3 DEF EndsOf
<1>4. QED BY <1>1, <1>2, <1>3

SameBut(c, u, v) == \A d \in Cursor \ {c} : v[d] = u[d]

LEMMA EndsChange ==
    ASSUME NEW u, NEW v, NEW q, NEW c \in Cursor, SameBut(c, u, v)
    PROVE  /\ SameBut(c, EndsOf(u, q), EndsOf(v, q))
           /\ EndsOf(v, q)[c] = EndsOf(u, q)[c] => EndsOf(v, q) = EndsOf(u, q)
<1>1. DOMAIN EndsOf(v, q) = Cursor /\ DOMAIN EndsOf(u, q) = Cursor
  BY DEF EndsOf
<1>2. \A d \in Cursor \ {c} : EndsOf(v, q)[d] = EndsOf(u, q)[d]
  BY DEF EndsOf, SameBut
<1>3. /\ EndsOf(v, q) = [d \in Cursor |-> EndsOf(v, q)[d]]
      /\ EndsOf(u, q) = [d \in Cursor |-> EndsOf(u, q)[d]]
  BY DEF EndsOf
<1>4. QED BY <1>1, <1>2, <1>3 DEF SameBut

\* A working cursor has not returned more than the server has sent, and all when it has nothing to
\* read and nothing to ask for.
LEMMA AllIsReturned ==
    ASSUME NEW c \in Cursor, NEW q, NEW t \in Nat, NEW u \in CursorType, NEW w \in WireType,
           NEW n \in Nat, Stands(c, q, t, u, w, n), u.sent, u.error = "none"
    PROVE  /\ n + Len(u.buffer) <= t
           /\ ~u.id /\ u.buffer = <<>> /\ ~q.tailable /\ q.limit >= 0 => n = t
<1>1. /\ Works(c, q, t, u, w, n) /\ w.srv[c].sent <= t
  BY DEF Stands
<1>2. /\ w.srv[c].sent \in Nat /\ u.buffer \in Seq(Document) /\ Len(u.buffer) \in Nat
      /\ w.pipe \in Seq(ReplyType) /\ Len(w.pipe) \in Nat
  BY DEF WireType, CursorType
<1>3. ~u.id /\ ~q.tailable /\ q.limit >= 0 => w.srv[c].sent = t
  BY <1>1 DEF Works
<1>4. CASE ~u.inExhaust
  <2>1. w.srv[c].sent = n + Len(u.buffer)
    BY <1>1, <1>4 DEF Works, Rests
  <2>2. u.buffer = <<>> => n + Len(u.buffer) = n
    OBVIOUS
  <2>3. QED BY <1>1, <1>2, <1>3, <2>1, <2>2
<1>5. CASE u.inExhaust
  <2>1. Flows(c, q, t, u, w, n)
    BY <1>1, <1>5 DEF Works
  <2>2. PICK at \in [1 .. Len(w.pipe) + 1 -> 0 .. w.srv[c].sent] :
            at[1] = n + Len(u.buffer) /\ at[Len(w.pipe) + 1] = w.srv[c].sent
    BY <2>1, Zenon DEF Flows, Brings
  <2>3. 1 \in 1 .. Len(w.pipe) + 1
    BY <1>2
  <2>4. at[1] \in 0 .. w.srv[c].sent
    BY <2>2, <2>3
  <2>5. n + Len(u.buffer) <= w.srv[c].sent
    BY <1>2, <2>2, <2>4
  <2>6. ~u.id => w.pipe = <<>>
    BY <2>1 DEF Flows
  <2>7. w.pipe = <<>> => Len(w.pipe) + 1 = 1
    OBVIOUS
  <2>8. ~u.id => w.srv[c].sent = n + Len(u.buffer)
    BY <2>2, <2>6, <2>7
  <2>9. u.buffer = <<>> => n + Len(u.buffer) = n
    OBVIOUS
  <2>10. QED BY <1>1, <1>2, <1>3, <2>5, <2>8, <2>9
<1>6. QED BY <1>4, <1>5

\* A call gives the next of the documents that are wanted, and ends when it has given them all.
LEMMA CallsGive ==
    ASSUME Inv, NEW c \in Cursor, php[c].stage # "gone", NEW r \in NextCalls(c),
           r.u.error = "none"
    PROVE  /\ ~cur[c].done
           /\ r.doc # None => Len(given[c]) < RS!Wanted(c)
           /\ r.doc = None /\ ~query[c].tailable =>
                 Len(given[c]) = RS!Wanted(c) \/ query[c].limit < 0
<1> DEFINE n == Len(given[c])
           q == query[c]
           m == After(r.doc, n)
<1>1. /\ Asked /\ cur[c] \in CursorType /\ n \in Nat
      /\ Stands(c, q, Total(c), cur[c], wire, n)
  BY HeldIs
<1>2. Objection(c) = "none" /\ Returned(c, r, n)
  <2>1. ~Refuses(c, r)
    BY <1>1, ObjectionsAre DEF Refuses, CursorType
  <2>2. QED BY <1>1, <2>1, HeldIsCallable, CallsReturn
<1>3. ~cur[c].done /\ cur[c].error = "none"
  BY <1>2, HeldIsCallable DEF Callable
<1>4. /\ q.limit \in Int /\ q.kind \in Kind /\ Total(c) \in Nat /\ docs[c] \in Nat
      /\ cur[c].count \in Nat /\ Magnitude(q.limit) \in Nat
      /\ q.limit # 0 => Magnitude(q.limit) > 0
  BY <1>1, QueriesAre, TotalsAre DEF QueryType, CursorType, Magnitude
<1>5. /\ Counts(c, q, r.u, m) /\ r.u.sent
      /\ Counts(c, q, cur[c], n)
  BY <1>3, CallsCount, HeldCounts
<1>6. /\ Sound(c, r.u, r.w, m)
      /\ r.doc = None /\ ~q.tailable =>
            \/ UsesOpQuery(c) /\ q.limit # 0 /\ cur[c].count >= Magnitude(q.limit)
            \/ ~r.u.id /\ r.u.buffer = <<>>
  BY <1>2 DEF Returned
<1>7. /\ r.u \in CursorType /\ r.w \in WireType /\ m \in Nat
      /\ Stands(c, q, Total(c), r.u, r.w, m)
  BY <1>6 DEF Sound
<1>8. /\ m + Len(r.u.buffer) <= Total(c) /\ Len(r.u.buffer) \in Nat
      /\ ~r.u.id /\ r.u.buffer = <<>> /\ ~q.tailable /\ q.limit >= 0 => m = Total(c)
  <2>1. Len(r.u.buffer) \in Nat
    BY <1>7 DEF CursorType
  <2>2. QED BY <1>4, <1>5, <1>7, <2>1, AllIsReturned
<1>9. /\ Total(c) <= docs[c]
      /\ q.kind = "find" /\ q.limit # 0 => Total(c) = AtMost(docs[c], Magnitude(q.limit))
      /\ q.kind # "find" \/ q.limit = 0 => Total(c) = docs[c]
  <2>1. q.kind = "find" /\ q.limit # 0 => Total(c) = AtMost(docs[c], Magnitude(q.limit))
    BY <1>4 DEF Total
  <2>2. QED BY <1>1, <2>1, TotalsAre
<1>10. q.kind # "find" /\ q.limit # 0 => q.kind \in {"query", "exhaust"} /\ UsesOpQuery(c)
  BY <1>1, <1>4, QueriesAre DEF Kind, UsesOpQuery
<1>11. q.kind # "find" /\ q.limit # 0 => m <= Magnitude(q.limit) /\ n <= Magnitude(q.limit)
  BY <1>5, <1>10 DEF Counts
<1>12. /\ RS!Wanted(c) \in Nat
       /\ q.limit = 0 => RS!Wanted(c) = docs[c]
       /\ q.limit # 0 => RS!Wanted(c) = AtMost(docs[c], Magnitude(q.limit))
  BY <1>1, WantedIs
<1>13. m <= RS!Wanted(c)
  <2>1. m <= Total(c)
    BY <1>4, <1>7, <1>8
  <2> HIDE DEF m, n, q
  <2>2. QED BY <1>4, <1>7, <1>9, <1>11, <1>12, <2>1 DEF AtMost
<1>14. ASSUME r.doc # None PROVE n < RS!Wanted(c)
  <2>1. m = n + 1
    BY <1>14 DEF After
  <2> HIDE DEF m, n
  <2>2. QED BY <1>1, <1>12, <1>13, <2>1
<1>15. ASSUME r.doc = None, ~q.tailable, q.limit >= 0 PROVE n = RS!Wanted(c)
  <2>1. m = n
    BY <1>15 DEF After
  <2>2. CASE ~r.u.id /\ r.u.buffer = <<>>
    <3>1. n = Total(c)
      BY <1>8, <1>15, <2>1, <2>2
    <3> HIDE DEF m, n, q
    <3>2. QED BY <1>4, <1>9, <1>11, <1>12, <3>1 DEF AtMost
  <2>3. CASE /\ UsesOpQuery(c) /\ q.limit # 0 /\ cur[c].count >= Magnitude(q.limit)
             /\ ~(~r.u.id /\ r.u.buffer = <<>>)
    <3>1. q.kind # "find"
      BY <2>3 DEF UsesOpQuery
    <3>2. cur[c].count = n \/ (~cur[c].id /\ cur[c].buffer = <<>>)
      BY <1>3, <1>5, <1>15 DEF Counts
    <3>3. CASE cur[c].count = n
      <4> HIDE DEF m, n, q
      <4>1. n = Magnitude(q.limit)
        BY <1>1, <1>4, <1>11, <2>3, <3>1, <3>3
      <4>2. n <= docs[c]
        BY <1>4, <1>7, <1>8, <1>9, <2>1
      <4>3. QED BY <1>4, <1>12, <2>3, <4>1, <4>2 DEF AtMost
    <3>4. CASE ~cur[c].id /\ cur[c].buffer = <<>>
      <4>1. cur[c].sent
        BY <1>1, <1>4, <2>3, HeldCounts, <1>3
      <4>2. n = Total(c)
        <5>1. wire \in WireType
          BY HeldIs
        <5>2. QED BY <1>1, <1>3, <1>4, <1>15, <3>4, <4>1, <5>1, AllIsReturned
      <4> HIDE DEF m, n, q
      <4>3. QED BY <1>4, <1>9, <1>11, <1>12, <4>2 DEF AtMost
    <3>5. QED BY <3>2, <3>3, <3>4
  <2>4. QED BY <1>6, <1>15, <2>2, <2>3
<1>16. QED BY <1>3, <1>4, <1>14, <1>15

LEMMA InitRefines == Init => RS!Init
<1> SUFFICES ASSUME Init PROVE RS!Init
  OBVIOUS
<1>1. /\ query \in Queries /\ given = [c \in Cursor |-> <<>>]
      /\ \A c \in Cursor : cur[c].error = "none" /\ ~cur[c].done
  BY DEF Init
<1>2. query \in [Cursor -> QueryType]
  BY <1>1, QueryAssumption
<1>3. docs \in [Cursor -> Nat]
  <2>1. docs \in [Cursor -> UNION {0 .. MaxDocs[c] : c \in Cursor}]
    BY DEF Init
  <2>2. \A c \in Cursor : docs[c] \in 0 .. MaxDocs[c]
    BY InvAtFirst DEF Inv, TypeOK
  <2>3. \A c \in Cursor : MaxDocs[c] \in Nat
    BY QueryAssumption
  <2>4. \A c \in Cursor : docs[c] \in Nat
    BY <2>2, <2>3
  <2>5. QED BY <2>1, <2>4
<1>4. ShownOf(given) = [c \in Cursor |-> <<>>]
  <2>1. /\ given \in [Cursor -> Seq(Document)]
        /\ \A c \in Cursor : \A i \in DOMAIN given[c] : given[c][i] = <<c, i>>
    BY InvAtFirst DEF Inv, TypeOK, GivenInOrder
  <2>2. ShownOf(given) = [c \in Cursor |-> Numbers(Len(given[c]))]
    BY <2>1, ShownIs
  <2>3. \A c \in Cursor : Len(given[c]) = 0
    BY <1>1
  <2>4. Numbers(0) = <<>>
    BY NumbersAre
  <2>5. QED BY <2>2, <2>3, <2>4
<1>5. EndsOf(cur, query) = [c \in Cursor |-> "none"]
  <2>1. \A c \in Cursor : EndsOf(cur, query)[c] = "none"
    BY <1>1, EndsAre
  <2>2. EndsOf(cur, query) = [c \in Cursor |-> EndsOf(cur, query)[c]]
    BY DEF EndsOf
  <2>3. QED BY <2>1, <2>2
<1>6. QED BY <1>2, <1>3, <1>4, <1>5, AbstractInit

\* What is given of cursor c grows by its next document.
LEMMA GivingShows ==
    ASSUME Inv, Inv', NEW c \in Cursor, NEW doc \in Document,
           given' = [given EXCEPT ![c] = Append(@, doc)]
    PROVE  /\ Len(ShownOf(given)[c]) = Len(given[c])
           /\ ShownOf(given') = [ShownOf(given) EXCEPT ![c] =
                                    Append(ShownOf(given)[c], Len(ShownOf(given)[c]) + 1)]
<1>1. /\ given \in [Cursor -> Seq(Document)]
      /\ \A d \in Cursor : \A i \in DOMAIN given[d] : given[d][i] = <<d, i>>
  BY DEF Inv, TypeOK, GivenInOrder
<1>2. PICK g : g = given'
  OBVIOUS
<1>3. /\ g \in [Cursor -> Seq(Document)]
      /\ \A d \in Cursor : \A i \in DOMAIN g[d] : g[d][i] = <<d, i>>
  BY <1>2 DEF Inv, TypeOK, GivenInOrder
<1>4. ShownOf(given) = [d \in Cursor |-> Numbers(Len(given[d]))]
  BY <1>1, ShownIs
<1>5. ShownOf(g) = [d \in Cursor |-> Numbers(Len(g[d]))]
  BY <1>3, ShownIs
<1>6. PICK n \in Nat : n = Len(given[c])
  BY <1>1
<1>7. Len(g[c]) = n + 1 /\ \A d \in Cursor \ {c} : g[d] = given[d]
  BY <1>1, <1>2, <1>6
<1>8. /\ Len(Numbers(n)) = n
      /\ Append(Numbers(n), n + 1) = Numbers(n + 1)
  BY NumbersAre
<1>9. ShownOf(given)[c] = Numbers(n) /\ Len(ShownOf(given)[c]) = n
  BY <1>4, <1>6, <1>8
<1>10. ShownOf(g) = [ShownOf(given) EXCEPT ![c] = Numbers(n + 1)]
  <2>1. ASSUME NEW d \in Cursor
        PROVE  ShownOf(g)[d] = [ShownOf(given) EXCEPT ![c] = Numbers(n + 1)][d]
    <3>1. CASE d = c
      BY <1>4, <1>5, <1>7, <3>1
    <3>2. CASE d # c
      BY <1>4, <1>5, <1>7, <3>2
    <3>3. QED BY <3>1, <3>2
  <2>2. QED BY <1>4, <1>5, <2>1
<1>11. QED BY <1>2, <1>6, <1>8, <1>9, <1>10

\* A call is a step of the abstract cursors, whatever else becomes of the cursor after it.
LEMMA CallRefines ==
    ASSUME Inv, Inv', NEW c \in Cursor, php[c].stage # "gone", NEW r \in NextCalls(c),
           query' = query, docs' = docs,
           given' = IF r.doc = None THEN given ELSE [given EXCEPT ![c] = Append(@, r.doc)],
           \A d \in Cursor \ {c} : cur'[d] = cur[d],
           cur'[c].error = r.u.error, cur'[c].done = r.u.done, cur'[c].current = r.u.current
    PROVE  RS!Next \/ UNCHANGED RS!vars
<1>1. PICK v : v = cur'
  OBVIOUS
<1>2. /\ \A e : EndsOf(v, query)[c] = e => EndsOf(v, query) = [EndsOf(cur, query) EXCEPT ![c] = e]
      /\ EndsOf(v, query)[c] = EndsOf(cur, query)[c] => EndsOf(v, query) = EndsOf(cur, query)
  <2>1. PICK u : u = cur
    OBVIOUS
  <2>2. PICK q : q = query
    OBVIOUS
  <2>3. SameBut(c, u, v)
    BY <1>1, <2>1 DEF SameBut
  <2>4. EndsOf(v, q)[c] = EndsOf(u, q)[c] => EndsOf(v, q) = EndsOf(u, q)
    BY <2>3, EndsChange
  <2>5. ASSUME NEW e, EndsOf(v, q)[c] = e PROVE EndsOf(v, q) = [EndsOf(u, q) EXCEPT ![c] = e]
    <3>1. PICK f : f = EndsOf(u, q)
      OBVIOUS
    <3>2. PICK g : g = EndsOf(v, q)
      OBVIOUS
    <3>3. SameBut(c, f, g)
      BY <2>3, <3>1, <3>2, EndsChange
    <3>4. f = [d \in Cursor |-> f[d]] /\ g = [d \in Cursor |-> g[d]]
      BY <3>1, <3>2 DEF EndsOf
    <3>5. g = [f EXCEPT ![c] = e]
      BY <2>5, <3>2, <3>3, <3>4 DEF SameBut
    <3>6. QED BY <3>1, <3>2, <3>5
  <2>6. QED BY <2>1, <2>2, <2>4, <2>5
<1>3. r.doc \in Document \cup {None} /\ (r.u.error # "none" => r.doc = None)
  BY CallsFitIn DEF Fits
<1>4. CASE r.u.error # "none"
  <2>1. EndsOf(v, query)[c] = "failed"
    BY <1>1, <1>4, EndsAre
  <2>2. given' = given
    BY <1>3, <1>4
  <2>3. EndsOf(cur', query') = [EndsOf(cur, query) EXCEPT ![c] = "failed"]
    BY <1>1, <1>2, <2>1
  <2>4. ShownOf(given') = ShownOf(given)
    BY <2>2
  <2>5. RS!Fail(c)
    BY <2>3, <2>4, AbstractFail
  <2>6. QED BY <2>5, Zenon DEF RS!Next
<1>5. CASE r.u.error = "none"
  <2>1. /\ ~cur[c].done
        /\ r.doc # None => Len(given[c]) < RS!Wanted(c)
        /\ r.doc = None /\ ~query[c].tailable =>
              Len(given[c]) = RS!Wanted(c) \/ query[c].limit < 0
    BY <1>5, CallsGive
  <2>2. cur[c].error = "none" /\ r.u.current = r.doc
    BY <1>5, CallsCount
  <2>3. EndsOf(cur, query)[c] = "none"
    BY <2>1, <2>2, EndsAre
  <2>4. v[c].error = "none" /\ v[c].done = r.u.done /\ v[c].current = r.doc
    BY <1>1, <1>5, <2>2
  <2>5. CASE r.doc # None
    <3>1. EndsOf(v, query)[c] = "none"
      BY <2>4, <2>5, EndsAre
    <3>2. EndsOf(cur', query') = EndsOf(cur, query)
      BY <1>1, <1>2, <2>3, <3>1
    <3>3. given' = [given EXCEPT ![c] = Append(@, r.doc)] /\ r.doc \in Document
      BY <1>3, <2>5
    <3>4. /\ Len(ShownOf(given)[c]) = Len(given[c])
          /\ ShownOf(given') = [ShownOf(given) EXCEPT ![c] =
                                   Append(ShownOf(given)[c], Len(ShownOf(given)[c]) + 1)]
      BY <3>3, GivingShows
    <3>5. Len(ShownOf(given)[c]) < RS!Wanted(c)
      BY <2>1, <2>5, <3>4
    <3>6. RS!Give(c)
      BY <2>3, <3>2, <3>4, <3>5, AbstractGive
    <3>7. QED BY <3>6, Zenon DEF RS!Next
  <2>6. CASE r.doc = None
    <3>1. given' = given
      BY <2>6
    <3>2. ShownOf(given') = ShownOf(given)
      BY <3>1
    <3>3. CASE r.u.done /\ ~query[c].tailable
      <4>1. EndsOf(v, query)[c] = "noMore"
        BY <2>4, <2>6, <3>3, EndsAre
      <4>2. EndsOf(cur', query') = [EndsOf(cur, query) EXCEPT ![c] = "noMore"]
        BY <1>1, <1>2, <4>1
      <4>3. Len(ShownOf(given)[c]) = Len(given[c])
        <5>1. /\ given \in [Cursor -> Seq(Document)]
              /\ \A d \in Cursor : \A i \in DOMAIN given[d] : given[d][i] = <<d, i>>
          BY DEF Inv, TypeOK, GivenInOrder
        <5>2. ShownOf(given) = [d \in Cursor |-> Numbers(Len(given[d]))]
          BY <5>1, ShownIs
        <5>3. PICK n \in Nat : n = Len(given[c])
          BY <5>1
        <5>4. QED BY <5>2, <5>3, NumbersAre
      <4>4. Len(ShownOf(given)[c]) = RS!Wanted(c) \/ query[c].limit < 0
        BY <2>1, <2>6, <3>3, <4>3
      <4>5. RS!NoMore(c)
        BY <2>3, <3>2, <3>3, <4>2, <4>4, AbstractNoMore
      <4>6. QED BY <4>5, Zenon DEF RS!Next
    <3>4. CASE ~(r.u.done /\ ~query[c].tailable)
      <4>1. EndsOf(v, query)[c] = "none"
        BY <2>4, <2>6, <3>4, EndsAre
      <4>2. EndsOf(cur', query') = EndsOf(cur, query)
        BY <1>1, <1>2, <2>3, <4>1
      <4>3. QED BY <3>2, <4>2, AbstractStutter
    <3>5. QED BY <3>3, <3>4
  <2>7. QED BY <2>5, <2>6
<1>6. QED BY <1>4, <1>5

\* Whatever leaves the documents returned, the errors and the ends alone is no step of them.
LEMMA SameRefines ==
    ASSUME query' = query, docs' = docs, cur' = cur, given' = given
    PROVE  UNCHANGED RS!vars
<1>1. EndsOf(cur', query') = EndsOf(cur, query) /\ ShownOf(given') = ShownOf(given)
  OBVIOUS
<1>2. QED BY <1>1, AbstractStutter

LEMMA MoveForwardRefines ==
    ASSUME Inv, Inv', NEW c \in Cursor, MoveForward(c)
    PROVE  RS!Next \/ UNCHANGED RS!vars
<1>1. PICK r \in NextCalls(c) : Became(c, r.u, r.w, r.doc)
  BY DEF MoveForward
<1>2. php[c].stage = "made" /\ query' = query /\ docs' = docs
  BY DEF MoveForward
<1>3. /\ cur' = [cur EXCEPT ![c] = r.u]
      /\ given' = IF r.doc = None THEN given ELSE [given EXCEPT ![c] = Append(@, r.doc)]
  BY <1>1 DEF Became
<1>4. cur'[c] = r.u /\ \A d \in Cursor \ {c} : cur'[d] = cur[d]
  BY <1>3 DEF Inv, TypeOK
<1>5. cur'[c].error = r.u.error /\ cur'[c].done = r.u.done /\ cur'[c].current = r.u.current
  BY <1>4
<1>6. php[c].stage # "gone"
  BY <1>2
<1>7. QED BY <1>2, <1>3, <1>4, <1>5, <1>6, CallRefines

\* What becomes of a cursor that is let go.
LEMMA GoneIs ==
    ASSUME Inv, NEW c \in Cursor, NEW u \in CursorType, NEW w, NEW doc, Gone(c, u, w, doc)
    PROVE  /\ given' = IF doc = None THEN given ELSE [given EXCEPT ![c] = Append(@, doc)]
           /\ \A d \in Cursor \ {c} : cur'[d] = cur[d]
           /\ cur'[c].error = u.error /\ cur'[c].done = u.done /\ cur'[c].current = u.current
<1>1. PICK d : Became(c, [u EXCEPT !.inExhaust = FALSE], d.w, doc)
  BY DEF Gone
<1>2. PICK v : v = [u EXCEPT !.inExhaust = FALSE]
  OBVIOUS
<1>3. v.error = u.error /\ v.done = u.done /\ v.current = u.current
  BY <1>2 DEF CursorType
<1>4. /\ cur' = [cur EXCEPT ![c] = v]
      /\ given' = IF doc = None THEN given ELSE [given EXCEPT ![c] = Append(@, doc)]
  BY <1>1, <1>2 DEF Became
<1>5. cur \in [Cursor -> CursorType]
  BY DEF Inv, TypeOK
<1>6. QED BY <1>3, <1>4, <1>5

LEMMA ExecuteRefines ==
    ASSUME Inv, Inv', NEW c \in Cursor, Execute(c)
    PROVE  RS!Next \/ UNCHANGED RS!vars
<1>1. PICK r \in NextCalls(c) :
          Became(c, r.u, r.w, r.doc) \/ Gone(c, r.u, r.w, r.doc)
  BY DEF Execute
<1>2. php[c].stage = "new" /\ query' = query /\ docs' = docs
  BY DEF Execute
<1>3. php[c].stage # "gone"
  BY <1>2
<1>4. /\ given' = IF r.doc = None THEN given ELSE [given EXCEPT ![c] = Append(@, r.doc)]
      /\ \A d \in Cursor \ {c} : cur'[d] = cur[d]
      /\ cur'[c].error = r.u.error /\ cur'[c].done = r.u.done /\ cur'[c].current = r.u.current
  <2>1. CASE Became(c, r.u, r.w, r.doc)
    <3>1. /\ cur' = [cur EXCEPT ![c] = r.u]
          /\ given' = IF r.doc = None THEN given ELSE [given EXCEPT ![c] = Append(@, r.doc)]
      BY <2>1 DEF Became
    <3>2. cur'[c] = r.u /\ \A d \in Cursor \ {c} : cur'[d] = cur[d]
      BY <3>1 DEF Inv, TypeOK
    <3>3. QED BY <3>1, <3>2
  <2>2. CASE Gone(c, r.u, r.w, r.doc)
    <3>1. r.u \in CursorType
      BY <1>3, CallsFitIn DEF Fits
    <3>2. QED BY <2>2, <3>1, GoneIs
  <2>3. QED BY <1>1, <2>1, <2>2
<1>5. QED BY <1>2, <1>3, <1>4, CallRefines

LEMMA FreeRefines ==
    ASSUME Inv, NEW c \in Cursor, Free(c)
    PROVE  UNCHANGED RS!vars
<1>1. Gone(c, cur[c], wire, None) /\ query' = query /\ docs' = docs
  BY DEF Free
<1>2. cur[c] \in CursorType
  BY DEF Inv, TypeOK
<1>3. /\ given' = given
      /\ \A d \in Cursor \ {c} : cur'[d] = cur[d]
      /\ cur'[c].error = cur[c].error /\ cur'[c].done = cur[c].done
      /\ cur'[c].current = cur[c].current
  BY <1>1, <1>2, GoneIs
<1>4. PICK v : v = cur'
  OBVIOUS
<1>5. EndsOf(v, query)[c] = EndsOf(cur, query)[c]
  BY <1>3, <1>4 DEF EndsOf
<1>6. EndsOf(v, query) = EndsOf(cur, query)
  <2>1. PICK u : u = cur
    OBVIOUS
  <2>2. PICK q : q = query
    OBVIOUS
  <2>3. SameBut(c, u, v)
    BY <1>3, <1>4, <2>1 DEF SameBut
  <2>4. EndsOf(v, q)[c] = EndsOf(u, q)[c] => EndsOf(v, q) = EndsOf(u, q)
    BY <2>3, EndsChange
  <2>5. QED BY <1>5, <2>1, <2>2, <2>4
<1>7. EndsOf(cur', query') = EndsOf(cur, query) /\ ShownOf(given') = ShownOf(given)
  BY <1>1, <1>3, <1>4, <1>6
<1>8. QED BY <1>1, <1>7, AbstractStutter

\* Every step is one of the abstract cursors or none.
LEMMA StepRefines ==
    ASSUME Inv, Inv', [Next]_vars
    PROVE  RS!Next \/ UNCHANGED RS!vars
<1>1. ASSUME NEW c \in Cursor,
             \/ Execute(c) \/ GetIterator(c) \/ Rewind(c) \/ MoveForward(c)
             \/ SetTypeMap(c) \/ Free(c) \/ Push(c) \/ Insert(c)
      PROVE  RS!Next \/ UNCHANGED RS!vars
  <2>1. CASE Execute(c)
    BY <2>1, ExecuteRefines
  <2>2. CASE MoveForward(c)
    BY <2>2, MoveForwardRefines
  <2>3. CASE Free(c)
    BY <2>3, FreeRefines
  <2>4. CASE GetIterator(c) \/ Rewind(c) \/ SetTypeMap(c) \/ Push(c)
    <3>1. query' = query /\ docs' = docs /\ cur' = cur /\ given' = given
      BY <2>4 DEF GetIterator, Rewind, SetTypeMap, Push
    <3>2. QED BY <3>1, SameRefines
  <2>5. CASE Insert(c)
    <3>1. /\ query[c].tailable /\ docs' = [docs EXCEPT ![c] = docs[c] + 1]
          /\ query' = query /\ cur' = cur /\ given' = given
      BY <2>5 DEF Insert
    <3>2. RS!Insert(c)
      BY <3>1, AbstractInsert
    <3>3. QED BY <3>2, Zenon DEF RS!Next
  <2>6. QED BY <1>1, <2>1, <2>2, <2>3, <2>4, <2>5
<1>2. CASE AppCommand \/ Scan \/ UNCHANGED vars
  <2>1. query' = query /\ docs' = docs /\ cur' = cur /\ given' = given
    BY <1>2 DEF AppCommand, Scan, vars
  <2>2. QED BY <2>1, SameRefines
<1>3. QED BY <1>1, <1>2 DEF Next

\* Each cursor gives the documents of its query, each once and in order, and ends without an error
\* only when it has given them all or asked for a single batch, whatever the protocol, the sizes of
\* the batches and what gets lost.
THEOREM CursorsReturnResultSets ==
    ASSUME ~Scans
    PROVE  Spec => ReturnsResultSet
<1>1. Init => RS!Init
  BY InitRefines
<1>2. Inv /\ Inv' /\ [Next]_vars => [RS!Next]_RS!vars
  BY StepRefines
<1>3. QED BY <1>1, <1>2, InvIsInvariant, PTL DEF Spec, ReturnsResultSet, RS!Spec
===============================================================================
