------------------------------- MODULE Cursor -------------------------------
(***************************************************************************)
(* The cursors of one single-threaded client and one server, from the PHP  *)
(* object (MongoDB\Driver\Cursor and its iterator) through mongoc_cursor_t *)
(* to the stream they share: queries in the old protocol, in exhaust mode  *)
(* or not, the find command, and aggregations whose batches are asked for  *)
(* in the old protocol.  One round trip is one action.  What the server    *)
(* puts into a batch, and whether an answer arrives, is a choice; a server *)
(* that has more for a query never sends an empty batch of it.             *)
(***************************************************************************)
EXTENDS Integers, SequencesExt

CONSTANTS
    Cursor,     \* the cursors, each of which is used once
    Queries,    \* what the cursors ask for: functions from Cursor to QueryType
    None,       \* no document, no reply
    Scans,      \* whether the topology may be scanned while a cursor is in exhaust
    MaxDocs,    \* bounds on the documents that match the query of each cursor
    MaxCalls    \* bound on the calls of mongoc_cursor_next of a cursor

Kind == {"query", "exhaust", "find", "aggregate"}

QueryType == [kind: Kind, limit: Int, batchSize: Nat, tailable: BOOLEAN]

ASSUME QueryAssumption ==
    /\ Queries \subseteq [Cursor -> QueryType]
    /\ \A q \in Queries, c \in Cursor : q[c].kind \in {"exhaust", "aggregate"} => q[c].limit = 0
    /\ MaxDocs \in [Cursor -> Nat]
    /\ MaxCalls \in Nat
    /\ Scans \in BOOLEAN

VARIABLES
    query,      \* the query of each cursor
    docs,       \* how many documents match it
    wire,       \* the stream and the server behind it: see WireType
    cur,        \* the mongoc_cursor_t's
    php,        \* the PHP objects
    given,      \* the documents that mongoc_cursor_next has returned of each
    abandoned,  \* cursors which the client had no way to close on the server
    mistaken    \* whether a command took the reply of another request for its own

vars == <<query, docs, wire, cur, php, given, abandoned, mistaken>>

Magnitude(n) == IF n < 0 THEN -n ELSE n
AtMost(m, n) == IF m < n THEN m ELSE n

Document == UNION {{c} \X (1 .. MaxDocs[c]) : c \in Cursor}

ReplyType ==
    [kind: {"batch", "cursor", "ok", "error", "rest"}, of: Cursor \cup {None}, nth: Nat,
     docs: Seq(Document), more: BOOLEAN]

ASSUME NoneIsNothing == None \notin Document /\ None \notin ReplyType

\* open: whether the client has a stream; pipe: the replies in it; answer: the one that
\* the last round trip took.  srv: of each cursor, whether the server has it open, how
\* many documents and replies it has sent, whether it goes on by itself.
WireType ==
    [open: BOOLEAN, pipe: Seq(ReplyType), answer: ReplyType \cup {None},
     srv: [Cursor -> [open: BOOLEAN, sent: Nat, replies: Nat, pushing: BOOLEAN]]]

CursorType ==
    [sent: BOOLEAN,     \* the first request was sent
     error: {"none", "inExhaust", "completed", "failed", "aborted"},
     done: BOOLEAN, count: Nat,
     id: BOOLEAN,       \* rpc.reply.cursor_id # 0
     buffer: Seq(Document),         \* what is left of the batch
     replies: Nat,      \* replies accepted, by which one in exhaust knows the next
     inExhaust: BOOLEAN, current: Document \cup {None}]

-----------------------------------------------------------------------------
(* The server.                                                             *)

\* A reply: to a query or getMore, to a command with a cursor, or an error.
Reply(w, kind, c, batch, more) ==
    [kind |-> kind, of |-> c, nth |-> w.srv[c].replies + 1, docs |-> batch, more |-> more]

\* The reply to another command, and what is left of one that was not read to its end.
Plain == [kind |-> "ok", of |-> None, nth |-> 0, docs |-> <<>>, more |-> FALSE]
Rest == [Plain EXCEPT !.kind = "rest"]

\* The find command knows the limit.
Total(c) ==
    LET limit == Magnitude(query[c].limit)
    IN IF query[c].kind = "find" /\ limit > 0 THEN AtMost(docs[c], limit) ELSE docs[c]

\* How many documents the next batch has when n were asked for, and whether the
\* cursor stays open.
Batches(w, c, n) ==
    LET left == Total(c) - w.srv[c].sent
        limited == query[c].kind = "find" /\ query[c].limit # 0
                   /\ w.srv[c].sent + left = Magnitude(query[c].limit)
    IN {b \in [size : 0 .. left, more : BOOLEAN] :
          /\ n # 0 => b.size <= Magnitude(n)
          /\ b.size = 0 => left = 0
          /\ b.more => n >= 0 /\ ~(limited /\ b.size = left)
          /\ b.more => b.size > 0 \/ query[c].tailable
          /\ ~b.more => n < 0 \/ b.size = left}

Documents(w, c, b) == [i \in 1 .. b.size |-> <<c, w.srv[c].sent + i>>]

\* The server has dealt with a request of cursor c, for which it has a batch, or fails.
Served(w, c, b, pushing) ==
    [w.srv EXCEPT ![c] = [open |-> b.more, sent |-> @.sent + b.size,
                          replies |-> @.replies + 1, pushing |-> pushing /\ b.more]]
Refused(w, c) ==
    [w.srv EXCEPT ![c].open = FALSE, ![c].pushing = FALSE, ![c].replies = @ + 1]

\* What is left of the server's cursors s when the stream is closed: one in exhaust
\* ends with it.
Dropped(s) == [c \in Cursor |-> [s[c] EXCEPT !.open = s[c].open /\ ~s[c].pushing,
                                             !.pushing = FALSE]]

\* The server goes on with a cursor in exhaust.
Push(c) ==
    /\ wire.open
    /\ wire.srv[c].pushing
    /\ \/ \E b \in Batches(wire, c, query[c].batchSize) :
             wire' = [wire EXCEPT !.srv = Served(wire, c, b, TRUE),
                                  !.pipe = Append(@, Reply(wire, "batch", c,
                                                    Documents(wire, c, b), b.more))]
       \/ wire' = [wire EXCEPT !.srv = Refused(wire, c),
                               !.pipe = Append(@, Reply(wire, "error", c, <<>>, FALSE))]
    /\ UNCHANGED <<query, docs, cur, php, given, abandoned, mistaken>>

\* Documents that a tailable cursor will see are inserted.
Insert(c) ==
    /\ query[c].tailable
    /\ docs[c] < MaxDocs[c]
    /\ docs' = [docs EXCEPT ![c] = @ + 1]
    /\ UNCHANGED <<query, wire, cur, php, given, abandoned, mistaken>>

-----------------------------------------------------------------------------
(* Round trips, each of which is the set of ways in which it may end.      *)

\* mongoc_cluster_disconnect_node.
Disconnected(s) == [open |-> FALSE, pipe |-> <<>>, srv |-> Dropped(s), answer |-> None]

\* The request is not sent.  That closes the stream of a command; what sends an
\* operation of the old protocol leaves it as it is.
Unsent(w, command) ==
    IF w.open /\ ~command THEN {Disconnected(w.srv), [w EXCEPT !.answer = None]}
                          ELSE {Disconnected(w.srv)}

\* The client reads what comes first.  A command is content with any reply of one
\* document; of another it reads the header and leaves the rest where it is.
Taken(w, command) ==
    LET a == Head(w.pipe)
        foreign == a.kind = "rest" \/ (a.kind = "batch" /\ Len(a.docs) # 1)
    IN IF a.kind = "rest" /\ ~command THEN Disconnected(w.srv)
       ELSE [w EXCEPT !.pipe = IF command /\ foreign THEN <<Rest>> \o Tail(@) ELSE Tail(@),
                      !.answer = IF command /\ foreign THEN None ELSE a]

\* The reply of the server, whose cursors are s then, goes to the end of the pipe.
Answered(w, reply, s, command) ==
    Taken([w EXCEPT !.open = TRUE, !.srv = s,
                    !.pipe = IF w.open THEN Append(@, reply) ELSE <<reply>>], command)

\* A request of cursor c for a batch of n.
Requests(w, c, n, kind, pushing) ==
    LET command == kind = "cursor"
        batches == IF w.srv[c].replies > 0 /\ ~w.srv[c].open THEN {} ELSE Batches(w, c, n)
    IN Unsent(w, command)
       \cup {Disconnected(Served(w, c, b, pushing)) : b \in batches}
       \cup {Answered(w, Reply(w, kind, c, Documents(w, c, b), b.more),
                      Served(w, c, b, pushing), command) : b \in batches}
       \cup {Answered(w, Reply(w, "error", c, <<>>, FALSE), Refused(w, c), command)}

\* mongoc_cluster_run_command for a command that is about no batch, and leaves the
\* server's cursors as s.
Commands(w, s) ==
    Unsent(w, TRUE) \cup {Disconnected(s), Answered(w, Plain, s, TRUE)}

\* The next batch in exhaust: nothing is sent.  The stream may be gone and another one
\* opened, from which nothing comes.
Receives(w) ==
    {Disconnected(w.srv)} \cup IF w.open /\ w.pipe # <<>> THEN {Taken(w, FALSE)} ELSE {}

-----------------------------------------------------------------------------
(* mongoc_cursor_next: the set of what it may make of the cursor, u, and   *)
(* of the stream, w, with the document it returns.                         *)

\* client->in_exhaust, which the cursor that sets it resets.
InExhaust == \E c \in Cursor : cur[c].inExhaust

UsesOpQuery(c) == query[c].kind \in {"query", "exhaust"}

\* _mongoc_n_return.
NReturn(c) ==
    LET limit == query[c].limit
        size == query[c].batchSize
        remaining == limit - cur[c].count
    IN CASE limit < 0 -> limit
         [] limit > 0 -> IF size = 0 THEN remaining ELSE AtMost(size, remaining)
         [] OTHER -> size

\* BSON_ASSERT (remaining > 0) does not hold, and the program ends.
Aborts(c) ==
    /\ query[c].limit > 0 /\ query[c].limit <= cur[c].count
    /\ IF query[c].kind = "find" THEN query[c].batchSize > 0 ELSE ~query[c].tailable

\* What the first request asks for, and the following ones.
First(c) == IF query[c].kind = "find" /\ query[c].limit >= 0 THEN query[c].batchSize
                                                            ELSE NReturn(c)
Following(c) ==
    IF query[c].kind = "find" THEN IF query[c].batchSize = 0 THEN 0 ELSE Magnitude(NReturn(c))
    ELSE IF query[c].tailable THEN 0 ELSE NReturn(c)

\* The reply to an operation of the old protocol has to be the nth of this cursor.
OpReply(c, u, w, nth) ==
    LET a == w.answer
    IN IF a = None THEN [u EXCEPT !.error = "failed"]
       ELSE IF a.of # c \/ a.nth # nth \/ a.kind = "error"
            THEN [u EXCEPT !.error = "failed", !.id = a.more]
            ELSE [u EXCEPT !.buffer = a.docs, !.id = a.more, !.replies = nth]

\* Mutated: an empty batch is taken for the last one.
CommandReplyEndsEmpty(u, w) ==
    LET a == w.answer
    IN IF a = None \/ a.kind # "cursor" THEN [u EXCEPT !.error = "failed"]
       ELSE [u EXCEPT !.buffer = a.docs, !.id = a.more /\ a.docs # <<>>, !.replies = @ + 1]

\* The reply to a command has to hold a cursor.
CommandReply(u, w) ==
    LET a == w.answer
    IN IF a = None \/ a.kind # "cursor" THEN [u EXCEPT !.error = "failed"]
       ELSE [u EXCEPT !.buffer = a.docs, !.id = a.more, !.replies = @ + 1]

ByOp(c, u, ws) ==
    {[u |-> OpReply(c, u, w, w.srv[c].replies), w |-> w] : w \in ws}
ByCommand(u, ws) == {[u |-> CommandReply(u, w), w |-> w] : w \in ws}

\* _mongoc_cursor_initial_query, or the command that an aggregation begins with.
InitialQuery(c) ==
    LET u == [cur[c] EXCEPT !.sent = TRUE]
        exhaust == query[c].kind = "exhaust"
    IN IF query[c].kind = "find" THEN ByCommand(u, Requests(wire, c, First(c), "cursor", FALSE))
       ELSE {[r EXCEPT !.u.inExhaust = exhaust /\ r.u.error = "none"] :
                r \in ByOp(c, u, Requests(wire, c, First(c), "batch", exhaust))}

\* _mongoc_cursor_get_more and _mongoc_cursor_cursorid_get_more.
GetMore(c, u, w) ==
    IF u.inExhaust
    THEN {[u |-> OpReply(c, u, x, u.replies + 1), w |-> x] : x \in Receives(w)}
    ELSE IF Aborts(c) THEN {[u |-> [u EXCEPT !.error = "aborted"], w |-> w]}
    ELSE IF query[c].kind = "find"
    THEN ByCommand(u, Requests(w, c, Following(c), "cursor", FALSE))
    ELSE ByOp(c, u, Requests(w, c, Following(c), "batch", FALSE))

\* Mutated: the document stays in the batch.
ReadingStays(r) ==
    [u |-> r.u, w |-> r.w, doc |-> IF r.u.buffer = <<>> THEN None ELSE Head(r.u.buffer)]

\* The next document of what was read, if there is one.
Reading(r) ==
    IF r.u.buffer = <<>> THEN [u |-> r.u, w |-> r.w, doc |-> None]
    ELSE [u |-> [r.u EXCEPT !.buffer = Tail(@)], w |-> r.w, doc |-> Head(r.u.buffer)]

\* Mutated: only a cursor in exhaust is done.
OpDoneInExhaust(c, r) ==
    [r EXCEPT !.u.done = r.u.replies > 0 /\ r.u.buffer = <<>> /\ r.u.inExhaust /\ ~r.u.id]

\* The end of _mongoc_cursor_next.
OpDone(c, r) ==
    [r EXCEPT !.u.done = /\ r.u.replies > 0
                         /\ r.u.buffer = <<>>
                         /\ \/ r.u.inExhaust /\ ~r.u.id
                            \/ r.doc = None /\ ~query[c].tailable]

\* _mongoc_cursor_next.
OpNext(c) ==
    LET u == cur[c]
        limit == Magnitude(query[c].limit)
        same == {[u |-> u, w |-> wire]}
    IN IF limit > 0 /\ u.count >= limit
       THEN {[u |-> [u EXCEPT !.done = TRUE], w |-> wire, doc |-> None]}
       ELSE {OpDone(c, Reading(r)) :
               r \in CASE u.buffer # <<>> -> same
                       [] ~u.sent -> InitialQuery(c)
                       [] u.sent /\ u.buffer = <<>> ->
                             IF u.id THEN GetMore(c, u, wire) ELSE same}

\* _mongoc_cursor_cursorid_next.  The first call of a find comes by _mongoc_cursor_next,
\* which resets done.
CursoridNext(c) ==
    LET primed == IF cur[c].sent THEN {[u |-> cur[c], w |-> wire]} ELSE InitialQuery(c)
        refreshed == UNION {IF r.u.error = "none" /\ r.u.buffer = <<>> /\ r.u.id
                            THEN GetMore(c, r.u, r.w) ELSE {r} : r \in primed}
        first == ~cur[c].sent /\ query[c].kind = "find"
    IN {[r EXCEPT !.u.done = ~first /\ (@ \/ (r.doc = None /\ ~r.u.id))] :
           r \in {Reading(x) : x \in refreshed}}

\* Why mongoc_cursor_next does nothing.
Objection(c) ==
    CASE cur[c].error # "none" -> cur[c].error
      [] cur[c].error = "none" /\ cur[c].done -> "completed"
      [] cur[c].error = "none" /\ ~cur[c].done ->
            IF InExhaust /\ ~cur[c].inExhaust THEN "inExhaust" ELSE "none"

NextCalls(c) ==
    IF Objection(c) # "none"
    THEN {[u |-> [cur[c] EXCEPT !.error = Objection(c)], w |-> wire, doc |-> None]}
    ELSE {[r EXCEPT !.u.count = @ + 1, !.u.current = r.doc] :
            r \in IF UsesOpQuery(c) THEN OpNext(c) ELSE CursoridNext(c)}

\* Mutated: the stream of a cursor in exhaust stays open.
DestroysKeepStream(c, u, w) ==
    LET closed == [w.srv EXCEPT ![c].open = FALSE]
        unsent == Unsent(w, query[c].kind = "find")
        sent == IF query[c].kind = "find" THEN Commands(w, closed) \ unsent
                                          ELSE {[w EXCEPT !.srv = closed]}
        told(x) == [w |-> x, told |-> TRUE]
        untold(x) == [w |-> x, told |-> FALSE]
    IN CASE u.inExhaust -> {told(w)}
         [] ~u.inExhaust /\ ~u.id -> {told(w)}
         [] ~u.inExhaust /\ u.id ->
               IF ~w.open \/ InExhaust THEN {untold(w)}
               ELSE {told(x) : x \in sent} \cup {untold(x) : x \in unsent}

\* _mongoc_cursor_destroy: what may become of the stream, and whether the server was
\* told.
Destroys(c, u, w) ==
    LET closed == [w.srv EXCEPT ![c].open = FALSE]
        unsent == Unsent(w, query[c].kind = "find")
        sent == IF query[c].kind = "find" THEN Commands(w, closed) \ unsent
                                          ELSE {[w EXCEPT !.srv = closed]}
        told(x) == [w |-> x, told |-> TRUE]
        untold(x) == [w |-> x, told |-> FALSE]
    IN CASE u.inExhaust -> {told(IF u.done THEN w ELSE Disconnected(w.srv))}
         [] ~u.inExhaust /\ ~u.id -> {told(w)}
         [] ~u.inExhaust /\ u.id ->
               IF ~w.open \/ InExhaust THEN {untold(w)}
               ELSE {told(x) : x \in sent} \cup {untold(x) : x \in unsent}

-----------------------------------------------------------------------------
(* The application: a cursor comes to it with its first document read.     *)

Idle(w) == [w EXCEPT !.answer = None]

Became(c, u, w, doc) ==
    /\ cur' = [cur EXCEPT ![c] = u]
    /\ wire' = Idle(w)
    /\ given' = IF doc = None THEN given ELSE [given EXCEPT ![c] = Append(@, doc)]

Gone(c, u, w, doc) ==
    \E d \in Destroys(c, u, w) :
        /\ Became(c, [u EXCEPT !.inExhaust = FALSE], d.w, doc)
        /\ abandoned' = IF d.told THEN abandoned ELSE abandoned \cup {c}
        /\ php' = [php EXCEPT ![c].stage = "gone", ![c].child = None]

\* phongo_execute_query and phongo_execute_command.  When the first call fails the
\* cursor is destroyed and the application gets an exception.
Execute(c) ==
    /\ php[c].stage = "new"
    /\ \E r \in NextCalls(c) :
          \/ /\ r.u.error = "none"
             /\ Became(c, r.u, r.w, r.doc)
             /\ php' = [php EXCEPT ![c].stage = "made"]
             /\ UNCHANGED abandoned
          \/ /\ r.u.error # "none"
             /\ Gone(c, r.u, r.w, r.doc)
    /\ UNCHANGED <<query, docs, mistaken>>

\* A cursor has one iterator.
GetIterator(c) ==
    /\ php[c].stage = "made" /\ ~php[c].iterating
    /\ php' = [php EXCEPT ![c].iterating = TRUE, ![c].child = None]
    /\ UNCHANGED <<query, docs, wire, cur, given, abandoned, mistaken>>

Rewind(c) ==
    /\ php[c].stage = "made" /\ php[c].iterating /\ php[c].key = 0
    /\ php' = [php EXCEPT ![c].child = cur[c].current]
    /\ UNCHANGED <<query, docs, wire, cur, given, abandoned, mistaken>>

\* Mutated: the previous document stays when there is no other.
MoveForwardKeepsChild(c) ==
    /\ php[c].stage = "made" /\ php[c].iterating /\ php[c].key < MaxCalls
    /\ \E r \in NextCalls(c) :
          /\ Became(c, r.u, r.w, r.doc)
          /\ php' = [php EXCEPT ![c].key = @ + 1,
                                ![c].child = IF r.doc = None THEN @ ELSE r.doc]
    /\ UNCHANGED <<query, docs, abandoned, mistaken>>

MoveForward(c) ==
    /\ php[c].stage = "made" /\ php[c].iterating /\ php[c].key < MaxCalls
    /\ \E r \in NextCalls(c) :
          /\ Became(c, r.u, r.w, r.doc)
          /\ php' = [php EXCEPT ![c].key = @ + 1, ![c].child = r.doc]
    /\ UNCHANGED <<query, docs, abandoned, mistaken>>

\* The current document is decoded again.
SetTypeMap(c) ==
    /\ php[c].stage = "made"
    /\ php' = [php EXCEPT ![c].child = cur[c].current]
    /\ UNCHANGED <<query, docs, wire, cur, given, abandoned, mistaken>>

Free(c) ==
    /\ php[c].stage = "made"
    /\ Gone(c, cur[c], wire, None)
    /\ UNCHANGED <<query, docs, mistaken>>

\* Some other command of the application.
AppCommand ==
    /\ ~InExhaust
    /\ \E w \in Commands(wire, wire.srv) :
          /\ wire' = Idle(w)
          /\ mistaken' = (mistaken \/ (w.answer # None /\ wire.open /\ wire.pipe # <<>>))
    /\ UNCHANGED <<query, docs, cur, php, given, abandoned>>

\* The topology is scanned: an ismaster on the same stream.
Scan ==
    /\ Scans \/ ~InExhaust
    /\ LET w == Answered(wire, Plain, wire.srv, TRUE)
       IN \/ wire' = Disconnected(wire.srv)
          \/ w.answer # None /\ wire' = Idle(w)
    /\ UNCHANGED <<query, docs, cur, php, given, abandoned, mistaken>>

Init ==
    /\ query \in Queries
    /\ docs \in {d \in [Cursor -> UNION {0 .. MaxDocs[c] : c \in Cursor}] :
                  \A c \in Cursor : d[c] <= MaxDocs[c]}
    /\ wire = [open |-> FALSE, pipe |-> <<>>, answer |-> None,
               srv |-> [c \in Cursor |-> [open |-> FALSE, sent |-> 0, replies |-> 0,
                                          pushing |-> FALSE]]]
    /\ cur = [c \in Cursor |->
                [sent |-> FALSE, error |-> "none", done |-> FALSE, count |-> 0, id |-> FALSE,
                 buffer |-> <<>>, replies |-> 0, inExhaust |-> FALSE, current |-> None]]
    /\ php = [c \in Cursor |-> [stage |-> "new", iterating |-> FALSE, key |-> 0,
                                child |-> None]]
    /\ given = [c \in Cursor |-> <<>>]
    /\ abandoned = {}
    /\ mistaken = FALSE

Next ==
    \/ \E c \in Cursor : \/ Execute(c) \/ GetIterator(c) \/ Rewind(c) \/ MoveForward(c)
                         \/ SetTypeMap(c) \/ Free(c) \/ Push(c) \/ Insert(c)
    \/ AppCommand
    \/ Scan

Spec == Init /\ [][Next]_vars

\* An application that iterates goes on doing so.
FairSpec == Spec /\ \A c \in Cursor : WF_vars(MoveForward(c))

-----------------------------------------------------------------------------
(* Properties.                                                             *)

\* Types, with what the unread rest of a batch is: the documents that follow those
\* already returned.
TypeOK ==
    /\ query \in Queries
    /\ DOMAIN docs = Cursor /\ \A c \in Cursor : docs[c] \in 0 .. MaxDocs[c]
    /\ wire \in WireType
    /\ cur \in [Cursor -> CursorType]
    /\ php \in [Cursor -> [stage: {"new", "made", "gone"}, iterating: BOOLEAN,
                           key: 0 .. MaxCalls, child: Document \cup {None}]]
    /\ given \in [Cursor -> Seq(Document)]
    /\ \A c \in Cursor : \A i \in DOMAIN cur[c].buffer :
          cur[c].buffer[i] = <<c, Len(given[c]) + i>>
    /\ abandoned \subseteq Cursor
    /\ mistaken \in BOOLEAN

\* Whatever the protocol, the batches and the failures, the documents a cursor returns
\* are the first ones of its query, each once and in order, and it ends without an
\* error only when it has returned them all.
RS == INSTANCE ResultSet WITH
        Query <- QueryType,
        given <- [c \in Cursor |->
                    [i \in DOMAIN given[c] |-> IF given[c][i][1] = c THEN given[c][i][2] ELSE 0]],
        end <- [c \in Cursor |->
                  CASE cur[c].error # "none" -> "failed"
                    [] cur[c].error = "none" /\ cur[c].done /\ cur[c].current = None
                       /\ ~query[c].tailable -> "noMore"
                    [] OTHER -> "none"]

ReturnsResultSet == RS!Spec

\* The stream is shared by the cursors and by commands, which do not look at what a
\* reply responds to: nothing is in it when a command is sent, unless a cursor is in
\* exhaust (when none is sent).
CommandsTakeTheirReplies == ~mistaken

\* When the application lets a cursor go whose every reply was read, the server closes
\* it, unless it could not be told.
NothingLeaks ==
    \A c \in Cursor :
        php[c].stage = "gone" /\ wire.srv[c].open /\ wire.srv[c].replies = cur[c].replies
        => c \in abandoned

\* What the iterator of a working cursor shows is the last document that was returned,
\* and its key is the number of that document, unless the cursor is tailable.
ShowsLastDocument ==
    \A c \in Cursor :
        php[c].child # None /\ cur[c].error = "none" =>
            /\ php[c].child = Last(given[c])
            /\ query[c].tailable \/ php[c].key = Len(given[c]) - 1

\* mongoc-cursor.c:145, BSON_ASSERT (remaining > 0): no cursor asks for more documents
\* when it has reached its limit, but a tailable one, whose count is also raised by the calls
\* that find none.
LimitRemains ==
    \A c \in Cursor : cur[c].error = "aborted" => query[c].tailable /\ query[c].limit > 0

\* Cursors, their buffers and their iterators agree.
CursorsAreSound == TypeOK /\ ShowsLastDocument /\ LimitRemains

\* Going on with a cursor that is not tailable leads to its end, if it is not let go before.
IterationEnds ==
    \A c \in Cursor :
        php[c].iterating /\ ~query[c].tailable ~>
            cur[c].done \/ cur[c].error # "none" \/ php[c].stage = "gone"

=============================================================================
