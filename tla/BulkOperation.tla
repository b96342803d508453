---------------------------- MODULE BulkOperation ----------------------------
(***************************************************************************)
(* A mongoc_bulk_operation_t, through which every write of the PHP driver  *)
(* goes: the operations that are added to it, the commands they are merged *)
(* into, and mongoc_bulk_operation_execute, which sends each command in    *)
(* as many batches as it needs and merges the answers into one result.     *)
(* A BulkWrite of PHP holds one and executes it once, and a bulk of        *)
(* libmongoc may be executed again; what is added to either after it was   *)
(* executed is left out.  The writes of a mongoc_collection_t make one     *)
(* command of their own.                                                   *)
(* The client is single-threaded and one round trip is one action; what    *)
(* the server does with a batch, and whether its answer arrives, is a      *)
(* choice.  Operations are known by their position in the bulk; those that *)
(* are refused, for their options or keys, change nothing and are no       *)
(* action.                                                                 *)
(***************************************************************************)
EXTENDS Integers, Sequences, FiniteSets, FiniteSetsExt

CONSTANTS
    Operation,          \* what may be added: a type, a size, whether it has a collation or upserts
    Server,             \* the kinds of server: without write commands, without collation, with both
    Acknowledgement,    \* whether the write concern asks for an answer
    AppendLimit,        \* MONGOC_DEFAULT_WRITE_BATCH_SIZE
    MaxDocumentSize,    \* the server's maxBsonObjectSize
    Slack,              \* the room a command has beyond it
    MaxMessageSize,     \* what the server's maxMessageSizeBytes leaves for documents
    MaxWriteBatchSize,  \* the server's maxWriteBatchSize, 0 when it has none
    MaxOperations       \* bound on the operations of a bulk

ServerKind == {"old", "write commands", "collation"}

OperationType == [type: {"insert", "update", "delete"}, size: Nat \ {0},
                  collation: BOOLEAN, upsert: BOOLEAN]

ASSUME OperationAssumption ==
    /\ Operation \subseteq OperationType
    /\ \A o \in Operation : /\ o.type = "insert" => ~o.collation
                            /\ o.upsert => o.type = "update"
ASSUME ServerAssumption == Server \subseteq ServerKind /\ Acknowledgement \subseteq BOOLEAN
ASSUME LimitAssumption ==
    /\ AppendLimit \in Nat \ {0}
    /\ {MaxDocumentSize, Slack, MaxMessageSize, MaxWriteBatchSize, MaxOperations} \subseteq Nat
    /\ MaxDocumentSize <= MaxMessageSize

VARIABLES
    ops,        \* the operations of the bulk
    commands,   \* bulk->commands: each a type and the interval of its operations
    bulk,       \* its flags and write concern, the server it is sent to, and whether it is
                \* executed once
    phase,      \* "building", "executing" or "done"
    current,    \* the command being executed
    next,       \* the first of its operations that no batch had yet
    offset,     \* the offset of mongoc_bulk_operation_execute
    at,         \* that of the callee, which indices in answers are relative to
    result,     \* bulk->result
    fate,       \* what became of each operation
    sends,      \* how often each was sent
    late,       \* those the server answered with a write concern error
    stream      \* the server's: "open", "closed", or "out of step" with part of a message left

vars == <<ops, commands, bulk, phase, current, next, offset, at, result, fate, sends, late, stream>>

callVars == <<ops, commands, bulk>>

placeVars == <<current, next, offset, at>>

Command == commands[current]

Ids == DOMAIN ops

Size(S) == MapThenSumSet(LAMBDA i : ops[i].size, S)

Large(i) == ops[i].size > MaxDocumentSize

-----------------------------------------------------------------------------
(* The bulk.                                                               *)

Count(c) == c.last - c.first + 1

\* SHOULD_APPEND: an operation joins the last command if that is of its type and
\* not full.
Joins(o) ==
    /\ commands # <<>>
    /\ LET c == commands[Len(commands)] IN c.type = o.type /\ Count(c) < AppendLimit

NewCommand(type, first, last, collation, singly) ==
    [type |-> type, first |-> first, last |-> last, collation |-> collation, singly |-> singly]

\* An operation is appended to the last command or begins one.  An insert is sent in messages
\* of one document if the write concern was acknowledged when its command was begun.
AddOperation(o) ==
    LET id == Len(ops) + 1
        k == Len(commands)
    IN /\ phase = "building"
       /\ Len(ops) < MaxOperations
       /\ ops' = Append(ops, o)
       /\ commands' = IF Joins(o)
             THEN [commands EXCEPT ![k].last = id,
                                   ![k].collation = commands[k].collation \/ o.collation]
             ELSE Append(commands, NewCommand(o.type, id, id, o.collation, bulk.acknowledged))
       /\ fate' = Append(fate, "waiting")
       /\ sends' = Append(sends, 0)
       /\ UNCHANGED <<bulk, phase, placeVars, result, late, stream>>

Insert(o) == o.type = "insert" /\ ~bulk.once /\ AddOperation(o)

\* A document of operators, for one or for many, or one that replaces another.
Update(o) == o.type = "update" /\ ~bulk.once /\ AddOperation(o)

Remove(o) == o.type = "delete" /\ ~bulk.once /\ AddOperation(o)

\* The methods of a BulkWrite, whose count is the length of ops.
BulkWriteInsert(o) == o.type = "insert" /\ bulk.once /\ AddOperation(o)

BulkWriteUpdate(o) == o.type = "update" /\ bulk.once /\ AddOperation(o)

BulkWriteDelete(o) == o.type = "delete" /\ bulk.once /\ AddOperation(o)

SetWriteConcern(a) ==
    /\ ~bulk.once
    /\ phase = "building"
    /\ bulk' = [bulk EXCEPT !.acknowledged = a]
    /\ UNCHANGED <<ops, commands, phase, placeVars, result, fate, sends, late, stream>>

NoResult == [n |-> 0, upserted |-> {}, errors |-> {}, concernErrors |-> 0,
             failed |-> FALSE, mustStop |-> FALSE, error |-> FALSE]

\* Mutated: the result of the execution before is kept.
BeginKeeps(n) ==
    /\ \/ n > 0 /\ phase' = "executing" /\ UNCHANGED result
       \/ phase' = "done" /\ result' = [NoResult EXCEPT !.error = TRUE]
    /\ current' = 1 /\ next' = 1 /\ offset' = 0 /\ at' = 0
    /\ fate' = [i \in 1 .. n |-> "waiting"]
    /\ sends' = [i \in 1 .. n |-> 0]
    /\ late' = {}
    /\ stream' = IF stream = "closed" THEN "open" ELSE stream

\* The execution of n operations begins with no result, and ends at once if there are none
\* or no server to write to is found.
Begin(n) ==
    /\ \/ n > 0 /\ phase' = "executing" /\ result' = NoResult
       \/ phase' = "done" /\ result' = [NoResult EXCEPT !.error = TRUE]
    /\ current' = 1 /\ next' = 1 /\ offset' = 0 /\ at' = 0
    /\ fate' = [i \in 1 .. n |-> "waiting"]
    /\ sends' = [i \in 1 .. n |-> 0]
    /\ late' = {}
    /\ stream' = IF stream = "closed" THEN "open" ELSE stream

Execute ==
    /\ ~bulk.once
    /\ phase # "executing"
    /\ Begin(Len(ops))
    /\ UNCHANGED callVars

\* phongo_execute_write, with the write concern a: that of the call or of the client.
ExecuteWrite(a) ==
    /\ bulk.once
    /\ phase = "building"
    /\ Begin(Len(ops))
    /\ bulk' = [bulk EXCEPT !.acknowledged = a]
    /\ UNCHANGED <<ops, commands>>

\* A write of a collection that does not go through a bulk: one command is made, and
\* executed or not.
CollectionWrites(s, singly, a) ==
    /\ bulk.once
    /\ phase = "building" /\ ops = <<>>
    /\ ops' = s
    /\ commands' = <<NewCommand(s[1].type, 1, Len(s), FALSE, singly)>>
    /\ bulk' = [bulk EXCEPT !.acknowledged = a]
    /\ Begin(Len(s))

\* One operation, in order.
CollectionInsert(o, a) ==
    /\ bulk.ordered
    /\ o.type = "insert"
    /\ CollectionWrites(<<o>>, TRUE, a)

CollectionUpdate(o, a) ==
    /\ bulk.ordered
    /\ o.type = "update" /\ ~o.collation
    /\ CollectionWrites(<<o>>, TRUE, a)

CollectionRemove(o, a) ==
    /\ bulk.ordered
    /\ o.type = "delete" /\ ~o.collation
    /\ CollectionWrites(<<o>>, TRUE, a)

\* A document is inserted if it has no _id, and replaces the one that has it otherwise.
CollectionSave(o, a) == CollectionInsert(o, a) \/ CollectionUpdate(o, a)

\* mongoc_collection_insert_bulk: any number of documents in messages of many.
InsertBulk(s, a) ==
    IF s # <<>> THEN CollectionWrites(s, FALSE, a)
    ELSE /\ bulk.once
         /\ phase = "building" /\ ops = <<>>
         /\ phase' = "done"
         /\ \E found \in BOOLEAN : result' = [result EXCEPT !.error = TRUE, !.failed = found]
         /\ UNCHANGED <<callVars, placeVars, fate, sends, late, stream>>

\* Mutated: one of the two reasons to stop is not looked at.
StopsIfClosed(r) == r.failed /\ r.mustStop

\* A failed command ends the loop of an ordered bulk, and of any after the stream is
\* closed.
Stops(r) == r.failed /\ (bulk.ordered \/ r.mustStop)

\* Mutated: the operations of the command are not counted.
NextOffsetStays == offset

NextOffset == offset + Count(Command)

\* The loop of execute goes on with the next command, or it is over.
EndCommand(r) ==
    /\ result' = r
    /\ IF current = Len(commands) \/ Stops(r)
       THEN phase' = "done" /\ UNCHANGED placeVars
       ELSE /\ current' = current + 1
            /\ next' = commands[current + 1].first
            /\ offset' = NextOffset
            /\ at' = NextOffset
            /\ UNCHANGED phase

\* Mutated: the last operation of the batch is sent with the next one again.
GoOnRepeats(r, e, index) ==
    /\ result' = r
    /\ next' = IF e < next THEN e + 1 ELSE e
    /\ at' = index
    /\ UNCHANGED <<phase, current, offset>>

\* The callee goes on with the operation after e.
GoOn(r, e, index) ==
    /\ result' = r
    /\ next' = e + 1
    /\ at' = index
    /\ UNCHANGED <<phase, current, offset>>

Marked(S, what) == [i \in Ids |-> IF i \in S THEN what ELSE fate[i]]

\* The operations S are sent, or not; without a whole answer the stream may be
\* closed, and a message that is sent or read in part leaves it out of step.
Deliver(S, what) ==
    /\ sends' = [i \in Ids |-> IF i \in S /\ what # "unsent" THEN sends[i] + 1 ELSE sends[i]]
    /\ stream' \in CASE what = "unsent" -> {stream, "closed"}
                     [] what = "lost" -> {stream, "closed", "out of step"}
                     [] what = "truncated" -> {"out of step"}
                     [] OTHER -> {stream}

Failure(r) == [r EXCEPT !.failed = TRUE, !.error = TRUE]

\* A command whose collation cannot be honoured is not sent; a server with write
\* commands has error set, and not failed.
Refused == Command.collation /\ (bulk.server # "collation" \/ ~bulk.acknowledged)

Refuse ==
    /\ phase = "executing"
    /\ Refused
    /\ EndCommand([result EXCEPT !.error = TRUE,
                                 !.failed = result.failed \/ bulk.server = "old"])
    /\ UNCHANGED <<callVars, fate, sends, late, stream>>

-----------------------------------------------------------------------------
(* _mongoc_write_command.                                                  *)

UsesCommand ==
    /\ phase = "executing"
    /\ ~Refused
    /\ bulk.server # "old" /\ bulk.acknowledged

\* _mongoc_write_command_will_overflow, asked of operations next .. e.
Overflows(e) ==
    \/ Size(next .. e) > MaxDocumentSize + Slack
    \/ MaxWriteBatchSize > 0 /\ e - next >= MaxWriteBatchSize

\* The last operation that the batch has room for.
BatchEnd == Max({next - 1} \cup {e \in next .. Command.last : \A d \in next .. e : ~Overflows(d)})

\* What a server does with operations: ordered ones it gives up at the first it rejects.
Answers(S) ==
    {a \in [S -> {"applied", "upserted", "rejected", "skipped"}] :
        \A i \in S : /\ a[i] = "upserted" => ops[i].upsert
                     /\ a[i] = "skipped" <=> bulk.ordered /\ \E j \in S : j < i /\ a[j] = "rejected"}

With(S, answer, what) == {i \in S : answer[i] = what}

\* Mutated: write errors do not make the bulk fail.
MergeNeverFails(S, answer, concern) ==
    LET Indices(what) == {at + (i - next + 1) : i \in With(S, answer, what)}
    IN [result EXCEPT !.n = result.n + Cardinality(With(S, answer, "applied")),
                      !.upserted = result.upserted \cup Indices("upserted"),
                      !.errors = result.errors \cup Indices("rejected"),
                      !.concernErrors = result.concernErrors + (IF concern THEN 1 ELSE 0),
                      !.error = FALSE]

\* _mongoc_write_result_merge, after a run_command that cleared the error code.  concern is
\* whether the answer has a write concern error, which stops nothing.
Merge(S, answer, concern) ==
    LET Indices(what) == {at + (i - next + 1) : i \in With(S, answer, what)}
    IN [result EXCEPT !.n = result.n + Cardinality(With(S, answer, "applied")),
                      !.upserted = result.upserted \cup Indices("upserted"),
                      !.errors = result.errors \cup Indices("rejected"),
                      !.concernErrors = result.concernErrors + (IF concern THEN 1 ELSE 0),
                      !.failed = result.failed \/ With(S, answer, "rejected") # {},
                      !.error = FALSE]

\* The operations S are answered.
Answer(S, answer, concern) ==
    /\ Deliver(S, "answered")
    /\ fate' = [i \in Ids |-> IF i \in S THEN answer[i] ELSE fate[i]]
    /\ late' = IF concern THEN late \cup S ELSE late

\* The first operation that is left does not fit into a batch of its own.  An
\* unordered bulk tries it again.
TooLarge ==
    /\ UsesCommand
    /\ BatchEnd < next
    /\ IF bulk.ordered THEN EndCommand(Failure(result)) ELSE GoOn(Failure(result), next - 1, at)
    /\ UNCHANGED <<callVars, fate, sends, late, stream>>

\* One batch makes its round trip: ret, that the reply has ok, is not disturbed
\* by the write errors in it.  When the body of the reply cannot be read the buffer
\* for it is used as the reply, with what it holds.
RunBatch ==
    LET e == BatchEnd
        S == next .. e
        Proceed(r, ret) ==
            IF e < Command.last /\ (ret \/ ~bulk.ordered) /\ ~r.mustStop
            THEN GoOn(r, e, at + (e - next + 1)) ELSE EndCommand(r)
    IN /\ UsesCommand
       /\ S # {}
       /\ \/ \E what \in {"unsent", "lost"} :
                /\ Deliver(S, what)
                /\ fate' = Marked(S, what)
                /\ UNCHANGED late
                /\ Proceed([Failure(result) EXCEPT !.mustStop = TRUE], FALSE)
          \/ /\ stream = "open"
             /\ \/ \E answer \in Answers(S), concern \in BOOLEAN :
                      /\ Answer(S, answer, concern)
                      /\ Proceed(Merge(S, answer, concern), TRUE)
                \/ /\ Deliver(S, "skipped")
                   /\ fate' = Marked(S, "skipped")
                   /\ UNCHANGED late
                   /\ Proceed(Failure(result), FALSE)
                \/ \E answer \in Answers(S), ret \in BOOLEAN :
                   \E r \in {result, Merge(S, answer, FALSE)} :
                      /\ Deliver(S, "truncated")
                      /\ fate' = Marked(S, "truncated")
                      /\ UNCHANGED late
                      /\ Proceed([r EXCEPT !.failed = r.failed \/ ~ret, !.error = TRUE], ret)
       /\ UNCHANGED callVars

-----------------------------------------------------------------------------
(* The legacy write operations, each followed by a getlasterror if the     *)
(* write concern asks for one.                                             *)

UsesOpcodes ==
    /\ phase = "executing"
    /\ ~Refused
    /\ bulk.server = "old" \/ ~bulk.acknowledged

\* What may come of sending a legacy write and of its getlasterror: it is not sent
\* on a stream that is closed, and not answered on one that is out of step.
Outcome ==
    {what \in {"unsent", "lost", "unconfirmed", "answered"} :
        /\ what # "unsent" => stream # "closed"
        /\ what = "unconfirmed" => ~bulk.acknowledged
        /\ what = "answered" => bulk.acknowledged /\ stream = "open"}

\* _mongoc_write_result_merge_legacy: the answer tells of the last error only, and an insert
\* whose answer has one, be it of the write concern, is not counted.
MergeLegacy(r, S, answer, concern) ==
    IF With(S, answer, "rejected") # {}
    THEN [Failure(r) EXCEPT !.errors = r.errors \cup {at + 1}]
    ELSE LET counted == IF concern /\ Command.type = "insert" THEN {} ELSE S
         IN [r EXCEPT !.n = r.n + Cardinality(With(counted, answer, "applied")),
                      !.upserted = r.upserted \cup {at + 1 : i \in With(S, answer, "upserted")},
                      !.concernErrors = r.concernErrors + (IF concern THEN 1 ELSE 0)]

\* What the client may learn of one message with the operations S.
LegacyReplies(S) ==
    [what : Outcome \ {"answered"}]
        \cup {reply \in [what : Outcome \cap {"answered"}, answer : Answers(S), concern : BOOLEAN] :
                reply.concern => With(S, reply.answer, "rejected") = {}}

\* The message and its getlasterror.
SendLegacy(S, reply) ==
    IF reply.what = "answered"
    THEN Answer(S, reply.answer, reply.concern)
    ELSE /\ Deliver(S, reply.what)
         /\ fate' = Marked(S, reply.what)
         /\ UNCHANGED late

LegacyResult(r, S, reply) ==
    CASE reply.what = "answered"    -> MergeLegacy(r, S, reply.answer, reply.concern)
      [] reply.what = "unconfirmed" -> r
      [] OTHER                      -> Failure(r)

\* _mongoc_write_command_update_legacy and _mongoc_write_command_delete_legacy:
\* an operation that is too large, not valid, not sent or not confirmed ends them,
\* and one that is rejected does not.
LegacyWrite ==
    LET Proceed(what, r) ==
            IF next < Command.last /\ what \notin {"unsent", "lost"}
            THEN GoOn(r, next, IF what = "answered" THEN at + 1 ELSE at)
            ELSE EndCommand(r)
    IN /\ UsesOpcodes
       /\ Command.type # "insert"
       /\ \/ /\ Large(next) \/ (Command.type = "update" /\ next = Command.first)
             /\ EndCommand(Failure(result))
             /\ UNCHANGED <<fate, sends, late, stream>>
          \/ /\ ~Large(next)
             /\ \E reply \in LegacyReplies({next}) :
                   /\ SendLegacy({next}, reply)
                   /\ Proceed(reply.what, LegacyResult(result, {next}, reply))
       /\ UNCHANGED callVars

\* The batch that starts at next ends before an operation that has no room in it
\* and, if the bulk is ordered, at one that is too large.
InsertBatchEnd ==
    LET Ends(e) ==
            LET S == {i \in next .. e : ~Large(i)}
            IN \/ e = Command.last
               \/ bulk.ordered /\ Large(e)
               \/ /\ ~Large(e + 1)
                  /\ (Command.singly /\ S # {}) \/ Size(S \cup {e + 1}) > MaxMessageSize
    IN CHOOSE e \in next .. Command.last : Ends(e) /\ \A d \in next .. e - 1 : ~Ends(d)

\* _mongoc_write_command_insert_legacy: whatever becomes of a batch, the next one
\* follows.  One that has only documents that are too large is not sent.
LegacyInsert ==
    LET e == InsertBatchEnd
        tooLarge == {i \in next .. e : Large(i)}
        S == (next .. e) \ tooLarge
        index(i) == offset + i - Command.first + 1
        checked == IF tooLarge = {} THEN result
                   ELSE [Failure(result) EXCEPT
                            !.errors = result.errors \cup {index(i) : i \in tooLarge}]
        Proceed(what, r) ==
            IF e < Command.last /\ ~(bulk.ordered /\ e \in tooLarge)
            THEN GoOn(r, e, IF what = "answered" THEN index(e) ELSE at)
            ELSE EndCommand(r)
    IN /\ UsesOpcodes
       /\ Command.type = "insert"
       /\ IF S = {} THEN Proceed("none", checked) /\ UNCHANGED <<fate, sends, late, stream>>
                    ELSE \E reply \in LegacyReplies(S) :
                            /\ SendLegacy(S, reply)
                            /\ Proceed(reply.what, LegacyResult(checked, S, reply))
       /\ UNCHANGED callVars

-----------------------------------------------------------------------------

\* A BulkWrite has no write concern before it is executed.
Init ==
    /\ ops = <<>> /\ commands = <<>> /\ fate = <<>> /\ sends = <<>> /\ late = {}
    /\ bulk \in [ordered : BOOLEAN, server : Server, acknowledged : Acknowledgement, once : BOOLEAN]
    /\ bulk.once => bulk.acknowledged
    /\ phase = "building"
    /\ current = 1 /\ next = 1
    /\ offset = 0 /\ at = 0
    /\ result = NoResult
    /\ stream = "open"

RunCommand == Refuse \/ TooLarge \/ RunBatch \/ LegacyWrite \/ LegacyInsert

Inserts == {o \in Operation : o.type = "insert"}

Next ==
    \/ \E o \in Operation : \/ Insert(o) \/ Update(o) \/ Remove(o)
                           \/ BulkWriteInsert(o) \/ BulkWriteUpdate(o) \/ BulkWriteDelete(o)
    \/ \E a \in Acknowledgement :
          \/ SetWriteConcern(a)
          \/ ExecuteWrite(a)
          \/ \E o \in Operation : CollectionSave(o, a) \/ CollectionRemove(o, a)
          \/ \E k \in 0 .. MaxOperations : \E s \in [1 .. k -> Inserts] : InsertBulk(s, a)
    \/ Execute
    \/ RunCommand

Spec == Init /\ [][Next]_vars

\* The thread that executes a bulk goes on.
FairSpec == Spec /\ WF_vars(RunCommand)

-----------------------------------------------------------------------------
(* Properties.                                                             *)

Fate == {"waiting", "unsent", "lost", "applied", "upserted", "rejected", "skipped", "unconfirmed",
         "truncated"}

Applied == {i \in Ids : fate[i] \in {"applied", "upserted"}}

\* The operations of the commands are consecutive intervals of the bulk, and the
\* batch that is next lies in the current command.
BulkTypeOK ==
    /\ ops \in Seq(Operation)
    /\ \A k \in DOMAIN commands :
          /\ commands[k].first <= commands[k].last
          /\ commands[k].first = IF k = 1 THEN 1 ELSE commands[k - 1].last + 1
          /\ \A i \in commands[k].first .. commands[k].last : ops[i].type = commands[k].type
    /\ IF commands = <<>> THEN ops = <<>> ELSE commands[Len(commands)].last = Len(ops)
    /\ phase = "executing" => /\ current \in DOMAIN commands
                              /\ next \in Command.first .. Command.last
                              /\ offset = Command.first - 1
                              /\ at \in offset .. next - 1
    /\ DOMAIN fate = Ids /\ DOMAIN sends = Ids
    /\ \A i \in Ids : fate[i] \in Fate /\ sends[i] \in Nat
    /\ late \subseteq Ids
    /\ {result.n, result.concernErrors} \subseteq Nat
    /\ result.upserted \cup result.errors \subseteq Ids
    /\ {result.failed, result.mustStop, result.error} \subseteq BOOLEAN
    /\ stream \in {"open", "closed", "out of step"}

\* What mongoc_bulk_operation_execute returns is not 0.
Succeeded == phase = "done" /\ ~result.failed /\ ~result.error /\ result.concernErrors = 0

\* Every answer that was begun was read in full.
Trusted == \A i \in Ids : fate[i] # "truncated"

\* The splitting of commands into batches leaves no operation out and gives none
\* to the server twice, whatever becomes of the batches before.
NothingSentTwice == \A i \in Ids : sends[i] <= 1

\* Commands, batches and what was sent of them fit together.
BulkIsSound == BulkTypeOK /\ NothingSentTwice

\* The index of a write error, which the server gives within its batch, is the
\* position in the bulk of an operation that was rejected, and each has one.  Those
\* of legacy inserts may not be.
ErrorsNameTheirOperations ==
    bulk.acknowledged /\ bulk.server # "old" => result.errors = {i \in Ids : fate[i] = "rejected"}

\* The indices of upserted documents are the positions of the updates that made them.
UpsertsNameTheirOperations == result.upserted = {i \in Ids : fate[i] = "upserted"}

\* An old server's getlasterror tells how an insert of several documents ended, and not how
\* many it applied before; nor is an insert counted whose answer has a write concern error.
Uncounted ==
    /\ bulk.server = "old"
    /\ \/ \E k \in DOMAIN commands : ~commands[k].singly
       \/ \E i \in late : ops[i].type = "insert"

\* The counts of the result are of the operations the server said it applied.
CountIsExact == ~Uncounted => result.n = Cardinality({i \in Ids : fate[i] = "applied"})

\* What the application is told of each operation is what became of it, in this
\* execution and not in one before.
ResultIsExact ==
    phase # "building" /\ Trusted =>
        ErrorsNameTheirOperations /\ UpsertsNameTheirOperations /\ CountIsExact

\* A command whose collation cannot be honoured is refused before it is sent, which the
\* command after it makes forget.
Unsupported == /\ bulk.server # "collation" \/ ~bulk.acknowledged
               /\ \E i \in Ids : ops[i].collation

\* An acknowledged bulk that succeeds has had every operation applied, as far as the write
\* concern asks: no lost answer or error, in whatever batch, is forgotten by the commands
\* after it.
SuccessMeansApplied ==
    Succeeded /\ bulk.acknowledged /\ ~Unsupported => Applied = Ids /\ late = {}

\* A command of an ordered bulk is begun only when the operations of the commands
\* before it were applied, or are not asked about.
OrderedStopsAtCommands ==
    phase # "building" /\ bulk.ordered /\ Trusted /\ ~Unsupported =>
        \A k \in DOMAIN commands :
           (\E i \in commands[k].first .. commands[k].last : sends[i] > 0) =>
              \A j \in 1 .. commands[k].first - 1 : j \in Applied \/ fate[j] = "unconfirmed"

\* The bulk has an insert that fits in no command, which a server with write commands is
\* offered again and again.
Oversized == \E i \in Ids : ops[i].size > MaxDocumentSize + Slack

\* mongoc_bulk_operation_execute returns.
ExecuteReturns ==
    phase = "executing" /\ (Oversized => bulk.ordered \/ bulk.server = "old") ~> phase = "done"

\* "ordered" of MongoDB\Driver\BulkWrite: after an operation that is rejected none
\* is applied.
OrderedStops ==
    bulk.ordered => \A i, j \in Ids : i < j /\ fate[i] = "rejected" => j \notin Applied
=============================================================================
