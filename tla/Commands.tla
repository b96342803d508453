------------------------------ MODULE Commands ------------------------------
(***************************************************************************)
(* The helpers of collections and databases that send commands: what of    *)
(* the caller's options and of the handle's concerns goes into a command   *)
(* for the server that is selected, what the caller is told, and the calls *)
(* that fall back to writes of system collections when the server does not *)
(* know a command.  Every round trip selects its own server, and may be    *)
(* lost on either way.                                                     *)
(***************************************************************************)
EXTENDS Naturals, FiniteSets

CONSTANTS
    Wire,       \* the greatest wire versions of the deployment's servers
    Settings,   \* the concerns of the client and of its handles
    Options,    \* the sets of options that callers give
    Name,       \* names of collections
    None,
    MaxUsers    \* bound: documents of one user that are counted

Concern == {"default", "own", "unacknowledged"}

SettingsType ==
    [client: Concern, secondary: BOOLEAN, handle: Concern, readConcern: BOOLEAN, mongos: BOOLEAN]

Option == {"writeConcern", "invalid", "readConcern", "collation", "serverId", "document"}

ASSUME CommandsAssumption ==
    /\ Wire \subseteq Nat /\ IsFiniteSet(Wire)
    /\ Settings \subseteq SettingsType
    /\ Options \subseteq SUBSET Option
    /\ IsFiniteSet(Name) /\ None \notin Name
    /\ MaxUsers \in Nat \ {0}

VARIABLES
    settings,
    collection, \* the name in the application's handle
    doubt,      \* a rename or a creation ended without an answer, or with half of one
    world,      \* the server: the collection's name, the user's documents, and those that a
                \* secondary has
    call        \* the call under way, or the last one

vars == <<settings, collection, doubt, world, call>>

CollationVersion == 5
CmdWriteConcernVersion == 5
FamWriteConcernVersion == 4
ReadConcernVersion == 4

\* The concerns in a command, those the caller gave and the handle's, and its flag.
Message == [wc: SUBSET {"given", "own"}, rc: SUBSET {"given", "own"}, collation: BOOLEAN,
            slaveOk: BOOLEAN]

Plain == [wc |-> {}, rc |-> {}, collation |-> FALSE, slaveOk |-> FALSE]

World == [name: Name \cup {None}, users: 0 .. MaxUsers, seen: 0 .. MaxUsers]

Steps == {"done", "crashed", "insertIndex", "removeUser", "createUser", "findUser", "saveUser",
          "findNamespaces"}

Helper == {"none", "command", "read", "write", "readWrite", "validate", "count", "drop", "dropIndex",
           "dropDatabase", "rename", "create", "findAndModify", "aggregate", "createIndex",
           "removeUser", "removeAllUsers", "addUser", "hasCollection", "getNames", "findIndexes"}

\* applied counts what the call did at the server; unsure says that a reply was lost or told of
\* a failed write concern; confirmed are the concerns that a reply confirmed.
CallType ==
    [helper: Helper, opts: SUBSET Option, step: Steps, wire: Nat, message: Message, applied: Nat,
     unsure: BOOLEAN, legacy: BOOLEAN, found: BOOLEAN, confirmed: SUBSET {"given", "own"},
     ret: BOOLEAN, error: BOOLEAN]

New(helper, opts) ==
    [helper |-> helper, opts |-> opts, step |-> "done", wire |-> 0, message |-> Plain,
     applied |-> 0, unsure |-> FALSE, legacy |-> FALSE, found |-> FALSE, confirmed |-> {},
     ret |-> FALSE, error |-> FALSE]

Idle == call.step = "done"

NoCall == New("none", {})

-----------------------------------------------------------------------------
(* The server.                                                             *)

\* The wire version from which servers know a command.
Since(command) ==
    CASE command \in {"createIndexes", "usersInfo", "createUser", "dropUser",
                      "dropAllUsersFromDatabase"} -> 2
      [] command \in {"listIndexes", "listCollections"} -> 3
      [] OTHER -> 0

\* The ends a command can have; accepts says that the server would do it.
Outcomes(command, wire, m, accepts) ==
    LET End(applied, ok, code, wcError) ==
            [applied |-> applied, ok |-> ok, code |-> code, wcError |-> wcError]
        known == wire >= Since(command)
    IN {End(FALSE, FALSE, code, FALSE) :
          code \in {"network"} \cup IF known THEN {"denied", "other"} ELSE {"commandNotFound"}}
       \cup (IF known /\ accepts
             THEN {End(TRUE, FALSE, "network", FALSE), End(TRUE, TRUE, "none", FALSE)}
                  \cup {End(TRUE, TRUE, "none", TRUE) :
                          c \in m.wc \ {o \in {"own"} : settings.handle = "unacknowledged"}}
             ELSE {})

\* A secondary catches up.
Replicate ==
    /\ world.seen # world.users
    /\ world' = [world EXCEPT !.seen = world.users]
    /\ UNCHANGED <<settings, collection, doubt, call>>

-----------------------------------------------------------------------------
(* Commands with options.                                                  *)

\* What _mongoc_client_command_append_iterator_opts_to_command refuses.
Refused(opts, wire) ==
    \/ "collation" \in opts /\ wire < CollationVersion
    \/ "invalid" \in opts
    \/ "readConcern" \in opts /\ wire < ReadConcernVersion

\* And what it appends.
AppendOpts(m, opts, wire) ==
    [m EXCEPT !.wc = @ \cup {o \in {"given"} : "writeConcern" \in opts /\ wire >= CmdWriteConcernVersion},
              !.rc = @ \cup {o \in {"given"} : "readConcern" \in opts},
              !.collation = "collation" \in opts]

\* Mutated: the handle's concern is appended to the one given.
WithDefaultsToo(mode, opts, wire) ==
    LET m == AppendOpts(Plain, opts, wire)
    IN [m EXCEPT
          !.wc = @ \cup {o \in {"own"} : /\ mode # "read" /\ settings.handle # "default"
                                         /\ wire >= CmdWriteConcernVersion},
          !.rc = @ \cup {o \in {"own"} : /\ mode # "write" /\ settings.readConcern
                                         /\ wire >= ReadConcernVersion /\ @ = {}},
          !.slaveOk = "serverId" \in opts /\ ~settings.mongos]

\* The command that _mongoc_client_command_with_opts sends.
WithDefaults(mode, opts, wire) ==
    LET m == AppendOpts(Plain, opts, wire)
    IN [m EXCEPT
          !.wc = @ \cup {o \in {"own"} : /\ mode # "read" /\ settings.handle # "default"
                                         /\ wire >= CmdWriteConcernVersion /\ @ = {}},
          !.rc = @ \cup {o \in {"own"} : /\ mode # "write" /\ settings.readConcern
                                         /\ wire >= ReadConcernVersion /\ @ = {}},
          !.slaveOk = "serverId" \in opts /\ ~settings.mongos]

\* The call c after a round trip with end o.
Sent(c, wire, m, o) ==
    [c EXCEPT !.wire = wire, !.message = m,
              !.applied = @ + IF o.applied THEN 1 ELSE 0,
              !.unsure = @ \/ o.code = "network" \/ o.wcError,
              !.confirmed = IF o.ok /\ ~o.wcError THEN m.wc ELSE {}]

Ends(c, ret, error) == [c EXCEPT !.step = "done", !.ret = ret, !.error = error]
Fails(c) == Ends(c, FALSE, TRUE)
Returns(c, ok) == Ends(c, ok, ~ok)

After(o, effect) == IF o.applied THEN effect ELSE world

\* Every way that a command helper's call can go: refused, without a server, or sent.
CommandWithOpts(c, command, mode, opts, accepts, effect) ==
    {[call |-> Fails(c), world |-> world]}
    \cup UNION {LET m == WithDefaults(mode, opts, wire)
                IN {[call |-> Returns(Sent(c, wire, m, o), o.ok /\ ~(mode # "read" /\ o.wcError)),
                     world |-> After(o, effect)] : o \in Outcomes(command, wire, m, accepts)} :
                 wire \in {v \in Wire : ~Refused(opts, v)}}

\* mongoc_client_command_simple, which neither looks at concerns nor at their errors.
CommandSimple(c, command, accepts, effect) ==
    {[call |-> Fails(c), world |-> world, code |-> "noServer"]}
    \cup {[call |-> Returns(Sent(c, trip[1], Plain, trip[2]), trip[2].ok),
           world |-> After(trip[2], effect), code |-> trip[2].code] :
            trip \in UNION {{wire} \X Outcomes(command, wire, Plain, accepts) : wire \in Wire}}

\* A write of a collection that mongoc_client_get_collection made, with the client's concern.
LegacyWrite(c, accepts, effect) ==
    LET m == [Plain EXCEPT !.wc = {o \in {"own"} : settings.client = "own"}]
        told == settings.client # "unacknowledged"
        d == [c EXCEPT !.legacy = TRUE]
    IN {[call |-> Fails(d), world |-> world]}
       \cup {[call |-> Returns(Sent(d, trip[1], m, trip[2]),
                               IF told THEN trip[2].ok /\ ~trip[2].wcError ELSE trip[2].applied \/ trip[2].code # "network"),
              world |-> After(trip[2], effect)] :
               trip \in UNION {{wire} \X Outcomes("insert", wire, m, accepts) : wire \in Wire}}

\* The application's call ends, or goes on with another step, as in r.
Becomes(r) ==
    /\ call' = r.call /\ world' = r.world
    /\ UNCHANGED settings

Keeps == UNCHANGED <<collection, doubt>>

Here == world.name = collection

-----------------------------------------------------------------------------
(* Helpers that send one command.                                          *)

\* Any command of the application, through a client, a database or a collection.
Command ==
    /\ call = NoCall
    /\ \E r \in CommandSimple(New("command", {}), "command", TRUE, world) : Becomes(r)
    /\ Keeps

CommandOfMode(mode) ==
    /\ call = NoCall
    /\ \E opts \in Options :
          \E r \in CommandWithOpts(New(mode, opts), "command", mode, opts, TRUE, world) : Becomes(r)
    /\ Keeps

\* Statistics and validation; an option of a wrong type is refused.
Validate ==
    /\ call = NoCall
    /\ \E opts \in Options :
          LET c == New("validate", opts)
          IN IF "invalid" \in opts THEN Becomes([call |-> Fails(c), world |-> world])
             ELSE \E r \in CommandSimple(c, "validate", Here, world) : Becomes(r)
    /\ Keeps

CountWithOpts ==
    /\ call = NoCall
    /\ \E opts \in Options :
          \E r \in CommandWithOpts(New("count", opts), "count", "read", opts, TRUE, world) : Becomes(r)
    /\ Keeps

\* The handle's read concern is made an option, which an old server makes the call fail.
Count ==
    /\ call = NoCall
    /\ LET opts == {o \in {"readConcern"} : settings.readConcern}
       IN \E r \in CommandWithOpts(New("count", {}), "count", "read", opts, TRUE, world) : Becomes(r)
    /\ Keeps

Drop ==
    /\ call = NoCall
    /\ \E opts \in Options :
          \E r \in CommandWithOpts(New("drop", opts), "drop", "write", opts, Here,
                                  [world EXCEPT !.name = None]) : Becomes(r)
    /\ Keeps

DropIndex ==
    /\ call = NoCall
    /\ \E opts \in Options :
          \E r \in CommandWithOpts(New("dropIndex", opts), "dropIndexes", "write", opts, Here, world) :
              Becomes(r)
    /\ Keeps

DropDatabase ==
    /\ call = NoCall
    /\ \E opts \in Options :
          \E r \in CommandWithOpts(New("dropDatabase", opts), "dropDatabase", "write", opts, TRUE,
                                  [world EXCEPT !.name = None]) : Becomes(r)
    /\ Keeps

\* Mutated: the handle is renamed first.
RenamesFirst(n) ==
    /\ collection' = n
    /\ doubt' = (~call'.ret /\ (doubt \/ call'.unsure))

\* The handle's name after a call that gives the collection the name n.
Renames(n) ==
    /\ collection' = IF call'.ret THEN n ELSE collection
    /\ doubt' = (~call'.ret /\ (doubt \/ call'.unsure))

Rename ==
    /\ call = NoCall
    /\ \E n \in Name, opts \in Options :
          /\ \E r \in CommandWithOpts(New("rename", opts), "renameCollection", "write", opts,
                                     Here /\ n # collection, [world EXCEPT !.name = n]) : Becomes(r)
          /\ Renames(n)

\* The caller goes on with the handle that is returned.
CreateCollection ==
    /\ call = NoCall
    /\ \E n \in Name, opts \in Options :
          /\ \E r \in CommandWithOpts(New("create", opts), "create", "write", opts,
                                     world.name = None, [world EXCEPT !.name = n]) : Becomes(r)
          /\ Renames(n)

\* mongoc_collection_find_and_modify_with_opts: the options do not keep the handle's write
\* concern away.
FindAndModify ==
    /\ call = NoCall
    /\ \E opts \in Options, wire \in Wire :
          LET c == New("findAndModify", opts)
              m == [AppendOpts(Plain, opts, wire) EXCEPT
                      !.wc = @ \cup {o \in {"own"} : /\ wire >= FamWriteConcernVersion
                                                    /\ settings.handle # "unacknowledged"}]
          IN \/ Becomes([call |-> Fails(c), world |-> world])
             \/ /\ ~Refused(opts, wire)
                /\ \E o \in Outcomes("findAndModify", wire, m, TRUE) :
                      Becomes([call |-> Returns(Sent(c, wire, m, o), o.ok /\ ~o.wcError),
                               world |-> world])
    /\ Keeps

\* An aggregation with $out, up to its first batch.  $out is only noticed in a pipeline that
\* is wrapped in a document; failed write concerns are only looked for when the handle's was
\* taken.
Aggregate ==
    /\ call = NoCall
    /\ \E opts \in Options, wire \in Wire :
          LET c == New("aggregate", opts)
              d == AppendOpts(Plain, opts, wire)
              inherits == d.wc = {} /\ "document" \in opts
              m == [d EXCEPT !.wc = @ \cup {o \in {"own"} : /\ inherits /\ settings.handle # "default"
                                                            /\ wire >= CmdWriteConcernVersion},
                             !.rc = @ \cup {o \in {"own"} : @ = {} /\ settings.readConcern}]
          IN \/ Becomes([call |-> Fails(c), world |-> world])
             \/ /\ ~Refused(opts, wire)
                /\ \E o \in Outcomes("aggregate", wire, m, TRUE) :
                      Becomes([call |-> Returns(Sent(c, wire, m, o), o.ok /\ ~(inherits /\ o.wcError)),
                               world |-> world])
    /\ Keeps

-----------------------------------------------------------------------------
(* Calls that fall back.                                                   *)

\* Mutated: any failure is taken for that of an old server.
FallsBackAlways(code) == code # "none"

\* MONGOC_ERROR_QUERY_COMMAND_NOT_FOUND
FallsBack(code) == code = "commandNotFound"

\* mongoc_collection_create_index_with_opts.  Without a reply to fill, which only callers of
\* the function with options can leave out, a failed write concern is not noticed; other
\* options than the write concern are sent to any server.
CreateIndex ==
    /\ call = NoCall
    /\ \E opts \in Options, wire \in Wire, reply \in BOOLEAN :
          LET c == New("createIndex", opts)
              m == AppendOpts(Plain, opts, wire)
          IN \/ /\ "invalid" \in opts \/ ("collation" \in opts /\ wire < CollationVersion)
                /\ Becomes([call |-> Fails(c), world |-> world])
             \/ /\ "invalid" \notin opts /\ ("collation" \in opts => wire >= CollationVersion)
                /\ \E o \in Outcomes("createIndexes", wire, m, Here) :
                      LET d == Sent(c, wire, m, o)
                      IN Becomes([call |-> IF FallsBack(o.code) THEN [d EXCEPT !.step = "insertIndex"]
                                           ELSE Returns(d, o.ok /\ ~(reply /\ o.wcError)),
                                  world |-> world])
    /\ Keeps

\* Without a server it uses a NULL pointer.
CreateIndexCrashes ==
    /\ call = NoCall
    /\ call' = [New("createIndex", {}) EXCEPT !.step = "crashed"]
    /\ UNCHANGED <<settings, collection, doubt, world>>

\* Options that were not initialized are refused, without an error.
InsertIndex ==
    /\ call.step = "insertIndex"
    /\ \/ Becomes([call |-> [Ends(call, FALSE, FALSE) EXCEPT !.legacy = TRUE], world |-> world])
       \/ \E r \in LegacyWrite(call, TRUE, world) : Becomes(r)
    /\ Keeps

\* The commands of a user's removal, and of that of all users.
Remove(helper, command) ==
    /\ call = NoCall
    /\ \E r \in CommandSimple(New(helper, {}), command, helper = "removeAllUsers" \/ world.users > 0,
                              [world EXCEPT !.users = 0]) :
          Becomes([r EXCEPT !.call = IF FallsBack(r.code) THEN [r.call EXCEPT !.step = "removeUser"] ELSE @])
    /\ Keeps

RemoveUser == Remove("removeUser", "dropUser")
RemoveAllUsers == Remove("removeAllUsers", "dropAllUsersFromDatabase")

LegacyRemove ==
    /\ call.step = "removeUser"
    /\ \E r \in LegacyWrite(call, TRUE,
                            [world EXCEPT !.users = IF call.helper = "removeUser" /\ @ > 0 THEN @ - 1 ELSE 0]) :
          Becomes(r)
    /\ Keeps

\* mongoc_database_add_user asks for the user, to find out what the server knows.
AddUser ==
    /\ call = NoCall
    /\ \E r \in CommandSimple(New("addUser", {}), "usersInfo", TRUE, world) :
          LET c == New("addUser", {})
          IN Becomes([r EXCEPT !.call =
                IF FallsBack(r.code) THEN [c EXCEPT !.step = "findUser"]
                ELSE IF r.code \in {"none", "denied"} THEN [c EXCEPT !.step = "createUser"]
                ELSE Fails(c)])
    /\ Keeps

CreateUser ==
    /\ call.step = "createUser"
    /\ \E r \in CommandSimple(call, "createUser", world.users = 0, [world EXCEPT !.users = 1]) :
          Becomes(r)
    /\ Keeps

\* mongoc_database_add_user_legacy looks with the client's read preferences.
FindUser ==
    /\ call.step = "findUser"
    /\ \/ Becomes([call |-> Fails(call), world |-> world])
       \/ \E n \in {world.users} \cup {k \in {world.seen} : settings.secondary} :
             Becomes([call |-> [call EXCEPT !.step = "saveUser", !.found = n > 0], world |-> world])
    /\ Keeps

\* The document that was found is put back with its id; a new one has none.  No index of the
\* server is counted on.
SaveUser ==
    /\ call.step = "saveUser"
    /\ \E r \in LegacyWrite(call, call.found \/ world.users < MaxUsers,
                            [world EXCEPT !.users = IF call.found /\ @ > 0 THEN @ ELSE @ + 1]) : Becomes(r)
    /\ Keeps

\* mongoc_database_has_collection and _get_collection_names, up to the first reply.
ListCollections(helper) ==
    /\ call = NoCall
    /\ \E r \in CommandSimple(New(helper, {}), "listCollections", TRUE, world) :
          Becomes([r EXCEPT !.call =
             IF FallsBack(r.code) THEN [r.call EXCEPT !.step = "findNamespaces"]
             ELSE IF @.ret THEN [@ EXCEPT !.found = Here, !.ret = (helper = "getNames" \/ Here)]
             ELSE @])
    /\ Keeps

HasCollection == ListCollections("hasCollection")
GetCollectionNames == ListCollections("getNames")

\* The query of system.namespaces is sent when its first result is asked for, which
\* has_collection does not look at the end of.
FindNamespaces ==
    /\ call.step = "findNamespaces"
    /\ LET c == [call EXCEPT !.legacy = TRUE]
       IN \/ Becomes([call |-> Ends(c, FALSE, c.helper = "getNames"), world |-> world])
          \/ Becomes([call |-> [Ends(c, c.helper = "getNames" \/ Here, FALSE) EXCEPT !.found = Here],
                      world |-> world])
    /\ Keeps

\* The legacy cursor has sent nothing yet when it is returned.
FindIndexes ==
    /\ call = NoCall
    /\ \E r \in CommandSimple(New("findIndexes", {}), "listIndexes", Here, world) :
          Becomes([r EXCEPT !.call =
             IF FallsBack(r.code) THEN [Ends(@, TRUE, FALSE) EXCEPT !.legacy = TRUE]
             ELSE IF r.code = "other" /\ ~Here THEN Ends(@, TRUE, FALSE)
             ELSE @])
    /\ Keeps

\* The application has seen the answer.
Answered ==
    /\ Idle /\ call # NoCall
    /\ call' = NoCall
    /\ UNCHANGED <<settings, collection, doubt, world>>

Init ==
    /\ settings \in Settings
    /\ collection \in Name /\ doubt = FALSE
    /\ world \in {[name |-> n, users |-> 0, seen |-> 0] : n \in {collection, None}}
    /\ call = NoCall

Next ==
    \/ Command \/ \E mode \in {"read", "write", "readWrite"} : CommandOfMode(mode)
    \/ Validate \/ CountWithOpts \/ Count \/ Drop \/ DropIndex \/ DropDatabase
    \/ Rename \/ CreateCollection \/ FindAndModify \/ Aggregate
    \/ CreateIndex \/ CreateIndexCrashes \/ InsertIndex
    \/ RemoveUser \/ RemoveAllUsers \/ LegacyRemove
    \/ AddUser \/ CreateUser \/ FindUser \/ SaveUser
    \/ HasCollection \/ GetCollectionNames \/ FindNamespaces \/ FindIndexes
    \/ Answered \/ Replicate

Spec == Init /\ [][Next]_vars

-----------------------------------------------------------------------------
(* Properties.                                                             *)

TypeOK ==
    /\ settings \in Settings /\ collection \in Name /\ doubt \in BOOLEAN
    /\ world \in World /\ call \in CallType

Writers == {"write", "readWrite", "drop", "dropIndex", "dropDatabase", "rename", "create",
            "findAndModify", "createIndex", "removeUser", "removeAllUsers", "addUser"}

\* What a helper answers is what happened at the server, whichever way it took: success means
\* that the write was done, and nothing is done twice by a call that falls back; a call that
\* fails without a lost reply and without a failed write concern did nothing.  Only
\* unacknowledged legacy writes are answered without knowing.  Failure comes with an error,
\* but from mongoc_database_has_collection and from an index with uninitialized options.
AnswerIsTrue ==
    /\ call.helper \in Writers =>
          /\ call.applied <= 1
          /\ Idle /\ call.ret =>
                call.applied = 1 \/ (call.legacy /\ settings.client = "unacknowledged")
          /\ Idle /\ ~call.ret /\ ~call.unsure => call.applied = 0
    /\ Idle /\ ~call.ret /\ ~call.error =>
          \/ call.helper \in {"none", "hasCollection"}
          \/ call.helper = "createIndex" /\ call.legacy

\* No call is out of its type, and no answer untrue.
AnswersAreTrue == TypeOK /\ AnswerIsTrue

\* The write concern that a caller can count on: the one given, or else the handle's.
Wanted ==
    IF "writeConcern" \in call.opts THEN {"given"}
    ELSE {o \in {"own"} : settings.handle = "own"}

\* Calls that ignore it: an index is created with the given concern only, an aggregation with
\* the handle's only, and when its pipeline is the field of a document.
Heedless ==
    \/ call.helper = "createIndex"
    \/ call.helper = "aggregate" /\ ("writeConcern" \in call.opts \/ "document" \notin call.opts)

\* No server is sent an option that it does not know, nor two concerns of a kind, but by
\* findAndModify; and a helper that sent its write to a server which knows write concerns
\* reports success only when the concern that applies has been confirmed, the caller's before
\* the handle's.
ConcernsAreKept ==
    LET m == call.message
    IN /\ m.collation => call.wire >= CollationVersion
       /\ m.wc # {} =>
             \/ call.wire >= CmdWriteConcernVersion \/ call.legacy
             \/ call.helper = "findAndModify" /\ call.wire >= FamWriteConcernVersion
       /\ m.rc # {} => call.wire >= ReadConcernVersion \/ call.helper \in {"createIndex", "aggregate"}
       /\ Cardinality(m.rc) <= 1
       /\ Cardinality(m.wc) <= 1 \/ call.helper = "findAndModify"
       /\ Idle /\ call.ret /\ ~call.legacy /\ call.wire >= CmdWriteConcernVersion
             /\ call.helper \in (Writers \cup {"aggregate"}) \ {"removeUser", "removeAllUsers", "addUser"}
             /\ ~Heedless
          => Wanted \subseteq call.confirmed

\* The application's handle names the collection whenever there is one, unless a rename or a
\* creation ended without a clear answer; and there is one document for a user, unless a stale
\* secondary was asked for it.
CatalogueIsKept ==
    /\ world.name \in {None, collection} \/ doubt
    /\ world.users <= 1 \/ settings.secondary

=============================================================================
