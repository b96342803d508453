--------------------------- MODULE ServerSelection ---------------------------
(***************************************************************************)
(* The choice of a server for an operation: which servers of a description *)
(* suit a read preference (their kind, staleness, tags and distance), what *)
(* a read is sent with, and mongoc_topology_select_server_id, which scans  *)
(* or waits until a server suits or its time is over.  The descriptions    *)
(* are those TopologyDescription arrives at; here a scan leaves any one.   *)
(***************************************************************************)
EXTENDS Integers, FiniteSetsExt, SequencesExt

CONSTANTS
    Seed,               \* the description a client begins with: servers it knows nothing of
    Known,              \* the descriptions that a client may come with
    Scanned,            \* the descriptions that scans leave
    Prefs,              \* the read preferences
    None,               \* no server; a NULL read preference
    LocalThreshold, Heartbeat, MinHeartbeat, Timeout, ConnectTimeout,
    LockTime,           \* the longest that the topology's mutex is held
    IdleWrite, SmallestStaleness,
    MaxTime             \* bound: no selection begins later

SetTypes == {"RSNoPrimary", "RSWithPrimary"}
Modes == {"primary", "primaryPreferred", "secondary", "secondaryPreferred", "nearest"}

\* tags: the tags of a server as pairs of a name and a value, and of a preference as
\* a sequence of tag sets.  staleness is None or seconds.  written: last_write_date,
\* below 1 if the server does not tell.
ServerType == [type: {"Unknown", "Standalone", "Mongos", "RSPrimary", "RSSecondary", "RSArbiter",
                      "RSOther", "RSGhost"},
               rtt: Int, tags: SUBSET (STRING \X STRING), written: Int, updated: Int,
               modern: BOOLEAN, hasIsMaster: BOOLEAN]

\* The types of servers that each type of a topology has no place for.
Misfits(type) ==
    CASE type = "Single" -> {}
      [] type = "Sharded" -> {"Standalone", "RSPrimary", "RSSecondary", "RSArbiter", "RSOther"}
      [] type \in SetTypes -> {"Standalone", "Mongos"}
      [] OTHER -> {"Standalone", "Mongos", "RSPrimary", "RSSecondary", "RSArbiter", "RSOther"}

IsDescription(d) ==
    /\ DOMAIN d = {"type", "servers"}
    /\ d.type \in SetTypes \cup {"Unknown", "Single", "Sharded"}
    /\ DOMAIN d.servers \subseteq Nat /\ IsFiniteSet(DOMAIN d.servers)
    /\ \A s \in DOMAIN d.servers : /\ d.servers[s] \in ServerType
                                   /\ d.servers[s].type \notin Misfits(d.type)
    /\ d.type = "Single" => Cardinality(DOMAIN d.servers) = 1
    /\ Cardinality({s \in DOMAIN d.servers : d.servers[s].type = "RSPrimary"}) <= 1
    /\ d.type = "RSNoPrimary" => \A s \in DOMAIN d.servers : d.servers[s].type # "RSPrimary"

PrefType == [mode: Modes, tags: Seq(SUBSET (STRING \X STRING)), staleness: Int \cup {None}]

\* mongoc_read_prefs_is_valid, which every caller asks first.
IsValid(p) ==
    /\ p.mode = "primary" => p.tags = <<>> /\ p.staleness = None
    /\ p.staleness # None => p.staleness > 0

ASSUME SelectionAssumption ==
    /\ \A d \in Known \cup Scanned \cup {Seed} : IsDescription(d)
    /\ None \in Prefs /\ None \notin Int
    /\ \A p \in Prefs : p = None \/ (p \in PrefType /\ IsValid(p))
    /\ MinHeartbeat \in Nat \ {0}
    /\ {LocalThreshold, Heartbeat, Timeout, ConnectTimeout, LockTime, MaxTime} \subseteq Nat

ASSUME StalenessAssumption == Heartbeat \in Int /\ IdleWrite \in Int /\ SmallestStaleness \in Int

-----------------------------------------------------------------------------
(* Suitable servers.                                                       *)

Mode(p) == IF p = None THEN "primary" ELSE p.mode

OfType(d, types) == {s \in DOMAIN d.servers : d.servers[s].type \in types}

CandidateTypes(type, mode) ==
    CASE type = "Single" -> {"Standalone"}
      [] type \in SetTypes ->
           CASE mode = "primary" -> {"RSPrimary"}
             [] mode = "secondary" -> {"RSSecondary"}
             [] OTHER -> {"RSPrimary", "RSSecondary"}
      [] type = "Sharded" -> {"Mongos"}
      [] OTHER -> {}

\* The estimated staleness of a secondary, from the primary if there is one.
StalenessByPrimary(sd, primary, heartbeat) ==
    primary.written + (sd.updated - primary.updated) - sd.written + heartbeat

StalenessByNewest(sd, newest, heartbeat) == newest - sd.written + heartbeat

FilterStale(d, candidates, p) ==
    LET secondaries == candidates \cap OfType(d, {"RSSecondary"})
        primary == OfType(d, {"RSPrimary"})
        newest == Max({0} \cup {d.servers[s].written : s \in secondaries})
        Staleness(s) == IF primary # {}
                        THEN StalenessByPrimary(d.servers[s],
                                                d.servers[CHOOSE m \in primary : TRUE], Heartbeat)
                        ELSE StalenessByNewest(d.servers[s], newest, Heartbeat)
    IN IF p = None THEN candidates
       ELSE IF p.staleness = None THEN candidates
       ELSE candidates \ {s \in secondaries : Staleness(s) > p.staleness}

MatchTagSet(sd, tagSet) == tagSet \subseteq sd.tags

\* Mutated: a server may match any of the tag sets.
FilterTagsAny(d, candidates, p) ==
    IF p = None THEN candidates
    ELSE IF p.tags = <<>> THEN candidates
    ELSE {s \in candidates : \E k \in DOMAIN p.tags : MatchTagSet(d.servers[s], p.tags[k])}

\* The first tag set that a candidate matches decides.
FilterTags(d, candidates, p) ==
    LET Matching(k) == {s \in candidates : MatchTagSet(d.servers[s], p.tags[k])}
    IN IF p = None THEN candidates
       ELSE IF p.tags = <<>> THEN candidates
       ELSE IF \A k \in DOMAIN p.tags : Matching(k) = {} THEN {}
       ELSE Matching(Min({k \in DOMAIN p.tags : Matching(k) # {}}))

InWindow(d, candidates) ==
    IF candidates = {} THEN {}
    ELSE LET nearest == Min({d.servers[s].rtt : s \in candidates})
         IN {s \in candidates : d.servers[s].rtt <= nearest + LocalThreshold}

\* Candidates that are filtered by staleness, tags and distance.
Filtered(d, candidates, p) == InWindow(d, FilterTags(d, FilterStale(d, candidates, p), p))

TrySecondary(d, p) == Filtered(d, OfType(d, CandidateTypes(d.type, "secondary")), p)

Suitable(op, d, p) ==
    LET mode == Mode(p)
        primary == OfType(d, {"RSPrimary"})
        candidates == OfType(d, CandidateTypes(d.type, mode))
    IN CASE d.type = "Single" -> candidates
         [] d.type \in SetTypes /\ op = "read" ->
              CASE mode = "primary" -> primary
                [] mode = "primaryPreferred" /\ primary # {} -> primary
                [] mode = "secondaryPreferred" ->
                     IF TrySecondary(d, p) # {} THEN TrySecondary(d, p) ELSE primary
                [] OTHER -> Filtered(d, candidates, p)
         [] d.type = "RSWithPrimary" /\ op = "write" -> OfType(d, {"RSPrimary", "Standalone"})
         [] d.type = "Sharded" -> InWindow(d, candidates)
         [] OTHER -> {}

\* mongoc_topology_description_select takes one of these.
Selectable(op, d, p) ==
    IF d.type = "Single" THEN {s \in DOMAIN d.servers : d.servers[s].hasIsMaster}
    ELSE Suitable(op, d, p)

\* Mutated: the heartbeat is left out.
ValidStalenessOfWrites(d, seconds) ==
    d.type \in SetTypes => seconds >= IdleWrite /\ seconds >= SmallestStaleness

ValidStaleness(d, seconds) ==
    d.type \in SetTypes => seconds >= Heartbeat + IdleWrite /\ seconds >= SmallestStaleness

\* mongoc_topology_compatible.
Compatible(d, p) ==
    IF p = None THEN TRUE
    ELSE p.staleness # None =>
           /\ \A s \in DOMAIN d.servers : d.servers[s].type # "Unknown" => d.servers[s].modern
           /\ \A s \in OfType(d, {"RSPrimary", "RSSecondary"}) : d.servers[s].written > 0
           /\ ValidStaleness(d, p.staleness)

-----------------------------------------------------------------------------
(* What a read is sent with.                                               *)

\* With a mongos: the slaveOk flag and $readPreference.
MongosApplies(p) ==
    [slaveOk |-> Mode(p) # "primary",
     wrapped |-> /\ Mode(p) # "primary"
                 /\ ~(Mode(p) = "secondaryPreferred" /\ p.tags = <<>>)]

\* apply_read_preferences, which asserts that the topology's type is known.
Applies(type, serverType, p) ==
    CASE type = "Single" -> IF serverType = "Mongos" THEN MongosApplies(p)
                            ELSE [slaveOk |-> TRUE, wrapped |-> FALSE]
      [] type \in SetTypes -> [slaveOk |-> Mode(p) # "primary", wrapped |-> FALSE]
      [] type = "Sharded" -> MongosApplies(p)

-----------------------------------------------------------------------------
(* mongoc_topology_select_server_id.                                       *)

VARIABLES
    client,     \* its options: [singleThreaded, tryOnce]
    td,         \* topology->description
    lastScan, stale,
    now,        \* the monotonic clock
    call        \* the selection: see CallType

vars == <<client, td, lastScan, stale, now, call>>

\* start and end are loop_start and loop_end; begun is the first loop_start, scans the
\* number of scans it made and deadline the end of a wait.
CallType ==
    [pc: {"none", "loop", "select", "lock", "wait", "woken", "done"}, op: {"read", "write"},
     prefs: Prefs, begun: Nat, start: Nat, end: Nat, expireAt: Nat, tried: BOOLEAN,
     deadline: Nat, result: Nat \cup {None}, error: {"", "incompatible", "none suitable", "time is over"}]

Idle == call.pc \in {"none", "done"}

NewCall(op, p) ==
    [pc |-> IF client.singleThreaded THEN "loop" ELSE "lock", op |-> op, prefs |-> p,
     begun |-> now, start |-> now, end |-> now, expireAt |-> now + Timeout,
     tried |-> FALSE, deadline |-> 0, result |-> None, error |-> ""]

Begin(op, p) ==
    /\ Idle /\ now <= MaxTime
    /\ call' = NewCall(op, p)
    /\ stale' = (stale \/ (client.singleThreaded /\ lastScan + Heartbeat < now))
    /\ UNCHANGED <<client, td, lastScan, now>>

Fails(why) == call' = [call EXCEPT !.pc = "done", !.error = why]

\* There is no time for another scan.
GiveUp ==
    /\ call.pc = "loop" /\ stale /\ ~client.tryOnce
    /\ lastScan + MinHeartbeat > call.expireAt
    /\ Fails("time is over")
    /\ UNCHANGED <<client, td, lastScan, stale, now>>

\* The client sleeps and scans.
Scan ==
    /\ call.pc = "loop" /\ stale
    /\ client.tryOnce \/ lastScan + MinHeartbeat <= call.expireAt
    /\ LET ready == now + Max({0, lastScan + MinHeartbeat - call.end})
       IN \E d \in Scanned, t \in ready .. ready + ConnectTimeout :
             /\ td' = d
             /\ now' = t /\ lastScan' = t
             /\ call' = [call EXCEPT !.pc = "select", !.end = t, !.tried = TRUE]
    /\ stale' = FALSE
    /\ UNCHANGED client

NoScan ==
    /\ call.pc = "loop" /\ ~stale
    /\ call' = [call EXCEPT !.pc = "select"]
    /\ UNCHANGED <<client, td, lastScan, stale, now>>

Chosen == \E s \in Selectable(call.op, td, call.prefs) : call' = [call EXCEPT !.pc = "done", !.result = s]

\* Mutated: once means that the description was looked at once.
ChooseOnce ==
    /\ call.pc = "select"
    /\ \/ /\ Selectable(call.op, td, call.prefs) # {} /\ Chosen
          /\ UNCHANGED stale
       \/ /\ Selectable(call.op, td, call.prefs) = {}
          /\ IF client.tryOnce \/ now > call.expireAt THEN Fails("none suitable")
             ELSE call' = [call EXCEPT !.pc = "loop", !.end = now]
          /\ stale' = TRUE
    /\ UNCHANGED <<client, td, lastScan, now>>

\* After a scan, or without one.
Choose ==
    /\ call.pc = "select"
    /\ \/ /\ ~Compatible(td, call.prefs) /\ Fails("incompatible")
          /\ UNCHANGED stale
       \/ /\ Compatible(td, call.prefs) /\ Chosen
          /\ UNCHANGED stale
       \/ /\ Compatible(td, call.prefs) /\ Selectable(call.op, td, call.prefs) = {}
          /\ IF client.tryOnce
             THEN IF call.tried THEN Fails("none suitable") ELSE call' = [call EXCEPT !.pc = "loop"]
             ELSE IF now > call.expireAt THEN Fails("time is over")
             ELSE call' = [call EXCEPT !.pc = "loop", !.end = now]
          /\ stale' = TRUE
    /\ UNCHANGED <<client, td, lastScan, now>>

\* Mutated: every wait is as long as the timeout.
LockedWhole ==
    /\ call.pc = "lock"
    /\ \E t \in now .. now + LockTime :
          /\ now' = t
          /\ \/ ~Compatible(td, call.prefs) /\ Fails("incompatible")
             \/ Compatible(td, call.prefs) /\ Chosen
             \/ /\ Compatible(td, call.prefs) /\ Selectable(call.op, td, call.prefs) = {}
                /\ call' = [call EXCEPT !.pc = "wait", !.deadline = t + Timeout]
    /\ UNCHANGED <<client, td, lastScan, stale>>

\* A pooled client gets the mutex, and chooses or waits.
Locked ==
    /\ call.pc = "lock"
    /\ \E t \in now .. now + LockTime :
          /\ now' = t
          /\ \/ ~Compatible(td, call.prefs) /\ Fails("incompatible")
             \/ Compatible(td, call.prefs) /\ Chosen
             \/ /\ Compatible(td, call.prefs) /\ Selectable(call.op, td, call.prefs) = {}
                /\ call' = [call EXCEPT !.pc = "wait", !.deadline = t + (call.expireAt - call.start)]
    /\ UNCHANGED <<client, td, lastScan, stale>>

\* It is woken, gets the mutex again and looks at the time.
Wakes ==
    /\ call.pc = "woken"
    /\ \E t \in now .. now + LockTime :
          /\ now' = t
          /\ IF t > call.expireAt THEN call' = [call EXCEPT !.pc = "done", !.start = t, !.error = "time is over"]
             ELSE call' = [call EXCEPT !.pc = "lock", !.start = t]
    /\ UNCHANGED <<client, td, lastScan, stale>>

TimesOut ==
    /\ call.pc = "wait" /\ now >= call.deadline
    /\ \E t \in now .. now + LockTime : now' = t
    /\ Fails("time is over")
    /\ UNCHANGED <<client, td, lastScan, stale>>

\* The monitor, or another thread's handshake, changes the description of a pool, but does
\* not wake the thread twice in one tick of the clock.
Monitored ==
    /\ call.pc = "lock" \/ (call.pc = "wait" /\ now > call.start)
    /\ td' \in Scanned
    /\ call' = IF call.pc = "wait" THEN [call EXCEPT !.pc = "woken"] ELSE call
    /\ UNCHANGED <<client, lastScan, stale, now>>

\* Between selections time passes; in a wait it passes up to its end.
Tick ==
    /\ \/ Idle /\ now <= MaxTime
       \/ call.pc = "wait" /\ now < call.deadline
    /\ now' = now + 1
    /\ UNCHANGED <<client, td, lastScan, stale, call>>

\* A server as mongoc_server_description_reset leaves it; when that was is not read.
Reset == [type |-> "Unknown", rtt |-> -1, tags |-> {}, written |-> -1, updated |-> 0,
          modern |-> FALSE, hasIsMaster |-> FALSE]

\* A network error makes a server unknown.
Invalidate(s) ==
    /\ Idle /\ s \in DOMAIN td.servers /\ client.singleThreaded
    /\ td' = [td EXCEPT !.servers[s] = Reset,
                        !.type = IF @ = "RSWithPrimary" /\ OfType(td, {"RSPrimary"}) \subseteq {s}
                                 THEN "RSNoPrimary" ELSE @]
    /\ UNCHANGED <<client, lastScan, stale, now, call>>

Init ==
    /\ client \in [singleThreaded: BOOLEAN, tryOnce: BOOLEAN]
    /\ now = Heartbeat + 1
    /\ \/ td = Seed /\ lastScan = 0
       \/ td \in Known /\ lastScan = now
    /\ stale = FALSE
    /\ call = [pc |-> "none", op |-> "read", prefs |-> CHOOSE p \in Prefs : TRUE, begun |-> 0, start |-> 0,
               end |-> 0, expireAt |-> 0, tried |-> FALSE, deadline |-> 0, result |-> None, error |-> ""]

Step == GiveUp \/ Scan \/ NoScan \/ Choose \/ Locked \/ Wakes \/ TimesOut

Next ==
    \/ \E p \in Prefs : Begin("read", p)
    \/ Begin("write", None)
    \/ Step \/ Monitored \/ Tick
    \/ \E s \in DOMAIN td.servers : Invalidate(s)

Spec == Init /\ [][Next]_vars

\* The thread is scheduled and the clock goes on.
FairSpec == Spec /\ WF_vars(Step) /\ SF_vars(Tick)

-----------------------------------------------------------------------------
(* Properties.                                                             *)

\* The type invariant.
SelectionTypeOK ==
    /\ IsDescription(td)
    /\ {now, lastScan} \subseteq Nat /\ stale \in BOOLEAN
    /\ call \in CallType
    /\ call.pc = "done" <=> (call.result # None) # (call.error # "")

\* What suits, as the server selection specification that the code cites has it: for a
\* replica set by mode; a secondary's staleness is how far it lags behind the primary, or
\* the newest secondary; the first tag set that any server matches counts; among those the
\* ones within the threshold of the nearest.
Reference(op, d, p) ==
    LET sd == d.servers
        P == OfType(d, {"RSPrimary"})
        S == OfType(d, {"RSSecondary"})
        Lag(s) == IF P # {} THEN LET m == CHOOSE m \in P : TRUE
                                 IN (sd[s].updated - sd[s].written) - (sd[m].updated - sd[m].written)
                  ELSE Max({sd[t].written : t \in S}) - sd[s].written
        Fresh == {s \in S : p.staleness # None => Lag(s) + Heartbeat <= p.staleness}
        Tagged(C) == {s \in C : p.tags = <<>>
                          \/ \E k \in DOMAIN p.tags :
                                /\ p.tags[k] \subseteq sd[s].tags
                                /\ \A j \in 1 .. k - 1, t \in C : ~(p.tags[j] \subseteq sd[t].tags)}
        Near(C) == {s \in C : \A t \in C : sd[s].rtt <= sd[t].rtt + LocalThreshold}
        Secondaries == Near(Tagged(Fresh))
    IN CASE d.type = "Single" -> {s \in DOMAIN sd : sd[s].hasIsMaster}
         [] d.type = "Sharded" -> Near(OfType(d, {"Mongos"}))
         [] d.type = "Unknown" -> {}
         [] d.type \in SetTypes ->
              CASE op = "write" \/ Mode(p) = "primary" -> P
                [] op = "read" /\ Mode(p) = "primaryPreferred" -> IF P # {} THEN P ELSE Secondaries
                [] op = "read" /\ Mode(p) = "secondary" -> Secondaries
                [] op = "read" /\ Mode(p) = "secondaryPreferred" ->
                     IF Secondaries # {} THEN Secondaries ELSE P
                [] op = "read" /\ Mode(p) = "nearest" -> Near(Tagged(P \cup Fresh))

\* Whatever the description, if it is compatible with the preference the servers that may
\* be selected are the suitable ones.  The estimate of a lag takes a date that no server
\* told for one, and needs that check.
SelectsSuitable ==
    call.pc \in {"select", "lock"} /\ Compatible(td, call.prefs) =>
        Selectable(call.op, td, call.prefs) = Reference(call.op, td, call.prefs)

\* The type of a replica set's topology can be out of date and name a primary that is not
\* there: what is selected is the same as if it were right.
StaleTypeIsHarmless ==
    call.pc \in {"select", "lock"} /\ td.type = "RSWithPrimary" /\ OfType(td, {"RSPrimary"}) = {}
    => Selectable(call.op, td, call.prefs) = Selectable(call.op, [td EXCEPT !.type = "RSNoPrimary"], call.prefs)

\* A secondary that had all the primary's writes when it was asked, with a primary that
\* writes at least every IdleWrite, is not rejected as stale for any maxStalenessSeconds
\* that is accepted: the bound that is checked first covers what the estimate can be off.
CaughtUpIsUsable ==
    \A p \in Prefs \ {None} :
        Compatible(td, p) /\ p.staleness # None =>
          \A s \in OfType(td, {"RSSecondary"}), m \in OfType(td, {"RSPrimary"}) :
              /\ td.servers[s].written >= td.servers[s].updated - IdleWrite
              /\ td.servers[m].written <= td.servers[m].updated
              => s \in FilterStale(td, {s}, p)

\* A read that is sent to a member of a replica set other than the primary has slaveOk set,
\* without which the member refuses it; a mongos is told every mode but primary, unless it
\* would do the same by the flag.
ReadsAreAnswered ==
    call.pc = "done" /\ call.result # None /\ call.op = "read" /\ call.result \in DOMAIN td.servers =>
        LET type == td.servers[call.result].type
            read == Applies(td.type, type, call.prefs)
        IN /\ type \in {"RSSecondary", "RSArbiter", "RSOther", "RSGhost"} => read.slaveOk
           /\ type = "Mongos" /\ Mode(call.prefs) # "primary" =>
                 read.slaveOk /\ (read.wrapped \/ (Mode(call.prefs) = "secondaryPreferred"
                                                 /\ call.prefs.tags = <<>>))

\* What is selected suits, whatever the description, and is asked in a way it answers.
SelectionIsSound == SelectionTypeOK /\ SelectsSuitable /\ StaleTypeIsHarmless /\ ReadsAreAnswered

\* A selection returns in time: with one try after a sleep and a scan; else after a scan
\* that began before its timeout was over; with a pool, when it gets the mutex after that.
ReturnsInTime ==
    ~Idle /\ Idle' =>
        now' <= IF ~client.singleThreaded THEN call.expireAt + 2 * LockTime
                ELSE IF client.tryOnce THEN call.begun + MinHeartbeat + ConnectTimeout
                ELSE call.expireAt + ConnectTimeout

\* A single-threaded client never uses a description that is older than a heartbeat.
DescriptionIsRecent ==
    call.pc = "select" /\ client.singleThreaded => lastScan + Heartbeat >= call.begun

\* A single-threaded client that finds no server has scanned since the selection began,
\* if its timeout leaves room for a scan: no failure is told from what was known before.
FailureIsTried ==
    /\ client.singleThreaded /\ call.pc = "done" /\ call.error \in {"none suitable", "time is over"}
    /\ MinHeartbeat <= Timeout
    => lastScan >= call.begun

\* What a single-threaded client decides is decided on recent knowledge.
KnowledgeIsRecent == DescriptionIsRecent /\ FailureIsTried

\* Scans of a single-threaded client are at least the minimal heartbeat apart, through
\* selections that fail and begin again.
ScansAreSpaced == stale /\ ~stale' => lastScan' >= lastScan + MinHeartbeat

\* Every selection returns.
SelectionReturns == ~Idle ~> Idle

\* Selections return, and by their deadlines, and scans keep their distance.
KeepsTime == [][ReturnsInTime /\ ScansAreSpaced]_vars /\ SelectionReturns

=============================================================================
