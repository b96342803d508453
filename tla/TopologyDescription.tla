------------------------- MODULE TopologyDescription -------------------------
(***************************************************************************)
(* The client's picture of a MongoDB deployment: libmongoc's               *)
(* mongoc_topology_description_t with the server descriptions it owns, and *)
(* the state machine that every ismaster outcome drives.  A reply reaches  *)
(* it from the scanner, from the handshake of a new connection, and, as a  *)
(* NULL reply, from whoever saw a network error.  Every step runs under    *)
(* the mutex of the owning mongoc_topology_t, so a handler is one action.  *)
(***************************************************************************)
EXTENDS Integers, FiniteSets

CONSTANTS
    Address,      \* host:port strings, up to the case strcasecmp ignores
    SetName,      \* replica set names
    None,         \* a NULL pointer
    Dangling,     \* a pointer into a document that was freed
    Reply,        \* the ismaster replies servers may send
    Seeding,      \* the URIs: a seed list and a replicaSet option
    MaxServerId   \* bound on the ids handed out

NoSetVersion == -1

Flag == {"msg", "hidden", "ismaster", "secondary", "arbiterOnly", "isreplicaset"}

\* What mongoc_server_description_handle_ismaster reads of a reply: flags holds
\* the keys whose value is true, members the union of hosts, passives and
\* arbiters.  ok is FALSE for a reply that is empty or that fails to parse: the
\* other fields are then those read before the failure.
ReplyType == [ok: BOOLEAN, flags: SUBSET Flag, setName: SetName \cup {None},
              me: Address \cup {None}, members: SUBSET Address,
              primary: Address \cup {None}, setVersion: Nat \cup {NoSetVersion},
              electionId: Nat]

SeedingType == [hosts: (SUBSET Address) \ {{}}, length: Nat \ {0},
                replicaSet: SetName \cup {None}]

ASSUME AddressAssumption == IsFiniteSet(Address) /\ None \notin Address
ASSUME SetNameAssumption == None \notin SetName
ASSUME ReplyAssumption == Reply \subseteq ReplyType /\ None \notin Reply
ASSUME SeedingAssumption ==
    /\ Seeding \subseteq SeedingType
    /\ \A s \in Seeding : s.length >= Cardinality(s.hosts)
ASSUME MaxServerIdAssumption == MaxServerId \in Nat

VARIABLE td

vars == <<td>>

-----------------------------------------------------------------------------
(* Server descriptions.                                                    *)

\* The server type a reply describes, in the order the code tests the flags.
ReplyServerType(r) ==
    IF r = None \/ ~r.ok THEN "Unknown"
    ELSE IF "msg" \in r.flags THEN "Mongos"
    ELSE IF r.setName # None THEN
        IF "hidden" \in r.flags THEN "RSOther"
        ELSE IF "ismaster" \in r.flags THEN "RSPrimary"
        ELSE IF "secondary" \in r.flags THEN "RSSecondary"
        ELSE IF "arbiterOnly" \in r.flags THEN "RSArbiter"
        ELSE "RSOther"
    ELSE IF "isreplicaset" \in r.flags THEN "RSGhost"
    ELSE "Standalone"

ServerType == {"Unknown", "Standalone", "Mongos", "PossiblePrimary", "RSPrimary",
               "RSSecondary", "RSArbiter", "RSOther", "RSGhost"}

\* The set name, the member lists and the current primary of a description are
\* pointers into last_is_master, so they are views of it; me is one too, but no
\* reset clears it, so it has a field of its own.
SetNameOf(sd) == IF sd.lastIsMaster = None THEN None ELSE sd.lastIsMaster.setName

CurrentPrimary(sd) == IF sd.lastIsMaster = None THEN None ELSE sd.lastIsMaster.primary

ServerMembers(sd) == IF sd.lastIsMaster = None THEN {} ELSE sd.lastIsMaster.members

HasRsMember(sd, a) == sd.type # "Unknown" /\ a \in ServerMembers(sd)

HasSetVersion(sd) == sd.setVersion # NoSetVersion

HasElectionId(sd) == sd.electionId # 0

ServerInit(a) ==
    [address |-> a, type |-> "Unknown", me |-> None, lastIsMaster |-> None,
     setVersion |-> NoSetVersion, electionId |-> 0]

\* mongoc_server_description_handle_ismaster: the reset, then the parse of r.
\* The memset of the reset leaves set_version at 0, not at NoSetVersion, and
\* leaves me pointing into the last_is_master it has just destroyed.
ServerHandleIsmaster(sd, r) ==
    [address |-> sd.address,
     type |-> ReplyServerType(r),
     me |-> IF r # None /\ r.me # None THEN r.me
            ELSE IF sd.me = None THEN None ELSE Dangling,
     lastIsMaster |-> r,
     setVersion |-> IF r # None /\ r.setVersion # NoSetVersion THEN r.setVersion ELSE 0,
     electionId |-> IF r = None THEN 0 ELSE r.electionId]

\* mongoc_server_description_new_copy: parses last_is_master again.
ServerNewCopy(sd) ==
    IF sd.lastIsMaster = None THEN ServerInit(sd.address)
    ELSE ServerHandleIsmaster(ServerInit(sd.address), sd.lastIsMaster)

-----------------------------------------------------------------------------
(* Operators on a topology description t.                                  *)

Addresses(t) == {t.servers[i].address : i \in DOMAIN t.servers}

HasServer(t, a) == a \in Addresses(t)

HasPrimary(t) ==
    \E i \in DOMAIN t.servers : t.servers[i].type \in {"RSPrimary", "Standalone"}

\* Mutated: the election id does not break the tie of equal set versions.
LaterElectionIgnoresId(t, sd) == t.maxSetVersion > sd.setVersion

LaterElection(t, sd) ==
    \/ t.maxSetVersion > sd.setVersion
    \/ t.maxSetVersion = sd.setVersion /\ t.maxElectionId > sd.electionId

RemoveServer(t, id) ==
    [t EXCEPT !.servers = [i \in DOMAIN t.servers \ {id} |-> t.servers[i]]]

UpdateRsType(t) ==
    [t EXCEPT !.type = IF HasPrimary(t) THEN "RSWithPrimary" ELSE "RSNoPrimary"]

RemoveAndCheckPrimary(t, id) == UpdateRsType(RemoveServer(t, id))

\* A reply, or None for the NULL reply of an error, is parsed into server id.
Parse(t, id, r) ==
    [t EXCEPT !.servers = [t.servers EXCEPT ![id] = ServerHandleIsmaster(t.servers[id], r)]]

\* mongoc_topology_description_invalidate_server: in this use the server's new
\* type is UNKNOWN, whose only transition is check_if_has_primary.
InvalidateServer(t, id) ==
    LET u == Parse(t, id, None)
    IN IF u.type = "RSWithPrimary" THEN UpdateRsType(u) ELSE u

\* Mutated: the ids go on from the number of servers.
NewServersFromCount(t, addrs) ==
    LET new == addrs \ Addresses(t)
        count == Cardinality(DOMAIN t.servers)
        ids == (count + 1) .. (count + Cardinality(new))
    IN {f \in [ids -> new] : \A i, j \in ids : f[i] = f[j] => i = j}

\* The ids that ++max_server_id gives to those of addrs that are new: the order
\* of a member list decides which address gets which id.
NewServers(t, addrs) ==
    LET new == addrs \ Addresses(t)
        ids == (t.maxServerId + 1) .. (t.maxServerId + Cardinality(new))
    IN {f \in [ids -> new] : /\ \A i, j \in ids : f[i] = f[j] => i = j
                             /\ \A a \in new : \E i \in ids : f[i] = a}

\* _mongoc_topology_description_add_new_servers, with new \in NewServers(t, _).
AddNewServers(t, new) ==
    [t EXCEPT !.servers = [i \in DOMAIN t.servers \cup DOMAIN new |->
                              IF i \in DOMAIN new THEN ServerInit(new[i]) ELSE t.servers[i]],
              !.maxServerId = t.maxServerId + Cardinality(DOMAIN new)]

\* Mutated: the callback of the walk over the servers stops it at the first.
InvalidateFirstPrimary(t, id) ==
    [t EXCEPT !.servers = [i \in DOMAIN t.servers |->
        IF i # id /\ t.servers[i].type = "RSPrimary" /\ \A j \in DOMAIN t.servers : i <= j
        THEN [t.servers[i] EXCEPT !.type = "Unknown", !.setVersion = NoSetVersion,
                                  !.electionId = 0]
        ELSE t.servers[i]]]

InvalidatePrimaries(t, id) ==
    [t EXCEPT !.servers = [i \in DOMAIN t.servers |->
        IF i # id /\ t.servers[i].type = "RSPrimary"
        THEN [t.servers[i] EXCEPT !.type = "Unknown", !.setVersion = NoSetVersion,
                                  !.electionId = 0]
        ELSE t.servers[i]]]

\* Mutated: only members of unknown type are removed.
RemoveUnreportedUnknown(t, primary) ==
    [t EXCEPT !.servers = [i \in {j \in DOMAIN t.servers :
                                     \/ HasRsMember(primary, t.servers[j].address)
                                     \/ t.servers[j].type # "Unknown"} |-> t.servers[i]]]

RemoveUnreportedServers(t, primary) ==
    [t EXCEPT !.servers = [i \in {j \in DOMAIN t.servers :
                                     HasRsMember(primary, t.servers[j].address)} |-> t.servers[i]]]

LabelUnknownMember(t, a, type) ==
    [t EXCEPT !.servers = [i \in DOMAIN t.servers |->
        IF t.servers[i].address = a /\ t.servers[i].type = "Unknown"
        THEN [t.servers[i] EXCEPT !.type = type] ELSE t.servers[i]]]

\* What strcasecmp(connection_address, me) may answer: anything when me dangles.
MatchesMe(sd) ==
    IF sd.me = None THEN {TRUE}
    ELSE IF sd.me = Dangling THEN BOOLEAN
    ELSE {sd.me = sd.address}

-----------------------------------------------------------------------------
(* The state machine.                                                      *)

TopologyType == {"Unknown", "Sharded", "RSNoPrimary", "RSWithPrimary", "Single"}

\* gSDAMTransitionTable: the handler for a server type under a topology type.
RsMemberRow == [Unknown |-> "TransitionUnknownToRsNoPrimary", Sharded |-> "RemoveServer",
                RSNoPrimary |-> "UpdateRsWithoutPrimary",
                RSWithPrimary |-> "UpdateRsWithPrimaryFromMember", Single |-> "None"]

SDAMTransitionTable ==
    [Unknown |-> [Unknown |-> "None", Sharded |-> "None", RSNoPrimary |-> "None",
                  RSWithPrimary |-> "CheckIfHasPrimary", Single |-> "None"],
     Standalone |-> [Unknown |-> "UpdateUnknownWithStandalone", Sharded |-> "RemoveServer",
                     RSNoPrimary |-> "RemoveServer",
                     RSWithPrimary |-> "RemoveAndCheckPrimary", Single |-> "None"],
     Mongos |-> [Unknown |-> "SetTopologyTypeToSharded", Sharded |-> "None",
                 RSNoPrimary |-> "RemoveServer",
                 RSWithPrimary |-> "RemoveAndCheckPrimary", Single |-> "None"],
     RSPrimary |-> [Unknown |-> "UpdateRsFromPrimary", Sharded |-> "RemoveServer",
                    RSNoPrimary |-> "UpdateRsFromPrimary",
                    RSWithPrimary |-> "UpdateRsFromPrimary", Single |-> "None"],
     RSSecondary |-> RsMemberRow,
     RSArbiter |-> RsMemberRow,
     RSOther |-> RsMemberRow,
     RSGhost |-> [Unknown |-> "None", Sharded |-> "RemoveServer", RSNoPrimary |-> "None",
                  RSWithPrimary |-> "CheckIfHasPrimary", Single |-> "None"]]

\* mongoc_topology_description_handle_ismaster finds server id, and reply r
\* selects handler h.
Handles(h, id, r) ==
    /\ id \in DOMAIN td.servers
    /\ SDAMTransitionTable[ReplyServerType(r)][td.type] = h

NoTransition(id, r) ==
    /\ Handles("None", id, r)
    /\ td' = Parse(td, id, r)

CheckIfHasPrimary(id, r) ==
    /\ Handles("CheckIfHasPrimary", id, r)
    /\ td' = UpdateRsType(Parse(td, id, r))

UpdateUnknownWithStandalone(id, r) ==
    /\ Handles("UpdateUnknownWithStandalone", id, r)
    /\ td' = IF DOMAIN td.servers # {id} THEN RemoveServer(Parse(td, id, r), id)
             ELSE [Parse(td, id, r) EXCEPT !.type = "Single"]

RemoveUnexpected(id, r) ==
    /\ Handles("RemoveServer", id, r)
    /\ td' = RemoveServer(Parse(td, id, r), id)

\* Mutated: the unexpected server stays.
RemoveUnexpectedNever(id, r) ==
    /\ Handles("RemoveAndCheckPrimary", id, r)
    /\ td' = UpdateRsType(Parse(td, id, r))

RemoveUnexpectedAndCheck(id, r) ==
    /\ Handles("RemoveAndCheckPrimary", id, r)
    /\ td' = RemoveAndCheckPrimary(Parse(td, id, r), id)

SetTopologyTypeToSharded(id, r) ==
    /\ Handles("SetTopologyTypeToSharded", id, r)
    /\ td' = [Parse(td, id, r) EXCEPT !.type = "Sharded"]

-----------------------------------------------------------------------------
(* _mongoc_topology_description_update_rs_from_primary.  Its first test,   *)
(* that the server's address is in the topology, holds of every server     *)
(* being handled.                                                          *)

AdoptSetName(t, sd) == [t EXCEPT !.setName = IF t.setName = None THEN SetNameOf(sd) ELSE t.setName]

OtherSet(t, sd) == t.setName # None /\ t.setName # SetNameOf(sd)

StaleElection(t, sd) == HasSetVersion(sd) /\ HasElectionId(sd) /\ LaterElection(t, sd)

\* Mutated: only the first set version is remembered.
RecordElectionOnce(t, sd) ==
    [t EXCEPT !.maxElectionId = IF HasSetVersion(sd) /\ HasElectionId(sd)
                                THEN sd.electionId ELSE t.maxElectionId,
              !.maxSetVersion = IF HasSetVersion(sd) /\ t.maxSetVersion = NoSetVersion
                                THEN sd.setVersion ELSE t.maxSetVersion]

\* set_max_election_id, then set_max_set_version.
RecordElection(t, sd) ==
    [t EXCEPT !.maxElectionId = IF HasSetVersion(sd) /\ HasElectionId(sd)
                                THEN sd.electionId ELSE t.maxElectionId,
              !.maxSetVersion = IF HasSetVersion(sd) /\ sd.setVersion > t.maxSetVersion
                                THEN sd.setVersion ELSE t.maxSetVersion]

RejectPrimaryOfOtherSet(id, r) ==
    LET t == Parse(td, id, r)
    IN /\ Handles("UpdateRsFromPrimary", id, r)
       /\ OtherSet(t, t.servers[id])
       /\ td' = RemoveAndCheckPrimary(t, id)

\* The stale server handles a NULL reply of its own, in the middle of this one.
RejectStalePrimary(id, r) ==
    LET t == Parse(td, id, r)
    IN /\ Handles("UpdateRsFromPrimary", id, r)
       /\ ~OtherSet(t, t.servers[id])
       /\ StaleElection(t, t.servers[id])
       /\ td' = UpdateRsType(InvalidateServer(AdoptSetName(t, t.servers[id]), id))

AcceptPrimary(id, r) ==
    LET t == Parse(td, id, r)
        sd == t.servers[id]
        current == InvalidatePrimaries(RecordElection(AdoptSetName(t, sd), sd), id)
    IN /\ Handles("UpdateRsFromPrimary", id, r)
       /\ ~OtherSet(t, sd)
       /\ ~StaleElection(t, sd)
       /\ \E new \in NewServers(t, ServerMembers(sd)) :
             /\ t.maxServerId + Cardinality(DOMAIN new) <= MaxServerId
             /\ td' = UpdateRsType(RemoveUnreportedServers(AddNewServers(current, new), sd))

-----------------------------------------------------------------------------
(* _mongoc_topology_description_update_rs_without_primary, reached with    *)
(* the topology RSNoPrimary or turned into it by                           *)
(* _mongoc_topology_description_transition_unknown_to_rs_no_primary.       *)

HandlesWithoutPrimary(id, r) ==
    \/ Handles("TransitionUnknownToRsNoPrimary", id, r)
    \/ Handles("UpdateRsWithoutPrimary", id, r)

RejectMemberOfOtherSet(id, r) ==
    LET t == [Parse(td, id, r) EXCEPT !.type = "RSNoPrimary"]
    IN /\ HandlesWithoutPrimary(id, r)
       /\ OtherSet(t, t.servers[id])
       /\ td' = RemoveServer(t, id)

UpdateRsWithoutPrimary(id, r) ==
    LET t == [Parse(td, id, r) EXCEPT !.type = "RSNoPrimary"]
        sd == t.servers[id]
    IN /\ HandlesWithoutPrimary(id, r)
       /\ ~OtherSet(t, sd)
       /\ \E new \in NewServers(t, ServerMembers(sd)), match \in MatchesMe(sd) :
             LET u == AddNewServers(AdoptSetName(t, sd), new)
             IN /\ t.maxServerId + Cardinality(DOMAIN new) <= MaxServerId
                /\ td' = IF ~match THEN RemoveServer(u, id)
                         ELSE LabelUnknownMember(u, CurrentPrimary(sd), "PossiblePrimary")

-----------------------------------------------------------------------------
(* _mongoc_topology_description_update_rs_with_primary_from_member.        *)

RejectMemberWithPrimary(id, r) ==
    LET t == Parse(td, id, r)
    IN /\ Handles("UpdateRsWithPrimaryFromMember", id, r)
       /\ t.setName # SetNameOf(t.servers[id])
       /\ td' = RemoveAndCheckPrimary(t, id)

\* Neither a mismatch of me nor the loss of the only primary, when the member
\* names no successor, gives the topology a new type.
UpdateRsWithPrimaryFromMember(id, r) ==
    LET t == Parse(td, id, r)
        sd == t.servers[id]
    IN /\ Handles("UpdateRsWithPrimaryFromMember", id, r)
       /\ t.setName = SetNameOf(sd)
       /\ \E match \in MatchesMe(sd) :
             td' = IF ~match THEN RemoveServer(t, id)
                   ELSE IF ~HasPrimary(t) /\ CurrentPrimary(sd) # None
                   THEN LabelUnknownMember([t EXCEPT !.type = "RSNoPrimary"],
                                           CurrentPrimary(sd), "PossiblePrimary")
                   ELSE t

-----------------------------------------------------------------------------
\* mongoc_topology_new: the type comes from the URI alone, and the seeds get
\* the first ids in the order of the list, a repeated host only one.
TopologyOf(s) ==
    {[type |-> IF s.replicaSet # None THEN "RSNoPrimary"
               ELSE IF s.length > 1 THEN "Unknown" ELSE "Single",
      servers |-> [i \in DOMAIN f |-> ServerInit(f[i])],
      setName |-> s.replicaSet, maxSetVersion |-> NoSetVersion, maxElectionId |-> 0,
      maxServerId |-> Cardinality(DOMAIN f)] :
        f \in {g \in [1 .. Cardinality(s.hosts) -> s.hosts] :
                  /\ \A i, j \in DOMAIN g : g[i] = g[j] => i = j
                  /\ \A a \in s.hosts : \E i \in DOMAIN g : g[i] = a}}

Init == td \in UNION {TopologyOf(s) : s \in Seeding}

HandleIsmaster(id, r) ==
    \/ NoTransition(id, r)
    \/ CheckIfHasPrimary(id, r)
    \/ UpdateUnknownWithStandalone(id, r)
    \/ RemoveUnexpected(id, r)
    \/ RemoveUnexpectedAndCheck(id, r)
    \/ SetTopologyTypeToSharded(id, r)
    \/ RejectPrimaryOfOtherSet(id, r)
    \/ RejectStalePrimary(id, r)
    \/ AcceptPrimary(id, r)
    \/ RejectMemberOfOtherSet(id, r)
    \/ UpdateRsWithoutPrimary(id, r)
    \/ RejectMemberWithPrimary(id, r)
    \/ UpdateRsWithPrimaryFromMember(id, r)

Next == \E id \in DOMAIN td.servers, r \in Reply \cup {None} : HandleIsmaster(id, r)

Spec == Init /\ [][Next]_vars
=============================================================================
