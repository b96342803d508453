----------------------- MODULE TopologyDescriptionProps -----------------------
(***************************************************************************)
(* What the client's picture of a deployment promises to its users: the    *)
(* server selection, the cluster's connections and the application that    *)
(* asks for the known servers.                                             *)
(***************************************************************************)
EXTENDS TopologyDescription

ServerDescription ==
    [address: Address, type: ServerType, me: Address \cup {None, Dangling},
     lastIsMaster: Reply \cup {None}, setVersion: Nat \cup {NoSetVersion}, electionId: Nat]

\* Type correctness of the topology description and of the servers it owns.
TypeOK ==
    /\ td = [type |-> td.type, servers |-> td.servers, setName |-> td.setName,
             maxSetVersion |-> td.maxSetVersion, maxElectionId |-> td.maxElectionId,
             maxServerId |-> td.maxServerId]
    /\ td.type \in TopologyType
    /\ td.servers \in [DOMAIN td.servers -> ServerDescription]
    /\ DOMAIN td.servers \subseteq 1 .. td.maxServerId
    /\ td.setName \in SetName \cup {None}
    /\ td.maxSetVersion \in Nat \cup {NoSetVersion}
    /\ td.maxElectionId \in Nat
    /\ td.maxServerId \in Nat

IsReplicaSet == td.type \in {"RSNoPrimary", "RSWithPrimary"}

IsPrimary(id) == td.servers[id].type = "RSPrimary"

-----------------------------------------------------------------------------
\* No two descriptions are of the same host, whatever the seed list repeats and
\* whatever members report: the scanner and the cluster find a server by
\* address or by id and must mean the same one.
AddressesAreUnique ==
    \A i, j \in DOMAIN td.servers :
        td.servers[i].address = td.servers[j].address => i = j

\* A client in direct connection, or one that found a lone standalone, keeps
\* exactly one server: mongoc_topology_description_select reads item 0 of the
\* set unguarded when the type is SINGLE.
SingleHasOneServer ==
    td.type = "Single" => \E id \in DOMAIN td.servers : DOMAIN td.servers = {id}

\* The members a topology holds fit its type: no standalone or mongos hides in
\* a replica set, no replica set member in a sharded cluster, and none of these
\* in a topology that does not know yet what it is.
ServersFitTopology ==
    \A id \in DOMAIN td.servers :
        LET type == td.servers[id].type
        IN /\ td.type = "Unknown" => type \in {"Unknown", "RSGhost"}
           /\ td.type = "Sharded" => type \in {"Unknown", "RSGhost", "Mongos"}
           /\ td.type = "RSNoPrimary" => type \notin {"Standalone", "Mongos", "RSPrimary"}
           /\ td.type = "RSWithPrimary" => type \notin {"Standalone", "Mongos"}

\* Two servers that both claim to be primary (a network partition) are never
\* both believed: a write goes to one server.
AtMostOnePrimary ==
    \A i, j \in DOMAIN td.servers : IsPrimary(i) /\ IsPrimary(j) => i = j

\* Every data-bearing member belongs to the set the URI named or the first
\* member revealed; in particular set_name is not NULL when
\* update_rs_with_primary_from_member compares it with strcmp.
MembersShareSetName ==
    /\ td.type = "RSWithPrimary" => td.setName # None
    /\ IsReplicaSet =>
         \A id \in DOMAIN td.servers :
            td.servers[id].type \in {"RSPrimary", "RSSecondary", "RSArbiter", "RSOther"} =>
                td.setName # None /\ SetNameOf(td.servers[id]) = td.setName

\* Split brain: a primary that reports an election is the one of the greatest
\* election the client has heard of.
PrimaryHoldsMaxElection ==
    IsReplicaSet =>
        \A id \in DOMAIN td.servers :
            IsPrimary(id) /\ HasElectionId(td.servers[id]) =>
                /\ td.servers[id].setVersion = td.maxSetVersion
                /\ td.servers[id].electionId = td.maxElectionId

\* Once a primary is known the topology holds only servers of its member
\* lists, whatever secondaries and seeds had made it add before.
PrimaryListsEveryServer ==
    IsReplicaSet =>
        \A p \in DOMAIN td.servers :
            IsPrimary(p) =>
                \A id \in DOMAIN td.servers :
                    td.servers[id].address \in ServerMembers(td.servers[p])

\* What the code that reads the picture takes for granted: distinct hosts, a server
\* under SINGLE, no member of another kind or another set.
WellFormed ==
    /\ TypeOK
    /\ AddressesAreUnique
    /\ SingleHasOneServer
    /\ ServersFitTopology
    /\ MembersShareSetName

-----------------------------------------------------------------------------
ElectionBefore(v1, e1, v2, e2) == v1 < v2 \/ (v1 = v2 /\ e1 <= e2)

ElectionStep == ElectionBefore(td.maxSetVersion, td.maxElectionId,
                               td'.maxSetVersion, td'.maxElectionId)

ServerIdStep ==
    /\ td'.maxServerId >= td.maxServerId
    /\ \A id \in DOMAIN td'.servers :
         IF id \in DOMAIN td.servers THEN td'.servers[id].address = td.servers[id].address
         ELSE id > td.maxServerId

KindStep ==
    /\ td.type \in {"Single", "Sharded"} => td'.type = td.type
    /\ IsReplicaSet => IsReplicaSet'
    /\ td.setName # None => td'.setName = td.setName

\* The greatest election remembered, ordered by set version and then election
\* id, is never forgotten, whatever mixture of fields primaries report.
ElectionNeverGoesBack == [][ElectionStep]_vars

\* A server id is given once: a node of the scanner or a stream of the cluster
\* that outlives its server never meets another server under the same id.  And what
\* the client has learnt of the kind of deployment is final: a topology never leaves
\* SINGLE or SHARDED, a replica set stays one, under one name.
IdentityIsFinal == [][ServerIdStep /\ KindStep]_vars

=============================================================================
