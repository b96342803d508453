------------------------ MODULE MCTopologyDescription ------------------------
(***************************************************************************)
(* Small deployments for TopologyDescription: hosts A and B, sets S and T, *)
(* and what they reply.                                                    *)
(***************************************************************************)
EXTENDS TopologyDescriptionProps, TLC

CONSTANTS A, B, S, T

Plain == [ok |-> TRUE, flags |-> {}, setName |-> None, me |-> None, members |-> {},
          primary |-> None, setVersion |-> NoSetVersion, electionId |-> 0]

Malformed == [Plain EXCEPT !.ok = FALSE]
Standalone == Plain
Mongos == [Plain EXCEPT !.flags = {"msg"}]
Ghost == [Plain EXCEPT !.flags = {"isreplicaset"}]

Member(flag, set, members) ==
    [Plain EXCEPT !.flags = {flag}, !.setName = set, !.members = members]

TwoHosts == {A, B}
TwoSets == {S, T}

\* Any mixture of server types, two set names, members that list one another.
MixedReplies ==
    {Malformed, Standalone, Mongos, Ghost}
    \cup {Member("ismaster", s, m) : s \in TwoSets, m \in {{A}, {A, B}}}
    \cup {[Member("secondary", S, {A, B}) EXCEPT !.primary = p] : p \in {None, A}}
    \cup {Member("secondary", T, {B}), Member("hidden", S, {B}), Member("arbiterOnly", S, {A})}

TwoHostSeedings ==
    {[hosts |-> {A}, length |-> 1, replicaSet |-> None],
     [hosts |-> {A}, length |-> 2, replicaSet |-> None],
     [hosts |-> {A, B}, length |-> 2, replicaSet |-> None],
     [hosts |-> {A, B}, length |-> 2, replicaSet |-> S]}

\* Primaries of a set under every mixture of set versions and election ids.
ElectionReplies ==
    {Malformed, [Member("secondary", S, {A, B}) EXCEPT !.primary = A]}
    \cup {[Member("ismaster", S, {A, B}) EXCEPT !.setVersion = v, !.electionId = e] :
            v \in {NoSetVersion, 1, 2}, e \in 0 .. 2}

\* A member that calls its host by another name.
MoveReplies == {[Member("secondary", S, {A, B}) EXCEPT !.me = B]}

\* All of them.
TwoHostReplies == MixedReplies \cup ElectionReplies \cup MoveReplies
=============================================================================
