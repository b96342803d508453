------------------------------ MODULE MCTopology ------------------------------
(***************************************************************************)
(* A replica set of two hosts, monitored and used by one client.           *)
(***************************************************************************)
EXTENDS TopologyProps, TLC

CONSTANTS A, B, S

Member(flag, members) == [EmptyReply EXCEPT !.ok = TRUE, !.flags = {flag}, !.setName = S,
                                            !.members = members]

TwoHosts == {A, B}
OneSet == {S}

\* Two hosts: either may be primary, alone or with the other.
TwoHostReplies ==
    {EmptyReply} \cup {Member("ismaster", m) : m \in {{A}, {B}, {A, B}}}
    \cup {Member("secondary", {A, B})}

TwoSeeds == {[hosts |-> {A, B}, length |-> 2, replicaSet |-> S]}
=============================================================================
