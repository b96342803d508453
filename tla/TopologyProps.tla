---------------------------- MODULE TopologyProps ----------------------------
(***************************************************************************)
(* What a single-threaded topology owes the application and the servers.   *)
(***************************************************************************)
EXTENDS Topology

NodeType == [id : Nat \ {0}, address : Address, retired : BOOLEAN,
             stream : BOOLEAN, failed : BOOLEAN]

\* Type correctness of the scanner and of its scan.
ScannerTypeOK ==
    /\ nodes \in Seq(NodeType)
    /\ cmds \in Seq(Nat \ {0})
    /\ scan \in {"off", "running", "expiring"}
    /\ cursor = None \/ (scan = "expiring" /\ \E c \in DOMAIN cmds : cmds[c] = cursor)
    /\ handled \in [id : Nat \ {0}, drop : BOOLEAN] \cup {None}
    /\ assertion \in {None, "!node->cmd", "!node->retired",
                      "scanner_node && !scanner_node->retired"}

\* The scanner has at most one node for a host, a retired one included, and one
\* command at most for a node: no host gets two monitoring connections, and no
\* callback finds the node of another server.
OneNodePerHost ==
    /\ \A j, k \in DOMAIN nodes :
         (nodes[j].id = nodes[k].id \/ nodes[j].address = nodes[k].address) => j = k
    /\ \A c, d \in DOMAIN cmds : cmds[c] = cmds[d] => c = d

\* A command in flight has a node, and that node has the stream it polls: no
\* command outlives its connection, in a scan, between scans or after a reset.
CommandsHaveStreams ==
    \A c \in DOMAIN cmds :
        \E k \in DOMAIN nodes : nodes[k].id = cmds[c] /\ nodes[k].stream

\* A retired node never stands for a server of the topology again, not even if
\* its host comes back: its late answer cannot be taken for that server's.
\* And a node names the host of its server: the application that asks for server id
\* never talks to another host.
NodesAgreeWithServers ==
    \A k \in DOMAIN nodes :
        nodes[k].id \in DOMAIN td.servers =>
            /\ ~nodes[k].retired
            /\ nodes[k].address = td.servers[nodes[k].id].address

\* The application is never given a stream on which an ismaster is in flight:
\* it would read the scanner's reply as its own.
StreamsAreNotShared ==
    Idle => \A c \in DOMAIN cmds : ~Usable(cmds[c])

\* Nodes, commands and streams stay matched, in a scan and between scans.
ScannerIsSound ==
    /\ ScannerTypeOK
    /\ OneNodePerHost
    /\ CommandsHaveStreams
    /\ StreamsAreNotShared

\* A blocking scan ends, whatever was added to it or canceled in it.
ScansEnd == scan # "off" ~> scan = "off"

-----------------------------------------------------------------------------
(* What assertions in the source say.                                      *)

\* mongoc-topology-scanner.c asserts that a node set up for a scan has no command
\* in flight, and is not retired; mongoc-cluster.c that the server an application or
\* a cursor names has a node, which is not retired.
AssertionsHold == assertion = None

=============================================================================
