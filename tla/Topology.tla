------------------------------- MODULE Topology -------------------------------
(***************************************************************************)
(* A single-threaded mongoc_topology_t, the kind every client of the PHP   *)
(* driver has: the topology description, the scanner's node for each       *)
(* server with the one stream that monitoring and the application share,   *)
(* and the ismaster commands in flight.  A blocking scan runs inside       *)
(* server selection; between scans the application uses, loses and makes   *)
(* connections, and each new one is a handshake whose reply is handled     *)
(* like a scan's.                                                          *)
(*                                                                         *)
(* A reply is handled in two actions, the description's state machine and  *)
(* then mongoc_topology_reconcile, between which nothing else can happen.  *)
(* Seed lists do not repeat a host.                                        *)
(***************************************************************************)
EXTENDS TopologyDescription, Sequences

\* The reply run_command leaves when it gets none.
EmptyReply == [ok |-> FALSE, flags |-> {}, setName |-> None, me |-> None, members |-> {},
               primary |-> None, setVersion |-> NoSetVersion, electionId |-> 0]

ASSUME EmptyReplyAssumption == EmptyReply \in Reply
ASSUME NoneAssumption == None \notin Nat

VARIABLES
    nodes,      \* scanner->nodes: the list, in its order
    cmds,       \* scanner->async->cmds: the ids of their nodes, in list order
    scan,       \* whether mongoc_async_run is off, running or timing out what is left
    cursor,     \* the command the timing out comes to next
    handled,    \* the server whose reply was handled and not reconciled yet
    assertion   \* the BSON_ASSERT that aborted the process

topologyVars == <<td, nodes, cmds, scan, cursor, handled, assertion>>

Node(id, a, connected) ==
    [id |-> id, address |-> a, retired |-> FALSE, stream |-> connected, failed |-> FALSE]

Idle == scan = "off" /\ handled = None /\ assertion = None

-----------------------------------------------------------------------------
\* mongoc_topology_scanner_get_node gives up at the first greater id: the
\* positions, none or one, of the node it finds.
Positions(id) ==
    {k \in DOMAIN nodes : nodes[k].id = id /\ \A j \in 1 .. k - 1 : nodes[j].id <= id}

Has(id) == Positions(id) # {}

HasNodeForHost(a) == \E k \in DOMAIN nodes : nodes[k].address = a

\* The node of a command, which needs no search.
Place(id) == CHOOSE k \in DOMAIN nodes : nodes[k].id = id

HasStream(id) == \E k \in Positions(id) : ~nodes[k].retired /\ nodes[k].stream

\* The members of a set of numbers in increasing order.
Ascending(S) ==
    CHOOSE s \in [1 .. Cardinality(S) -> S] : \A i, j \in DOMAIN s : i < j => s[i] < s[j]

\* What a list has at these places, in its order.
Sublist(list, places) == [i \in 1 .. Cardinality(places) |-> list[Ascending(places)[i]]]

Without(id) == Sublist(cmds, {c \in DOMAIN cmds : cmds[c] # id})

\* Several NULL replies, in any order.
InvalidateServers(t, ids) ==
    LET known == ids \cap DOMAIN t.servers
        u == [t EXCEPT !.servers = [i \in DOMAIN t.servers |->
                  IF i \in known THEN ServerHandleIsmaster(t.servers[i], None)
                  ELSE t.servers[i]]]
    IN IF known # {} /\ u.type = "RSWithPrimary" THEN UpdateRsType(u) ELSE u

\* mongoc_topology_description_handle_ismaster, whether the server is known
\* still or was removed.
Handle(id, r) ==
    IF id \in DOMAIN td.servers THEN HandleIsmaster(id, r) ELSE UNCHANGED td

\* mongoc_cluster_disconnect_node
Disconnect(id) ==
    /\ nodes' = [k \in DOMAIN nodes |->
                    IF k \in Positions(id) THEN [nodes[k] EXCEPT !.stream = FALSE] ELSE nodes[k]]
    /\ cmds' = IF \E k \in Positions(id) : nodes[k].stream THEN Without(id) ELSE cmds

-----------------------------------------------------------------------------
(* The scan.                                                               *)

\* The nodes that mongoc_topology_scanner_start sets up: one that failed a check may
\* be left alone until its cooldown is over.
DueSets == {DOMAIN nodes \ resting : resting \in SUBSET {k \in DOMAIN nodes : nodes[k].failed}}

\* The assertions a node's setup would fail.
Offends(k) == IF nodes[k].stream THEN \E c \in DOMAIN cmds : cmds[c] = nodes[k].id
              ELSE nodes[k].retired

\* Those of due without a stream try to connect, and some cannot even begin to.
StartScan ==
    /\ Idle
    /\ \E due \in DueSets :
          /\ \A k \in due : ~Offends(k)
          /\ \E refused \in SUBSET {k \in due : ~nodes[k].stream} :
                LET asked == Sublist(nodes, due \ refused)
                IN /\ nodes' = [k \in DOMAIN nodes |->
                         IF k \in due \ refused THEN [nodes[k] EXCEPT !.stream = TRUE] ELSE nodes[k]]
                   /\ cmds' = cmds \o [i \in DOMAIN asked |-> asked[i].id]
                   /\ td' = InvalidateServers(td, {nodes[k].id : k \in refused})
    /\ scan' = "running"
    /\ UNCHANGED <<cursor, handled, assertion>>

\* BSON_ASSERT (!node->retired) of the setup, BSON_ASSERT (!node->cmd) after it.
StartScanAborts ==
    /\ Idle
    /\ \E due \in DueSets, k \in DOMAIN nodes :
          /\ k \in due /\ Offends(k)
          /\ \A j \in due : j < k => ~Offends(j)
          /\ assertion' = IF nodes[k].stream THEN "!node->cmd" ELSE "!node->retired"
    /\ UNCHANGED <<td, nodes, cmds, scan, cursor, handled>>

\* mongoc_topology_scanner_ismaster_handler, called as the command of id ends
\* with reply r, or with None for an error; then the scanner's callback.
CommandEnds(id, r) ==
    LET k == Place(id)
    IN /\ cmds' = Without(id)
       /\ IF nodes[k].retired THEN UNCHANGED <<td, nodes, handled>>
          ELSE /\ nodes' = [nodes EXCEPT ![k].stream = nodes[k].stream /\ r # None,
                                         ![k].failed = (r = None)]
               /\ Handle(id, r)
               /\ handled' = [id |-> id, drop |-> FALSE]

Answer ==
    /\ scan = "running" /\ handled = None
    /\ \E c \in DOMAIN cmds, r \in Reply \cup {None} : CommandEnds(cmds[c], r)
    /\ UNCHANGED <<scan, cursor, assertion>>

\* The deadline of mongoc_async_run passes.
Expire ==
    /\ scan = "running" /\ handled = None /\ cmds # <<>>
    /\ scan' = "expiring"
    /\ cursor' = Head(cmds)
    /\ UNCHANGED <<td, nodes, cmds, handled, assertion>>

\* DL_FOREACH_SAFE reads the next command before this one's callback runs: a
\* command that the callback of the last one appends is not seen.
ExpireCommand ==
    /\ scan = "expiring" /\ handled = None /\ cursor # None
    /\ CommandEnds(cursor, None)
    /\ \E c \in DOMAIN cmds :
          /\ cmds[c] = cursor
          /\ cursor' = IF c = Len(cmds) THEN None ELSE cmds[c + 1]
    /\ UNCHANGED <<scan, assertion>>

\* Mutated: the scan waits for commands that nobody runs.
FinishScanEmpty ==
    /\ handled = None
    /\ scan # "off" /\ cmds = <<>>
    /\ LET left == {k \in DOMAIN nodes : ~nodes[k].retired}
       IN /\ nodes' = Sublist(nodes, left)
          /\ cmds' = Sublist(cmds, {c \in DOMAIN cmds : \E k \in left : nodes[k].id = cmds[c]})
    /\ scan' = "off"
    /\ UNCHANGED <<td, cursor, handled, assertion>>

\* mongoc_topology_scanner_reset destroys the retired nodes.
FinishScan ==
    /\ handled = None
    /\ (scan = "running" /\ cmds = <<>>) \/ (scan = "expiring" /\ cursor = None)
    /\ LET left == {k \in DOMAIN nodes : ~nodes[k].retired}
       IN /\ nodes' = Sublist(nodes, left)
          /\ cmds' = Sublist(cmds, {c \in DOMAIN cmds : \E k \in left : nodes[k].id = cmds[c]})
    /\ scan' = "off"
    /\ UNCHANGED <<td, cursor, handled, assertion>>

-----------------------------------------------------------------------------
\* Mutated: a host whose node was retired gets another one at once.
MissingByIdOnly == {id \in DOMAIN td.servers : ~Has(id)}

\* The servers that mongoc_topology_reconcile makes a node for.
Missing == {id \in DOMAIN td.servers : ~Has(id) /\ ~HasNodeForHost(td.servers[id].address)}

\* mongoc_topology_reconcile: new nodes start to connect, scan or no scan, nodes
\* of removed servers are retired.  When the reply was that of a handshake whose
\* connection is of no use, mongoc_cluster_stream_for_server then drops it.
Reconcile ==
    /\ handled # None
    /\ \E refused \in SUBSET Missing :
          LET ids == Ascending(Missing)
              all == cmds \o ids
              added == [i \in DOMAIN ids |-> Node(ids[i], td.servers[ids[i]].address,
                                                  ids[i] \notin refused)]
              dropped == IF handled.drop THEN {handled.id} ELSE {}
          IN /\ nodes' = [k \in 1 .. (Len(nodes) + Len(added)) |->
                   LET n == (nodes \o added)[k]
                   IN [n EXCEPT !.retired = n.retired \/ n.id \notin DOMAIN td.servers,
                                !.stream = n.stream /\ n.id \notin dropped]]
             /\ cmds' = Sublist(all, {c \in DOMAIN all : all[c] \notin refused \cup dropped})
             /\ td' = InvalidateServers(InvalidateServers(td, refused), dropped)
    /\ handled' = None
    /\ UNCHANGED <<scan, cursor, assertion>>

-----------------------------------------------------------------------------
(* What the application does between scans.  It may name any server that   *)
(* was ever known: a Server object, or a cursor, keeps the id.             *)

Usable(id) ==
    /\ HasStream(id)
    /\ id \in DOMAIN td.servers
    /\ ServerNewCopy(td.servers[id]).type # "Unknown"

\* mongoc_cluster_fetch_stream_single finds no node, or a retired one.
UseAborts(id) ==
    /\ Idle
    /\ ~\E k \in Positions(id) : ~nodes[k].retired
    /\ assertion' = "scanner_node && !scanner_node->retired"
    /\ UNCHANGED <<td, nodes, cmds, scan, cursor, handled>>

\* It finds an open stream to a server that is unknown or removed.
UseFails(id) ==
    /\ Idle
    /\ HasStream(id) /\ ~Usable(id)
    /\ Disconnect(id)
    /\ td' = InvalidateServers(td, {id})
    /\ UNCHANGED <<scan, cursor, handled, assertion>>

NotConnected(id) == \E k \in Positions(id) : ~nodes[k].retired /\ ~nodes[k].stream

ConnectFails(id) ==
    /\ Idle
    /\ NotConnected(id)
    /\ td' = InvalidateServers(td, {id})
    /\ UNCHANGED <<nodes, cmds, scan, cursor, handled, assertion>>

\* A connection is made and its ismaster answered: _mongoc_stream_run_ismaster
\* and _mongoc_topology_update_from_handshake.
Handshake(id, r) ==
    /\ Idle
    /\ NotConnected(id)
    /\ nodes' = [k \in DOMAIN nodes |->
                    IF k \in Positions(id) THEN [nodes[k] EXCEPT !.stream = TRUE] ELSE nodes[k]]
    /\ Handle(id, r)
    /\ handled' = [id |-> id, drop |-> \/ id \notin DOMAIN td'.servers
                                       \/ ReplyServerType(r) = "Unknown"]
    /\ UNCHANGED <<cmds, scan, cursor, assertion>>

\* _mongoc_cluster_check_interval pings a stream that was not used for a while,
\* and nothing reconciles what its reply changes.
Ping(id, r) ==
    /\ Idle
    /\ Usable(id)
    /\ HandleIsmaster(id, r)
    /\ \/ UNCHANGED <<nodes, cmds>>
       \/ r = EmptyReply /\ Disconnect(id)
    /\ UNCHANGED <<scan, cursor, handled, assertion>>

\* A network error, or an exhaust cursor that is destroyed early.  Not every
\* caller also invalidates the server.
Drop(id) ==
    /\ Idle
    /\ Usable(id)
    /\ Disconnect(id)
    /\ td' \in {td, InvalidateServers(td, {id})}
    /\ UNCHANGED <<scan, cursor, handled, assertion>>

-----------------------------------------------------------------------------
\* mongoc_topology_new
TopologyInit ==
    /\ Init
    /\ nodes = [id \in 1 .. td.maxServerId |-> Node(id, td.servers[id].address, FALSE)]
    /\ cmds = <<>>
    /\ scan = "off"
    /\ cursor = None
    /\ handled = None
    /\ assertion = None

\* _mongoc_topology_do_blocking_scan
ScanNext == StartScan \/ StartScanAborts \/ Answer \/ Expire \/ ExpireCommand \/ FinishScan

\* mongoc_cluster_stream_for_server and what its callers do with the stream.
UseNext ==
    \E id \in 1 .. td.maxServerId :
        \/ UseAborts(id)
        \/ UseFails(id)
        \/ ConnectFails(id)
        \/ \E r \in Reply : Handshake(id, r) \/ Ping(id, r)
        \/ Drop(id)

TopologyNext == ScanNext \/ Reconcile \/ UseNext

TopologySpec == TopologyInit /\ [][TopologyNext]_topologyVars

\* A scan that has begun is worked on until it ends, and time passes.
TopologyFairSpec ==
    /\ TopologySpec
    /\ WF_topologyVars(Reconcile)
    /\ WF_topologyVars(Expire)
    /\ WF_topologyVars(ExpireCommand)
    /\ WF_topologyVars(FinishScan)
=============================================================================
