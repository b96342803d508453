------------------------------- MODULE Monitor -------------------------------
(***************************************************************************)
(* The topology of a client pool: the background thread that monitors the  *)
(* servers, the threads whose clients wait for a server and connect to it, *)
(* and the mutex and the two condition variables between them.  What one   *)
(* holds the mutex for is one action; the monitor walks the list of its    *)
(* commands without it.                                                    *)
(*                                                                         *)
(* What a reply does to the description is a choice here (the module       *)
(* TopologyDescription has it).  A server stands for its id: one that      *)
(* returns after it was removed has another id.                            *)
(***************************************************************************)
EXTENDS FiniteSets, TLC

CONSTANTS
    Server,     \* the servers, by their ids
    Seeds,      \* those of the URI
    Thread,     \* the threads, each with a client of the pool
    Connecting, \* the threads that connect to what they select
    None        \* no server

ASSUME MonitorAssumption ==
    Seeds \subseteq Server /\ Connecting \subseteq Thread /\ None \notin Server

VARIABLES
    servers,    \* description: what is known of each server
    node,       \* the scanner's node of each server: a set of flags, empty for no node
    monitor,    \* the thread of _mongoc_topology_run_background
    requested,  \* scan_requested
    shutdown,   \* shutdown_requested
    client,     \* where each thread is, and for which server
    cluster,    \* the servers for which each client has a node of its own
    learned,    \* whether a handshake of a client added or removed servers, but for what
                \* a scan has put right since
    aborted     \* whether an assertion, or a race for that list, ended the process

vars == <<servers, node, monitor, requested, shutdown, client, cluster, learned, aborted>>

Status == {"new", "unknown", "usable", "removed"}
Flags == {"here", "stream", "cmd", "retired"}

MonitorType ==
    [pc: {"off", "deciding", "waiting", "working", "calling back", "finishing", "done"},
     until: {"none", "minimum", "heartbeat"},       \* what it waits for
     since: {"nothing", "minimum", "heartbeat"},    \* what passed since the last scan
     server: Server \cup {None}, ok: BOOLEAN,       \* the reply it calls back with
     asked: BOOLEAN]                                \* whether the last scan had commands of nodes not retired

ClientType ==
    [pc: {"idle", "waiting", "woken", "fetching", "adding", "greeting", "streaming",
          "failing"},
     server: Server \cup {None}]

Present(sv) == {s \in Server : sv[s] \in {"unknown", "usable"}}
Commands == {s \in Server : "cmd" \in node[s]}
Running == ~aborted

-----------------------------------------------------------------------------
(* What replies do.                                                        *)

\* mongoc_topology_description_handle_ismaster: the reply of a server that is still
\* known may add servers, remove some, itself too, and make others unknown.
Handled(s, ok) ==
    LET becomes(o) ==
          IF s \notin Present(servers) THEN {servers[o]}
          ELSE IF ~ok THEN IF o = s THEN {"unknown"} ELSE {servers[o]}
          ELSE CASE o = s -> {"usable", "unknown", "removed"}
                 [] o # s /\ servers[o] = "new" -> {"new", "unknown"}
                 [] o # s /\ servers[o] = "usable" -> {"usable", "unknown", "removed"}
                 [] o # s /\ servers[o] = "unknown" -> {"unknown", "removed"}
                 [] o # s /\ servers[o] = "removed" -> {"removed"}
    IN {sv \in [Server -> Status] : \A o \in Server : sv[o] \in becomes(o)}

\* mongoc_topology_reconcile, where the nodes of refused cannot begin to connect.
Missing(sv) == {s \in Present(sv) : node[s] = {}}
Reconciled(sv, refused) ==
    [s \in Server |->
        CASE s \in Missing(sv) \cap refused -> {"here"}
          [] s \in Missing(sv) \ refused -> {"here", "stream", "cmd"}
          [] s \notin Present(sv) /\ node[s] # {} -> node[s] \cup {"retired"}
          [] OTHER -> node[s]]

\* mongoc_cond_broadcast (&topology->cond_client)
Woken(c) == IF c.pc = "waiting" THEN [c EXCEPT !.pc = "woken"] ELSE c

\* mongoc_cond_signal (&topology->cond_server)
Signalled == IF monitor.pc = "waiting" THEN [monitor EXCEPT !.pc = "deciding"] ELSE monitor

-----------------------------------------------------------------------------
(* The monitor.                                                            *)

Due == monitor.since = "heartbeat" \/ (requested /\ monitor.since = "minimum")

Decide(next) == Running /\ monitor.pc = "deciding" /\ next

ShutsDown ==
    /\ Decide(shutdown)
    /\ monitor' = [monitor EXCEPT !.pc = "done"]
    /\ UNCHANGED <<servers, node, requested, shutdown, client, cluster, learned, aborted>>

Sleeps ==
    /\ Decide(~shutdown /\ ~Due)
    /\ monitor' = [monitor EXCEPT !.pc = "waiting",
                                  !.until = IF requested THEN "minimum" ELSE "heartbeat"]
    /\ UNCHANGED <<servers, node, requested, shutdown, client, cluster, learned, aborted>>

\* The assertions of mongoc_topology_scanner_start and of the setup of a node.
Offends(s) == \/ "cmd" \in node[s]
              \/ "retired" \in node[s] /\ "stream" \notin node[s]

StartAborts ==
    /\ Decide(~shutdown /\ Due)
    /\ \E s \in Server : Offends(s)
    /\ aborted' = TRUE
    /\ UNCHANGED <<servers, node, monitor, requested, shutdown, client, cluster, learned>>

\* mongoc_topology_scanner_start: nodes without a stream connect, and some cannot begin to,
\* of which the description is told.
StartScan ==
    /\ Decide(~shutdown /\ Due)
    /\ \A s \in Server : ~Offends(s)
    /\ \E refused \in SUBSET {s \in Server : node[s] # {} /\ "stream" \notin node[s]} :
          LET asked == {s \in Server : node[s] # {}} \ refused
          IN /\ node' = [s \in Server |-> IF s \in asked THEN node[s] \cup {"stream", "cmd"}
                                                         ELSE node[s]]
             /\ servers' = [s \in Server |-> IF s \in refused \cap Present(servers) THEN "unknown"
                                                                    ELSE servers[s]]
             /\ monitor' = [monitor EXCEPT !.pc = "working", !.asked = \E s \in asked : "retired" \notin node[s]]
    /\ requested' = FALSE
    /\ UNCHANGED <<shutdown, client, cluster, learned, aborted>>

\* mongoc_topology_scanner_ismaster_handler up to its callback, without the mutex.
CommandReturns(s, ok) ==
    /\ Running /\ monitor.pc = "working"
    /\ s \in Commands
    /\ IF "retired" \in node[s]
       THEN /\ node' = [node EXCEPT ![s] = @ \ {"cmd"}]
            /\ UNCHANGED monitor
       ELSE /\ node' = [node EXCEPT ![s] = IF ok THEN @ \ {"cmd"} ELSE @ \ {"cmd", "stream"}]
            /\ monitor' = [monitor EXCEPT !.pc = "calling back", !.server = s, !.ok = ok]
    /\ UNCHANGED <<servers, requested, shutdown, client, cluster, learned, aborted>>

\* Mutated: threads are not woken.
CallbackSilent ==
    /\ Running /\ monitor.pc = "calling back"
    /\ \E sv \in Handled(monitor.server, monitor.ok) : \E refused \in SUBSET Missing(sv) :
          /\ servers' = sv
          /\ node' = Reconciled(sv, refused)
    /\ monitor' = [monitor EXCEPT !.pc = "working", !.server = None, !.ok = FALSE]
    /\ UNCHANGED <<requested, shutdown, client, cluster, learned, aborted>>

\* _mongoc_topology_scanner_cb
Callback ==
    /\ Running /\ monitor.pc = "calling back"
    /\ \E sv \in Handled(monitor.server, monitor.ok) : \E refused \in SUBSET Missing(sv) :
          /\ servers' = sv
          /\ node' = Reconciled(sv, refused)
    /\ client' = [t \in Thread |-> Woken(client[t])]
    /\ monitor' = [monitor EXCEPT !.pc = "working", !.server = None, !.ok = FALSE]
    /\ UNCHANGED <<requested, shutdown, cluster, learned, aborted>>

\* Mutated: the loop waits for a command when there was none.
WorkEndsAsked ==
    /\ Running /\ monitor.pc = "working" /\ Commands = {} /\ monitor.asked
    /\ monitor' = [monitor EXCEPT !.pc = "finishing"]
    /\ UNCHANGED <<servers, node, requested, shutdown, client, cluster, learned, aborted>>

\* mongoc_async_run returns when it has no commands.
WorkEnds ==
    /\ Running /\ monitor.pc = "working" /\ Commands = {}
    /\ monitor' = [monitor EXCEPT !.pc = "finishing"]
    /\ UNCHANGED <<servers, node, requested, shutdown, client, cluster, learned, aborted>>

\* Mutated: what was asked for during the scan is taken for done.
FinishScanForgets ==
    /\ Running /\ monitor.pc = "finishing"
    /\ node' = [s \in Server |-> IF "retired" \in node[s] THEN {} ELSE node[s]]
    /\ monitor' = [monitor EXCEPT !.pc = "deciding", !.since = "nothing", !.until = "none"]
    /\ requested' = FALSE
    /\ learned' = (Commands # {})
    /\ UNCHANGED <<servers, shutdown, client, cluster, aborted>>

\* Mutated: the retired nodes stay.
FinishScanKeeps ==
    /\ Running /\ monitor.pc = "finishing"
    /\ monitor' = [monitor EXCEPT !.pc = "deciding", !.since = "nothing", !.until = "none"]
    /\ learned' = (Commands # {})
    /\ UNCHANGED <<servers, node, requested, shutdown, client, cluster, aborted>>

\* mongoc_topology_scanner_reset destroys the retired nodes.
FinishScan ==
    /\ Running /\ monitor.pc = "finishing"
    /\ node' = [s \in Server |-> IF "retired" \in node[s] THEN {} ELSE node[s]]
    /\ monitor' = [monitor EXCEPT !.pc = "deciding", !.since = "nothing", !.until = "none"]
    /\ learned' = (Commands # {})
    /\ UNCHANGED <<servers, requested, shutdown, client, cluster, aborted>>

\* Time passes, and mongoc_cond_timedwait may return.
Tick ==
    /\ Running
    /\ monitor.pc \in {"deciding", "waiting"} /\ monitor.since # "heartbeat"
    /\ monitor' = [monitor EXCEPT !.since = IF @ = "nothing" THEN "minimum" ELSE "heartbeat"]
    /\ UNCHANGED <<servers, node, requested, shutdown, client, cluster, learned, aborted>>

TimesOut ==
    /\ Running
    /\ monitor.pc = "waiting" /\ monitor.since \in {monitor.until, "heartbeat"}
    /\ monitor' = [monitor EXCEPT !.pc = "deciding"]
    /\ UNCHANGED <<servers, node, requested, shutdown, client, cluster, learned, aborted>>

-----------------------------------------------------------------------------
(* The threads.                                                            *)

Step(t, from, c) ==
    /\ Running /\ client[t].pc = from
    /\ client' = [client EXCEPT ![t] = c]

Goes(t, pc) == [client[t] EXCEPT !.pc = pc]
Leaves == [pc |-> "idle", server |-> None]

\* mongoc_client_select_server only tells its caller.
Chooses(t, s) ==
    IF t \in Connecting THEN [pc |-> "fetching", server |-> s] ELSE Leaves

\* mongoc_topology_select_server_id: it finds a server, or asks for a scan and waits.
Select(t, from) ==
    /\ monitor.pc # "off" /\ ~shutdown
    /\ \/ /\ \E s \in Server : /\ servers[s] = "usable"
                              /\ Step(t, from, Chooses(t, s))
          /\ UNCHANGED <<monitor, requested>>
       \/ /\ \A s \in Server : servers[s] # "usable"
          /\ Step(t, from, Goes(t, "waiting"))
          /\ requested' = TRUE
          /\ monitor' = Signalled
    /\ UNCHANGED <<servers, node, shutdown, cluster, learned, aborted>>

\* serverSelectionTimeoutMS passes.
Expire(t) ==
    /\ Step(t, "waiting", Leaves) \/ Step(t, "woken", Leaves)
    /\ UNCHANGED <<servers, node, monitor, requested, shutdown, cluster, learned, aborted>>

\* mongoc_cluster_fetch_stream_pooled: a node of the client is trusted when it is not
\* older than the stream of the scanner's node, if there is one, which is a choice here.
FetchStream(t) ==
    LET s == client[t].server
    IN /\ \/ /\ client[t].pc = "fetching" /\ s \in cluster[t] /\ node[s] # {}
             /\ Step(t, "fetching", Goes(t, "streaming"))
             /\ UNCHANGED cluster
          \/ /\ Step(t, "fetching", Goes(t, "adding"))
             /\ cluster' = [cluster EXCEPT ![t] = @ \ {s}]
       /\ UNCHANGED <<servers, node, monitor, requested, shutdown, learned, aborted>>

\* _mongoc_cluster_add_node up to the reply to its ismaster.
AddNode(t) ==
    /\ client[t].pc = "adding"
    /\ \/ Step(t, "adding", Goes(t, "failing"))
       \/ /\ client[t].server \in Present(servers)
          /\ Step(t, "adding", Goes(t, "greeting"))
    /\ UNCHANGED <<servers, node, monitor, requested, shutdown, cluster, learned, aborted>>

\* _mongoc_topology_update_from_handshake, and the end of _mongoc_cluster_add_node.  When
\* it adds or cancels commands while the monitor walks their list, anything may happen.
Greet(t, ok) ==
    LET s == client[t].server
    IN /\ Running /\ client[t].pc = "greeting"
       /\ \E sv \in Handled(s, ok) : \E refused \in SUBSET Missing(sv) :
             LET new == Missing(sv) \ refused
                 kept == ok /\ sv[s] = "usable"
                 removed == Present(servers) \ Present(sv)
                 touches == new # {} \/ removed \cap Commands # {}
             IN /\ servers' = sv
                /\ node' = Reconciled(sv, refused)
                /\ client' = [u \in Thread |->
                      IF u # t THEN Woken(client[u])
                      ELSE Goes(t, IF kept THEN "streaming" ELSE "failing")]
                /\ cluster' = IF kept THEN [cluster EXCEPT ![t] = @ \cup {s}] ELSE cluster
                /\ learned' = (learned \/ new \cup removed # {})
                /\ aborted' \in {FALSE, touches /\ monitor.pc = "working"}
       /\ UNCHANGED <<monitor, requested, shutdown>>

\* _mongoc_cluster_create_server_stream; then the operation, which may fail.
Stream(t) ==
    /\ \/ Step(t, "streaming", Goes(t, "failing"))
       \/ client[t].server \in Present(servers) /\ Step(t, "streaming", Leaves)
    /\ UNCHANGED <<servers, node, monitor, requested, shutdown, cluster, learned, aborted>>

\* mongoc_cluster_disconnect_node and mongoc_topology_invalidate_server
Fail(t) ==
    LET s == client[t].server
    IN /\ Step(t, "failing", Leaves)
       /\ cluster' = [cluster EXCEPT ![t] = @ \ {s}]
       /\ servers' = IF s \in Present(servers) THEN [servers EXCEPT ![s] = "unknown"] ELSE servers
       /\ UNCHANGED <<node, monitor, requested, shutdown, learned, aborted>>

\* _mongoc_topology_start_background_scanner, by the first pop from the pool.
Start ==
    /\ monitor.pc = "off" /\ ~shutdown
    /\ monitor' = [monitor EXCEPT !.pc = "deciding"]
    /\ UNCHANGED <<servers, node, requested, shutdown, client, cluster, learned, aborted>>

\* _mongoc_topology_background_thread_stop, which then waits for the thread: the pool is
\* destroyed when all clients are back.
Stop ==
    /\ Running /\ ~shutdown
    /\ monitor.pc # "off"
    /\ \A t \in Thread : client[t].pc = "idle"
    /\ shutdown' = TRUE
    /\ monitor' = Signalled
    /\ UNCHANGED <<servers, node, requested, client, cluster, learned, aborted>>

Init ==
    /\ servers = [s \in Server |-> IF s \in Seeds THEN "unknown" ELSE "new"]
    /\ node = [s \in Server |-> IF s \in Seeds THEN {"here"} ELSE {}]
    /\ monitor = [pc |-> "off", until |-> "none", since |-> "heartbeat", server |-> None,
                  ok |-> FALSE, asked |-> TRUE]
    /\ requested = FALSE /\ shutdown = FALSE
    /\ client = [t \in Thread |-> Leaves]
    /\ cluster = [t \in Thread |-> {}]
    /\ learned = FALSE /\ aborted = FALSE

RunBackground ==
    \/ ShutsDown \/ Sleeps \/ StartScan \/ StartAborts
    \/ \E s \in Server, ok \in BOOLEAN : CommandReturns(s, ok)
    \/ Callback \/ WorkEnds \/ FinishScan \/ TimesOut

Operate(t) ==
    \/ Select(t, "idle") \/ Select(t, "woken") \/ Expire(t)
    \/ FetchStream(t) \/ AddNode(t) \/ Greet(t, TRUE) \/ Greet(t, FALSE)
    \/ Stream(t) \/ Fail(t)

Next == RunBackground \/ Tick \/ Start \/ Stop \/ \E t \in Thread : Operate(t)

Spec == Init /\ [][Next]_vars

\* The thread of the monitor is scheduled, time passes, and a command that is not
\* answered times out.  Nothing is assumed of the application.
FairSpec == Spec /\ WF_vars(RunBackground) /\ WF_vars(Tick)

-----------------------------------------------------------------------------
(* Properties.                                                             *)

\* Types; only nodes that exist have streams, commands and a place to be retired from.
MonitorTypeOK ==
    /\ servers \in [Server -> Status]
    /\ node \in [Server -> SUBSET Flags]
    /\ \A s \in Server : node[s] # {} => "here" \in node[s]
    /\ monitor \in MonitorType
    /\ client \in [Thread -> ClientType]
    /\ cluster \in [Thread -> SUBSET Server]
    /\ {requested, shutdown, learned, aborted} \subseteq BOOLEAN

\* A thread that waits for a server is not forgotten: a scan was requested, or is
\* running whose replies will wake it; only when no node of the last scan could even
\* begin to connect, or all were retired, is nobody called back and it left to the next
\* heartbeat.
WaitersAreRemembered ==
    \A t \in Thread :
        client[t].pc = "waiting" =>
            \/ requested
            \/ ~monitor.asked
            \/ monitor.pc \in {"working", "calling back"}

\* The monitor never meets one of its own assertions (a node that already has a
\* command, a retired one without a stream) unless a handshake of a client
\* added or removed servers behind its back.
OnlyHandshakesAbort == aborted => learned

\* Nodes and commands are such as the monitor expects to find them.
MonitorIsSound == MonitorTypeOK /\ OnlyHandshakesAbort

\* A thread does not sleep through the scan it asked for.
WaitersAreWoken ==
    \A t \in Thread :
        client[t].pc = "waiting" ~> client[t].pc # "waiting" \/ ~monitor.asked \/ aborted

\* When a thread destroys the pool the monitor ends, and with it the join.
StopEnds == shutdown ~> monitor.pc = "done" \/ aborted

=============================================================================
