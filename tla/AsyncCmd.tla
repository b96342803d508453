------------------------------- MODULE AsyncCmd -------------------------------
(***************************************************************************)
(* mongoc_async_run and its commands: the loop that polls the streams of a *)
(* list of commands and runs those that are ready, the phases of a command *)
(* (setup, send, receive the length, receive the reply) over a socket that *)
(* takes and gives what bytes it likes, and the callbacks, which change    *)
(* the list while the loop walks it.  What a connection does happens       *)
(* while the loop polls.                                                   *)
(***************************************************************************)
EXTENDS Integers, SequencesExt

CONSTANTS
    Cmd,        \* the commands
    First,      \* the list of those that are begun before the loop
    None,       \* no command
    Tls,        \* whether streams have a TLS handshake to begin with
    Request,    \* the lengths of the iovecs of a request
    LengthSize, \* the size of the length that a reply begins with
    RestSize    \* the size of the rest of it

ASSUME AsyncAssumption ==
    /\ IsFiniteSet(Cmd) /\ None \notin Cmd
    /\ First \in Seq(Cmd) /\ IsInjective(First)
    /\ Tls \in BOOLEAN
    /\ Request \in Seq(Nat \ {0}) /\ Request # <<>>
    /\ LengthSize \in Nat \ {0} /\ RestSize \in Nat \ {0}

VARIABLES
    cmds,       \* async->cmds, in list order
    cmd,        \* each mongoc_async_cmd_t: see CmdType
    net,        \* the connection of each: see NetType
    loop,       \* where mongoc_async_run is: see LoopType
    late,       \* whether the deadline of the loop is past
    outcome,    \* what the callback of each command was told
    mixed       \* whether a command was run on the events of another

vars == <<cmds, cmd, net, loop, late, outcome, mixed>>

\* How many bytes the first k lengths of iov have, by k, and how many it has.
Sums(iov) == LET sum[k \in 0 .. Len(iov)] == IF k = 0 THEN 0 ELSE sum[k - 1] + iov[k]
             IN sum
Bytes(iov) == Sums(iov)[Len(iov)]
ReplySize == LengthSize + RestSize

CmdType ==
    [state: {"setup", "send", "length", "reply", "error", "canceled"},
     events: {"in", "out"},
     iov: Seq(0 .. Bytes(Request)),     \* acmd->iovec, by what is left of each
     toRead: 0 .. ReplySize]

\* written: the bytes of the request that the socket took; came, read: of the reply,
\* those that arrived and those the client has read.
NetType ==
    [status: {"connecting", "open", "refused", "closed"}, written: 0 .. Bytes(Request),
     reply: {"none", "good", "bad"}, came: 0 .. ReplySize, read: 0 .. ReplySize]

\* POLLERR and POLLHUP are looked at first, then the events that were asked for.
Reports == {"nothing", "events", "hup"}

LoopType ==
    [pc: {"off", "polling", "visiting", "expiring"},
     poller: Seq(Cmd),                  \* the streams polled, in order
     revents: Seq(Reports),
     i: Nat, active: Nat,
     at: Cmd \cup {None}, next: Cmd \cup {None}]    \* DL_FOREACH_SAFE

Outcomes == {"unborn", "none", "success", "failed", "closed", "timeout"}

Idle == [pc |-> "polling", poller |-> <<>>, revents |-> <<>>, i |-> 0, active |-> 0,
         at |-> None, next |-> None]

-----------------------------------------------------------------------------
(* The connections.                                                        *)

Env(c) == loop.pc = "polling" /\ outcome[c] = "none"

Connects(c) ==
    /\ Env(c) /\ net[c].status = "connecting"
    /\ \E s \in {"open", "refused"} : net' = [net EXCEPT ![c].status = s]
    /\ UNCHANGED <<cmds, cmd, loop, late, outcome, mixed>>

\* The server answers when it has the whole request, and its reply comes in parts.
Arrives(c) ==
    /\ Env(c) /\ net[c].status = "open" /\ net[c].written = Bytes(Request)
    /\ \E n \in net[c].came + 1 .. ReplySize, r \in {"good", "bad"} :
          /\ net[c].came > 0 => r = net[c].reply
          /\ net' = [net EXCEPT ![c].came = n, ![c].reply = r]
    /\ UNCHANGED <<cmds, cmd, loop, late, outcome, mixed>>

Closes(c) ==
    /\ Env(c) /\ net[c].status = "open"
    /\ net' = [net EXCEPT ![c].status = "closed"]
    /\ UNCHANGED <<cmds, cmd, loop, late, outcome, mixed>>

Tick ==
    /\ loop.pc # "off" /\ ~late
    /\ late' = TRUE
    /\ UNCHANGED <<cmds, cmd, net, loop, outcome, mixed>>

-----------------------------------------------------------------------------
(* The phases of a command: the set of what may become of it, its          *)
(* connection and its outcome.                                             *)

Left(c, n, o) == [c |-> c, n |-> n, o |-> o]

Setup(c, n) ==
    {Left([c EXCEPT !.events = e], n, "none") : e \in {"in", "out"}}
    \cup {Left([c EXCEPT !.state = "send", !.events = "out"], n, "none"), Left(c, n, "failed")}

\* The loop over iovecs: one that was written to its end is left, empty, in front.
Advanced(iov, bytes) ==
    LET passed == {k \in 0 .. Len(iov) - 1 : k = 0 \/ Sums(iov)[k] < bytes}
        k == CHOOSE m \in passed : \A j \in passed : j <= m
    IN <<iov[k + 1] - (bytes - Sums(iov)[k])>> \o SubSeq(iov, k + 2, Len(iov))

\* What was not written now is not written later.
Send(c, n) ==
    {Left(c, n, "failed")} \cup
    IF n.status \notin {"open", "closed"} THEN {}
    ELSE {Left([c EXCEPT !.iov = Advanced(c.iov, w), !.state = "length",
                         !.toRead = LengthSize, !.events = "in"],
               [n EXCEPT !.written = @ + w], "none") : w \in 0 .. Bytes(c.iov)}

\* mongoc_stream_read with min_bytes 0 and no timeout: 0 when there is nothing yet, when
\* the server closed the connection and when the socket fails.
Available(n) == n.came - n.read

Read(c, n) == IF Available(n) < c.toRead THEN Available(n) ELSE c.toRead

\* Mutated: the reply is not looked at.
ReceiveRestBlind(c, n) ==
    LET bytes == Read(c, n)
        d == [c EXCEPT !.toRead = @ - bytes]
        m == [n EXCEPT !.read = @ + bytes]
    IN IF bytes = 0 THEN Left(c, n, "closed")
       ELSE Left(d, m, IF d.toRead = 0 THEN "success" ELSE "none")

ReceiveRest(c, n) ==
    LET bytes == Read(c, n)
        d == [c EXCEPT !.toRead = @ - bytes]
        m == [n EXCEPT !.read = @ + bytes]
    IN CASE bytes = 0 -> Left(c, n, "closed")
         [] bytes > 0 /\ d.toRead # 0 -> Left(d, m, "none")
         [] bytes > 0 /\ d.toRead = 0 -> Left(d, m, IF n.reply = "good" THEN "success" ELSE "failed")

\* When the length is complete the rest is read at once, unless the length is a bad one.
ReceiveLength(c, n) ==
    LET bytes == Read(c, n)
        d == [c EXCEPT !.toRead = @ - bytes]
        m == [n EXCEPT !.read = @ + bytes]
    IN CASE bytes = 0 -> {Left(c, n, "closed")}
         [] bytes > 0 /\ d.toRead # 0 -> {Left(d, m, "none")}
         [] bytes > 0 /\ d.toRead = 0 ->
              {ReceiveRest([d EXCEPT !.state = "reply", !.toRead = RestSize], m)}
              \cup (IF n.reply = "bad" THEN {Left(d, m, "failed")} ELSE {})

Phase(c, n) ==
    CASE c.state = "setup" -> Setup(c, n)
      [] c.state = "send" -> Send(c, n)
      [] c.state = "length" -> ReceiveLength(c, n)
      [] c.state = "reply" -> {ReceiveRest(c, n)}
      [] c.state \in {"error", "canceled"} -> {Left(c, n, "failed")}

-----------------------------------------------------------------------------
(* The loop.                                                               *)

\* A command as mongoc_async_cmd_new makes it; what is destroyed is not told apart from it.
New == [state |-> IF Tls THEN "setup" ELSE "send", events |-> "out", iov |-> Request, toRead |-> 0]

Place(list, c) == CHOOSE k \in DOMAIN list : list[k] = c

After(list, c) == IF Place(list, c) = Len(list) THEN None ELSE list[Place(list, c) + 1]

\* What poll may report of a command.
Events(c) ==
    LET n == net[c]
        ready == IF cmd[c].events = "out" THEN n.status \in {"open", "closed"}
                 ELSE \/ n.status = "closed" \/ Available(n) > 0
                     \/ (n.status = "open" /\ cmd[c].state = "setup")
        gone == n.status \in {"refused", "closed"}
    IN {e \in Reports : (e = "events" => ready) /\ (e = "hup" => gone)}

Poll ==
    /\ loop.pc = "polling" /\ cmds # <<>>
    /\ \E r \in [DOMAIN cmds -> Reports] :
          LET active == Cardinality({k \in DOMAIN cmds : r[k] # "nothing"})
          IN /\ \A k \in DOMAIN cmds : r[k] \in Events(cmds[k])
             /\ loop' = IF active > 0
                        THEN [pc |-> "visiting", poller |-> cmds, revents |-> r, i |-> 1,
                              active |-> active, at |-> Head(cmds), next |-> After(cmds, Head(cmds))]
                        ELSE IF late THEN [Idle EXCEPT !.pc = "expiring", !.at = Head(cmds),
                                                       !.next = After(cmds, Head(cmds))]
                        ELSE loop
    /\ UNCHANGED <<cmds, cmd, net, late, outcome, mixed>>

\* Mutated: the deadline is looked at only when nothing happens.
RoundEndsLate(list) == Idle

\* A round is over, with the list as it is then.
RoundEnds(list) ==
    IF ~late \/ list = <<>> THEN Idle
    ELSE [Idle EXCEPT !.pc = "expiring", !.at = Head(list), !.next = After(list, Head(list))]

\* The callback of c, which ends with o, and mongoc_async_cmd_destroy.  A reply can make
\* the callback begin commands and cancel others.
CallsBack(c, o, begun, canceled) ==
    /\ begun \subseteq {b \in Cmd : outcome[b] = "unborn"}
    /\ canceled \subseteq Range(cmds) \ {c}
    /\ o # "success" => begun = {} /\ canceled = {}
    /\ outcome' = [d \in Cmd |-> IF d = c THEN o ELSE IF d \in begun THEN "none" ELSE outcome[d]]
    /\ \E list \in SetToSeqs(begun) : cmds' = RemoveAt(cmds, Place(cmds, c)) \o list

\* The command the walk is at goes on, or only comes along.
Runs(c, hup) ==
    \E p \in Phase(IF hup THEN [cmd[c] EXCEPT !.state = "error"] ELSE cmd[c], net[c]) :
        /\ net' = [net EXCEPT ![c] = p.n]
        /\ \E begun, canceled \in SUBSET Cmd :
              /\ IF p.o = "none" THEN begun = {} /\ canceled = {} /\ UNCHANGED <<cmds, outcome>>
                                 ELSE CallsBack(c, p.o, begun, canceled)
              /\ cmd' = [d \in Cmd |-> IF d = c THEN IF p.o = "none" THEN p.c ELSE New
                                       ELSE IF d \in canceled THEN [cmd[d] EXCEPT !.state = "canceled"]
                                       ELSE cmd[d]]

\* The events of the position the walk is at; beyond the end of the array, anything.
Reported == IF loop.i \in DOMAIN loop.poller THEN {loop.revents[loop.i]} ELSE Reports

\* Mutated: the walk goes on when no more streams are active.
VisitAll ==
    /\ loop.pc = "visiting" /\ loop.at # None
    /\ \E e \in Reported :
          /\ IF e = "nothing" /\ cmd[loop.at].state # "error" THEN UNCHANGED <<cmds, cmd, net, outcome>>
             ELSE Runs(loop.at, e = "hup")
          /\ mixed' = (mixed \/ (e # "nothing" /\ ~(/\ loop.i \in DOMAIN loop.poller
                                             /\ loop.poller[loop.i] = loop.at)))
          /\ loop' = IF loop.next = None THEN RoundEnds(cmds')
                     ELSE [loop EXCEPT !.i = @ + 1, !.at = loop.next,
                                       !.next = After(cmds', loop.next)]
    /\ UNCHANGED late

\* DL_FOREACH_SAFE has the next command before this one's callback changes the list.
Visit ==
    /\ loop.pc = "visiting" /\ loop.at # None
    /\ \E e \in Reported :
          LET runs == e # "nothing" \/ cmd[loop.at].state = "error"
              active == IF runs THEN loop.active - 1 ELSE loop.active
          IN /\ IF runs THEN Runs(loop.at, e = "hup") ELSE UNCHANGED <<cmds, cmd, net, outcome>>
             /\ mixed' = (mixed \/ (runs /\ ~(/\ loop.i \in DOMAIN loop.poller
                                              /\ loop.poller[loop.i] = loop.at)))
             /\ loop' = IF (runs /\ active = 0) \/ loop.next = None THEN RoundEnds(cmds')
                        ELSE [loop EXCEPT !.i = @ + 1, !.active = active, !.at = loop.next,
                                          !.next = After(cmds', loop.next)]
    /\ UNCHANGED late

\* The commands that are left time out.
Expire ==
    /\ loop.pc = "expiring" /\ loop.at # None
    /\ CallsBack(loop.at, "timeout", {}, {})
    /\ cmd' = [cmd EXCEPT ![loop.at] = New]
    /\ loop' = [loop EXCEPT !.at = loop.next,
                            !.next = IF loop.next = None THEN None ELSE After(cmds, loop.next)]
    /\ UNCHANGED <<net, late, mixed>>

\* mongoc_async_run returns.
Ends ==
    /\ (loop.pc = "polling" /\ cmds = <<>>) \/ (loop.pc = "expiring" /\ loop.at = None)
    /\ loop' = [Idle EXCEPT !.pc = "off"]
    /\ UNCHANGED <<cmds, cmd, net, late, outcome, mixed>>

Init ==
    /\ cmds = First
    /\ cmd = [c \in Cmd |-> New]
    /\ net = [c \in Cmd |-> [status |-> "connecting", written |-> 0, reply |-> "none",
                             came |-> 0, read |-> 0]]
    /\ loop = Idle
    /\ late = FALSE
    /\ outcome = [c \in Cmd |-> IF c \in Range(First) THEN "none" ELSE "unborn"]
    /\ mixed = FALSE

Run == Poll \/ Visit \/ Expire \/ Ends

Next ==
    \/ Run \/ Tick
    \/ \E c \in Cmd : Connects(c) \/ Arrives(c) \/ Closes(c)

Spec == Init /\ [][Next]_vars

\* The loop is scheduled, and poll returns by the deadline.
FairSpec == Spec /\ WF_vars(Run) /\ WF_vars(Tick)

-----------------------------------------------------------------------------
(* Properties.                                                             *)

\* The type invariant: no count of bytes goes below zero or past its message.
AsyncTypeOK ==
    /\ cmds \in Seq(Cmd)
    /\ cmd \in [Cmd -> CmdType] /\ net \in [Cmd -> NetType]
    /\ loop \in LoopType
    /\ {loop.at, loop.next} \subseteq Range(cmds) \cup {None}
    /\ outcome \in [Cmd -> Outcomes] /\ mixed \in BOOLEAN /\ late \in BOOLEAN

\* mongoc_async_run matches commands with poll's results by counting, while callbacks
\* add commands to the list and take the current one out: no command is ever run on the
\* events of another, or on what lies beyond the array.
PositionsMatch == ~mixed

\* Every command that is begun is in the list until its callback is called, once, and
\* when mongoc_async_run returns every command has been called back, those too that a
\* callback began.
CalledBackOnce ==
    /\ IsInjective(cmds)
    /\ \A c \in Cmd : c \in Range(cmds) <=> outcome[c] = "none"
    /\ loop.pc = "off" => cmds = <<>>

\* A command that succeeds was sent whole, and its reply read whole and found good,
\* whatever parts they went in: the code never looks at what it has sent.
SuccessMeansAnswered ==
    \A c \in Cmd : outcome[c] = "success" =>
        net[c].written = Bytes(Request) /\ net[c].reply = "good" /\ net[c].read = ReplySize

\* What is left in the iovecs and what the socket took make the request; what was read
\* and what is still to be read make the length, then the reply.
BytesAddUp ==
    \A c \in Range(cmds) :
        /\ Bytes(cmd[c].iov) + net[c].written = Bytes(Request)
        /\ cmd[c].state = "length" => net[c].read + cmd[c].toRead = LengthSize
        /\ cmd[c].state = "reply" => net[c].read + cmd[c].toRead = ReplySize

\* Lists, positions and counts of bytes agree, whatever callbacks do to the list and
\* the sockets to the parts.
AsyncIsSound == AsyncTypeOK /\ PositionsMatch /\ CalledBackOnce /\ BytesAddUp

\* A command fails with "Server closed connection." only if the connection was closed,
\* or if nothing had followed the length of its reply when that was read.
ClosedMeansClosed ==
    \A c \in Cmd : outcome[c] = "closed" =>
        net[c].status = "closed" \/ (net[c].came = LengthSize /\ net[c].read = LengthSize)

\* A callback is told what really happened to its command.
OutcomesAreTrue == SuccessMeansAnswered /\ ClosedMeansClosed

\* mongoc_async_run returns, however the servers behave.
RunEnds == loop.pc # "off" ~> loop.pc = "off"

=============================================================================
