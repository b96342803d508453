---------------------------- MODULE CommandsProofs ----------------------------
(***************************************************************************)
(* What a helper answers is true, the concerns that apply are kept and the *)
(* catalogue agrees with the handle, for any wire versions, concerns,      *)
(* options and names.                                                      *)
(***************************************************************************)
EXTENDS Commands, FiniteSetTheorems, TLAPS

\* A call that goes on to another step has done nothing so far and was refused beyond doubt,
\* and each step belongs to certain helpers.
StepsFit ==
    call.step # "done" =>
        /\ call.applied = 0 /\ ~call.unsure /\ ~call.ret /\ ~call.legacy
        /\ call.step \in {"insertIndex", "crashed"} => call.helper = "createIndex"
        /\ call.step \in {"createUser", "findUser", "saveUser"} => call.helper = "addUser"
        /\ call.step = "removeUser" => call.helper \in {"removeUser", "removeAllUsers"}
        /\ call.step = "findNamespaces" => call.helper \in {"hasCollection", "getNames"}

\* What a member that is not behind said of the user is still so when the user is written.
UserWasLookedUp ==
    call.step = "saveUser" /\ ~settings.secondary => (call.found <=> world.users > 0)

\* What concerns the call alone.
CallFits == call \in CallType /\ AnswerIsTrue /\ ConcernsAreKept /\ StepsFit

\* The inductive invariant.
Inv == TypeOK /\ CallFits /\ CatalogueIsKept /\ UserWasLookedUp

-----------------------------------------------------------------------------
(* Round trips.                                                            *)

\* What can be said of any end of a command.
IsOutcome(o) ==
    /\ {o.applied, o.ok, o.wcError} \subseteq BOOLEAN
    /\ o.ok => o.applied /\ o.code = "none"
    /\ o.applied /\ ~o.ok => o.code = "network"
    /\ o.wcError => o.ok
    /\ FallsBack(o.code) => ~o.applied /\ ~o.ok /\ ~o.wcError

LEMMA OutcomesAreSuch ==
    ASSUME NEW command, NEW wire, NEW m, NEW accepts,
           NEW o \in Outcomes(command, wire, m, accepts)
    PROVE  IsOutcome(o)
<1> DEFINE End(applied, ok, code, wcError) ==
               [applied |-> applied, ok |-> ok, code |-> code, wcError |-> wcError]
           known == wire >= Since(command)
           own == {x \in {"own"} : settings.handle = "unacknowledged"}
<1>1. \/ \E code \in {"network"} \cup IF known THEN {"denied", "other"} ELSE {"commandNotFound"} :
            o = End(FALSE, FALSE, code, FALSE)
      \/ accepts /\ o \in {End(TRUE, FALSE, "network", FALSE), End(TRUE, TRUE, "none", FALSE)}
      \/ accepts /\ \E c \in m.wc \ own : o = End(TRUE, TRUE, "none", TRUE)
  <2> HIDE DEF known, own
  <2>1. o \in {End(FALSE, FALSE, code, FALSE) :
                 code \in {"network"} \cup IF known THEN {"denied", "other"} ELSE {"commandNotFound"}}
             \cup (IF known /\ accepts
                   THEN {End(TRUE, FALSE, "network", FALSE), End(TRUE, TRUE, "none", FALSE)}
                        \cup {End(TRUE, TRUE, "none", TRUE) : c \in m.wc \ own}
                   ELSE {})
    BY Zenon DEF Outcomes, known, own
  <2>2. CASE o \in {End(FALSE, FALSE, code, FALSE) :
                 code \in {"network"} \cup IF known THEN {"denied", "other"} ELSE {"commandNotFound"}}
    BY <2>2
  <2>3. CASE accepts /\ o \in {End(TRUE, FALSE, "network", FALSE), End(TRUE, TRUE, "none", FALSE)}
    BY <2>3
  <2>4. CASE accepts /\ o \in {End(TRUE, TRUE, "none", TRUE) : c \in m.wc \ own}
    BY <2>4
  <2>5. QED BY <2>1, <2>2, <2>3, <2>4, Zenon
<1> HIDE DEF known, own
<1>2. \/ \E code \in {"network", "denied", "other", "commandNotFound"} :
            o = End(FALSE, FALSE, code, FALSE)
      \/ accepts /\ o = End(TRUE, FALSE, "network", FALSE)
      \/ accepts /\ o = End(TRUE, TRUE, "none", FALSE)
      \/ accepts /\ o = End(TRUE, TRUE, "none", TRUE)
  BY <1>1
<1>3. CASE \E code \in {"network", "denied", "other", "commandNotFound"} :
               o = End(FALSE, FALSE, code, FALSE)
  <2>1. PICK code : o = End(FALSE, FALSE, code, FALSE)
    BY <1>3
  <2>2. o.applied = FALSE /\ o.ok = FALSE /\ o.wcError = FALSE
    BY <2>1
  <2>3. QED BY <2>2, Zenon DEF IsOutcome
<1>4. CASE accepts /\ o = End(TRUE, FALSE, "network", FALSE)
  <2>1. o.applied = TRUE /\ o.ok = FALSE /\ o.wcError = FALSE /\ o.code = "network"
    BY <1>4
  <2>2. ~FallsBack(o.code)
    BY <2>1 DEF FallsBack
  <2>3. QED BY <1>4, <2>1, <2>2, Zenon DEF IsOutcome
<1>5. ASSUME accepts, NEW w \in BOOLEAN, o = End(TRUE, TRUE, "none", w) PROVE IsOutcome(o)
  <2>1. o.applied = TRUE /\ o.ok = TRUE /\ o.wcError = w /\ o.code = "none"
    BY <1>5
  <2>2. ~FallsBack(o.code)
    BY <2>1 DEF FallsBack
  <2>3. QED BY <1>5, <2>1, <2>2, Zenon DEF IsOutcome
<1>6. QED BY <1>2, <1>3, <1>4, <1>5

\* The call after a round trip, field by field.
LEMMA SentFields ==
    ASSUME NEW c \in CallType, c.applied = 0, ~c.unsure, NEW wire \in Wire, NEW m \in Message,
           NEW o, IsOutcome(o)
    PROVE  LET d == Sent(c, wire, m, o)
           IN /\ d \in CallType
              /\ d.helper = c.helper /\ d.opts = c.opts /\ d.step = c.step /\ d.wire = wire
              /\ d.message = m /\ d.applied = (IF o.applied THEN 1 ELSE 0)
              /\ d.unsure <=> (o.code = "network" \/ o.wcError)
              /\ d.legacy = c.legacy /\ d.found = c.found /\ d.ret = c.ret /\ d.error = c.error
              /\ o.ok /\ ~o.wcError => d.confirmed = m.wc
<1>1. wire \in Nat
  BY CommandsAssumption
<1>2. PICK a \in 0 .. 1 : a = IF o.applied THEN 1 ELSE 0
  OBVIOUS
<1>3. PICK u \in BOOLEAN : u <=> (o.code = "network" \/ o.wcError)
  OBVIOUS
<1>4. PICK f : f = IF o.ok /\ ~o.wcError THEN m.wc ELSE {}
  OBVIOUS
<1>5. f \in SUBSET {"given", "own"}
  BY <1>4 DEF Message
<1>6. c.applied + (IF o.applied THEN 1 ELSE 0) = a
  BY <1>2
<1>7. (c.unsure \/ o.code = "network" \/ o.wcError) = u
  BY <1>3 DEF CallType
<1>8. Sent(c, wire, m, o) =
         [c EXCEPT !.wire = wire, !.message = m, !.applied = a, !.unsure = u, !.confirmed = f]
  BY <1>4, <1>6, <1>7 DEF Sent
<1>9. PICK d : d = Sent(c, wire, m, o)
  OBVIOUS
<1>10. /\ d \in CallType
       /\ d.helper = c.helper /\ d.opts = c.opts /\ d.step = c.step /\ d.wire = wire
       /\ d.message = m /\ d.applied = a /\ d.unsure = u
       /\ d.legacy = c.legacy /\ d.found = c.found /\ d.ret = c.ret /\ d.error = c.error
       /\ d.confirmed = f
  <2>1. d = [c EXCEPT !.wire = wire, !.message = m, !.applied = a, !.unsure = u, !.confirmed = f]
    BY <1>8, <1>9
  <2>2. a \in Nat
    OBVIOUS
  <2>3. /\ d.helper = c.helper /\ d.opts = c.opts /\ d.step = c.step /\ d.wire = wire
        /\ d.message = m /\ d.applied = a /\ d.unsure = u
        /\ d.legacy = c.legacy /\ d.found = c.found /\ d.ret = c.ret /\ d.error = c.error
        /\ d.confirmed = f
    BY <2>1 DEF CallType
  <2>4. d \in CallType
    BY <1>1, <1>5, <2>1, <2>2 DEF CallType
  <2>5. QED BY <2>3, <2>4
<1>11. o.ok /\ ~o.wcError => d.confirmed = m.wc
  BY <1>4, <1>10
<1>12. d.unsure <=> (o.code = "network" \/ o.wcError)
  BY <1>3, <1>10
<1>13. QED BY <1>2, <1>9, <1>10, <1>11, <1>12

\* A message that a server of this version may be sent by this helper.
MessageFits(c, wire, m) ==
    /\ m \in Message
    /\ m.collation => wire >= CollationVersion
    /\ m.wc # {} => \/ wire >= CmdWriteConcernVersion \/ c.legacy
                    \/ c.helper = "findAndModify" /\ wire >= FamWriteConcernVersion
    /\ m.rc # {} => wire >= ReadConcernVersion \/ c.helper \in {"createIndex", "aggregate"}
    /\ Cardinality(m.rc) <= 1
    /\ Cardinality(m.wc) <= 1 \/ c.helper = "findAndModify"

\* The helpers of which the write concern is asked, and what a true answer of c about o is.
Confirming == (Writers \cup {"aggregate"}) \ {"removeUser", "removeAllUsers", "addUser"}

WantedOf(opts) ==
    IF "writeConcern" \in opts THEN {"given"} ELSE {o \in {"own"} : settings.handle = "own"}

HeedlessOf(c) ==
    \/ c.helper = "createIndex"
    \/ c.helper = "aggregate" /\ ("writeConcern" \in c.opts \/ "document" \notin c.opts)

Truly(c, wire, m, o, b) ==
    /\ b \in BOOLEAN
    /\ c.helper \in Writers /\ b => o.ok \/ (c.legacy /\ settings.client = "unacknowledged")
    /\ c.helper \in Writers /\ ~b => ~o.applied \/ o.wcError \/ o.code = "network"
    /\ b /\ ~c.legacy /\ wire >= CmdWriteConcernVersion /\ c.helper \in Confirming /\ ~HeedlessOf(c) =>
          o.ok /\ ~o.wcError /\ WantedOf(c.opts) \subseteq m.wc

\* A call that ends with the answer to a round trip.
LEMMA TripFits ==
    ASSUME NEW c \in CallType, c.applied = 0, ~c.unsure, NEW wire \in Wire, NEW m,
           NEW o, IsOutcome(o),
           MessageFits(c, wire, m), NEW b, Truly(c, wire, m, o, b),
           call' = Returns(Sent(c, wire, m, o), b), settings' = settings
    PROVE  CallFits'
<1>1. PICK d : d = Sent(c, wire, m, o)
  OBVIOUS
<1>2. m \in Message
  BY DEF MessageFits
<1>3. /\ d \in CallType
      /\ d.helper = c.helper /\ d.opts = c.opts /\ d.step = c.step /\ d.wire = wire
      /\ d.message = m /\ d.applied = (IF o.applied THEN 1 ELSE 0)
      /\ d.unsure <=> (o.code = "network" \/ o.wcError)
      /\ d.legacy = c.legacy
      /\ o.ok /\ ~o.wcError => d.confirmed = m.wc
  BY <1>1, <1>2, SentFields
<1>4. b \in BOOLEAN
  BY DEF Truly
<1>5. call' = [d EXCEPT !.step = "done", !.ret = b, !.error = ~b]
  BY <1>1 DEF Returns, Ends
<1>6. /\ call' \in CallType
      /\ call'.helper = c.helper /\ call'.opts = c.opts /\ call'.step = "done" /\ call'.wire = wire
      /\ call'.message = m /\ call'.applied = d.applied /\ call'.unsure = d.unsure
      /\ call'.legacy = c.legacy /\ call'.confirmed = d.confirmed
      /\ call'.ret = b /\ call'.error = ~b
  BY <1>3, <1>4, <1>5 DEF CallType, Steps
<1>7. AnswerIsTrue'
  <2>1. ASSUME c.helper \in Writers
        PROVE  /\ call'.applied <= 1
               /\ b => call'.applied = 1 \/ (call'.legacy /\ settings'.client = "unacknowledged")
               /\ ~b /\ ~call'.unsure => call'.applied = 0
    <3>1. call'.applied <= 1
      BY <1>3, <1>6
    <3>2. ASSUME b PROVE call'.applied = 1 \/ (call'.legacy /\ settings'.client = "unacknowledged")
      <4>1. o.ok \/ (c.legacy /\ settings.client = "unacknowledged")
        BY <2>1, <3>2 DEF Truly
      <4>2. o.ok => o.applied
        BY DEF IsOutcome
      <4>3. QED BY <1>3, <1>6, <4>1, <4>2
    <3>3. ASSUME ~b, ~call'.unsure PROVE call'.applied = 0
      <4>1. ~o.applied \/ o.wcError \/ o.code = "network"
        BY <2>1, <3>3 DEF Truly
      <4>2. QED BY <1>3, <1>6, <3>3, <4>1
    <3>4. QED BY <3>1, <3>2, <3>3
  <2>2. call'.ret \/ call'.error
    BY <1>4, <1>6
  <2>3. QED BY <1>6, <2>1, <2>2 DEF AnswerIsTrue
<1>8. ConcernsAreKept'
  BY <1>3, <1>6 DEF ConcernsAreKept, Idle, Truly, MessageFits, Confirming, WantedOf, HeedlessOf,
                    Wanted, Heedless
<1>9. StepsFit'
  BY <1>6 DEF StepsFit
<1>10. QED BY <1>6, <1>7, <1>8, <1>9 DEF CallFits

LEMMA AtMostOne ==
    ASSUME NEW x, NEW S \in SUBSET {x} PROVE Cardinality(S) <= 1
<1>1. S = {} \/ S = {x}
  OBVIOUS
<1>2. Cardinality({}) = 0
  BY FS_EmptySet
<1>3. Cardinality({x}) = 1
  BY FS_Singleton
<1>4. QED BY <1>1, <1>2, <1>3

LEMMA PlainFits ==
    ASSUME NEW c, NEW wire PROVE MessageFits(c, wire, Plain)
<1>1. Cardinality({}) <= 1
  BY FS_EmptySet
<1>2. QED BY <1>1 DEF MessageFits, Plain, Message

LEMMA NewFields ==
    ASSUME NEW h \in Helper, NEW opts \in SUBSET Option
    PROVE  LET c == New(h, opts)
           IN /\ c \in CallType /\ c.helper = h /\ c.opts = opts /\ c.step = "done"
              /\ c.applied = 0 /\ ~c.unsure /\ c.legacy = FALSE /\ ~c.found /\ ~c.ret
              /\ c.message = Plain
<1>1. Plain \in Message
  BY PlainFits DEF MessageFits
<1>2. QED BY <1>1 DEF New, CallType, Steps

\* A call that ends without another round trip, refused.
LEMMA FailureFits ==
    ASSUME call' \in CallType, call'.step = "done", call'.applied = 0, ~call'.ret,
           \/ call'.error \/ call'.helper = "hasCollection"
           \/ call'.helper = "createIndex" /\ call'.legacy,
           MessageFits(call', call'.wire, call'.message)
    PROVE  CallFits'
<1>1. AnswerIsTrue'
  BY DEF AnswerIsTrue
<1>2. ConcernsAreKept'
  BY DEF ConcernsAreKept, MessageFits
<1>3. StepsFit'
  BY DEF StepsFit
<1>4. QED BY <1>1, <1>2, <1>3 DEF CallFits

-----------------------------------------------------------------------------
(* Commands with options.                                                  *)

\* What the options and the handle's concerns make of a message.
LEMMA AppendedFields ==
    ASSUME NEW opts \in SUBSET Option, NEW wire \in Wire
    PROVE  LET m == AppendOpts(Plain, opts, wire)
           IN /\ m \in Message /\ m.slaveOk = FALSE
              /\ m.collation <=> "collation" \in opts
              /\ m.rc = {o \in {"given"} : "readConcern" \in opts}
              /\ m.wc = {o \in {"given"} : "writeConcern" \in opts /\ wire >= CmdWriteConcernVersion}
<1> DEFINE rc == {o \in {"given"} : "readConcern" \in opts}
           wc == {o \in {"given"} : "writeConcern" \in opts /\ wire >= CmdWriteConcernVersion}
<1>1. PICK co \in BOOLEAN : co <=> "collation" \in opts
  OBVIOUS
<1>2. rc \in SUBSET {"given", "own"} /\ wc \in SUBSET {"given", "own"}
  OBVIOUS
<1> HIDE DEF rc, wc
<1>3. ("collation" \in opts) = co
  BY <1>1
<1>4. AppendOpts(Plain, opts, wire) =
         [Plain EXCEPT !.wc = @ \cup wc, !.rc = @ \cup rc, !.collation = co]
  BY <1>3, Zenon DEF AppendOpts, rc, wc
<1>5. PICK m : m = AppendOpts(Plain, opts, wire)
  OBVIOUS
<1>6. m = [wc |-> {} \cup wc, rc |-> {} \cup rc, collation |-> co, slaveOk |-> FALSE]
  BY <1>4, <1>5 DEF Plain
<1>7. /\ m.slaveOk = FALSE /\ m.collation = co /\ m.rc = rc /\ m.wc = wc /\ m \in Message
  BY <1>2, <1>6 DEF Message
<1>8. QED BY <1>1, <1>5, <1>7 DEF rc, wc

LEMMA DefaultsFit ==
    ASSUME NEW mode, NEW opts \in SUBSET Option, NEW wire \in Wire, ~Refused(opts, wire), NEW c
    PROVE  LET m == WithDefaults(mode, opts, wire)
           IN /\ MessageFits(c, wire, m)
              /\ mode # "read" /\ wire >= CmdWriteConcernVersion => WantedOf(opts) \subseteq m.wc
<1> DEFINE a == AppendOpts(Plain, opts, wire)
           own == {o \in {"own"} : /\ mode # "read" /\ settings.handle # "default"
                                   /\ wire >= CmdWriteConcernVersion /\ a.wc = {}}
           rown == {o \in {"own"} : /\ mode # "write" /\ settings.readConcern
                                    /\ wire >= ReadConcernVersion /\ a.rc = {}}
<1>1. /\ a \in Message
      /\ a.collation <=> "collation" \in opts
      /\ a.rc = {o \in {"given"} : "readConcern" \in opts}
      /\ a.wc = {o \in {"given"} : "writeConcern" \in opts /\ wire >= CmdWriteConcernVersion}
  BY AppendedFields
<1>2. PICK s \in BOOLEAN : s <=> "serverId" \in opts /\ ~settings.mongos
  OBVIOUS
<1>3. PICK m : m = WithDefaults(mode, opts, wire)
  OBVIOUS
<1>4. m = [a EXCEPT !.wc = a.wc \cup own, !.rc = a.rc \cup rown, !.slaveOk = s]
  BY <1>2, <1>3, <1>1 DEF WithDefaults
<1>5. own \in SUBSET {"own"} /\ rown \in SUBSET {"own"}
  OBVIOUS
<1>6. /\ m \in Message /\ m.wc = a.wc \cup own /\ m.rc = a.rc \cup rown
      /\ m.collation = a.collation
  <2> HIDE DEF a, own, rown
  <2>1. QED BY <1>1, <1>2, <1>4, <1>5 DEF Message
<1>7. m.collation => wire >= CollationVersion
  BY <1>1, <1>6, CommandsAssumption DEF Refused, CollationVersion
<1>8. m.wc # {} => wire >= CmdWriteConcernVersion
  BY <1>1, <1>6
<1>9. m.rc # {} => wire >= ReadConcernVersion
  BY <1>1, <1>6, CommandsAssumption DEF Refused, ReadConcernVersion
<1>10. Cardinality(m.rc) <= 1
  <2>1. m.rc \in SUBSET {"given"} \/ m.rc \in SUBSET {"own"}
    BY <1>1, <1>6
  <2>2. QED BY <2>1, AtMostOne
<1>11. Cardinality(m.wc) <= 1
  <2>1. m.wc \in SUBSET {"given"} \/ m.wc \in SUBSET {"own"}
    BY <1>1, <1>6
  <2>2. QED BY <2>1, AtMostOne
<1>12. ASSUME mode # "read", wire >= CmdWriteConcernVersion PROVE WantedOf(opts) \subseteq m.wc
  <2>1. CASE "writeConcern" \in opts
    BY <1>1, <1>6, <1>12, <2>1 DEF WantedOf
  <2>2. CASE "writeConcern" \notin opts
    <3>1. a.wc = {}
      BY <1>1, <2>2
    <3>2. QED BY <1>6, <1>12, <2>2, <3>1 DEF WantedOf
  <2>3. QED BY <2>1, <2>2
<1>13. MessageFits(c, wire, m)
  BY <1>6, <1>7, <1>8, <1>9, <1>10, <1>11 DEF MessageFits
<1>14. QED BY <1>3, <1>12, <1>13

\* What a call did at the server, and how that shows in its answer.
Did(effect) ==
    \/ world' = world /\ ~call'.ret
    \/ world' = effect /\ (call'.ret \/ call'.unsure)

\* The helper h ends with a command that is sent with its own options, or with such as it makes.
Sends(h, own, command, mode, opts, accepts, effect) ==
    /\ h \in Helper /\ own \in SUBSET Option /\ opts \in SUBSET Option
    /\ h \in Confirming => mode # "read" /\ own = opts
    /\ h \in Writers => mode # "read"
    /\ \E r \in CommandWithOpts(New(h, own), command, mode, opts, accepts, effect) : Becomes(r)

LEMMA WithOptsFits ==
    ASSUME NEW h, NEW own, NEW command, NEW mode, NEW opts, NEW accepts, NEW effect,
           Sends(h, own, command, mode, opts, accepts, effect)
    PROVE  CallFits' /\ call'.step = "done" /\ Did(effect) /\ settings' = settings
<1>1. /\ h \in Helper /\ own \in SUBSET Option /\ opts \in SUBSET Option
      /\ h \in Confirming => mode # "read" /\ own = opts
      /\ h \in Writers => mode # "read"
  BY DEF Sends
<1>2. PICK r \in CommandWithOpts(New(h, own), command, mode, opts, accepts, effect) : Becomes(r)
  BY DEF Sends
<1>3. PICK c : c = New(h, own)
  OBVIOUS
<1>4. /\ c \in CallType /\ c.helper = h /\ c.opts = own /\ c.step = "done"
      /\ c.applied = 0 /\ ~c.unsure /\ c.legacy = FALSE /\ ~c.ret /\ c.message = Plain
  BY <1>3, <1>1, NewFields
<1>5. call' = r.call /\ world' = r.world /\ settings' = settings
  BY <1>2 DEF Becomes
<1>6. CASE r = [call |-> Fails(c), world |-> world]
  <2>1. call' = Ends(c, FALSE, TRUE) /\ world' = world
    BY <1>5, <1>6 DEF Fails
  <2>2. /\ call' \in CallType /\ call'.step = "done" /\ call'.applied = 0 /\ ~call'.ret
        /\ call'.error /\ call'.message = Plain
    BY <1>4, <2>1 DEF Ends, CallType, Steps
  <2>3. MessageFits(call', call'.wire, call'.message)
    BY <2>2, PlainFits
  <2>4. CallFits'
    BY <2>2, <2>3, FailureFits
  <2>5. QED BY <1>5, <2>1, <2>2, <2>4 DEF Did
<1>7. ASSUME NEW wire \in Wire, ~Refused(opts, wire),
             NEW m, m = WithDefaults(mode, opts, wire),
             NEW o \in Outcomes(command, wire, m, accepts),
             r = [call |-> Returns(Sent(c, wire, m, o), o.ok /\ ~(mode # "read" /\ o.wcError)),
                  world |-> After(o, effect)]
      PROVE  CallFits' /\ call'.step = "done" /\ Did(effect)
  <2>1. PICK b \in BOOLEAN : b = (o.ok /\ ~(mode # "read" /\ o.wcError))
    OBVIOUS
  <2>2. IsOutcome(o)
    BY OutcomesAreSuch
  <2>3. /\ MessageFits(c, wire, m)
        /\ mode # "read" /\ wire >= CmdWriteConcernVersion => WantedOf(opts) \subseteq m.wc
    BY <1>7, <1>1, DefaultsFit
  <2>4. call' = Returns(Sent(c, wire, m, o), b) /\ world' = After(o, effect)
    BY <1>5, <1>7, <2>1
  <2>5. Truly(c, wire, m, o, b)
    BY <1>4, <1>1, <2>1, <2>2, <2>3 DEF Truly, IsOutcome, Confirming
  <2>6. CallFits'
    BY <1>4, <1>5, <2>2, <2>4, <2>3, <2>5, TripFits
  <2>7. m \in Message
    BY <2>3 DEF MessageFits
  <2>8. PICK d : d = Sent(c, wire, m, o)
    OBVIOUS
  <2>9. d \in CallType /\ (d.unsure <=> (o.code = "network" \/ o.wcError))
    BY <1>4, <2>2, <2>7, <2>8, SentFields
  <2>10. call'.step = "done" /\ call'.ret = b /\ call'.unsure = d.unsure
    BY <2>4, <2>8, <2>9 DEF Returns, Ends, CallType
  <2>11. Did(effect)
    BY <2>1, <2>2, <2>4, <2>9, <2>10 DEF Did, After, IsOutcome
  <2>12. QED BY <2>6, <2>10, <2>11
<1>8. QED
  <2>1. \/ r = [call |-> Fails(c), world |-> world]
        \/ \E wire \in {v \in Wire : ~Refused(opts, v)} :
              \E o \in Outcomes(command, wire, WithDefaults(mode, opts, wire), accepts) :
                 r = [call |-> Returns(Sent(c, wire, WithDefaults(mode, opts, wire), o),
                                       o.ok /\ ~(mode # "read" /\ o.wcError)),
                      world |-> After(o, effect)]
    BY <1>3, <1>2 DEF CommandWithOpts
  <2>2. QED BY <1>5, <1>6, <1>7, <2>1

\* What the world may be without harm to the catalogue.
WorldFits(w) ==
    /\ w \in World
    /\ w.name \in {None, collection} \/ doubt
    /\ w.users <= 1 \/ settings.secondary

LEMMA WorldsFit ==
    ASSUME Inv
    PROVE  /\ WorldFits(world)
           /\ WorldFits([world EXCEPT !.name = None])
           /\ \A k \in 0 .. MaxUsers : k <= 1 \/ k <= world.users \/ settings.secondary =>
                 WorldFits([world EXCEPT !.users = k])
<1>1. world \in World /\ (world.name \in {None, collection} \/ doubt)
      /\ (world.users <= 1 \/ settings.secondary)
  BY DEF Inv, TypeOK, CatalogueIsKept
<1>2. WorldFits(world)
  BY <1>1 DEF WorldFits
<1>3. WorldFits([world EXCEPT !.name = None])
  BY <1>1 DEF WorldFits, World
<1>4. ASSUME NEW k \in 0 .. MaxUsers, k <= 1 \/ k <= world.users \/ settings.secondary
      PROVE  WorldFits([world EXCEPT !.users = k])
  <2>1. PICK w : w = [world EXCEPT !.users = k]
    OBVIOUS
  <2>2. w \in World /\ w.name = world.name /\ w.users = k
    BY <1>1, <2>1 DEF World
  <2>3. k <= 1 \/ settings.secondary
    BY <1>1, <1>4, CommandsAssumption DEF World
  <2>4. WorldFits(w)
    BY <1>1, <2>2, <2>3 DEF WorldFits
  <2>5. QED BY <2>1, <2>4
<1>5. QED BY <1>2, <1>3, <1>4

\* A step of a call whose handle keeps its name.
LEMMA KeepingFits ==
    ASSUME Inv, CallFits', settings' = settings, Keeps, call'.step # "saveUser", WorldFits(world')
    PROVE  Inv'
<1>1. collection' = collection /\ doubt' = doubt
  BY DEF Keeps
<1>2. TypeOK'
  BY <1>1 DEF Inv, TypeOK, WorldFits, CallFits
<1>3. CatalogueIsKept'
  BY <1>1 DEF WorldFits, CatalogueIsKept
<1>4. UserWasLookedUp'
  BY DEF UserWasLookedUp
<1>5. QED BY <1>2, <1>3, <1>4 DEF Inv

LEMMA WithOptsKeepsInv ==
    ASSUME Inv, NEW h, NEW own, NEW command, NEW mode, NEW opts, NEW accepts, NEW effect,
           Sends(h, own, command, mode, opts, accepts, effect), WorldFits(effect), Keeps
    PROVE  Inv'
<1>1. CallFits' /\ call'.step = "done" /\ Did(effect) /\ settings' = settings
  BY WithOptsFits
<1>2. WorldFits(world')
  BY <1>1, WorldsFit DEF Did
<1>3. QED BY <1>1, <1>2, KeepingFits

LEMMA CommandOfModeKeepsInv ==
    ASSUME Inv, NEW mode \in {"read", "write", "readWrite"}, CommandOfMode(mode) PROVE Inv'
<1>1. PICK opts \in Options :
         \E r \in CommandWithOpts(New(mode, opts), "command", mode, opts, TRUE, world) : Becomes(r)
  BY DEF CommandOfMode
<1>2. /\ mode \in Helper /\ opts \in SUBSET Option
      /\ mode \in Confirming => mode # "read" /\ opts = opts
      /\ mode \in Writers => mode # "read"
  BY CommandsAssumption DEF Helper, Confirming, Writers
<1>3. Sends(mode, opts, "command", mode, opts, TRUE, world)
  BY <1>1, <1>2, Zenon DEF Sends
<1>4. Keeps
  BY DEF CommandOfMode
<1>5. QED BY <1>3, <1>4, WorldsFit, WithOptsKeepsInv

LEMMA CountWithOptsKeepsInv == ASSUME Inv, CountWithOpts PROVE Inv'
<1>1. PICK opts \in Options :
         \E r \in CommandWithOpts(New("count", opts), "count", "read", opts, TRUE,
                                 world) : Becomes(r)
  BY DEF CountWithOpts
<1>2. /\ "count" \in Helper /\ opts \in SUBSET Option /\ opts \in SUBSET Option
      /\ "count" \in Confirming => "read" # "read" /\ opts = opts
      /\ "count" \in Writers => "read" # "read"
  BY CommandsAssumption DEF Helper, Confirming, Writers
<1>3. Sends("count", opts, "count", "read", opts, TRUE, world)
  BY <1>1, <1>2, Zenon DEF Sends
<1>4. Keeps /\ WorldFits(world)
  BY WorldsFit DEF CountWithOpts
<1>5. QED BY <1>3, <1>4, WithOptsKeepsInv

LEMMA CountKeepsInv == ASSUME Inv, Count PROVE Inv'
<1>1. PICK opts \in SUBSET {"readConcern"} :
         \E r \in CommandWithOpts(New("count", {}), "count", "read", opts, TRUE,
                                 world) : Becomes(r)
  BY DEF Count
<1>2. /\ "count" \in Helper /\ {} \in SUBSET Option /\ opts \in SUBSET Option
      /\ "count" \in Confirming => "read" # "read" /\ {} = opts
      /\ "count" \in Writers => "read" # "read"
  BY CommandsAssumption DEF Helper, Confirming, Writers, Option
<1>3. Sends("count", {}, "count", "read", opts, TRUE, world)
  BY <1>1, <1>2, Zenon DEF Sends
<1>4. Keeps /\ WorldFits(world)
  BY WorldsFit DEF Count
<1>5. QED BY <1>3, <1>4, WithOptsKeepsInv

LEMMA DropKeepsInv == ASSUME Inv, Drop PROVE Inv'
<1>1. PICK opts \in Options :
         \E r \in CommandWithOpts(New("drop", opts), "drop", "write", opts, Here,
                                 [world EXCEPT !.name = None]) : Becomes(r)
  BY DEF Drop
<1>2. /\ "drop" \in Helper /\ opts \in SUBSET Option /\ opts \in SUBSET Option
      /\ "drop" \in Confirming => "write" # "read" /\ opts = opts
      /\ "drop" \in Writers => "write" # "read"
  BY CommandsAssumption DEF Helper, Confirming, Writers
<1>3. Sends("drop", opts, "drop", "write", opts, Here, [world EXCEPT !.name = None])
  BY <1>1, <1>2, Zenon DEF Sends
<1>4. Keeps /\ WorldFits([world EXCEPT !.name = None])
  BY WorldsFit DEF Drop
<1>5. QED BY <1>3, <1>4, WithOptsKeepsInv

LEMMA DropIndexKeepsInv == ASSUME Inv, DropIndex PROVE Inv'
<1>1. PICK opts \in Options :
         \E r \in CommandWithOpts(New("dropIndex", opts), "dropIndexes", "write", opts, Here,
                                 world) : Becomes(r)
  BY DEF DropIndex
<1>2. /\ "dropIndex" \in Helper /\ opts \in SUBSET Option /\ opts \in SUBSET Option
      /\ "dropIndex" \in Confirming => "write" # "read" /\ opts = opts
      /\ "dropIndex" \in Writers => "write" # "read"
  BY CommandsAssumption DEF Helper, Confirming, Writers
<1>3. Sends("dropIndex", opts, "dropIndexes", "write", opts, Here, world)
  BY <1>1, <1>2, Zenon DEF Sends
<1>4. Keeps /\ WorldFits(world)
  BY WorldsFit DEF DropIndex
<1>5. QED BY <1>3, <1>4, WithOptsKeepsInv

LEMMA DropDatabaseKeepsInv == ASSUME Inv, DropDatabase PROVE Inv'
<1>1. PICK opts \in Options :
         \E r \in CommandWithOpts(New("dropDatabase", opts), "dropDatabase", "write", opts, TRUE,
                                 [world EXCEPT !.name = None]) : Becomes(r)
  BY DEF DropDatabase
<1>2. /\ "dropDatabase" \in Helper /\ opts \in SUBSET Option /\ opts \in SUBSET Option
      /\ "dropDatabase" \in Confirming => "write" # "read" /\ opts = opts
      /\ "dropDatabase" \in Writers => "write" # "read"
  BY CommandsAssumption DEF Helper, Confirming, Writers
<1>3. Sends("dropDatabase", opts, "dropDatabase", "write", opts, TRUE, [world EXCEPT !.name = None])
  BY <1>1, <1>2, Zenon DEF Sends
<1>4. Keeps /\ WorldFits([world EXCEPT !.name = None])
  BY WorldsFit DEF DropDatabase
<1>5. QED BY <1>3, <1>4, WithOptsKeepsInv

\* A call that names the collection, and with it the handle.
LEMMA NamingKeepsInv ==
    ASSUME Inv, NEW n \in Name, NEW h, NEW own, NEW command, NEW mode, NEW opts, NEW accepts,
           Sends(h, own, command, mode, opts, accepts, [world EXCEPT !.name = n]), Renames(n)
    PROVE  Inv'
<1>1. PICK w : w = [world EXCEPT !.name = n]
  OBVIOUS
<1>2. world \in World /\ w \in World /\ w.name = n /\ w.users = world.users
  BY <1>1 DEF Inv, TypeOK, World
<1>3. CallFits' /\ call'.step = "done" /\ Did([world EXCEPT !.name = n]) /\ settings' = settings
  BY WithOptsFits
<1>4. \/ world' = world /\ ~call'.ret
      \/ world' = w /\ (call'.ret \/ call'.unsure)
  BY <1>1, <1>3 DEF Did
<1>5. /\ collection' = IF call'.ret THEN n ELSE collection
      /\ doubt' = (~call'.ret /\ (doubt \/ call'.unsure))
  BY DEF Renames
<1>6. TypeOK'
  <2>1. doubt' \in BOOLEAN
    BY <1>5
  <2>2. QED BY <1>2, <1>3, <1>4, <1>5, <2>1 DEF Inv, TypeOK, CallFits
<1>7. CatalogueIsKept'
  <2>1. world'.name \in {None, collection'} \/ doubt'
    BY <1>2, <1>4, <1>5 DEF Inv, CatalogueIsKept
  <2>2. world'.users <= 1 \/ settings'.secondary
    BY <1>2, <1>3, <1>4 DEF Inv, CatalogueIsKept
  <2>3. QED BY <2>1, <2>2 DEF CatalogueIsKept
<1>8. QED BY <1>3, <1>6, <1>7 DEF Inv, UserWasLookedUp

LEMMA RenameKeepsInv == ASSUME Inv, Rename PROVE Inv'
<1>1. PICK n \in Name, opts \in Options :
         /\ \E r \in CommandWithOpts(New("rename", opts), "renameCollection", "write", opts,
                                    Here /\ n # collection, [world EXCEPT !.name = n]) : Becomes(r)
         /\ Renames(n)
  BY DEF Rename
<1>2. /\ "rename" \in Helper /\ opts \in SUBSET Option /\ opts \in SUBSET Option
      /\ "rename" \in Confirming => "write" # "read" /\ opts = opts
      /\ "rename" \in Writers => "write" # "read"
  BY CommandsAssumption DEF Helper, Confirming, Writers
<1>3. Sends("rename", opts, "renameCollection", "write", opts, Here /\ n # collection,
            [world EXCEPT !.name = n])
  BY <1>1, <1>2, Zenon DEF Sends
<1>4. QED BY <1>1, <1>3, NamingKeepsInv

LEMMA CreateCollectionKeepsInv == ASSUME Inv, CreateCollection PROVE Inv'
<1>1. PICK n \in Name, opts \in Options :
         /\ \E r \in CommandWithOpts(New("create", opts), "create", "write", opts,
                                    world.name = None, [world EXCEPT !.name = n]) : Becomes(r)
         /\ Renames(n)
  BY DEF CreateCollection
<1>2. /\ "create" \in Helper /\ opts \in SUBSET Option /\ opts \in SUBSET Option
      /\ "create" \in Confirming => "write" # "read" /\ opts = opts
      /\ "create" \in Writers => "write" # "read"
  BY CommandsAssumption DEF Helper, Confirming, Writers
<1>3. Sends("create", opts, "create", "write", opts, world.name = None,
            [world EXCEPT !.name = n])
  BY <1>1, <1>2, Zenon DEF Sends
<1>4. QED BY <1>1, <1>3, NamingKeepsInv

-----------------------------------------------------------------------------
(* Commands without options.                                               *)

LEMMA MessageCarries ==
    ASSUME NEW c, NEW d, NEW wire, NEW m, MessageFits(c, wire, m),
           d.helper = c.helper, c.legacy => d.legacy
    PROVE  MessageFits(d, wire, m)
BY DEF MessageFits

\* A call that is ready for a round trip.
Ready(c) ==
    /\ c \in CallType /\ c.applied = 0 /\ ~c.unsure /\ c.legacy = FALSE
    /\ MessageFits(c, c.wire, c.message)

LEMMA NewIsReady ==
    ASSUME NEW h \in Helper, NEW opts \in SUBSET Option
    PROVE  Ready(New(h, opts)) /\ New(h, opts).helper = h /\ New(h, opts).opts = opts
BY NewFields, PlainFits DEF Ready

LEMMA CallIsReady ==
    ASSUME Inv, call.step # "done" PROVE Ready(call) /\ ~call.ret
<1>1. call \in CallType /\ ConcernsAreKept /\ StepsFit
  BY DEF Inv, CallFits
<1>2. MessageFits(call, call.wire, call.message)
  BY <1>1 DEF ConcernsAreKept, MessageFits, CallType
<1>3. call.applied = 0 /\ ~call.unsure /\ ~call.ret /\ call.legacy = FALSE
  BY <1>1 DEF StepsFit, CallType
<1>4. QED BY <1>1, <1>2, <1>3 DEF Ready

\* What can be said of any end of the call c.
SimplyDone(c, r, effect) ==
    /\ r = [call |-> r.call, world |-> r.world, code |-> r.code]
    /\ r.call \in CallType /\ r.call.step = "done"
    /\ r.call.helper = c.helper /\ r.call.legacy = FALSE
    /\ MessageFits(r.call, r.call.wire, r.call.message)
    /\ r.call.applied \in 0 .. 1
    /\ r.call.ret => r.call.applied = 1
    /\ ~r.call.ret => r.call.error
    /\ ~r.call.ret /\ ~r.call.unsure => r.call.applied = 0
    /\ FallsBack(r.code) => r.call.applied = 0 /\ ~r.call.unsure /\ ~r.call.ret
    /\ r.world \in {world, effect}

LEMMA SimpleTrip ==
    ASSUME NEW c, Ready(c), NEW command, NEW accepts, NEW effect,
           NEW r \in CommandSimple(c, command, accepts, effect)
    PROVE  SimplyDone(c, r, effect)
<1>1. c \in CallType /\ c.applied = 0 /\ ~c.unsure /\ c.legacy = FALSE
  BY DEF Ready
<1>2. CASE r = [call |-> Fails(c), world |-> world, code |-> "noServer"]
  <2>1. PICK d : d = Fails(c)
    OBVIOUS
  <2>2. /\ d \in CallType /\ d.step = "done" /\ d.helper = c.helper /\ d.legacy = FALSE
        /\ d.applied = 0 /\ ~d.ret /\ d.error /\ d.wire = c.wire /\ d.message = c.message
    BY <1>1, <2>1 DEF Fails, Ends, CallType, Steps
  <2>3. MessageFits(d, d.wire, d.message)
    <3>1. MessageFits(c, d.wire, d.message)
      BY <2>2 DEF Ready
    <3>2. QED BY <1>1, <2>2, <3>1, MessageCarries
  <2>4. r.call = d /\ r.world = world /\ r.code = "noServer"
        /\ r = [call |-> r.call, world |-> r.world, code |-> r.code]
    BY <1>2, <2>1
  <2>5. ~FallsBack(r.code)
    BY <2>4 DEF FallsBack
  <2>6. QED BY <2>2, <2>3, <2>4, <2>5 DEF SimplyDone
<1>3. ASSUME NEW wire \in Wire, NEW o \in Outcomes(command, wire, Plain, accepts),
             r = [call |-> Returns(Sent(c, wire, Plain, o), o.ok),
                  world |-> After(o, effect), code |-> o.code]
      PROVE  SimplyDone(c, r, effect)
  <2>1. IsOutcome(o)
    BY OutcomesAreSuch
  <2>2. PICK d : d = Sent(c, wire, Plain, o)
    OBVIOUS
  <2>3. Plain \in Message
    BY PlainFits DEF MessageFits
  <2>4. /\ d \in CallType /\ d.helper = c.helper /\ d.wire = wire /\ d.message = Plain
        /\ d.applied = (IF o.applied THEN 1 ELSE 0)
        /\ d.unsure <=> (o.code = "network" \/ o.wcError)
        /\ d.legacy = FALSE
    BY <1>1, <2>1, <2>2, <2>3, SentFields
  <2>5. PICK b \in BOOLEAN : b = o.ok
    BY <2>1 DEF IsOutcome
  <2>6. PICK e : e = Returns(d, b)
    OBVIOUS
  <2>7. /\ e \in CallType /\ e.step = "done" /\ e.helper = c.helper /\ e.legacy = FALSE
        /\ e.wire = wire /\ e.message = Plain /\ e.applied = d.applied /\ e.unsure = d.unsure
        /\ e.ret = b /\ e.error = ~b
    BY <2>4, <2>5, <2>6 DEF Returns, Ends, CallType, Steps
  <2>8. r.call = e /\ r.world = After(o, effect) /\ r.code = o.code
        /\ r = [call |-> r.call, world |-> r.world, code |-> r.code]
    BY <1>3, <2>2, <2>5, <2>6
  <2>9. MessageFits(e, e.wire, e.message)
    BY <2>7, PlainFits
  <2>10. r.world \in {world, effect}
    BY <2>8 DEF After
  <2>11. e.applied \in 0 .. 1 /\ (e.ret => e.applied = 1)
    BY <2>1, <2>4, <2>5, <2>7 DEF IsOutcome
  <2>12. ~e.ret /\ ~e.unsure => e.applied = 0
    BY <2>1, <2>4, <2>5, <2>7 DEF IsOutcome
  <2>13. FallsBack(o.code) => e.applied = 0 /\ ~e.unsure /\ ~e.ret
    BY <2>1, <2>4, <2>5, <2>7 DEF IsOutcome, FallsBack
  <2>14. QED BY <2>7, <2>8, <2>9, <2>10, <2>11, <2>12, <2>13 DEF SimplyDone
<1>4. QED
  <2>1. \/ r = [call |-> Fails(c), world |-> world, code |-> "noServer"]
        \/ \E wire \in Wire : \E trip \in {wire} \X Outcomes(command, wire, Plain, accepts) :
              r = [call |-> Returns(Sent(c, trip[1], Plain, trip[2]), trip[2].ok),
                   world |-> After(trip[2], effect), code |-> trip[2].code]
    BY DEF CommandSimple
  <2>2. ASSUME NEW wire \in Wire, NEW trip \in {wire} \X Outcomes(command, wire, Plain, accepts),
               r = [call |-> Returns(Sent(c, trip[1], Plain, trip[2]), trip[2].ok),
                    world |-> After(trip[2], effect), code |-> trip[2].code]
        PROVE  SimplyDone(c, r, effect)
    <3>1. PICK o \in Outcomes(command, wire, Plain, accepts) : trip[1] = wire /\ trip[2] = o
      OBVIOUS
    <3>2. QED BY <1>3, <2>2, <3>1
  <2>3. QED BY <1>2, <2>1, <2>2

\* A call that ends with an answer of which no concern is asked.
LEMMA EndFits ==
    ASSUME call' \in CallType, call'.step = "done", MessageFits(call', call'.wire, call'.message),
           call'.helper \notin Confirming, AnswerIsTrue'
    PROVE  CallFits'
<1>1. ConcernsAreKept'
  BY DEF ConcernsAreKept, MessageFits, Confirming
<1>2. StepsFit'
  BY DEF StepsFit
<1>3. QED BY <1>1, <1>2 DEF CallFits

\* Nor does an answer of one that only reads say anything of a write.
LEMMA ReaderFits ==
    ASSUME call' \in CallType, call'.step = "done", MessageFits(call', call'.wire, call'.message),
           call'.helper \notin Writers \cup {"aggregate"},
           call'.ret \/ call'.error \/ call'.helper \in {"none", "hasCollection"}
    PROVE  CallFits'
<1>1. AnswerIsTrue'
  BY DEF AnswerIsTrue
<1>2. QED BY <1>1, EndFits DEF Confirming

\* A call that goes on with another step.
LEMMA StepFits ==
    ASSUME call' \in CallType, call'.step # "done", MessageFits(call', call'.wire, call'.message),
           StepsFit'
    PROVE  CallFits'
<1>1. call'.applied = 0
  BY DEF StepsFit
<1>2. AnswerIsTrue'
  BY <1>1 DEF AnswerIsTrue, Idle
<1>3. ConcernsAreKept'
  BY DEF ConcernsAreKept, MessageFits, Idle
<1>4. QED BY <1>2, <1>3 DEF CallFits

LEMMA SimpleFits ==
    ASSUME NEW c, NEW r, NEW effect, SimplyDone(c, r, effect), c.helper \notin Confirming, call' = r.call
    PROVE  CallFits'
<1>1. AnswerIsTrue'
  BY DEF SimplyDone, AnswerIsTrue
<1>2. QED BY <1>1, EndFits DEF SimplyDone

LEMMA SimpleKeepsInv ==
    ASSUME Inv, NEW c, Ready(c), c.helper \notin Confirming, NEW command, NEW accepts,
           NEW effect, WorldFits(effect), NEW r \in CommandSimple(c, command, accepts, effect),
           Becomes(r), Keeps
    PROVE  Inv'
<1>1. SimplyDone(c, r, effect)
  BY SimpleTrip
<1>2. call' = r.call /\ world' = r.world /\ settings' = settings
  BY DEF Becomes
<1>3. CallFits'
  BY <1>1, <1>2, SimpleFits
<1>4. call'.step = "done" /\ WorldFits(world')
  BY <1>1, <1>2, WorldsFit DEF SimplyDone
<1>5. QED BY <1>2, <1>3, <1>4, KeepingFits

LEMMA CommandKeepsInv == ASSUME Inv, Command PROVE Inv'
<1>1. PICK r \in CommandSimple(New("command", {}), "command", TRUE, world) : Becomes(r)
  BY DEF Command
<1>2. Ready(New("command", {})) /\ New("command", {}).helper = "command"
  <2>1. "command" \in Helper
    BY DEF Helper
  <2>2. QED BY <2>1, NewIsReady
<1>3. New("command", {}).helper \notin Confirming
  BY <1>2 DEF Confirming, Writers
<1>4. Keeps
  BY DEF Command
<1>5. QED BY <1>1, <1>2, <1>3, <1>4, WorldsFit, SimpleKeepsInv

\* A call that is refused before anything is sent.
LEMMA RefusedFits ==
    ASSUME Inv, NEW c, Ready(c), Becomes([call |-> Fails(c), world |-> world]), Keeps PROVE Inv'
<1>1. c \in CallType /\ c.applied = 0 /\ MessageFits(c, c.wire, c.message)
  BY DEF Ready
<1>2. call' = Ends(c, FALSE, TRUE) /\ world' = world /\ settings' = settings
  BY DEF Becomes, Fails
<1>3. /\ call' \in CallType /\ call'.step = "done" /\ call'.applied = 0 /\ ~call'.ret /\ call'.error
      /\ call'.wire = c.wire /\ call'.message = c.message
      /\ call'.helper = c.helper /\ call'.legacy = c.legacy
  BY <1>1, <1>2 DEF Ends, CallType, Steps
<1>4. MessageFits(call', call'.wire, call'.message)
  BY <1>1, <1>3, MessageCarries
<1>5. CallFits'
  BY <1>3, <1>4, FailureFits
<1>6. QED BY <1>2, <1>3, <1>5, WorldsFit, KeepingFits

LEMMA ValidateKeepsInv == ASSUME Inv, Validate PROVE Inv'
<1>1. PICK opts \in Options :
         IF "invalid" \in opts
         THEN Becomes([call |-> Fails(New("validate", opts)), world |-> world])
         ELSE \E r \in CommandSimple(New("validate", opts), "validate", Here, world) : Becomes(r)
  BY DEF Validate
<1>2. "validate" \in Helper /\ "validate" \notin Confirming /\ opts \in SUBSET Option
  BY CommandsAssumption DEF Helper, Confirming, Writers
<1>3. PICK c : c = New("validate", opts)
  OBVIOUS
<1>4. Ready(c) /\ c.helper \notin Confirming
  BY <1>2, <1>3, NewIsReady
<1>5. Keeps
  BY DEF Validate
<1>6. CASE "invalid" \in opts
  BY <1>1, <1>3, <1>4, <1>5, <1>6, RefusedFits
<1>7. CASE "invalid" \notin opts
  <2>1. PICK r \in CommandSimple(c, "validate", Here, world) : Becomes(r)
    BY <1>1, <1>3, <1>7
  <2>2. QED BY <1>4, <1>5, <2>1, WorldsFit, SimpleKeepsInv
<1>8. QED BY <1>6, <1>7

LEMMA CreateUserKeepsInv == ASSUME Inv, CreateUser PROVE Inv'
<1>1. PICK r \in CommandSimple(call, "createUser", world.users = 0, [world EXCEPT !.users = 1]) :
         Becomes(r)
  BY DEF CreateUser
<1>2. call.step = "createUser" /\ Keeps
  BY DEF CreateUser
<1>3. Ready(call)
  BY <1>2, CallIsReady
<1>4. call.helper \notin Confirming
  BY <1>2 DEF Inv, CallFits, StepsFit, Confirming
<1>5. WorldFits([world EXCEPT !.users = 1])
  <2>1. 1 \in 0 .. MaxUsers
    BY CommandsAssumption
  <2>2. QED BY <2>1, WorldsFit
<1>6. QED BY <1>1, <1>2, <1>3, <1>4, <1>5, SimpleKeepsInv

-----------------------------------------------------------------------------
(* Calls that fall back.                                                   *)

\* The answer's call is replaced by another.
LEMMA CallReplaced ==
    ASSUME NEW r, r = [call |-> r.call, world |-> r.world, code |-> r.code], NEW x,
           Becomes([r EXCEPT !.call = x])
    PROVE  call' = x /\ world' = r.world /\ settings' = settings
BY DEF Becomes

LEMMA RemoveKeepsInv ==
    ASSUME Inv, NEW h \in {"removeUser", "removeAllUsers"}, NEW command, Remove(h, command)
    PROVE  Inv'
<1>1. PICK e : e = [world EXCEPT !.users = 0]
  OBVIOUS
<1>2. PICK c : c = New(h, {})
  OBVIOUS
<1>3. PICK r \in CommandSimple(c, command, h = "removeAllUsers" \/ world.users > 0, e) :
         Becomes([r EXCEPT !.call = IF FallsBack(r.code) THEN [r.call EXCEPT !.step = "removeUser"]
                                    ELSE r.call])
  BY <1>1, <1>2 DEF Remove
<1>4. Keeps
  BY DEF Remove
<1>5. h \in Helper /\ h \notin Confirming
  BY DEF Helper, Confirming
<1>6. Ready(c) /\ c.helper = h
  BY <1>2, <1>5, NewIsReady
<1>7. SimplyDone(c, r, e)
  BY <1>3, <1>6, SimpleTrip
<1>8. WorldFits(r.world)
  <2>1. 0 \in 0 .. MaxUsers
    BY CommandsAssumption
  <2>2. WorldFits(world) /\ WorldFits(e)
    BY <1>1, <2>1, WorldsFit
  <2>3. QED BY <1>7, <2>2 DEF SimplyDone
<1>9. PICK x : x = IF FallsBack(r.code) THEN [r.call EXCEPT !.step = "removeUser"] ELSE r.call
  OBVIOUS
<1>10. call' = x /\ world' = r.world /\ settings' = settings
  <2>1. r = [call |-> r.call, world |-> r.world, code |-> r.code]
    BY <1>7 DEF SimplyDone
  <2>2. Becomes([r EXCEPT !.call = x])
    BY <1>3, <1>9
  <2>3. QED BY <2>1, <2>2, CallReplaced
<1>11. CASE FallsBack(r.code)
  <2>1. r.call \in CallType /\ MessageFits(r.call, r.call.wire, r.call.message)
        /\ r.call.helper = h /\ r.call.legacy = FALSE
        /\ r.call.applied = 0 /\ ~r.call.unsure /\ ~r.call.ret
    BY <1>6, <1>7, <1>11 DEF SimplyDone
  <2>2. call' = [r.call EXCEPT !.step = "removeUser"]
    BY <1>9, <1>10, <1>11
  <2>3. /\ call' \in CallType /\ call'.step = "removeUser" /\ call'.helper = h
        /\ call'.legacy = FALSE /\ call'.applied = 0 /\ ~call'.unsure /\ ~call'.ret
        /\ call'.wire = r.call.wire /\ call'.message = r.call.message
    BY <2>1, <2>2 DEF CallType, Steps
  <2>4. MessageFits(call', call'.wire, call'.message)
    BY <2>1, <2>3, MessageCarries
  <2>5. StepsFit'
    BY <2>3 DEF StepsFit
  <2>6. CallFits'
    BY <2>3, <2>4, <2>5, StepFits
  <2>7. QED BY <1>4, <1>8, <1>10, <2>3, <2>6, KeepingFits
<1>12. CASE ~FallsBack(r.code)
  <2>1. call' = r.call
    BY <1>9, <1>10, <1>12
  <2>2. CallFits'
    BY <1>5, <1>6, <1>7, <2>1, SimpleFits
  <2>3. call'.step = "done"
    BY <1>7, <2>1 DEF SimplyDone
  <2>4. QED BY <1>4, <1>8, <1>10, <2>2, <2>3, KeepingFits
<1>13. QED BY <1>11, <1>12

LEMMA AddUserKeepsInv == ASSUME Inv, AddUser PROVE Inv'
<1>1. PICK c : c = New("addUser", {})
  OBVIOUS
<1>2. PICK r \in CommandSimple(c, "usersInfo", TRUE, world) :
         Becomes([r EXCEPT !.call = IF FallsBack(r.code) THEN [c EXCEPT !.step = "findUser"]
                                    ELSE IF r.code \in {"none", "denied"}
                                    THEN [c EXCEPT !.step = "createUser"] ELSE Fails(c)])
  BY <1>1 DEF AddUser
<1>3. Keeps
  BY DEF AddUser
<1>4. "addUser" \in Helper /\ {} \in SUBSET Option
  BY DEF Helper
<1>5. Ready(c) /\ c.helper = "addUser"
  BY <1>1, <1>4, NewIsReady
<1>6. c \in CallType /\ c.step = "done" /\ c.applied = 0 /\ ~c.unsure /\ c.legacy = FALSE /\ ~c.ret
  BY <1>1, <1>4, NewFields
<1>7. SimplyDone(c, r, world)
  BY <1>2, <1>5, SimpleTrip
<1>8. PICK x : x = IF FallsBack(r.code) THEN [c EXCEPT !.step = "findUser"]
                   ELSE IF r.code \in {"none", "denied"}
                   THEN [c EXCEPT !.step = "createUser"] ELSE Fails(c)
  OBVIOUS
<1>9. call' = x /\ world' = world /\ settings' = settings
  <2>1. r = [call |-> r.call, world |-> r.world, code |-> r.code] /\ r.world = world
    BY <1>7 DEF SimplyDone
  <2>2. Becomes([r EXCEPT !.call = x])
    BY <1>2, <1>8
  <2>3. QED BY <2>1, <2>2, CallReplaced
<1>10. ASSUME NEW s \in {"findUser", "createUser"}, call' = [c EXCEPT !.step = s] PROVE Inv'
  <2>1. /\ call' \in CallType /\ call'.step = s /\ call'.helper = "addUser"
        /\ call'.legacy = FALSE /\ call'.applied = 0 /\ ~call'.unsure /\ ~call'.ret
        /\ call'.wire = c.wire /\ call'.message = c.message
    BY <1>5, <1>6, <1>10 DEF CallType, Steps
  <2>2. MessageFits(call', call'.wire, call'.message)
    <3>1. MessageFits(c, call'.wire, call'.message)
      BY <1>5, <2>1 DEF Ready
    <3>2. QED BY <1>5, <1>6, <2>1, <3>1, MessageCarries
  <2>3. StepsFit'
    BY <2>1 DEF StepsFit
  <2>4. CallFits'
    BY <2>1, <2>2, <2>3, StepFits
  <2>5. QED BY <1>3, <1>9, <2>1, <2>4, WorldsFit, KeepingFits
<1>11. ASSUME call' = Fails(c) PROVE Inv'
  <2>1. Becomes([call |-> Fails(c), world |-> world])
    BY <1>9, <1>11 DEF Becomes
  <2>2. QED BY <1>3, <1>5, <2>1, RefusedFits
<1>12. \/ \E s \in {"findUser", "createUser"} : call' = [c EXCEPT !.step = s]
       \/ call' = Fails(c)
  BY <1>8, <1>9
<1>13. QED BY <1>10, <1>11, <1>12

LEMMA FindUserKeepsInv == ASSUME Inv, FindUser PROVE Inv'
<1>1. call.step = "findUser" /\ Keeps
  BY DEF FindUser
<1>2. Ready(call) /\ ~call.ret
  BY <1>1, CallIsReady
<1>3. call.helper = "addUser"
  BY <1>1 DEF Inv, CallFits, StepsFit
<1>4. CASE Becomes([call |-> Fails(call), world |-> world])
  BY <1>1, <1>2, <1>4, RefusedFits
<1>5. \A n \in Nat : \E f \in BOOLEAN : f = (n > 0)
  <2> SUFFICES ASSUME NEW n \in Nat PROVE \E f \in BOOLEAN : f = (n > 0)
    OBVIOUS
  <2>1. PICK f \in BOOLEAN : f <=> n > 0
    OBVIOUS
  <2>2. f = (n > 0)
    BY <2>1
  <2>3. QED BY <2>2
<1>6. ASSUME NEW n \in {world.users} \cup {k \in {world.seen} : settings.secondary},
             Becomes([call |-> [call EXCEPT !.step = "saveUser", !.found = n > 0], world |-> world])
      PROVE  Inv'
  <2>1. n \in Nat
    BY DEF Inv, TypeOK, World
  <2>2. PICK f \in BOOLEAN : f = (n > 0)
    BY <1>5, <2>1, Zenon
  <2>3. call' = [call EXCEPT !.step = "saveUser", !.found = f]
        /\ world' = world /\ settings' = settings
    BY <1>6, <2>2 DEF Becomes
  <2>4. call \in CallType /\ call.applied = 0 /\ ~call.unsure /\ call.legacy = FALSE
    BY <1>2 DEF Ready
  <2>5. /\ call' \in CallType /\ call'.step = "saveUser" /\ call'.helper = "addUser"
        /\ call'.legacy = FALSE /\ call'.applied = 0 /\ ~call'.unsure /\ ~call'.ret
        /\ call'.wire = call.wire /\ call'.message = call.message /\ call'.found = f
    BY <1>2, <1>3, <2>3, <2>4 DEF CallType, Steps
  <2>6. MessageFits(call', call'.wire, call'.message)
    <3>1. MessageFits(call, call'.wire, call'.message)
      BY <1>2, <2>5 DEF Ready
    <3>2. QED BY <1>3, <2>4, <2>5, <3>1, MessageCarries
  <2>7. StepsFit'
    BY <2>5 DEF StepsFit
  <2>8. CallFits'
    BY <2>5, <2>6, <2>7, StepFits
  <2>9. collection' = collection /\ doubt' = doubt
    BY <1>1 DEF Keeps
  <2>10. TypeOK' /\ CatalogueIsKept'
    BY <2>3, <2>5, <2>9 DEF Inv, TypeOK, CatalogueIsKept
  <2>11. UserWasLookedUp'
    BY <2>2, <2>3, <2>5 DEF UserWasLookedUp
  <2>12. QED BY <2>8, <2>10, <2>11 DEF Inv
<1>7. QED BY <1>4, <1>6 DEF FindUser

LEMMA ListCollectionsKeepsInv ==
    ASSUME Inv, NEW h \in {"hasCollection", "getNames"}, ListCollections(h) PROVE Inv'
<1>1. PICK c : c = New(h, {})
  OBVIOUS
<1>2. PICK r \in CommandSimple(c, "listCollections", TRUE, world) :
         Becomes([r EXCEPT !.call =
            IF FallsBack(r.code) THEN [r.call EXCEPT !.step = "findNamespaces"]
            ELSE IF r.call.ret
            THEN [r.call EXCEPT !.found = Here, !.ret = (h = "getNames" \/ Here)]
            ELSE r.call])
  BY <1>1 DEF ListCollections
<1>3. Keeps
  BY DEF ListCollections
<1>4. h \in Helper /\ h \notin Writers \cup {"aggregate"} /\ h \notin Confirming
  BY DEF Helper, Writers, Confirming
<1>5. Ready(c) /\ c.helper = h
  BY <1>1, <1>4, NewIsReady
<1>6. SimplyDone(c, r, world)
  BY <1>2, <1>5, SimpleTrip
<1>7. /\ r.call \in CallType /\ r.call.step = "done" /\ r.call.helper = h /\ r.call.legacy = FALSE
      /\ MessageFits(r.call, r.call.wire, r.call.message) /\ r.world = world
      /\ r = [call |-> r.call, world |-> r.world, code |-> r.code]
      /\ ~r.call.ret => r.call.error
      /\ FallsBack(r.code) => r.call.applied = 0 /\ ~r.call.unsure /\ ~r.call.ret
  BY <1>5, <1>6 DEF SimplyDone
<1>8. PICK b \in BOOLEAN : b <=> Here
  OBVIOUS
<1>9. PICK a \in BOOLEAN : a <=> h = "getNames" \/ Here
  OBVIOUS
<1>10. Here = b /\ (h = "getNames" \/ Here) = a
  BY <1>8, <1>9 DEF Here
<1>11. PICK x : x = IF FallsBack(r.code) THEN [r.call EXCEPT !.step = "findNamespaces"]
                    ELSE IF r.call.ret THEN [r.call EXCEPT !.found = b, !.ret = a]
                    ELSE r.call
  OBVIOUS
<1>12. Becomes([r EXCEPT !.call = x])
  BY <1>2, <1>10, <1>11, Zenon
<1>13. call' = x /\ world' = world /\ settings' = settings
  BY <1>7, <1>12, CallReplaced
<1>14. ASSUME CallFits', call'.step \in {"done", "findNamespaces"} PROVE Inv'
  BY <1>3, <1>13, <1>14, WorldsFit, KeepingFits
<1>15. CASE FallsBack(r.code)
  <2>1. call' = [r.call EXCEPT !.step = "findNamespaces"]
    BY <1>11, <1>13, <1>15
  <2>2. /\ call' \in CallType /\ call'.step = "findNamespaces" /\ call'.helper = h
        /\ call'.legacy = FALSE /\ call'.applied = 0 /\ ~call'.unsure /\ ~call'.ret
        /\ call'.wire = r.call.wire /\ call'.message = r.call.message
    BY <1>7, <1>15, <2>1 DEF CallType, Steps
  <2>3. MessageFits(call', call'.wire, call'.message)
    BY <1>7, <2>2, MessageCarries
  <2>4. StepsFit'
    BY <2>2 DEF StepsFit
  <2>5. CallFits'
    BY <2>2, <2>3, <2>4, StepFits
  <2>6. QED BY <1>14, <2>2, <2>5
<1>16. CASE ~FallsBack(r.code) /\ r.call.ret
  <2>1. call' = [r.call EXCEPT !.found = b, !.ret = a]
    BY <1>11, <1>13, <1>16
  <2>2. /\ call' \in CallType /\ call'.step = "done" /\ call'.helper = h /\ call'.ret = a
        /\ call'.wire = r.call.wire /\ call'.message = r.call.message /\ call'.legacy = FALSE
    BY <1>7, <2>1 DEF CallType
  <2>3. MessageFits(call', call'.wire, call'.message)
    BY <1>7, <2>2, MessageCarries
  <2>4. call'.ret \/ call'.error \/ call'.helper \in {"none", "hasCollection"}
    BY <1>9, <2>2
  <2>5. CallFits'
    BY <1>4, <2>2, <2>3, <2>4, ReaderFits
  <2>6. QED BY <1>14, <2>2, <2>5
<1>17. CASE ~FallsBack(r.code) /\ ~r.call.ret
  <2>1. call' = r.call
    BY <1>11, <1>13, <1>17
  <2>2. CallFits'
    BY <1>4, <1>5, <1>6, <2>1, SimpleFits
  <2>3. QED BY <1>7, <1>14, <2>1, <2>2
<1>18. QED BY <1>15, <1>16, <1>17

LEMMA FindNamespacesKeepsInv == ASSUME Inv, FindNamespaces PROVE Inv'
<1>1. call.step = "findNamespaces" /\ Keeps
  BY DEF FindNamespaces
<1>2. Ready(call) /\ ~call.ret
  BY <1>1, CallIsReady
<1>3. call.helper \in {"hasCollection", "getNames"}
  BY <1>1 DEF Inv, CallFits, StepsFit
<1>4. PICK c : c = [call EXCEPT !.legacy = TRUE]
  OBVIOUS
<1>5. /\ c \in CallType /\ c.helper = call.helper /\ c.legacy = TRUE
      /\ c.wire = call.wire /\ c.message = call.message
  BY <1>2, <1>4 DEF Ready, CallType
<1>6. MessageFits(c, c.wire, c.message)
  <2>1. MessageFits(call, c.wire, c.message)
    BY <1>2, <1>5 DEF Ready
  <2>2. QED BY <1>5, <2>1, MessageCarries
<1>7. \/ Becomes([call |-> Ends(c, FALSE, c.helper = "getNames"), world |-> world])
      \/ Becomes([call |-> [Ends(c, c.helper = "getNames" \/ Here, FALSE) EXCEPT !.found = Here],
                  world |-> world])
  BY <1>4 DEF FindNamespaces
<1>8. PICK a \in BOOLEAN : a <=> c.helper = "getNames"
  OBVIOUS
<1>9. PICK b \in BOOLEAN : b <=> Here
  OBVIOUS
<1>10. PICK d \in BOOLEAN : d <=> c.helper = "getNames" \/ Here
  OBVIOUS
<1>11. (c.helper = "getNames") = a /\ Here = b /\ (c.helper = "getNames" \/ Here) = d
  BY <1>8, <1>9, <1>10 DEF Here
<1>12. /\ world' = world /\ settings' = settings
       /\ \/ call' = [c EXCEPT !.step = "done", !.ret = FALSE, !.error = a]
          \/ call' = [[c EXCEPT !.step = "done", !.ret = d, !.error = FALSE] EXCEPT !.found = b]
  <2>1. \/ Becomes([call |-> Ends(c, FALSE, a), world |-> world])
        \/ Becomes([call |-> [Ends(c, d, FALSE) EXCEPT !.found = b], world |-> world])
    BY <1>7, <1>11, Zenon
  <2>2. QED BY <2>1 DEF Becomes, Ends
<1>13. /\ call' \in CallType /\ call'.step = "done" /\ call'.helper = c.helper
       /\ call'.legacy = TRUE /\ call'.wire = c.wire /\ call'.message = c.message
       /\ call'.ret \/ call'.error \/ call'.helper \in {"none", "hasCollection"}
  <2>1. CASE call' = [c EXCEPT !.step = "done", !.ret = FALSE, !.error = a]
    BY <1>3, <1>5, <1>8, <2>1 DEF CallType, Steps
  <2>2. CASE call' = [[c EXCEPT !.step = "done", !.ret = d, !.error = FALSE] EXCEPT !.found = b]
    <3>1. PICK e : e = [c EXCEPT !.step = "done", !.ret = d, !.error = FALSE]
      OBVIOUS
    <3>2. /\ e \in CallType /\ e.step = "done" /\ e.helper = c.helper /\ e.ret = d
          /\ e.legacy = TRUE /\ e.wire = c.wire /\ e.message = c.message
      BY <1>5, <3>1 DEF CallType, Steps
    <3>3. call' = [e EXCEPT !.found = b]
      BY <2>2, <3>1
    <3>4. /\ call' \in CallType /\ call'.step = "done" /\ call'.helper = c.helper /\ call'.ret = d
          /\ call'.legacy = TRUE /\ call'.wire = c.wire /\ call'.message = c.message
      BY <3>2, <3>3 DEF CallType
    <3>5. QED BY <1>3, <1>5, <1>10, <3>4
  <2>3. QED BY <1>12, <2>1, <2>2
<1>14. MessageFits(call', call'.wire, call'.message)
  BY <1>5, <1>6, <1>13, MessageCarries
<1>15. call'.helper \notin Writers \cup {"aggregate"}
  BY <1>3, <1>5, <1>13 DEF Writers
<1>16. CallFits'
  BY <1>13, <1>14, <1>15, ReaderFits
<1>17. QED BY <1>1, <1>12, <1>13, <1>16, WorldsFit, KeepingFits

LEMMA FindIndexesKeepsInv == ASSUME Inv, FindIndexes PROVE Inv'
<1>1. PICK c : c = New("findIndexes", {})
  OBVIOUS
<1>2. PICK r \in CommandSimple(c, "listIndexes", Here, world) :
         Becomes([r EXCEPT !.call =
            IF FallsBack(r.code) THEN [Ends(r.call, TRUE, FALSE) EXCEPT !.legacy = TRUE]
            ELSE IF r.code = "other" /\ ~Here THEN Ends(r.call, TRUE, FALSE)
            ELSE r.call])
  BY <1>1 DEF FindIndexes
<1>3. Keeps
  BY DEF FindIndexes
<1>4. "findIndexes" \in Helper /\ {} \in SUBSET Option
  BY DEF Helper
<1>5. Ready(c) /\ c.helper = "findIndexes"
  BY <1>1, <1>4, NewIsReady
<1>6. SimplyDone(c, r, world)
  BY <1>2, <1>5, SimpleTrip
<1>7. PICK x : x = IF FallsBack(r.code) THEN [Ends(r.call, TRUE, FALSE) EXCEPT !.legacy = TRUE]
                   ELSE IF r.code = "other" /\ ~Here THEN Ends(r.call, TRUE, FALSE)
                   ELSE r.call
  OBVIOUS
<1>8. /\ r.call \in CallType /\ r.call.step = "done" /\ r.call.helper = "findIndexes"
      /\ MessageFits(r.call, r.call.wire, r.call.message) /\ r.world = world
      /\ r = [call |-> r.call, world |-> r.world, code |-> r.code]
      /\ ~r.call.ret => r.call.error
  BY <1>5, <1>6 DEF SimplyDone
<1>9. Becomes([r EXCEPT !.call = x])
  BY <1>2, <1>7, Zenon
<1>10. call' = x /\ world' = world /\ settings' = settings
  BY <1>8, <1>9, CallReplaced
<1>11. PICK e : e = Ends(r.call, TRUE, FALSE)
  OBVIOUS
<1>12. /\ e \in CallType /\ e.step = "done" /\ e.helper = "findIndexes" /\ e.ret = TRUE
       /\ e.wire = r.call.wire /\ e.message = r.call.message /\ e.legacy = r.call.legacy
  BY <1>8, <1>11 DEF Ends, CallType, Steps
<1>13. /\ call' \in CallType /\ call'.step = "done" /\ call'.helper = "findIndexes"
       /\ call'.ret \/ call'.error
       /\ call'.wire = r.call.wire /\ call'.message = r.call.message
       /\ r.call.legacy => call'.legacy
  <2>1. call' = [e EXCEPT !.legacy = TRUE] \/ call' = e \/ call' = r.call
    BY <1>7, <1>10, <1>11
  <2>2. CASE call' = [e EXCEPT !.legacy = TRUE]
    BY <1>12, <2>2 DEF CallType
  <2>3. QED BY <1>8, <1>12, <2>1, <2>2
<1>14. MessageFits(call', call'.wire, call'.message)
  BY <1>8, <1>13, MessageCarries
<1>15. call'.helper \notin Writers \cup {"aggregate"}
  BY <1>13 DEF Writers
<1>16. CallFits'
  BY <1>13, <1>14, <1>15, ReaderFits
<1>17. QED BY <1>3, <1>10, <1>13, <1>16, WorldsFit, KeepingFits

\* A server does not do what it would refuse.
LEMMA RefusedIsNotDone ==
    ASSUME NEW command, NEW wire, NEW m, NEW accepts,
           NEW o \in Outcomes(command, wire, m, accepts), o.applied
    PROVE  accepts
<1> DEFINE End(applied, ok, code, wcError) ==
               [applied |-> applied, ok |-> ok, code |-> code, wcError |-> wcError]
           known == wire >= Since(command)
<1>1. SUFFICES ASSUME ~accepts PROVE FALSE
  OBVIOUS
<1>2. \E code : o = End(FALSE, FALSE, code, FALSE)
  <2> HIDE DEF known
  <2>1. o \in {End(FALSE, FALSE, code, FALSE) :
                 code \in {"network"} \cup IF known THEN {"denied", "other"} ELSE {"commandNotFound"}}
             \cup (IF known /\ accepts
                   THEN {End(TRUE, FALSE, "network", FALSE), End(TRUE, TRUE, "none", FALSE)}
                        \cup {End(TRUE, TRUE, "none", TRUE) :
                                c \in m.wc \ {x \in {"own"} : settings.handle = "unacknowledged"}}
                   ELSE {})
    BY Zenon DEF Outcomes, known
  <2>2. o \in {End(FALSE, FALSE, code, FALSE) :
                 code \in {"network"} \cup IF known THEN {"denied", "other"} ELSE {"commandNotFound"}}
    BY <1>1, <2>1, Zenon
  <2>3. QED BY <2>2
<1>3. QED BY <1>2

\* A write of a system collection, after a command that the server did not know.
LEMMA LegacyFits ==
    ASSUME Inv, call.step # "done", call.helper \notin Confirming \/ call.helper = "createIndex",
           NEW accepts, NEW effect, NEW r \in LegacyWrite(call, accepts, effect), Becomes(r)
    PROVE  /\ CallFits' /\ call'.step = "done" /\ settings' = settings
           /\ world' = world \/ (accepts /\ world' = effect)
<1>1. Ready(call) /\ ~call.ret
  BY CallIsReady
<1>2. PICK d : d = [call EXCEPT !.legacy = TRUE]
  OBVIOUS
<1>3. /\ d \in CallType /\ d.helper = call.helper /\ d.legacy = TRUE /\ d.applied = 0 /\ ~d.unsure
      /\ d.wire = call.wire /\ d.message = call.message
  BY <1>1, <1>2 DEF Ready, CallType
<1>4. MessageFits(d, d.wire, d.message)
  <2>1. MessageFits(call, d.wire, d.message)
    BY <1>1, <1>3 DEF Ready
  <2>2. QED BY <1>3, <2>1, MessageCarries
<1>5. PICK own : own = {o \in {"own"} : settings.client = "own"}
  OBVIOUS
<1>6. PICK m : m = [Plain EXCEPT !.wc = own]
  OBVIOUS
<1>7. m = [wc |-> own, rc |-> {}, collation |-> FALSE, slaveOk |-> FALSE] /\ own \in SUBSET {"own"}
  BY <1>5, <1>6 DEF Plain
<1>8. \A wire : MessageFits(d, wire, m)
  <2>1. Cardinality(m.rc) <= 1 /\ Cardinality(m.wc) <= 1
    BY <1>7, FS_EmptySet, AtMostOne
  <2>2. m \in Message /\ ~m.collation /\ m.rc = {}
    BY <1>7 DEF Message
  <2>3. QED BY <1>3, <2>1, <2>2 DEF MessageFits
<1>9. CASE r = [call |-> Fails(d), world |-> world]
  <2>1. call' = Ends(d, FALSE, TRUE) /\ world' = world /\ settings' = settings
    BY <1>9 DEF Becomes, Fails
  <2>2. /\ call' \in CallType /\ call'.step = "done" /\ call'.applied = 0 /\ ~call'.ret /\ call'.error
        /\ call'.wire = d.wire /\ call'.message = d.message
        /\ call'.helper = d.helper /\ call'.legacy = d.legacy
    BY <1>3, <2>1 DEF Ends, CallType, Steps
  <2>3. MessageFits(call', call'.wire, call'.message)
    BY <1>4, <2>2, MessageCarries
  <2>4. CallFits'
    BY <2>2, <2>3, FailureFits
  <2>5. QED BY <2>1, <2>2, <2>4
<1>10. ASSUME NEW wire \in Wire, NEW o \in Outcomes("insert", wire, m, accepts),
              NEW b \in BOOLEAN,
              b = (IF settings.client # "unacknowledged" THEN o.ok /\ ~o.wcError
                   ELSE o.applied \/ o.code # "network"),
              r = [call |-> Returns(Sent(d, wire, m, o), b), world |-> After(o, effect)]
       PROVE  /\ CallFits' /\ call'.step = "done" /\ settings' = settings
              /\ world' = world \/ (accepts /\ world' = effect)
  <2>1. IsOutcome(o)
    BY OutcomesAreSuch
  <2>2. call' = Returns(Sent(d, wire, m, o), b) /\ world' = After(o, effect) /\ settings' = settings
    BY <1>10 DEF Becomes
  <2>3. Truly(d, wire, m, o, b)
    BY <1>3, <1>10, <2>1 DEF Truly, IsOutcome
  <2>4. CallFits'
    BY <1>3, <1>8, <2>1, <2>2, <2>3, TripFits
  <2>5. call'.step = "done"
    <3>1. PICK e : e = Sent(d, wire, m, o)
      OBVIOUS
    <3>2. m \in Message
      BY <1>8 DEF MessageFits
    <3>3. e \in CallType
      BY <1>3, <2>1, <3>1, <3>2, SentFields
    <3>4. QED BY <2>2, <3>1, <3>3 DEF Returns, Ends, CallType
  <2>6. world' = world \/ (accepts /\ world' = effect)
    <3>1. CASE o.applied
      BY <2>2, <3>1, RefusedIsNotDone DEF After
    <3>2. CASE ~o.applied
      BY <2>2, <3>2 DEF After
    <3>3. QED BY <3>1, <3>2
  <2>7. QED BY <2>2, <2>4, <2>5, <2>6
<1>11. \/ r = [call |-> Fails(d), world |-> world]
       \/ \E wire \in Wire : \E trip \in {wire} \X Outcomes("insert", wire, m, accepts) :
             r = [call |-> Returns(Sent(d, trip[1], m, trip[2]),
                                   IF settings.client # "unacknowledged"
                                   THEN trip[2].ok /\ ~trip[2].wcError
                                   ELSE trip[2].applied \/ trip[2].code # "network"),
                  world |-> After(trip[2], effect)]
  BY <1>2, <1>5, <1>6 DEF LegacyWrite
<1>12. ASSUME NEW wire \in Wire, NEW trip \in {wire} \X Outcomes("insert", wire, m, accepts),
              r = [call |-> Returns(Sent(d, trip[1], m, trip[2]),
                                    IF settings.client # "unacknowledged"
                                    THEN trip[2].ok /\ ~trip[2].wcError
                                    ELSE trip[2].applied \/ trip[2].code # "network"),
                   world |-> After(trip[2], effect)]
       PROVE  /\ CallFits' /\ call'.step = "done" /\ settings' = settings
              /\ world' = world \/ (accepts /\ world' = effect)
  <2>1. PICK o \in Outcomes("insert", wire, m, accepts) : trip[1] = wire /\ trip[2] = o
    OBVIOUS
  <2>2. IsOutcome(o)
    BY OutcomesAreSuch
  <2>3. PICK b \in BOOLEAN : b <=> IF settings.client # "unacknowledged" THEN o.ok /\ ~o.wcError
                                   ELSE o.applied \/ o.code # "network"
    OBVIOUS
  <2>4. b = (IF settings.client # "unacknowledged" THEN o.ok /\ ~o.wcError
             ELSE o.applied \/ o.code # "network")
    BY <2>3
  <2>5. r = [call |-> Returns(Sent(d, wire, m, o), b), world |-> After(o, effect)]
    BY <1>12, <2>1, <2>4
  <2>6. QED BY <1>10, <2>4, <2>5
<1>13. QED BY <1>9, <1>11, <1>12

LEMMA LegacyKeepsInv ==
    ASSUME Inv, call.step # "done", call.helper \notin Confirming \/ call.helper = "createIndex",
           NEW accepts, NEW effect, accepts => WorldFits(effect),
           NEW r \in LegacyWrite(call, accepts, effect), Becomes(r), Keeps
    PROVE  Inv'
<1>1. /\ CallFits' /\ call'.step = "done" /\ settings' = settings
      /\ world' = world \/ (accepts /\ world' = effect)
  BY LegacyFits
<1>2. WorldFits(world')
  BY <1>1, WorldsFit
<1>3. QED BY <1>1, <1>2, KeepingFits

LEMMA InsertIndexKeepsInv == ASSUME Inv, InsertIndex PROVE Inv'
<1>1. call.step = "insertIndex" /\ Keeps
  BY DEF InsertIndex
<1>2. Ready(call) /\ ~call.ret
  BY <1>1, CallIsReady
<1>3. call.helper = "createIndex"
  BY <1>1 DEF Inv, CallFits, StepsFit
<1>4. CASE Becomes([call |-> [Ends(call, FALSE, FALSE) EXCEPT !.legacy = TRUE], world |-> world])
  <2>1. PICK e : e = Ends(call, FALSE, FALSE)
    OBVIOUS
  <2>2. /\ e \in CallType /\ e.step = "done" /\ e.applied = 0 /\ ~e.ret /\ e.helper = "createIndex"
        /\ e.wire = call.wire /\ e.message = call.message
    BY <1>2, <1>3, <2>1 DEF Ready, Ends, CallType, Steps
  <2>3. call' = [e EXCEPT !.legacy = TRUE] /\ world' = world /\ settings' = settings
    BY <1>4, <2>1 DEF Becomes
  <2>4. /\ call' \in CallType /\ call'.step = "done" /\ call'.applied = 0 /\ ~call'.ret
        /\ call'.helper = "createIndex" /\ call'.legacy = TRUE
        /\ call'.wire = call.wire /\ call'.message = call.message
    BY <2>2, <2>3 DEF CallType
  <2>5. MessageFits(call', call'.wire, call'.message)
    <3>1. MessageFits(call, call'.wire, call'.message)
      BY <1>2, <2>4 DEF Ready
    <3>2. QED BY <1>3, <2>4, <3>1, MessageCarries
  <2>6. CallFits'
    BY <2>4, <2>5, FailureFits
  <2>7. QED BY <1>1, <2>3, <2>4, <2>6, WorldsFit, KeepingFits
<1>5. ASSUME NEW r \in LegacyWrite(call, TRUE, world), Becomes(r) PROVE Inv'
  BY <1>1, <1>3, <1>5, WorldsFit, LegacyKeepsInv
<1>6. QED BY <1>4, <1>5 DEF InsertIndex

LEMMA LegacyRemoveKeepsInv == ASSUME Inv, LegacyRemove PROVE Inv'
<1>1. call.step = "removeUser" /\ Keeps
  BY DEF LegacyRemove
<1>2. call.helper \in {"removeUser", "removeAllUsers"}
  BY <1>1 DEF Inv, CallFits, StepsFit
<1>3. PICK k : k = IF call.helper = "removeUser" /\ world.users > 0 THEN world.users - 1 ELSE 0
  OBVIOUS
<1>4. PICK r \in LegacyWrite(call, TRUE, [world EXCEPT !.users = k]) : Becomes(r)
  BY <1>3 DEF LegacyRemove
<1>5. world.users \in 0 .. MaxUsers /\ MaxUsers \in Nat
  BY CommandsAssumption DEF Inv, TypeOK, World
<1>6. k \in 0 .. MaxUsers /\ k <= world.users
  BY <1>3, <1>5
<1>7. WorldFits([world EXCEPT !.users = k])
  BY <1>6, WorldsFit
<1>8. call.helper \notin Confirming
  BY <1>2 DEF Confirming
<1>9. QED BY <1>1, <1>4, <1>7, <1>8, LegacyKeepsInv

LEMMA SaveUserKeepsInv == ASSUME Inv, SaveUser PROVE Inv'
<1>1. call.step = "saveUser" /\ Keeps
  BY DEF SaveUser
<1>2. call.helper = "addUser"
  BY <1>1 DEF Inv, CallFits, StepsFit
<1>3. PICK k : k = IF call.found /\ world.users > 0 THEN world.users ELSE world.users + 1
  OBVIOUS
<1>4. PICK r \in LegacyWrite(call, call.found \/ world.users < MaxUsers,
                             [world EXCEPT !.users = k]) : Becomes(r)
  BY <1>3 DEF SaveUser
<1>5. world.users \in 0 .. MaxUsers /\ MaxUsers \in Nat \ {0}
  BY CommandsAssumption DEF Inv, TypeOK, World
<1>6. ~settings.secondary => (call.found <=> world.users > 0)
  BY <1>1 DEF Inv, UserWasLookedUp
<1>7. ASSUME call.found \/ world.users < MaxUsers PROVE WorldFits([world EXCEPT !.users = k])
  <2>1. k \in 0 .. MaxUsers
    BY <1>3, <1>5, <1>7
  <2>2. k <= 1 \/ k <= world.users \/ settings.secondary
    BY <1>3, <1>5, <1>6
  <2>3. QED BY <2>1, <2>2, WorldsFit
<1>8. call.helper \notin Confirming
  BY <1>2 DEF Confirming
<1>9. QED BY <1>1, <1>4, <1>7, <1>8, LegacyKeepsInv

\* A command that one message was made for, and the answer that the helper makes of its end.
LEMMA AnswerKeepsInv ==
    ASSUME Inv, NEW h \in Helper, NEW opts \in SUBSET Option, NEW c, c = New(h, opts),
           NEW wire \in Wire, NEW m, MessageFits(c, wire, m), NEW o, IsOutcome(o),
           NEW b, Truly(c, wire, m, o, b),
           Becomes([call |-> Returns(Sent(c, wire, m, o), b), world |-> world]), Keeps
    PROVE  Inv'
<1>1. c \in CallType /\ c.applied = 0 /\ ~c.unsure
  BY NewFields
<1>2. call' = Returns(Sent(c, wire, m, o), b) /\ world' = world /\ settings' = settings
  BY DEF Becomes
<1>3. CallFits'
  BY <1>1, <1>2, TripFits
<1>4. call'.step = "done"
  <2>1. PICK e : e = Sent(c, wire, m, o)
    OBVIOUS
  <2>2. m \in Message
    BY DEF MessageFits
  <2>3. e \in CallType
    BY <1>1, <2>1, <2>2, SentFields
  <2>4. QED BY <1>2, <2>1, <2>3 DEF Returns, Ends, CallType, Truly
<1>5. QED BY <1>2, <1>3, <1>4, WorldsFit, KeepingFits

LEMMA CreateIndexKeepsInv == ASSUME Inv, CreateIndex PROVE Inv'
<1>1. PICK opts \in Options, wire \in Wire, reply \in BOOLEAN :
         LET c == New("createIndex", opts)
             m == AppendOpts(Plain, opts, wire)
         IN \/ Becomes([call |-> Fails(c), world |-> world])
            \/ /\ "collation" \in opts => wire >= CollationVersion
               /\ \E o \in Outcomes("createIndexes", wire, m, Here) :
                     Becomes([call |-> IF FallsBack(o.code)
                                       THEN [Sent(c, wire, m, o) EXCEPT !.step = "insertIndex"]
                                       ELSE Returns(Sent(c, wire, m, o), o.ok /\ ~(reply /\ o.wcError)),
                              world |-> world])
  BY DEF CreateIndex
<1>2. opts \in SUBSET Option /\ wire \in Nat /\ Keeps /\ "createIndex" \in Helper
  BY CommandsAssumption DEF CreateIndex, Helper
<1>3. PICK c : c = New("createIndex", opts)
  OBVIOUS
<1>4. Ready(c) /\ c.helper = "createIndex" /\ c.opts = opts
  BY <1>2, <1>3, NewIsReady
<1>5. PICK m : m = AppendOpts(Plain, opts, wire)
  OBVIOUS
<1>6. /\ m \in Message /\ (m.collation <=> "collation" \in opts)
      /\ m.rc = {o \in {"given"} : "readConcern" \in opts}
      /\ m.wc = {o \in {"given"} : "writeConcern" \in opts /\ wire >= CmdWriteConcernVersion}
  BY <1>2, <1>5, AppendedFields
<1>7. CASE Becomes([call |-> Fails(c), world |-> world])
  BY <1>2, <1>4, <1>7, RefusedFits
<1>8. ASSUME "collation" \in opts => wire >= CollationVersion,
             NEW o \in Outcomes("createIndexes", wire, m, Here),
             Becomes([call |-> IF FallsBack(o.code)
                               THEN [Sent(c, wire, m, o) EXCEPT !.step = "insertIndex"]
                               ELSE Returns(Sent(c, wire, m, o), o.ok /\ ~(reply /\ o.wcError)),
                      world |-> world])
      PROVE  Inv'
  <2>1. IsOutcome(o)
    BY OutcomesAreSuch
  <2>2. Cardinality(m.rc) <= 1 /\ Cardinality(m.wc) <= 1
    <3>1. m.rc \in SUBSET {"given"} /\ m.wc \in SUBSET {"given"}
      BY <1>6
    <3>2. QED BY <3>1, AtMostOne
  <2>3. MessageFits(c, wire, m)
    BY <1>4, <1>6, <1>8, <2>2 DEF MessageFits
  <2>4. CASE ~FallsBack(o.code)
    <3>1. PICK b \in BOOLEAN : b <=> o.ok /\ ~(reply /\ o.wcError)
      OBVIOUS
    <3>2. (o.ok /\ ~(reply /\ o.wcError)) = b
      BY <2>1, <3>1 DEF IsOutcome
    <3>3. Becomes([call |-> Returns(Sent(c, wire, m, o), b), world |-> world])
      BY <1>8, <2>4, <3>2, Zenon
    <3>4. HeedlessOf(c)
      BY <1>4 DEF HeedlessOf
    <3>5. Truly(c, wire, m, o, b)
      BY <1>4, <2>1, <3>1, <3>4 DEF Truly, IsOutcome
    <3>6. QED BY <1>2, <1>3, <2>1, <2>3, <3>3, <3>5, AnswerKeepsInv
  <2>5. CASE FallsBack(o.code)
    <3>1. PICK d : d = Sent(c, wire, m, o)
      OBVIOUS
    <3>2. call' = [d EXCEPT !.step = "insertIndex"] /\ world' = world /\ settings' = settings
      BY <1>8, <2>5, <3>1 DEF Becomes
    <3>3. ~o.applied /\ ~o.ok /\ ~o.wcError /\ o.code # "network"
      BY <2>1, <2>5 DEF IsOutcome, FallsBack
    <3>4. c \in CallType /\ c.applied = 0 /\ ~c.unsure /\ c.legacy = FALSE /\ ~c.ret
      BY <1>2, <1>3, NewFields
    <3>5. /\ d \in CallType /\ d.helper = c.helper /\ d.wire = wire /\ d.message = m
          /\ d.applied = 0 /\ ~d.unsure /\ d.legacy = FALSE /\ ~d.ret
      BY <1>6, <2>1, <3>1, <3>3, <3>4, SentFields
    <3>6. /\ call' \in CallType /\ call'.step = "insertIndex" /\ call'.helper = "createIndex"
          /\ call'.wire = wire /\ call'.message = m
          /\ call'.applied = 0 /\ ~call'.unsure /\ call'.legacy = FALSE /\ ~call'.ret
      BY <1>4, <3>2, <3>5 DEF CallType, Steps
    <3>7. MessageFits(call', call'.wire, call'.message)
      BY <1>4, <2>3, <3>4, <3>6, MessageCarries
    <3>8. StepsFit'
      BY <3>6 DEF StepsFit
    <3>9. CallFits'
      BY <3>6, <3>7, <3>8, StepFits
    <3>10. QED BY <1>2, <3>2, <3>6, <3>9, WorldsFit, KeepingFits
  <2>6. QED BY <2>4, <2>5
<1>9. QED
  <2>1. \/ Becomes([call |-> Fails(c), world |-> world])
        \/ /\ "collation" \in opts => wire >= CollationVersion
           /\ \E o \in Outcomes("createIndexes", wire, m, Here) :
                 Becomes([call |-> IF FallsBack(o.code)
                                   THEN [Sent(c, wire, m, o) EXCEPT !.step = "insertIndex"]
                                   ELSE Returns(Sent(c, wire, m, o), o.ok /\ ~(reply /\ o.wcError)),
                          world |-> world])
    BY <1>1, <1>3, <1>5, Zenon
  <2>2. QED BY <1>7, <1>8, <2>1

LEMMA CreateIndexCrashesKeepsInv == ASSUME Inv, CreateIndexCrashes PROVE Inv'
<1>1. PICK c : c = New("createIndex", {})
  OBVIOUS
<1>2. /\ call' = [c EXCEPT !.step = "crashed"]
      /\ world' = world /\ settings' = settings /\ Keeps
  BY <1>1 DEF CreateIndexCrashes, Keeps
<1>3. "createIndex" \in Helper /\ {} \in SUBSET Option
  BY DEF Helper
<1>4. /\ c \in CallType /\ c.helper = "createIndex" /\ c.applied = 0 /\ ~c.unsure
      /\ c.legacy = FALSE /\ ~c.ret /\ c.message = Plain
  BY <1>1, <1>3, NewFields
<1>5. /\ call' \in CallType /\ call'.step = "crashed" /\ call'.helper = "createIndex"
      /\ call'.applied = 0 /\ ~call'.unsure /\ call'.legacy = FALSE /\ ~call'.ret
      /\ call'.message = Plain
  BY <1>2, <1>4 DEF CallType, Steps
<1>6. MessageFits(call', call'.wire, call'.message)
  BY <1>5, PlainFits
<1>7. StepsFit'
  BY <1>5 DEF StepsFit
<1>8. CallFits'
  BY <1>5, <1>6, <1>7, StepFits
<1>9. QED BY <1>2, <1>5, <1>8, WorldsFit, KeepingFits

LEMMA FindAndModifyKeepsInv == ASSUME Inv, FindAndModify PROVE Inv'
<1>1. PICK opts \in Options, wire \in Wire :
         LET c == New("findAndModify", opts)
             m == [AppendOpts(Plain, opts, wire) EXCEPT
                     !.wc = @ \cup {o \in {"own"} : /\ wire >= FamWriteConcernVersion
                                                    /\ settings.handle # "unacknowledged"}]
         IN \/ Becomes([call |-> Fails(c), world |-> world])
            \/ /\ ~Refused(opts, wire)
               /\ \E o \in Outcomes("findAndModify", wire, m, TRUE) :
                     Becomes([call |-> Returns(Sent(c, wire, m, o), o.ok /\ ~o.wcError),
                              world |-> world])
  BY Zenon DEF FindAndModify
<1>2. opts \in SUBSET Option /\ wire \in Nat /\ Keeps /\ "findAndModify" \in Helper
  BY CommandsAssumption DEF FindAndModify, Helper
<1>3. PICK c : c = New("findAndModify", opts)
  OBVIOUS
<1>4. Ready(c) /\ c.helper = "findAndModify" /\ c.opts = opts
  BY <1>2, <1>3, NewIsReady
<1>5. PICK a : a = AppendOpts(Plain, opts, wire)
  OBVIOUS
<1>6. /\ a \in Message /\ (a.collation <=> "collation" \in opts)
      /\ a.rc = {o \in {"given"} : "readConcern" \in opts}
      /\ a.wc = {o \in {"given"} : "writeConcern" \in opts /\ wire >= CmdWriteConcernVersion}
  BY <1>2, <1>5, AppendedFields
<1>7. PICK own : own = {o \in {"own"} : /\ wire >= FamWriteConcernVersion
                                        /\ settings.handle # "unacknowledged"}
  OBVIOUS
<1>8. PICK m : m = [a EXCEPT !.wc = a.wc \cup own]
  OBVIOUS
<1>9. m \in Message /\ m.wc = a.wc \cup own /\ m.rc = a.rc /\ m.collation = a.collation
  BY <1>6, <1>7, <1>8 DEF Message
<1>10. CASE Becomes([call |-> Fails(c), world |-> world])
  BY <1>2, <1>4, <1>10, RefusedFits
<1>11. ASSUME ~Refused(opts, wire), NEW o \in Outcomes("findAndModify", wire, m, TRUE),
              Becomes([call |-> Returns(Sent(c, wire, m, o), o.ok /\ ~o.wcError), world |-> world])
       PROVE  Inv'
  <2>1. IsOutcome(o)
    BY OutcomesAreSuch
  <2>2. Cardinality(m.rc) <= 1
    <3>1. m.rc \in SUBSET {"given"}
      BY <1>6, <1>9
    <3>2. QED BY <3>1, AtMostOne
  <2>3. MessageFits(c, wire, m)
    <3>1. m.collation => wire >= CollationVersion
      BY <1>2, <1>6, <1>9, <1>11 DEF Refused, CollationVersion
    <3>2. m.rc # {} => wire >= ReadConcernVersion
      BY <1>2, <1>6, <1>9, <1>11 DEF Refused, ReadConcernVersion
    <3>3. m.wc # {} => wire >= FamWriteConcernVersion
      BY <1>2, <1>6, <1>7, <1>9 DEF CmdWriteConcernVersion, FamWriteConcernVersion
    <3>4. QED BY <1>4, <1>9, <2>2, <3>1, <3>2, <3>3 DEF MessageFits
  <2>4. PICK b \in BOOLEAN : b <=> o.ok /\ ~o.wcError
    OBVIOUS
  <2>5. (o.ok /\ ~o.wcError) = b
    BY <2>1, <2>4 DEF IsOutcome
  <2>6. Becomes([call |-> Returns(Sent(c, wire, m, o), b), world |-> world])
    BY <1>11, <2>5, Zenon
  <2>7. wire >= CmdWriteConcernVersion => WantedOf(opts) \subseteq m.wc
    BY <1>2, <1>6, <1>7, <1>9 DEF WantedOf, CmdWriteConcernVersion, FamWriteConcernVersion
  <2>8. Truly(c, wire, m, o, b)
    BY <1>4, <2>1, <2>4, <2>7 DEF Truly, IsOutcome
  <2>9. QED BY <1>2, <1>3, <2>1, <2>3, <2>6, <2>8, AnswerKeepsInv
<1>12. QED
  <2>1. m = [AppendOpts(Plain, opts, wire) EXCEPT
               !.wc = @ \cup {o \in {"own"} : /\ wire >= FamWriteConcernVersion
                                              /\ settings.handle # "unacknowledged"}]
    BY <1>5, <1>7, <1>8, Zenon
  <2>2. \/ Becomes([call |-> Fails(c), world |-> world])
        \/ /\ ~Refused(opts, wire)
           /\ \E o \in Outcomes("findAndModify", wire, m, TRUE) :
                 Becomes([call |-> Returns(Sent(c, wire, m, o), o.ok /\ ~o.wcError),
                          world |-> world])
    BY <1>1, <1>3, <2>1, Zenon
  <2>3. QED BY <1>10, <1>11, <2>2

LEMMA AggregateKeepsInv == ASSUME Inv, Aggregate PROVE Inv'
<1>1. PICK opts \in Options, wire \in Wire :
         LET c == New("aggregate", opts)
             d == AppendOpts(Plain, opts, wire)
             inherits == d.wc = {} /\ "document" \in opts
             m == [d EXCEPT !.wc = @ \cup {o \in {"own"} : /\ inherits /\ settings.handle # "default"
                                                           /\ wire >= CmdWriteConcernVersion},
                            !.rc = @ \cup {o \in {"own"} : @ = {} /\ settings.readConcern}]
         IN \/ Becomes([call |-> Fails(c), world |-> world])
            \/ /\ ~Refused(opts, wire)
               /\ \E o \in Outcomes("aggregate", wire, m, TRUE) :
                     Becomes([call |-> Returns(Sent(c, wire, m, o), o.ok /\ ~(inherits /\ o.wcError)),
                              world |-> world])
  BY Zenon DEF Aggregate
<1>2. opts \in SUBSET Option /\ wire \in Nat /\ Keeps /\ "aggregate" \in Helper
  BY CommandsAssumption DEF Aggregate, Helper
<1>3. PICK c : c = New("aggregate", opts)
  OBVIOUS
<1>4. Ready(c) /\ c.helper = "aggregate" /\ c.opts = opts
  BY <1>2, <1>3, NewIsReady
<1>5. PICK a : a = AppendOpts(Plain, opts, wire)
  OBVIOUS
<1>6. /\ a \in Message /\ (a.collation <=> "collation" \in opts)
      /\ a.rc = {o \in {"given"} : "readConcern" \in opts}
      /\ a.wc = {o \in {"given"} : "writeConcern" \in opts /\ wire >= CmdWriteConcernVersion}
  BY <1>2, <1>5, AppendedFields
<1>7. PICK inherits \in BOOLEAN : inherits <=> a.wc = {} /\ "document" \in opts
  OBVIOUS
<1>8. PICK own : own = {o \in {"own"} : /\ a.wc = {} /\ "document" \in opts
                                        /\ settings.handle # "default"
                                        /\ wire >= CmdWriteConcernVersion}
  OBVIOUS
<1>9. PICK rown : rown = {o \in {"own"} : a.rc = {} /\ settings.readConcern}
  OBVIOUS
<1>10. PICK m : m = [a EXCEPT !.wc = a.wc \cup own, !.rc = a.rc \cup rown]
  OBVIOUS
<1>11. own \in SUBSET {"own"} /\ rown \in SUBSET {"own"}
  BY <1>8, <1>9
<1>12. m \in Message /\ m.wc = a.wc \cup own /\ m.rc = a.rc \cup rown /\ m.collation = a.collation
  BY <1>6, <1>10, <1>11 DEF Message
<1>13. CASE Becomes([call |-> Fails(c), world |-> world])
  BY <1>2, <1>4, <1>13, RefusedFits
<1>14. ASSUME ~Refused(opts, wire), NEW o \in Outcomes("aggregate", wire, m, TRUE),
              Becomes([call |-> Returns(Sent(c, wire, m, o),
                                        o.ok /\ ~((a.wc = {} /\ "document" \in opts) /\ o.wcError)),
                       world |-> world])
       PROVE  Inv'
  <2>1. IsOutcome(o)
    BY OutcomesAreSuch
  <2>2. Cardinality(m.rc) <= 1
    <3>1. m.rc \in SUBSET {"given"} \/ m.rc \in SUBSET {"own"}
      BY <1>6, <1>9, <1>12
    <3>2. QED BY <3>1, AtMostOne
  <2>3. Cardinality(m.wc) <= 1
    <3>1. m.wc \in SUBSET {"given"} \/ m.wc \in SUBSET {"own"}
      BY <1>6, <1>8, <1>12
    <3>2. QED BY <3>1, AtMostOne
  <2>4. MessageFits(c, wire, m)
    <3>1. m.collation => wire >= CollationVersion
      BY <1>2, <1>6, <1>12, <1>14 DEF Refused, CollationVersion
    <3>2. m.wc # {} => wire >= CmdWriteConcernVersion
      BY <1>6, <1>8, <1>12
    <3>3. QED BY <1>4, <1>12, <2>2, <2>3, <3>1, <3>2 DEF MessageFits
  <2>5. PICK b \in BOOLEAN : b <=> o.ok /\ ~((a.wc = {} /\ "document" \in opts) /\ o.wcError)
    OBVIOUS
  <2>6. (o.ok /\ ~((a.wc = {} /\ "document" \in opts) /\ o.wcError)) = b
    BY <2>1, <2>5 DEF IsOutcome
  <2>7. Becomes([call |-> Returns(Sent(c, wire, m, o), b), world |-> world])
    BY <1>14, <2>6, Zenon
  <2>8. ASSUME ~HeedlessOf(c), wire >= CmdWriteConcernVersion, b
        PROVE  o.ok /\ ~o.wcError /\ WantedOf(opts) \subseteq m.wc
    <3>1. "writeConcern" \notin opts /\ "document" \in opts
      BY <1>4, <2>8 DEF HeedlessOf
    <3>2. a.wc = {}
      BY <1>6, <3>1
    <3>3. o.ok /\ ~o.wcError
      BY <2>5, <2>8, <3>1, <3>2
    <3>4. WantedOf(opts) \subseteq m.wc
      BY <1>8, <1>12, <2>8, <3>1, <3>2 DEF WantedOf
    <3>5. QED BY <3>3, <3>4
  <2>9. Truly(c, wire, m, o, b)
    BY <1>4, <2>8 DEF Truly, Writers
  <2>10. QED BY <1>2, <1>3, <2>1, <2>4, <2>7, <2>9, AnswerKeepsInv
<1>15. QED
  <2>1. m = [a EXCEPT !.wc = @ \cup {o \in {"own"} : /\ a.wc = {} /\ "document" \in opts
                                                     /\ settings.handle # "default"
                                                     /\ wire >= CmdWriteConcernVersion},
                      !.rc = @ \cup {o \in {"own"} : @ = {} /\ settings.readConcern}]
    BY <1>8, <1>9, <1>10, Zenon
  <2>2. \/ Becomes([call |-> Fails(c), world |-> world])
        \/ /\ ~Refused(opts, wire)
           /\ \E o \in Outcomes("aggregate", wire, m, TRUE) :
                 Becomes([call |-> Returns(Sent(c, wire, m, o),
                                           o.ok /\ ~((a.wc = {} /\ "document" \in opts) /\ o.wcError)),
                          world |-> world])
    BY <1>1, <1>3, <1>5, <2>1, Zenon
  <2>3. QED BY <1>13, <1>14, <2>2

-----------------------------------------------------------------------------
(* The other steps, and the theorems.                                      *)

LEMMA AnsweredKeepsInv == ASSUME Inv, Answered PROVE Inv'
<1>1. /\ call' = NoCall /\ world' = world /\ settings' = settings /\ Keeps
  BY DEF Answered, Keeps
<1>2. "none" \in Helper /\ {} \in SUBSET Option
  BY DEF Helper
<1>3. /\ call' \in CallType /\ call'.step = "done" /\ call'.helper = "none"
      /\ MessageFits(call', call'.wire, call'.message)
  <2>1. PICK c : c = New("none", {})
    OBVIOUS
  <2>2. c \in CallType /\ c.step = "done" /\ c.helper = "none" /\ c.message = Plain
    BY <1>2, <2>1, NewFields
  <2>3. MessageFits(c, c.wire, c.message)
    BY <2>2, PlainFits
  <2>4. call' = c
    BY <1>1, <2>1 DEF NoCall
  <2>5. QED BY <2>2, <2>3, <2>4
<1>4. call'.helper \notin Writers \cup {"aggregate"}
  BY <1>3 DEF Writers
<1>5. CallFits'
  BY <1>3, <1>4, ReaderFits
<1>6. QED BY <1>1, <1>3, <1>5, WorldsFit, KeepingFits

LEMMA ReplicateKeepsInv == ASSUME Inv, Replicate PROVE Inv'
<1>1. /\ settings' = settings /\ collection' = collection /\ doubt' = doubt /\ call' = call
      /\ world' = [world EXCEPT !.seen = world.users]
  BY DEF Replicate
<1>2. world' \in World /\ world'.name = world.name /\ world'.users = world.users
  BY <1>1 DEF Inv, TypeOK, World
<1>3. TypeOK' /\ CatalogueIsKept' /\ UserWasLookedUp'
  BY <1>1, <1>2 DEF Inv, TypeOK, CatalogueIsKept, UserWasLookedUp
<1>4. AnswerIsTrue'
  BY <1>1 DEF Inv, CallFits, AnswerIsTrue, Idle
<1>5. ConcernsAreKept'
  <2>1. ConcernsAreKept
    BY DEF Inv, CallFits
  <2>2. QED BY <1>1, <2>1 DEF ConcernsAreKept, Idle, Wanted, Heedless
<1>6. StepsFit'
  BY <1>1 DEF Inv, CallFits, StepsFit
<1>7. call' \in CallType
  BY <1>3 DEF TypeOK
<1>8. QED BY <1>3, <1>4, <1>5, <1>6, <1>7 DEF Inv, CallFits

LEMMA InitInv == ASSUME Init PROVE Inv
<1>1. "none" \in Helper /\ {} \in SUBSET Option
  BY DEF Helper
<1>2. /\ call \in CallType /\ call.step = "done" /\ call.helper = "none" /\ call.message = Plain
      /\ ~call.ret
  BY <1>1, NewFields DEF Init, NoCall
<1>3. /\ world \in World /\ world.name \in {None, collection} /\ world.users = 0
  BY CommandsAssumption DEF Init, World
<1>4. AnswerIsTrue
  BY <1>2 DEF AnswerIsTrue, Writers
<1>5. ConcernsAreKept
  <2>1. MessageFits(call, call.wire, call.message)
    BY <1>2, PlainFits
  <2>2. QED BY <1>2, <2>1 DEF MessageFits, ConcernsAreKept
<1>6. StepsFit /\ UserWasLookedUp
  BY <1>2 DEF StepsFit, UserWasLookedUp
<1>7. TypeOK /\ CatalogueIsKept
  <2>1. settings \in Settings /\ collection \in Name /\ doubt \in BOOLEAN
    BY DEF Init
  <2>2. world.users <= 1
    BY <1>3
  <2>3. TypeOK
    BY <1>2, <1>3, <2>1, Zenon DEF TypeOK
  <2>4. CatalogueIsKept
    BY <1>3, <2>2, Zenon DEF CatalogueIsKept
  <2>5. QED BY <2>3, <2>4
<1>8. QED BY <1>2, <1>4, <1>5, <1>6, <1>7 DEF Inv, CallFits

LEMMA StutterKeepsInv == ASSUME Inv, UNCHANGED vars PROVE Inv'
BY DEF Inv, vars, TypeOK, CallFits, AnswerIsTrue, ConcernsAreKept, StepsFit, CatalogueIsKept,
       UserWasLookedUp, Idle, Wanted, Heedless

LEMMA NextKeepsInv == ASSUME Inv, [Next]_vars PROVE Inv'
<1>1. CASE UNCHANGED vars
  BY <1>1, StutterKeepsInv
<1>2. CASE Command \/ \E mode \in {"read", "write", "readWrite"} : CommandOfMode(mode)
  BY <1>2, CommandKeepsInv, CommandOfModeKeepsInv
<1>3. CASE Validate \/ CountWithOpts \/ Count \/ Drop \/ DropIndex \/ DropDatabase
  BY <1>3, ValidateKeepsInv, CountWithOptsKeepsInv, CountKeepsInv, DropKeepsInv,
     DropIndexKeepsInv, DropDatabaseKeepsInv
<1>4. CASE Rename \/ CreateCollection \/ FindAndModify \/ Aggregate
  BY <1>4, RenameKeepsInv, CreateCollectionKeepsInv, FindAndModifyKeepsInv, AggregateKeepsInv
<1>5. CASE CreateIndex \/ CreateIndexCrashes \/ InsertIndex
  BY <1>5, CreateIndexKeepsInv, CreateIndexCrashesKeepsInv, InsertIndexKeepsInv
<1>6. CASE RemoveUser \/ RemoveAllUsers \/ LegacyRemove
  BY <1>6, RemoveKeepsInv, LegacyRemoveKeepsInv DEF RemoveUser, RemoveAllUsers
<1>7. CASE AddUser \/ CreateUser \/ FindUser \/ SaveUser
  BY <1>7, AddUserKeepsInv, CreateUserKeepsInv, FindUserKeepsInv, SaveUserKeepsInv
<1>8. CASE HasCollection \/ GetCollectionNames \/ FindNamespaces \/ FindIndexes
  BY <1>8, ListCollectionsKeepsInv, FindNamespacesKeepsInv, FindIndexesKeepsInv
     DEF HasCollection, GetCollectionNames
<1>9. CASE Answered \/ Replicate
  BY <1>9, AnsweredKeepsInv, ReplicateKeepsInv
<1>10. QED BY <1>1, <1>2, <1>3, <1>4, <1>5, <1>6, <1>7, <1>8, <1>9 DEF Next

\* The inductive invariant holds of every state that the helpers reach.
THEOREM InvIsInvariant == Spec => []Inv
<1>1. Init => Inv
  BY InitInv
<1>2. Inv /\ [Next]_vars => Inv'
  BY NextKeepsInv
<1>3. QED BY <1>1, <1>2, PTL DEF Spec

\* What a helper answers of a write is what happened at the server, whether one command was
\* sent or a legacy write after it (mongoc-collection.c, mongoc-database.c), for any wire
\* versions, concerns and options.
THEOREM AnswersStayTrue == Spec => []AnswersAreTrue
<1>1. Inv => AnswersAreTrue
  BY DEF Inv, CallFits, AnswersAreTrue
<1>2. QED BY <1>1, InvIsInvariant, PTL

\* No server is sent an option that it does not know, and a success that a helper reports has
\* the concern confirmed that applies (mongoc-client.c, _mongoc_client_command_with_opts).
THEOREM ConcernsStayKept == Spec => []ConcernsAreKept
<1>1. Inv => ConcernsAreKept
  BY DEF Inv, CallFits
<1>2. QED BY <1>1, InvIsInvariant, PTL

\* A handle names the collection that there is unless an answer was lost, and no user gets two
\* documents unless a stale secondary was asked for it.
THEOREM CatalogueStaysKept == Spec => []CatalogueIsKept
<1>1. Inv => CatalogueIsKept
  BY DEF Inv
<1>2. QED BY <1>1, InvIsInvariant, PTL
===============================================================================
