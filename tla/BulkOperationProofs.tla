------------------------ MODULE BulkOperationProofs ------------------------
(***************************************************************************)
(* What a bulk operation tells its caller is what became of the            *)
(* operations, for any operations, limits and servers.                     *)
(***************************************************************************)
EXTENDS BulkOperation, FiniteSetTheorems, SequenceTheorems, WellFoundedInduction, TLAPS

CommandType == [type: {"insert", "update", "delete"}, first: Nat \ {0}, last: Nat \ {0},
                collation: BOOLEAN, singly: BOOLEAN]

ResultType == [n: Nat, upserted: SUBSET (Nat \ {0}), errors: SUBSET (Nat \ {0}), concernErrors: Nat,
               failed: BOOLEAN, mustStop: BOOLEAN, error: BOOLEAN]

\* The types that the type invariant takes for granted.
Types ==
    /\ BulkTypeOK
    /\ bulk \in [ordered: BOOLEAN, server: Server, acknowledged: BOOLEAN, once: BOOLEAN]
    /\ phase \in {"building", "executing", "done"}
    /\ commands \in Seq(CommandType)
    /\ fate \in [Ids -> Fate] /\ sends \in [Ids -> Nat]
    /\ {current, next} \subseteq Nat \ {0} /\ {offset, at} \subseteq Nat
    /\ result \in ResultType

\* The commands lie one after the other in the bulk, and one with a collation has an
\* operation with it.
CommandsInOrder ==
    /\ \A k \in DOMAIN commands : commands[k].last <= Len(ops)
    /\ \A j, k \in DOMAIN commands : j < k => commands[j].last < commands[k].first
    /\ \A k \in DOMAIN commands : commands[k].collation =>
          \E i \in commands[k].first .. commands[k].last : ops[i].collation

\* What lies before next was sent at most once, and what lies behind was not.
NextIsFresh ==
    /\ NothingSentTwice
    /\ \A i \in Ids : phase = "building" \/ (phase = "executing" /\ i >= next) =>
          fate[i] = "waiting" /\ sends[i] = 0
    /\ \A i \in Ids : sends[i] > 0 => current \in DOMAIN commands /\ i <= Command.last
    /\ phase = "building" => late = {}

\* The indices in answers are relative to next, unless nothing comes of them or an old
\* server's insert is at work.
IndicesFit ==
    phase = "executing" /\ bulk.acknowledged /\ (bulk.server # "old" \/ Command.type # "insert")
    => at = next - 1

Confirmed(i) == i \in Applied \/ fate[i] = "unconfirmed"

\* As long as nothing failed all operations that are behind were applied, and in an ordered
\* bulk those of the commands before the current one.
FailureIsKnown ==
    Trusted /\ ~Unsupported =>
        /\ phase = "executing" /\ ~result.failed => \A i \in Ids : i < next => Confirmed(i)
        /\ phase = "done" /\ ~result.failed /\ ~result.error => \A i \in Ids : Confirmed(i)
        /\ bulk.ordered /\ (phase = "executing" \/ \E i \in Ids : sends[i] > 0) =>
              \A i \in Ids : i < Command.first => Confirmed(i)

\* What the ghosts remember shows in the result, or is not asked about, and a bulk that
\* must stop has failed.
GhostsFit ==
    /\ result.mustStop => result.failed /\ phase # "building"
    /\ phase = "building" => result.n = 0
    /\ \A i \in Ids : fate[i] = "unconfirmed" => ~bulk.acknowledged
    /\ late # {} => result.concernErrors > 0
    /\ ~Trusted => stream # "open" /\ result.error

\* The inductive invariant.
Inv == /\ Types /\ CommandsInOrder /\ NextIsFresh /\ IndicesFit /\ FailureIsKnown /\ GhostsFit
       /\ ResultIsExact

-----------------------------------------------------------------------------
(* What every turn of the loop has in common: the operations S of next ..  *)
(* e are sent, and the loop goes on behind e or with another command.      *)

\* The operations of S, and no others, have a new fate.
OnlySent(S) ==
    /\ fate' \in [Ids -> Fate] /\ sends' \in [Ids -> Nat]
    /\ \A i \in Ids \ S : fate'[i] = fate[i] /\ sends'[i] = sends[i]
    /\ \A i \in S : /\ sends'[i] <= sends[i] + 1
                    /\ fate'[i] = "unconfirmed" => ~bulk.acknowledged
                    /\ fate'[i] = "truncated" => stream' # "open" /\ result'.error
    /\ stream' \in {"open", "closed", "out of step"}
    /\ stream # "open" => stream' # "open" /\ (result.error => result'.error)
    /\ late \subseteq late' /\ late' \subseteq late \cup S
    /\ late' # late => result'.concernErrors > 0

\* The result tells of the operations of S, if all answers were read in full.
Tells(S, e) ==
    /\ result' \in ResultType
    /\ result'.concernErrors >= result.concernErrors
    /\ result'.upserted \cup result'.errors \subseteq Ids
    /\ result.failed => result'.failed
    /\ result'.mustStop => result'.failed
    /\ ~result'.failed => S = next .. e
    /\ Trusted' =>
          /\ ~result'.failed => \A i \in S : Confirmed(i)'
          /\ bulk.acknowledged /\ bulk.server # "old" =>
                result'.errors = result.errors \cup {i \in S : fate'[i] = "rejected"}
          /\ result'.upserted = result.upserted \cup {i \in S : fate'[i] = "upserted"}
          /\ ~Uncounted' => result'.n = result.n + Cardinality({i \in S : fate'[i] = "applied"})

\* The next operations are those behind e, in this command or the next one.
Moves(e) ==
    \/ /\ e < Command.last
       /\ next' = e + 1
       /\ at' \in offset .. e
       /\ bulk.acknowledged /\ (bulk.server # "old" \/ Command.type # "insert") => at' = e
       /\ UNCHANGED <<phase, current, offset>>
    \/ /\ EndCommand(result')
       /\ ~result'.failed => e = Command.last

Turn(S, e) ==
    /\ UNCHANGED callVars
    /\ e \in next - 1 .. Command.last
    /\ S \subseteq next .. e
    /\ OnlySent(S)
    /\ Tells(S, e)
    /\ Moves(e)

-----------------------------------------------------------------------------
(* Sets of numbers.                                                        *)

LEMMA LeastElement ==
    ASSUME NEW T \in SUBSET Nat, T # {}
    PROVE  \E x \in T : \A y \in T : x <= y
<1>1. PICK x \in T : \A y \in T : ~ (<<y, x>> \in OpToRel(<, Nat))
  BY NatLessThanWellFounded, WFMin, Zenon
<1>2. \A y \in T : ~ (y < x)
  BY <1>1 DEF OpToRel
<1>3. QED BY <1>2

LEMMA GreatestElement ==
    ASSUME NEW T \in SUBSET Nat, T # {}, NEW n \in Nat, \A x \in T : x <= n
    PROVE  Max(T) \in T /\ \A y \in T : Max(T) >= y
<1> DEFINE D == {d \in Nat : n - d \in T}
<1>1. \A x \in T : n - x \in D
  OBVIOUS
<1>2. D \in SUBSET Nat /\ D # {}
  BY <1>1
<1>3. PICK d \in D : \A c \in D : d <= c
  BY <1>2, LeastElement, Zenon
<1> HIDE DEF D
<1>4. n - d \in T /\ d \in Nat
  BY <1>3 DEF D
<1>5. \A y \in T : n - d >= y
  <2>1. ASSUME NEW y \in T PROVE n - d >= y
    <3>1. d <= n - y
      BY <1>1, <1>3
    <3>2. QED BY <1>4, <3>1
  <2>2. QED BY <2>1
<1>6. QED BY <1>4, <1>5, Zenon DEF Max

\* Two sets of operations, one behind the other, are counted together.
LEMMA CountOfBoth ==
    ASSUME NEW m \in Nat, NEW A \in SUBSET (1 .. m), NEW B \in SUBSET (1 .. m), A \cap B = {}
    PROVE  /\ Cardinality(A \cup B) = Cardinality(A) + Cardinality(B)
           /\ Cardinality(A) \in Nat
<1>1. IsFiniteSet(1 .. m)
  BY FS_Interval
<1>2. IsFiniteSet(A) /\ IsFiniteSet(B)
  BY <1>1, FS_Subset
<1>3. Cardinality(A) \in Nat /\ Cardinality(B) \in Nat /\ Cardinality(A \cap B) = 0
  BY <1>2, FS_CardinalityType, FS_EmptySet
<1>4. QED BY <1>2, <1>3, FS_Union

-----------------------------------------------------------------------------
\* Where the loop is.
LEMMA Place ==
    ASSUME Inv, phase = "executing"
    PROVE  /\ Ids = 1 .. Len(ops) /\ Len(ops) \in Nat
           /\ commands \in Seq(CommandType)
           /\ current \in 1 .. Len(commands) /\ Command \in CommandType
           /\ next \in Command.first .. Command.last
           /\ Command.last <= Len(ops)
           /\ offset = Command.first - 1 /\ at \in offset .. next - 1
           /\ current = Len(commands) => Command.last = Len(ops)
           /\ current # Len(commands) =>
                 /\ current + 1 \in 1 .. Len(commands)
                 /\ commands[current + 1] \in CommandType
                 /\ commands[current + 1].first = Command.last + 1
                 /\ commands[current + 1].first <= commands[current + 1].last
                 /\ commands[current + 1].last <= Len(ops)
           /\ \A i \in next .. Command.last : /\ i \in Ids /\ ops[i] \in OperationType
                                              /\ ops[i].type = Command.type
                                              /\ fate[i] = "waiting" /\ sends[i] = 0
<1> USE DEF Inv
<1>1. /\ ops \in Seq(Operation) /\ commands \in Seq(CommandType)
      /\ current \in DOMAIN commands /\ next \in Command.first .. Command.last
      /\ offset = Command.first - 1 /\ at \in offset .. next - 1
  BY DEF Types, BulkTypeOK
<1>2. /\ Ids = 1 .. Len(ops) /\ Len(ops) \in Nat /\ DOMAIN commands = 1 .. Len(commands)
      /\ Command \in CommandType
  BY <1>1 DEF Ids, Command
<1>3. \A k \in DOMAIN commands : /\ commands[k].first <= commands[k].last
                                 /\ commands[k].first = IF k = 1 THEN 1 ELSE commands[k - 1].last + 1
                                 /\ \A i \in commands[k].first .. commands[k].last :
                                       ops[i].type = commands[k].type
  BY DEF Types, BulkTypeOK
<1>4. \A k \in DOMAIN commands : commands[k].last <= Len(ops)
  BY DEF CommandsInOrder
<1>5. current = Len(commands) => Command.last = Len(ops)
  BY <1>1, <1>2 DEF Types, BulkTypeOK, Command
<1>6. current # Len(commands) =>
        /\ current + 1 \in 1 .. Len(commands)
        /\ commands[current + 1] \in CommandType
        /\ commands[current + 1].first = Command.last + 1
        /\ commands[current + 1].first <= commands[current + 1].last
        /\ commands[current + 1].last <= Len(ops)
  <2> SUFFICES ASSUME current # Len(commands)
               PROVE  /\ current + 1 \in 1 .. Len(commands)
                      /\ commands[current + 1] \in CommandType
                      /\ commands[current + 1].first = Command.last + 1
                      /\ commands[current + 1].first <= commands[current + 1].last
                      /\ commands[current + 1].last <= Len(ops)
    OBVIOUS
  <2>1. current + 1 \in 1 .. Len(commands) /\ current + 1 # 1 /\ current + 1 - 1 = current
    BY <1>1, <1>2
  <2>2. commands[current + 1] \in CommandType
    BY <1>1, <2>1
  <2>3. commands[current + 1].first = Command.last + 1
    <3>1. PICK k \in DOMAIN commands : k = current + 1
      BY <1>2, <2>1
    <3>2. k # 1 /\ k - 1 = current
      BY <1>1, <1>2, <3>1
    <3>3. commands[k].first = commands[k - 1].last + 1
      BY <1>3, <3>2
    <3>4. QED BY <3>1, <3>2, <3>3 DEF Command
  <2>4. commands[current + 1].first <= commands[current + 1].last
    BY <1>2, <1>3, <2>1
  <2>5. commands[current + 1].last <= Len(ops)
    BY <1>2, <1>4, <2>1
  <2>6. QED BY <2>1, <2>2, <2>3, <2>4, <2>5
<1>7. ASSUME NEW i \in next .. Command.last
      PROVE  /\ i \in Ids /\ ops[i] \in OperationType /\ ops[i].type = Command.type
             /\ fate[i] = "waiting" /\ sends[i] = 0
  <2>1. /\ i \in Command.first .. Command.last /\ i \in 1 .. Len(ops) /\ i >= next
    BY <1>1, <1>2, <1>4 DEF CommandType, Command
  <2>2. ops[i] \in OperationType
    BY <1>1, <2>1, OperationAssumption
  <2>3. ops[i].type = Command.type
    BY <1>1, <1>3, <2>1 DEF Command
  <2>4. fate[i] = "waiting" /\ sends[i] = 0
    BY <1>2, <2>1 DEF NextIsFresh
  <2>5. QED BY <1>2, <2>1, <2>2, <2>3, <2>4
<1>8. Command.last <= Len(ops)
  BY <1>1, <1>4 DEF Command
<1>9. QED BY <1>1, <1>2, <1>5, <1>6, <1>7, <1>8

-----------------------------------------------------------------------------
(* Whatever is sent in a turn, and whatever comes back, keeps the          *)
(* invariant.                                                              *)

\* A turn ends in the same command, with the next one, or the loop is over.
Lands(e) ==
    \/ /\ phase' = "executing" /\ current' = current /\ Command' = Command
       /\ next' = e + 1 /\ next' \in next .. Command.last
       /\ offset' = offset /\ at' \in offset .. e
       /\ bulk.acknowledged /\ (bulk.server # "old" \/ Command.type # "insert") => at' = e
    \/ /\ phase' = "executing" /\ current # Len(commands) /\ ~Stops(result')
       /\ current' = current + 1 /\ Command' = commands[current + 1]
       /\ next' = Command.last + 1 /\ next' = Command'.first
       /\ offset' = Command.last /\ at' = Command.last
       /\ ~result'.failed => e = Command.last
    \/ /\ phase' = "done" /\ UNCHANGED placeVars /\ Command' = Command
       /\ current = Len(commands) \/ Stops(result')
       /\ ~result'.failed => e = Command.last

LEMMA Landing ==
    ASSUME Inv, phase = "executing", NEW S, NEW e, Turn(S, e)
    PROVE  Lands(e)
<1> USE DEF Turn
<1>1. commands' = commands /\ e \in next - 1 .. Command.last
  BY DEF callVars
<1>2. next \in Nat /\ Command.last \in Nat /\ Command.first \in Nat /\ next <= Command.last
  BY Place DEF CommandType
<1>3. CASE /\ e < Command.last
           /\ next' = e + 1
           /\ at' \in offset .. e
           /\ bulk.acknowledged /\ (bulk.server # "old" \/ Command.type # "insert") => at' = e
           /\ UNCHANGED <<phase, current, offset>>
  <2>1. Command' = Command
    BY <1>1, <1>3 DEF Command
  <2>2. QED BY <1>1, <1>2, <1>3, <2>1 DEF Lands
<1>4. CASE EndCommand(result') /\ (~result'.failed => e = Command.last)
  <2>1. CASE current = Len(commands) \/ Stops(result')
    BY <1>1, <1>4, <2>1 DEF EndCommand, placeVars, Command, Lands
  <2>2. CASE current # Len(commands) /\ ~Stops(result')
    <3>1. /\ phase' = "executing" /\ current' = current + 1
          /\ next' = commands[current + 1].first
          /\ offset' = NextOffset /\ at' = NextOffset
      BY <1>4, <2>2 DEF EndCommand
    <3>2. NextOffset = Command.last
      <4>1. offset = Command.first - 1
        BY Place
      <4>2. QED BY <1>2, <4>1 DEF NextOffset, Count
    <3>3. Command' = commands[current + 1]
      BY <1>1, <3>1 DEF Command
    <3>4. commands[current + 1].first = Command.last + 1
      BY <2>2, Place
    <3>5. QED BY <1>4, <2>2, <3>1, <3>2, <3>3, <3>4 DEF Lands
  <2>3. QED BY <2>1, <2>2
<1>5. QED BY <1>3, <1>4 DEF Moves

\* The parts of the state keep their types and stay together.
LEMMA TurnKeepsTypes ==
    ASSUME Inv, phase = "executing", NEW S, NEW e, Turn(S, e)
    PROVE  Types' /\ IndicesFit'
<1>1. /\ UNCHANGED <<ops, commands, bulk>> /\ S \subseteq next .. e /\ e \in next - 1 .. Command.last
      /\ OnlySent(S) /\ Tells(S, e) /\ Moves(e)
  BY DEF Turn, callVars
<1> USE <1>1
<1>2. Lands(e)
  BY Landing, Zenon
<1>3. Types
  BY DEF Inv
<1>4. /\ next \in Nat /\ Command.last \in Nat /\ Command.first \in Nat \ {0} /\ next <= Command.last
      /\ offset \in Nat /\ current \in Nat \ {0} /\ next # 0
  BY <1>3, Place DEF CommandType, Types
<1>5. phase' \in {"executing", "done"} /\ {current', next'} \subseteq Nat \ {0} /\ {offset', at'} \subseteq Nat
  <2>1. {current, next} \subseteq Nat \ {0} /\ {offset, at} \subseteq Nat
    BY <1>3 DEF Types
  <2>2. QED BY <1>2, <1>1, <1>4, <2>1 DEF Lands, placeVars
<1>6. phase' = "executing" => /\ current' \in DOMAIN commands'
                              /\ next' \in Command'.first .. Command'.last
                              /\ offset' = Command'.first - 1
                              /\ at' \in offset' .. next' - 1
  <2>1. CASE next' = e + 1 /\ current' = current /\ Command' = Command /\ next' \in next .. Command.last
             /\ offset' = offset /\ at' \in offset .. e
    BY <2>1, <1>4, Place, SMTT(30) DEF CommandType
  <2>2. CASE /\ current # Len(commands) /\ current' = current + 1 /\ Command' = commands[current + 1]
             /\ next' = Command.last + 1 /\ next' = Command'.first
             /\ offset' = Command.last /\ at' = Command.last
    <3>1. /\ current + 1 \in DOMAIN commands /\ commands[current + 1] \in CommandType
          /\ commands[current + 1].first <= commands[current + 1].last
      BY <2>2, Place
    <3>2. Command'.first <= Command'.last /\ Command'.first \in Nat /\ Command'.last \in Nat
      BY <2>2, <3>1 DEF CommandType
    <3>3. QED BY <1>1, <1>4, <2>2, <3>1, <3>2
  <2>3. QED BY <1>2, <2>1, <2>2 DEF Lands
<1>7. S \subseteq Ids /\ Ids' = Ids
  BY Place, <1>1, <1>4 DEF Ids
<1>8. late' \subseteq Ids
  BY <1>3, <1>7 DEF OnlySent, Types, BulkTypeOK
<1>9. \A i \in Ids : fate'[i] \in Fate /\ sends'[i] \in Nat
  BY <1>1 DEF OnlySent
<1>10. /\ {result'.n, result'.concernErrors} \subseteq Nat
      /\ result'.upserted \cup result'.errors \subseteq Ids
      /\ {result'.failed, result'.mustStop, result'.error} \subseteq BOOLEAN
      /\ result' \in ResultType
  BY DEF Tells, ResultType
<1>11. BulkTypeOK'
  <2>1. /\ ops' \in Seq(Operation)
        /\ \A k \in DOMAIN commands' :
              /\ commands'[k].first <= commands'[k].last
              /\ commands'[k].first = IF k = 1 THEN 1 ELSE commands'[k - 1].last + 1
              /\ \A i \in commands'[k].first .. commands'[k].last : ops'[i].type = commands'[k].type
        /\ IF commands' = <<>> THEN ops' = <<>> ELSE commands'[Len(commands')].last = Len(ops')
    <3>1. ops' = ops /\ commands' = commands
      BY <1>1
    <3>2. /\ ops \in Seq(Operation)
          /\ \A k \in DOMAIN commands :
                /\ commands[k].first <= commands[k].last
                /\ commands[k].first = IF k = 1 THEN 1 ELSE commands[k - 1].last + 1
                /\ \A i \in commands[k].first .. commands[k].last : ops[i].type = commands[k].type
          /\ IF commands = <<>> THEN ops = <<>> ELSE commands[Len(commands)].last = Len(ops)
      BY <1>3, Zenon DEF Types, BulkTypeOK
    <3>3. QED BY <3>1, <3>2, Zenon
  <2>2. QED BY <2>1, <1>6, <1>7, <1>8, <1>9, <1>10 DEF BulkTypeOK, OnlySent
<1>12. Types'
  <2>1. fate' \in [Ids' -> Fate] /\ sends' \in [Ids' -> Nat]
    BY <1>1, <1>7 DEF OnlySent
  <2>2. bulk' \in [ordered: BOOLEAN, server: Server, acknowledged: BOOLEAN, once: BOOLEAN]
    BY <1>1, <1>3 DEF Types
  <2>3. commands' \in Seq(CommandType)
    BY <1>1, <1>3 DEF Types
  <2>4. QED BY <1>5, <1>10, <1>11, <2>1, <2>2, <2>3 DEF Types
<1>13. IndicesFit'
  BY <1>2, <1>1, <1>4 DEF Lands, IndicesFit
<1>14. QED BY <1>12, <1>13

\* What is sent in a turn was not sent before.
LEMMA TurnKeepsSends ==
    ASSUME Inv, phase = "executing", NEW S, NEW e, Turn(S, e)
    PROVE  NextIsFresh'
<1>1. /\ UNCHANGED <<ops, commands, bulk>> /\ S \subseteq next .. e /\ e \in next - 1 .. Command.last
      /\ OnlySent(S) /\ Tells(S, e) /\ Moves(e)
  BY DEF Turn, callVars
<1> USE <1>1
<1>2. Lands(e)
  BY Landing, Zenon
<1>3. /\ next \in Nat /\ Command.last \in Nat /\ Command.first \in Nat \ {0} /\ next <= Command.last
      /\ Ids' = Ids /\ Ids = 1 .. Len(ops) /\ Len(ops) \in Nat
  BY Place, <1>1 DEF CommandType, Ids
<1>4. /\ \A i \in Ids : sends[i] \in Nat /\ sends[i] <= 1 /\ (i >= next => fate[i] = "waiting" /\ sends[i] = 0)
      /\ \A i \in Ids : sends[i] > 0 => i <= Command.last
  BY DEF Inv, NextIsFresh, NothingSentTwice, Types, BulkTypeOK
<1>5. \A i \in Ids : \/ i \in S /\ i >= next /\ i <= e /\ sends'[i] <= 1
                     \/ i \notin S /\ sends'[i] = sends[i] /\ fate'[i] = fate[i]
  <2> SUFFICES ASSUME NEW i \in Ids
               PROVE  \/ i \in S /\ i >= next /\ i <= e /\ sends'[i] <= 1
                      \/ i \notin S /\ sends'[i] = sends[i] /\ fate'[i] = fate[i]
    OBVIOUS
  <2>1. CASE i \in S
    <3>1. i \in Nat /\ e \in Int /\ i >= next /\ i <= e
      BY <1>1, <1>3, <2>1
    <3>2. sends'[i] <= sends[i] + 1 /\ sends'[i] \in Nat
      BY <1>1, <2>1 DEF OnlySent
    <3>3. QED BY <1>4, <2>1, <3>1, <3>2
  <2>2. CASE i \notin S
    BY <1>1, <2>2 DEF OnlySent
  <2>3. QED BY <2>1, <2>2
<1>6. NothingSentTwice'
  BY <1>3, <1>4, <1>5 DEF NothingSentTwice
<1>7. phase' # "building" /\ (phase' = "executing" => next' > e /\ next' >= next)
  BY <1>2, <1>1, <1>3 DEF Lands
<1>8. \A i \in Ids : phase' = "executing" /\ i >= next' => fate'[i] = "waiting" /\ sends'[i] = 0
  <2> SUFFICES ASSUME NEW i \in Ids, phase' = "executing", i >= next'
               PROVE  fate'[i] = "waiting" /\ sends'[i] = 0
    OBVIOUS
  <2>1. next' \in Int /\ e \in Int /\ i \in Int
    BY <1>2, <1>1, <1>3 DEF Lands
  <2>2. QED BY <1>3, <1>4, <1>5, <1>7, <2>1
<1>9. current' \in DOMAIN commands /\ Command'.last \in Nat /\ Command.last <= Command'.last
  <2>1. CASE current' = current /\ Command' = Command
    BY <2>1, <1>3, Place
  <2>2. CASE current # Len(commands) /\ current' = current + 1 /\ Command' = commands[current + 1]
    BY <2>2, <1>3, Place, SMTT(30) DEF CommandType
  <2>3. QED BY <1>2, <2>1, <2>2 DEF Lands, placeVars
<1>10. \A i \in Ids : sends'[i] > 0 => i <= Command'.last
  BY <1>1, <1>3, <1>4, <1>5, <1>9
<1>11. QED BY <1>1, <1>3, <1>6, <1>7, <1>8, <1>9, <1>10 DEF NextIsFresh

\* What becomes of the operations of a turn: the others keep their fate, and those had none.
LEMMA TurnTells ==
    ASSUME Inv, phase = "executing", NEW S, NEW e, Turn(S, e)
    PROVE  /\ UNCHANGED <<ops, commands, bulk>> /\ Ids' = Ids /\ S \subseteq Ids
           /\ next \in Nat /\ e \in Int /\ Command.last \in Nat /\ Command.first \in Nat
           /\ Command.first <= next /\ e <= Command.last /\ Command.last <= Len(ops)
           /\ Ids = 1 .. Len(ops) /\ Len(ops) \in Nat
           /\ \A i \in S : i >= next /\ i <= e /\ fate[i] = "waiting"
           /\ \A i \in Ids : i \notin S => fate'[i] = fate[i] /\ sends'[i] = sends[i]
           /\ Trusted' => Trusted
           /\ Unsupported' <=> Unsupported
           /\ Uncounted => Uncounted'
<1>1. /\ UNCHANGED <<ops, commands, bulk>> /\ S \subseteq next .. e /\ e \in next - 1 .. Command.last
      /\ OnlySent(S) /\ Tells(S, e) /\ Moves(e)
  BY DEF Turn, callVars
<1>2. /\ next \in Nat /\ Command.last \in Nat /\ Command.first \in Nat /\ Command.first <= next
      /\ Command.last <= Len(ops) /\ Ids = 1 .. Len(ops) /\ Len(ops) \in Nat
      /\ next \in Command.first .. Command.last
  BY Place DEF CommandType
<1>3. /\ \A i \in S : i >= next /\ i <= e /\ i \in next .. Command.last /\ i \in Ids
      /\ e \in Int /\ e <= Command.last
  <2>1. e \in Int /\ e <= Command.last
    BY <1>1, <1>2
  <2>2. \A i \in next .. e : /\ i >= next /\ i <= e /\ i \in next .. Command.last
                             /\ i \in 1 .. Len(ops)
    BY <1>2, <2>1, Place DEF CommandType
  <2>3. QED BY <1>1, <1>2, <2>1, <2>2
<1>4. \A i \in S : fate[i] = "waiting"
  BY <1>3, Place
<1>5. \A i \in Ids : i \notin S => fate'[i] = fate[i] /\ sends'[i] = sends[i]
  BY <1>1 DEF OnlySent
<1>6. Ids' = Ids
  BY <1>1 DEF Ids
<1>7. Trusted' => Trusted
  BY <1>4, <1>5, <1>6 DEF Trusted
<1>8. Unsupported' <=> Unsupported
  BY <1>1, <1>6 DEF Unsupported
<1>9. Uncounted => Uncounted'
  BY <1>1 DEF Uncounted, OnlySent
<1>10. QED BY <1>1, <1>2, <1>3, <1>4, <1>5, <1>6, <1>7, <1>8, <1>9

\* A failure is not forgotten.
LEMMA TurnKeepsFailure ==
    ASSUME Inv, phase = "executing", NEW S, NEW e, Turn(S, e)
    PROVE  FailureIsKnown'
<1>1. OnlySent(S) /\ Tells(S, e) /\ Lands(e)
  BY Landing DEF Turn
<1> SUFFICES ASSUME Trusted', ~Unsupported'
             PROVE  /\ phase' = "executing" /\ ~result'.failed =>
                          \A i \in Ids' : i < next' => Confirmed(i)'
                    /\ phase' = "done" /\ ~result'.failed /\ ~result'.error =>
                          \A i \in Ids' : Confirmed(i)'
                    /\ bulk'.ordered /\ (phase' = "executing" \/ \E i \in Ids' : sends'[i] > 0) =>
                          \A i \in Ids' : i < Command'.first => Confirmed(i)'
  BY Zenon DEF FailureIsKnown
<1>2. Trusted /\ ~Unsupported
  BY TurnTells
<1>3. /\ ~result.failed => \A i \in Ids : i < next => Confirmed(i)
      /\ bulk.ordered => \A i \in Ids : i < Command.first => Confirmed(i)
  BY <1>2 DEF Inv, FailureIsKnown
<1>4. /\ Ids' = Ids /\ bulk' = bulk /\ next \in Nat /\ e \in Int /\ Command.first \in Nat
      /\ Command.first <= next /\ Command.last \in Nat /\ Ids = 1 .. Len(ops) /\ Len(ops) \in Nat
      /\ \A i \in S : i >= next
  BY TurnTells
<1>5. \A i \in Ids : i \notin S => (Confirmed(i) => Confirmed(i)')
  BY TurnTells DEF Confirmed, Applied
<1>6. \A i \in Ids : i < next => i \notin S
  BY <1>4
<1>7. ~result'.failed => \A i \in Ids : i <= e => Confirmed(i)'
  <2> SUFFICES ASSUME ~result'.failed, NEW i \in Ids, i <= e
               PROVE  Confirmed(i)'
    OBVIOUS
  <2>1. ~result.failed /\ S = next .. e /\ \A j \in S : Confirmed(j)'
    BY <1>1 DEF Tells
  <2>2. CASE i < next
    BY <2>1, <2>2, <1>3, <1>5, <1>6
  <2>3. CASE i >= next
    <3>1. i \in next .. e
      BY <2>3, <1>4
    <3>2. QED BY <2>1, <3>1
  <2>4. i \in Nat
    BY <1>4
  <2>5. QED BY <2>2, <2>3, <2>4, <1>4
<1>8. bulk.ordered => \A i \in Ids : i < Command.first => Confirmed(i)'
  BY <1>3, <1>4, <1>5, <1>6
<1>9. CASE /\ phase' = "executing" /\ Command' = Command /\ next' = e + 1
  BY <1>4, <1>7, <1>8, <1>9
<1>10. CASE /\ phase' = "executing" /\ next' = Command.last + 1 /\ next' = Command'.first
            /\ ~Stops(result')
            /\ ~result'.failed => e = Command.last
  <2>1. bulk.ordered => ~result'.failed
    BY <1>10 DEF Stops
  <2>2. ~result'.failed => \A i \in Ids : i < next' => Confirmed(i)'
    BY <1>4, <1>7, <1>10
  <2>3. QED BY <1>4, <1>10, <2>1, <2>2
<1>11. CASE /\ phase' = "done" /\ Command' = Command
            /\ current = Len(commands) \/ Stops(result')
            /\ ~result'.failed => e = Command.last
  <2>1. ~result'.failed => Command.last = Len(ops)
    BY <1>11, Place DEF Stops
  <2>2. ~result'.failed => \A i \in Ids : Confirmed(i)'
    BY <1>4, <1>7, <1>11, <2>1
  <2>3. QED BY <1>4, <1>8, <1>11, <2>2
<1>12. QED BY <1>1, <1>9, <1>10, <1>11 DEF Lands

\* What the ghosts remember shows in the result.
LEMMA TurnKeepsGhosts ==
    ASSUME Inv, phase = "executing", NEW S, NEW e, Turn(S, e)
    PROVE  GhostsFit'
<1>1. OnlySent(S) /\ Tells(S, e) /\ bulk' = bulk /\ Ids' = Ids
  BY TurnTells DEF Turn
<1>2. \A i \in Ids : i \notin S => fate'[i] = fate[i]
  BY TurnTells
<1>3. GhostsFit /\ result.concernErrors \in Nat
  BY DEF Inv, Types, ResultType
<1>4. \A i \in Ids' : fate'[i] = "unconfirmed" => ~bulk'.acknowledged
  BY <1>1, <1>2, <1>3 DEF GhostsFit, OnlySent
<1>5. result'.concernErrors \in Nat /\ result'.concernErrors >= result.concernErrors
  BY <1>1 DEF Tells, ResultType
<1>6. late' # {} => result'.concernErrors > 0
  <2>1. CASE late' # late
    BY <1>1, <2>1 DEF OnlySent
  <2>2. CASE late' = late
    BY <1>3, <1>5, <2>2 DEF GhostsFit
  <2>3. QED BY <2>1, <2>2
<1>7. ~Trusted' => stream' # "open" /\ result'.error
  <2> SUFFICES ASSUME NEW i \in Ids, fate'[i] = "truncated"
               PROVE  stream' # "open" /\ result'.error
    BY <1>1 DEF Trusted
  <2>1. CASE i \in S
    BY <1>1, <2>1 DEF OnlySent
  <2>2. CASE i \notin S
    <3>1. ~Trusted
      BY <1>2, <2>2 DEF Trusted
    <3>2. QED BY <1>1, <1>3, <3>1 DEF OnlySent, GhostsFit
  <2>3. QED BY <2>1, <2>2
<1>8. result'.mustStop => result'.failed /\ phase' # "building"
  <2>1. Lands(e)
    BY Landing, Zenon
  <2>2. QED BY <1>1, <2>1 DEF Tells, Lands
<1>9. phase' # "building"
  <2>1. Lands(e)
    BY Landing, Zenon
  <2>2. QED BY <2>1 DEF Lands
<1>10. QED BY <1>4, <1>6, <1>7, <1>8, <1>9 DEF GhostsFit

\* The result goes on telling of every operation.
LEMMA TurnKeepsResult ==
    ASSUME Inv, phase = "executing", NEW S, NEW e, Turn(S, e)
    PROVE  ResultIsExact'
<1> SUFFICES ASSUME Trusted'
             PROVE  (ErrorsNameTheirOperations /\ UpsertsNameTheirOperations /\ CountIsExact)'
  BY Zenon DEF ResultIsExact
<1>1. Tells(S, e)
  BY DEF Turn
<1>2. /\ bulk' = bulk /\ Ids' = Ids /\ S \subseteq Ids /\ Ids = 1 .. Len(ops) /\ Len(ops) \in Nat
      /\ \A i \in S : fate[i] = "waiting"
      /\ \A i \in Ids : i \notin S => fate'[i] = fate[i]
      /\ Uncounted => Uncounted'
      /\ Trusted
  BY TurnTells
<1>3. ErrorsNameTheirOperations /\ UpsertsNameTheirOperations /\ CountIsExact
  BY <1>2 DEF Inv, ResultIsExact
<1>4. \A what \in Fate \ {"waiting"} :
        {i \in Ids : fate'[i] = what} = {i \in Ids : fate[i] = what} \cup {i \in S : fate'[i] = what}
  BY <1>2
<1>5. ErrorsNameTheirOperations'
  BY <1>1, <1>2, <1>3, <1>4 DEF ErrorsNameTheirOperations, Tells, Fate
<1>6. UpsertsNameTheirOperations'
  BY <1>1, <1>2, <1>3, <1>4 DEF UpsertsNameTheirOperations, Tells, Fate
<1>7. CountIsExact'
  <2> DEFINE A == {i \in Ids : fate[i] = "applied"}
             B == {i \in S : fate'[i] = "applied"}
  <2>1. /\ Cardinality(A \cup B) = Cardinality(A) + Cardinality(B)
    <3>1. A \in SUBSET (1 .. Len(ops)) /\ B \in SUBSET (1 .. Len(ops)) /\ A \cap B = {}
      BY <1>2
    <3>2. QED BY <1>2, <3>1, CountOfBoth, ZenonT(30)
  <2>2. {i \in Ids : fate'[i] = "applied"} = A \cup B
    BY <1>4 DEF Fate
  <2>3. ~Uncounted' => result'.n = result.n + Cardinality(B)
    BY <1>1 DEF Tells
  <2>4. ~Uncounted' => result.n = Cardinality(A)
    BY <1>2, <1>3 DEF CountIsExact
  <2>5. QED BY <1>2, <2>1, <2>2, <2>3, <2>4 DEF CountIsExact
<1>8. QED BY <1>5, <1>6, <1>7

LEMMA TurnKeepsInv ==
    ASSUME Inv, phase = "executing", NEW S, NEW e, Turn(S, e)
    PROVE  Inv'
<1>1. CommandsInOrder'
  BY DEF Turn, callVars, CommandsInOrder, Inv
<1>2. QED
  BY <1>1, TurnKeepsTypes, TurnKeepsSends, TurnKeepsFailure, TurnKeepsGhosts, TurnKeepsResult, Zenon
  DEF Inv

-----------------------------------------------------------------------------
(* The batches.                                                            *)

LEMMA BatchEndFits ==
    ASSUME Inv, phase = "executing"
    PROVE  BatchEnd \in next - 1 .. Command.last
<1>1. next \in Nat \ {0} /\ Command.last \in Nat /\ next <= Command.last
  BY Place DEF CommandType
<1> DEFINE E == {e \in next .. Command.last : \A d \in next .. e : ~Overflows(d)}
<1>2. BatchEnd = Max({next - 1} \cup E)
  BY DEF BatchEnd
<1>3. /\ {next - 1} \cup E \in SUBSET Nat /\ {next - 1} \cup E # {}
      /\ \A x \in {next - 1} \cup E : x <= Command.last
      /\ {next - 1} \cup E \subseteq next - 1 .. Command.last
  <2>1. E \subseteq next .. Command.last
    OBVIOUS
  <2> HIDE DEF E
  <2>2. QED BY <1>1, <2>1
<1> HIDE DEF E
<1>4. Max({next - 1} \cup E) \in {next - 1} \cup E
  BY <1>1, <1>3, GreatestElement
<1>5. QED BY <1>2, <1>3, <1>4

\* A batch of inserts that go one by one has no two that can be sent.
LEMMA InsertBatchEndFits ==
    ASSUME Inv, phase = "executing"
    PROVE  /\ InsertBatchEnd \in next .. Command.last
           /\ Command.singly => \A i, j \in next .. InsertBatchEnd : ~Large(i) /\ ~Large(j) => i = j
<1>1. next \in Nat \ {0} /\ Command.last \in Nat /\ next <= Command.last
  BY Place DEF CommandType
<1> DEFINE Small(e) == {i \in next .. e : ~Large(i)}
           Ends(e) == \/ e = Command.last
                      \/ bulk.ordered /\ Large(e)
                      \/ /\ ~Large(e + 1)
                         /\ (Command.singly /\ Small(e) # {}) \/ Size(Small(e) \cup {e + 1}) > MaxMessageSize
           EndsHere(e) == Ends(e) /\ \A d \in next .. e - 1 : ~Ends(d)
<1>2. InsertBatchEnd = CHOOSE e \in next .. Command.last : EndsHere(e)
  BY DEF InsertBatchEnd
<1>3. \E e \in next .. Command.last : EndsHere(e)
  <2> DEFINE T == {e \in next .. Command.last : Ends(e)}
  <2>1. Ends(Command.last)
    OBVIOUS
  <2>2. T \in SUBSET Nat /\ T # {}
    <3> HIDE DEF Ends
    <3>1. QED BY <1>1, <2>1
  <2>3. PICK e \in T : \A d \in T : e <= d
    BY <2>2, LeastElement, Zenon
  <2>4. \A d \in next .. e - 1 : ~Ends(d)
    <3> HIDE DEF Ends
    <3>1. QED BY <1>1, <2>3
  <2>5. QED BY <2>3, <2>4
<1> HIDE DEF EndsHere
<1>4. InsertBatchEnd \in next .. Command.last /\ EndsHere(InsertBatchEnd)
  BY <1>2, <1>3, Zenon
<1>5. ASSUME Command.singly, NEW i \in next .. InsertBatchEnd, NEW j \in next .. InsertBatchEnd,
             ~Large(i), ~Large(j), i < j
      PROVE  FALSE
  <2>1. /\ j - 1 \in next .. InsertBatchEnd - 1 /\ j - 1 + 1 = j /\ i \in next .. j - 1
    BY <1>1, <1>4, <1>5
  <2>2. Ends(j - 1)
    BY <1>5, <2>1
  <2> HIDE DEF Ends
  <2>3. ~Ends(j - 1)
    BY <1>4, <2>1 DEF EndsHere
  <2>4. QED BY <2>2, <2>3
<1>6. ASSUME Command.singly, NEW i \in next .. InsertBatchEnd, NEW j \in next .. InsertBatchEnd,
             ~Large(i), ~Large(j)
      PROVE  i = j
  <2>1. i \in Int /\ j \in Int
    BY <1>1, <1>4
  <2>2. QED BY <1>5, <1>6, <2>1
<1>7. QED BY <1>4, <1>6

-----------------------------------------------------------------------------
(* What is sent, and the result of it.                                     *)

LEMMA DeliverSends ==
    ASSUME Inv, phase = "executing", NEW S \in SUBSET (next .. Command.last),
           NEW what \in {"unsent", "lost", "truncated", "skipped", "unconfirmed", "answered"},
           Deliver(S, what)
    PROVE  /\ sends' \in [Ids -> Nat]
           /\ \A i \in Ids : i \notin S => sends'[i] = sends[i]
           /\ \A i \in S : sends'[i] <= sends[i] + 1
           /\ stream' \in {"open", "closed", "out of step"}
           /\ stream # "open" => stream' # "open"
           /\ what = "truncated" => stream' # "open"
<1>1. sends \in [Ids -> Nat] /\ stream \in {"open", "closed", "out of step"} /\ S \subseteq Ids
  BY Place DEF Inv, Types, BulkTypeOK
<1>2. sends' = [i \in Ids |-> IF i \in S /\ what # "unsent" THEN sends[i] + 1 ELSE sends[i]]
  BY DEF Deliver
<1>3. /\ stream' \in {"open", "closed", "out of step"}
      /\ stream # "open" => stream' # "open"
      /\ what = "truncated" => stream' # "open"
  <2>1. CASE what = "unsent"
    BY <1>1, <2>1 DEF Deliver
  <2>2. CASE what = "lost"
    BY <1>1, <2>2 DEF Deliver
  <2>3. CASE what = "truncated"
    BY <1>1, <2>3 DEF Deliver
  <2>4. CASE what \in {"skipped", "unconfirmed", "answered"}
    BY <1>1, <2>4 DEF Deliver
  <2>5. QED BY <2>1, <2>2, <2>3, <2>4
<1>4. \A i \in Ids : sends[i] \in Nat
  BY <1>1
<1>5. sends' \in [Ids -> Nat]
  BY <1>2, <1>4
<1>6. /\ \A i \in Ids : i \notin S => sends'[i] = sends[i]
      /\ \A i \in S : sends'[i] <= sends[i] + 1
  <2>1. \A i \in Ids : sends'[i] = IF i \in S /\ what # "unsent" THEN sends[i] + 1 ELSE sends[i]
    BY <1>2
  <2>2. ASSUME NEW i \in S PROVE sends'[i] <= sends[i] + 1
    <3>1. sends[i] \in Nat /\ (sends'[i] = sends[i] + 1 \/ sends'[i] = sends[i])
      BY <1>1, <1>4, <2>1
    <3>2. QED BY <3>1
  <2>3. QED BY <2>1, <2>2
<1>7. QED BY <1>3, <1>5, <1>6

\* The operations of a batch without an answer get the same fate.
LEMMA MarkedSends ==
    ASSUME Inv, phase = "executing", NEW S \in SUBSET (next .. Command.last),
           NEW what \in {"unsent", "lost", "skipped", "truncated", "unconfirmed"},
           Deliver(S, what), fate' = Marked(S, what), UNCHANGED late,
           what = "truncated" => result'.error,
           what = "unconfirmed" => ~bulk.acknowledged,
           stream # "open" /\ result.error => result'.error
    PROVE  /\ OnlySent(S)
           /\ \A i \in S : fate'[i] = what
           /\ Ids' = Ids => (what = "truncated" /\ S # {} => ~Trusted')
<1>1. S \subseteq Ids /\ fate \in [Ids -> Fate]
  BY Place DEF Inv, Types
<1>2. /\ fate' \in [Ids -> Fate]
      /\ \A i \in S : fate'[i] = what
      /\ \A i \in Ids : i \notin S => fate'[i] = fate[i]
  BY <1>1 DEF Marked, Fate
<1>3. OnlySent(S)
  BY <1>1, <1>2, DeliverSends DEF OnlySent
<1>4. QED BY <1>1, <1>2, <1>3 DEF Trusted

\* An answer tells of each operation, and of upserted documents for updates only.
LEMMA AnswerSends ==
    ASSUME Inv, phase = "executing", NEW S \in SUBSET (next .. Command.last),
           NEW answer \in Answers(S), NEW concern \in BOOLEAN,
           Answer(S, answer, concern), stream = "open",
           concern => result'.concernErrors > 0
    PROVE  /\ OnlySent(S)
           /\ \A i \in S : /\ fate'[i] = answer[i]
                           /\ answer[i] \in {"applied", "upserted", "rejected", "skipped"}
                           /\ answer[i] = "upserted" => ops[i].upsert
           /\ \A what : With(S, answer, what) = {i \in S : fate'[i] = what}
<1>1. S \subseteq Ids /\ fate \in [Ids -> Fate]
  BY Place DEF Inv, Types
<1>2. \A i \in S : /\ answer[i] \in {"applied", "upserted", "rejected", "skipped"}
                   /\ answer[i] = "upserted" => ops[i].upsert
  BY DEF Answers
<1>3. /\ fate' \in [Ids -> Fate]
      /\ \A i \in S : fate'[i] = answer[i]
      /\ \A i \in Ids : i \notin S => fate'[i] = fate[i]
  BY <1>1, <1>2 DEF Answer, Fate
<1>4. late \subseteq late' /\ late' \subseteq late \cup S /\ (late' # late => result'.concernErrors > 0)
  BY DEF Answer
<1>5. OnlySent(S)
  BY <1>1, <1>2, <1>3, <1>4, DeliverSends DEF OnlySent, Answer
<1>6. QED BY <1>2, <1>3, <1>5 DEF With

\* Operations that are not sent change the result only.
LEMMA NothingSent ==
    ASSUME Inv, phase = "executing", UNCHANGED callVars, UNCHANGED <<fate, sends, late, stream>>,
           NEW indices \in SUBSET Ids, result' = [Failure(result) EXCEPT !.errors = indices],
           indices = result.errors \/ ~bulk.acknowledged \/ bulk.server = "old",
           NEW e \in next - 1 .. Command.last, Moves(e),
           NEW S, S = {}
    PROVE  Turn(S, e)
<1>1. /\ fate \in [Ids -> Fate] /\ sends \in [Ids -> Nat] /\ result \in ResultType
      /\ stream \in {"open", "closed", "out of step"}
      /\ result.upserted \cup result.errors \subseteq Ids
  BY DEF Inv, Types, BulkTypeOK
<1>2. indices \subseteq Nat \ {0}
  BY Place
<1>3. /\ result' \in ResultType /\ result'.failed /\ result'.error
      /\ result'.concernErrors = result.concernErrors
      /\ result'.n = result.n /\ result'.upserted = result.upserted /\ result'.errors = indices
  BY <1>1, <1>2 DEF Failure, ResultType
<1>4. OnlySent(S)
  BY <1>1, <1>3 DEF OnlySent
<1>5. \A what : {i \in S : fate'[i] = what} = {}
  OBVIOUS
<1>6. Cardinality({i \in S : fate'[i] = "applied"}) = 0
  BY <1>5, FS_EmptySet
<1>7. result.n \in Nat /\ result.concernErrors \in Nat
  BY <1>1 DEF ResultType
<1>8. result'.concernErrors >= result.concernErrors
  BY <1>3, <1>7
<1>9. Tells(S, e)
  <2>1. result'.upserted \cup result'.errors \subseteq Ids
    BY <1>1, <1>3
  <2>2. result'.errors = result.errors \cup {i \in S : fate'[i] = "rejected"}
        \/ ~(bulk.acknowledged /\ bulk.server # "old")
    BY <1>3, <1>5
  <2>3. result'.upserted = result.upserted \cup {i \in S : fate'[i] = "upserted"}
    BY <1>3, <1>5
  <2>4. result'.n = result.n + Cardinality({i \in S : fate'[i] = "applied"})
    BY <1>3, <1>6, <1>7
  <2>5. QED BY <1>3, <1>8, <2>1, <2>2, <2>3, <2>4, Zenon DEF Tells
<1>10. QED BY <1>4, <1>9 DEF Turn

LEMMA TooLargeKeepsInv == Inv /\ TooLarge => Inv'
<1> SUFFICES ASSUME Inv, TooLarge PROVE Inv'
  OBVIOUS
<1>1. phase = "executing" /\ bulk.server # "old" /\ bulk.acknowledged
  BY DEF TooLarge, UsesCommand
<1>2. /\ next \in Nat /\ Command.last \in Nat /\ next <= Command.last /\ at \in offset .. next - 1
      /\ next - 1 \in next - 1 .. Command.last
  BY <1>1, Place DEF CommandType
<1>3. result' = Failure(result) /\ Moves(next - 1)
  <2>1. at = next - 1
    BY <1>1 DEF Inv, IndicesFit
  <2>2. CASE EndCommand(Failure(result))
    <3>1. result' = Failure(result) /\ EndCommand(result')
      BY <2>2 DEF EndCommand
    <3>2. result'.failed
      BY <3>1 DEF Failure, Inv, Types, ResultType
    <3>3. QED BY <3>1, <3>2 DEF Moves
  <2>3. CASE GoOn(Failure(result), next - 1, at)
    BY <1>2, <2>1, <2>3 DEF GoOn, Moves
  <2>4. QED BY <2>2, <2>3 DEF TooLarge
<1>4. UNCHANGED callVars /\ UNCHANGED <<fate, sends, late, stream>>
  BY DEF TooLarge
<1>5. /\ Failure(result) = [Failure(result) EXCEPT !.errors = result.errors]
      /\ result.errors \in SUBSET Ids
  BY DEF Failure, Inv, Types, BulkTypeOK, ResultType
<1>6. Turn({}, next - 1)
  BY <1>1, <1>2, <1>3, <1>4, <1>5, NothingSent
<1>7. QED BY <1>1, <1>6, TurnKeepsInv

\* Without an answer the result does not change but for its flags.
LEMMA Untold ==
    ASSUME Inv, phase = "executing", NEW e, NEW S \in SUBSET Ids, UNCHANGED callVars,
           NEW what \in {"unsent", "lost", "skipped", "truncated", "unconfirmed"},
           \A i \in S : fate'[i] = what,
           what = "truncated" => S # {},
           result' \in ResultType,
           result'.n = result.n, result'.upserted = result.upserted,
           result'.concernErrors = result.concernErrors, result'.errors \subseteq Ids,
           result'.errors = result.errors \/ ~bulk.acknowledged \/ bulk.server = "old",
           result.failed \/ result'.mustStop => result'.failed,
           result'.failed \/ (S = next .. e /\ what \in {"unconfirmed", "truncated"})
    PROVE  Tells(S, e)
<1>1. /\ result \in ResultType /\ result.upserted \cup result.errors \subseteq Ids
      /\ result.n \in Nat /\ result.concernErrors \in Nat /\ Ids' = Ids
  BY DEF Inv, Types, BulkTypeOK, ResultType, Ids, callVars
<1>2. \A told \in {"applied", "upserted", "rejected"} : {i \in S : fate'[i] = told} = {}
  OBVIOUS
<1>3. Cardinality({i \in S : fate'[i] = "applied"}) = 0
  BY <1>2, FS_EmptySet
<1>4. result'.concernErrors >= result.concernErrors
  BY <1>1
<1>5. /\ result'.upserted \cup result'.errors \subseteq Ids
      /\ bulk.acknowledged /\ bulk.server # "old" =>
            result'.errors = result.errors \cup {i \in S : fate'[i] = "rejected"}
      /\ result'.upserted = result.upserted \cup {i \in S : fate'[i] = "upserted"}
      /\ result'.n = result.n + Cardinality({i \in S : fate'[i] = "applied"})
  BY <1>1, <1>2, <1>3
<1>6. Trusted' => what # "truncated"
  BY <1>1 DEF Trusted
<1>7. what = "unconfirmed" => \A i \in S : Confirmed(i)'
  BY DEF Confirmed
<1>8. /\ result.failed => result'.failed
      /\ result'.mustStop => result'.failed
      /\ ~result'.failed => S = next .. e
  OBVIOUS
<1>9. Trusted' /\ ~result'.failed => \A i \in S : Confirmed(i)'
  BY <1>6, <1>7
<1>10. QED BY <1>4, <1>5, <1>8, <1>9, Zenon DEF Tells

\* An answer's indices are those of operations in the bulk.
MergeFit(m, S, answer, concern) ==
    /\ m \in ResultType
    /\ m.upserted \cup m.errors \subseteq Ids
    /\ m.n = result.n + Cardinality(With(S, answer, "applied"))
    /\ m.upserted = result.upserted \cup With(S, answer, "upserted")
    /\ m.errors = result.errors \cup With(S, answer, "rejected")
    /\ m.failed <=> (result.failed \/ With(S, answer, "rejected") # {})
    /\ m.mustStop => m.failed
    /\ m.concernErrors >= result.concernErrors
    /\ concern => m.concernErrors > 0

LEMMA MergeFits ==
    ASSUME Inv, phase = "executing", bulk.server # "old", bulk.acknowledged,
           NEW S \in SUBSET (next .. Command.last),
           NEW answer \in Answers(S), NEW concern \in BOOLEAN
    PROVE  MergeFit(Merge(S, answer, concern), S, answer, concern)
<1>1. /\ next \in Nat \ {0} /\ Command.last \in Nat /\ Ids = 1 .. Len(ops) /\ Len(ops) \in Nat
      /\ Command.last <= Len(ops) /\ at = next - 1
  BY Place DEF CommandType, Inv, IndicesFit
<1>2. S \subseteq Ids /\ S \subseteq Nat \ {0}
  BY <1>1
<1> DEFINE Indices(what) == {at + (i - next + 1) : i \in With(S, answer, what)}
<1>3. \A what : With(S, answer, what) \subseteq S
  BY DEF With
<1>4. \A what : Indices(what) = With(S, answer, what)
  <2>1. \A i \in S : at + (i - next + 1) = i
    BY <1>1, <1>2
  <2>2. ASSUME NEW what PROVE Indices(what) = With(S, answer, what)
    <3>1. \A i \in With(S, answer, what) : at + (i - next + 1) = i
      BY <1>3, <2>1
    <3>2. QED BY <3>1
  <2>3. QED BY <2>2
<1> HIDE DEF Indices
<1> DEFINE m == Merge(S, answer, concern)
<1>5. /\ m = [result EXCEPT
            !.n = result.n + Cardinality(With(S, answer, "applied")),
            !.upserted = result.upserted \cup Indices("upserted"),
            !.errors = result.errors \cup Indices("rejected"),
            !.concernErrors = result.concernErrors + (IF concern THEN 1 ELSE 0),
            !.failed = result.failed \/ With(S, answer, "rejected") # {},
            !.error = FALSE]
      /\ result \in ResultType /\ result.upserted \cup result.errors \subseteq Ids
  BY DEF Merge, Indices, Inv, Types, BulkTypeOK
<1> HIDE DEF m
<1>6. Cardinality(With(S, answer, "applied")) \in Nat
  <2>1. With(S, answer, "applied") \in SUBSET (1 .. Len(ops))
    BY <1>1, <1>2, <1>3
  <2>2. IsFiniteSet(1 .. Len(ops))
    BY <1>1, FS_Interval
  <2>3. QED BY <2>1, <2>2, FS_Subset, FS_CardinalityType
<1>7. /\ m.n = result.n + Cardinality(With(S, answer, "applied"))
      /\ m.upserted = result.upserted \cup With(S, answer, "upserted")
      /\ m.errors = result.errors \cup With(S, answer, "rejected")
      /\ m.concernErrors = result.concernErrors + (IF concern THEN 1 ELSE 0)
      /\ m.failed <=> (result.failed \/ With(S, answer, "rejected") # {})
      /\ m.mustStop = result.mustStop /\ m.failed \in BOOLEAN
      /\ result.n \in Nat /\ result.concernErrors \in Nat
  BY <1>4, <1>5 DEF ResultType
<1>8. m \in ResultType
  <2> DEFINE n == result.n + Cardinality(With(S, answer, "applied"))
             u == result.upserted \cup Indices("upserted")
             r == result.errors \cup Indices("rejected")
             c == result.concernErrors + (IF concern THEN 1 ELSE 0)
             f == result.failed \/ With(S, answer, "rejected") # {}
  <2>1. n \in Nat /\ c \in Nat /\ f \in BOOLEAN
    BY <1>6, <1>7
  <2>2. u \in SUBSET (Nat \ {0}) /\ r \in SUBSET (Nat \ {0})
    BY <1>2, <1>3, <1>4, <1>5 DEF ResultType
  <2>3. m = [result EXCEPT !.n = n, !.upserted = u, !.errors = r, !.concernErrors = c,
                                 !.failed = f, !.error = FALSE]
    BY <1>5
  <2> HIDE DEF n, u, r, c, f
  <2>4. QED BY <1>5, <2>1, <2>2, <2>3 DEF ResultType
<1>9. m.concernErrors >= result.concernErrors /\ (concern => m.concernErrors > 0)
  BY <1>7
<1>10. m.upserted \cup m.errors \subseteq Ids
  BY <1>2, <1>3, <1>5, <1>7
<1>11. m.mustStop => m.failed
  BY <1>7 DEF Inv, GhostsFit
<1>12. MergeFit(m, S, answer, concern)
  BY <1>7, <1>8, <1>9, <1>10, <1>11 DEF MergeFit
<1>13. QED BY <1>12 DEF m

\* Of an answer that is read in full the result tells what it says.
LEMMA MergeTells ==
    ASSUME Inv, phase = "executing", UNCHANGED callVars, bulk.server # "old", bulk.acknowledged,
           NEW e, NEW S \in SUBSET (next .. Command.last),
           NEW answer \in Answers(S), NEW concern \in BOOLEAN,
           Answer(S, answer, concern), stream = "open", result' = Merge(S, answer, concern)
    PROVE  OnlySent(S) /\ (S = next .. e => Tells(S, e))
<1>1. MergeFit(result', S, answer, concern)
  BY MergeFits
<1>2. /\ OnlySent(S)
      /\ \A i \in S : /\ fate'[i] = answer[i]
                      /\ answer[i] \in {"applied", "upserted", "rejected", "skipped"}
      /\ \A what : With(S, answer, what) = {i \in S : fate'[i] = what}
  <2>1. concern => result'.concernErrors > 0
    BY <1>1, Zenon DEF MergeFit
  <2>2. /\ OnlySent(S)
        /\ \A i \in S : /\ fate'[i] = answer[i]
                        /\ answer[i] \in {"applied", "upserted", "rejected", "skipped"}
                        /\ answer[i] = "upserted" => ops[i].upsert
        /\ \A what : With(S, answer, what) = {i \in S : fate'[i] = what}
    BY <2>1, AnswerSends
  <2>3. QED BY <2>2, Zenon
<1>3. S \subseteq Ids /\ Ids' = Ids
  BY Place DEF callVars, Ids
<1>4. ~result'.failed => \A i \in S : Confirmed(i)'
  <2> SUFFICES ASSUME ~result'.failed, NEW i \in S PROVE Confirmed(i)'
    OBVIOUS
  <2>1. With(S, answer, "rejected") = {}
    BY <1>1 DEF MergeFit
  <2>2. answer[i] # "rejected" /\ answer[i] # "skipped"
    BY <2>1 DEF Answers, With
  <2>3. QED BY <1>2, <1>3, <2>2 DEF Confirmed, Applied
<1>5. QED BY <1>1, <1>2, <1>4 DEF Tells, MergeFit

\* One batch and its round trip.
LEMMA RunBatchKeepsInv == Inv /\ RunBatch => Inv'
<1> SUFFICES ASSUME Inv, RunBatch PROVE Inv'
  OBVIOUS
<1> DEFINE e == BatchEnd
           S == next .. e
           Proceed(r, ret) ==
               IF e < Command.last /\ (ret \/ ~bulk.ordered) /\ ~r.mustStop
               THEN GoOn(r, e, at + (e - next + 1)) ELSE EndCommand(r)
<1>1. /\ phase = "executing" /\ bulk.server # "old" /\ bulk.acknowledged
      /\ S # {} /\ UNCHANGED callVars
  BY DEF RunBatch, UsesCommand
<1>2. \/ \E what \in {"unsent", "lost"} :
            /\ Deliver(S, what) /\ fate' = Marked(S, what) /\ UNCHANGED late
            /\ Proceed([Failure(result) EXCEPT !.mustStop = TRUE], FALSE)
      \/ /\ stream = "open"
         /\ \E answer \in Answers(S), concern \in BOOLEAN :
               Answer(S, answer, concern) /\ Proceed(Merge(S, answer, concern), TRUE)
      \/ /\ stream = "open"
         /\ Deliver(S, "skipped") /\ fate' = Marked(S, "skipped") /\ UNCHANGED late
         /\ Proceed(Failure(result), FALSE)
      \/ /\ stream = "open"
         /\ \E answer \in Answers(S), ret \in BOOLEAN : \E r \in {result, Merge(S, answer, FALSE)} :
               /\ Deliver(S, "truncated") /\ fate' = Marked(S, "truncated") /\ UNCHANGED late
               /\ Proceed([r EXCEPT !.failed = r.failed \/ ~ret, !.error = TRUE], ret)
  BY ZenonT(30) DEF RunBatch
<1>3. e \in next - 1 .. Command.last
  BY <1>1, BatchEndFits
<1> HIDE DEF e
<1>4. /\ next \in Nat \ {0} /\ Command.last \in Nat /\ next <= Command.last
      /\ at = next - 1 /\ offset \in Nat /\ offset <= at
      /\ Ids = 1 .. Len(ops) /\ Len(ops) \in Nat /\ Command.last <= Len(ops)
      /\ offset \in Nat /\ offset <= next - 1
  <2>1. at = next - 1
    BY <1>1 DEF Inv, IndicesFit
  <2>2. QED BY <1>1, <2>1, Place, SMTT(30) DEF CommandType
<1>5. /\ e \in next .. Command.last /\ e \in Int /\ e >= next
      /\ S \in SUBSET (next .. Command.last) /\ S \in SUBSET Ids /\ S \subseteq next .. e
  BY <1>1, <1>3, <1>4
<1>6. /\ result \in ResultType /\ (result.mustStop => result.failed)
      /\ result.upserted \cup result.errors \subseteq Ids
  BY DEF Inv, Types, BulkTypeOK, GhostsFit
<1>7. ASSUME NEW r, NEW ret \in BOOLEAN, Proceed(r, ret), ~r.failed => ret /\ ~r.mustStop
      PROVE  result' = r /\ Moves(e)
  <2>1. CASE e < Command.last /\ (ret \/ ~bulk.ordered) /\ ~r.mustStop
    <3>1. /\ result' = r /\ next' = e + 1 /\ at' = at + (e - next + 1)
          /\ UNCHANGED <<phase, current, offset>>
      BY <1>7, <2>1 DEF GoOn
    <3>2. at' = e /\ at' \in offset .. e
      BY <1>4, <1>5, <3>1
    <3>3. QED BY <2>1, <3>1, <3>2 DEF Moves
  <2>2. CASE ~(e < Command.last /\ (ret \/ ~bulk.ordered) /\ ~r.mustStop)
    <3>1. EndCommand(r) /\ result' = r
      BY <1>7, <2>2 DEF EndCommand
    <3>2. ~r.failed => e = Command.last
      BY <1>4, <1>5, <1>7, <2>2
    <3>3. QED BY <3>1, <3>2 DEF Moves
  <2>3. QED BY <2>1, <2>2
<1> HIDE DEF S, Proceed
<1>8. ASSUME OnlySent(S), Tells(S, e), Moves(e)
      PROVE  Inv'
  <2>1. Turn(S, e)
    BY <1>1, <1>3, <1>5, <1>8 DEF Turn
  <2>2. QED BY <1>1, <2>1, TurnKeepsInv
<1>9. CASE \E what \in {"unsent", "lost"} :
              /\ Deliver(S, what) /\ fate' = Marked(S, what) /\ UNCHANGED late
              /\ Proceed([Failure(result) EXCEPT !.mustStop = TRUE], FALSE)
  <2>1. PICK what \in {"unsent", "lost"} :
              /\ Deliver(S, what) /\ fate' = Marked(S, what) /\ UNCHANGED late
              /\ Proceed([Failure(result) EXCEPT !.mustStop = TRUE], FALSE)
    BY <1>9
  <2> DEFINE r == [Failure(result) EXCEPT !.mustStop = TRUE]
  <2>2. /\ r \in ResultType /\ r.failed /\ r.error /\ r.n = result.n /\ r.upserted = result.upserted
        /\ r.errors = result.errors /\ r.concernErrors = result.concernErrors
    BY <1>6 DEF Failure, ResultType
  <2>3. Proceed(r, FALSE)
    BY <2>1
  <2> HIDE DEF r
  <2>4. result' = r /\ Moves(e)
    BY <1>7, <2>2, <2>3
  <2>5. OnlySent(S) /\ \A i \in S : fate'[i] = what
    BY <1>1, <1>5, <2>1, <2>2, <2>4, MarkedSends
  <2>6. Tells(S, e)
    BY <1>1, <1>5, <1>6, <2>2, <2>4, <2>5, Untold
  <2>7. QED BY <1>8, <2>4, <2>5, <2>6
<1>10. CASE /\ stream = "open"
            /\ \E answer \in Answers(S), concern \in BOOLEAN :
                  Answer(S, answer, concern) /\ Proceed(Merge(S, answer, concern), TRUE)
  <2>1. PICK answer \in Answers(S), concern \in BOOLEAN :
                  Answer(S, answer, concern) /\ Proceed(Merge(S, answer, concern), TRUE)
    BY <1>10
  <2>2. /\ Merge(S, answer, concern).mustStop = result.mustStop
        /\ ~Merge(S, answer, concern).failed => ~result.failed
    BY <1>6 DEF Merge, ResultType
  <2>3. result' = Merge(S, answer, concern) /\ Moves(e)
    BY <1>6, <1>7, <2>1, <2>2
  <2>4. OnlySent(S) /\ Tells(S, e)
    <3>1. S = next .. e
      BY DEF S
    <3>2. OnlySent(S) /\ (S = next .. e => Tells(S, e))
      BY <1>1, <1>5, <1>10, <2>1, <2>3, MergeTells
    <3>3. QED BY <3>1, <3>2
  <2>5. QED BY <1>8, <2>3, <2>4
<1>11. CASE /\ stream = "open"
            /\ Deliver(S, "skipped") /\ fate' = Marked(S, "skipped") /\ UNCHANGED late
            /\ Proceed(Failure(result), FALSE)
  <2> DEFINE r == Failure(result)
  <2>1. /\ r \in ResultType /\ r.failed /\ r.error /\ r.n = result.n /\ r.upserted = result.upserted
        /\ r.errors = result.errors /\ r.concernErrors = result.concernErrors
    BY <1>6 DEF Failure, ResultType
  <2>2. Proceed(r, FALSE)
    BY <1>11
  <2> HIDE DEF r
  <2>3. result' = r /\ Moves(e)
    BY <1>7, <2>1, <2>2
  <2>4. OnlySent(S) /\ \A i \in S : fate'[i] = "skipped"
    BY <1>1, <1>5, <1>11, <2>1, <2>3, MarkedSends
  <2>5. Tells(S, e)
    BY <1>1, <1>5, <1>6, <2>1, <2>3, <2>4, Untold
  <2>6. QED BY <1>8, <2>3, <2>4, <2>5
<1>12. CASE /\ stream = "open"
            /\ \E answer \in Answers(S), ret \in BOOLEAN : \E r \in {result, Merge(S, answer, FALSE)} :
                  /\ Deliver(S, "truncated") /\ fate' = Marked(S, "truncated") /\ UNCHANGED late
                  /\ Proceed([r EXCEPT !.failed = r.failed \/ ~ret, !.error = TRUE], ret)
  <2>1. PICK answer \in Answers(S), ret \in BOOLEAN : \E r \in {result, Merge(S, answer, FALSE)} :
                  /\ Deliver(S, "truncated") /\ fate' = Marked(S, "truncated") /\ UNCHANGED late
                  /\ Proceed([r EXCEPT !.failed = r.failed \/ ~ret, !.error = TRUE], ret)
    BY <1>12
  <2>2. PICK r \in {result, Merge(S, answer, FALSE)} :
                  Proceed([r EXCEPT !.failed = r.failed \/ ~ret, !.error = TRUE], ret)
    BY <2>1
  <2>3. /\ r \in ResultType /\ r.upserted \cup r.errors \subseteq Ids
        /\ r.concernErrors >= result.concernErrors
        /\ result.failed => r.failed
        /\ r.mustStop => r.failed
    <3>1. CASE r = result
      BY <1>6, <3>1 DEF ResultType
    <3>2. CASE r = Merge(S, answer, FALSE)
      BY <1>1, <1>5, <3>2, MergeFits DEF MergeFit
    <3>3. QED BY <2>2, <3>1, <3>2
  <2> DEFINE q == [r EXCEPT !.failed = r.failed \/ ~ret, !.error = TRUE]
  <2>4. /\ q \in ResultType /\ q.upserted \cup q.errors \subseteq Ids
        /\ q.concernErrors >= result.concernErrors /\ q.error
        /\ q.failed <=> (r.failed \/ ~ret)
        /\ q.mustStop = r.mustStop
    BY <2>3 DEF ResultType
  <2>5. Proceed(q, ret)
    BY <2>2
  <2> HIDE DEF q
  <2>6. result' = q /\ Moves(e)
    BY <1>7, <2>3, <2>4, <2>5
  <2>7. OnlySent(S) /\ (Ids' = Ids => (S # {} => ~Trusted'))
    BY <1>1, <1>5, <2>1, <2>4, <2>6, MarkedSends
  <2>8. ~Trusted' /\ (~result'.failed => S = next .. e)
    BY <1>1, <2>7 DEF S, Ids, callVars
  <2>9. Tells(S, e)
    BY <2>3, <2>4, <2>6, <2>8 DEF Tells
  <2>10. QED BY <1>8, <2>6, <2>7, <2>9
<1>13. QED BY <1>2, <1>9, <1>10, <1>11, <1>12

-----------------------------------------------------------------------------
(* The legacy opcodes.                                                     *)

\* What the caller of a legacy write has of a result before its message is sent: operations
\* that are too large may have failed already.
Checked(r) ==
    /\ r \in ResultType
    /\ r.n = result.n /\ r.upserted = result.upserted /\ r.concernErrors = result.concernErrors
    /\ r.mustStop = result.mustStop /\ r.errors \subseteq Ids
    /\ r = result \/ (r.failed /\ r.error)

LEMMA NextPlace ==
    ASSUME Inv, phase = "executing"
    PROVE  /\ next \in Nat \ {0} /\ Ids = 1 .. Len(ops) /\ Len(ops) \in Nat /\ next <= Len(ops)
           /\ at \in Nat /\ at + 1 <= next /\ current \in DOMAIN commands
BY Place DEF CommandType

\* The answer to a legacy write tells of one operation, or of an insert that is not counted.
LEMMA LegacyMergeTells ==
    ASSUME Inv, phase = "executing", UNCHANGED callVars, bulk.server = "old", bulk.acknowledged,
           NEW e, NEW S \in SUBSET (next .. Command.last), S # {},
           Command.singly => \A i, j \in S : i = j,
           Command.type = "insert" \/ (S = {next} /\ at = next - 1),
           NEW r, Checked(r),
           NEW answer \in Answers(S), NEW concern \in BOOLEAN, stream = "open",
           concern => With(S, answer, "rejected") = {},
           Answer(S, answer, concern), result' = MergeLegacy(r, S, answer, concern)
    PROVE  OnlySent(S) /\ (result'.failed \/ S = next .. e => Tells(S, e))
<1>1. /\ next \in Nat \ {0} /\ Ids = 1 .. Len(ops) /\ Len(ops) \in Nat /\ next \in Ids
      /\ at \in Nat /\ at + 1 \in Ids /\ S \subseteq Ids /\ current \in DOMAIN commands
      /\ \A i \in S : ops[i] \in OperationType /\ ops[i].type = Command.type
      /\ Ids' = Ids
  <2>1. /\ next \in Nat \ {0} /\ Ids = 1 .. Len(ops) /\ Len(ops) \in Nat /\ next <= Len(ops)
        /\ at \in Nat /\ at + 1 <= next /\ current \in DOMAIN commands
    BY NextPlace, Zenon
  <2>2. next \in Ids /\ at + 1 \in Ids
    BY <2>1
  <2>3. S \subseteq Ids /\ \A i \in S : ops[i] \in OperationType /\ ops[i].type = Command.type
    BY Place
  <2>4. Ids' = Ids
    BY DEF callVars, Ids
  <2>5. QED BY <2>1, <2>2, <2>3, <2>4
<1>2. r \in ResultType /\ Checked(r) /\ result \in ResultType
  BY DEF Checked, Inv, Types
<1> DEFINE counted == IF concern /\ Command.type = "insert" THEN {} ELSE S
           applied == With(counted, answer, "applied")
           upserted == {at + 1 : i \in With(S, answer, "upserted")}
<1>3. IsFiniteSet(S) /\ applied \subseteq S /\ Cardinality(applied) \in Nat
  <2>1. IsFiniteSet(S)
    <3>1. IsFiniteSet(1 .. Len(ops))
      BY <1>1, FS_Interval
    <3>2. QED BY <1>1, <3>1, FS_Subset
  <2>2. applied \in SUBSET S
    BY DEF With
  <2>3. QED BY <2>1, <2>2, FS_Subset, FS_CardinalityType
<1>4. upserted \subseteq Ids /\ upserted \subseteq Nat \ {0} /\ at + 1 \in Nat \ {0}
  BY <1>1
<1>5. /\ With(S, answer, "rejected") # {} =>
            /\ result' = [Failure(r) EXCEPT !.errors = r.errors \cup {at + 1}]
            /\ ~concern
      /\ With(S, answer, "rejected") = {} =>
            result' = [r EXCEPT !.n = r.n + Cardinality(applied),
                                !.upserted = r.upserted \cup upserted,
                                !.concernErrors = r.concernErrors + (IF concern THEN 1 ELSE 0)]
  BY DEF MergeLegacy
<1> HIDE DEF counted, applied, upserted
<1>6. /\ result' \in ResultType
      /\ result'.upserted \cup result'.errors \subseteq Ids
      /\ r.failed => result'.failed
      /\ r.error => result'.error
      /\ result'.mustStop = r.mustStop
      /\ With(S, answer, "rejected") # {} => /\ result'.failed /\ result'.n = r.n
                                             /\ result'.upserted = r.upserted
      /\ With(S, answer, "rejected") = {} => /\ result'.n = r.n + Cardinality(applied)
                                             /\ result'.upserted = r.upserted \cup upserted
      /\ result'.concernErrors = r.concernErrors + (IF concern THEN 1 ELSE 0)
  <2>1. r.upserted \cup r.errors \subseteq Ids
    BY DEF Checked, Inv, Types, BulkTypeOK
  <2>2. CASE With(S, answer, "rejected") # {}
    <3> DEFINE indices == r.errors \cup {at + 1}
    <3>1. indices \in SUBSET (Nat \ {0}) /\ indices \subseteq Ids
      BY <1>1, <1>2, <1>4, <2>1 DEF ResultType
    <3>2. result' = [Failure(r) EXCEPT !.errors = indices] /\ ~concern
      BY <1>5, <2>2
    <3> HIDE DEF indices
    <3>3. /\ result' \in ResultType /\ result'.n = r.n /\ result'.upserted = r.upserted
          /\ result'.concernErrors = r.concernErrors /\ result'.errors = indices
          /\ result'.failed /\ result'.error /\ result'.mustStop = r.mustStop
      BY <1>2, <3>1, <3>2 DEF Failure, ResultType
    <3>4. r.concernErrors + 0 = r.concernErrors
      BY <1>2 DEF ResultType
    <3>5. QED BY <2>1, <2>2, <3>1, <3>2, <3>3, <3>4
  <2>3. CASE With(S, answer, "rejected") = {}
    <3> DEFINE n == r.n + Cardinality(applied)
               u == r.upserted \cup upserted
               c == r.concernErrors + (IF concern THEN 1 ELSE 0)
    <3>1. n \in Nat /\ c \in Nat /\ u \in SUBSET (Nat \ {0})
      <4>1. r.n \in Nat /\ r.concernErrors \in Nat /\ r.upserted \in SUBSET (Nat \ {0})
        BY <1>2 DEF ResultType
      <4>2. n \in Nat
        BY <1>3, <4>1
      <4>3. c \in Nat
        BY <4>1
      <4>4. u \in SUBSET (Nat \ {0})
        BY <1>4, <4>1
      <4>5. QED BY <4>2, <4>3, <4>4
    <3>2. result' = [r EXCEPT !.n = n, !.upserted = u, !.concernErrors = c]
      BY <1>5, <2>3
    <3>3. u \subseteq Ids
      BY <1>4, <2>1
    <3> HIDE DEF n, u, c
    <3>4. /\ result' \in ResultType /\ result'.n = n /\ result'.upserted = u
          /\ result'.concernErrors = c /\ result'.errors = r.errors /\ result'.failed = r.failed
          /\ result'.error = r.error /\ result'.mustStop = r.mustStop
      BY <1>2, <3>1, <3>2 DEF ResultType
    <3>5. QED BY <2>1, <2>3, <3>3, <3>4 DEF n, u, c
  <2>4. QED BY <2>2, <2>3
<1>7. result'.concernErrors >= result.concernErrors /\ (concern => result'.concernErrors > 0)
  BY <1>2, <1>6 DEF Checked, ResultType
<1>8. /\ OnlySent(S)
      /\ \A i \in S : /\ fate'[i] = answer[i]
                      /\ answer[i] \in {"applied", "upserted", "rejected", "skipped"}
                      /\ answer[i] = "upserted" => ops[i].upsert
      /\ \A what : With(S, answer, what) = {i \in S : fate'[i] = what}
  BY <1>7, AnswerSends
<1>9. Command.type = "insert" => With(S, answer, "upserted") = {}
  <2>1. \A i \in S : ops[i] \in Operation
    BY <1>1 DEF Inv, Types, BulkTypeOK
  <2>2. QED BY <1>1, <1>8, <2>1, OperationAssumption DEF With
<1>10. ~result'.failed => \A i \in S : Confirmed(i)'
  <2> SUFFICES ASSUME ~result'.failed, NEW i \in S PROVE Confirmed(i)'
    OBVIOUS
  <2>1. With(S, answer, "rejected") = {}
    BY <1>6
  <2>2. answer[i] # "rejected" /\ answer[i] # "skipped"
    BY <2>1 DEF Answers, With
  <2>3. QED BY <1>1, <1>8, <2>2 DEF Confirmed, Applied
<1>11. result'.upserted = result.upserted \cup With(S, answer, "upserted")
  <2>1. CASE With(S, answer, "rejected") # {} /\ S = {next}
    BY <1>6, <2>1 DEF With, Checked
  <2>2. CASE With(S, answer, "rejected") # {} /\ Command.type = "insert"
    BY <1>6, <1>9, <2>2 DEF Checked
  <2>3. CASE With(S, answer, "rejected") = {} /\ S = {next} /\ at = next - 1
    <3>1. upserted = With(S, answer, "upserted")
      BY <1>1, <2>3 DEF upserted, With
    <3>2. QED BY <1>6, <2>3, <3>1 DEF Checked
  <2>4. CASE With(S, answer, "rejected") = {} /\ Command.type = "insert"
    BY <1>6, <1>9, <2>4 DEF Checked, upserted
  <2>5. QED BY <2>1, <2>2, <2>3, <2>4
<1>12. ~Uncounted' => result'.n = result.n + Cardinality(With(S, answer, "applied"))
  <2> SUFFICES ASSUME ~Uncounted'
               PROVE  result'.n = result.n + Cardinality(With(S, answer, "applied"))
    OBVIOUS
  <2>1. Command.singly /\ \A i \in late' : ops[i].type # "insert"
    BY <1>1 DEF Uncounted, Command, callVars
  <2>2. CASE With(S, answer, "rejected") # {}
    <3>1. With(S, answer, "applied") = {}
      BY <2>1, <2>2 DEF With
    <3>2. result'.n = result.n /\ result.n \in Nat
      BY <1>2, <1>6, <2>2 DEF Checked, ResultType
    <3>3. Cardinality(With(S, answer, "applied")) = 0
      BY <3>1, FS_EmptySet
    <3>4. QED BY <3>2, <3>3
  <2>3. CASE With(S, answer, "rejected") = {}
    <3>1. ~(concern /\ Command.type = "insert")
      <4>1. concern => S \subseteq late'
        BY DEF Answer
      <4>2. QED BY <1>1, <2>1, <4>1
    <3>2. applied = With(S, answer, "applied")
      BY <3>1 DEF applied, counted
    <3>3. QED BY <1>6, <2>3, <3>2 DEF Checked
  <2>4. QED BY <2>2, <2>3
<1>13. /\ result.failed => result'.failed
       /\ result'.mustStop => result'.failed
  BY <1>6 DEF Checked, Inv, GhostsFit
<1>14. QED BY <1>6, <1>7, <1>8, <1>10, <1>11, <1>12, <1>13 DEF Tells

\* Whatever the client learns of a legacy write, its result tells no more than that.
LEMMA LegacyTells ==
    ASSUME Inv, phase = "executing", UNCHANGED callVars, bulk.server = "old" \/ ~bulk.acknowledged,
           NEW e, NEW S \in SUBSET (next .. Command.last), S # {},
           Command.singly => \A i, j \in S : i = j,
           Command.type = "insert" \/ S = {next},
           NEW r, Checked(r),
           NEW reply \in LegacyReplies(S), SendLegacy(S, reply), result' = LegacyResult(r, S, reply)
    PROVE  /\ reply.what \in Outcome
           /\ r.failed => result'.failed
           /\ ~result'.failed => reply.what \notin {"unsent", "lost"}
           /\ OnlySent(S)
           /\ result'.failed \/ S = next .. e => Tells(S, e)
<1>1. r \in ResultType /\ result \in ResultType /\ (r = result \/ (r.failed /\ r.error))
  BY DEF Checked, Inv, Types
<1>2. reply.what \in Outcome /\ Outcome \subseteq {"unsent", "lost", "unconfirmed", "answered"}
  BY DEF LegacyReplies, Outcome
<1>3. CASE reply.what = "answered"
  <2>1. /\ reply.answer \in Answers(S) /\ reply.concern \in BOOLEAN
        /\ reply.concern => With(S, reply.answer, "rejected") = {}
    BY <1>3 DEF LegacyReplies
  <2>2. bulk.acknowledged /\ stream = "open" /\ bulk.server = "old"
    BY <1>2, <1>3 DEF Outcome
  <2>3. /\ Answer(S, reply.answer, reply.concern)
        /\ result' = MergeLegacy(r, S, reply.answer, reply.concern)
    BY <1>3 DEF SendLegacy, LegacyResult
  <2>4. Command.type = "insert" \/ (S = {next} /\ at = next - 1)
    BY <2>2 DEF Inv, IndicesFit
  <2>5. OnlySent(S) /\ (result'.failed \/ S = next .. e => Tells(S, e))
    BY <2>1, <2>2, <2>3, <2>4, LegacyMergeTells
  <2>6. r.failed => result'.failed
    BY <1>1, <2>3 DEF MergeLegacy, Failure, ResultType
  <2>7. QED BY <1>2, <1>3, <2>5, <2>6
<1>4. CASE reply.what # "answered"
  <2>1. /\ reply.what \in {"unsent", "lost", "unconfirmed"}
        /\ Deliver(S, reply.what) /\ fate' = Marked(S, reply.what) /\ UNCHANGED late
        /\ reply.what = "unconfirmed" => ~bulk.acknowledged
    BY <1>2, <1>4 DEF SendLegacy, Outcome
  <2>2. result' = IF reply.what = "unconfirmed" THEN r ELSE Failure(r)
    BY <1>4 DEF LegacyResult
  <2>3. /\ result' \in ResultType /\ result'.n = r.n /\ result'.upserted = r.upserted
        /\ result'.errors = r.errors /\ result'.concernErrors = r.concernErrors
        /\ result'.mustStop = r.mustStop /\ (r.failed => result'.failed)
        /\ r.error => result'.error
        /\ reply.what # "unconfirmed" => result'.failed /\ result'.error
    BY <1>1, <2>2 DEF Failure, ResultType
  <2>4. result.error => result'.error
    BY <1>1, <2>3
  <2>5. S \subseteq Ids
    BY Place
  <2>6. OnlySent(S) /\ \A i \in S : fate'[i] = reply.what
    BY <2>1, <2>4, MarkedSends
  <2>7. result.failed \/ result'.mustStop => result'.failed
    BY <1>1, <2>3 DEF Checked, Inv, GhostsFit
  <2>8. result'.failed \/ S = next .. e => Tells(S, e)
    BY <2>1, <2>3, <2>5, <2>6, <2>7, Untold DEF Checked
  <2>9. QED BY <1>2, <2>1, <2>3, <2>6, <2>8
<1>5. QED BY <1>3, <1>4

\* An update or a delete is one operation.
LEMMA LegacyWriteKeepsInv == Inv /\ LegacyWrite => Inv'
<1> SUFFICES ASSUME Inv, LegacyWrite PROVE Inv'
  OBVIOUS
<1> DEFINE Proceed(what, r) ==
               IF next < Command.last /\ what \notin {"unsent", "lost"}
               THEN GoOn(r, next, IF what = "answered" THEN at + 1 ELSE at)
               ELSE EndCommand(r)
<1>1. /\ phase = "executing" /\ (bulk.server = "old" \/ ~bulk.acknowledged)
      /\ Command.type # "insert" /\ UNCHANGED callVars
  BY DEF LegacyWrite, UsesOpcodes
<1>2. \/ EndCommand(Failure(result)) /\ UNCHANGED <<fate, sends, late, stream>>
      \/ \E reply \in LegacyReplies({next}) :
            /\ SendLegacy({next}, reply)
            /\ Proceed(reply.what, LegacyResult(result, {next}, reply))
  BY Zenon DEF LegacyWrite
<1>3. /\ next \in Nat \ {0} /\ Command.last \in Nat /\ next <= Command.last
      /\ at \in Nat /\ offset \in Nat /\ offset <= at /\ at <= next - 1
      /\ next - 1 \in next - 1 .. Command.last /\ next \in next - 1 .. Command.last
      /\ {next} \in SUBSET (next .. Command.last) /\ {next} \subseteq next .. next
  <2>1. /\ next \in Nat \ {0} /\ Command.last \in Nat /\ next <= Command.last
        /\ at \in Nat /\ offset \in Nat /\ offset <= at /\ at <= next - 1
    BY <1>1, Place DEF CommandType
  <2>2. QED BY <2>1
<1>4. result \in ResultType /\ result.errors \in SUBSET Ids
  BY DEF Inv, Types, BulkTypeOK
<1>5. CASE EndCommand(Failure(result)) /\ UNCHANGED <<fate, sends, late, stream>>
  <2>1. result' = Failure(result) /\ EndCommand(result')
    BY <1>5 DEF EndCommand
  <2>2. Moves(next - 1)
    BY <1>4, <2>1 DEF Moves, Failure, ResultType
  <2>3. Failure(result) = [Failure(result) EXCEPT !.errors = result.errors]
    BY <1>4 DEF Failure, ResultType
  <2>4. Turn({}, next - 1)
    BY <1>1, <1>3, <1>4, <1>5, <2>1, <2>2, <2>3, NothingSent
  <2>5. QED BY <1>1, <2>4, TurnKeepsInv
<1>6. CASE \E reply \in LegacyReplies({next}) :
              /\ SendLegacy({next}, reply)
              /\ Proceed(reply.what, LegacyResult(result, {next}, reply))
  <2>1. PICK reply \in LegacyReplies({next}) :
              /\ SendLegacy({next}, reply)
              /\ Proceed(reply.what, LegacyResult(result, {next}, reply))
    BY <1>6
  <2> DEFINE r == LegacyResult(result, {next}, reply)
  <2>2. result' = r
    BY <2>1 DEF GoOn, EndCommand
  <2>3. Checked(result)
    BY <1>4 DEF Checked
  <2>4. /\ reply.what \in Outcome
        /\ result.failed => result'.failed
        /\ ~result'.failed => reply.what \notin {"unsent", "lost"}
        /\ OnlySent({next})
        /\ result'.failed \/ {next} = next .. next => Tells({next}, next)
    BY <1>1, <1>3, <2>1, <2>2, <2>3, LegacyTells
  <2>5. {next} = next .. next
    BY <1>3
  <2>6. Moves(next)
    <3>1. CASE next < Command.last /\ reply.what \notin {"unsent", "lost"}
      <4>1. /\ next' = next + 1 /\ at' = IF reply.what = "answered" THEN at + 1 ELSE at
            /\ UNCHANGED <<phase, current, offset>>
        BY <2>1, <3>1 DEF GoOn
      <4>2. bulk.acknowledged => reply.what = "answered" /\ at = next - 1
        BY <1>1, <2>4, <3>1 DEF Outcome, Inv, IndicesFit
      <4>3. at' \in offset .. next /\ (bulk.acknowledged => at' = next)
        BY <1>3, <4>1, <4>2
      <4>4. QED BY <3>1, <4>1, <4>3 DEF Moves
    <3>2. CASE ~(next < Command.last /\ reply.what \notin {"unsent", "lost"})
      <4>1. EndCommand(result')
        BY <2>1, <2>2, <3>2
      <4>2. ~result'.failed => next = Command.last
        BY <1>3, <2>4, <3>2
      <4>3. QED BY <4>1, <4>2 DEF Moves
    <3>3. QED BY <3>1, <3>2
  <2>7. Turn({next}, next)
    BY <1>1, <1>3, <2>4, <2>5, <2>6 DEF Turn
  <2>8. QED BY <1>1, <2>7, TurnKeepsInv
<1>7. QED BY <1>2, <1>5, <1>6

\* An insert is the operations of a message and those among them that are too large.
LEMMA LegacyInsertKeepsInv == Inv /\ LegacyInsert => Inv'
<1> SUFFICES ASSUME Inv, LegacyInsert PROVE Inv'
  OBVIOUS
<1> DEFINE e == InsertBatchEnd
           tooLarge == {i \in next .. e : Large(i)}
           S == (next .. e) \ tooLarge
           index(i) == offset + i - Command.first + 1
           checked == IF tooLarge = {} THEN result
                      ELSE [Failure(result) EXCEPT
                               !.errors = result.errors \cup {index(i) : i \in tooLarge}]
           Proceed(what, r) ==
               IF e < Command.last /\ ~(bulk.ordered /\ e \in tooLarge)
               THEN GoOn(r, e, IF what = "answered" THEN index(e) ELSE at)
               ELSE EndCommand(r)
<1>1. /\ phase = "executing" /\ (bulk.server = "old" \/ ~bulk.acknowledged)
      /\ Command.type = "insert" /\ UNCHANGED callVars
  BY DEF LegacyInsert, UsesOpcodes
<1>2. \/ S = {} /\ Proceed("none", checked) /\ UNCHANGED <<fate, sends, late, stream>>
      \/ /\ S # {}
         /\ \E reply \in LegacyReplies(S) :
               SendLegacy(S, reply) /\ Proceed(reply.what, LegacyResult(checked, S, reply))
  BY Zenon DEF LegacyInsert
<1>3. /\ e \in next .. Command.last
      /\ Command.singly => \A i, j \in next .. e : ~Large(i) /\ ~Large(j) => i = j
  BY <1>1, InsertBatchEndFits
<1> HIDE DEF e
<1>4. /\ next \in Nat \ {0} /\ Command.last \in Nat /\ next <= Command.last /\ e \in Int
      /\ e >= next /\ e <= Command.last /\ e \in next - 1 .. Command.last
      /\ at \in Nat /\ offset \in Nat /\ offset <= at /\ at <= next - 1
      /\ offset = Command.first - 1 /\ Command.first \in Nat
      /\ Ids = 1 .. Len(ops) /\ Len(ops) \in Nat /\ Command.last <= Len(ops)
  BY <1>1, <1>3, Place DEF CommandType
<1>5. /\ tooLarge \subseteq Ids /\ S \in SUBSET (next .. Command.last) /\ S \subseteq next .. e
      /\ next .. e # {} /\ (tooLarge = {} => S = next .. e)
      /\ Command.singly => \A i, j \in S : i = j
  BY <1>3, <1>4, SMTT(30)
<1>6. \A i \in Int : index(i) = i
  BY <1>4
<1>7. index(e) = e /\ {index(i) : i \in tooLarge} = tooLarge
  <2>1. \A i \in tooLarge : index(i) = i
    BY <1>4, <1>5, <1>6
  <2> HIDE DEF index, tooLarge
  <2>2. QED BY <1>4, <1>6, <2>1
<1> HIDE DEF index
<1>8. /\ result \in ResultType /\ result.errors \cup tooLarge \in SUBSET Ids
      /\ result.errors \in SUBSET Ids
  BY <1>5 DEF Inv, Types, BulkTypeOK
<1>9. checked = IF tooLarge = {} THEN result
                ELSE [Failure(result) EXCEPT !.errors = result.errors \cup tooLarge]
  BY <1>7
<1>10. Checked(checked) /\ (tooLarge # {} => checked.failed)
  <2>1. CASE tooLarge = {}
    BY <1>8, <1>9, <2>1 DEF Checked
  <2>2. CASE tooLarge # {}
    <3> DEFINE indices == result.errors \cup tooLarge
    <3>1. indices \in SUBSET (Nat \ {0})
      BY <1>4, <1>8
    <3>2. checked = [Failure(result) EXCEPT !.errors = indices]
      BY <1>9, <2>2
    <3>3. indices \subseteq Ids
      BY <1>8
    <3> HIDE DEF indices
    <3>4. QED BY <1>8, <3>1, <3>2, <3>3 DEF Checked, Failure, ResultType
  <2>3. QED BY <2>1, <2>2
<1> HIDE DEF checked, S, tooLarge
<1>11. ASSUME NEW what, NEW r, Proceed(what, r), tooLarge # {} => r.failed
       PROVE  result' = r /\ Moves(e)
  <2>1. CASE e < Command.last /\ ~(bulk.ordered /\ e \in tooLarge)
    <3>1. /\ result' = r /\ next' = e + 1 /\ at' = IF what = "answered" THEN index(e) ELSE at
          /\ UNCHANGED <<phase, current, offset>>
      BY <1>11, <2>1 DEF GoOn
    <3>2. at' \in offset .. e
      BY <1>4, <1>7, <3>1
    <3>3. QED BY <1>1, <2>1, <3>1, <3>2 DEF Moves
  <2>2. CASE ~(e < Command.last /\ ~(bulk.ordered /\ e \in tooLarge))
    <3>1. EndCommand(r) /\ result' = r
      BY <1>11, <2>2 DEF EndCommand
    <3>2. ~r.failed => e = Command.last
      BY <1>4, <1>11, <2>2
    <3>3. QED BY <3>1, <3>2 DEF Moves
  <2>3. QED BY <2>1, <2>2
<1> HIDE DEF Proceed
<1>12. CASE S = {} /\ Proceed("none", checked) /\ UNCHANGED <<fate, sends, late, stream>>
  <2>1. tooLarge # {}
    BY <1>5, <1>12
  <2>2. result' = [Failure(result) EXCEPT !.errors = result.errors \cup tooLarge] /\ Moves(e)
    BY <1>9, <1>10, <1>11, <1>12, <2>1
  <2>3. Turn(S, e)
    BY <1>1, <1>4, <1>8, <1>12, <2>2, NothingSent
  <2>4. QED BY <1>1, <2>3, TurnKeepsInv
<1>13. CASE /\ S # {}
            /\ \E reply \in LegacyReplies(S) :
                  SendLegacy(S, reply) /\ Proceed(reply.what, LegacyResult(checked, S, reply))
  <2>1. PICK reply \in LegacyReplies(S) :
                  SendLegacy(S, reply) /\ Proceed(reply.what, LegacyResult(checked, S, reply))
    BY <1>13
  <2>2. result' = LegacyResult(checked, S, reply)
    BY <2>1 DEF Proceed, GoOn, EndCommand
  <2>3. /\ checked.failed => result'.failed
        /\ OnlySent(S)
        /\ result'.failed \/ S = next .. e => Tells(S, e)
    BY <1>1, <1>5, <1>10, <1>13, <2>1, <2>2, LegacyTells
  <2>4. tooLarge # {} => result'.failed
    BY <1>10, <2>3
  <2>5. Moves(e)
    BY <1>11, <2>1, <2>2, <2>4
  <2>6. Tells(S, e)
    BY <1>5, <2>3, <2>4
  <2>7. Turn(S, e)
    BY <1>1, <1>4, <1>5, <2>3, <2>5, <2>6 DEF Turn
  <2>8. QED BY <1>1, <2>7, TurnKeepsInv
<1>14. QED BY <1>2, <1>12, <1>13

-----------------------------------------------------------------------------
(* The other steps.                                                        *)

\* A command that is refused leaves its operations as they are: error, or failed, tells of
\* it until the next command, and the bulk is one whose success is not asked about.
LEMMA RefuseKeepsInv == Inv /\ Refuse => Inv'
<1> SUFFICES ASSUME Inv, Refuse PROVE Inv'
  OBVIOUS
<1>1. /\ phase = "executing" /\ Refused /\ UNCHANGED <<ops, commands, bulk, fate, sends, late, stream>>
      /\ EndCommand([result EXCEPT !.error = TRUE, !.failed = result.failed \/ bulk.server = "old"])
  BY DEF Refuse, callVars
<1>2. result \in ResultType /\ bulk \in [ordered: BOOLEAN, server: Server, acknowledged: BOOLEAN, once: BOOLEAN]
  BY DEF Inv, Types
<1>3. /\ result' \in ResultType /\ result'.error /\ EndCommand(result')
      /\ result'.n = result.n /\ result'.upserted = result.upserted /\ result'.errors = result.errors
      /\ result'.concernErrors = result.concernErrors /\ result'.mustStop = result.mustStop
      /\ result.failed => result'.failed
  <2> DEFINE f == result.failed \/ bulk.server = "old"
             r == [result EXCEPT !.error = TRUE, !.failed = f]
  <2>1. f \in BOOLEAN
    BY <1>2 DEF ResultType
  <2>2. EndCommand(r) /\ result' = r
    BY <1>1 DEF EndCommand
  <2> HIDE DEF f
  <2>3. /\ r \in ResultType /\ r.error
        /\ r.n = result.n /\ r.upserted = result.upserted /\ r.errors = result.errors
        /\ r.concernErrors = result.concernErrors /\ r.mustStop = result.mustStop /\ r.failed = f
    BY <1>2, <2>1 DEF ResultType
  <2>4. QED BY <2>2, <2>3 DEF f
<1>4. Unsupported /\ Unsupported' /\ Ids' = Ids
  <2>1. \E i \in Command.first .. Command.last : i \in Ids /\ ops[i].collation
    <3>1. Command.collation /\ current \in DOMAIN commands
      BY <1>1, Place DEF Refused
    <3>2. \E i \in Command.first .. Command.last : ops[i].collation
      BY <3>1 DEF Inv, CommandsInOrder, Command
    <3>3. Command.first .. Command.last \subseteq Ids
      BY <1>1, Place DEF CommandType
    <3>4. QED BY <3>2, <3>3
  <2>2. QED BY <1>1, <2>1 DEF Unsupported, Refused, Ids
<1>5. FailureIsKnown'
  BY <1>4 DEF FailureIsKnown
<1>6. /\ Ids = 1 .. Len(ops) /\ Len(ops) \in Nat /\ current \in 1 .. Len(commands)
      /\ Command \in CommandType /\ next \in Command.first .. Command.last
      /\ DOMAIN commands = 1 .. Len(commands) /\ Len(commands) \in Nat
  BY <1>1, Place
<1>7. \/ /\ phase' = "executing" /\ current' = current + 1 /\ current' \in 1 .. Len(commands)
         /\ Command' = commands[current + 1] /\ Command' \in CommandType
         /\ next' = Command.last + 1 /\ next' = Command'.first
         /\ Command'.first <= Command'.last
         /\ offset' = Command.last /\ at' = Command.last
      \/ /\ phase' = "done" /\ UNCHANGED placeVars /\ Command' = Command
  <2>1. CASE current = Len(commands) \/ Stops(result')
    BY <1>1, <1>3, <2>1 DEF EndCommand, placeVars, Command
  <2>2. CASE current # Len(commands) /\ ~Stops(result')
    <3>1. /\ phase' = "executing" /\ current' = current + 1
          /\ next' = commands[current + 1].first
          /\ offset' = NextOffset /\ at' = NextOffset
      BY <1>1, <1>3, <2>2 DEF EndCommand
    <3>2. NextOffset = Command.last
      <4>1. offset = Command.first - 1
        BY <1>1, Place
      <4>2. QED BY <1>6, <4>1 DEF NextOffset, Count, CommandType
    <3>3. Command' = commands[current + 1]
      BY <1>1, <3>1 DEF Command
    <3>4. /\ commands[current + 1].first = Command.last + 1 /\ current + 1 \in 1 .. Len(commands)
          /\ commands[current + 1] \in CommandType
          /\ commands[current + 1].first <= commands[current + 1].last
      BY <1>1, <2>2, Place
    <3>5. QED BY <3>1, <3>2, <3>3, <3>4
  <2>3. QED BY <2>1, <2>2
<1>8. BulkTypeOK'
  <2>1. BulkTypeOK
    BY DEF Inv, Types
  <2>2. phase' = "executing" => /\ current' \in DOMAIN commands'
                                /\ next' \in Command'.first .. Command'.last
                                /\ offset' = Command'.first - 1
                                /\ at' \in offset' .. next' - 1
    BY <1>1, <1>6, <1>7 DEF CommandType
  <2>3. /\ ops' \in Seq(Operation)
        /\ \A k \in DOMAIN commands' :
              /\ commands'[k].first <= commands'[k].last
              /\ commands'[k].first = IF k = 1 THEN 1 ELSE commands'[k - 1].last + 1
              /\ \A i \in commands'[k].first .. commands'[k].last : ops'[i].type = commands'[k].type
        /\ IF commands' = <<>> THEN ops' = <<>> ELSE commands'[Len(commands')].last = Len(ops')
    BY <1>1, <2>1 DEF BulkTypeOK
  <2>4. /\ DOMAIN fate' = Ids' /\ DOMAIN sends' = Ids'
        /\ \A i \in Ids' : fate'[i] \in Fate /\ sends'[i] \in Nat
        /\ late' \subseteq Ids' /\ stream' \in {"open", "closed", "out of step"}
    BY <1>1, <1>4, <2>1 DEF BulkTypeOK
  <2>5. /\ {result'.n, result'.concernErrors} \subseteq Nat
        /\ result'.upserted \cup result'.errors \subseteq Ids'
        /\ {result'.failed, result'.mustStop, result'.error} \subseteq BOOLEAN
    BY <1>3, <1>4, <2>1 DEF BulkTypeOK, ResultType
  <2>6. QED BY <2>2, <2>3, <2>4, <2>5 DEF BulkTypeOK
<1>9. Types'
  <2>1. Types
    BY DEF Inv
  <2>2. phase' \in {"executing", "done"} /\ {current', next'} \subseteq Nat \ {0} /\ {offset', at'} \subseteq Nat
    BY <1>6, <1>7, <2>1, SMTT(30) DEF Types, placeVars, CommandType
  <2>3. fate' \in [Ids' -> Fate] /\ sends' \in [Ids' -> Nat] /\ commands' \in Seq(CommandType)
        /\ bulk' \in [ordered: BOOLEAN, server: Server, acknowledged: BOOLEAN, once: BOOLEAN]
    BY <1>1, <1>4, <2>1 DEF Types
  <2>4. QED BY <1>3, <1>8, <2>2, <2>3 DEF Types
<1>10. NextIsFresh'
  <2>1. NextIsFresh
    BY DEF Inv
  <2>2. NothingSentTwice' /\ phase' # "building"
    BY <1>1, <1>4, <1>7, <2>1 DEF NextIsFresh, NothingSentTwice
  <2>3. \A i \in Ids : phase' = "executing" /\ i >= next' => fate'[i] = "waiting" /\ sends'[i] = 0
    BY <1>1, <1>6, <1>7, <2>1 DEF NextIsFresh, CommandType
  <2>4. current' \in DOMAIN commands /\ Command'.last \in Nat /\ Command.last <= Command'.last
    BY <1>6, <1>7 DEF placeVars, CommandType
  <2>5. \A i \in Ids : sends[i] > 0 => i <= Command'.last
    <3>1. \A i \in Ids : sends[i] > 0 => i <= Command.last
      BY <2>1 DEF NextIsFresh
    <3>2. QED BY <1>6, <2>4, <3>1 DEF CommandType
  <2>6. QED BY <1>1, <1>4, <2>2, <2>3, <2>4, <2>5 DEF NextIsFresh
<1>11. IndicesFit'
  BY <1>6, <1>7 DEF IndicesFit, CommandType
<1>12. GhostsFit'
  BY <1>1, <1>3, <1>4, <1>7 DEF Inv, GhostsFit, Trusted
<1>13. ResultIsExact'
  <2>1. Uncounted' <=> Uncounted
    BY <1>1 DEF Uncounted
  <2>2. QED BY <1>1, <1>3, <1>4, <2>1
            DEF Inv, ResultIsExact, Trusted, ErrorsNameTheirOperations, UpsertsNameTheirOperations,
                CountIsExact
<1>14. CommandsInOrder'
  BY <1>1 DEF Inv, CommandsInOrder
<1>15. QED BY <1>5, <1>9, <1>10, <1>11, <1>12, <1>13, <1>14 DEF Inv

-----------------------------------------------------------------------------
(* What is added to a bulk.                                                *)

\* A command of cs has its place in cs and its operations in os.
CommandFits(cs, os, k) ==
    /\ cs[k].first <= cs[k].last /\ cs[k].last <= Len(os)
    /\ cs[k].first = IF k = 1 THEN 1 ELSE cs[k - 1].last + 1
    /\ \A i \in cs[k].first .. cs[k].last : os[i].type = cs[k].type
    /\ cs[k].collation => \E i \in cs[k].first .. cs[k].last : os[i].collation

\* The commands cs divide the operations os among them.
Divide(cs, os) ==
    /\ \A k \in 1 .. Len(cs) : CommandFits(cs, os, k)
    /\ \A j, k \in 1 .. Len(cs) : j < k => cs[j].last < cs[k].first
    /\ IF Len(cs) = 0 THEN Len(os) = 0 ELSE cs[Len(cs)].last = Len(os)

\* An operation more, ps for os, for the last command, k.
Grows(cs, os, ds, ps, n, k) ==
    /\ n = Len(os) /\ Len(ps) = n + 1 /\ \A i \in 1 .. n : ps[i] = os[i]
    /\ k = Len(cs) /\ k # 0 /\ Len(ds) = k /\ \A j \in 1 .. k : j # k => ds[j] = cs[j]
    /\ ds[k].first = cs[k].first /\ ds[k].last = n + 1
    /\ ds[k].type = cs[k].type /\ ps[n + 1].type = cs[k].type
    /\ ds[k].collation \in {cs[k].collation, ps[n + 1].collation}

LEMMA LastCommandGrows ==
    ASSUME NEW os \in Seq(Operation), NEW cs \in Seq(CommandType), Divide(cs, os),
           NEW ps \in Seq(Operation), NEW ds \in Seq(CommandType),
           NEW n, NEW k, Grows(cs, os, ds, ps, n, k)
    PROVE  Divide(ds, ps)
<1> USE DEF Grows
<1>1. /\ n \in Nat /\ k \in Nat /\ k \in 1 .. k
      /\ \A j \in 1 .. k : cs[j] \in CommandType /\ ds[j] \in CommandType
  OBVIOUS
<1>2. /\ \A j \in 1 .. k : cs[j].first \in Nat \ {0} /\ cs[j].last \in Nat
      /\ \A j \in 1 .. k : ds[j].first \in Nat /\ ds[j].last \in Nat
  BY <1>1 DEF CommandType
<1>3. /\ \A j \in 1 .. k : CommandFits(cs, os, j)
      /\ \A j, l \in 1 .. k : j < l => cs[j].last < cs[l].first
      /\ cs[k].last = n
  BY <1>1 DEF Divide
<1>4. \A j \in 1 .. k : cs[j].first <= cs[j].last /\ cs[j].last <= n
  BY <1>3 DEF CommandFits
<1>5. ASSUME NEW j \in 1 .. k, j # k
      PROVE  CommandFits(ds, ps, j)
  <2>1. j - 1 # 0 => j - 1 \in 1 .. k /\ j - 1 # k
    BY <1>1
  <2>2. ds[j] = cs[j] /\ (j # 1 => ds[j - 1] = cs[j - 1])
    BY <1>5, <2>1
  <2>3. \A i \in cs[j].first .. cs[j].last : ps[i] = os[i]
    <3>1. cs[j].first \in Nat \ {0} /\ cs[j].last \in Nat /\ cs[j].last <= n
      BY <1>2, <1>4
    <3>2. cs[j].first .. cs[j].last \subseteq 1 .. n
      BY <1>1, <3>1
    <3>3. QED BY <3>2
  <2>4. cs[j].last <= Len(ps)
    BY <1>1, <1>2, <1>4
  <2>5. CommandFits(cs, os, j)
    BY <1>3
  <2>6. \A i \in ds[j].first .. ds[j].last : ps[i].type = ds[j].type
    BY <2>2, <2>3, <2>5 DEF CommandFits
  <2>7. ds[j].collation => \E i \in ds[j].first .. ds[j].last : ps[i].collation
    BY <2>2, <2>3, <2>5 DEF CommandFits
  <2>8. ds[j].first = IF j = 1 THEN 1 ELSE ds[j - 1].last + 1
    BY <2>2, <2>5 DEF CommandFits
  <2>9. ds[j].first <= ds[j].last /\ ds[j].last <= Len(ps)
    BY <2>2, <2>4, <2>5 DEF CommandFits
  <2>10. QED BY <2>6, <2>7, <2>8, <2>9 DEF CommandFits
<1>6. CommandFits(ds, ps, k)
  <2>1. cs[k].first .. n + 1 = (cs[k].first .. n) \cup {n + 1}
    BY <1>1, <1>2, <1>3, <1>4
  <2>2. \A i \in cs[k].first .. n : ps[i] = os[i]
    BY <1>1, <1>2
  <2>3. \A i \in cs[k].first .. n : os[i].type = cs[k].type
    BY <1>1, <1>3 DEF CommandFits
  <2>4. \A i \in cs[k].first .. n + 1 : ps[i].type = cs[k].type
    BY <2>1, <2>2, <2>3
  <2>5. cs[k].collation => \E i \in cs[k].first .. n : os[i].collation
    BY <1>1, <1>3 DEF CommandFits
  <2>6. ds[k].collation => \E i \in cs[k].first .. n + 1 : ps[i].collation
    BY <2>1, <2>2, <2>5
  <2>7. ds[k].first <= n + 1
    BY <1>1, <1>2, <1>3, <1>4
  <2>8. ds[k].first = IF k = 1 THEN 1 ELSE ds[k - 1].last + 1
    <3>1. k # 1 => k - 1 \in 1 .. k /\ k - 1 # k
      BY <1>1
    <3>2. cs[k].first = IF k = 1 THEN 1 ELSE cs[k - 1].last + 1
      BY <1>1, <1>3 DEF CommandFits
    <3>3. QED BY <3>1, <3>2
  <2>9. ds[k].first .. ds[k].last = cs[k].first .. n + 1 /\ ds[k].last <= Len(ps)
    BY <1>1
  <2>10. \A i \in ds[k].first .. ds[k].last : ps[i].type = ds[k].type
    BY <2>4, <2>9
  <2>11. ds[k].collation => \E i \in ds[k].first .. ds[k].last : ps[i].collation
    BY <2>6, <2>9
  <2>12. ds[k].first <= ds[k].last
    BY <2>7
  <2>13. QED BY <2>8, <2>9, <2>10, <2>11, <2>12 DEF CommandFits
<1>7. ASSUME NEW j \in 1 .. k, NEW l \in 1 .. k, j < l
      PROVE  ds[j].last < ds[l].first
  <2>1. j # k
    BY <1>1, <1>7
  <2>2. ds[j] = cs[j] /\ ds[l].first = cs[l].first
    BY <2>1
  <2>3. QED BY <1>3, <1>7, <2>2
<1>8. QED BY <1>1, <1>5, <1>6, <1>7 DEF Divide

\* An operation more, ps for os, in a command of its own after the k before it.
Begins(cs, os, ds, ps, n, k) ==
    /\ n = Len(os) /\ Len(ps) = n + 1 /\ \A i \in 1 .. n : ps[i] = os[i]
    /\ k = Len(cs) /\ Len(ds) = k + 1 /\ \A j \in 1 .. k : ds[j] = cs[j]
    /\ ds[k + 1].first = n + 1 /\ ds[k + 1].last = n + 1
    /\ ds[k + 1].type = ps[n + 1].type /\ ds[k + 1].collation = ps[n + 1].collation

LEMMA CommandBegins ==
    ASSUME NEW os \in Seq(Operation), NEW cs \in Seq(CommandType), Divide(cs, os),
           NEW ps \in Seq(Operation), NEW ds \in Seq(CommandType),
           NEW n, NEW k, Begins(cs, os, ds, ps, n, k)
    PROVE  Divide(ds, ps)
<1> USE DEF Begins
<1>1. /\ n \in Nat /\ k \in Nat
      /\ \A j \in 1 .. k : cs[j] \in CommandType
      /\ \A j \in 1 .. k + 1 : j \in 1 .. k \/ j = k + 1
  OBVIOUS
<1>2. \A j \in 1 .. k : cs[j].first \in Nat \ {0} /\ cs[j].last \in Nat
  BY <1>1 DEF CommandType
<1>3. /\ \A j \in 1 .. k : CommandFits(cs, os, j)
      /\ \A j, l \in 1 .. k : j < l => cs[j].last < cs[l].first
      /\ IF k = 0 THEN n = 0 ELSE cs[k].last = n
  BY <1>1 DEF Divide
<1>4. \A j \in 1 .. k : cs[j].first <= cs[j].last /\ cs[j].last <= n
  BY <1>3 DEF CommandFits
<1>5. ASSUME NEW j \in 1 .. k
      PROVE  CommandFits(ds, ps, j)
  <2>1. j - 1 # 0 => j - 1 \in 1 .. k
    BY <1>1
  <2>2. ds[j] = cs[j] /\ (j # 1 => ds[j - 1] = cs[j - 1])
    BY <2>1
  <2>3. \A i \in cs[j].first .. cs[j].last : ps[i] = os[i]
    <3>1. cs[j].first \in Nat \ {0} /\ cs[j].last \in Nat /\ cs[j].last <= n
      BY <1>2, <1>4
    <3>2. cs[j].first .. cs[j].last \subseteq 1 .. n
      BY <1>1, <3>1
    <3>3. QED BY <3>2
  <2>4. cs[j].last <= Len(ps)
    BY <1>1, <1>2, <1>4
  <2>5. CommandFits(cs, os, j)
    BY <1>3
  <2>6. \A i \in ds[j].first .. ds[j].last : ps[i].type = ds[j].type
    BY <2>2, <2>3, <2>5 DEF CommandFits
  <2>7. ds[j].collation => \E i \in ds[j].first .. ds[j].last : ps[i].collation
    BY <2>2, <2>3, <2>5 DEF CommandFits
  <2>8. ds[j].first = IF j = 1 THEN 1 ELSE ds[j - 1].last + 1
    BY <2>2, <2>5 DEF CommandFits
  <2>9. ds[j].first <= ds[j].last /\ ds[j].last <= Len(ps)
    BY <2>2, <2>4, <2>5 DEF CommandFits
  <2>10. QED BY <2>6, <2>7, <2>8, <2>9 DEF CommandFits
<1>6. CommandFits(ds, ps, k + 1)
  <2>1. \A i \in n + 1 .. n + 1 : i = n + 1
    BY <1>1
  <2>2. n + 1 \in n + 1 .. n + 1
    BY <1>1
  <2>3. n + 1 = IF k + 1 = 1 THEN 1 ELSE ds[k].last + 1
    <3>1. CASE k = 0
      <4>1. n = 0
        BY <1>3, <3>1
      <4>2. QED BY <3>1, <4>1
    <3>2. CASE k # 0
      <4>1. k \in 1 .. k /\ k + 1 # 1
        BY <1>1, <3>2
      <4>2. ds[k] = cs[k] /\ cs[k].last = n
        BY <1>3, <3>2, <4>1
      <4>3. QED BY <4>1, <4>2
    <3>3. QED BY <3>1, <3>2
  <2>4. k + 1 - 1 = k /\ n + 1 <= n + 1
    BY <1>1
  <2>5. QED BY <1>1, <2>1, <2>2, <2>3, <2>4 DEF CommandFits
<1>7. ASSUME NEW j \in 1 .. k + 1, NEW l \in 1 .. k + 1, j < l
      PROVE  ds[j].last < ds[l].first
  <2>1. j \in 1 .. k
    BY <1>1, <1>7
  <2>2. CASE l \in 1 .. k
    BY <1>3, <1>7, <2>1, <2>2
  <2>3. CASE l = k + 1
    BY <1>1, <1>2, <1>4, <2>1, <2>3
  <2>4. QED BY <1>1, <2>2, <2>3
<1>8. \A j \in 1 .. k + 1 : CommandFits(ds, ps, j)
  BY <1>1, <1>5, <1>6
<1>9. QED BY <1>1, <1>7, <1>8 DEF Divide

BulkType == [ordered: BOOLEAN, server: Server, acknowledged: BOOLEAN, once: BOOLEAN]

\* The parts of the invariant that say so.
LEMMA InvDivides == Inv => Divide(commands, ops) /\ ops \in Seq(Operation) /\ commands \in Seq(CommandType)
<1> SUFFICES ASSUME Inv PROVE Divide(commands, ops) /\ ops \in Seq(Operation) /\ commands \in Seq(CommandType)
  OBVIOUS
<1>1. ops \in Seq(Operation) /\ commands \in Seq(CommandType) /\ BulkTypeOK /\ CommandsInOrder
  BY DEF Inv, Types, BulkTypeOK
<1>2. DOMAIN commands = 1 .. Len(commands) /\ (commands = <<>> <=> Len(commands) = 0)
  BY <1>1
<1>3. ASSUME NEW k \in 1 .. Len(commands) PROVE CommandFits(commands, ops, k)
  BY <1>1, <1>2 DEF BulkTypeOK, CommandsInOrder, CommandFits
<1>4. \A j, k \in 1 .. Len(commands) : j < k => commands[j].last < commands[k].first
  BY <1>1, <1>2 DEF CommandsInOrder
<1>5. IF Len(commands) = 0 THEN Len(ops) = 0 ELSE commands[Len(commands)].last = Len(ops)
  <2>1. IF commands = <<>> THEN ops = <<>> ELSE commands[Len(commands)].last = Len(ops)
    BY <1>1 DEF BulkTypeOK
  <2>2. ops = <<>> => Len(ops) = 0
    OBVIOUS
  <2>3. QED BY <1>2, <2>1, <2>2
<1>6. QED BY <1>1, <1>3, <1>4, <1>5 DEF Divide

LEMMA DivisionFits ==
    ASSUME ops' \in Seq(Operation), commands' \in Seq(CommandType), Divide(commands', ops')
    PROVE  /\ Ids' = 1 .. Len(ops') /\ Len(ops') \in Nat
           /\ DOMAIN commands' = 1 .. Len(commands') /\ Len(commands') \in Nat
           /\ \A k \in DOMAIN commands' :
                 /\ commands'[k].first <= commands'[k].last
                 /\ commands'[k].first = IF k = 1 THEN 1 ELSE commands'[k - 1].last + 1
                 /\ \A i \in commands'[k].first .. commands'[k].last :
                       ops'[i].type = commands'[k].type
           /\ IF commands' = <<>> THEN ops' = <<>> ELSE commands'[Len(commands')].last = Len(ops')
           /\ CommandsInOrder'
<1>1. /\ Ids' = 1 .. Len(ops') /\ Len(ops') \in Nat
      /\ DOMAIN commands' = 1 .. Len(commands') /\ Len(commands') \in Nat
      /\ commands' = <<>> <=> Len(commands') = 0
      /\ ops' = <<>> <=> Len(ops') = 0
  BY DEF Ids
<1>2. \A k \in DOMAIN commands' : CommandFits(commands', ops', k)
  BY <1>1 DEF Divide
<1>3. \A j, k \in DOMAIN commands' : j < k => commands'[j].last < commands'[k].first
  BY <1>1 DEF Divide
<1>4. CommandsInOrder'
  BY <1>2, <1>3 DEF CommandsInOrder, CommandFits
<1>5. IF commands' = <<>> THEN ops' = <<>> ELSE commands'[Len(commands')].last = Len(ops')
  BY <1>1 DEF Divide
<1>6. QED BY <1>1, <1>2, <1>4, <1>5 DEF CommandFits

\* A bulk of which nothing was sent may change.
LEMMA BuildingKeepsInv ==
    ASSUME Inv, phase = "building", phase' = "building",
           ops' \in Seq(Operation), commands' \in Seq(CommandType), Divide(commands', ops'),
           bulk' \in BulkType, Len(ops) <= Len(ops'),
           fate' \in [Ids' -> Fate], sends' \in [Ids' -> Nat],
           \A i \in Ids' : fate'[i] = "waiting" /\ sends'[i] = 0,
           UNCHANGED <<current, next, offset, at, result, late, stream>>
    PROVE  Inv'
<1>1. /\ Ids' = 1 .. Len(ops') /\ Len(ops') \in Nat /\ Ids = 1 .. Len(ops) /\ Len(ops) \in Nat
      /\ CommandsInOrder'
  <2>1. ops \in Seq(Operation)
    BY InvDivides
  <2>2. Ids = 1 .. Len(ops) /\ Len(ops) \in Nat
    BY <2>1 DEF Ids
  <2>3. QED BY <2>2, DivisionFits
<1>2. Types /\ NextIsFresh /\ GhostsFit
  BY DEF Inv
<1>3. late = {}
  BY <1>2 DEF NextIsFresh
<1>4. BulkTypeOK'
  <2>1. Ids \subseteq Ids'
    BY <1>1
  <2>2. late' \subseteq Ids' /\ result'.upserted \cup result'.errors \subseteq Ids'
    BY <1>2, <1>3, <2>1 DEF Types, BulkTypeOK
  <2>3. \A i \in Ids' : fate'[i] \in Fate /\ sends'[i] \in Nat
    OBVIOUS
  <2>4. /\ {result'.n, result'.concernErrors} \subseteq Nat
        /\ {result'.failed, result'.mustStop, result'.error} \subseteq BOOLEAN
        /\ stream' \in {"open", "closed", "out of step"}
    BY <1>2 DEF Types, BulkTypeOK
  <2>5. /\ \A k \in DOMAIN commands' :
                 /\ commands'[k].first <= commands'[k].last
                 /\ commands'[k].first = IF k = 1 THEN 1 ELSE commands'[k - 1].last + 1
                 /\ \A i \in commands'[k].first .. commands'[k].last :
                       ops'[i].type = commands'[k].type
        /\ IF commands' = <<>> THEN ops' = <<>> ELSE commands'[Len(commands')].last = Len(ops')
    BY DivisionFits
  <2>6. QED BY <2>2, <2>3, <2>4, <2>5 DEF BulkTypeOK
<1>5. Types'
  BY <1>2, <1>4 DEF Types, BulkType
<1>6. NextIsFresh'
  <2>1. NothingSentTwice'
    BY DEF NothingSentTwice
  <2>2. QED BY <1>3, <2>1 DEF NextIsFresh
<1>7. IndicesFit' /\ ResultIsExact'
  BY DEF IndicesFit, ResultIsExact
<1>8. FailureIsKnown'
  BY DEF FailureIsKnown
<1>9. GhostsFit'
  BY <1>2, <1>3 DEF GhostsFit, Trusted
<1>10. QED BY <1>1, <1>5, <1>6, <1>7, <1>8, <1>9 DEF Inv

\* An operation that is added lies behind the others, at the end of the last command or in
\* one of its own, and was not sent.
LEMMA AddOperationKeepsInv == ASSUME Inv, NEW o \in Operation, AddOperation(o) PROVE Inv'
<1>1. /\ phase = "building" /\ phase' = "building" /\ ops' = Append(ops, o)
      /\ fate' = Append(fate, "waiting") /\ sends' = Append(sends, 0)
      /\ UNCHANGED <<bulk, result, late, stream, current, next, offset, at>>
  BY DEF AddOperation, placeVars
<1>2. /\ ops \in Seq(Operation) /\ commands \in Seq(CommandType) /\ Divide(commands, ops)
      /\ bulk \in BulkType /\ BulkTypeOK
  BY InvDivides DEF Inv, Types, BulkType
<1>3. PICK n \in Nat, k \in Nat : n = Len(ops) /\ k = Len(commands)
  BY <1>2
<1>4. Ids = 1 .. n /\ fate \in [1 .. n -> Fate] /\ sends \in [1 .. n -> Nat]
      /\ \A i \in 1 .. n : fate[i] = "waiting" /\ sends[i] = 0
  <2>1. Ids = 1 .. n
    BY <1>2, <1>3 DEF Ids
  <2>2. fate \in [Ids -> Fate] /\ sends \in [Ids -> Nat]
    BY DEF Inv, Types
  <2>3. \A i \in Ids : fate[i] = "waiting" /\ sends[i] = 0
    BY <1>1 DEF Inv, NextIsFresh
  <2>4. QED BY <2>1, <2>2, <2>3
<1>5. /\ ops' \in Seq(Operation) /\ Len(ops') = n + 1 /\ Ids' = 1 .. n + 1
      /\ \A i \in 1 .. n : ops'[i] = ops[i]
      /\ ops'[n + 1] = o
  <2>1. /\ Append(ops, o) \in Seq(Operation) /\ Len(Append(ops, o)) = n + 1
        /\ \A i \in 1 .. n : Append(ops, o)[i] = ops[i]
        /\ Append(ops, o)[n + 1] = o
    BY <1>2, <1>3, AppendProperties
  <2>2. DOMAIN Append(ops, o) = 1 .. n + 1
    BY <2>1
  <2>3. QED BY <1>1, <2>1, <2>2 DEF Ids
<1>6. /\ fate' \in [Ids' -> Fate] /\ sends' \in [Ids' -> Nat]
      /\ \A i \in Ids' : fate'[i] = "waiting" /\ sends'[i] = 0
  <2>1. fate \in Seq(Fate) /\ Len(fate) = n /\ sends \in Seq(Nat) /\ Len(sends) = n
    BY <1>3, <1>4
  <2>2. /\ fate' \in Seq(Fate) /\ Len(fate') = n + 1
        /\ \A i \in 1 .. n : fate'[i] = fate[i]
        /\ fate'[n + 1] = "waiting"
    BY <1>1, <2>1, AppendProperties DEF Fate
  <2>3. /\ sends' \in Seq(Nat) /\ Len(sends') = n + 1
        /\ \A i \in 1 .. n : sends'[i] = sends[i]
        /\ sends'[n + 1] = 0
    BY <1>1, <2>1, AppendProperties
  <2>4. fate' \in [1 .. n + 1 -> Fate] /\ sends' \in [1 .. n + 1 -> Nat]
    BY <2>2, <2>3
  <2>5. \A i \in 1 .. n + 1 : i \in 1 .. n \/ i = n + 1
    BY <1>3
  <2>6. \A i \in 1 .. n + 1 : fate'[i] = "waiting" /\ sends'[i] = 0
    BY <1>4, <2>2, <2>3, <2>5
  <2>7. QED BY <1>5, <2>4, <2>6
<1>7. o \in OperationType
  BY OperationAssumption
<1>8. commands' \in Seq(CommandType) /\ Divide(commands', ops')
  <2>1. CASE Joins(o)
    <3>1. k # 0 /\ k \in 1 .. k /\ commands[k].type = o.type
      BY <1>2, <1>3, <2>1 DEF Joins
    <3>2. PICK c \in CommandType : c = commands[k]
      BY <1>2, <1>3, <3>1
    <3>3. PICK x \in BOOLEAN : x = (commands[k].collation \/ o.collation)
      OBVIOUS
    <3>4. commands' = [commands EXCEPT ![k] = [commands[k] EXCEPT !.last = n + 1, !.collation = x]]
      BY <1>3, <2>1, <3>3 DEF AddOperation
    <3>5. PICK d : d = [c EXCEPT !.last = n + 1, !.collation = x]
      OBVIOUS
    <3>6. d \in CommandType
      <4>1. PICK e \in Nat \ {0} : e = n + 1
        BY <1>3
      <4>2. d = [c EXCEPT !.last = e, !.collation = x]
        BY <3>5, <4>1
      <4>3. QED BY <3>2, <3>3, <4>2 DEF CommandType
    <3>7. d.first = c.first /\ d.last = n + 1 /\ d.type = c.type /\ d.collation = x
      BY <3>2, <3>5 DEF CommandType
    <3>8. commands' = [commands EXCEPT ![k] = d]
      BY <3>2, <3>4, <3>5
    <3>9. /\ commands' \in Seq(CommandType) /\ Len(commands') = k /\ commands'[k] = d
          /\ \A j \in 1 .. k : j # k => commands'[j] = commands[j]
      BY <1>2, <1>3, <3>1, <3>6, <3>8
    <3>10. Divide(commands', ops')
      <4>1. /\ commands'[k].first = commands[k].first /\ commands'[k].last = n + 1
            /\ commands'[k].type = commands[k].type /\ ops'[n + 1].type = commands[k].type
            /\ commands'[k].collation \in {commands[k].collation, ops'[n + 1].collation}
        BY <1>5, <1>7, <3>1, <3>2, <3>3, <3>7, <3>9 DEF CommandType, OperationType
      <4>2. PICK ps \in Seq(Operation), ds \in Seq(CommandType) : ps = ops' /\ ds = commands'
        BY <1>5, <3>9
      <4>3. /\ Len(ps) = n + 1 /\ \A i \in 1 .. n : ps[i] = ops[i]
            /\ Len(ds) = k /\ \A j \in 1 .. k : j # k => ds[j] = commands[j]
            /\ ds[k].first = commands[k].first /\ ds[k].last = n + 1
            /\ ds[k].type = commands[k].type /\ ps[n + 1].type = commands[k].type
            /\ ds[k].collation \in {commands[k].collation, ps[n + 1].collation}
        BY <1>5, <3>9, <4>1, <4>2
      <4>4. Grows(commands, ops, ds, ps, n, k)
        BY <1>3, <3>1, <4>3 DEF Grows
      <4>5. Divide(ds, ps)
        BY <1>2, <4>4, LastCommandGrows
      <4>6. QED BY <4>2, <4>5
    <3>11. QED BY <3>9, <3>10
  <2>2. CASE ~Joins(o)
    <3>1. PICK d : d = NewCommand(o.type, n + 1, n + 1, o.collation, bulk.acknowledged)
      OBVIOUS
    <3>2. commands' = Append(commands, d)
      BY <1>3, <2>2, <3>1 DEF AddOperation
    <3>3. /\ d \in CommandType /\ d.type = o.type /\ d.first = n + 1 /\ d.last = n + 1
          /\ d.collation = o.collation
      BY <1>2, <1>3, <1>7, <3>1 DEF NewCommand, CommandType, OperationType, BulkType
    <3>4. /\ commands' \in Seq(CommandType) /\ Len(commands') = k + 1 /\ commands'[k + 1] = d
          /\ \A j \in 1 .. k : commands'[j] = commands[j]
      BY <1>2, <1>3, <3>2, <3>3, AppendProperties
    <3>5. Divide(commands', ops')
      <4>1. PICK ps \in Seq(Operation), ds \in Seq(CommandType) : ps = ops' /\ ds = commands'
        BY <1>5, <3>4
      <4>2. /\ Len(ps) = n + 1 /\ \A i \in 1 .. n : ps[i] = ops[i]
            /\ Len(ds) = k + 1 /\ \A j \in 1 .. k : ds[j] = commands[j]
            /\ ds[k + 1].first = n + 1 /\ ds[k + 1].last = n + 1
            /\ ds[k + 1].type = ps[n + 1].type /\ ds[k + 1].collation = ps[n + 1].collation
        BY <1>5, <3>3, <3>4, <4>1
      <4>3. Begins(commands, ops, ds, ps, n, k)
        BY <1>3, <4>2 DEF Begins
      <4>4. Divide(ds, ps)
        BY <1>2, <4>3, CommandBegins
      <4>5. QED BY <4>1, <4>4
    <3>6. QED BY <3>4, <3>5
  <2>3. QED BY <2>1, <2>2
<1>9. Len(ops) <= Len(ops')
  BY <1>3, <1>5
<1>10. QED BY <1>1, <1>2, <1>5, <1>6, <1>8, <1>9, BuildingKeepsInv

LEMMA SetWriteConcernKeepsInv ==
    ASSUME Inv, NEW a \in Acknowledgement, SetWriteConcern(a) PROVE Inv'
<1>1. /\ phase = "building" /\ phase' = "building" /\ bulk' = [bulk EXCEPT !.acknowledged = a]
      /\ UNCHANGED <<ops, commands, fate, sends, result, late, stream, current, next, offset, at>>
  BY DEF SetWriteConcern, placeVars
<1>2. bulk \in BulkType /\ a \in BOOLEAN
  BY ServerAssumption DEF Inv, Types, BulkType
<1>3. bulk' \in BulkType
  BY <1>1, <1>2 DEF BulkType
<1>4. /\ ops' \in Seq(Operation) /\ commands' \in Seq(CommandType) /\ Divide(commands', ops')
  BY <1>1, InvDivides
<1>5. /\ fate' \in [Ids' -> Fate] /\ sends' \in [Ids' -> Nat]
      /\ \A i \in Ids' : fate'[i] = "waiting" /\ sends'[i] = 0
  BY <1>1 DEF Inv, Types, NextIsFresh, Ids
<1>6. Len(ops) <= Len(ops')
  <2>1. Len(ops) \in Nat
    BY InvDivides
  <2>2. QED BY <1>1, <2>1
<1>7. QED BY <1>1, <1>3, <1>4, <1>5, <1>6, BuildingKeepsInv

\* An execution begins with a result that tells of nothing, and nothing was sent.
LEMMA BeginKeepsInv ==
    ASSUME Inv, ops' \in Seq(Operation), commands' \in Seq(CommandType), Divide(commands', ops'),
           bulk' \in BulkType, Begin(Len(ops'))
    PROVE  Inv'
<1>1. /\ Ids' = 1 .. Len(ops') /\ Len(ops') \in Nat /\ CommandsInOrder'
      /\ DOMAIN commands' = 1 .. Len(commands') /\ Len(commands') \in Nat
      /\ IF commands' = <<>> THEN ops' = <<>> ELSE commands'[Len(commands')].last = Len(ops')
      /\ \A k \in DOMAIN commands' :
            /\ commands'[k].first <= commands'[k].last
            /\ commands'[k].first = IF k = 1 THEN 1 ELSE commands'[k - 1].last + 1
            /\ \A i \in commands'[k].first .. commands'[k].last : ops'[i].type = commands'[k].type
  BY DivisionFits
<1>2. /\ \/ Len(ops') > 0 /\ phase' = "executing" /\ result' = NoResult
         \/ phase' = "done" /\ result' = [NoResult EXCEPT !.error = TRUE]
      /\ current' = 1 /\ next' = 1 /\ offset' = 0 /\ at' = 0 /\ late' = {}
      /\ stream' = IF stream = "closed" THEN "open" ELSE stream
  BY DEF Begin
<1>3. /\ fate' \in [Ids' -> Fate] /\ sends' \in [Ids' -> Nat]
      /\ \A i \in Ids' : fate'[i] = "waiting" /\ sends'[i] = 0
  BY <1>1 DEF Begin, Fate
<1>4. /\ result' \in ResultType
      /\ result'.n = 0 /\ result'.upserted = {} /\ result'.errors = {} /\ result'.concernErrors = 0
      /\ ~result'.failed /\ ~result'.mustStop
      /\ phase' = "done" => result'.error
  <2>1. NoResult \in ResultType
    BY DEF NoResult, ResultType
  <2>2. /\ NoResult.n = 0 /\ NoResult.upserted = {} /\ NoResult.errors = {}
        /\ NoResult.concernErrors = 0 /\ ~NoResult.failed /\ ~NoResult.mustStop
    BY DEF NoResult
  <2>3. CASE result' = NoResult /\ phase' = "executing"
    BY <2>1, <2>2, <2>3
  <2>4. CASE result' = [NoResult EXCEPT !.error = TRUE]
    BY <2>1, <2>2, <2>4 DEF ResultType
  <2>5. QED BY <1>2, <2>3, <2>4
<1>5. phase' = "executing" => /\ current' \in DOMAIN commands' /\ Command'.first = 1
                              /\ next' \in Command'.first .. Command'.last
  <2> SUFFICES ASSUME phase' = "executing"
               PROVE  /\ current' \in DOMAIN commands' /\ Command'.first = 1
                      /\ next' \in Command'.first .. Command'.last
    OBVIOUS
  <2>1. commands' # <<>>
    BY <1>1, <1>2
  <2>2. 1 \in DOMAIN commands'
    BY <1>1, <2>1
  <2>3. Command' = commands'[1] /\ commands'[1].first = 1 /\ 1 <= commands'[1].last
    BY <1>1, <1>2, <2>2 DEF Command
  <2>4. commands'[1].last \in Nat
    <3>1. commands'[1] \in CommandType
      BY <2>2
    <3>2. QED BY <3>1 DEF CommandType
  <2>5. QED BY <1>2, <2>2, <2>3, <2>4
<1>6. BulkTypeOK'
  <2>1. phase' = "executing" => /\ current' \in DOMAIN commands'
                                /\ next' \in Command'.first .. Command'.last
                                /\ offset' = Command'.first - 1
                                /\ at' \in offset' .. next' - 1
    BY <1>2, <1>5
  <2>2. /\ DOMAIN fate' = Ids' /\ DOMAIN sends' = Ids'
        /\ \A i \in Ids' : fate'[i] \in Fate /\ sends'[i] \in Nat
        /\ late' \subseteq Ids'
    BY <1>2, <1>3
  <2>3. stream' \in {"open", "closed", "out of step"}
    BY <1>2 DEF Inv, Types, BulkTypeOK
  <2>4. /\ {result'.n, result'.concernErrors} \subseteq Nat
        /\ result'.upserted \cup result'.errors \subseteq Ids'
        /\ {result'.failed, result'.mustStop, result'.error} \subseteq BOOLEAN
    BY <1>4 DEF ResultType
  <2>5. QED BY <1>1, <2>1, <2>2, <2>3, <2>4 DEF BulkTypeOK
<1>7. Types'
  <2>1. /\ {current', next'} \subseteq Nat \ {0} /\ {offset', at'} \subseteq Nat
        /\ phase' \in {"building", "executing", "done"}
    BY <1>2
  <2>2. QED BY <1>3, <1>4, <1>6, <2>1 DEF Types, BulkType
<1>8. NextIsFresh'
  <2>1. NothingSentTwice'
    BY <1>3 DEF NothingSentTwice
  <2>2. QED BY <1>2, <1>3, <2>1 DEF NextIsFresh
<1>9. IndicesFit' /\ phase' # "building"
  BY <1>2 DEF IndicesFit
<1>10. FailureIsKnown'
  <2>1. phase' = "executing" => \A i \in Ids' : ~(i < next') /\ ~(i < Command'.first)
    BY <1>1, <1>2, <1>5
  <2>2. ~(phase' = "executing") => phase' = "done" /\ result'.error /\ ~\E i \in Ids' : sends'[i] > 0
    BY <1>2, <1>3, <1>4
  <2>3. QED BY <1>2, <2>1, <2>2 DEF FailureIsKnown
<1>11. GhostsFit'
  BY <1>2, <1>3, <1>4 DEF GhostsFit, Trusted
<1>12. ResultIsExact'
  <2>1. \A what \in Fate \ {"waiting"} : {i \in Ids' : fate'[i] = what} = {}
    BY <1>3
  <2>2. ErrorsNameTheirOperations' /\ UpsertsNameTheirOperations'
    BY <1>4, <2>1 DEF ErrorsNameTheirOperations, UpsertsNameTheirOperations, Fate
  <2>3. CountIsExact'
    BY <1>4, <2>1, FS_EmptySet DEF CountIsExact, Fate
  <2>4. QED BY <2>2, <2>3 DEF ResultIsExact
<1>13. QED BY <1>1, <1>7, <1>8, <1>9, <1>10, <1>11, <1>12 DEF Inv

LEMMA ExecuteKeepsInv ==
    ASSUME Inv, Execute \/ \E a \in Acknowledgement : ExecuteWrite(a) PROVE Inv'
<1>1. /\ UNCHANGED <<ops, commands>> /\ Begin(Len(ops))
      /\ bulk' = bulk \/ \E a \in Acknowledgement : bulk' = [bulk EXCEPT !.acknowledged = a]
  BY DEF Execute, ExecuteWrite, callVars
<1>2. bulk' \in BulkType
  <2>1. bulk \in BulkType /\ Acknowledgement \subseteq BOOLEAN
    BY ServerAssumption DEF Inv, Types, BulkType
  <2>2. \A a \in BOOLEAN : [bulk EXCEPT !.acknowledged = a] \in BulkType
    BY <2>1 DEF BulkType
  <2>3. QED BY <1>1, <2>1, <2>2
<1>3. ops' \in Seq(Operation) /\ commands' \in Seq(CommandType) /\ Divide(commands', ops')
  BY <1>1, InvDivides
<1>4. QED BY <1>1, <1>2, <1>3, BeginKeepsInv

LEMMA CollectionWritesKeepsInv ==
    ASSUME Inv, NEW s \in Seq(Operation), s # <<>>, NEW singly \in BOOLEAN, NEW a \in Acknowledgement,
           \A i \in 1 .. Len(s) : s[i].type = s[1].type,
           CollectionWrites(s, singly, a)
    PROVE  Inv'
<1>1. /\ ops' = s /\ commands' = <<NewCommand(s[1].type, 1, Len(s), FALSE, singly)>>
      /\ bulk' = [bulk EXCEPT !.acknowledged = a] /\ Begin(Len(ops'))
  BY DEF CollectionWrites
<1>2. PICK n \in Nat \ {0} : n = Len(s)
  OBVIOUS
<1>3. PICK c : c = NewCommand(s[1].type, 1, n, FALSE, singly)
  OBVIOUS
<1>4. /\ c \in CommandType /\ c.type = s[1].type /\ c.first = 1 /\ c.last = n
      /\ c.collation = FALSE
  <2>1. s[1] \in OperationType
    BY <1>2, OperationAssumption
  <2>2. QED BY <1>2, <1>3, <2>1 DEF NewCommand, CommandType, OperationType
<1>5. <<c>> \in Seq(CommandType) /\ Len(<<c>>) = 1 /\ <<c>>[1] = c
  BY <1>4
<1>6. Divide(<<c>>, s)
  <2>1. CommandFits(<<c>>, s, 1)
    BY <1>2, <1>4, <1>5 DEF CommandFits
  <2>2. \A k \in 1 .. 1 : k = 1
    OBVIOUS
  <2>3. QED BY <1>2, <1>4, <1>5, <2>1, <2>2 DEF Divide
<1>7. bulk' \in BulkType
  <2>1. bulk \in BulkType /\ a \in BOOLEAN
    BY ServerAssumption DEF Inv, Types, BulkType
  <2>2. QED BY <1>1, <2>1 DEF BulkType
<1>8. ops' \in Seq(Operation) /\ commands' \in Seq(CommandType) /\ Divide(commands', ops')
  BY <1>1, <1>2, <1>3, <1>5, <1>6
<1>9. QED BY <1>1, <1>7, <1>8, BeginKeepsInv

\* The writes of a collection, with no document too.
LEMMA CollectionKeepsInv ==
    ASSUME Inv, NEW a \in Acknowledgement,
           \/ \E o \in Operation : CollectionSave(o, a) \/ CollectionRemove(o, a)
           \/ \E k \in 0 .. MaxOperations : \E s \in [1 .. k -> Inserts] : InsertBulk(s, a)
    PROVE  Inv'
<1>1. CASE \E o \in Operation : CollectionSave(o, a) \/ CollectionRemove(o, a)
  <2>1. PICK o \in Operation : CollectionWrites(<<o>>, TRUE, a)
    BY <1>1 DEF CollectionSave, CollectionRemove, CollectionInsert, CollectionUpdate
  <2>2. /\ <<o>> \in Seq(Operation) /\ <<o>> # <<>>
        /\ \A i \in 1 .. Len(<<o>>) : <<o>>[i].type = <<o>>[1].type
    OBVIOUS
  <2>3. QED BY <2>1, <2>2, CollectionWritesKeepsInv
<1>2. CASE \E k \in 0 .. MaxOperations : \E s \in [1 .. k -> Inserts] : InsertBulk(s, a)
  <2>1. PICK k \in 0 .. MaxOperations : \E s \in [1 .. k -> Inserts] : InsertBulk(s, a)
    BY <1>2
  <2>2. PICK s \in [1 .. k -> Inserts] : InsertBulk(s, a)
    BY <2>1
  <2>3. k \in Nat
    BY LimitAssumption
  <2>4. /\ s \in Seq(Operation) /\ Len(s) = k
        /\ \A i \in 1 .. k : s[i].type = "insert"
    BY <2>3 DEF Inserts
  <2>5. CASE s # <<>>
    <3>1. CollectionWrites(s, FALSE, a)
      BY <2>2, <2>5 DEF InsertBulk
    <3>2. k # 0
      BY <2>4, <2>5
    <3>3. \A i \in 1 .. Len(s) : s[i].type = s[1].type
      BY <2>3, <2>4, <3>2
    <3>4. QED BY <2>4, <2>5, <3>1, <3>3, CollectionWritesKeepsInv
  <2>6. CASE s = <<>>
    <3>1. /\ phase = "building" /\ phase' = "done"
          /\ \E found \in BOOLEAN : result' = [result EXCEPT !.error = TRUE, !.failed = found]
          /\ ops = <<>>
          /\ UNCHANGED <<ops, commands, bulk, current, next, offset, at, fate, sends, late, stream>>
      BY <2>2, <2>6 DEF InsertBulk, callVars, placeVars
    <3>2. Types /\ BulkTypeOK /\ CommandsInOrder /\ NextIsFresh /\ GhostsFit /\ result \in ResultType
      BY DEF Inv, Types
    <3>3. Ids' = {} /\ Ids = {}
      BY <3>1 DEF Ids
    <3>4. /\ result' \in ResultType /\ result'.error
          /\ result'.n = 0 /\ result'.upserted = {} /\ result'.errors = {}
          /\ result'.concernErrors = result.concernErrors /\ ~result'.mustStop
      <4>1. PICK found \in BOOLEAN : result' = [result EXCEPT !.error = TRUE, !.failed = found]
        BY <3>1
      <4>2. result.n = 0 /\ ~result.mustStop
        BY <3>1, <3>2 DEF GhostsFit
      <4>3. result.upserted = {} /\ result.errors = {}
        BY <3>2, <3>3 DEF BulkTypeOK
      <4>4. QED BY <3>2, <4>1, <4>2, <4>3 DEF ResultType
    <3>5. BulkTypeOK'
      <4>1. /\ {result'.n, result'.concernErrors} \subseteq Nat
            /\ result'.upserted \cup result'.errors \subseteq Ids'
            /\ {result'.failed, result'.mustStop, result'.error} \subseteq BOOLEAN
        BY <3>4 DEF ResultType
      <4>2. /\ ops' \in Seq(Operation)
            /\ \A j \in DOMAIN commands' :
                  /\ commands'[j].first <= commands'[j].last
                  /\ commands'[j].first = IF j = 1 THEN 1 ELSE commands'[j - 1].last + 1
                  /\ \A i \in commands'[j].first .. commands'[j].last :
                        ops'[i].type = commands'[j].type
            /\ IF commands' = <<>> THEN ops' = <<>> ELSE commands'[Len(commands')].last = Len(ops')
        BY <3>1, <3>2, ZenonT(30) DEF BulkTypeOK
      <4>3. /\ DOMAIN fate' = Ids' /\ DOMAIN sends' = Ids'
            /\ late' \subseteq Ids' /\ stream' \in {"open", "closed", "out of step"}
        BY <3>1, <3>2, <3>3 DEF BulkTypeOK
      <4>4. QED BY <3>1, <3>3, <4>1, <4>2, <4>3 DEF BulkTypeOK
    <3>6. Types'
      <4>1. fate' \in [Ids' -> Fate] /\ sends' \in [Ids' -> Nat]
        BY <3>1, <3>2, <3>3 DEF Types
      <4>2. QED BY <3>1, <3>2, <3>4, <3>5, <4>1 DEF Types
    <3>7. CommandsInOrder'
      BY <3>1, <3>2 DEF CommandsInOrder
    <3>8. NextIsFresh' /\ IndicesFit'
      BY <3>1, <3>3 DEF NextIsFresh, NothingSentTwice, IndicesFit
    <3>9. FailureIsKnown'
      BY <3>1, <3>3 DEF FailureIsKnown
    <3>10. GhostsFit'
      BY <3>1, <3>2, <3>3, <3>4 DEF GhostsFit, NextIsFresh, Trusted
    <3>11. ResultIsExact'
      <4>1. CountIsExact'
        BY <3>3, <3>4, FS_EmptySet DEF CountIsExact
      <4>2. QED BY <3>3, <3>4, <4>1 DEF ResultIsExact, ErrorsNameTheirOperations, UpsertsNameTheirOperations
    <3>12. QED BY <3>6, <3>7, <3>8, <3>9, <3>10, <3>11 DEF Inv
  <2>7. QED BY <2>5, <2>6
<1>3. QED BY <1>1, <1>2

LEMMA InitInv == Init => Inv
<1> SUFFICES ASSUME Init PROVE Inv
  OBVIOUS
<1>1. /\ ops = <<>> /\ commands = <<>> /\ fate = <<>> /\ sends = <<>> /\ late = {}
      /\ phase = "building" /\ current = 1 /\ next = 1 /\ offset = 0 /\ at = 0
      /\ result = NoResult /\ stream = "open"
      /\ bulk \in [ordered: BOOLEAN, server: Server, acknowledged: BOOLEAN, once: BOOLEAN]
  BY ServerAssumption DEF Init
<1>2. Ids = {} /\ DOMAIN commands = {} /\ DOMAIN fate = {} /\ DOMAIN sends = {}
  BY <1>1 DEF Ids
<1>3. NoResult \in ResultType /\ NoResult.n = 0 /\ ~NoResult.mustStop
      /\ NoResult.upserted = {} /\ NoResult.errors = {} /\ NoResult.concernErrors = 0
  BY DEF NoResult, ResultType
<1>4. BulkTypeOK
  <2>1. /\ {result.n, result.concernErrors} \subseteq Nat
        /\ result.upserted \cup result.errors \subseteq Ids
        /\ {result.failed, result.mustStop, result.error} \subseteq BOOLEAN
    BY <1>1, <1>3 DEF ResultType
  <2>2. ops \in Seq(Operation)
    BY <1>1
  <2>3. QED BY <1>1, <1>2, <2>1, <2>2 DEF BulkTypeOK
<1>5. Types
  <2>1. fate \in [Ids -> Fate] /\ sends \in [Ids -> Nat] /\ commands \in Seq(CommandType)
    BY <1>1, <1>2
  <2>2. QED BY <1>1, <1>3, <1>4, <2>1 DEF Types
<1>6. CommandsInOrder
  BY <1>2 DEF CommandsInOrder
<1>7. NextIsFresh /\ IndicesFit /\ FailureIsKnown /\ ResultIsExact
  BY <1>1, <1>2 DEF NextIsFresh, NothingSentTwice, IndicesFit, FailureIsKnown, ResultIsExact
<1>8. GhostsFit
  BY <1>1, <1>2, <1>3 DEF GhostsFit, Trusted
<1>9. QED BY <1>5, <1>6, <1>7, <1>8 DEF Inv

LEMMA NextKeepsInv == Inv /\ [Next]_vars => Inv'
<1> SUFFICES ASSUME Inv, [Next]_vars PROVE Inv'
  OBVIOUS
<1>1. CASE \E o \in Operation : \/ Insert(o) \/ Update(o) \/ Remove(o)
                                \/ BulkWriteInsert(o) \/ BulkWriteUpdate(o) \/ BulkWriteDelete(o)
  <2>1. PICK o \in Operation : AddOperation(o)
    BY <1>1 DEF Insert, Update, Remove, BulkWriteInsert, BulkWriteUpdate, BulkWriteDelete
  <2>2. QED BY <2>1, AddOperationKeepsInv
<1>2. CASE \E a \in Acknowledgement : SetWriteConcern(a)
  BY <1>2, SetWriteConcernKeepsInv
<1>3. CASE Execute \/ \E a \in Acknowledgement : ExecuteWrite(a)
  BY <1>3, ExecuteKeepsInv
<1>4. CASE \E a \in Acknowledgement :
              \/ \E o \in Operation : CollectionSave(o, a) \/ CollectionRemove(o, a)
              \/ \E k \in 0 .. MaxOperations : \E s \in [1 .. k -> Inserts] : InsertBulk(s, a)
  BY <1>4, CollectionKeepsInv
<1>5. CASE RunCommand
  BY <1>5, RefuseKeepsInv, TooLargeKeepsInv, RunBatchKeepsInv, LegacyWriteKeepsInv, LegacyInsertKeepsInv
  DEF RunCommand
<1>6. CASE UNCHANGED vars
  <2>1. UNCHANGED <<ops, commands, bulk, phase, current, next, offset, at, result, fate, sends, late, stream>>
    BY <1>6 DEF vars
  <2>2. Types'
    BY <2>1, ZenonT(30) DEF Inv, Types, BulkTypeOK, Command, Ids
  <2>3. CommandsInOrder' /\ NextIsFresh' /\ IndicesFit'
    BY <2>1 DEF Inv, CommandsInOrder, NextIsFresh, IndicesFit, NothingSentTwice, Command, Ids
  <2>4. FailureIsKnown' /\ GhostsFit'
    BY <2>1 DEF Inv, FailureIsKnown, GhostsFit, Trusted, Unsupported, Confirmed, Applied, Command, Ids
  <2>5. ResultIsExact'
    BY <2>1 DEF Inv, ResultIsExact, Trusted, ErrorsNameTheirOperations, UpsertsNameTheirOperations,
                CountIsExact, Uncounted, Ids
  <2>6. QED BY <2>2, <2>3, <2>4, <2>5 DEF Inv
<1>7. QED BY <1>1, <1>2, <1>3, <1>4, <1>5, <1>6, Zenon DEF Next

-----------------------------------------------------------------------------

\* The inductive invariant of a bulk and of its execution, for any operations, limits and
\* servers, and whatever comes of every batch.
THEOREM InvIsInvariant == Spec => []Inv
<1>1. QED BY InitInv, NextKeepsInv, PTL DEF Spec

\* Commands, batches and what was sent of them fit together, and no operation is sent twice
\* (_mongoc_write_command: the splitting of a command into batches).
THEOREM BulkStaysSound == Spec => []BulkIsSound
<1>1. Inv => BulkIsSound
  BY DEF Inv, Types, NextIsFresh, BulkIsSound
<1>2. QED BY <1>1, InvIsInvariant, PTL

\* What the caller of mongoc_bulk_operation_execute is told of each operation, by index or by
\* count, is what became of it (_mongoc_write_result_merge and its legacy counterpart).
THEOREM ResultStaysExact == Spec => []ResultIsExact
<1>1. Inv => ResultIsExact
  BY DEF Inv
<1>2. QED BY <1>1, InvIsInvariant, PTL

\* An acknowledged bulk that succeeds has had every operation applied: no failure is
\* forgotten by the batches and commands after it.
THEOREM SuccessIsTrue == Spec => []SuccessMeansApplied
<1>1. Inv => SuccessMeansApplied
  <2> SUFFICES ASSUME Inv, Succeeded, bulk.acknowledged, ~Unsupported
               PROVE  Applied = Ids /\ late = {}
    BY DEF SuccessMeansApplied
  <2>1. phase = "done" /\ ~result.failed /\ ~result.error /\ result.concernErrors = 0
    BY DEF Succeeded
  <2>2. Trusted /\ late = {} /\ \A i \in Ids : fate[i] # "unconfirmed"
    BY <2>1 DEF Inv, GhostsFit
  <2>3. \A i \in Ids : Confirmed(i)
    BY <2>1, <2>2 DEF Inv, FailureIsKnown
  <2>4. QED BY <2>2, <2>3 DEF Confirmed, Applied
<1>2. QED BY <1>1, InvIsInvariant, PTL

\* The command of an ordered bulk whose operations were sent has only such before it as were
\* applied or are not asked about (the loop of mongoc_bulk_operation_execute ends at a
\* command that failed).
THEOREM OrderedCommandsStop == Spec => []OrderedStopsAtCommands
<1>1. Inv => OrderedStopsAtCommands
  <2> SUFFICES ASSUME Inv, phase # "building", bulk.ordered, Trusted, ~Unsupported,
                      NEW k \in DOMAIN commands,
                      NEW i \in commands[k].first .. commands[k].last, sends[i] > 0,
                      NEW j \in 1 .. commands[k].first - 1
               PROVE  j \in Applied \/ fate[j] = "unconfirmed"
    BY DEF OrderedStopsAtCommands
  <2>1. /\ DOMAIN commands = 1 .. Len(commands) /\ Len(commands) \in Nat
        /\ commands[k] \in CommandType /\ commands[k].last <= Len(ops)
        /\ Ids = 1 .. Len(ops) /\ Len(ops) \in Nat
    <3>1. ops \in Seq(Operation) /\ commands \in Seq(CommandType)
      BY DEF Inv, Types, BulkTypeOK
    <3>2. commands[k].last <= Len(ops)
      BY DEF Inv, CommandsInOrder
    <3>3. QED BY <3>1, <3>2 DEF Ids
  <2>2. commands[k].first \in Nat \ {0} /\ commands[k].last \in Nat
    BY <2>1 DEF CommandType
  <2>3. i \in Ids /\ j \in Ids
    BY <2>1, <2>2
  <2>4. current \in DOMAIN commands /\ i <= Command.last
    BY <2>3 DEF Inv, NextIsFresh
  <2>5. Command \in CommandType /\ Command.first \in Nat /\ Command.last \in Nat
    <3>1. commands \in Seq(CommandType)
      BY DEF Inv, Types
    <3>2. Command \in CommandType
      BY <2>4, <3>1 DEF Command
    <3>3. QED BY <3>2 DEF CommandType
  <2>6. k <= current
    <3>1. current < k => commands[current].last < commands[k].first
      BY <2>4 DEF Inv, CommandsInOrder
    <3>2. QED BY <2>1, <2>2, <2>4, <2>5, <3>1 DEF Command
  <2>7. commands[k].first <= Command.first
    <3>1. CASE k = current
      BY <2>5, <3>1 DEF Command
    <3>2. CASE k < current
      <4>1. commands[k].last < Command.first /\ commands[k].first <= commands[k].last
        BY <2>4, <3>2 DEF Inv, Types, BulkTypeOK, CommandsInOrder, Command
      <4>2. QED BY <2>2, <2>5, <4>1
    <3>3. QED BY <2>1, <2>4, <2>6, <3>1, <3>2
  <2>8. j < Command.first
    BY <2>2, <2>5, <2>7
  <2>9. QED BY <2>3, <2>8 DEF Inv, FailureIsKnown, Confirmed
<1>2. QED BY <1>1, InvIsInvariant, PTL
=============================================================================
