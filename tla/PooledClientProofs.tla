-------------------------- MODULE PooledClientProofs --------------------------
(***************************************************************************)
(* The clients of a pool: the pool keeps its promises for any number of    *)
(* threads and clients and any sequence of sizes, and the monitor's thread *)
(* that its clients share keeps its own for any servers and threads.       *)
(***************************************************************************)
EXTENDS ClientPool, Monitor, FiniteSetTheorems, TLAPS

-----------------------------------------------------------------------------
(* The pool.                                                               *)

\* The inductive invariant.
PoolInv == PoolTypeOK /\ OneOwner /\ SizeCountsLiveClients

-----------------------------------------------------------------------------
LEMMA FiniteSets ==
    ASSUME PoolTypeOK
    PROVE  /\ IsFiniteSet(Live) /\ Cardinality(Live) \in Nat
           /\ IsFiniteSet(woken) /\ Cardinality(woken) \in Nat
<1>1. Live \subseteq Client
  <2>1. Idle \subseteq Client
    BY DEF Idle, PoolTypeOK
  <2>2. Held \subseteq Client
    BY DEF Held, PoolTypeOK
  <2>3. QED BY <2>1, <2>2 DEF Live
<1>2. woken \subseteq Borrower
  BY DEF PoolTypeOK
<1>3. IsFiniteSet(Live) /\ IsFiniteSet(woken)
  BY <1>1, <1>2, ClientAssumption, BorrowerAssumption, FS_Subset
<1>4. QED BY <1>3, FS_CardinalityType

\* A thread that pops the head of the queue becomes its only owner.
LEMMA TakeKeepsOwners ==
    ASSUME PoolInv, NEW t \in Borrower, Take(t)
    PROVE  /\ queue' \in Seq(Client) /\ Len(queue') = Len(queue) - 1
           /\ held' \in [Borrower -> SUBSET Client]
           /\ OneOwner' /\ Live' = Live
<1>1. /\ queue \in Seq(Client) /\ queue # <<>>
      /\ held \in [Borrower -> SUBSET Client]
      /\ queue' = Tail(queue)
      /\ held' = [held EXCEPT ![t] = held[t] \cup {Head(queue)}]
  BY DEF PoolInv, PoolTypeOK, Take
<1>2. /\ queue' \in Seq(Client) /\ Len(queue') = Len(queue) - 1
      /\ Len(queue) \in Nat \ {0}
      /\ \A i \in 1 .. Len(queue') : queue'[i] = queue[i + 1]
      /\ DOMAIN queue = 1 .. Len(queue) /\ DOMAIN queue' = 1 .. Len(queue')
      /\ Head(queue) = queue[1] /\ queue[1] \in Client
  BY <1>1
<1>3. /\ \A u \in Borrower : held'[u] = IF u = t THEN held[t] \cup {queue[1]} ELSE held[u]
      /\ held' \in [Borrower -> SUBSET Client]
  BY <1>1, <1>2
<1>4. Held' = Held \cup {queue[1]}
  BY <1>3 DEF Held
<1>5. Idle' = Idle \ {queue[1]}
  <2>1. \A i \in DOMAIN queue : i = 1 \/ (i - 1 \in DOMAIN queue' /\ queue'[i - 1] = queue[i])
    BY <1>2
  <2>2. \A i \in DOMAIN queue' : /\ i + 1 \in DOMAIN queue
                                 /\ i + 1 # 1
                                 /\ queue'[i] = queue[i + 1]
    BY <1>2
  <2>3. 1 \in DOMAIN queue
    BY <1>2
  <2>4. \A i, j \in DOMAIN queue : queue[i] = queue[j] => i = j
    BY DEF PoolInv, OneOwner
  <2>5. QED BY <2>1, <2>2, <2>3, <2>4 DEF Idle
<1>6. queue[1] \in Idle
  BY <1>2 DEF Idle
<1>7. Live' = Live
  BY <1>4, <1>5, <1>6 DEF Live
<1>8. \A i, j \in DOMAIN queue' : queue'[i] = queue'[j] => i = j
  <2>1. \A i, j \in DOMAIN queue : queue[i] = queue[j] => i = j
    BY DEF PoolInv, OneOwner
  <2>2. QED BY <1>2, <2>1
<1>9. Idle' \cap Held' = {}
  BY <1>4, <1>5 DEF PoolInv, OneOwner
<1>10. \A u, v \in Borrower : u # v => held'[u] \cap held'[v] = {}
  <2>1. \A u \in Borrower : queue[1] \notin held[u]
    BY <1>6 DEF PoolInv, OneOwner, Held
  <2>2. QED BY <1>3, <2>1 DEF PoolInv, OneOwner
<1>11. QED BY <1>2, <1>3, <1>7, <1>8, <1>9, <1>10 DEF OneOwner

\* A client made by pop is nobody else's.
LEMMA CreateKeepsOwners ==
    ASSUME PoolInv, NEW t \in Borrower, Create(t)
    PROVE  /\ held' \in [Borrower -> SUBSET Client]
           /\ OneOwner' /\ \E c \in Client \ Live : Live' = Live \cup {c}
<1>1. PICK c \in Client \ Live : held' = [held EXCEPT ![t] = held[t] \cup {c}]
  BY DEF Create
<1>2. held \in [Borrower -> SUBSET Client] /\ queue' = queue
  BY DEF PoolInv, PoolTypeOK, Create
<1>3. /\ \A u \in Borrower : held'[u] = IF u = t THEN held[t] \cup {c} ELSE held[u]
      /\ held' \in [Borrower -> SUBSET Client]
  BY <1>1, <1>2
<1>4. Held' = Held \cup {c} /\ Idle' = Idle
  BY <1>2, <1>3 DEF Held, Idle
<1>5. \A u \in Borrower : c \notin held[u]
  BY DEF Live, Held
<1>6. OneOwner'
  <2>1. Idle' \cap Held' = {}
    BY <1>4 DEF Live, PoolInv, OneOwner
  <2>2. \A u, v \in Borrower : u # v => held'[u] \cap held'[v] = {}
    BY <1>3, <1>5 DEF PoolInv, OneOwner
  <2>3. QED BY <1>2, <2>1, <2>2 DEF PoolInv, OneOwner
<1>7. Live' = Live \cup {c}
  BY <1>4 DEF Live
<1>8. QED BY <1>3, <1>6, <1>7

\* A push makes the client idle, or trades it for one that is destroyed.
LEMMA PushKeepsOwners ==
    ASSUME PoolInv, NEW t \in Borrower, Push(t)
    PROVE  /\ queue' \in Seq(Client)
           /\ held' \in [Borrower -> SUBSET Client]
           /\ OneOwner'
           /\ \/ size' = size /\ Len(queue') = Len(queue) + 1 /\ Live' = Live
              \/ /\ size' = size - 1 /\ Len(queue') = Len(queue)
                 /\ \E c \in Live : Live' = Live \ {c}
<1> DEFINE pushed(c) == <<c>> \o queue
           trim(c) == minSize > 0 /\ Len(pushed(c)) > minSize
<1>1. PICK c \in held[t] :
         /\ held' = [held EXCEPT ![t] = held[t] \ {c}]
         /\ queue' = IF trim(c) THEN SubSeq(pushed(c), 1, Len(pushed(c)) - 1) ELSE pushed(c)
         /\ size' = IF trim(c) THEN size - 1 ELSE size
  BY DEF Push
<1>2. /\ queue \in Seq(Client)
      /\ held \in [Borrower -> SUBSET Client]
      /\ c \in Client /\ c \in Held
  BY DEF PoolInv, PoolTypeOK, Held
<1> DEFINE n == Len(queue)
           p == pushed(c)
<1>3. /\ n \in Nat /\ DOMAIN queue = 1 .. n
      /\ p \in Seq(Client) /\ Len(p) = n + 1 /\ DOMAIN p = 1 .. (n + 1)
      /\ p[1] = c
      /\ \A i \in 1 .. n : p[i + 1] = queue[i]
  BY <1>2
<1>4. /\ \A u \in Borrower : held'[u] = IF u = t THEN held[t] \ {c} ELSE held[u]
      /\ held' \in [Borrower -> SUBSET Client]
  BY <1>1, <1>2
<1>5. Held' = Held \ {c}
  <2>1. \A u \in Borrower : u # t => c \notin held[u]
    BY DEF PoolInv, OneOwner
  <2>2. QED BY <1>4, <2>1 DEF Held
<1>6. \A u, v \in Borrower : u # v => held'[u] \cap held'[v] = {}
  BY <1>4 DEF PoolInv, OneOwner
<1>7. \A i \in DOMAIN queue : queue[i] # c
  BY <1>2 DEF PoolInv, OneOwner, Idle
<1>8. \A i, j \in DOMAIN queue : queue[i] = queue[j] => i = j
  BY DEF PoolInv, OneOwner
<1> HIDE DEF n, p, pushed
<1>9. \A i, j \in 1 .. (n + 1) : p[i] = p[j] => i = j
  <2> SUFFICES ASSUME NEW i \in 1 .. (n + 1), NEW j \in 1 .. (n + 1), p[i] = p[j]
               PROVE  i = j
    OBVIOUS
  <2>1. \A k \in 1 .. (n + 1) : k = 1 \/ (k - 1 \in 1 .. n /\ p[k] = queue[k - 1])
    <3> SUFFICES ASSUME NEW k \in 1 .. (n + 1), k # 1
                 PROVE  k - 1 \in 1 .. n /\ p[k] = queue[k - 1]
      OBVIOUS
    <3>1. k - 1 \in 1 .. n
      BY <1>3
    <3>2. p[(k - 1) + 1] = queue[k - 1]
      BY <1>3, <3>1
    <3>3. (k - 1) + 1 = k
      BY <1>3
    <3>4. QED BY <3>1, <3>2, <3>3
  <2>2. CASE i = 1 \/ j = 1
    BY <1>3, <1>7, <2>1, <2>2, ZenonT(30)
  <2>3. CASE i # 1 /\ j # 1
    <3>1. /\ i - 1 \in 1 .. n /\ p[i] = queue[i - 1]
          /\ j - 1 \in 1 .. n /\ p[j] = queue[j - 1]
      BY <2>1, <2>3
    <3>2. queue[i - 1] = queue[j - 1]
      BY <3>1
    <3>3. i - 1 = j - 1
      BY <1>3, <1>8, <3>1, <3>2, Zenon
    <3>4. i \in Int /\ j \in Int
      BY <1>3
    <3>5. QED BY <3>3, <3>4
  <2>4. QED BY <2>2, <2>3
<1>10. {p[i] : i \in 1 .. (n + 1)} = Idle \cup {c}
  <2>1. \A k \in 1 .. (n + 1) : k = 1 \/ (k - 1 \in 1 .. n /\ p[k] = queue[k - 1])
    <3> SUFFICES ASSUME NEW k \in 1 .. (n + 1), k # 1
                 PROVE  k - 1 \in 1 .. n /\ p[k] = queue[k - 1]
      OBVIOUS
    <3>1. k - 1 \in 1 .. n /\ (k - 1) + 1 = k
      BY <1>3
    <3>2. QED BY <1>3, <3>1
  <2>2. \A k \in 1 .. n : k + 1 \in 1 .. (n + 1) /\ p[k + 1] = queue[k]
    BY <1>3
  <2>3. 1 \in 1 .. (n + 1) /\ p[1] = c
    BY <1>3
  <2>4. Idle = {queue[i] : i \in 1 .. n}
    BY <1>3 DEF Idle
  <2>5. {p[i] : i \in 1 .. (n + 1)} \subseteq Idle \cup {c}
    BY <2>1, <2>3, <2>4
  <2>6. Idle \cup {c} \subseteq {p[i] : i \in 1 .. (n + 1)}
    BY <2>2, <2>3, <2>4
  <2>7. QED BY <2>5, <2>6
<1>11. CASE ~trim(c)
  <2>1. queue' = p /\ size' = size
    BY <1>1, <1>11 DEF p
  <2>2. DOMAIN queue' = 1 .. (n + 1) /\ Idle' = Idle \cup {c}
    BY <1>3, <1>10, <2>1 DEF Idle
  <2>3. OneOwner'
    BY <1>5, <1>6, <1>9, <2>1, <2>2 DEF OneOwner, PoolInv
  <2>4. Live' = Live
    BY <1>2, <1>5, <2>2 DEF Live
  <2>5. QED BY <1>3, <1>4, <2>1, <2>3, <2>4 DEF n
<1>12. CASE trim(c)
  <2>1. queue' = SubSeq(p, 1, (n + 1) - 1) /\ size' = size - 1
    BY <1>1, <1>3, <1>12 DEF p
  <2>2. /\ queue' \in Seq(Client) /\ Len(queue') = n
        /\ DOMAIN queue' = 1 .. n
        /\ \A i \in 1 .. n : queue'[i] = p[i]
    <3>1. queue' = SubSeq(p, 1, n)
      BY <1>3, <2>1
    <3>2. QED BY <1>3, <3>1
  <2>3. Idle' = (Idle \cup {c}) \ {p[n + 1]}
    <3>1. Idle' = {p[i] : i \in 1 .. n}
      BY <2>2 DEF Idle
    <3>2. \A i \in 1 .. (n + 1) : i = n + 1 \/ i \in 1 .. n
      BY <1>3
    <3>3. \A i \in 1 .. n : i \in 1 .. (n + 1) /\ i # n + 1
      BY <1>3
    <3>4. n + 1 \in 1 .. (n + 1)
      BY <1>3
    <3>5. QED BY <1>9, <1>10, <3>1, <3>2, <3>3, <3>4
  <2>4. p[n + 1] \in Idle \cup {c}
    <3>1. n + 1 \in 1 .. (n + 1)
      BY <1>3
    <3>2. QED BY <1>10, <3>1
  <2>5. OneOwner'
    <3>1. Idle' \cap Held' = {}
      BY <1>5, <2>3 DEF OneOwner, PoolInv
    <3>2. \A i, j \in DOMAIN queue' : queue'[i] = queue'[j] => i = j
      BY <1>3, <1>9, <2>2
    <3>3. QED BY <1>6, <3>1, <3>2 DEF OneOwner
  <2>6. Live' = Live \ {p[n + 1]} /\ p[n + 1] \in Live
    BY <1>2, <1>5, <2>3, <2>4 DEF Live, PoolInv, OneOwner
  <2>7. QED BY <1>4, <2>1, <2>2, <2>5, <2>6 DEF n
<1>13. QED BY <1>11, <1>12

-----------------------------------------------------------------------------
LEMMA InitIsClean == PoolInit => PoolInv
<1> SUFFICES ASSUME PoolInit PROVE PoolInv
  OBVIOUS
<1>1. queue = <<>> /\ size = 0 /\ held = [t \in Borrower |-> {}]
  BY DEF PoolInit
<1>2. PoolTypeOK
  BY DEF PoolInit, PoolTypeOK
<1>3. Idle = {} /\ Held = {}
  BY <1>1 DEF Idle, Held
<1>4. OneOwner
  BY <1>1, <1>3 DEF OneOwner
<1>5. SizeCountsLiveClients
  BY <1>1, <1>3, FS_EmptySet DEF SizeCountsLiveClients, Live
<1>6. QED BY <1>2, <1>4, <1>5 DEF PoolInv

\* What pop and try_pop do to the pool when they get a client.
LEMMA GetKeepsInv ==
    ASSUME PoolInv, NEW t \in Borrower, Take(t) \/ Create(t)
    PROVE  /\ queue' \in Seq(Client) /\ size' \in Nat
           /\ held' \in [Borrower -> SUBSET Client]
           /\ OneOwner' /\ SizeCountsLiveClients'
<1>1. CASE Take(t)
  <2>1. Live' = Live /\ size' = size
    BY <1>1, TakeKeepsOwners DEF Take
  <2>2. QED BY <1>1, <2>1, TakeKeepsOwners DEF PoolInv, PoolTypeOK, SizeCountsLiveClients
<1>2. CASE Create(t)
  <2>1. PICK c \in Client \ Live : Live' = Live \cup {c}
    BY <1>2, CreateKeepsOwners
  <2>2. Cardinality(Live') = Cardinality(Live) + 1
    <3>1. IsFiniteSet(Live) /\ c \notin Live
      BY FiniteSets DEF PoolInv
    <3>2. Cardinality(Live \cup {c}) = Cardinality(Live) + 1
      BY <3>1, FS_AddElement
    <3>3. QED BY <2>1, <3>2
  <2>3. size' = size + 1 /\ queue' = queue
    BY <1>2 DEF Create
  <2>4. QED BY <1>2, <2>2, <2>3, CreateKeepsOwners DEF PoolInv, PoolTypeOK, SizeCountsLiveClients
<1>3. QED BY <1>1, <1>2

LEMMA PushKeepsSize ==
    ASSUME PoolInv, NEW t \in Borrower, Push(t)
    PROVE  SizeCountsLiveClients' /\ size' \in Nat
<1>1. CASE size' = size /\ Live' = Live
  BY <1>1 DEF PoolInv, PoolTypeOK, SizeCountsLiveClients
<1>2. CASE size' = size - 1 /\ \E c \in Live : Live' = Live \ {c}
  <2>1. PICK c \in Live : Live' = Live \ {c}
    BY <1>2
  <2>2. IsFiniteSet(Live) /\ IsFiniteSet(Live \ {c})
    BY FiniteSets, FS_Subset DEF PoolInv
  <2>3. Cardinality(Live \ {c}) = Cardinality(Live) - 1
    BY <2>2, FS_RemoveElement
  <2>4. Cardinality(Live \ {c}) \in Nat
    BY <2>2, FS_CardinalityType
  <2>5. QED BY <1>2, <2>1, <2>3, <2>4 DEF PoolInv, SizeCountsLiveClients
<1>3. QED BY <1>1, <1>2, PushKeepsOwners

\* The operations that leave the queue and the threads' clients alone.
LEMMA SleepersOwnNothing ==
    ASSUME PoolInv, UNCHANGED <<queue, size, held>>
    PROVE  OneOwner' /\ SizeCountsLiveClients'
<1>1. Idle' = Idle /\ Held' = Held
  BY DEF Idle, Held
<1>2. QED BY <1>1 DEF PoolInv, OneOwner, SizeCountsLiveClients, Live

LEMMA PoolNextKeepsInv == PoolInv /\ [PoolNext]_poolVars => PoolInv'
<1> SUFFICES ASSUME PoolInv, [PoolNext]_poolVars PROVE PoolInv'
  OBVIOUS
<1>1. ASSUME NEW t \in Borrower, PopClient(t) PROVE PoolInv'
  <2>1. Take(t) \/ Create(t)
    BY <1>1 DEF PopClient
  <2>2. QED BY <1>1, <2>1, GetKeepsInv DEF PoolInv, PoolTypeOK, PopClient
<1>2. ASSUME NEW t \in Borrower, PopSleep(t) PROVE PoolInv'
  BY <1>2, SleepersOwnNothing DEF PoolInv, PoolTypeOK, PopSleep
<1>3. ASSUME NEW t \in Borrower, TryPop(t) PROVE PoolInv'
  <2>1. Take(t) \/ Create(t)
    BY <1>3 DEF TryPop
  <2>2. QED BY <1>3, <2>1, GetKeepsInv DEF PoolInv, PoolTypeOK, TryPop
<1>4. ASSUME NEW t \in Borrower, Push(t) PROVE PoolInv'
  <2>1. waiting' \subseteq Borrower /\ woken' \subseteq Borrower \ waiting'
    BY <1>4 DEF Push, Signal, PoolInv, PoolTypeOK
  <2>2. UNCHANGED <<minSize, maxSize>>
    BY <1>4 DEF Push
  <2>3. QED BY <1>4, <2>1, <2>2, PushKeepsOwners, PushKeepsSize DEF PoolInv, PoolTypeOK
<1>5. ASSUME NEW t \in Borrower, SpuriousWakeup(t) PROVE PoolInv'
  BY <1>5, SleepersOwnNothing DEF PoolInv, PoolTypeOK, SpuriousWakeup
<1>6. ASSUME NEW n \in MaxSizes, SetMaxSize(n) PROVE PoolInv'
  BY <1>6, SleepersOwnNothing DEF PoolInv, PoolTypeOK, SetMaxSize
<1>7. ASSUME NEW n \in MinSizes, SetMinSize(n) PROVE PoolInv'
  BY <1>7, SleepersOwnNothing DEF PoolInv, PoolTypeOK, SetMinSize
<1>8. CASE UNCHANGED poolVars
  BY <1>8, SleepersOwnNothing DEF PoolInv, PoolTypeOK, poolVars
<1>9. QED BY <1>1, <1>2, <1>3, <1>4, <1>5, <1>6, <1>7, <1>8 DEF PoolNext

\* The pool's mutex and its counting keep PoolInv in every behaviour.
THEOREM PoolInvIsInvariant == PoolSpec => []PoolInv
BY InitIsClean, PoolNextKeepsInv, PTL DEF PoolSpec

\* Every operation of mongoc-client-pool.c leaves a well-formed pool: pop, try_pop and
\* push never give one client to two threads, nor leave one in the queue that a thread
\* holds, and pool->size counts the clients alive, trimmed ones included, whatever the
\* limits are changed to.
THEOREM PoolStaysSound == PoolSpec => []PoolIsSound
<1>1. PoolInv => PoolIsSound
  BY DEF PoolInv, PoolIsSound
<1>2. QED BY <1>1, PoolInvIsInvariant, PTL

-----------------------------------------------------------------------------
\* The clients that could be had.
Slack == Len(queue) + (maxSize - size)

LEMMA SlackIsNumber ==
    ASSUME PoolInv
    PROVE  /\ Slack \in Int /\ Len(queue) \in Nat
           /\ size \in Nat /\ maxSize \in Nat
           /\ Cardinality(woken) \in Nat /\ IsFiniteSet(woken)
<1>1. Len(queue) \in Nat /\ size \in Nat /\ maxSize \in Nat
  BY SizeAssumption DEF PoolInv, PoolTypeOK
<1>2. QED BY <1>1, FiniteSets DEF Slack, PoolInv

\* A client fetched is one fewer to be had; what the thread was woken for is
\* used up.
LEMMA GetTakesSlack ==
    ASSUME PoolInv, NEW t \in Borrower, Take(t) \/ Create(t), maxSize' = maxSize
    PROVE  Slack' = Slack - 1
<1>1. CASE Take(t)
  <2>1. Len(queue') = Len(queue) - 1 /\ size' = size
    BY <1>1, TakeKeepsOwners DEF Take
  <2>2. QED BY <2>1, SlackIsNumber DEF Slack
<1>2. CASE Create(t)
  <2>1. queue' = queue /\ size' = size + 1
    BY <1>2 DEF Create
  <2>2. QED BY <2>1, SlackIsNumber DEF Slack
<1>3. QED BY <1>1, <1>2

LEMMA FewerAwake ==
    ASSUME PoolInv, NEW t \in Borrower, woken' = woken \ {t}
    PROVE  Cardinality(woken') \in Nat /\ Cardinality(woken') >= Cardinality(woken) - 1
<1>1. IsFiniteSet(woken) /\ Cardinality(woken) \in Nat
  BY SlackIsNumber
<1>2. CASE t \in woken
  <2>1. Cardinality(woken \ {t}) = Cardinality(woken) - 1
    BY <1>1, <1>2, FS_RemoveElement
  <2>2. IsFiniteSet(woken \ {t})
    BY <1>1, FS_Subset
  <2>3. Cardinality(woken \ {t}) \in Nat
    BY <2>2, FS_CardinalityType
  <2>4. QED BY <1>1, <2>1, <2>3
<1>3. CASE t \notin woken
  <2>1. woken' = woken
    BY <1>3
  <2>2. QED BY <1>1, <2>1
<1>4. QED BY <1>2, <1>3

LEMMA OneMoreAwake ==
    ASSUME PoolInv, NEW t \in waiting, woken' = woken \cup {t}
    PROVE  Cardinality(woken') = Cardinality(woken) + 1
<1>1. IsFiniteSet(woken) /\ t \notin woken
  BY SlackIsNumber DEF PoolInv, PoolTypeOK
<1>2. Cardinality(woken \cup {t}) = Cardinality(woken) + 1
  BY <1>1, FS_AddElement
<1>3. QED BY <1>2

LEMMA NextStrandsNobody == PoolInv /\ [PoolNext]_poolVars => StrandingStep
<1> SUFFICES ASSUME PoolInv, [PoolNext]_poolVars, ~Stranded, Stranded'
             PROVE  maxSize' > maxSize
  BY DEF StrandingStep
<1>1. waiting # {} => Slack <= Cardinality(woken)
  BY SlackIsNumber DEF Stranded, Slack
<1>2. waiting' # {} /\ Slack' > Cardinality(woken')
  BY DEF Stranded, Slack
<1>3. ASSUME NEW t \in Borrower, PopClient(t) PROVE FALSE
  <2>1. waiting' = waiting /\ Slack' = Slack - 1
    BY <1>3, GetTakesSlack DEF PopClient
  <2>2. woken' = woken \ {t}
    BY <1>3 DEF PopClient
  <2>3. Cardinality(woken') \in Nat /\ Cardinality(woken') >= Cardinality(woken) - 1
    BY <2>2, FewerAwake
  <2>4. QED BY <1>1, <1>2, <2>1, <2>3, SlackIsNumber
<1>4. ASSUME NEW t \in Borrower, PopSleep(t) PROVE FALSE
  <2>1. queue' = <<>> /\ size' >= maxSize' /\ size' = size /\ maxSize' = maxSize
    BY <1>4, SlackIsNumber DEF PopSleep
  <2>2. Slack' <= 0
    BY <2>1, SlackIsNumber DEF Slack
  <2>3. woken' = woken \ {t}
    BY <1>4 DEF PopSleep
  <2>4. Cardinality(woken') \in Nat
    BY <2>3, FewerAwake
  <2>5. Slack' \in Int
    BY <2>1, SlackIsNumber DEF Slack
  <2>6. QED BY <1>2, <2>2, <2>4, <2>5
<1>5. ASSUME NEW t \in Borrower, TryPop(t) PROVE FALSE
  <2>1. waiting' = waiting /\ woken' = woken /\ Slack' = Slack - 1
    BY <1>5, GetTakesSlack DEF TryPop
  <2>2. QED BY <1>1, <1>2, <2>1, SlackIsNumber
<1>6. ASSUME NEW t \in Borrower, Push(t) PROVE FALSE
  <2>1. Slack' = Slack + 1
    <3>1. maxSize' = maxSize
      BY <1>6 DEF Push
    <3>2. \/ size' = size /\ Len(queue') = Len(queue) + 1
          \/ size' = size - 1 /\ Len(queue') = Len(queue)
      BY <1>6, PushKeepsOwners
    <3>3. QED BY <3>1, <3>2, SlackIsNumber DEF Slack
  <2>2. waiting # {}
    BY <1>2, <1>6 DEF Push, Signal
  <2>3. PICK u \in waiting : woken' = woken \cup {u}
    BY <1>6, <2>2 DEF Push, Signal
  <2>4. Cardinality(woken') = Cardinality(woken) + 1
    BY <2>3, OneMoreAwake
  <2>5. QED BY <1>1, <1>2, <2>1, <2>2, <2>4, SlackIsNumber
<1>7. ASSUME NEW t \in Borrower, SpuriousWakeup(t) PROVE FALSE
  <2>1. t \in waiting /\ woken' = woken \cup {t} /\ Slack' = Slack
    BY <1>7 DEF SpuriousWakeup, Slack
  <2>2. Cardinality(woken') = Cardinality(woken) + 1
    BY <2>1, OneMoreAwake
  <2>3. QED BY <1>1, <1>2, <2>1, <2>2, SlackIsNumber
<1>8. ASSUME NEW n \in MaxSizes, SetMaxSize(n) PROVE maxSize' > maxSize
  <2>1. /\ maxSize' = n /\ n \in Nat
        /\ queue' = queue /\ size' = size /\ waiting' = waiting /\ woken' = woken
    BY <1>8, SizeAssumption DEF SetMaxSize
  <2>2. Slack' = Len(queue) + (n - size)
    BY <2>1 DEF Slack
  <2>3. QED BY <1>1, <1>2, <2>1, <2>2, SlackIsNumber DEF Slack
<1>9. ASSUME NEW n \in MinSizes, SetMinSize(n) PROVE FALSE
  <2>1. Slack' = Slack /\ waiting' = waiting /\ woken' = woken
    BY <1>9 DEF SetMinSize, Slack
  <2>2. QED BY <1>1, <1>2, <2>1, SlackIsNumber
<1>10. CASE UNCHANGED poolVars
  <2>1. Slack' = Slack /\ waiting' = waiting /\ woken' = woken
    BY <1>10 DEF poolVars, Slack
  <2>2. QED BY <1>1, <1>2, <2>1, SlackIsNumber
<1>11. QED BY <1>3, <1>4, <1>5, <1>6, <1>7, <1>8, <1>9, <1>10 DEF PoolNext

\* Pops, pushes, destroyed clients and spurious wakeups leave no sleeper behind
\* while a client could be had: only mongoc_client_pool_max_size can.
THEOREM PushAlwaysWakesEnough == PoolSpec => OnlyRaisingMaxStrands
<1>1. PoolInv /\ [PoolNext]_poolVars => [StrandingStep]_poolVars
  BY NextStrandsNobody
<1>2. QED BY <1>1, PoolInvIsInvariant, PTL DEF PoolSpec, OnlyRaisingMaxStrands

-----------------------------------------------------------------------------
(* The monitor.                                                            *)

\* A node whose server was removed is retired.
GoneAreRetired ==
    \A s \in Server : node[s] # {} /\ s \notin Present(servers) => "retired" \in node[s]

\* Between scans no command is in flight and no node is retired, unless a handshake did it.
RestIsQuiet ==
    monitor.pc \in {"off", "deciding", "waiting", "done"} /\ ~learned =>
        \A s \in Server : "cmd" \notin node[s] /\ "retired" \notin node[s]

\* While a thread waits for a scan that runs, a reply is to come that will wake it.
ReplyIsToCome ==
    monitor.pc = "working" /\ ~requested /\ monitor.asked /\ (\E t \in Thread : client[t].pc = "waiting")
    => \E s \in Commands : "retired" \notin node[s]

\* A thread that connects has chosen a server.
TargetsAreServers ==
    \A t \in Thread :
        client[t].pc \notin {"idle", "waiting", "woken"} => client[t].server \in Server

\* The inductive invariant.
Inv ==
    /\ MonitorTypeOK
    /\ TargetsAreServers
    /\ OnlyHandshakesAbort
    /\ WaitersAreRemembered
    /\ GoneAreRetired
    /\ RestIsQuiet
    /\ ReplyIsToCome

-----------------------------------------------------------------------------
\* What a reply and the reconciliation after it leave: types, and retired nodes for all
\* servers that are not there.
LEMMA ReplyKeepsNodes ==
    ASSUME MonitorTypeOK, NEW s, NEW ok, NEW sv \in Handled(s, ok), NEW refused \in SUBSET Missing(sv),
           servers' = sv, node' = Reconciled(sv, refused)
    PROVE  /\ servers' \in [Server -> Status]
           /\ node' \in [Server -> SUBSET Flags]
           /\ \A o \in Server : node'[o] # {} => "here" \in node'[o]
           /\ GoneAreRetired'
<1>1. sv \in [Server -> Status]
  BY Zenon DEF Handled
<1>2. /\ node \in [Server -> SUBSET Flags]
      /\ \A o \in Server : node[o] # {} => "here" \in node[o]
  BY DEF MonitorTypeOK
<1>3. Missing(sv) \subseteq Present(sv) /\ \A o \in Missing(sv) : node[o] = {}
  BY DEF Missing
<1>4. ASSUME NEW o \in Server
      PROVE  /\ node'[o] \in SUBSET Flags
             /\ node'[o] # {} => "here" \in node'[o]
             /\ node'[o] # {} /\ o \notin Present(sv) => "retired" \in node'[o]
  <2>1. node'[o] = CASE o \in Missing(sv) \cap refused -> {"here"}
                     [] o \in Missing(sv) \ refused -> {"here", "stream", "cmd"}
                     [] o \notin Present(sv) /\ node[o] # {} -> node[o] \cup {"retired"}
                     [] OTHER -> node[o]
    BY DEF Reconciled
  <2>2. CASE o \in Missing(sv)
    BY <1>3, <2>1, <2>2 DEF Flags
  <2>3. CASE o \notin Missing(sv) /\ o \notin Present(sv) /\ node[o] # {}
    BY <1>2, <2>1, <2>3 DEF Flags
  <2>4. CASE o \notin Missing(sv) /\ (o \in Present(sv) \/ node[o] = {})
    BY <1>2, <2>1, <2>4 DEF Flags
  <2>5. QED BY <2>2, <2>3, <2>4
<1>5. node' \in [Server -> SUBSET Flags]
  BY <1>4 DEF Reconciled
<1>6. QED BY <1>1, <1>4, <1>5 DEF GoneAreRetired

\* A signal to the monitor only ends its wait.
LEMMA SignalKeepsMonitor ==
    ASSUME Inv, monitor' = Signalled, UNCHANGED <<servers, node, learned>>
    PROVE  /\ monitor' \in MonitorType
           /\ monitor'.asked = monitor.asked
           /\ monitor'.pc \in {"working", "calling back"} <=> monitor.pc \in {"working", "calling back"}
           /\ monitor'.pc = "working" <=> monitor.pc = "working"
           /\ RestIsQuiet'
<1>1. CASE monitor.pc = "waiting"
  BY <1>1 DEF Signalled, Inv, MonitorTypeOK, MonitorType, RestIsQuiet
<1>2. CASE monitor.pc # "waiting"
  BY <1>2 DEF Signalled, Inv, MonitorTypeOK, MonitorType, RestIsQuiet
<1>3. QED BY <1>1, <1>2

\* What the other parts of the invariant say of an action that changes neither servers nor
\* nodes, nor begins a scan, nor lets a thread begin to wait.
LEMMA QuietSteps ==
    ASSUME Inv,
           UNCHANGED <<servers, node, requested, client, cluster, shutdown, learned>>,
           aborted' = aborted,
           monitor' \in MonitorType, monitor'.asked = monitor.asked,
           monitor'.pc \in {"off", "deciding", "waiting", "done"},
           monitor.pc \in {"off", "deciding", "waiting", "done"}
    PROVE  Inv'
<1> USE DEF Inv
<1>1. MonitorTypeOK'
  BY DEF MonitorTypeOK
<1>2. OnlyHandshakesAbort'
  BY DEF OnlyHandshakesAbort
<1>3. WaitersAreRemembered'
  BY DEF WaitersAreRemembered
<1>4. GoneAreRetired'
  BY DEF GoneAreRetired, Present
<1>5. RestIsQuiet'
  BY DEF RestIsQuiet
<1>6. ReplyIsToCome'
  BY DEF ReplyIsToCome
<1>7. TargetsAreServers'
  BY DEF TargetsAreServers
<1>8. QED BY <1>1, <1>2, <1>3, <1>4, <1>5, <1>6, <1>7

LEMMA InitInv == Init => Inv
<1> SUFFICES ASSUME Init PROVE Inv
  OBVIOUS
<1> USE DEF Init
<1>1. MonitorTypeOK
  BY DEF MonitorTypeOK, Status, Flags, MonitorType, ClientType, Leaves
<1>2. OnlyHandshakesAbort /\ ReplyIsToCome /\ WaitersAreRemembered
  BY DEF OnlyHandshakesAbort, ReplyIsToCome, WaitersAreRemembered, Leaves
<1>3. GoneAreRetired
  BY DEF GoneAreRetired, Present
<1>4. RestIsQuiet
  BY DEF RestIsQuiet
<1>5. TargetsAreServers
  BY DEF TargetsAreServers, Leaves
<1>6. QED BY <1>1, <1>2, <1>3, <1>4, <1>5 DEF Inv

-----------------------------------------------------------------------------
LEMMA ShutsDownKeepsInv == Inv /\ ShutsDown => Inv'
<1> SUFFICES ASSUME Inv, ShutsDown PROVE Inv'
  OBVIOUS
<1>1. monitor \in MonitorType
  BY DEF Inv, MonitorTypeOK
<1>2. QED BY <1>1, QuietSteps DEF ShutsDown, Decide, MonitorType

LEMMA SleepsKeepsInv == Inv /\ Sleeps => Inv'
<1> SUFFICES ASSUME Inv, Sleeps PROVE Inv'
  OBVIOUS
<1>1. monitor \in MonitorType
  BY DEF Inv, MonitorTypeOK
<1>2. QED BY <1>1, QuietSteps DEF Sleeps, Decide, MonitorType

LEMMA TickKeepsInv == Inv /\ Tick => Inv'
<1> SUFFICES ASSUME Inv, Tick PROVE Inv'
  OBVIOUS
<1>1. monitor \in MonitorType
  BY DEF Inv, MonitorTypeOK
<1>2. QED BY <1>1, QuietSteps DEF Tick, MonitorType

LEMMA TimesOutKeepsInv == Inv /\ TimesOut => Inv'
<1> SUFFICES ASSUME Inv, TimesOut PROVE Inv'
  OBVIOUS
<1>1. monitor \in MonitorType
  BY DEF Inv, MonitorTypeOK
<1>2. QED BY <1>1, QuietSteps DEF TimesOut, MonitorType

LEMMA BackgroundStarts == Inv /\ Start => Inv'
<1> SUFFICES ASSUME Inv, Start PROVE Inv'
  OBVIOUS
<1>1. monitor \in MonitorType
  BY DEF Inv, MonitorTypeOK
<1>2. QED BY <1>1, QuietSteps DEF Start, MonitorType

\* Only a node that a handshake left behind can abort the start of a scan.
LEMMA StartAbortsKeepsInv == Inv /\ StartAborts => Inv'
<1> SUFFICES ASSUME Inv, StartAborts PROVE Inv'
  OBVIOUS
<1> USE DEF Inv, StartAborts, Decide
<1>1. learned
  BY DEF RestIsQuiet, Offends
<1>2. MonitorTypeOK' /\ OnlyHandshakesAbort' /\ TargetsAreServers'
  BY <1>1 DEF MonitorTypeOK, OnlyHandshakesAbort, TargetsAreServers
<1>3. WaitersAreRemembered' /\ RestIsQuiet' /\ ReplyIsToCome'
  BY DEF WaitersAreRemembered, RestIsQuiet, ReplyIsToCome, Commands
<1>4. GoneAreRetired'
  BY DEF GoneAreRetired, Present
<1>5. QED BY <1>2, <1>3, <1>4

\* A scan that begins has a command for every node that could begin to connect.
LEMMA StartScanKeepsInv == Inv /\ StartScan => Inv'
<1> SUFFICES ASSUME Inv, StartScan PROVE Inv'
  OBVIOUS
<1> USE DEF Inv
<1>1. PICK refused \in SUBSET {s \in Server : node[s] # {} /\ "stream" \notin node[s]} :
        LET asked == {s \in Server : node[s] # {}} \ refused
        IN /\ node' = [s \in Server |-> IF s \in asked THEN node[s] \cup {"stream", "cmd"}
                                                       ELSE node[s]]
           /\ servers' = [s \in Server |-> IF s \in refused \cap Present(servers) THEN "unknown"
                                                                  ELSE servers[s]]
           /\ monitor' = [monitor EXCEPT !.pc = "working", !.asked = \E s \in asked : "retired" \notin node[s]]
  BY DEF StartScan
<1> DEFINE asked == {s \in Server : node[s] # {}} \ refused
<1>2. /\ node' = [s \in Server |-> IF s \in asked THEN node[s] \cup {"stream", "cmd"} ELSE node[s]]
      /\ servers' = [s \in Server |-> IF s \in refused \cap Present(servers) THEN "unknown" ELSE servers[s]]
      /\ monitor' = [monitor EXCEPT !.pc = "working", !.asked = \E s \in asked : "retired" \notin node[s]]
      /\ requested' = FALSE
      /\ UNCHANGED <<shutdown, client, cluster, learned, aborted>>
  BY <1>1 DEF StartScan
<1>3. asked \subseteq Server
  OBVIOUS
<1> HIDE DEF asked
<1>4. servers' \in [Server -> Status]
  BY <1>2 DEF MonitorTypeOK, Status
<1>5. node' \in [Server -> SUBSET Flags] /\ \A s \in Server : node'[s] # {} => "here" \in node'[s]
  BY <1>2, <1>1 DEF MonitorTypeOK, Flags, asked
<1>6. /\ monitor' \in MonitorType /\ monitor'.pc = "working"
      /\ monitor'.asked = (\E s \in asked : "retired" \notin node[s])
  BY <1>2 DEF MonitorTypeOK, MonitorType
<1>7. MonitorTypeOK'
  BY <1>2, <1>4, <1>5, <1>6 DEF MonitorTypeOK
<1>8. GoneAreRetired'
  BY <1>2 DEF GoneAreRetired, Present, MonitorTypeOK, asked
<1>9. ReplyIsToCome'
  <2>1. ASSUME NEW s \in asked, "retired" \notin node[s]
        PROVE  s \in Commands' /\ "retired" \notin node'[s]
    BY <2>1, <1>2, <1>3 DEF Commands
  <2>2. QED BY <2>1, <1>6 DEF ReplyIsToCome
<1>10. OnlyHandshakesAbort' /\ WaitersAreRemembered' /\ RestIsQuiet' /\ TargetsAreServers'
  BY <1>2, <1>6 DEF TargetsAreServers, OnlyHandshakesAbort, WaitersAreRemembered, RestIsQuiet
<1>11. QED BY <1>7, <1>8, <1>9, <1>10

\* The command of a retired node ends unseen; any other leads to a callback.
LEMMA CommandReturnsKeepsInv ==
    ASSUME Inv, NEW s \in Server, NEW ok \in BOOLEAN, CommandReturns(s, ok)
    PROVE  Inv'
<1> USE DEF Inv
<1>1. /\ node \in [Server -> SUBSET Flags]
      /\ \A o \in Server : node[o] # {} => "here" \in node[o]
      /\ monitor \in MonitorType
  BY DEF MonitorTypeOK
<1>2. \/ /\ "retired" \in node[s]
         /\ node' = [node EXCEPT ![s] = node[s] \ {"cmd"}]
         /\ UNCHANGED monitor
      \/ /\ "retired" \notin node[s]
         /\ node' = [node EXCEPT ![s] = IF ok THEN node[s] \ {"cmd"} ELSE node[s] \ {"cmd", "stream"}]
         /\ monitor' = [monitor EXCEPT !.pc = "calling back", !.server = s, !.ok = ok]
  BY DEF CommandReturns
<1>3. /\ monitor.pc = "working" /\ "cmd" \in node[s]
      /\ UNCHANGED <<servers, requested, shutdown, client, cluster, learned, aborted>>
  BY DEF CommandReturns, Commands
<1>4. node' \in [Server -> SUBSET Flags]
  BY <1>1, <1>2
<1>5. \A o \in Server : /\ node'[o] # {} => "here" \in node'[o]
                        /\ node'[o] \subseteq node[o]
                        /\ "retired" \in node[o] => "retired" \in node'[o]
                        /\ o # s => node'[o] = node[o]
  BY <1>1, <1>2
<1>6. monitor' \in MonitorType /\ monitor'.pc \in {"working", "calling back"}
  BY <1>1, <1>2, <1>3 DEF MonitorType
<1>7. MonitorTypeOK'
  BY <1>3, <1>4, <1>5, <1>6 DEF MonitorTypeOK
<1>8. GoneAreRetired'
  BY <1>3, <1>5 DEF GoneAreRetired, Present
<1>9. OnlyHandshakesAbort' /\ WaitersAreRemembered' /\ RestIsQuiet' /\ TargetsAreServers'
  BY <1>3, <1>6 DEF TargetsAreServers, OnlyHandshakesAbort, WaitersAreRemembered, RestIsQuiet
<1>10. ReplyIsToCome'
  <2>1. CASE "retired" \in node[s]
    <3>1. UNCHANGED <<monitor, requested, client>>
      BY <1>2, <1>3, <2>1
    <3>2. \A o \in Server : o \in Commands /\ "retired" \notin node[o]
                           => o \in Commands' /\ "retired" \notin node'[o]
      BY <1>5, <2>1 DEF Commands
    <3>3. SUFFICES ASSUME monitor'.pc = "working", ~requested', monitor'.asked,
                          \E t \in Thread : client'[t].pc = "waiting"
                   PROVE  \E o \in Commands' : "retired" \notin node'[o]
      BY DEF ReplyIsToCome
    <3>4. PICK o \in Commands : "retired" \notin node[o]
      BY <3>1, <3>3 DEF ReplyIsToCome
    <3>5. QED BY <3>2, <3>4 DEF Commands
  <2>2. CASE "retired" \notin node[s]
    <3>1. monitor'.pc = "calling back"
      BY <1>1, <1>2, <2>2 DEF MonitorType
    <3>2. QED BY <3>1 DEF ReplyIsToCome
  <2>3. QED BY <2>1, <2>2
<1>11. QED BY <1>7, <1>8, <1>9, <1>10

\* A callback wakes every thread.
LEMMA CallbackKeepsInv == Inv /\ Callback => Inv'
<1> SUFFICES ASSUME Inv, Callback PROVE Inv'
  OBVIOUS
<1> USE DEF Inv
<1>1. PICK sv \in Handled(monitor.server, monitor.ok) : \E refused \in SUBSET Missing(sv) :
          /\ servers' = sv
          /\ node' = Reconciled(sv, refused)
  BY DEF Callback
<1>2. /\ monitor.pc = "calling back"
      /\ client' = [t \in Thread |-> Woken(client[t])]
      /\ monitor' = [monitor EXCEPT !.pc = "working", !.server = None, !.ok = FALSE]
      /\ UNCHANGED <<requested, shutdown, cluster, learned, aborted>>
  BY DEF Callback
<1>3. /\ servers' \in [Server -> Status]
      /\ node' \in [Server -> SUBSET Flags]
      /\ \A o \in Server : node'[o] # {} => "here" \in node'[o]
      /\ GoneAreRetired'
  BY <1>1, ReplyKeepsNodes
<1>4. monitor' \in MonitorType /\ monitor'.pc = "working"
  BY <1>2 DEF MonitorTypeOK, MonitorType
<1>5. client' \in [Thread -> ClientType] /\ \A t \in Thread : client'[t].pc # "waiting"
  BY <1>2 DEF MonitorTypeOK, ClientType, Woken
<1>6. MonitorTypeOK'
  BY <1>2, <1>3, <1>4, <1>5 DEF MonitorTypeOK
<1>7. OnlyHandshakesAbort' /\ WaitersAreRemembered' /\ RestIsQuiet' /\ ReplyIsToCome'
  BY <1>2, <1>4, <1>5 DEF OnlyHandshakesAbort, WaitersAreRemembered, RestIsQuiet, ReplyIsToCome
<1>8. TargetsAreServers'
  BY <1>2 DEF TargetsAreServers, Woken, MonitorTypeOK, ClientType
<1>9. QED BY <1>3, <1>6, <1>7, <1>8

\* The loop ends when nobody waits whom its commands were to wake.
LEMMA WorkEndsKeepsInv == Inv /\ WorkEnds => Inv'
<1> SUFFICES ASSUME Inv, WorkEnds PROVE Inv'
  OBVIOUS
<1> USE DEF Inv
<1>1. /\ monitor.pc = "working" /\ Commands = {}
      /\ monitor' = [monitor EXCEPT !.pc = "finishing"]
      /\ UNCHANGED <<servers, node, requested, shutdown, client, cluster, learned, aborted>>
  BY DEF WorkEnds
<1>2. monitor' \in MonitorType /\ monitor'.pc = "finishing" /\ monitor'.asked = monitor.asked
  BY <1>1 DEF MonitorTypeOK, MonitorType
<1>3. MonitorTypeOK'
  BY <1>1, <1>2 DEF MonitorTypeOK
<1>4. WaitersAreRemembered'
  BY <1>1, <1>2 DEF WaitersAreRemembered, ReplyIsToCome
<1>5. GoneAreRetired' /\ OnlyHandshakesAbort' /\ RestIsQuiet' /\ ReplyIsToCome' /\ TargetsAreServers'
  BY <1>1, <1>2 DEF TargetsAreServers, GoneAreRetired, Present, OnlyHandshakesAbort, RestIsQuiet, ReplyIsToCome
<1>6. QED BY <1>3, <1>4, <1>5

\* After a scan the retired nodes are destroyed.
LEMMA FinishScanKeepsInv == Inv /\ FinishScan => Inv'
<1> SUFFICES ASSUME Inv, FinishScan PROVE Inv'
  OBVIOUS
<1> USE DEF Inv
<1>1. /\ Running /\ monitor.pc = "finishing"
      /\ node' = [s \in Server |-> IF "retired" \in node[s] THEN {} ELSE node[s]]
      /\ monitor' = [monitor EXCEPT !.pc = "deciding", !.since = "nothing", !.until = "none"]
      /\ learned' = (Commands # {})
      /\ UNCHANGED <<servers, requested, shutdown, client, cluster, aborted>>
  BY DEF FinishScan
<1>2. /\ node' \in [Server -> SUBSET Flags]
      /\ \A s \in Server : /\ node'[s] # {} => "here" \in node'[s]
                           /\ node'[s] # {} => node'[s] = node[s]
                           /\ "retired" \notin node'[s]
  BY <1>1 DEF MonitorTypeOK
<1>3. monitor' \in MonitorType /\ monitor'.pc = "deciding" /\ monitor'.asked = monitor.asked
  BY <1>1 DEF MonitorTypeOK, MonitorType
<1>4. MonitorTypeOK'
  BY <1>1, <1>2, <1>3 DEF MonitorTypeOK
<1>5. GoneAreRetired'
  BY <1>1, <1>2 DEF GoneAreRetired, Present
<1>6. RestIsQuiet'
  BY <1>1, <1>2 DEF RestIsQuiet, Commands
<1>7. OnlyHandshakesAbort' /\ WaitersAreRemembered' /\ ReplyIsToCome' /\ TargetsAreServers'
  BY <1>1, <1>3 DEF TargetsAreServers, OnlyHandshakesAbort, WaitersAreRemembered, ReplyIsToCome, Running
<1>8. QED BY <1>4, <1>5, <1>6, <1>7

LEMMA StopKeepsInv == Inv /\ Stop => Inv'
<1> SUFFICES ASSUME Inv, Stop PROVE Inv'
  OBVIOUS
<1> USE DEF Inv, Stop
<1>1. /\ monitor' \in MonitorType
      /\ monitor'.asked = monitor.asked
      /\ monitor'.pc \in {"working", "calling back"} <=> monitor.pc \in {"working", "calling back"}
      /\ monitor'.pc = "working" <=> monitor.pc = "working"
      /\ RestIsQuiet'
  BY SignalKeepsMonitor
<1>2. MonitorTypeOK'
  BY <1>1 DEF MonitorTypeOK
<1>3. OnlyHandshakesAbort' /\ GoneAreRetired' /\ TargetsAreServers'
  BY DEF TargetsAreServers, OnlyHandshakesAbort, GoneAreRetired, Present
<1>4. WaitersAreRemembered' /\ ReplyIsToCome'
  BY <1>1 DEF WaitersAreRemembered, ReplyIsToCome, Commands
<1>5. QED BY <1>1, <1>2, <1>3, <1>4

-----------------------------------------------------------------------------
\* A thread that goes on without waiting, or loses or makes a connection, disturbs nobody.
LEMMA MovesKeepInv ==
    ASSUME Inv, NEW t \in Thread, NEW c \in ClientType, c.pc # "waiting",
           c.pc \in {"idle", "woken"} \/ c.server \in Server,
           client' = [client EXCEPT ![t] = c],
           cluster' \in [Thread -> SUBSET Server],
           UNCHANGED <<servers, node, monitor, requested, shutdown, learned, aborted>>
    PROVE  Inv'
<1> USE DEF Inv
<1>1. client' \in [Thread -> ClientType]
  BY DEF MonitorTypeOK
<1>2. \A u \in Thread : client'[u].pc = "waiting" => client[u].pc = "waiting"
  BY DEF MonitorTypeOK
<1>3. MonitorTypeOK'
  BY <1>1 DEF MonitorTypeOK
<1>4. OnlyHandshakesAbort' /\ GoneAreRetired' /\ RestIsQuiet'
  BY DEF OnlyHandshakesAbort, GoneAreRetired, Present, RestIsQuiet
<1>5. WaitersAreRemembered' /\ ReplyIsToCome'
  BY <1>2 DEF WaitersAreRemembered, ReplyIsToCome, Commands
<1>6. TargetsAreServers'
  BY DEF TargetsAreServers, MonitorTypeOK
<1>7. QED BY <1>3, <1>4, <1>5, <1>6

LEMMA ClientTypes ==
    ASSUME MonitorTypeOK, NEW t \in Thread
    PROVE  /\ client[t] \in ClientType /\ client[t].server \in Server \cup {None}
           /\ Leaves \in ClientType /\ Leaves.pc = "idle"
           /\ \A pc \in {"waiting", "woken", "adding", "streaming", "failing", "greeting"} :
                 /\ Goes(t, pc) \in ClientType
                 /\ Goes(t, pc).pc = pc /\ Goes(t, pc).server = client[t].server
           /\ \A s \in Server : /\ Chooses(t, s) \in ClientType
                               /\ \/ Chooses(t, s).pc = "idle"
                                  \/ Chooses(t, s).pc = "fetching" /\ Chooses(t, s).server = s
BY DEF MonitorTypeOK, ClientType, Leaves, Goes, Chooses

\* A thread that begins to wait has asked for a scan.
LEMMA SelectKeepsInv ==
    ASSUME Inv, NEW t \in Thread, NEW from, Select(t, from)
    PROVE  Inv'
<1> USE DEF Inv
<1>1. CASE \E s \in Server : /\ servers[s] = "usable"
                             /\ Step(t, from, Chooses(t, s))
                             /\ UNCHANGED <<monitor, requested>>
  <2>1. PICK s \in Server : Step(t, from, Chooses(t, s)) /\ UNCHANGED <<monitor, requested>>
    BY <1>1
  <2>2. /\ Chooses(t, s) \in ClientType /\ Chooses(t, s).pc # "waiting"
        /\ Chooses(t, s).pc = "idle" \/ Chooses(t, s).server \in Server
    BY ClientTypes
  <2>3. QED BY <2>1, <2>2, MovesKeepInv DEF Select, Step, MonitorTypeOK
<1>2. CASE /\ client' = [client EXCEPT ![t] = Goes(t, "waiting")]
           /\ requested' = TRUE
           /\ monitor' = Signalled
  <2>1. UNCHANGED <<servers, node, shutdown, cluster, learned, aborted>>
    BY DEF Select
  <2>2. client' \in [Thread -> ClientType]
    BY <1>2, ClientTypes DEF MonitorTypeOK
  <2>3. monitor' \in MonitorType /\ RestIsQuiet'
    BY <1>2, <2>1, SignalKeepsMonitor
  <2>4. MonitorTypeOK'
    BY <1>2, <2>1, <2>2, <2>3 DEF MonitorTypeOK
  <2>5. OnlyHandshakesAbort' /\ GoneAreRetired' /\ WaitersAreRemembered' /\ ReplyIsToCome'
    BY <1>2, <2>1 DEF OnlyHandshakesAbort, GoneAreRetired, Present, WaitersAreRemembered, ReplyIsToCome
  <2>6. TargetsAreServers'
    BY <1>2, ClientTypes DEF TargetsAreServers, MonitorTypeOK
  <2>7. QED BY <2>3, <2>4, <2>5, <2>6
<1>3. QED BY <1>1, <1>2 DEF Select, Step

\* What a handshake adds or removes it is remembered for, and it wakes every thread.
LEMMA GreetKeepsInv ==
    ASSUME Inv, NEW t \in Thread, NEW ok \in BOOLEAN, Greet(t, ok)
    PROVE  Inv'
<1> USE DEF Inv
<1> DEFINE s == client[t].server
<1>1. PICK sv \in Handled(s, ok) : \E refused \in SUBSET Missing(sv) :
             LET new == Missing(sv) \ refused
                 kept == ok /\ sv[s] = "usable"
                 removed == Present(servers) \ Present(sv)
                 touches == new # {} \/ removed \cap Commands # {}
             IN /\ servers' = sv
                /\ node' = Reconciled(sv, refused)
                /\ client' = [u \in Thread |->
                      IF u # t THEN Woken(client[u])
                      ELSE Goes(t, IF kept THEN "streaming" ELSE "failing")]
                /\ cluster' = IF kept THEN [cluster EXCEPT ![t] = @ \cup {s}] ELSE cluster
                /\ learned' = (learned \/ new \cup removed # {})
                /\ aborted' \in {FALSE, touches /\ monitor.pc = "working"}
  BY DEF Greet
<1>2. PICK refused \in SUBSET Missing(sv) :
             /\ servers' = sv
             /\ node' = Reconciled(sv, refused)
             /\ client' = [u \in Thread |->
                   IF u # t THEN Woken(client[u])
                   ELSE Goes(t, IF ok /\ sv[s] = "usable" THEN "streaming" ELSE "failing")]
             /\ cluster' = IF ok /\ sv[s] = "usable" THEN [cluster EXCEPT ![t] = @ \cup {s}] ELSE cluster
             /\ learned' = (learned \/ (Missing(sv) \ refused) \cup (Present(servers) \ Present(sv)) # {})
             /\ aborted' \in {FALSE, (\/ Missing(sv) \ refused # {}
                                      \/ (Present(servers) \ Present(sv)) \cap Commands # {})
                                     /\ monitor.pc = "working"}
  BY <1>1
<1>3. UNCHANGED <<monitor, requested, shutdown>>
  BY DEF Greet
<1>4. /\ servers' \in [Server -> Status]
      /\ node' \in [Server -> SUBSET Flags]
      /\ \A o \in Server : node'[o] # {} => "here" \in node'[o]
      /\ GoneAreRetired'
  BY <1>2, ReplyKeepsNodes
<1>5. client' \in [Thread -> ClientType] /\ \A u \in Thread : client'[u].pc # "waiting"
  <2>1. ASSUME NEW u \in Thread
        PROVE  client'[u] \in ClientType /\ client'[u].pc # "waiting"
    <3>1. CASE u # t
      BY <1>2, <3>1 DEF MonitorTypeOK, ClientType, Woken
    <3>2. CASE u = t
      BY <1>2, <3>2, ClientTypes
    <3>3. QED BY <3>1, <3>2
  <2>2. QED BY <2>1, <1>2
<1>6. s \in Server
  BY DEF Greet, TargetsAreServers
<1>7. cluster' \in [Thread -> SUBSET Server]
  BY <1>2, <1>6 DEF MonitorTypeOK
<1>8. TargetsAreServers'
  BY <1>2, <1>6, ClientTypes DEF TargetsAreServers, MonitorTypeOK, Woken
<1>9. learned' \in BOOLEAN /\ aborted' \in BOOLEAN
  BY <1>2 DEF MonitorTypeOK
<1>10. MonitorTypeOK'
  BY <1>3, <1>4, <1>5, <1>7, <1>9 DEF MonitorTypeOK
<1>11. OnlyHandshakesAbort'
  BY <1>2 DEF OnlyHandshakesAbort
<1>12. WaitersAreRemembered' /\ ReplyIsToCome'
  BY <1>5 DEF WaitersAreRemembered, ReplyIsToCome
<1>13. RestIsQuiet'
  <2> SUFFICES ASSUME monitor.pc \in {"off", "deciding", "waiting", "done"}, ~learned', NEW o \in Server
               PROVE  "cmd" \notin node'[o] /\ "retired" \notin node'[o]
    BY <1>3 DEF RestIsQuiet
  <2>1. ~learned /\ Missing(sv) \ refused = {} /\ Present(servers) \subseteq Present(sv)
    BY <1>2
  <2>2. "cmd" \notin node[o] /\ "retired" \notin node[o]
    BY <2>1 DEF RestIsQuiet
  <2>3. node[o] # {} => o \in Present(sv)
    BY <2>1, <2>2 DEF GoneAreRetired
  <2>4. node'[o] \in {{"here"}, node[o]}
    BY <1>2, <2>1, <2>3 DEF Reconciled
  <2>5. QED BY <2>2, <2>4
<1>14. QED BY <1>4, <1>10, <1>11, <1>12, <1>13, <1>8

\* A thread that fails tells the description, which is not where the monitor looks for work.
LEMMA FailKeepsInv ==
    ASSUME Inv, NEW t \in Thread, Fail(t)
    PROVE  Inv'
<1> USE DEF Inv
<1> DEFINE s == client[t].server
<1>1. /\ client' = [client EXCEPT ![t] = Leaves]
      /\ cluster' = [cluster EXCEPT ![t] = @ \ {s}]
      /\ servers' = IF s \in Present(servers) THEN [servers EXCEPT ![s] = "unknown"] ELSE servers
      /\ UNCHANGED <<node, monitor, requested, shutdown, learned, aborted>>
  BY DEF Fail, Step, Leaves
<1>2. servers' \in [Server -> Status] /\ Present(servers') = Present(servers)
  BY <1>1 DEF MonitorTypeOK, Status, Present
<1>3. client' \in [Thread -> ClientType] /\ cluster' \in [Thread -> SUBSET Server]
  BY <1>1, ClientTypes DEF MonitorTypeOK
<1>4. \A u \in Thread : client'[u].pc = "waiting" => client[u].pc = "waiting"
  BY <1>1, ClientTypes DEF MonitorTypeOK
<1>5. MonitorTypeOK'
  BY <1>1, <1>2, <1>3 DEF MonitorTypeOK
<1>6. OnlyHandshakesAbort' /\ GoneAreRetired' /\ RestIsQuiet'
  BY <1>1, <1>2 DEF OnlyHandshakesAbort, GoneAreRetired, RestIsQuiet
<1>7. WaitersAreRemembered' /\ ReplyIsToCome'
  BY <1>1, <1>4 DEF WaitersAreRemembered, ReplyIsToCome, Commands
<1>8. TargetsAreServers'
  BY <1>1 DEF TargetsAreServers, MonitorTypeOK, Leaves
<1>9. QED BY <1>5, <1>6, <1>7, <1>8

LEMMA OperateKeepsInv ==
    ASSUME Inv, NEW t \in Thread, Operate(t)
    PROVE  Inv'
<1>1. CASE Select(t, "idle") \/ Select(t, "woken")
  BY <1>1, SelectKeepsInv
<1>2. CASE Greet(t, TRUE) \/ Greet(t, FALSE)
  BY <1>2, GreetKeepsInv
<1>3. CASE Fail(t)
  BY <1>3, FailKeepsInv
<1>4. CASE Expire(t) \/ FetchStream(t) \/ AddNode(t) \/ Stream(t)
  <2>1. /\ UNCHANGED <<servers, node, monitor, requested, shutdown, learned, aborted>>
        /\ cluster' = cluster \/ cluster' = [cluster EXCEPT ![t] = @ \ {client[t].server}]
    BY <1>4 DEF Expire, FetchStream, AddNode, Stream
  <2>2. \/ client' = [client EXCEPT ![t] = Leaves]
        \/ \E pc \in {"adding", "streaming", "failing", "greeting"} :
              client' = [client EXCEPT ![t] = Goes(t, pc)] /\ client[t].server \in Server
    BY <1>4 DEF Inv, TargetsAreServers, Expire, FetchStream, AddNode, Stream, Step
  <2>3. cluster' \in [Thread -> SUBSET Server]
    BY <2>1 DEF Inv, MonitorTypeOK
  <2>4. MonitorTypeOK
    BY DEF Inv
  <2>5. CASE client' = [client EXCEPT ![t] = Leaves]
    BY <2>1, <2>3, <2>4, <2>5, ClientTypes, MovesKeepInv
  <2>6. CASE \E pc \in {"adding", "streaming", "failing", "greeting"} :
              client' = [client EXCEPT ![t] = Goes(t, pc)] /\ client[t].server \in Server
    <3>1. PICK pc \in {"adding", "streaming", "failing", "greeting"} :
              client' = [client EXCEPT ![t] = Goes(t, pc)] /\ client[t].server \in Server
      BY <2>6
    <3>2. Goes(t, pc) \in ClientType /\ Goes(t, pc).pc # "waiting" /\ Goes(t, pc).server \in Server
      BY <2>4, <3>1, ClientTypes
    <3>3. QED BY <2>1, <2>3, <3>1, <3>2, MovesKeepInv
  <2>7. QED BY <2>2, <2>5, <2>6
<1>5. QED BY <1>1, <1>2, <1>3, <1>4 DEF Operate

-----------------------------------------------------------------------------
LEMMA NextKeepsInv == Inv /\ [Next]_vars => Inv'
<1> SUFFICES ASSUME Inv, [Next]_vars PROVE Inv'
  OBVIOUS
<1>1. CASE RunBackground
  BY <1>1, ShutsDownKeepsInv, SleepsKeepsInv, StartScanKeepsInv, StartAbortsKeepsInv,
     CommandReturnsKeepsInv, CallbackKeepsInv, WorkEndsKeepsInv, FinishScanKeepsInv,
     TimesOutKeepsInv DEF RunBackground
<1>2. CASE Tick \/ Start \/ Stop
  BY <1>2, TickKeepsInv, BackgroundStarts, StopKeepsInv
<1>3. CASE \E t \in Thread : Operate(t)
  BY <1>3, OperateKeepsInv
<1>4. CASE UNCHANGED vars
  BY <1>4 DEF vars, Inv, MonitorTypeOK, TargetsAreServers, OnlyHandshakesAbort, WaitersAreRemembered, GoneAreRetired,
     Present, RestIsQuiet, ReplyIsToCome, Commands
<1>5. QED BY <1>1, <1>2, <1>3, <1>4 DEF Next

\* In every reachable state the invariant holds.
THEOREM InvIsInvariant == Spec => []Inv
<1>1. QED BY InitInv, NextKeepsInv, PTL DEF Spec

\* The monitor's nodes and commands are what it expects, and none of its assertions ends the
\* process unless a handshake changed its list, for any servers and threads.
THEOREM MonitorStaysSound == Spec => []MonitorIsSound
<1>1. Inv => MonitorIsSound
  BY DEF Inv, MonitorIsSound
<1>2. QED BY <1>1, InvIsInvariant, PTL

\* No wakeup is lost between the threads that wait for a server and the monitor.
THEOREM NoWaiterIsForgotten == Spec => []WaitersAreRemembered
<1>1. Inv => WaitersAreRemembered
  BY DEF Inv
<1>2. QED BY <1>1, InvIsInvariant, PTL
=============================================================================
