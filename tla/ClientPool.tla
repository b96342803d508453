------------------------------ MODULE ClientPool ------------------------------
(***************************************************************************)
(* mongoc_client_pool_t: the clients that the threads of a program share.  *)
(* Every operation holds the pool's mutex from its first line to its last, *)
(* except where pop sleeps on the condition variable, so an operation is   *)
(* one action and a pop that slept is retried in another.                  *)
(***************************************************************************)
EXTENDS Integers, Sequences, FiniteSets

CONSTANTS
    Borrower,   \* the threads of the application
    Client,     \* the addresses a mongoc_client_t may have
    MinSizes,   \* the values minpoolsize and mongoc_client_pool_min_size take
    MaxSizes,   \* those of maxpoolsize and mongoc_client_pool_max_size
    MaxHeld     \* bound on the clients one thread holds at a time

ASSUME BorrowerAssumption == IsFiniteSet(Borrower)
ASSUME ClientAssumption == IsFiniteSet(Client)
ASSUME SizeAssumption == MinSizes \subseteq Nat /\ MaxSizes \subseteq Nat
ASSUME MaxHeldAssumption == MaxHeld \in Nat

VARIABLES
    queue,      \* the idle clients, head first
    size,       \* pool->size
    minSize,    \* pool->min_pool_size
    maxSize,    \* pool->max_pool_size
    held,       \* held[t]: the clients thread t popped and did not push
    waiting,    \* the threads asleep in mongoc_cond_wait
    woken       \* those it let go, which want the mutex to try again

poolVars == <<queue, size, minSize, maxSize, held, waiting, woken>>

Idle == {queue[i] : i \in DOMAIN queue}

Held == UNION {held[t] : t \in Borrower}

Live == Idle \cup Held

-----------------------------------------------------------------------------
\* _mongoc_queue_pop_head
Take(t) ==
    /\ queue # <<>>
    /\ queue' = Tail(queue)
    /\ held' = [held EXCEPT ![t] = held[t] \cup {Head(queue)}]
    /\ UNCHANGED size

\* _mongoc_client_new_from_uri: malloc may return an address used before.
Create(t) ==
    /\ queue = <<>>
    /\ size < maxSize
    /\ \E c \in Client \ Live : held' = [held EXCEPT ![t] = held[t] \cup {c}]
    /\ size' = size + 1
    /\ UNCHANGED queue

Awake(t) == t \notin waiting \cup woken

CanHoldMore(t) == Cardinality(held[t]) < MaxHeld

\* mongoc_client_pool_pop finds a client or makes one, at its first attempt or
\* when it wakes.
PopClient(t) ==
    /\ t \notin waiting
    /\ CanHoldMore(t)
    /\ Take(t) \/ Create(t)
    /\ woken' = woken \ {t}
    /\ UNCHANGED <<minSize, maxSize, waiting>>

\* It sleeps, whether it has just come or woke to find nothing.
PopSleep(t) ==
    /\ t \notin waiting
    /\ CanHoldMore(t)
    /\ queue = <<>>
    /\ size >= maxSize
    /\ waiting' = waiting \cup {t}
    /\ woken' = woken \ {t}
    /\ UNCHANGED <<queue, size, minSize, maxSize, held>>

\* mongoc_client_pool_try_pop, when it does not return NULL.
TryPop(t) ==
    /\ Awake(t)
    /\ CanHoldMore(t)
    /\ Take(t) \/ Create(t)
    /\ UNCHANGED <<minSize, maxSize, waiting, woken>>

\* mongoc_cond_signal lets some sleeper go, if there is one.
Signal ==
    IF waiting = {} THEN UNCHANGED <<waiting, woken>>
    ELSE \E t \in waiting : /\ waiting' = waiting \ {t}
                            /\ woken' = woken \cup {t}

\* Mutated: the client pushed back is handed out without telling a sleeper.
PushSilently(t) ==
    /\ Awake(t)
    /\ \E c \in held[t] :
          /\ held' = [held EXCEPT ![t] = held[t] \ {c}]
          /\ queue' = <<c>> \o queue
    /\ UNCHANGED <<size, minSize, maxSize, waiting, woken>>

\* Mutated: a destroyed client still counts.
PushUncounted(t) ==
    /\ Awake(t)
    /\ \E c \in held[t] :
          LET pushed == <<c>> \o queue
              trim == minSize > 0 /\ Len(pushed) > minSize
          IN /\ held' = [held EXCEPT ![t] = held[t] \ {c}]
             /\ queue' = IF trim THEN SubSeq(pushed, 1, Len(pushed) - 1) ELSE pushed
             /\ UNCHANGED size
    /\ Signal
    /\ UNCHANGED <<minSize, maxSize>>

\* Mutated: no sleeper is told of a push that destroyed a client.
PushSignalsIfKept(t) ==
    /\ Awake(t)
    /\ \E c \in held[t] :
          LET pushed == <<c>> \o queue
              trim == minSize > 0 /\ Len(pushed) > minSize
          IN /\ held' = [held EXCEPT ![t] = held[t] \ {c}]
             /\ queue' = IF trim THEN SubSeq(pushed, 1, Len(pushed) - 1) ELSE pushed
             /\ size' = IF trim THEN size - 1 ELSE size
             /\ IF trim THEN UNCHANGED <<waiting, woken>> ELSE Signal
    /\ UNCHANGED <<minSize, maxSize>>

\* mongoc_client_pool_push: with a minimum set, one client at the tail is
\* destroyed when more than that many are idle.
Push(t) ==
    /\ Awake(t)
    /\ \E c \in held[t] :
          LET pushed == <<c>> \o queue
              trim == minSize > 0 /\ Len(pushed) > minSize
          IN /\ held' = [held EXCEPT ![t] = held[t] \ {c}]
             /\ queue' = IF trim THEN SubSeq(pushed, 1, Len(pushed) - 1) ELSE pushed
             /\ size' = IF trim THEN size - 1 ELSE size
    /\ Signal
    /\ UNCHANGED <<minSize, maxSize>>

\* POSIX lets mongoc_cond_wait return although nobody signalled.
SpuriousWakeup(t) ==
    /\ t \in waiting
    /\ waiting' = waiting \ {t}
    /\ woken' = woken \cup {t}
    /\ UNCHANGED <<queue, size, minSize, maxSize, held>>

\* mongoc_client_pool_max_size: no sleeper is told.
SetMaxSize(n) ==
    /\ maxSize' = n
    /\ UNCHANGED <<queue, size, minSize, held, waiting, woken>>

\* mongoc_client_pool_min_size
SetMinSize(n) ==
    /\ minSize' = n
    /\ UNCHANGED <<queue, size, maxSize, held, waiting, woken>>

-----------------------------------------------------------------------------
\* mongoc_client_pool_new
PoolInit ==
    /\ queue = <<>>
    /\ size = 0
    /\ minSize \in MinSizes
    /\ maxSize \in MaxSizes
    /\ held = [t \in Borrower |-> {}]
    /\ waiting = {}
    /\ woken = {}

PoolNext ==
    \/ \E t \in Borrower : \/ PopClient(t)
                           \/ PopSleep(t)
                           \/ TryPop(t)
                           \/ Push(t)
                           \/ SpuriousWakeup(t)
    \/ \E n \in MaxSizes : SetMaxSize(n)
    \/ \E n \in MinSizes : SetMinSize(n)

PoolSpec == PoolInit /\ [][PoolNext]_poolVars

\* A thread that was let go gets the mutex in the end, and one that has a client
\* gives it back when its work is done.
Fairness == \A t \in Borrower : /\ WF_poolVars(t \in woken /\ (PopClient(t) \/ PopSleep(t)))
                                /\ WF_poolVars(Push(t))

PoolFairSpec == PoolSpec /\ Fairness

-----------------------------------------------------------------------------
\* Type correctness.
PoolTypeOK ==
    /\ queue \in Seq(Client)
    /\ size \in Nat
    /\ minSize \in MinSizes
    /\ maxSize \in MaxSizes
    /\ held \in [Borrower -> SUBSET Client]
    /\ waiting \subseteq Borrower
    /\ woken \subseteq Borrower \ waiting

\* A client has one owner: one place in the queue or one thread, so that its
\* sockets are never used by two threads at once.
OneOwner ==
    /\ \A i, j \in DOMAIN queue : queue[i] = queue[j] => i = j
    /\ Idle \cap Held = {}
    /\ \A t, u \in Borrower : t # u => held[t] \cap held[u] = {}

\* pool->size is the number of clients alive: no client is lost and none that
\* was destroyed still counts against the maximum.
SizeCountsLiveClients == size = Cardinality(Live)

\* What the pool promises at any time: an exact size and clients with one owner.
PoolIsSound == PoolTypeOK /\ OneOwner /\ SizeCountsLiveClients

\* More clients could be had, by popping or creating them, than there are
\* threads on their way to fetch one, while others sleep.
Stranded ==
    /\ waiting # {}
    /\ Len(queue) + (maxSize - size) > Cardinality(woken)

StrandingStep == ~Stranded /\ Stranded' => maxSize' > maxSize

\* Whatever the order of pops, pushes, destroyed clients and spurious wakeups,
\* no sleeper is left behind while a client could be had.  The one exception is
\* mongoc_client_pool_max_size, which raises the maximum and signals nobody.
OnlyRaisingMaxStrands == [][StrandingStep]_poolVars

\* While threads sleep, the clients pushed back do not stay in the queue.
WaitersGetClients ==
    (waiting # {} /\ queue # <<>>) ~> (waiting = {} \/ queue = <<>>)
=============================================================================
