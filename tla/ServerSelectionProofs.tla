------------------------ MODULE ServerSelectionProofs ------------------------
(***************************************************************************)
(* What is selected suits, for any descriptions and preferences, and is    *)
(* selected in time.                                                       *)
(***************************************************************************)
EXTENDS ServerSelection, FiniteSetTheorems, WellFoundedInduction, TLAPS

-----------------------------------------------------------------------------
(* The greatest and the least of finitely many numbers.                    *)

\* Of the sets without a greatest value one would have the fewest elements, but then none
\* are left without one of them.
LEMMA Highest ==
    ASSUME NEW S, IsFiniteSet(S), S # {}, NEW f \in [S -> Int]
    PROVE  \E m \in S : \A x \in S : f[x] <= f[m]
<1> DEFINE B == {U \in SUBSET S : U # {} /\ \A m \in U : \E x \in U : ~(f[x] <= f[m])}
           N == {Cardinality(U) : U \in B}
<1>1. SUFFICES ASSUME S \in B PROVE FALSE
  OBVIOUS
<1>2. \A U \in B : IsFiniteSet(U) /\ Cardinality(U) \in Nat
  BY FS_Subset, FS_CardinalityType
<1>3. PICK c \in N : \A b \in N : ~(<<b, c>> \in OpToRel(<, Nat))
  <2>1. N \subseteq Nat /\ N # {}
    BY <1>1, <1>2
  <2> HIDE DEF N
  <2>2. QED BY <2>1, NatLessThanWellFounded, WFMin, Zenon
<1>4. \A b \in N : ~(b < c)
  BY <1>2, <1>3 DEF OpToRel
<1>5. PICK U \in B : c = Cardinality(U)
  BY <1>3
<1>6. PICK u \in U : TRUE
  BY <1>5
<1>7. IsFiniteSet(U) /\ Cardinality(U \ {u}) = Cardinality(U) - 1 /\ Cardinality(U) \in Nat
  BY <1>2, <1>5, <1>6, FS_RemoveElement
<1>8. U \ {u} \notin B
  <2> SUFFICES ASSUME U \ {u} \in B PROVE FALSE
    OBVIOUS
  <2>1. Cardinality(U \ {u}) \in N
    OBVIOUS
  <2>2. ~(Cardinality(U \ {u}) < Cardinality(U))
    BY <1>4, <1>5, <2>1, Zenon
  <2>3. QED BY <1>7, <2>2
<1>9. U \subseteq S /\ \A m \in U : \E x \in U : ~(f[x] <= f[m])
  BY <1>5
<1>10. CASE U \ {u} = {}
  <2>1. PICK x \in U : ~(f[x] <= f[u])
    BY <1>6, <1>9
  <2>2. x = u /\ f[u] \in Int
    BY <1>6, <1>9, <1>10, <2>1
  <2>3. QED BY <2>1, <2>2
<1>11. CASE U \ {u} # {}
  <2>1. PICK m \in U \ {u} : \A x \in U \ {u} : f[x] <= f[m]
    BY <1>8, <1>9, <1>11
  <2>2. \A x \in U : f[x] \in Int
    BY <1>9
  <2>3. CASE f[u] <= f[m]
    BY <1>9, <2>1, <2>3
  <2>4. CASE ~(f[u] <= f[m])
    <3>1. \A x \in U : f[x] <= f[u]
      BY <1>6, <2>1, <2>2, <2>4
    <3>2. QED BY <1>6, <1>9, <3>1
  <2>5. QED BY <2>3, <2>4
<1>12. QED BY <1>10, <1>11

LEMMA Lowest ==
    ASSUME NEW S, IsFiniteSet(S), S # {}, NEW f \in [S -> Int]
    PROVE  \E m \in S : \A x \in S : f[m] <= f[x]
<1> DEFINE g == [x \in S |-> -f[x]]
<1>1. g \in [S -> Int] /\ \A x \in S : g[x] = -f[x] /\ f[x] \in Int
  OBVIOUS
<1> HIDE DEF g
<1>2. PICK m \in S : \A x \in S : g[x] <= g[m]
  BY <1>1, Highest
<1>3. QED BY <1>1, <1>2

LEMMA MaxIs ==
    ASSUME NEW T \in SUBSET Int, NEW m \in T, \A x \in T : x <= m
    PROVE  Max(T) = m
<1>1. \E y \in T : \A x \in T : y >= x
  OBVIOUS
<1>2. Max(T) \in T /\ \A y \in T : Max(T) >= y
  BY <1>1, Zenon DEF Max
<1>3. Max(T) >= m /\ Max(T) <= m /\ Max(T) \in Int /\ m \in Int
  BY <1>2
<1>4. QED BY <1>3

LEMMA MinIs ==
    ASSUME NEW T \in SUBSET Int, NEW m \in T, \A x \in T : m <= x
    PROVE  Min(T) = m
<1>1. \E y \in T : \A x \in T : y <= x
  OBVIOUS
<1>2. Min(T) \in T /\ \A y \in T : Min(T) <= y
  BY <1>1, Zenon DEF Min
<1>3. Min(T) <= m /\ Min(T) >= m /\ Min(T) \in Int /\ m \in Int
  BY <1>2
<1>4. QED BY <1>3

-----------------------------------------------------------------------------
(* The filters do what the reference says.                                 *)

Secondaries(d) == OfType(d, {"RSSecondary"})

Lag(d, s) ==
    LET P == OfType(d, {"RSPrimary"})
        sd == d.servers
    IN IF P # {} THEN LET m == CHOOSE m \in P : TRUE
                      IN (sd[s].updated - sd[s].written) - (sd[m].updated - sd[m].written)
       ELSE Max({sd[t].written : t \in Secondaries(d)}) - sd[s].written

Fresh(d, p) == {s \in Secondaries(d) : p.staleness # None => Lag(d, s) + Heartbeat <= p.staleness}

Tagged(d, p, C) ==
    {s \in C : p.tags = <<>>
                 \/ \E k \in DOMAIN p.tags :
                       /\ p.tags[k] \subseteq d.servers[s].tags
                       /\ \A j \in 1 .. k - 1, t \in C : ~(p.tags[j] \subseteq d.servers[t].tags)}

Near(d, C) == {s \in C : \A t \in C : d.servers[s].rtt <= d.servers[t].rtt + LocalThreshold}

\* A server that is not among the finitely many of a description has no numbers.
LEMMA ServersAreNumbered ==
    ASSUME NEW d, IsDescription(d), NEW C \in SUBSET DOMAIN d.servers
    PROVE  /\ IsFiniteSet(C)
           /\ \A s \in C : /\ d.servers[s] \in ServerType /\ d.servers[s].rtt \in Int
                           /\ d.servers[s].written \in Int /\ d.servers[s].updated \in Int
<1>1. IsFiniteSet(C)
  BY FS_Subset DEF IsDescription
<1>2. \A s \in C : d.servers[s] \in ServerType
  BY DEF IsDescription
<1>3. QED BY <1>1, <1>2 DEF ServerType

LEMMA WindowIsNear ==
    ASSUME NEW d, IsDescription(d), NEW C \in SUBSET DOMAIN d.servers
    PROVE  InWindow(d, C) = Near(d, C)
<1>1. CASE C = {}
  BY <1>1 DEF InWindow, Near
<1>2. CASE C # {}
  <2> DEFINE f == [s \in C |-> d.servers[s].rtt]
             R == {d.servers[s].rtt : s \in C}
  <2>1. IsFiniteSet(C) /\ f \in [C -> Int] /\ \A s \in C : d.servers[s].rtt \in Int
    BY ServersAreNumbered
  <2>2. PICK m \in C : \A s \in C : f[m] <= f[s]
    <3> HIDE DEF f
    <3>1. QED BY <1>2, <2>1, Lowest
  <2>3. \A s \in C : d.servers[m].rtt <= d.servers[s].rtt
    BY <2>2
  <2>4. Min(R) = d.servers[m].rtt
    <3>1. R \in SUBSET Int /\ d.servers[m].rtt \in R /\ \A x \in R : d.servers[m].rtt <= x
      BY <2>1, <2>3
    <3> HIDE DEF R
    <3>2. QED BY <3>1, MinIs
  <2>5. InWindow(d, C) = {s \in C : d.servers[s].rtt <= d.servers[m].rtt + LocalThreshold}
    BY <1>2, <2>4 DEF InWindow
  <2>6. LocalThreshold \in Int
    BY SelectionAssumption
  <2>7. ASSUME NEW s \in C
        PROVE  d.servers[s].rtt <= d.servers[m].rtt + LocalThreshold
               <=> \A t \in C : d.servers[s].rtt <= d.servers[t].rtt + LocalThreshold
    BY <2>1, <2>3, <2>6
  <2>8. QED BY <2>5, <2>7 DEF Near
<1>3. QED BY <1>1, <1>2

LEMMA TagsAreTried ==
    ASSUME NEW d, NEW p \in PrefType, p # None, NEW C
    PROVE  FilterTags(d, C, p) = Tagged(d, p, C)
<1> DEFINE Matching(k) == {s \in C : p.tags[k] \subseteq d.servers[s].tags}
           K == {k \in DOMAIN p.tags : Matching(k) # {}}
<1>1. CASE p.tags = <<>>
  BY <1>1 DEF FilterTags, Tagged
<1>2. CASE p.tags # <<>> /\ K = {}
  <2>1. FilterTags(d, C, p) = {}
    BY <1>2 DEF FilterTags, MatchTagSet
  <2>2. Tagged(d, p, C) = {}
    BY <1>2 DEF Tagged
  <2>3. QED BY <2>1, <2>2
<1>3. CASE p.tags # <<>> /\ K # {}
  <2>1. DOMAIN p.tags = 1 .. Len(p.tags) /\ Len(p.tags) \in Nat
    BY DEF PrefType
  <2>2. K \in SUBSET Int /\ IsFiniteSet(K)
    <3>1. K \subseteq 1 .. Len(p.tags)
      BY <2>1
    <3> HIDE DEF K
    <3>2. IsFiniteSet(1 .. Len(p.tags))
      BY <2>1, FS_Interval
    <3>3. IsFiniteSet(K)
      BY <3>1, <3>2, FS_Subset
    <3>4. K \subseteq Int
      BY <3>1
    <3>5. QED BY <3>3, <3>4
  <2>3. PICK m \in K : \A k \in K : m <= k
    <3> DEFINE f == [k \in K |-> k]
    <3>1. f \in [K -> Int]
      BY <2>2
    <3> HIDE DEF K
    <3>2. PICK m \in K : \A k \in K : f[m] <= f[k]
      <4> HIDE DEF f
      <4>1. QED BY <1>3, <2>2, <3>1, Lowest
    <3>3. QED BY <3>2
  <2>4. Min(K) = m
    <3> HIDE DEF K
    <3>1. QED BY <2>2, <2>3, MinIs
  <2>5. FilterTags(d, C, p) = Matching(m)
    BY <1>3, <2>4 DEF FilterTags, MatchTagSet
  <2>6. m \in 1 .. Len(p.tags) /\ \A j \in 1 .. m - 1 : Matching(j) = {}
    BY <2>1, <2>3
  <2>7. ASSUME NEW s \in C
        PROVE  p.tags[m] \subseteq d.servers[s].tags
               <=> \E k \in DOMAIN p.tags :
                       /\ p.tags[k] \subseteq d.servers[s].tags
                       /\ \A j \in 1 .. k - 1, t \in C : ~(p.tags[j] \subseteq d.servers[t].tags)
    <3>1. ASSUME p.tags[m] \subseteq d.servers[s].tags
          PROVE  \E k \in DOMAIN p.tags :
                       /\ p.tags[k] \subseteq d.servers[s].tags
                       /\ \A j \in 1 .. k - 1, t \in C : ~(p.tags[j] \subseteq d.servers[t].tags)
      <4>1. \A j \in 1 .. m - 1, t \in C : ~(p.tags[j] \subseteq d.servers[t].tags)
        BY <2>6
      <4>2. QED BY <2>1, <2>6, <3>1, <4>1
    <3>2. ASSUME NEW k \in DOMAIN p.tags, p.tags[k] \subseteq d.servers[s].tags,
                 \A j \in 1 .. k - 1, t \in C : ~(p.tags[j] \subseteq d.servers[t].tags)
          PROVE  p.tags[m] \subseteq d.servers[s].tags
      <4>1. k \in K
        BY <3>2
      <4>2. PICK t \in C : p.tags[m] \subseteq d.servers[t].tags
        BY <2>3
      <4>3. m \notin 1 .. k - 1
        BY <3>2, <4>2
      <4>4. m = k
        BY <2>1, <2>3, <2>6, <4>1, <4>3
      <4>5. QED BY <3>2, <4>4
    <3>3. QED BY <3>1, <3>2
  <2>8. QED BY <1>3, <2>5, <2>7 DEF Tagged
<1>4. QED BY <1>1, <1>2, <1>3

\* The staleness that is estimated is the lag and a heartbeat, if the dates are real.
LEMMA StaleAreLeftOut ==
    ASSUME NEW d, IsDescription(d), NEW p \in PrefType, p # None, Compatible(d, p),
           NEW C, Secondaries(d) \subseteq C
    PROVE  FilterStale(d, C, p) = {s \in C : s \in Secondaries(d) => s \in Fresh(d, p)}
<1>1. CASE p.staleness = None
  <2>1. FilterStale(d, C, p) = C
    BY <1>1 DEF FilterStale
  <2>2. Fresh(d, p) = Secondaries(d)
    BY <1>1 DEF Fresh
  <2>3. QED BY <2>1, <2>2
<1>2. CASE p.staleness # None
  <2> DEFINE P == OfType(d, {"RSPrimary"})
             S == Secondaries(d)
             W == {d.servers[s].written : s \in S}
             newest == Max({0} \cup W)
             Staleness(s) == IF P # {}
                             THEN StalenessByPrimary(d.servers[s],
                                                     d.servers[CHOOSE m \in P : TRUE], Heartbeat)
                             ELSE StalenessByNewest(d.servers[s], newest, Heartbeat)
  <2>1. FilterStale(d, C, p) = C \ {s \in S : Staleness(s) > p.staleness}
    <3>1. C \cap OfType(d, {"RSSecondary"}) = OfType(d, {"RSSecondary"})
      BY DEF Secondaries
    <3>2. QED BY <1>2, <3>1 DEF FilterStale, Secondaries
  <2>2. p.staleness \in Int /\ Heartbeat \in Int
    BY <1>2, StalenessAssumption DEF PrefType
  <2>3. /\ S \subseteq DOMAIN d.servers /\ P \subseteq DOMAIN d.servers
        /\ \A s \in S : d.servers[s].written > 0
    BY <1>2 DEF Secondaries, OfType, Compatible
  <2>4. \A s \in S \cup P : /\ d.servers[s].written \in Int /\ d.servers[s].updated \in Int
    BY <2>3, ServersAreNumbered
  <2>5. IsFiniteSet(S)
    BY <2>3, ServersAreNumbered
  <2>6. ASSUME NEW s \in S
        PROVE  Staleness(s) = Lag(d, s) + Heartbeat /\ Lag(d, s) \in Int
    <3>1. CASE P # {}
      <4>1. PICK m \in P : m = CHOOSE x \in P : TRUE
        BY <3>1
      <4>2. Staleness(s) = d.servers[m].written + (d.servers[s].updated - d.servers[m].updated)
                              - d.servers[s].written + Heartbeat
        BY <3>1, <4>1 DEF StalenessByPrimary
      <4>3. Lag(d, s) = (d.servers[s].updated - d.servers[s].written)
                           - (d.servers[m].updated - d.servers[m].written)
        BY <3>1, <4>1 DEF Lag
      <4>4. QED BY <2>2, <2>4, <4>2, <4>3
    <3>2. CASE P = {}
      <4> DEFINE f == [t \in S |-> d.servers[t].written]
      <4>1. f \in [S -> Int] /\ S # {}
        BY <2>4
      <4>2. PICK m \in S : \A t \in S : f[t] <= f[m]
        <5> HIDE DEF f, S
        <5>1. QED BY <2>5, <4>1, Highest
      <4>3. \A t \in S : d.servers[t].written <= d.servers[m].written
        BY <4>2
      <4>4. /\ W \in SUBSET Int /\ d.servers[m].written \in W
            /\ \A x \in W : x <= d.servers[m].written
            /\ d.servers[m].written \in Int /\ 0 <= d.servers[m].written
        BY <2>3, <2>4, <4>3
      <4>5. Max(W) = d.servers[m].written /\ Max({0} \cup W) = d.servers[m].written
        <5> HIDE DEF W
        <5>1. Max(W) = d.servers[m].written
          BY <4>4, MaxIs
        <5>2. /\ {0} \cup W \in SUBSET Int /\ d.servers[m].written \in {0} \cup W
              /\ \A x \in {0} \cup W : x <= d.servers[m].written
          BY <4>4
        <5>3. QED BY <5>1, <5>2, MaxIs
      <4>6. Staleness(s) = d.servers[m].written - d.servers[s].written + Heartbeat
        BY <3>2, <4>5 DEF StalenessByNewest
      <4>7. Lag(d, s) = d.servers[m].written - d.servers[s].written
        BY <3>2, <4>5 DEF Lag
      <4>8. QED BY <2>4, <4>4, <4>6, <4>7
    <3>3. QED BY <3>1, <3>2
  <2>7. \A s \in S : Staleness(s) > p.staleness <=> s \notin Fresh(d, p)
    <3> HIDE DEF Staleness, S
    <3>1. ASSUME NEW s \in S
          PROVE  Staleness(s) > p.staleness <=> ~(Lag(d, s) + Heartbeat <= p.staleness)
      BY <2>2, <2>6
    <3>2. \A s \in S : s \in Fresh(d, p) <=> Lag(d, s) + Heartbeat <= p.staleness
      BY <1>2 DEF Fresh, S
    <3>3. QED BY <3>1, <3>2
  <2> HIDE DEF Staleness
  <2>8. QED BY <2>1, <2>7 DEF Fresh
<1>3. QED BY <1>1, <1>2

\* Candidates that are filtered by staleness, tags and distance, as the reference has them.
LEMMA FilteredAreRight ==
    ASSUME NEW d, IsDescription(d), NEW p \in PrefType, p # None, Compatible(d, p),
           NEW C \in SUBSET DOMAIN d.servers, Secondaries(d) \subseteq C
    PROVE  Filtered(d, C, p)
             = Near(d, Tagged(d, p, {s \in C : s \in Secondaries(d) => s \in Fresh(d, p)}))
<1>1. FilterStale(d, C, p) = {s \in C : s \in Secondaries(d) => s \in Fresh(d, p)}
  BY StaleAreLeftOut
<1>2. FilterTags(d, FilterStale(d, C, p), p) = Tagged(d, p, FilterStale(d, C, p))
  BY TagsAreTried
<1>3. Tagged(d, p, FilterStale(d, C, p)) \in SUBSET DOMAIN d.servers
  BY <1>1 DEF Tagged
<1>4. InWindow(d, Tagged(d, p, FilterStale(d, C, p))) = Near(d, Tagged(d, p, FilterStale(d, C, p)))
  BY <1>3, WindowIsNear
<1>5. QED BY <1>1, <1>2, <1>4 DEF Filtered

\* Whatever the operation and the preference, the servers that suit are those of the reference.
LEMMA SuitableAreRight ==
    ASSUME NEW d, IsDescription(d), NEW p \in Prefs, NEW op \in {"read", "write"}, Compatible(d, p)
    PROVE  Selectable(op, d, p) = Reference(op, d, p)
<1> DEFINE P == OfType(d, {"RSPrimary"})
           S == Secondaries(d)
           C == Near(d, Tagged(d, p, Fresh(d, p)))
           A == Near(d, Tagged(d, p, P \cup Fresh(d, p)))
<1>1. d.type \in SetTypes \cup {"Unknown", "Single", "Sharded"} /\ Mode(p) \in Modes
  <2>1. CASE p = None
    BY <2>1 DEF IsDescription, Mode, Modes
  <2>2. CASE p # None
    <3>1. p \in PrefType
      BY <2>2, SelectionAssumption
    <3>2. p.mode \in Modes
      BY <3>1 DEF PrefType
    <3>3. Mode(p) \in Modes
      BY <2>2, <3>2 DEF Mode
    <3>4. QED BY <3>3 DEF IsDescription
  <2>3. QED BY <2>1, <2>2
<1>2. CASE d.type = "Single"
  <2>1. Selectable(op, d, p) = {s \in DOMAIN d.servers : d.servers[s].hasIsMaster}
    BY <1>2 DEF Selectable
  <2>2. Reference(op, d, p) = {s \in DOMAIN d.servers : d.servers[s].hasIsMaster}
    BY <1>2 DEF Reference, SetTypes
  <2>3. QED BY <2>1, <2>2
<1>3. CASE d.type = "Unknown"
  BY <1>3 DEF Selectable, Suitable, Reference, SetTypes
<1>4. CASE d.type = "Sharded"
  <2>1. OfType(d, {"Mongos"}) \in SUBSET DOMAIN d.servers
    BY DEF OfType
  <2>2. InWindow(d, OfType(d, {"Mongos"})) = Near(d, OfType(d, {"Mongos"}))
    BY <2>1, WindowIsNear
  <2>3. Selectable(op, d, p) = InWindow(d, OfType(d, {"Mongos"}))
    BY <1>4 DEF Selectable, Suitable, SetTypes, CandidateTypes
  <2>4. Reference(op, d, p) = Near(d, OfType(d, {"Mongos"}))
    BY <1>4 DEF Reference, Near, SetTypes
  <2>5. QED BY <2>2, <2>3, <2>4
<1>5. CASE d.type \in SetTypes
  <2>1. d.type # "Single" /\ d.type # "Sharded" /\ d.type # "Unknown"
    BY <1>5 DEF SetTypes
  <2>2. d.type = "RSNoPrimary" => P = {}
    BY DEF IsDescription, OfType
  <2>3. CASE op = "write"
    <3>1. OfType(d, {"RSPrimary", "Standalone"}) = P
      BY <1>5, <2>1 DEF IsDescription, Misfits, OfType
    <3>2. Selectable(op, d, p) = P
      BY <1>5, <2>1, <2>2, <2>3, <3>1 DEF Selectable, Suitable, SetTypes
    <3>3. Reference(op, d, p) = P
      BY <1>5, <2>1, <2>3 DEF Reference
    <3>4. QED BY <3>2, <3>3
  <2>4. CASE op = "read" /\ Mode(p) = "primary"
    <3>1. Selectable(op, d, p) = P
      BY <1>5, <2>1, <2>4 DEF Selectable, Suitable
    <3>2. Reference(op, d, p) = P
      BY <1>5, <2>1, <2>4 DEF Reference
    <3>3. QED BY <3>1, <3>2
  <2>5. CASE op = "read" /\ Mode(p) # "primary"
    <3>1. p # None /\ p \in PrefType
      BY <2>5, SelectionAssumption DEF Mode
    <3>2. /\ S \in SUBSET DOMAIN d.servers /\ P \in SUBSET DOMAIN d.servers
          /\ OfType(d, {"RSPrimary", "RSSecondary"}) = P \cup S
          /\ P \cap S = {} /\ Fresh(d, p) \subseteq S
      BY DEF Secondaries, OfType, Fresh
    <3>3. Filtered(d, S, p) = C
      <4>1. Filtered(d, S, p)
              = Near(d, Tagged(d, p, {s \in S : s \in Secondaries(d) => s \in Fresh(d, p)}))
        BY <3>1, <3>2, FilteredAreRight
      <4>2. {s \in S : s \in Secondaries(d) => s \in Fresh(d, p)} = Fresh(d, p)
        BY <3>2
      <4>3. QED BY <4>1, <4>2
    <3>4. Filtered(d, P \cup S, p) = A
      <4>1. Filtered(d, P \cup S, p)
              = Near(d, Tagged(d, p, {s \in P \cup S : s \in Secondaries(d) => s \in Fresh(d, p)}))
        BY <3>1, <3>2, FilteredAreRight
      <4>2. {s \in P \cup S : s \in Secondaries(d) => s \in Fresh(d, p)} = P \cup Fresh(d, p)
        BY <3>2
      <4>3. QED BY <4>1, <4>2
    <3>5. TrySecondary(d, p) = C
      BY <1>5, <2>1, <3>3 DEF TrySecondary, CandidateTypes, Secondaries
    <3> HIDE DEF C, A
    <3>6. CASE Mode(p) = "primaryPreferred"
      <4>1. P = {} => A = C
        BY DEF A, C
      <4>2. Selectable(op, d, p) = IF P # {} THEN P ELSE A
        BY <1>5, <2>1, <2>5, <3>2, <3>4, <3>6 DEF Selectable, Suitable, CandidateTypes
      <4>3. Reference(op, d, p) = IF P # {} THEN P ELSE C
        BY <1>5, <2>1, <2>5, <3>6 DEF Reference, C, Near, Tagged, Fresh, Secondaries, Lag
      <4>4. QED BY <4>1, <4>2, <4>3
    <3>7. CASE Mode(p) = "secondary"
      <4>1. Selectable(op, d, p) = C
        BY <1>5, <2>1, <2>5, <3>3, <3>7 DEF Selectable, Suitable, CandidateTypes, Secondaries
      <4>2. Reference(op, d, p) = C
        BY <1>5, <2>1, <2>5, <3>7 DEF Reference, C, Near, Tagged, Fresh, Secondaries, Lag
      <4>3. QED BY <4>1, <4>2
    <3>8. CASE Mode(p) = "secondaryPreferred"
      <4>1. Selectable(op, d, p) = IF C # {} THEN C ELSE P
        BY <1>5, <2>1, <2>5, <3>5, <3>8 DEF Selectable, Suitable
      <4>2. Reference(op, d, p) = IF C # {} THEN C ELSE P
        BY <1>5, <2>1, <2>5, <3>8 DEF Reference, C, Near, Tagged, Fresh, Secondaries, Lag
      <4>3. QED BY <4>1, <4>2
    <3>9. CASE Mode(p) = "nearest"
      <4>1. Selectable(op, d, p) = A
        BY <1>5, <2>1, <2>5, <3>2, <3>4, <3>9 DEF Selectable, Suitable, CandidateTypes
      <4>2. Reference(op, d, p) = A
        BY <1>5, <2>1, <2>5, <3>9 DEF Reference, A, Near, Tagged, Fresh, Secondaries, Lag
      <4>3. QED BY <4>1, <4>2
    <3>10. QED BY <1>1, <2>5, <3>6, <3>7, <3>8, <3>9 DEF Modes
  <2>6. QED BY <2>3, <2>4, <2>5
<1>6. QED BY <1>1, <1>2, <1>3, <1>4, <1>5

\* What is selected is among the servers of its kind.
LEMMA SelectedAreSuitable ==
    ASSUME NEW d, IsDescription(d), NEW p \in Prefs, NEW op \in {"read", "write"},
           NEW s \in Selectable(op, d, p)
    PROVE  /\ s \in DOMAIN d.servers /\ d.type # "Unknown"
           /\ d.type = "Sharded" => d.servers[s].type = "Mongos"
           /\ d.type \in SetTypes /\ op = "read" =>
                 \/ d.servers[s].type = "RSPrimary"
                 \/ d.servers[s].type = "RSSecondary" /\ Mode(p) # "primary"
<1>1. ASSUME NEW C PROVE InWindow(d, C) \subseteq C /\ Filtered(d, C, p) \subseteq C
  <2>1. \A D : InWindow(d, D) \subseteq D
    BY DEF InWindow
  <2>2. FilterStale(d, C, p) \subseteq C
    BY DEF FilterStale
  <2>3. \A D : FilterTags(d, D, p) \subseteq D
    BY DEF FilterTags
  <2>4. QED BY <2>1, <2>2, <2>3 DEF Filtered
<1>2. CASE d.type = "Single"
  BY <1>2 DEF Selectable, SetTypes
<1>3. CASE d.type = "Unknown"
  BY <1>3 DEF Selectable, Suitable, SetTypes
<1>4. CASE d.type = "Sharded"
  BY <1>1, <1>4 DEF Selectable, Suitable, CandidateTypes, SetTypes, OfType
<1>5. CASE d.type \in SetTypes
  <2>1. d.type # "Single" /\ d.type # "Sharded" /\ d.type # "Unknown"
    BY <1>5 DEF SetTypes
  <2>2. CASE op = "write"
    BY <1>5, <2>1, <2>2 DEF Selectable, Suitable, OfType
  <2>3. CASE op = "read"
    <3>1. /\ TrySecondary(d, p) \subseteq OfType(d, {"RSSecondary"})
          /\ Mode(p) # "primary" => OfType(d, CandidateTypes(d.type, Mode(p)))
                                       \subseteq OfType(d, {"RSPrimary", "RSSecondary"})
      BY <1>1, <1>5, <2>1 DEF TrySecondary, CandidateTypes, OfType
    <3>2. \/ s \in OfType(d, {"RSPrimary"})
          \/ s \in OfType(d, {"RSPrimary", "RSSecondary"}) /\ Mode(p) # "primary"
      <4>1. s \in Suitable(op, d, p)
        BY <2>1 DEF Selectable
      <4>2. CASE Mode(p) \in {"primary", "primaryPreferred"} /\ s \in OfType(d, {"RSPrimary"})
        BY <4>2
      <4>3. CASE Mode(p) = "secondaryPreferred"
        <5>1. s \in TrySecondary(d, p) \/ s \in OfType(d, {"RSPrimary"})
          BY <1>5, <2>1, <2>3, <4>1, <4>3 DEF Suitable
        <5>2. QED BY <3>1, <4>3, <5>1 DEF OfType
      <4>4. CASE Mode(p) = "primary"
        BY <1>5, <2>1, <2>3, <4>1, <4>4 DEF Suitable
      <4>5. CASE Mode(p) \notin {"primary", "secondaryPreferred"} /\ s \notin OfType(d, {"RSPrimary"})
        <5>1. s \in Filtered(d, OfType(d, CandidateTypes(d.type, Mode(p))), p)
          BY <1>5, <2>1, <2>3, <4>1, <4>5 DEF Suitable
        <5>2. s \in OfType(d, CandidateTypes(d.type, Mode(p)))
          BY <1>1, <5>1
        <5>3. QED BY <3>1, <4>5, <5>2
      <4>6. QED BY <4>2, <4>3, <4>4, <4>5
    <3>3. QED BY <2>1, <2>3, <3>2 DEF OfType
  <2>4. QED BY <2>2, <2>3
<1>6. QED BY <1>2, <1>3, <1>4, <1>5 DEF IsDescription

\* A description of a set of which no primary is known offers the same under either type.
LEMMA TypesAgree ==
    ASSUME NEW d, IsDescription(d), NEW p \in Prefs, NEW op \in {"read", "write"},
           d.type = "RSWithPrimary", OfType(d, {"RSPrimary"}) = {}
    PROVE  Selectable(op, d, p) = Selectable(op, [d EXCEPT !.type = "RSNoPrimary"], p)
<1> DEFINE e == [d EXCEPT !.type = "RSNoPrimary"]
<1>1. e.type = "RSNoPrimary" /\ e.servers = d.servers
  BY DEF IsDescription
<1> HIDE DEF e
<1>2. \A T : OfType(e, T) = OfType(d, T)
  BY <1>1 DEF OfType
<1>3. \A m : CandidateTypes(e.type, m) = CandidateTypes(d.type, m)
  BY <1>1 DEF CandidateTypes, SetTypes
<1>4. \A C : Filtered(e, C, p) = Filtered(d, C, p)
  <2>1. ASSUME NEW C PROVE FilterStale(e, C, p) = FilterStale(d, C, p)
    <3> DEFINE G(sv, primary, secondaries) ==
                 IF p = None THEN C
                 ELSE IF p.staleness = None THEN C
                 ELSE C \ {s \in secondaries :
                             (IF primary # {}
                              THEN StalenessByPrimary(sv[s], sv[CHOOSE m \in primary : TRUE], Heartbeat)
                              ELSE StalenessByNewest(sv[s], Max({0} \cup {sv[t].written : t \in secondaries}),
                                                     Heartbeat)) > p.staleness}
    <3>1. /\ FilterStale(e, C, p) = G(e.servers, OfType(e, {"RSPrimary"}), C \cap OfType(e, {"RSSecondary"}))
          /\ FilterStale(d, C, p) = G(d.servers, OfType(d, {"RSPrimary"}), C \cap OfType(d, {"RSSecondary"}))
      BY DEF FilterStale
    <3> HIDE DEF G
    <3>2. QED BY <1>1, <1>2, <3>1
  <2>2. \A C : FilterTags(e, C, p) = FilterTags(d, C, p)
    BY <1>1 DEF FilterTags
  <2>3. \A C : InWindow(e, C) = InWindow(d, C)
    BY <1>1 DEF InWindow
  <2>4. QED BY <2>1, <2>2, <2>3 DEF Filtered
<1>5. TrySecondary(e, p) = TrySecondary(d, p)
  BY <1>2, <1>3, <1>4 DEF TrySecondary
<1>6. OfType(d, {"RSPrimary", "Standalone"}) = {}
  BY DEF OfType, IsDescription, Misfits, SetTypes
<1>7. CASE op = "write"
  <2>1. Selectable(op, d, p) = Selectable(op, e, p)
    BY <1>1, <1>2, <1>6, <1>7 DEF Selectable, Suitable, SetTypes
  <2>2. QED BY <2>1 DEF e
<1>8. CASE op = "read"
  <2>1. Selectable(op, d, p) = Suitable(op, d, p) /\ Selectable(op, e, p) = Suitable(op, e, p)
    BY <1>1 DEF Selectable
  <2>2. Suitable(op, d, p) = Suitable(op, e, p)
    <3>1. OfType(e, CandidateTypes(e.type, Mode(p))) = OfType(d, CandidateTypes(d.type, Mode(p)))
      BY <1>2, <1>3
    <3>2. d.type \in SetTypes /\ e.type \in SetTypes /\ "Single" \notin SetTypes
      BY <1>1 DEF SetTypes
    <3>3. QED BY <1>1, <1>2, <1>4, <1>5, <1>8, <3>1, <3>2 DEF Suitable
  <2>3. QED BY <2>1, <2>2 DEF e
<1>9. QED BY <1>7, <1>8

\* The bound on maxStalenessSeconds covers what the estimate of a lag can be off.
LEMMA CaughtUpAreFresh ==
    ASSUME NEW d, IsDescription(d), NEW p \in Prefs \ {None}, Compatible(d, p), p.staleness # None,
           NEW s \in OfType(d, {"RSSecondary"}), NEW m \in OfType(d, {"RSPrimary"}),
           d.servers[s].written >= d.servers[s].updated - IdleWrite,
           d.servers[m].written <= d.servers[m].updated
    PROVE  s \in FilterStale(d, {s}, p)
<1>1. p \in PrefType /\ p.staleness \in Int /\ Heartbeat \in Int /\ IdleWrite \in Int
  BY SelectionAssumption, StalenessAssumption DEF PrefType
<1>2. /\ s \in DOMAIN d.servers /\ d.servers[s].type = "RSSecondary"
      /\ m \in DOMAIN d.servers /\ d.servers[m].type = "RSPrimary" /\ s # m
  BY DEF OfType
<1>3. d.type \in SetTypes
  <2>1. d.type # "Unknown" /\ d.type # "Sharded"
    BY <1>2 DEF IsDescription, Misfits, SetTypes
  <2>2. d.type # "Single"
    <3>1. SUFFICES ASSUME Cardinality(DOMAIN d.servers) = 1 PROVE FALSE
      BY DEF IsDescription
    <3>2. {s, m} \subseteq DOMAIN d.servers /\ IsFiniteSet(DOMAIN d.servers)
      BY <1>2 DEF IsDescription
    <3>3. Cardinality({s, m}) <= Cardinality(DOMAIN d.servers)
      BY <3>2, FS_Subset
    <3>4. Cardinality({s, m}) = 2
      <4>1. IsFiniteSet({s}) /\ Cardinality({s}) = 1
        BY FS_Singleton
      <4>2. Cardinality({s} \cup {m}) = Cardinality({s}) + 1
        BY <1>2, <4>1, FS_AddElement
      <4>3. {s, m} = {s} \cup {m}
        OBVIOUS
      <4>4. QED BY <4>1, <4>2, <4>3
    <3>5. QED BY <3>1, <3>3, <3>4
  <2>3. QED BY <2>1, <2>2 DEF IsDescription
<1>4. (CHOOSE x \in OfType(d, {"RSPrimary"}) : TRUE) = m
  <2> DEFINE P == OfType(d, {"RSPrimary"})
             x == CHOOSE x \in P : TRUE
  <2>1. x \in P
    OBVIOUS
  <2>2. IsFiniteSet(P) /\ Cardinality(P) <= 1 /\ Cardinality(P) \in Nat
    <3>1. P \subseteq DOMAIN d.servers /\ IsFiniteSet(DOMAIN d.servers)
      BY DEF OfType, IsDescription
    <3>2. Cardinality(P) <= 1
      BY DEF OfType, IsDescription
    <3>3. QED BY <3>1, <3>2, FS_Subset, FS_CardinalityType
  <2> HIDE DEF P, x
  <2>3. m \in P
    BY DEF P
  <2>4. SUFFICES ASSUME x # m PROVE FALSE
    BY DEF x, P
  <2>5. IsFiniteSet(P \ {x}) /\ Cardinality(P \ {x}) = Cardinality(P) - 1
    BY <2>1, <2>2, FS_RemoveElement
  <2>6. Cardinality(P \ {x}) = 0
    BY <2>2, <2>5, FS_CardinalityType
  <2>7. P \ {x} = {}
    BY <2>5, <2>6, FS_EmptySet
  <2>8. QED BY <2>3, <2>4, <2>7
<1>5. p.staleness >= Heartbeat + IdleWrite
  BY <1>1, <1>3 DEF Compatible, ValidStaleness
<1>6. /\ d.servers[s].written \in Int /\ d.servers[s].updated \in Int
      /\ d.servers[m].written \in Int /\ d.servers[m].updated \in Int
  BY <1>2, ServersAreNumbered
<1>7. ~(StalenessByPrimary(d.servers[s], d.servers[m], Heartbeat) > p.staleness)
  BY <1>1, <1>5, <1>6 DEF StalenessByPrimary
<1>8. FilterStale(d, {s}, p) = {s} \ {t \in {s} \cap OfType(d, {"RSSecondary"}) :
                                       StalenessByPrimary(d.servers[t], d.servers[m], Heartbeat) > p.staleness}
  BY <1>4 DEF FilterStale
<1>9. QED BY <1>7, <1>8

-----------------------------------------------------------------------------
(* The inductive invariant.                                                *)

\* What a selection has yet to say, and when it began.
CallIsOpen ==
    /\ client \in [singleThreaded: BOOLEAN, tryOnce: BOOLEAN]
    /\ lastScan <= now
    /\ call.pc # "done" => call.result = None /\ call.error = ""
    /\ call.pc # "none" => call.begun <= now /\ call.expireAt = call.begun + Timeout

\* A single-threaded client: a turn of the loop begins in time for a scan, which is what
\* time passes in, and has scanned unless the selection has just begun.
LoopIsTimed ==
    client.singleThreaded =>
        /\ call.pc \in {"none", "loop", "select", "done"}
        /\ call.tried => lastScan >= call.begun
        /\ call.pc \in {"loop", "select"} => /\ call.end = now
                                             /\ ~call.tried => now = call.begun
        /\ call.pc = "loop" => /\ IF client.tryOnce THEN ~call.tried ELSE now <= call.expireAt
                               /\ ~stale => lastScan + Heartbeat >= call.begun
        /\ call.pc = "select" =>
              now <= IF client.tryOnce THEN call.begun + MinHeartbeat + ConnectTimeout
                     ELSE call.expireAt + ConnectTimeout

\* A pooled client: a wait ends no later than the mutex was waited for after the timeout.
WaitIsTimed ==
    ~client.singleThreaded =>
        /\ call.pc \in {"none", "lock", "wait", "woken", "done"}
        /\ call.pc = "lock" => call.start = now /\ now <= call.expireAt
        /\ call.pc = "wait" => now <= call.deadline /\ call.deadline <= call.expireAt + LockTime
        /\ call.pc = "woken" => now <= call.expireAt + LockTime

\* A server that was selected came from a description that was known.
ChosenIsKnown == call.pc = "done" /\ call.result # None => td.type # "Unknown"

Inv == /\ SelectionTypeOK /\ CallIsOpen /\ LoopIsTimed /\ WaitIsTimed
       /\ ChosenIsKnown /\ ReadsAreAnswered /\ KnowledgeIsRecent

LEMMA ConstantsAreTimes ==
    /\ MinHeartbeat \in Nat \ {0}
    /\ LocalThreshold \in Nat /\ Heartbeat \in Nat /\ Timeout \in Nat /\ ConnectTimeout \in Nat
    /\ LockTime \in Nat /\ MaxTime \in Nat
BY SelectionAssumption

\* How a server is asked that a read was sent to.
AnsweredFrom(d, p, s) ==
    LET type == d.servers[s].type
        read == Applies(d.type, type, p)
    IN /\ type \in {"RSSecondary", "RSArbiter", "RSOther", "RSGhost"} => read.slaveOk
       /\ type = "Mongos" /\ Mode(p) # "primary" =>
             read.slaveOk /\ (read.wrapped \/ (Mode(p) = "secondaryPreferred" /\ p.tags = <<>>))

LEMMA SelectedAnswer ==
    ASSUME NEW d, IsDescription(d), NEW p \in Prefs, NEW s \in Selectable("read", d, p)
    PROVE  AnsweredFrom(d, p, s)
<1>1. /\ s \in DOMAIN d.servers /\ d.type # "Unknown"
      /\ d.type = "Sharded" => d.servers[s].type = "Mongos"
      /\ d.type \in SetTypes => \/ d.servers[s].type = "RSPrimary"
                                \/ d.servers[s].type = "RSSecondary" /\ Mode(p) # "primary"
  BY SelectedAreSuitable
<1>2. d.type \in SetTypes \cup {"Single", "Sharded"}
  BY <1>1 DEF IsDescription
<1>3. CASE d.type = "Single"
  BY <1>3 DEF AnsweredFrom, Applies, MongosApplies, SetTypes
<1>4. CASE d.type = "Sharded"
  BY <1>1, <1>4 DEF AnsweredFrom, Applies, MongosApplies, SetTypes
<1>5. CASE d.type \in SetTypes
  BY <1>1, <1>5 DEF AnsweredFrom, Applies, SetTypes
<1>6. QED BY <1>2, <1>3, <1>4, <1>5

LEMMA ResetFits == Reset \in ServerType /\ Reset.type = "Unknown"
BY DEF Reset, ServerType

\* e is d with the server s forgotten.
Forgets(d, s, e) ==
    e = [d EXCEPT !.servers[s] = Reset,
                  !.type = IF @ = "RSWithPrimary" /\ OfType(d, {"RSPrimary"}) \subseteq {s}
                           THEN "RSNoPrimary" ELSE @]

\* A server that is forgotten leaves a description, and other servers are asked as before.
LEMMA ForgottenIsDescription ==
    ASSUME NEW d, IsDescription(d), NEW s \in DOMAIN d.servers, NEW e, Forgets(d, s, e)
    PROVE  /\ IsDescription(e) /\ DOMAIN e.servers = DOMAIN d.servers
           /\ d.type # "Unknown" => e.type # "Unknown"
           /\ \A p, r : r \in DOMAIN d.servers /\ d.type # "Unknown" /\ AnsweredFrom(d, p, r)
                        => AnsweredFrom(e, p, r)
<1>1. /\ DOMAIN e = {"type", "servers"}
      /\ e.servers = [d.servers EXCEPT ![s] = Reset]
      /\ e.type = IF d.type = "RSWithPrimary" /\ OfType(d, {"RSPrimary"}) \subseteq {s}
                  THEN "RSNoPrimary" ELSE d.type
  BY DEF IsDescription, Forgets
<1>2. /\ DOMAIN e.servers = DOMAIN d.servers /\ e.servers[s] = Reset
      /\ \A r \in DOMAIN d.servers : r # s => e.servers[r] = d.servers[r]
  BY <1>1
<1>3. /\ Misfits(e.type) = Misfits(d.type)
      /\ e.type \in SetTypes \cup {"Unknown", "Single", "Sharded"}
      /\ e.type \in SetTypes <=> d.type \in SetTypes
      /\ \A T \in {"Unknown", "Single", "Sharded"} : e.type = T <=> d.type = T
  BY <1>1 DEF Misfits, SetTypes, IsDescription
<1>4. "Unknown" \notin Misfits(e.type)
  BY DEF Misfits
<1>5. \A r \in DOMAIN e.servers : e.servers[r] \in ServerType /\ e.servers[r].type \notin Misfits(e.type)
  BY <1>2, <1>3, <1>4, ResetFits DEF IsDescription
<1>6. {r \in DOMAIN e.servers : e.servers[r].type = "RSPrimary"}
        \subseteq {r \in DOMAIN d.servers : d.servers[r].type = "RSPrimary"}
  BY <1>2, ResetFits
<1>7. Cardinality({r \in DOMAIN e.servers : e.servers[r].type = "RSPrimary"}) <= 1
  <2> DEFINE P == {r \in DOMAIN d.servers : d.servers[r].type = "RSPrimary"}
             Q == {r \in DOMAIN e.servers : e.servers[r].type = "RSPrimary"}
  <2>1. IsFiniteSet(P) /\ Cardinality(P) <= 1
    <3>1. P \subseteq DOMAIN d.servers /\ IsFiniteSet(DOMAIN d.servers) /\ Cardinality(P) <= 1
      BY DEF IsDescription
    <3>2. QED BY <3>1, FS_Subset
  <2>2. Q \subseteq P
    BY <1>6
  <2> HIDE DEF P, Q
  <2>3. Cardinality(Q) <= Cardinality(P) /\ Cardinality(Q) \in Nat /\ Cardinality(P) \in Nat
    BY <2>1, <2>2, FS_Subset, FS_CardinalityType
  <2>4. Cardinality(Q) <= 1
    BY <2>1, <2>3
  <2>5. QED BY <2>4 DEF Q
<1>8. e.type = "RSNoPrimary" => \A r \in DOMAIN e.servers : e.servers[r].type # "RSPrimary"
  BY <1>1, <1>2, ResetFits DEF IsDescription, OfType, SetTypes
<1>9. IsDescription(e)
  BY <1>1, <1>2, <1>3, <1>5, <1>7, <1>8 DEF IsDescription
<1>10. ASSUME NEW p, NEW r \in DOMAIN d.servers, d.type # "Unknown", AnsweredFrom(d, p, r)
       PROVE  AnsweredFrom(e, p, r)
  <2>1. CASE r = s
    BY <1>2, <2>1, ResetFits DEF AnsweredFrom
  <2>2. CASE r # s
    <3>1. e.servers[r].type = d.servers[r].type
      BY <1>2, <2>2
    <3>2. d.type \in SetTypes \cup {"Single", "Sharded"}
      BY <1>10 DEF IsDescription
    <3>3. Applies(e.type, d.servers[r].type, p) = Applies(d.type, d.servers[r].type, p)
      BY <1>1, <3>2 DEF Applies, SetTypes
    <3>4. QED BY <1>10, <3>1, <3>3 DEF AnsweredFrom
  <2>3. QED BY <2>1, <2>2
<1>11. QED BY <1>2, <1>3, <1>9, <1>10

-----------------------------------------------------------------------------
(* Every step keeps the invariant.                                         *)

LEMMA InitInv == Init => Inv
<1> SUFFICES ASSUME Init PROVE Inv
  OBVIOUS
<1>1. (CHOOSE p \in Prefs : TRUE) \in Prefs
  BY SelectionAssumption
<1>2. IsDescription(td) /\ now \in Nat /\ lastScan \in Nat /\ lastScan <= now
  <2>1. IsDescription(td)
    BY SelectionAssumption DEF Init
  <2>2. Heartbeat \in Nat /\ now = Heartbeat + 1 /\ (lastScan = 0 \/ lastScan = now)
    BY ConstantsAreTimes DEF Init
  <2>3. QED BY <2>1, <2>2
<1>3. SelectionTypeOK
  BY <1>1, <1>2 DEF Init, SelectionTypeOK, CallType
<1>4. CallIsOpen /\ LoopIsTimed /\ WaitIsTimed
  BY <1>2 DEF Init, CallIsOpen, LoopIsTimed, WaitIsTimed
<1>5. ChosenIsKnown /\ ReadsAreAnswered /\ KnowledgeIsRecent
  BY DEF Init, ChosenIsKnown, ReadsAreAnswered, KnowledgeIsRecent, DescriptionIsRecent, FailureIsTried
<1>6. QED BY <1>3, <1>4, <1>5 DEF Inv

LEMMA OpenSaysNothing ==
    ASSUME call'.pc # "done"
    PROVE  ChosenIsKnown' /\ ReadsAreAnswered' /\ FailureIsTried'
BY DEF ChosenIsKnown, ReadsAreAnswered, FailureIsTried

\* What the type invariant says of the call.
LEMMA CallsAreTyped ==
    ASSUME Inv
    PROVE  /\ call.op \in {"read", "write"} /\ call.prefs \in Prefs
           /\ call.begun \in Nat /\ call.start \in Nat /\ call.end \in Nat /\ call.expireAt \in Nat
           /\ call.deadline \in Nat /\ call.tried \in BOOLEAN
           /\ now \in Nat /\ lastScan \in Nat /\ stale \in BOOLEAN /\ IsDescription(td)
BY DEF Inv, SelectionTypeOK, CallType

LEMMA BeginKeepsInv ==
    ASSUME Inv, NEW op \in {"read", "write"}, NEW p \in Prefs, Begin(op, p)
    PROVE  Inv'
<1>1. /\ call' = NewCall(op, p) /\ UNCHANGED <<client, td, lastScan, now>>
      /\ stale' = (stale \/ (client.singleThreaded /\ lastScan + Heartbeat < now))
      /\ client.singleThreaded \in BOOLEAN /\ lastScan <= now
  BY DEF Begin, Inv, CallIsOpen
<1>2. now \in Nat /\ lastScan \in Nat /\ now + Timeout \in Nat /\ Heartbeat \in Nat /\ Timeout \in Nat
  BY CallsAreTyped, ConstantsAreTimes
<1>3. call' \in CallType /\ call'.pc \in {"loop", "lock"}
  BY <1>1, <1>2 DEF NewCall, CallType
<1>4. /\ call'.pc = (IF client.singleThreaded THEN "loop" ELSE "lock")
       /\ call'.begun = now /\ call'.start = now /\ call'.end = now /\ call'.expireAt = now + Timeout
       /\ call'.tried = FALSE /\ call'.result = None /\ call'.error = ""
  BY <1>1 DEF NewCall
<1>5. SelectionTypeOK'
  <2>1. stale' \in BOOLEAN /\ IsDescription(td') /\ {now', lastScan'} \subseteq Nat
    BY <1>1, <1>2, CallsAreTyped
  <2>2. call'.pc = "done" <=> (call'.result # None) # (call'.error # "")
    BY <1>1, <1>3 DEF NewCall
  <2>3. QED BY <1>3, <2>1, <2>2 DEF SelectionTypeOK
<1>6. CallIsOpen'
  <2>1. client' \in [singleThreaded: BOOLEAN, tryOnce: BOOLEAN]
    BY <1>1 DEF CallIsOpen, Inv
  <2>2. lastScan' <= now' /\ call'.begun <= now' /\ call'.expireAt = call'.begun + Timeout
    <3>1. lastScan' = lastScan /\ now' = now /\ lastScan <= now
      BY <1>1
    <3>2. call'.begun = now /\ call'.expireAt = now + Timeout
      BY <1>4
    <3>3. QED BY <1>2, <3>1, <3>2
  <2>3. QED BY <1>4, <2>1, <2>2 DEF CallIsOpen
<1>7. LoopIsTimed'
  <2>1. client.singleThreaded /\ ~stale' => lastScan + Heartbeat >= now
    <3>1. client.singleThreaded /\ ~stale' => ~(lastScan + Heartbeat < now)
      BY <1>1, Zenon
    <3>2. QED BY <1>2, <3>1
  <2>2. now <= now + Timeout
    BY <1>2
  <2>3. QED BY <1>1, <1>4, <2>1, <2>2 DEF LoopIsTimed
<1>8. WaitIsTimed'
  <2>1. now <= now + Timeout
    BY <1>2
  <2>2. QED BY <1>1, <1>4, <2>1 DEF WaitIsTimed
<1>9. DescriptionIsRecent' /\ ChosenIsKnown' /\ ReadsAreAnswered' /\ FailureIsTried'
  BY <1>3, OpenSaysNothing DEF DescriptionIsRecent
<1>10. QED BY <1>5, <1>6, <1>7, <1>8, <1>9 DEF Inv, KnowledgeIsRecent

LEMMA NoScanKeepsInv == Inv /\ NoScan => Inv'
<1> SUFFICES ASSUME Inv, NoScan PROVE Inv'
  OBVIOUS
<1>1. /\ call.pc = "loop" /\ ~stale /\ call' = [call EXCEPT !.pc = "select"]
      /\ UNCHANGED <<client, td, lastScan, stale, now>>
  BY DEF NoScan
<1>2. call \in CallType /\ call.result = None /\ call.error = ""
  BY <1>1 DEF Inv, SelectionTypeOK, CallIsOpen
<1>3. call' \in CallType /\ call'.pc = "select" /\ call'.result = None /\ call'.error = ""
  BY <1>1, <1>2 DEF CallType
<1>4. SelectionTypeOK'
  BY <1>1, <1>3, CallsAreTyped DEF SelectionTypeOK
<1>5. CallIsOpen'
  BY <1>1, <1>2 DEF CallIsOpen, CallType, Inv
<1>6. client.singleThreaded
  BY <1>1 DEF Inv, WaitIsTimed
<1>7. /\ call.end = now /\ (~call.tried => now = call.begun) /\ (call.tried => lastScan >= call.begun)
      /\ (IF client.tryOnce THEN ~call.tried ELSE now <= call.expireAt)
      /\ lastScan + Heartbeat >= call.begun
  BY <1>1, <1>6 DEF Inv, LoopIsTimed
<1>8. LoopIsTimed'
  <2>1. /\ now \in Nat /\ call.begun \in Nat /\ call.expireAt \in Nat
        /\ MinHeartbeat \in Nat /\ ConnectTimeout \in Nat
    BY CallsAreTyped, ConstantsAreTimes
  <2>2. now <= IF client.tryOnce THEN call.begun + MinHeartbeat + ConnectTimeout
               ELSE call.expireAt + ConnectTimeout
    BY <1>7, <2>1
  <2>3. /\ call'.begun = call.begun /\ call'.expireAt = call.expireAt /\ call'.end = call.end
        /\ call'.tried = call.tried
    BY <1>1, <1>2 DEF CallType
  <2>4. QED BY <1>1, <1>3, <1>7, <2>2, <2>3 DEF LoopIsTimed
<1>9. WaitIsTimed'
  BY <1>1, <1>6 DEF WaitIsTimed
<1>10. DescriptionIsRecent'
  BY <1>1, <1>2, <1>7 DEF DescriptionIsRecent, CallType
<1>11. QED BY <1>3, <1>4, <1>5, <1>8, <1>9, <1>10, OpenSaysNothing DEF Inv, KnowledgeIsRecent

\* When a scan begins and ends.
LEMMA ScanIsTimed ==
    ASSUME Inv, Scan
    PROVE  /\ client.singleThreaded /\ td' \in Scanned
           /\ now' \in Nat /\ lastScan' = now' /\ now <= now'
           /\ now' >= lastScan + MinHeartbeat
           /\ now' <= IF client.tryOnce THEN call.begun + MinHeartbeat + ConnectTimeout
                      ELSE call.expireAt + ConnectTimeout
           /\ call' = [call EXCEPT !.pc = "select", !.end = now', !.tried = TRUE]
<1> DEFINE wait == lastScan + MinHeartbeat - call.end
           ready == now + Max({0, wait})
<1>1. PICK t \in ready .. ready + ConnectTimeout :
         /\ td' \in Scanned /\ now' = t /\ lastScan' = t
         /\ call' = [call EXCEPT !.pc = "select", !.end = t, !.tried = TRUE]
  BY DEF Scan
<1>2. client.singleThreaded
  BY DEF Inv, WaitIsTimed, Scan
<1>3. /\ call.end = now /\ (~call.tried => now = call.begun)
      /\ IF client.tryOnce THEN ~call.tried ELSE now <= call.expireAt
      /\ lastScan <= now
      /\ client.tryOnce \/ lastScan + MinHeartbeat <= call.expireAt
  BY <1>2 DEF Inv, LoopIsTimed, Scan, CallIsOpen
<1>4. Max({0, wait}) = IF wait <= 0 THEN 0 ELSE wait
  <2>1. wait \in Int
    BY CallsAreTyped, ConstantsAreTimes
  <2> HIDE DEF wait
  <2>2. CASE wait <= 0
    BY <2>1, <2>2, MaxIs
  <2>3. CASE ~(wait <= 0)
    BY <2>1, <2>3, MaxIs
  <2>4. QED BY <2>2, <2>3
<1>5. now \in Nat /\ lastScan \in Nat /\ call.begun \in Nat /\ call.expireAt \in Nat /\ MinHeartbeat \in Nat
      /\ ConnectTimeout \in Nat
  BY CallsAreTyped, ConstantsAreTimes
<1>6. /\ ready \in Nat /\ ready >= now /\ ready >= lastScan + MinHeartbeat
      /\ client.tryOnce => ready <= call.begun + MinHeartbeat
      /\ ~client.tryOnce => ready <= call.expireAt
  BY <1>3, <1>4, <1>5
<1> HIDE DEF ready
<1>7. now' \in Nat /\ now' >= ready /\ now' <= ready + ConnectTimeout
  BY <1>1, <1>5, <1>6
<1>8. QED BY <1>1, <1>2, <1>5, <1>6, <1>7

LEMMA ScanKeepsInv == Inv /\ Scan => Inv'
<1> SUFFICES ASSUME Inv, Scan PROVE Inv'
  OBVIOUS
<1>1. /\ client.singleThreaded /\ IsDescription(td')
      /\ now' \in Nat /\ lastScan' = now' /\ now <= now'
      /\ now' <= IF client.tryOnce THEN call.begun + MinHeartbeat + ConnectTimeout
                 ELSE call.expireAt + ConnectTimeout
      /\ call' = [call EXCEPT !.pc = "select", !.end = now', !.tried = TRUE]
  BY ScanIsTimed, SelectionAssumption
<1>2. call.pc = "loop" /\ stale' = FALSE /\ client' = client
  BY DEF Scan
<1>3. call \in CallType /\ call.result = None /\ call.error = "" /\ call.begun <= now
      /\ call.expireAt = call.begun + Timeout
  BY <1>2 DEF Inv, SelectionTypeOK, CallIsOpen
<1>4. /\ call' \in CallType /\ call'.pc = "select" /\ call'.result = None /\ call'.error = ""
      /\ call'.begun = call.begun /\ call'.expireAt = call.expireAt /\ call'.end = now' /\ call'.tried
  BY <1>1, <1>3 DEF CallType
<1>5. SelectionTypeOK'
  BY <1>1, <1>2, <1>4 DEF SelectionTypeOK
<1>6. call'.begun <= now' /\ lastScan' + Heartbeat >= call'.begun
  <2>1. now \in Nat /\ call.begun \in Nat /\ Heartbeat \in Nat
    BY CallsAreTyped, ConstantsAreTimes
  <2>2. now' \in Nat /\ lastScan' = now' /\ now <= now' /\ call.begun <= now
    BY <1>1, <1>3
  <2>3. call'.begun = call.begun
    BY <1>4
  <2>4. QED BY <2>1, <2>2, <2>3
<1>7. CallIsOpen'
  <2>1. client' \in [singleThreaded: BOOLEAN, tryOnce: BOOLEAN]
    BY <1>2 DEF CallIsOpen, Inv
  <2>2. lastScan' <= now'
    BY <1>1
  <2>3. QED BY <1>3, <1>4, <1>6, <2>1, <2>2 DEF CallIsOpen
<1>8. LoopIsTimed' /\ WaitIsTimed' /\ DescriptionIsRecent'
  BY <1>1, <1>2, <1>4, <1>6 DEF LoopIsTimed, WaitIsTimed, DescriptionIsRecent
<1>9. QED BY <1>4, <1>5, <1>7, <1>8, OpenSaysNothing DEF Inv, KnowledgeIsRecent

\* The selection ends, with a server that suits or with an error.
Ended ==
    /\ ~Idle
    /\ call' \in CallType /\ call'.pc = "done"
    /\ call'.op = call.op /\ call'.prefs = call.prefs
    /\ call'.begun = call.begun /\ call'.expireAt = call.expireAt /\ call'.tried = call.tried
    /\ (call'.result # None) # (call'.error # "")
    /\ call'.result # None => call'.result \in Selectable(call.op, td, call.prefs)

LEMMA FailsEnds ==
    ASSUME Inv, ~Idle, NEW why \in {"incompatible", "none suitable", "time is over"}, Fails(why)
    PROVE  Ended /\ call'.error = why
<1>1. call \in CallType /\ call.result = None
  BY DEF Inv, SelectionTypeOK, CallIsOpen, Idle
<1>2. call' = [call EXCEPT !.pc = "done", !.error = why]
  BY DEF Fails
<1>3. call' \in CallType
  BY <1>1, <1>2 DEF CallType
<1>4. QED BY <1>1, <1>2, <1>3 DEF Ended, CallType

LEMMA ChosenEnds ==
    ASSUME Inv, ~Idle, Chosen
    PROVE  Ended /\ call'.error = ""
<1>1. call \in CallType /\ call.error = "" /\ IsDescription(td) /\ call.prefs \in Prefs
      /\ call.op \in {"read", "write"}
  BY CallsAreTyped DEF Inv, SelectionTypeOK, CallIsOpen, Idle
<1>2. PICK s \in Selectable(call.op, td, call.prefs) : call' = [call EXCEPT !.pc = "done", !.result = s]
  BY DEF Chosen
<1>3. s \in Nat
  <2>1. s \in DOMAIN td.servers
    BY <1>1, <1>2, SelectedAreSuitable
  <2>2. QED BY <1>1, <2>1 DEF IsDescription
<1>4. s # None
  BY <1>3, SelectionAssumption
<1>5. call' \in CallType
  BY <1>1, <1>2, <1>3 DEF CallType
<1>6. QED BY <1>1, <1>2, <1>4, <1>5 DEF Ended, CallType

LEMMA EndKeepsInv ==
    ASSUME Inv, Ended, UNCHANGED <<client, td, lastScan>>, now' \in Nat, now <= now',
           stale' \in BOOLEAN, FailureIsTried'
    PROVE  Inv'
<1>1. /\ IsDescription(td) /\ lastScan \in Nat /\ now \in Nat /\ lastScan <= now /\ call.begun <= now
      /\ call.begun \in Nat /\ call.expireAt = call.begun + Timeout
      /\ client \in [singleThreaded: BOOLEAN, tryOnce: BOOLEAN]
      /\ call.prefs \in Prefs /\ call.op \in {"read", "write"}
  BY CallsAreTyped DEF Inv, CallIsOpen, Ended, Idle
<1>2. SelectionTypeOK'
  BY <1>1 DEF SelectionTypeOK, Ended
<1>3. CallIsOpen'
  <2>1. lastScan' <= now' /\ call'.begun <= now'
    <3>1. lastScan' = lastScan /\ call'.begun = call.begun
      BY DEF Ended
    <3>2. QED BY <1>1, <3>1
  <2>2. QED BY <1>1, <2>1 DEF CallIsOpen, Ended
<1>4. LoopIsTimed'
  BY DEF LoopIsTimed, Ended, Inv, Idle
<1>5. WaitIsTimed'
  BY DEF WaitIsTimed, Ended
<1>6. ChosenIsKnown'
  <2>1. SUFFICES ASSUME call'.result # None PROVE td'.type # "Unknown"
    BY DEF ChosenIsKnown
  <2>2. call'.result \in Selectable(call.op, td, call.prefs)
    BY <2>1 DEF Ended
  <2>3. QED BY <1>1, <2>2, SelectedAreSuitable
<1>7. ReadsAreAnswered'
  <2>1. SUFFICES ASSUME call'.result # None, call'.op = "read" PROVE AnsweredFrom(td', call'.prefs, call'.result)
    BY DEF ReadsAreAnswered, AnsweredFrom
  <2>2. /\ call'.result \in Selectable("read", td, call.prefs) /\ call'.prefs = call.prefs
        /\ td' = td
    BY <2>1 DEF Ended
  <2>3. AnsweredFrom(td, call.prefs, call'.result)
    BY <1>1, <2>2, SelectedAnswer
  <2>4. QED BY <2>2, <2>3
<1>8. DescriptionIsRecent'
  BY DEF DescriptionIsRecent, Ended
<1>9. QED BY <1>2, <1>3, <1>4, <1>5, <1>6, <1>7, <1>8 DEF Inv, KnowledgeIsRecent

LEMMA GiveUpKeepsInv == Inv /\ GiveUp => Inv'
<1> SUFFICES ASSUME Inv, GiveUp PROVE Inv'
  OBVIOUS
<1>1. /\ call.pc = "loop" /\ lastScan + MinHeartbeat > call.expireAt /\ Fails("time is over")
      /\ UNCHANGED <<client, td, lastScan, stale, now>>
  BY DEF GiveUp
<1>2. Ended
  BY <1>1, FailsEnds DEF Idle
<1>3. now \in Nat /\ stale \in BOOLEAN
  BY CallsAreTyped
<1>4. FailureIsTried'
  <2>1. /\ call.begun \in Nat /\ lastScan \in Nat /\ MinHeartbeat \in Nat /\ Timeout \in Nat
        /\ call.expireAt = call.begun + Timeout
    BY <1>1, CallsAreTyped, ConstantsAreTimes DEF Inv, CallIsOpen
  <2>2. MinHeartbeat <= Timeout => lastScan >= call.begun
    <3>1. lastScan + MinHeartbeat > call.expireAt
      BY <1>1
    <3>2. QED BY <2>1, <3>1
  <2>3. call'.begun = call.begun /\ lastScan' = lastScan
    BY <1>1, <1>2 DEF Ended
  <2>4. QED BY <2>2, <2>3 DEF FailureIsTried
<1>5. now' \in Nat /\ now <= now' /\ stale' \in BOOLEAN
  <2>1. now' = now /\ stale' = stale
    BY <1>1
  <2>2. QED BY <1>3, <2>1
<1>6. QED BY <1>1, <1>2, <1>4, <1>5, EndKeepsInv

LEMMA ChooseKeepsInv == Inv /\ Choose => Inv'
<1> SUFFICES ASSUME Inv, Choose PROVE Inv'
  OBVIOUS
<1>1. call.pc = "select" /\ UNCHANGED <<client, td, lastScan, now>> /\ ~Idle
  BY DEF Choose, Idle
<1>2. client.singleThreaded
  BY <1>1 DEF Inv, WaitIsTimed
<1>3. /\ call.end = now /\ (~call.tried => now = call.begun) /\ (call.tried => lastScan >= call.begun)
      /\ call.expireAt = call.begun + Timeout /\ call.result = None /\ call.error = ""
      /\ call \in CallType /\ lastScan + Heartbeat >= call.begun /\ lastScan <= now /\ call.begun <= now
      /\ client \in [singleThreaded: BOOLEAN, tryOnce: BOOLEAN]
  BY <1>1, <1>2
     DEF Inv, LoopIsTimed, CallIsOpen, SelectionTypeOK, KnowledgeIsRecent, DescriptionIsRecent
<1>4. now \in Nat /\ stale \in BOOLEAN /\ call.begun \in Nat /\ lastScan \in Nat /\ IsDescription(td)
      /\ Timeout \in Nat
  BY CallsAreTyped, ConstantsAreTimes
<1>5. now' \in Nat /\ now <= now' /\ stale' \in BOOLEAN
  <2>1. now' = now /\ stale' \in BOOLEAN
    BY <1>1, <1>4 DEF Choose
  <2>2. QED BY <1>4, <2>1
<1>6. CASE Fails("incompatible")
  <2>1. Ended /\ call'.error = "incompatible"
    BY <1>1, <1>6, FailsEnds
  <2>2. FailureIsTried'
    BY <2>1 DEF FailureIsTried
  <2>3. QED BY <1>1, <1>5, <2>1, <2>2, EndKeepsInv
<1>7. CASE Chosen
  <2>1. Ended /\ call'.error = ""
    BY <1>1, <1>7, ChosenEnds
  <2>2. FailureIsTried'
    BY <2>1 DEF FailureIsTried
  <2>3. QED BY <1>1, <1>5, <2>1, <2>2, EndKeepsInv
<1>8. CASE /\ call.tried \/ now > call.expireAt
           /\ Fails("none suitable") \/ Fails("time is over")
  <2>1. Ended
    BY <1>1, <1>8, FailsEnds
  <2>2. call.tried
    <3>1. ~call.tried => now = call.begun
      BY <1>3
    <3>2. now = call.begun => ~(now > call.expireAt)
      <4>1. call.expireAt = call.begun + Timeout
        BY <1>3
      <4>2. QED BY <1>4, <4>1
    <3>3. QED BY <1>8, <3>1, <3>2
  <2>3. FailureIsTried'
    BY <1>1, <1>3, <2>1, <2>2 DEF FailureIsTried, Ended
  <2>4. QED BY <1>1, <1>5, <2>1, <2>3, EndKeepsInv
<1>9. CASE /\ stale' = TRUE
           /\ \/ client.tryOnce /\ ~call.tried /\ call' = [call EXCEPT !.pc = "loop"]
              \/ /\ ~client.tryOnce /\ ~(now > call.expireAt)
                 /\ call' = [call EXCEPT !.pc = "loop", !.end = now]
  <2>1. /\ call' \in CallType /\ call'.pc = "loop" /\ call'.result = None /\ call'.error = ""
        /\ call'.begun = call.begun /\ call'.expireAt = call.expireAt /\ call'.tried = call.tried
        /\ call'.end = now
    BY <1>3, <1>4, <1>9, ZenonT(30) DEF CallType
  <2>2. SelectionTypeOK'
    BY <1>1, <1>4, <1>5, <2>1 DEF SelectionTypeOK
  <2>3. CallIsOpen'
    BY <1>1, <1>3, <2>1 DEF CallIsOpen
  <2>4. IF client.tryOnce THEN ~call.tried ELSE now <= call.expireAt
    <3>1. call.expireAt \in Nat
      BY CallsAreTyped
    <3>2. ~(now > call.expireAt) => now <= call.expireAt
      BY <1>4, <3>1
    <3>3. QED BY <1>9, <3>2
  <2>5. LoopIsTimed' /\ WaitIsTimed' /\ DescriptionIsRecent'
    BY <1>1, <1>2, <1>3, <1>9, <2>1, <2>4 DEF LoopIsTimed, WaitIsTimed, DescriptionIsRecent
  <2>6. QED BY <2>1, <2>2, <2>3, <2>5, OpenSaysNothing DEF Inv, KnowledgeIsRecent
<1>10. QED BY <1>6, <1>7, <1>8, <1>9 DEF Choose

\* The call of a pooled client, and the clock.
LEMMA PooledIsTimed ==
    ASSUME Inv, call.pc \in {"lock", "wait", "woken"}
    PROVE  /\ ~client.singleThreaded /\ client \in [singleThreaded: BOOLEAN, tryOnce: BOOLEAN]
           /\ call \in CallType /\ call.result = None /\ call.error = "" /\ lastScan <= now
           /\ call.begun <= now /\ call.expireAt = call.begun + Timeout
BY DEF Inv, LoopIsTimed, CallIsOpen, SelectionTypeOK

LEMMA PooledFailureIsNotTimed ==
    ASSUME ~client'.singleThreaded
    PROVE  FailureIsTried'
BY DEF FailureIsTried

\* A pooled client goes on: it gets the mutex, waits or is woken.
LEMMA PooledGoesOn ==
    ASSUME Inv, call.pc \in {"lock", "wait", "woken"}, NEW pc \in {"lock", "wait", "woken"},
           NEW start \in Nat, NEW deadline \in Nat,
           call' = [call EXCEPT !.pc = pc, !.start = start, !.deadline = deadline],
           UNCHANGED <<client, lastScan, stale>>, now' \in Nat, now <= now', IsDescription(td'),
           pc = "lock" => start = now' /\ now' <= call.expireAt,
           pc = "wait" => now' <= deadline /\ deadline <= call.expireAt + LockTime,
           pc = "woken" => now' <= call.expireAt + LockTime
    PROVE  Inv'
<1>1. /\ ~client.singleThreaded /\ client \in [singleThreaded: BOOLEAN, tryOnce: BOOLEAN]
      /\ call \in CallType /\ call.result = None /\ call.error = "" /\ lastScan <= now
      /\ call.begun <= now /\ call.expireAt = call.begun + Timeout
  BY PooledIsTimed
<1>2. /\ call' \in CallType /\ call'.pc = pc /\ call'.start = start /\ call'.deadline = deadline
      /\ call'.result = None /\ call'.error = "" /\ call'.begun = call.begun
      /\ call'.expireAt = call.expireAt
  BY <1>1 DEF CallType
<1>3. lastScan \in Nat /\ stale \in BOOLEAN /\ now \in Nat /\ call.begun \in Nat
  BY CallsAreTyped
<1>4. SelectionTypeOK'
  BY <1>2, <1>3 DEF SelectionTypeOK
<1>5. CallIsOpen'
  <2>1. lastScan <= now' /\ call.begun <= now'
    <3>1. lastScan <= now /\ call.begun <= now /\ now <= now' /\ now' \in Nat
      BY <1>1
    <3>2. QED BY <1>3, <3>1
  <2>2. lastScan' = lastScan
    OBVIOUS
  <2>3. QED BY <1>1, <1>2, <2>1, <2>2 DEF CallIsOpen
<1>6. LoopIsTimed' /\ WaitIsTimed' /\ DescriptionIsRecent'
  BY <1>1, <1>2 DEF LoopIsTimed, WaitIsTimed, DescriptionIsRecent
<1>7. call'.pc # "done"
  BY <1>2
<1>8. QED BY <1>4, <1>5, <1>6, <1>7, OpenSaysNothing DEF Inv, KnowledgeIsRecent

LEMMA LockedKeepsInv == Inv /\ Locked => Inv'
<1> SUFFICES ASSUME Inv, Locked PROVE Inv'
  OBVIOUS
<1>1. call.pc = "lock" /\ ~Idle /\ UNCHANGED <<client, td, lastScan, stale>>
  BY DEF Locked, Idle
<1>2. PICK t \in now .. now + LockTime :
         /\ now' = t
         /\ \/ ~Compatible(td, call.prefs) /\ Fails("incompatible")
            \/ Compatible(td, call.prefs) /\ Chosen
            \/ /\ Compatible(td, call.prefs) /\ Selectable(call.op, td, call.prefs) = {}
               /\ call' = [call EXCEPT !.pc = "wait", !.deadline = t + (call.expireAt - call.start)]
  BY DEF Locked
<1>3. /\ now \in Nat /\ LockTime \in Nat /\ call.expireAt \in Nat /\ stale \in BOOLEAN
      /\ IsDescription(td) /\ call.start \in Nat
  BY CallsAreTyped, ConstantsAreTimes
<1>4. call.start = now /\ now <= call.expireAt /\ ~client.singleThreaded /\ call \in CallType
  BY <1>1, PooledIsTimed DEF Inv, WaitIsTimed
<1>5. now' = t /\ t \in Nat /\ now <= t /\ t <= now + LockTime
  BY <1>2, <1>3
<1>6. CASE Fails("incompatible") \/ Chosen
  <2>1. Ended
    BY <1>1, <1>6, FailsEnds, ChosenEnds
  <2>2. FailureIsTried'
    BY <1>1, <1>4, PooledFailureIsNotTimed
  <2>3. now' \in Nat /\ now <= now' /\ stale' \in BOOLEAN
    <3>1. stale' = stale
      BY <1>1
    <3>2. QED BY <1>3, <1>5, <3>1
  <2>4. QED BY <1>1, <2>1, <2>2, <2>3, EndKeepsInv
<1>7. CASE call' = [call EXCEPT !.pc = "wait", !.deadline = t + (call.expireAt - call.start)]
  <2>1. PICK deadline : deadline = t + (call.expireAt - call.start)
    OBVIOUS
  <2>2. deadline \in Nat /\ t <= deadline /\ deadline <= call.expireAt + LockTime
    BY <1>3, <1>4, <1>5, <2>1
  <2>3. call' = [call EXCEPT !.pc = "wait", !.start = call.start, !.deadline = deadline]
    BY <1>4, <1>7, <2>1 DEF CallType
  <2>4. now' \in Nat /\ now <= now' /\ now' <= deadline /\ IsDescription(td')
    BY <1>1, <1>3, <1>5, <2>2
  <2>5. QED BY <1>1, <1>3, <2>2, <2>3, <2>4, PooledGoesOn
<1>8. QED BY <1>2, <1>6, <1>7

LEMMA WakesKeepsInv == Inv /\ Wakes => Inv'
<1> SUFFICES ASSUME Inv, Wakes PROVE Inv'
  OBVIOUS
<1>1. call.pc = "woken" /\ ~Idle /\ UNCHANGED <<client, td, lastScan, stale>>
  BY DEF Wakes, Idle
<1>2. PICK t \in now .. now + LockTime :
         /\ now' = t
         /\ IF t > call.expireAt
            THEN call' = [call EXCEPT !.pc = "done", !.start = t, !.error = "time is over"]
            ELSE call' = [call EXCEPT !.pc = "lock", !.start = t]
  BY DEF Wakes
<1>3. /\ now \in Nat /\ LockTime \in Nat /\ call.expireAt \in Nat /\ stale \in BOOLEAN
      /\ IsDescription(td) /\ call.deadline \in Nat
  BY CallsAreTyped, ConstantsAreTimes
<1>4. ~client.singleThreaded /\ call \in CallType /\ call.result = None /\ call.error = ""
  BY <1>1, PooledIsTimed
<1>5. now' = t /\ t \in Nat /\ now <= t
  BY <1>2, <1>3
<1>6. now' \in Nat /\ now <= now' /\ stale' \in BOOLEAN /\ IsDescription(td')
  BY <1>1, <1>3, <1>5
<1>7. CASE t > call.expireAt
  <2>1. call' = [call EXCEPT !.pc = "done", !.start = t, !.error = "time is over"]
    BY <1>2, <1>7
  <2>2. call' \in CallType
    BY <1>4, <1>5, <2>1 DEF CallType
  <2>3. Ended
    BY <1>1, <1>4, <2>1, <2>2 DEF Ended, CallType
  <2>4. FailureIsTried'
    BY <1>1, <1>4, PooledFailureIsNotTimed
  <2>5. QED BY <1>1, <1>6, <2>3, <2>4, EndKeepsInv
<1>8. CASE ~(t > call.expireAt)
  <2>1. call' = [call EXCEPT !.pc = "lock", !.start = t]
    BY <1>2, <1>8
  <2>2. call' = [call EXCEPT !.pc = "lock", !.start = t, !.deadline = call.deadline]
    BY <1>4, <2>1 DEF CallType
  <2>3. t = now' /\ now' <= call.expireAt
    BY <1>3, <1>5, <1>8
  <2>4. QED BY <1>1, <1>3, <1>5, <1>6, <2>2, <2>3, PooledGoesOn
<1>9. QED BY <1>7, <1>8

LEMMA TimesOutKeepsInv == Inv /\ TimesOut => Inv'
<1> SUFFICES ASSUME Inv, TimesOut PROVE Inv'
  OBVIOUS
<1>1. /\ call.pc = "wait" /\ ~Idle /\ UNCHANGED <<client, td, lastScan, stale>>
      /\ Fails("time is over")
  BY DEF TimesOut, Idle
<1>2. PICK t \in now .. now + LockTime : now' = t
  BY DEF TimesOut
<1>3. now \in Nat /\ LockTime \in Nat /\ stale \in BOOLEAN
  BY CallsAreTyped, ConstantsAreTimes
<1>4. now' \in Nat /\ now <= now' /\ stale' \in BOOLEAN
  <2>1. now' \in Nat /\ now <= now'
    BY <1>2, <1>3
  <2>2. QED BY <1>1, <1>3, <2>1
<1>5. Ended
  BY <1>1, FailsEnds
<1>6. FailureIsTried'
  BY <1>1, PooledIsTimed, PooledFailureIsNotTimed
<1>7. QED BY <1>1, <1>4, <1>5, <1>6, EndKeepsInv

LEMMA MonitoredKeepsInv == Inv /\ Monitored => Inv'
<1> SUFFICES ASSUME Inv, Monitored PROVE Inv'
  OBVIOUS
<1>1. /\ call.pc \in {"lock", "wait"} /\ td' \in Scanned
      /\ call' = IF call.pc = "wait" THEN [call EXCEPT !.pc = "woken"] ELSE call
      /\ UNCHANGED <<client, lastScan, stale, now>>
  BY DEF Monitored
<1>2. /\ now \in Nat /\ LockTime \in Nat /\ call.expireAt \in Nat /\ call.start \in Nat
      /\ call.deadline \in Nat /\ IsDescription(td')
  BY <1>1, CallsAreTyped, ConstantsAreTimes, SelectionAssumption
<1>3. call \in CallType
  BY <1>1, PooledIsTimed
<1>4. now' \in Nat /\ now <= now' /\ UNCHANGED <<client, lastScan, stale>>
  BY <1>1, <1>2
<1>5. CASE call.pc = "wait"
  <2>1. call' = [call EXCEPT !.pc = "woken", !.start = call.start, !.deadline = call.deadline]
    BY <1>1, <1>3, <1>5 DEF CallType
  <2>2. now' <= call.expireAt + LockTime
    <3>1. now <= call.deadline /\ call.deadline <= call.expireAt + LockTime /\ now' = now
      BY <1>1, <1>5, PooledIsTimed DEF Inv, WaitIsTimed
    <3>2. QED BY <1>2, <3>1
  <2>3. QED BY <1>2, <1>4, <1>5, <2>1, <2>2, PooledGoesOn
<1>6. CASE call.pc = "lock"
  <2>1. call' = [call EXCEPT !.pc = "lock", !.start = call.start, !.deadline = call.deadline]
    BY <1>1, <1>3, <1>6 DEF CallType
  <2>2. call.start = now' /\ now' <= call.expireAt
    BY <1>1, <1>6, PooledIsTimed DEF Inv, WaitIsTimed
  <2>3. QED BY <1>2, <1>4, <1>6, <2>1, <2>2, PooledGoesOn
<1>7. QED BY <1>1, <1>5, <1>6

LEMMA TickKeepsInv == Inv /\ Tick => Inv'
<1> SUFFICES ASSUME Inv, Tick PROVE Inv'
  OBVIOUS
<1>1. now' = now + 1 /\ UNCHANGED <<client, lastScan, stale, td, call>>
  BY DEF Tick
<1>2. /\ now \in Nat /\ lastScan \in Nat /\ stale \in BOOLEAN /\ IsDescription(td)
      /\ call.deadline \in Nat /\ call.begun \in Nat
  BY CallsAreTyped
<1>3. now' \in Nat /\ now <= now'
  BY <1>1, <1>2
<1>4. /\ client \in [singleThreaded: BOOLEAN, tryOnce: BOOLEAN]
      /\ call.pc # "done" => call.result = None /\ call.error = ""
      /\ lastScan <= now
      /\ call.pc # "none" => call.begun <= now /\ call.expireAt = call.begun + Timeout
      /\ call \in CallType /\ (call.pc = "done" <=> (call.result # None) # (call.error # ""))
  BY DEF Inv, CallIsOpen, SelectionTypeOK
<1>5. call.pc \in {"none", "done", "wait"}
  BY DEF Tick, Idle
<1>6. SelectionTypeOK'
  BY <1>1, <1>2, <1>3, <1>4 DEF SelectionTypeOK
<1>7. CallIsOpen'
  <2>1. lastScan <= now' /\ (call.pc # "none" => call.begun <= now')
    <3>1. /\ now' = now + 1 /\ lastScan <= now
          /\ call.pc # "none" => call.begun <= now
      BY <1>1, <1>4
    <3>2. QED BY <1>2, <3>1
  <2>2. QED BY <1>1, <1>4, <2>1 DEF CallIsOpen
<1>8. LoopIsTimed'
  BY <1>1, <1>5 DEF LoopIsTimed, Inv
<1>9. WaitIsTimed'
  <2>1. call.pc = "wait" => now' <= call.deadline
    <3>1. now' = now + 1 /\ (call.pc = "wait" => now < call.deadline)
      BY <1>1 DEF Tick, Idle
    <3>2. QED BY <1>2, <3>1
  <2>2. QED BY <1>1, <1>5, <2>1 DEF WaitIsTimed, Inv
<1>10. ChosenIsKnown' /\ ReadsAreAnswered' /\ KnowledgeIsRecent'
  BY <1>1 DEF Inv, ChosenIsKnown, ReadsAreAnswered, KnowledgeIsRecent, DescriptionIsRecent, FailureIsTried
<1>11. QED BY <1>6, <1>7, <1>8, <1>9, <1>10 DEF Inv

LEMMA InvalidateKeepsInv ==
    ASSUME Inv, NEW s \in DOMAIN td.servers, Invalidate(s)
    PROVE  Inv'
<1>1. /\ Forgets(td, s, td')
      /\ UNCHANGED <<client, lastScan, stale, now, call>>
      /\ call.pc \in {"none", "done"}
  BY DEF Invalidate, Idle, Forgets
<1>2. IsDescription(td) /\ now \in Nat /\ lastScan \in Nat /\ stale \in BOOLEAN /\ call.prefs \in Prefs
  BY CallsAreTyped
<1>3. /\ IsDescription(td') /\ DOMAIN td'.servers = DOMAIN td.servers
      /\ td.type # "Unknown" => td'.type # "Unknown"
      /\ \A p, r : r \in DOMAIN td.servers /\ td.type # "Unknown" /\ AnsweredFrom(td, p, r)
                   => AnsweredFrom(td', p, r)
  <2>1. PICK e : e = td'
    OBVIOUS
  <2>2. Forgets(td, s, e)
    BY <1>1, <2>1
  <2>3. /\ IsDescription(e) /\ DOMAIN e.servers = DOMAIN td.servers
        /\ td.type # "Unknown" => e.type # "Unknown"
        /\ \A p, r : r \in DOMAIN td.servers /\ td.type # "Unknown" /\ AnsweredFrom(td, p, r)
                     => AnsweredFrom(e, p, r)
    BY <1>2, <2>2, ForgottenIsDescription
  <2>4. QED BY <2>1, <2>3
<1>4. SelectionTypeOK'
  BY <1>1, <1>2, <1>3 DEF SelectionTypeOK, Inv
<1>5. CallIsOpen' /\ LoopIsTimed' /\ WaitIsTimed' /\ KnowledgeIsRecent'
  BY <1>1 DEF Inv, CallIsOpen, LoopIsTimed, WaitIsTimed, KnowledgeIsRecent, DescriptionIsRecent, FailureIsTried
<1>6. ChosenIsKnown'
  BY <1>1, <1>3 DEF Inv, ChosenIsKnown
<1>7. ReadsAreAnswered'
  <2>1. SUFFICES ASSUME call.pc = "done", call.result # None, call.op = "read",
                        call.result \in DOMAIN td.servers
                 PROVE  AnsweredFrom(td', call.prefs, call.result)
    BY <1>1, <1>3 DEF ReadsAreAnswered, AnsweredFrom
  <2>2. td.type # "Unknown" /\ AnsweredFrom(td, call.prefs, call.result)
    BY <2>1 DEF Inv, ChosenIsKnown, ReadsAreAnswered, AnsweredFrom
  <2>3. QED BY <1>3, <2>1, <2>2
<1>8. QED BY <1>4, <1>5, <1>6, <1>7 DEF Inv

LEMMA StutterKeepsInv == Inv /\ UNCHANGED vars => Inv'
<1> SUFFICES ASSUME Inv, UNCHANGED vars PROVE Inv'
  OBVIOUS
<1>1. UNCHANGED <<client, td, lastScan, stale, now, call>>
  BY DEF vars
<1>2. SelectionTypeOK' /\ CallIsOpen' /\ LoopIsTimed' /\ WaitIsTimed'
  BY <1>1 DEF Inv, SelectionTypeOK, CallIsOpen, LoopIsTimed, WaitIsTimed
<1>3. ChosenIsKnown' /\ ReadsAreAnswered' /\ KnowledgeIsRecent'
  BY <1>1 DEF Inv, ChosenIsKnown, ReadsAreAnswered, KnowledgeIsRecent, DescriptionIsRecent, FailureIsTried
<1>4. QED BY <1>2, <1>3 DEF Inv

LEMMA NextKeepsInv == Inv /\ [Next]_vars => Inv'
<1> SUFFICES ASSUME Inv, [Next]_vars PROVE Inv'
  OBVIOUS
<1>1. CASE \E p \in Prefs : Begin("read", p)
  BY <1>1, BeginKeepsInv
<1>2. CASE Begin("write", None)
  BY <1>2, BeginKeepsInv, SelectionAssumption
<1>3. CASE Step
  BY <1>3, GiveUpKeepsInv, ScanKeepsInv, NoScanKeepsInv, ChooseKeepsInv, LockedKeepsInv,
     WakesKeepsInv, TimesOutKeepsInv DEF Step
<1>4. CASE Monitored \/ Tick
  BY <1>4, MonitoredKeepsInv, TickKeepsInv
<1>5. CASE \E s \in DOMAIN td.servers : Invalidate(s)
  BY <1>5, InvalidateKeepsInv
<1>6. CASE UNCHANGED vars
  BY <1>6, StutterKeepsInv
<1>7. QED BY <1>1, <1>2, <1>3, <1>4, <1>5, <1>6 DEF Next

\* The invariant holds of every selection.
THEOREM InvIsInvariant == Spec => []Inv
<1>1. Init => Inv
  BY InitInv
<1>2. Inv /\ [Next]_vars => Inv'
  BY NextKeepsInv
<1>3. QED BY <1>1, <1>2, PTL DEF Spec

-----------------------------------------------------------------------------
(* The properties.                                                         *)

LEMMA InvMeansSound == Inv => SelectionIsSound
<1> SUFFICES ASSUME Inv PROVE SelectionIsSound
  OBVIOUS
<1>1. IsDescription(td) /\ call.prefs \in Prefs /\ call.op \in {"read", "write"}
  BY CallsAreTyped
<1>2. SelectsSuitable
  BY <1>1, SuitableAreRight DEF SelectsSuitable
<1>3. StaleTypeIsHarmless
  BY <1>1, TypesAgree DEF StaleTypeIsHarmless
<1>4. QED BY <1>2, <1>3 DEF SelectionIsSound, Inv

\* mongoc_topology_description_select and the filters of mongoc-topology-description.c: for
\* any servers, preferences and constants, the servers that a selection may choose are
\* those that the server selection specification names; a type of a topology that is out of
\* date changes none of it; and a read goes to a member that answers it as it is sent.
THEOREM SelectionStaysSound == Spec => []SelectionIsSound
BY InvIsInvariant, InvMeansSound, PTL

LEMMA InvMeansUsable == Inv => CaughtUpIsUsable
<1> SUFFICES ASSUME Inv PROVE CaughtUpIsUsable
  OBVIOUS
<1>1. IsDescription(td)
  BY CallsAreTyped
<1>2. QED BY <1>1, CaughtUpAreFresh DEF CaughtUpIsUsable

\* mongoc_topology_compatible's bound on maxStalenessSeconds, for any heartbeat and any
\* servers: a secondary that had all the writes is never filtered out as stale.
THEOREM CaughtUpStaysUsable == Spec => []CaughtUpIsUsable
BY InvIsInvariant, InvMeansUsable, PTL

\* mongoc_topology_select_server_id, single-threaded, with any timeouts: what it decides
\* is decided on a description no older than a heartbeat, and a failure is told only after
\* a scan in that selection.
THEOREM KnowledgeStaysRecent == Spec => []KnowledgeIsRecent
<1>1. Inv => KnowledgeIsRecent
  BY DEF Inv
<1>2. QED BY <1>1, InvIsInvariant, PTL

LEMMA ReturnStep == Inv /\ [Next]_vars => [ReturnsInTime]_vars
<1> SUFFICES ASSUME Inv, Next, ~Idle, Idle'
    PROVE  now' <= IF ~client.singleThreaded THEN call.expireAt + 2 * LockTime
                   ELSE IF client.tryOnce THEN call.begun + MinHeartbeat + ConnectTimeout
                   ELSE call.expireAt + ConnectTimeout
  BY DEF ReturnsInTime
<1>1. /\ now \in Nat /\ LockTime \in Nat /\ call.expireAt \in Nat /\ ConnectTimeout \in Nat
      /\ MinHeartbeat \in Nat /\ call.begun \in Nat /\ call.deadline \in Nat
  BY CallsAreTyped, ConstantsAreTimes
<1>2. call.pc \in {"loop", "select", "lock", "wait", "woken"} /\ call'.pc \in {"none", "done"}
      /\ call \in CallType
  BY DEF Idle, Inv, SelectionTypeOK, CallType
<1>3. CASE GiveUp
  <2>1. client.singleThreaded /\ ~client.tryOnce /\ now <= call.expireAt /\ now' = now
    BY <1>3 DEF GiveUp, Inv, LoopIsTimed, WaitIsTimed
  <2>2. now <= call.expireAt + ConnectTimeout
    BY <1>1, <2>1
  <2>3. QED BY <2>1, <2>2
<1>4. CASE Scan \/ NoScan \/ Monitored
  <2>1. call'.pc \in {"select", "woken", call.pc}
    BY <1>2, <1>4 DEF Scan, NoScan, Monitored, CallType
  <2>2. QED BY <1>2, <2>1
<1>5. CASE Choose
  <2>1. /\ client.singleThreaded /\ now' = now
        /\ now <= IF client.tryOnce THEN call.begun + MinHeartbeat + ConnectTimeout
                  ELSE call.expireAt + ConnectTimeout
    BY <1>5 DEF Choose, Inv, LoopIsTimed, WaitIsTimed
  <2>2. QED BY <2>1
<1>6. CASE Locked \/ Wakes \/ TimesOut
  <2>1. PICK t \in now .. now + LockTime : now' = t
    BY <1>6 DEF Locked, Wakes, TimesOut
  <2>2. ~client.singleThreaded
    BY <1>6 DEF Locked, Wakes, TimesOut, Inv, LoopIsTimed
  <2>3. now <= call.expireAt \/ now <= call.expireAt + LockTime
        \/ (now <= call.deadline /\ call.deadline <= call.expireAt + LockTime)
    BY <1>6, <2>2 DEF Locked, Wakes, TimesOut, Inv, WaitIsTimed
  <2>4. now' <= call.expireAt + 2 * LockTime
    BY <1>1, <2>1, <2>3
  <2>5. QED BY <2>2, <2>4
<1>7. CASE Tick
  BY <1>2, <1>7 DEF Tick
<1>8. QED BY <1>3, <1>4, <1>5, <1>6, <1>7 DEF Next, Step, Begin, Invalidate

LEMMA SpaceStep == Inv /\ [Next]_vars => [ScansAreSpaced]_vars
<1> SUFFICES ASSUME Inv, Next, stale, ~stale' PROVE lastScan' >= lastScan + MinHeartbeat
  BY DEF ScansAreSpaced
<1>1. CASE Scan
  BY <1>1, ScanIsTimed
<1>2. CASE \E op \in {"read", "write"}, p \in Prefs : Begin(op, p)
  BY <1>2 DEF Begin
<1>3. CASE Choose
  BY <1>3 DEF Choose
<1>4. CASE GiveUp \/ NoScan \/ Locked \/ Wakes \/ TimesOut \/ Monitored \/ Tick
  BY <1>4 DEF GiveUp, NoScan, Locked, Wakes, TimesOut, Monitored, Tick
<1>5. CASE \E s \in DOMAIN td.servers : Invalidate(s)
  BY <1>5 DEF Invalidate
<1>6. QED BY <1>1, <1>2, <1>3, <1>4, <1>5, SelectionAssumption DEF Next, Step

\* mongoc_topology_select_server_id, for any timeouts: a selection that returns does so by
\* its deadline and what a scan or the mutex can take beyond it, and the scans of a
\* single-threaded client keep minHeartbeatFrequencyMS.
THEOREM TimeIsKept == Spec => [][ReturnsInTime /\ ScansAreSpaced]_vars
<1>1. Inv /\ [Next]_vars => [ReturnsInTime /\ ScansAreSpaced]_vars
  BY ReturnStep, SpaceStep
<1>2. QED BY <1>1, InvIsInvariant, PTL DEF Spec
=============================================================================
