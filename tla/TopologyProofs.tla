---------------------------- MODULE TopologyProofs ----------------------------
(***************************************************************************)
(* The promises of TopologyDescriptionProps about the picture of a         *)
(* deployment hold for any hosts, replies and URIs, and the scanner's      *)
(* nodes, commands and streams stay matched with each other and with the   *)
(* servers of the picture, in a scan and between scans.                    *)
(***************************************************************************)
EXTENDS TopologyProps, TopologyDescriptionProps, FiniteSetTheorems, FunctionTheorems,
        SequenceTheorems, WellFoundedInduction, TLAPS

(***************************************************************************)
(* The picture.  Its invariants lean on one another, so they are proved    *)
(* as one inductive invariant, one step per handler.                       *)
(***************************************************************************)

\* The inductive invariant: the promises about one picture of a deployment.
Inv ==
    /\ TypeOK
    /\ AddressesAreUnique
    /\ SingleHasOneServer
    /\ ServersFitTopology
    /\ AtMostOnePrimary
    /\ MembersShareSetName
    /\ PrimaryHoldsMaxElection
    /\ PrimaryListsEveryServer

RsMemberTypes == {"RSPrimary", "RSSecondary", "RSArbiter", "RSOther"}

-----------------------------------------------------------------------------
\* A reply never makes a possible primary, and makes a member of a replica set
\* only if it names the set.
LEMMA ReplyServerTypes ==
    ASSUME NEW r \in Reply \cup {None}
    PROVE  /\ ReplyServerType(r) \in ServerType \ {"PossiblePrimary"}
           /\ ReplyServerType(r) \in RsMemberTypes =>
                 /\ r \in Reply
                 /\ r.setName \in SetName
<1>1. r \in Reply => r \in ReplyType /\ r # None
  BY ReplyAssumption
<1>2. QED BY <1>1 DEF ReplyServerType, ServerType, RsMemberTypes, ReplyType

\* What a reply leaves in the description of the server that sent it.
LEMMA ParsedDescription ==
    ASSUME NEW sd \in ServerDescription, NEW r \in Reply \cup {None}
    PROVE  /\ ServerHandleIsmaster(sd, r) \in ServerDescription
           /\ ServerHandleIsmaster(sd, r).address = sd.address
           /\ ServerHandleIsmaster(sd, r).type = ReplyServerType(r)
           /\ ServerHandleIsmaster(sd, r).lastIsMaster = r
           /\ ServerHandleIsmaster(sd, r).setVersion \in Nat
           /\ ServerHandleIsmaster(sd, r).electionId \in Nat
<1>1. r \in Reply => r \in ReplyType /\ r # None
  BY ReplyAssumption
<1>2. ReplyServerType(r) \in ServerType
  BY ReplyServerTypes
<1>3. QED BY <1>1, <1>2 DEF ServerHandleIsmaster, ServerDescription, ReplyType, NoSetVersion

\* The fields of a topology description once reply r of server id is parsed.
LEMMA ParsedTopology ==
    ASSUME TypeOK, NEW id \in DOMAIN td.servers, NEW r \in Reply \cup {None}
    PROVE  LET t == Parse(td, id, r)
           IN /\ t = [type |-> td.type, servers |-> t.servers, setName |-> td.setName,
                      maxSetVersion |-> td.maxSetVersion, maxElectionId |-> td.maxElectionId,
                      maxServerId |-> td.maxServerId]
              /\ t.servers \in [DOMAIN td.servers -> ServerDescription]
              /\ \A i \in DOMAIN td.servers : i # id => t.servers[i] = td.servers[i]
              /\ t.servers[id] = ServerHandleIsmaster(td.servers[id], r)
<1>1. ServerHandleIsmaster(td.servers[id], r) \in ServerDescription
  BY ParsedDescription DEF TypeOK
<1>2. QED BY <1>1 DEF Parse, TypeOK

\* A description made by mongoc_server_description_init.
LEMMA InitialDescription ==
    ASSUME NEW a \in Address
    PROVE  /\ ServerInit(a) \in ServerDescription
           /\ ServerInit(a).address = a
           /\ ServerInit(a).type = "Unknown"
BY DEF ServerInit, ServerDescription, ServerType, NoSetVersion



-----------------------------------------------------------------------------
\* Taking one server away keeps every promise, under the type the topology has,
\* the one that its primaries call for, or RSNoPrimary if it had not found out.
LEMMA RemovalKeepsInv ==
    ASSUME Inv, NEW id \in DOMAIN td.servers, NEW type,
           td' = [type |-> type, servers |-> [i \in DOMAIN td.servers \ {id} |-> td.servers[i]],
                  setName |-> td.setName, maxSetVersion |-> td.maxSetVersion,
                  maxElectionId |-> td.maxElectionId, maxServerId |-> td.maxServerId],
           \/ type = td.type /\ td.type # "Single"
           \/ td.type \in {"RSNoPrimary", "RSWithPrimary"}
                /\ type = IF HasPrimary(td') THEN "RSWithPrimary" ELSE "RSNoPrimary"
           \/ td.type = "Unknown" /\ type = "RSNoPrimary"
    PROVE  Inv'
<1> DEFINE rest == [i \in DOMAIN td.servers \ {id} |-> td.servers[i]]
<1>1. /\ td'.type = type
      /\ td'.servers = rest
      /\ td'.setName = td.setName
      /\ td'.maxSetVersion = td.maxSetVersion
      /\ td'.maxElectionId = td.maxElectionId
      /\ td'.maxServerId = td.maxServerId
  OBVIOUS
<1>2. /\ DOMAIN td'.servers = DOMAIN td.servers \ {id}
      /\ \A i \in DOMAIN td'.servers : td'.servers[i] = td.servers[i]
  BY <1>1
<1>3. type \in TopologyType
  BY DEF Inv, TypeOK, TopologyType
<1>4. HasPrimary(td') <=> \E i \in DOMAIN td'.servers :
                              td.servers[i].type \in {"RSPrimary", "Standalone"}
  BY <1>2 DEF HasPrimary
<1> HIDE DEF rest
<1>5. td.type = "RSNoPrimary" => type = "RSNoPrimary"
  BY <1>2, <1>4 DEF Inv, ServersFitTopology
<1>6. TypeOK'
  <2>1. td'.servers \in [DOMAIN td'.servers -> ServerDescription]
    BY <1>1 DEF Inv, TypeOK, rest
  <2>2. QED BY <2>1, <1>1, <1>2, <1>3 DEF Inv, TypeOK
<1>7. AddressesAreUnique'
  BY <1>2 DEF Inv, AddressesAreUnique
<1>8. SingleHasOneServer'
  BY <1>1 DEF SingleHasOneServer
<1>9. ServersFitTopology'
  BY <1>1, <1>2, <1>4, <1>5 DEF Inv, ServersFitTopology, TypeOK, TopologyType
<1>10. AtMostOnePrimary'
  BY <1>2 DEF Inv, AtMostOnePrimary, IsPrimary
<1>11. MembersShareSetName'
  BY <1>1, <1>2, <1>5 DEF Inv, MembersShareSetName, IsReplicaSet, ServersFitTopology
<1>12. PrimaryHoldsMaxElection'
  BY <1>1, <1>2 DEF Inv, PrimaryHoldsMaxElection, IsReplicaSet, IsPrimary, ServersFitTopology
<1>13. PrimaryListsEveryServer'
  BY <1>1, <1>2 DEF Inv, PrimaryListsEveryServer, IsReplicaSet, IsPrimary, ServersFitTopology
<1>14. QED BY <1>6, <1>7, <1>8, <1>9, <1>10, <1>11, <1>12, <1>13 DEF Inv

\* The description sd suits a topology that takes this type and set name.
FitsAs(sd, type, setName) ==
    \/ /\ td.type = "Single"
       /\ type = "Single"
    \/ /\ td.type = "Unknown"
       /\ type = "Unknown"
       /\ sd.type \in {"Unknown", "RSGhost"}
    \/ /\ td.type \in {"Unknown", "Sharded"}
       /\ type = "Sharded"
       /\ sd.type \in {"Unknown", "Mongos"}
    \/ /\ td.type \in {"Unknown", "RSNoPrimary", "RSWithPrimary"}
       /\ sd.type \in {"Unknown", "RSGhost", "RSSecondary", "RSArbiter", "RSOther"}
       /\ sd.type \in RsMemberTypes => setName # None /\ SetNameOf(sd) = setName
       /\ \/ type = td.type /\ td.type # "Unknown"
          \/ type = IF HasPrimary(td') THEN "RSWithPrimary" ELSE "RSNoPrimary"

\* A new description of server id that is not that of a primary keeps every
\* promise, if it fits the type the topology has or takes.
LEMMA UpdateKeepsInv ==
    ASSUME Inv, NEW id \in DOMAIN td.servers, NEW sd \in ServerDescription,
           NEW type, NEW setName,
           td' = [type |-> type, servers |-> [td.servers EXCEPT ![id] = sd],
                  setName |-> setName, maxSetVersion |-> td.maxSetVersion,
                  maxElectionId |-> td.maxElectionId, maxServerId |-> td.maxServerId],
           sd.address = td.servers[id].address,
           setName = td.setName \/ (td.setName = None /\ setName \in SetName),
           FitsAs(sd, type, setName)
    PROVE  Inv'
<1> DEFINE servers == [td.servers EXCEPT ![id] = sd]
<1>1. /\ td'.type = type
      /\ td'.servers = servers
      /\ td'.setName = setName
      /\ td'.maxSetVersion = td.maxSetVersion
      /\ td'.maxElectionId = td.maxElectionId
      /\ td'.maxServerId = td.maxServerId
  OBVIOUS
<1>2. /\ DOMAIN td'.servers = DOMAIN td.servers
      /\ \A i \in DOMAIN td'.servers : i # id => td'.servers[i] = td.servers[i]
      /\ td'.servers[id] = sd
  BY <1>1
<1>3. type \in TopologyType
  BY DEF Inv, TypeOK, TopologyType, FitsAs
<1>4. HasPrimary(td') <=> \E i \in DOMAIN td'.servers :
                              td'.servers[i].type \in {"RSPrimary", "Standalone"}
  BY DEF HasPrimary
<1>5. td.type = "RSNoPrimary" => type = "RSNoPrimary"
  BY <1>2, <1>4 DEF Inv, ServersFitTopology, FitsAs
<1>6. TypeOK'
  <2>1. td'.servers \in [DOMAIN td'.servers -> ServerDescription]
    BY <1>1 DEF Inv, TypeOK
  <2>2. QED BY <2>1, <1>1, <1>2, <1>3 DEF Inv, TypeOK
<1> HIDE DEF servers
<1>7. AddressesAreUnique'
  BY <1>2 DEF Inv, AddressesAreUnique
<1>8. SingleHasOneServer'
  BY <1>1, <1>2 DEF Inv, SingleHasOneServer, FitsAs
<1>9. ServersFitTopology'
  BY <1>1, <1>2, <1>4, <1>5 DEF Inv, ServersFitTopology, TypeOK, TopologyType, FitsAs
<1>10. AtMostOnePrimary'
  BY <1>1, <1>2 DEF Inv, AtMostOnePrimary, IsPrimary, SingleHasOneServer, FitsAs
<1>11. MembersShareSetName'
  BY <1>1, <1>2, <1>4, <1>5 DEF Inv, MembersShareSetName, IsReplicaSet, ServersFitTopology, FitsAs, RsMemberTypes
<1>12. PrimaryHoldsMaxElection'
  BY <1>1, <1>2 DEF Inv, PrimaryHoldsMaxElection, IsReplicaSet, IsPrimary, FitsAs,
            ServersFitTopology
<1>13. PrimaryListsEveryServer'
  BY <1>1, <1>2 DEF Inv, PrimaryListsEveryServer, IsReplicaSet, IsPrimary, FitsAs,
            ServersFitTopology
<1>14. QED BY <1>6, <1>7, <1>8, <1>9, <1>10, <1>11, <1>12, <1>13 DEF Inv

-----------------------------------------------------------------------------
\* The ids given to new servers are the next ones, each to another new address.
LEMMA NewServerIds ==
    ASSUME TypeOK, NEW addrs \in SUBSET Address, NEW new \in NewServers(td, addrs)
    PROVE  /\ Cardinality(DOMAIN new) \in Nat
           /\ DOMAIN new = (td.maxServerId + 1) .. (td.maxServerId + Cardinality(DOMAIN new))
           /\ \A i \in DOMAIN new : new[i] \in addrs /\ new[i] \notin Addresses(td)
           /\ \A i, j \in DOMAIN new : new[i] = new[j] => i = j
<1> DEFINE fresh == addrs \ Addresses(td)
<1>1. Cardinality(fresh) \in Nat
  BY FS_Subset, FS_CardinalityType, AddressAssumption
<1>2. /\ new \in [(td.maxServerId + 1) .. (td.maxServerId + Cardinality(fresh)) -> fresh]
      /\ \A i, j \in DOMAIN new : new[i] = new[j] => i = j
  BY DEF NewServers
<1> HIDE DEF fresh
<1>3. DOMAIN new = (td.maxServerId + 1) .. (td.maxServerId + Cardinality(fresh))
  BY <1>2
<1>4. Cardinality(DOMAIN new) = Cardinality(fresh)
  <2> DEFINE a == td.maxServerId + 1
             b == td.maxServerId + Cardinality(fresh)
  <2>1. a \in Int /\ b \in Int /\ b - a + 1 = Cardinality(fresh) /\ b - a + 1 \in Nat
    BY <1>1 DEF TypeOK
  <2>2. DOMAIN new = a .. b
    BY <1>3
  <2> HIDE DEF a, b
  <2>3. Cardinality(a .. b) = IF a > b THEN 0 ELSE b - a + 1
    BY <2>1, FS_Interval
  <2>4. QED BY <2>1, <2>2, <2>3
<1>5. \A i \in DOMAIN new : new[i] \in addrs /\ new[i] \notin Addresses(td)
  BY <1>2 DEF fresh
<1>6. QED BY <1>1, <1>2, <1>3, <1>4, <1>5

\* What a step that may have added servers, and dropped others, leaves: hosts
\* and ids as they were or new.
GrownFrom(new) ==
    /\ DOMAIN td'.servers \subseteq DOMAIN td.servers \cup DOMAIN new
    /\ td'.servers \in [DOMAIN td'.servers -> ServerDescription]
    /\ \A i \in DOMAIN td'.servers :
          td'.servers[i].address =
             IF i \in DOMAIN new THEN new[i] ELSE td.servers[i].address
    /\ td'.maxServerId = td.maxServerId + Cardinality(DOMAIN new)

\* Such a step keeps the hosts apart and the ids below the maximum.
LEMMA GrowthKeepsAddresses ==
    ASSUME Inv, NEW addrs \in SUBSET Address, NEW new \in NewServers(td, addrs),
           GrownFrom(new)
    PROVE  /\ DOMAIN td'.servers \subseteq 1 .. td'.maxServerId
           /\ td'.maxServerId \in Nat
           /\ AddressesAreUnique'
           /\ td'.maxServerId >= td.maxServerId
           /\ \A i \in DOMAIN td'.servers :
                 IF i \in DOMAIN td.servers
                 THEN td'.servers[i].address = td.servers[i].address
                 ELSE i > td.maxServerId
<1>1. TypeOK /\ AddressesAreUnique
  BY DEF Inv
<1>2. /\ Cardinality(DOMAIN new) \in Nat
      /\ DOMAIN new = (td.maxServerId + 1) .. (td.maxServerId + Cardinality(DOMAIN new))
      /\ \A i \in DOMAIN new : new[i] \in addrs /\ new[i] \notin Addresses(td)
      /\ \A i, j \in DOMAIN new : new[i] = new[j] => i = j
  BY <1>1, NewServerIds
<1>3. DOMAIN td.servers \subseteq 1 .. td.maxServerId /\ td.maxServerId \in Nat
  BY <1>1 DEF TypeOK
<1>4. DOMAIN td.servers \cap DOMAIN new = {}
  BY <1>2, <1>3
<1>5. DOMAIN td'.servers \subseteq 1 .. td'.maxServerId /\ td'.maxServerId \in Nat
  BY <1>2, <1>3 DEF GrownFrom
<1>6. AddressesAreUnique'
  <2> SUFFICES ASSUME NEW i \in DOMAIN td'.servers, NEW j \in DOMAIN td'.servers,
                      td'.servers[i].address = td'.servers[j].address
               PROVE  i = j
    BY DEF AddressesAreUnique
  <2>1. CASE i \in DOMAIN new /\ j \in DOMAIN new
    BY <2>1, <1>2 DEF GrownFrom
  <2>2. CASE i \in DOMAIN new /\ j \in DOMAIN td.servers
    BY <2>2, <1>2, <1>4 DEF GrownFrom, Addresses
  <2>3. CASE i \in DOMAIN td.servers /\ j \in DOMAIN new
    BY <2>3, <1>2, <1>4 DEF GrownFrom, Addresses
  <2>4. CASE i \in DOMAIN td.servers /\ j \in DOMAIN td.servers
    BY <2>4, <1>1, <1>4 DEF GrownFrom, AddressesAreUnique
  <2>5. QED BY <2>1, <2>2, <2>3, <2>4 DEF GrownFrom
<1>7. \A i \in DOMAIN td'.servers :
         IF i \in DOMAIN td.servers THEN td'.servers[i].address = td.servers[i].address
         ELSE i > td.maxServerId
  BY <1>2, <1>3, <1>4 DEF GrownFrom
<1>8. td'.maxServerId >= td.maxServerId
  BY <1>2, <1>3 DEF GrownFrom
<1>9. QED BY <1>5, <1>6, <1>7, <1>8

\* A replica set in which no server is primary keeps every promise while its
\* members make servers known and others are labelled or dropped.
LEMMA DiscoveryKeepsInv ==
    ASSUME Inv, NEW addrs \in SUBSET Address, NEW new \in NewServers(td, addrs),
           GrownFrom(new),
           td' = [type |-> "RSNoPrimary", servers |-> td'.servers, setName |-> td'.setName,
                  maxSetVersion |-> td.maxSetVersion, maxElectionId |-> td.maxElectionId,
                  maxServerId |-> td'.maxServerId],
           td'.setName \in SetName \cup {None},
           \A i \in DOMAIN td'.servers :
              /\ td'.servers[i].type \notin {"Standalone", "Mongos", "RSPrimary"}
              /\ td'.servers[i].type \in RsMemberTypes =>
                    td'.setName # None /\ SetNameOf(td'.servers[i]) = td'.setName
    PROVE  Inv'
<1>1. /\ td'.type = "RSNoPrimary"
      /\ td'.maxSetVersion = td.maxSetVersion
      /\ td'.maxElectionId = td.maxElectionId
  OBVIOUS
<1>2. /\ DOMAIN td'.servers \subseteq 1 .. td'.maxServerId
      /\ td'.maxServerId \in Nat
      /\ AddressesAreUnique'
  BY GrowthKeepsAddresses
<1>3. TypeOK'
  BY <1>1, <1>2 DEF Inv, TypeOK, TopologyType, GrownFrom
<1>4. SingleHasOneServer'
  BY <1>1 DEF SingleHasOneServer
<1>5. ServersFitTopology'
  BY <1>1 DEF ServersFitTopology
<1>6. AtMostOnePrimary' /\ PrimaryHoldsMaxElection' /\ PrimaryListsEveryServer'
  BY DEF AtMostOnePrimary, PrimaryHoldsMaxElection, PrimaryListsEveryServer, IsPrimary
<1>7. MembersShareSetName'
  BY <1>1 DEF MembersShareSetName, RsMemberTypes
<1>8. QED BY <1>2, <1>3, <1>4, <1>5, <1>6, <1>7 DEF Inv

\* What a step leaves that believes server id, described by sd, to be the
\* primary: every other primary was demoted and every stranger removed.
LedBy(id, sd) ==
    /\ AddressesAreUnique'
    /\ td'.servers \in [DOMAIN td'.servers -> ServerDescription]
    /\ DOMAIN td'.servers \subseteq 1 .. td'.maxServerId
    /\ td' = [type |-> IF HasPrimary(td') THEN "RSWithPrimary" ELSE "RSNoPrimary",
              servers |-> td'.servers, setName |-> td'.setName,
              maxSetVersion |-> td'.maxSetVersion, maxElectionId |-> td'.maxElectionId,
              maxServerId |-> td'.maxServerId]
    /\ td'.maxServerId \in Nat
    /\ td'.maxSetVersion \in Nat
    /\ td'.maxElectionId \in Nat
    /\ td'.setName \in SetName
    /\ sd.type = "RSPrimary"
    /\ SetNameOf(sd) = td'.setName
    /\ HasElectionId(sd) => /\ sd.setVersion = td'.maxSetVersion
                            /\ sd.electionId = td'.maxElectionId
    /\ \A i \in DOMAIN td'.servers :
          /\ td'.servers[i].address \in ServerMembers(sd)
          /\ i = id => td'.servers[i] = sd
          /\ i # id => /\ td'.servers[i].type \notin {"Standalone", "Mongos", "RSPrimary"}
                       /\ td'.servers[i].type \in RsMemberTypes =>
                             SetNameOf(td'.servers[i]) = td'.setName

\* Such a step keeps the promises.
LEMMA PrimaryKeepsInv ==
    ASSUME NEW id, NEW sd, LedBy(id, sd) PROVE  Inv'
<1>1. /\ td'.type \in {"RSNoPrimary", "RSWithPrimary"}
      /\ td'.type = "RSWithPrimary" <=> HasPrimary(td')
  BY DEF LedBy
<1>2. AddressesAreUnique'
  BY DEF LedBy
<1>3. TypeOK'
  BY <1>1 DEF LedBy, TypeOK, TopologyType
<1>4. SingleHasOneServer'
  BY <1>1 DEF SingleHasOneServer
<1>5. ServersFitTopology'
  BY <1>1 DEF LedBy, ServersFitTopology, HasPrimary
<1>6. AtMostOnePrimary'
  BY DEF LedBy, AtMostOnePrimary, IsPrimary
<1>7. PrimaryHoldsMaxElection'
  BY DEF LedBy, PrimaryHoldsMaxElection, IsPrimary
<1>8. PrimaryListsEveryServer'
  BY DEF LedBy, PrimaryListsEveryServer, IsPrimary
<1>9. MembersShareSetName'
  BY <1>1, SetNameAssumption DEF LedBy, MembersShareSetName, RsMemberTypes
<1>10. QED BY <1>2, <1>3, <1>4, <1>5, <1>6, <1>7, <1>8, <1>9 DEF Inv

-----------------------------------------------------------------------------
\* Ids given from 1 up to n are n ids.
LEMMA CardinalityUpTo ==
    ASSUME NEW n \in Nat PROVE Cardinality(1 .. n) = n
<1>1. 1 \in Int /\ n \in Int
  OBVIOUS
<1>2. Cardinality(1 .. n) = IF 1 > n THEN 0 ELSE n - 1 + 1
  BY <1>1, FS_Interval
<1>3. QED BY <1>2

\* The initial states: seeds of unknown type, one of them in direct connection.
LEMMA InitInv == Init => Inv
<1> SUFFICES ASSUME NEW s \in Seeding, td \in TopologyOf(s)
             PROVE  Inv
  BY DEF Init
<1> DEFINE n == Cardinality(s.hosts)
<1>1. /\ s.hosts \subseteq Address /\ s.hosts # {}
      /\ s.length \in Nat /\ s.length >= n
      /\ s.replicaSet \in SetName \cup {None}
  <2>1. s \in SeedingType
    BY SeedingAssumption
  <2>2. QED BY <2>1, SeedingAssumption DEF SeedingType
<1>2. n \in Nat
  <2>1. IsFiniteSet(s.hosts)
    BY <1>1, AddressAssumption, FS_Subset
  <2>2. QED BY <2>1, FS_CardinalityType
<1>3. PICK g \in [1 .. n -> s.hosts] :
         /\ \A i, j \in DOMAIN g : g[i] = g[j] => i = j
         /\ \A a \in s.hosts : \E i \in DOMAIN g : g[i] = a
         /\ td = [type |-> IF s.replicaSet # None THEN "RSNoPrimary"
                           ELSE IF s.length > 1 THEN "Unknown" ELSE "Single",
                  servers |-> [i \in DOMAIN g |-> ServerInit(g[i])],
                  setName |-> s.replicaSet, maxSetVersion |-> NoSetVersion,
                  maxElectionId |-> 0, maxServerId |-> Cardinality(DOMAIN g)]
  BY DEF TopologyOf
<1>4. DOMAIN g = 1 .. n
  BY <1>3
<1>5. Cardinality(DOMAIN g) = n
  BY <1>2, <1>4, CardinalityUpTo
<1>6. /\ td.type = IF s.replicaSet # None THEN "RSNoPrimary"
                   ELSE IF s.length > 1 THEN "Unknown" ELSE "Single"
      /\ td.servers = [i \in 1 .. n |-> ServerInit(g[i])]
      /\ td.setName = s.replicaSet
      /\ td.maxSetVersion = NoSetVersion
      /\ td.maxElectionId = 0
      /\ td.maxServerId = n
  BY <1>3, <1>4, <1>5
<1>7. \A i \in DOMAIN td.servers :
         /\ td.servers[i] \in ServerDescription
         /\ td.servers[i].address = g[i]
         /\ td.servers[i].type = "Unknown"
  BY <1>1, <1>3, <1>6, InitialDescription
<1>8. TypeOK
  <2>1. td.servers \in [DOMAIN td.servers -> ServerDescription]
    BY <1>6, <1>7
  <2>2. QED BY <1>1, <1>2, <1>3, <1>5, <1>6, <2>1 DEF TypeOK, TopologyType, NoSetVersion
<1>9. AddressesAreUnique
  BY <1>3, <1>4, <1>6, <1>7 DEF AddressesAreUnique
<1>10. SingleHasOneServer
  <2> SUFFICES ASSUME td.type = "Single" PROVE DOMAIN td.servers = {1}
    BY DEF SingleHasOneServer
  <2>1. n <= 1
    BY <1>1, <1>2, <1>6
  <2>2. n # 0
    BY <1>1, <1>3, <1>4
  <2>3. n = 1
    BY <1>2, <2>1, <2>2
  <2>4. QED BY <1>6, <2>3
<1>11. ServersFitTopology
  BY <1>7 DEF ServersFitTopology
<1>12. AtMostOnePrimary /\ PrimaryHoldsMaxElection /\ PrimaryListsEveryServer
  BY <1>7 DEF AtMostOnePrimary, PrimaryHoldsMaxElection, PrimaryListsEveryServer, IsPrimary
<1>13. MembersShareSetName
  BY <1>6, <1>7 DEF MembersShareSetName
<1>14. QED BY <1>8, <1>9, <1>10, <1>11, <1>12, <1>13 DEF Inv

-----------------------------------------------------------------------------
\* The rows of the transition table, read by handler: what a server's type and
\* the topology's type are when handler h is selected.
RowHolds(h, type, topology) ==
    /\ h = "None" =>
          \/ topology = "Single"
          \/ topology = "Sharded" /\ type \in {"Unknown", "Mongos"}
          \/ topology \in {"Unknown", "RSNoPrimary"} /\ type \in {"Unknown", "RSGhost"}
    /\ h = "CheckIfHasPrimary" => topology = "RSWithPrimary" /\ type \in {"Unknown", "RSGhost"}
    /\ h = "UpdateUnknownWithStandalone" => topology = "Unknown" /\ type = "Standalone"
    /\ h = "RemoveServer" => topology \in {"Sharded", "RSNoPrimary"}
    /\ h = "RemoveAndCheckPrimary" => topology = "RSWithPrimary"
    /\ h = "SetTopologyTypeToSharded" => topology = "Unknown" /\ type = "Mongos"
    /\ h = "UpdateRsFromPrimary" =>
          type = "RSPrimary" /\ topology \in {"Unknown", "RSNoPrimary", "RSWithPrimary"}
    /\ h \in {"TransitionUnknownToRsNoPrimary", "UpdateRsWithoutPrimary"} =>
          /\ type \in {"RSSecondary", "RSArbiter", "RSOther"}
          /\ topology \in {"Unknown", "RSNoPrimary"}
    /\ h = "UpdateRsWithPrimaryFromMember" =>
          type \in {"RSSecondary", "RSArbiter", "RSOther"} /\ topology = "RSWithPrimary"

LEMMA TransitionTableRows ==
    ASSUME TypeOK, NEW id, NEW r \in Reply \cup {None}, NEW h, Handles(h, id, r)
    PROVE  RowHolds(h, ReplyServerType(r), td.type)
<1>1. ReplyServerType(r) \in ServerType \ {"PossiblePrimary"}
  BY ReplyServerTypes
<1>2. td.type \in TopologyType
  BY DEF TypeOK
<1>3. SDAMTransitionTable[ReplyServerType(r)][td.type] = h
  BY DEF Handles
<1>4. \A S \in ServerType \ {"PossiblePrimary"}, T \in TopologyType :
         RowHolds(SDAMTransitionTable[S][T], S, T)
  <2> SUFFICES ASSUME NEW S \in ServerType \ {"PossiblePrimary"}, NEW T \in TopologyType
               PROVE  RowHolds(SDAMTransitionTable[S][T], S, T)
    OBVIOUS
  <2>1. CASE S = "Unknown"
    BY <2>1 DEF RowHolds, SDAMTransitionTable, TopologyType
  <2>2. CASE S = "Standalone"
    BY <2>2 DEF RowHolds, SDAMTransitionTable, TopologyType
  <2>3. CASE S = "Mongos"
    BY <2>3 DEF RowHolds, SDAMTransitionTable, TopologyType
  <2>4. CASE S = "RSPrimary"
    BY <2>4 DEF RowHolds, SDAMTransitionTable, TopologyType
  <2>5. CASE S \in {"RSSecondary", "RSArbiter", "RSOther"}
    <3>1. SDAMTransitionTable[S] = RsMemberRow
      BY <2>5 DEF SDAMTransitionTable
    <3>2. QED BY <2>5, <3>1 DEF RowHolds, RsMemberRow, TopologyType
  <2>6. CASE S = "RSGhost"
    BY <2>6 DEF RowHolds, SDAMTransitionTable, TopologyType
  <2>7. QED BY <2>1, <2>2, <2>3, <2>4, <2>5, <2>6 DEF ServerType
<1>5. QED BY <1>1, <1>2, <1>3, <1>4

\* One description replaced, nothing else: the outcome of the handlers that
\* only note what a server answered.
LEMMA NotedReplyKeepsInv ==
    ASSUME Inv, NEW id \in DOMAIN td.servers, NEW r \in Reply \cup {None}, NEW type,
           td' = [Parse(td, id, r) EXCEPT !.type = type],
           FitsAs(ServerHandleIsmaster(td.servers[id], r), type, td.setName)
    PROVE  Inv'
<1> DEFINE sd == ServerHandleIsmaster(td.servers[id], r)
<1>1. TypeOK /\ td.servers[id] \in ServerDescription
  BY DEF Inv, TypeOK
<1>2. sd \in ServerDescription /\ sd.address = td.servers[id].address
  BY <1>1, ParsedDescription
<1>3. td' = [type |-> type, servers |-> [td.servers EXCEPT ![id] = sd],
             setName |-> td.setName, maxSetVersion |-> td.maxSetVersion,
             maxElectionId |-> td.maxElectionId, maxServerId |-> td.maxServerId]
  BY <1>1 DEF Parse, TypeOK
<1>4. FitsAs(sd, type, td.setName)
  OBVIOUS
<1> HIDE DEF sd
<1>5. QED BY <1>2, <1>3, <1>4, UpdateKeepsInv

-----------------------------------------------------------------------------
\* One lemma per handler.
LEMMA NoTransitionKeepsInv ==
    ASSUME Inv, NEW id, NEW r \in Reply \cup {None}, NoTransition(id, r) PROVE Inv'
<1> DEFINE sd == ServerHandleIsmaster(td.servers[id], r)
<1>1. TypeOK /\ id \in DOMAIN td.servers /\ Handles("None", id, r)
  BY DEF Inv, NoTransition, Handles
<1>2. td.servers[id] \in ServerDescription
  BY <1>1 DEF TypeOK
<1>3. sd.type = ReplyServerType(r)
  BY <1>2, ParsedDescription
<1>4. FitsAs(sd, td.type, td.setName)
  BY <1>1, <1>3, TransitionTableRows DEF RowHolds, FitsAs, RsMemberTypes
<1>5. td' = [Parse(td, id, r) EXCEPT !.type = td.type]
  BY <1>1 DEF NoTransition, Parse, TypeOK
<1>6. QED BY <1>1, <1>4, <1>5, NotedReplyKeepsInv

LEMMA CheckIfHasPrimaryKeepsInv ==
    ASSUME Inv, NEW id, NEW r \in Reply \cup {None}, CheckIfHasPrimary(id, r) PROVE Inv'
<1> DEFINE sd == ServerHandleIsmaster(td.servers[id], r)
           type == IF HasPrimary(Parse(td, id, r)) THEN "RSWithPrimary" ELSE "RSNoPrimary"
<1>1. TypeOK /\ id \in DOMAIN td.servers /\ Handles("CheckIfHasPrimary", id, r)
  BY DEF Inv, CheckIfHasPrimary, Handles
<1>2. td.servers[id] \in ServerDescription
  BY <1>1 DEF TypeOK
<1>3. sd.type = ReplyServerType(r)
  BY <1>2, ParsedDescription
<1>4. td' = [Parse(td, id, r) EXCEPT !.type = type]
  BY DEF CheckIfHasPrimary, UpdateRsType
<1>5. HasPrimary(td') <=> HasPrimary(Parse(td, id, r))
  BY <1>1, <1>4, ParsedTopology DEF HasPrimary
<1>6. FitsAs(sd, type, td.setName)
  BY <1>1, <1>3, <1>5, TransitionTableRows DEF RowHolds, FitsAs, RsMemberTypes
<1>7. QED BY <1>1, <1>4, <1>6, NotedReplyKeepsInv

LEMMA SetTopologyTypeToShardedKeepsInv ==
    ASSUME Inv, NEW id, NEW r \in Reply \cup {None}, SetTopologyTypeToSharded(id, r)
    PROVE  Inv'
<1> DEFINE sd == ServerHandleIsmaster(td.servers[id], r)
<1>1. TypeOK /\ id \in DOMAIN td.servers /\ Handles("SetTopologyTypeToSharded", id, r)
  BY DEF Inv, SetTopologyTypeToSharded, Handles
<1>2. td.servers[id] \in ServerDescription
  BY <1>1 DEF TypeOK
<1>3. sd.type = ReplyServerType(r)
  BY <1>2, ParsedDescription
<1>4. FitsAs(sd, "Sharded", td.setName)
  BY <1>1, <1>3, TransitionTableRows DEF RowHolds, FitsAs
<1>5. td' = [Parse(td, id, r) EXCEPT !.type = "Sharded"]
  BY DEF SetTopologyTypeToSharded
<1>6. QED BY <1>1, <1>4, <1>5, NotedReplyKeepsInv

\* What is left of the topology when server id is removed after its reply.
LEMMA ParseThenRemove ==
    ASSUME Inv, NEW id \in DOMAIN td.servers, NEW r \in Reply \cup {None}
    PROVE  RemoveServer(Parse(td, id, r), id) =
              [type |-> td.type, servers |-> [i \in DOMAIN td.servers \ {id} |-> td.servers[i]],
               setName |-> td.setName, maxSetVersion |-> td.maxSetVersion,
               maxElectionId |-> td.maxElectionId, maxServerId |-> td.maxServerId]
<1>1. TypeOK
  BY DEF Inv
<1> DEFINE t == Parse(td, id, r)
<1>2. /\ t = [type |-> td.type, servers |-> t.servers, setName |-> td.setName,
              maxSetVersion |-> td.maxSetVersion, maxElectionId |-> td.maxElectionId,
              maxServerId |-> td.maxServerId]
      /\ t.servers \in [DOMAIN td.servers -> ServerDescription]
      /\ \A i \in DOMAIN td.servers : i # id => t.servers[i] = td.servers[i]
  BY <1>1, ParsedTopology
<1> HIDE DEF t
<1>3. [i \in DOMAIN t.servers \ {id} |-> t.servers[i]] = [i \in DOMAIN td.servers \ {id} |-> td.servers[i]]
  BY <1>2
<1>4. QED BY <1>2, <1>3 DEF RemoveServer, t

LEMMA RemoveUnexpectedKeepsInv ==
    ASSUME Inv, NEW id, NEW r \in Reply \cup {None}, RemoveUnexpected(id, r) PROVE Inv'
<1>1. TypeOK /\ id \in DOMAIN td.servers /\ Handles("RemoveServer", id, r)
  BY DEF Inv, RemoveUnexpected, Handles
<1>2. td.type # "Single"
  BY <1>1, TransitionTableRows DEF RowHolds
<1>3. td' = RemoveServer(Parse(td, id, r), id)
  BY DEF RemoveUnexpected
<1>4. QED BY <1>1, <1>2, <1>3, ParseThenRemove, RemovalKeepsInv

\* Removing a server and looking for a primary among the others.
LEMMA RemoveAndCheckPrimaryKeepsInv ==
    ASSUME Inv, NEW id \in DOMAIN td.servers, NEW r \in Reply \cup {None},
           td' = RemoveAndCheckPrimary(Parse(td, id, r), id),
           td.type \in {"Unknown", "RSNoPrimary", "RSWithPrimary"}
    PROVE  Inv'
<1> DEFINE rest == [i \in DOMAIN td.servers \ {id} |-> td.servers[i]]
           type == IF HasPrimary(RemoveServer(Parse(td, id, r), id))
                   THEN "RSWithPrimary" ELSE "RSNoPrimary"
<1>1. RemoveServer(Parse(td, id, r), id) =
         [type |-> td.type, servers |-> rest, setName |-> td.setName,
          maxSetVersion |-> td.maxSetVersion, maxElectionId |-> td.maxElectionId,
          maxServerId |-> td.maxServerId]
  BY ParseThenRemove
<1>2. td' = [type |-> type, servers |-> rest, setName |-> td.setName,
             maxSetVersion |-> td.maxSetVersion, maxElectionId |-> td.maxElectionId,
             maxServerId |-> td.maxServerId]
  BY <1>1 DEF RemoveAndCheckPrimary, UpdateRsType
<1>3. type = IF HasPrimary(td') THEN "RSWithPrimary" ELSE "RSNoPrimary"
  BY <1>1, <1>2 DEF HasPrimary
<1> HIDE DEF type
<1>4. td.type = "Unknown" => type = "RSNoPrimary"
  <2>1. \A i \in DOMAIN td'.servers : i \in DOMAIN td.servers /\ td'.servers[i] = td.servers[i]
    BY <1>2
  <2>2. QED BY <1>3, <2>1 DEF Inv, ServersFitTopology, HasPrimary
<1>5. QED BY <1>2, <1>3, <1>4, RemovalKeepsInv

LEMMA RemoveUnexpectedAndCheckKeepsInv ==
    ASSUME Inv, NEW id, NEW r \in Reply \cup {None}, RemoveUnexpectedAndCheck(id, r)
    PROVE  Inv'
<1>1. TypeOK /\ id \in DOMAIN td.servers /\ Handles("RemoveAndCheckPrimary", id, r)
  BY DEF Inv, RemoveUnexpectedAndCheck, Handles
<1>2. td.type = "RSWithPrimary"
  BY <1>1, TransitionTableRows DEF RowHolds
<1>3. td' = RemoveAndCheckPrimary(Parse(td, id, r), id)
  BY DEF RemoveUnexpectedAndCheck
<1>4. QED BY <1>1, <1>2, <1>3, RemoveAndCheckPrimaryKeepsInv

LEMMA RejectMemberWithPrimaryKeepsInv ==
    ASSUME Inv, NEW id, NEW r \in Reply \cup {None}, RejectMemberWithPrimary(id, r)
    PROVE  Inv'
<1>1. TypeOK /\ id \in DOMAIN td.servers /\ Handles("UpdateRsWithPrimaryFromMember", id, r)
  BY DEF Inv, RejectMemberWithPrimary, Handles
<1>2. td.type = "RSWithPrimary"
  BY <1>1, TransitionTableRows DEF RowHolds
<1>3. td' = RemoveAndCheckPrimary(Parse(td, id, r), id)
  BY DEF RejectMemberWithPrimary
<1>4. QED BY <1>1, <1>2, <1>3, RemoveAndCheckPrimaryKeepsInv

LEMMA RejectPrimaryOfOtherSetKeepsInv ==
    ASSUME Inv, NEW id, NEW r \in Reply \cup {None}, RejectPrimaryOfOtherSet(id, r)
    PROVE  Inv'
<1>1. TypeOK /\ id \in DOMAIN td.servers /\ Handles("UpdateRsFromPrimary", id, r)
  BY DEF Inv, RejectPrimaryOfOtherSet, Handles
<1>2. td.type \in {"Unknown", "RSNoPrimary", "RSWithPrimary"}
  BY <1>1, TransitionTableRows DEF RowHolds
<1>3. td' = RemoveAndCheckPrimary(Parse(td, id, r), id)
  BY DEF RejectPrimaryOfOtherSet
<1>4. QED BY <1>1, <1>2, <1>3, RemoveAndCheckPrimaryKeepsInv

\* A standalone alone makes the topology SINGLE; one among other seeds goes.
LEMMA UpdateUnknownWithStandaloneKeepsInv ==
    ASSUME Inv, NEW id, NEW r \in Reply \cup {None}, UpdateUnknownWithStandalone(id, r)
    PROVE  Inv'
<1>1. /\ TypeOK /\ id \in DOMAIN td.servers
      /\ Handles("UpdateUnknownWithStandalone", id, r)
  BY DEF Inv, UpdateUnknownWithStandalone, Handles
<1>2. td.type = "Unknown"
  BY <1>1, TransitionTableRows DEF RowHolds
<1>3. CASE DOMAIN td.servers # {id}
  <2>1. td' = RemoveServer(Parse(td, id, r), id)
    BY <1>3 DEF UpdateUnknownWithStandalone
  <2>2. QED BY <1>1, <1>2, <2>1, ParseThenRemove, RemovalKeepsInv
<1>4. CASE DOMAIN td.servers = {id}
  <2> DEFINE sd == ServerHandleIsmaster(td.servers[id], r)
  <2>1. sd \in ServerDescription
    BY <1>1, ParsedDescription DEF TypeOK
  <2>2. td' = [type |-> "Single", servers |-> [td.servers EXCEPT ![id] = sd],
               setName |-> td.setName, maxSetVersion |-> td.maxSetVersion,
               maxElectionId |-> td.maxElectionId, maxServerId |-> td.maxServerId]
    BY <1>1, <1>4 DEF UpdateUnknownWithStandalone, Parse, TypeOK
  <2> HIDE DEF sd
  <2>3. /\ td'.type = "Single"
        /\ td'.servers = [td.servers EXCEPT ![id] = sd]
        /\ td'.setName = td.setName
        /\ td'.maxSetVersion = td.maxSetVersion
        /\ td'.maxElectionId = td.maxElectionId
        /\ td'.maxServerId = td.maxServerId
        /\ DOMAIN td'.servers = {id}
    BY <1>4, <2>2
  <2>4. td'.servers \in [DOMAIN td'.servers -> ServerDescription]
    BY <1>1, <2>1, <2>3 DEF TypeOK
  <2>5. TypeOK'
    BY <1>1, <1>4, <2>2, <2>3, <2>4 DEF TypeOK, TopologyType
  <2>6. AddressesAreUnique' /\ AtMostOnePrimary' /\ SingleHasOneServer'
    BY <2>3 DEF AddressesAreUnique, AtMostOnePrimary, SingleHasOneServer
  <2>7. /\ ServersFitTopology'
        /\ MembersShareSetName'
        /\ PrimaryHoldsMaxElection'
        /\ PrimaryListsEveryServer'
    BY <2>3 DEF ServersFitTopology, MembersShareSetName, PrimaryHoldsMaxElection,
                PrimaryListsEveryServer, IsReplicaSet
  <2>8. QED BY <2>5, <2>6, <2>7 DEF Inv
<1>5. QED BY <1>3, <1>4

\* The set name once server id has spoken: the one known, or the one it gives.
LEMMA AdoptedSetName ==
    ASSUME TypeOK, NEW sd \in ServerDescription, sd.type \in RsMemberTypes,
           sd.type = ReplyServerType(sd.lastIsMaster), ~OtherSet(td, sd)
    PROVE  /\ SetNameOf(sd) \in SetName
           /\ td.setName = SetNameOf(sd) \/ td.setName = None
<1>1. sd.lastIsMaster \in Reply \cup {None}
  BY DEF ServerDescription
<1>2. sd.lastIsMaster \in Reply /\ sd.lastIsMaster.setName \in SetName
  BY <1>1, ReplyServerTypes
<1>3. QED BY <1>2, ReplyAssumption DEF SetNameOf, OtherSet

\* The stale primary's own NULL reply leaves it unknown; it gave its set name.
LEMMA RejectStalePrimaryKeepsInv ==
    ASSUME Inv, NEW id, NEW r \in Reply \cup {None}, RejectStalePrimary(id, r)
    PROVE  Inv'
<1> DEFINE t == Parse(td, id, r)
           sd == t.servers[id]
           u == Parse(AdoptSetName(t, sd), id, None)
           unknown == ServerHandleIsmaster(sd, None)
           setName == IF td.setName = None THEN SetNameOf(sd) ELSE td.setName
           type == IF HasPrimary(u) THEN "RSWithPrimary" ELSE "RSNoPrimary"
<1>1. TypeOK /\ id \in DOMAIN td.servers /\ Handles("UpdateRsFromPrimary", id, r)
  BY DEF Inv, RejectStalePrimary, Handles
<1>2. /\ t = [type |-> td.type, servers |-> t.servers, setName |-> td.setName,
              maxSetVersion |-> td.maxSetVersion, maxElectionId |-> td.maxElectionId,
              maxServerId |-> td.maxServerId]
      /\ t.servers \in [DOMAIN td.servers -> ServerDescription]
      /\ \A i \in DOMAIN td.servers : i # id => t.servers[i] = td.servers[i]
      /\ sd = ServerHandleIsmaster(td.servers[id], r)
  BY <1>1, ParsedTopology
<1>3. td.servers[id] \in ServerDescription
  BY <1>1 DEF TypeOK
<1>4. /\ sd \in ServerDescription
      /\ sd.address = td.servers[id].address
      /\ sd.type = ReplyServerType(r)
      /\ sd.lastIsMaster = r
  BY <1>2, <1>3, ParsedDescription
<1>5. /\ sd.type = "RSPrimary"
      /\ td.type \in {"Unknown", "RSNoPrimary", "RSWithPrimary"}
  BY <1>1, <1>4, TransitionTableRows DEF RowHolds
<1>6. ~OtherSet(td, sd)
  BY <1>2 DEF RejectStalePrimary, OtherSet
<1>7. SetNameOf(sd) \in SetName
  BY <1>1, <1>4, <1>5, <1>6, AdoptedSetName DEF RsMemberTypes
<1>8. /\ unknown \in ServerDescription
      /\ unknown.address = td.servers[id].address
      /\ unknown.type = "Unknown"
  BY <1>4, ParsedDescription DEF ReplyServerType
<1>9. u = [type |-> td.type, servers |-> [td.servers EXCEPT ![id] = unknown],
            setName |-> setName, maxSetVersion |-> td.maxSetVersion,
            maxElectionId |-> td.maxElectionId, maxServerId |-> td.maxServerId]
  <2>1. AdoptSetName(t, sd) =
           [type |-> td.type, servers |-> t.servers, setName |-> setName,
            maxSetVersion |-> td.maxSetVersion, maxElectionId |-> td.maxElectionId,
            maxServerId |-> td.maxServerId]
    BY <1>2 DEF AdoptSetName
  <2>2. [t.servers EXCEPT ![id] = unknown] = [td.servers EXCEPT ![id] = unknown]
    BY <1>1, <1>2 DEF TypeOK
  <2> HIDE DEF t, unknown, setName
  <2>3. Parse(AdoptSetName(t, sd), id, None) =
           [type |-> td.type, servers |-> [t.servers EXCEPT ![id] = unknown],
            setName |-> setName, maxSetVersion |-> td.maxSetVersion,
            maxElectionId |-> td.maxElectionId, maxServerId |-> td.maxServerId]
    BY <2>1 DEF Parse, unknown
  <2>4. QED BY <2>2, <2>3
<1>10. td' = UpdateRsType(IF u.type = "RSWithPrimary" THEN UpdateRsType(u) ELSE u)
  BY DEF RejectStalePrimary, InvalidateServer
<1> HIDE DEF t, unknown, u, setName
<1>11. td' = [type |-> type, servers |-> [td.servers EXCEPT ![id] = unknown],
              setName |-> setName, maxSetVersion |-> td.maxSetVersion,
              maxElectionId |-> td.maxElectionId, maxServerId |-> td.maxServerId]
  BY <1>9, <1>10 DEF UpdateRsType, HasPrimary
<1>12. HasPrimary(td') <=> HasPrimary(u)
  BY <1>9, <1>11 DEF HasPrimary
<1>13. FitsAs(unknown, type, setName)
  BY <1>5, <1>8, <1>12 DEF FitsAs, RsMemberTypes
<1> HIDE DEF type
<1>14. setName = td.setName \/ (td.setName = None /\ setName \in SetName)
  BY <1>7 DEF setName
<1>15. QED BY <1>1, <1>8, <1>11, <1>13, <1>14, UpdateKeepsInv

\* Labelling a possible primary changes the type of unknown servers only.
LEMMA LabelledTopology ==
    ASSUME NEW t, NEW a, t.servers \in [DOMAIN t.servers -> ServerDescription],
           t = [type |-> t.type, servers |-> t.servers, setName |-> t.setName,
                maxSetVersion |-> t.maxSetVersion, maxElectionId |-> t.maxElectionId,
                maxServerId |-> t.maxServerId]
    PROVE  LET u == LabelUnknownMember(t, a, "PossiblePrimary")
           IN /\ u = [type |-> t.type, servers |-> u.servers, setName |-> t.setName,
                      maxSetVersion |-> t.maxSetVersion, maxElectionId |-> t.maxElectionId,
                      maxServerId |-> t.maxServerId]
              /\ u.servers \in [DOMAIN t.servers -> ServerDescription]
              /\ \A i \in DOMAIN t.servers :
                    /\ u.servers[i].address = t.servers[i].address
                    /\ u.servers[i].lastIsMaster = t.servers[i].lastIsMaster
                    /\ \/ u.servers[i].type = t.servers[i].type
                       \/ u.servers[i].type = "PossiblePrimary"
<1> DEFINE label(i) == IF t.servers[i].address = a /\ t.servers[i].type = "Unknown"
                       THEN [t.servers[i] EXCEPT !.type = "PossiblePrimary"] ELSE t.servers[i]
           labelled == [i \in DOMAIN t.servers |-> label(i)]
<1>1. \A i \in DOMAIN t.servers :
         /\ label(i) \in ServerDescription
         /\ label(i).address = t.servers[i].address
         /\ label(i).lastIsMaster = t.servers[i].lastIsMaster
         /\ label(i).type = t.servers[i].type \/ label(i).type = "PossiblePrimary"
  BY DEF ServerDescription, ServerType
<1>2. LabelUnknownMember(t, a, "PossiblePrimary") =
         [type |-> t.type, servers |-> labelled, setName |-> t.setName,
          maxSetVersion |-> t.maxSetVersion, maxElectionId |-> t.maxElectionId,
          maxServerId |-> t.maxServerId]
  BY DEF LabelUnknownMember
<1> HIDE DEF label
<1>3. QED BY <1>1, <1>2

\* A step that makes no server known.
LEMMA NoNewServers ==
    ASSUME TypeOK
    PROVE  \E new \in NewServers(td, {}) : DOMAIN new = {} /\ Cardinality(DOMAIN new) = 0
<1> DEFINE new == [i \in {} |-> None]
<1>1. Cardinality({}) = 0
  BY FS_EmptySet
<1>2. (td.maxServerId + 1) .. (td.maxServerId + 0) = {}
  BY DEF TypeOK
<1>3. {} \ Addresses(td) = {}
  OBVIOUS
<1>4. new \in NewServers(td, {})
  BY <1>1, <1>2, <1>3 DEF NewServers
<1>5. DOMAIN new = {}
  OBVIOUS
<1>6. QED BY <1>1, <1>4, <1>5

LEMMA UpdateRsWithPrimaryFromMemberKeepsInv ==
    ASSUME Inv, NEW id, NEW r \in Reply \cup {None}, UpdateRsWithPrimaryFromMember(id, r)
    PROVE  Inv'
<1> DEFINE t == Parse(td, id, r)
           sd == t.servers[id]
           u == [t EXCEPT !.type = "RSNoPrimary"]
<1>1. /\ TypeOK /\ id \in DOMAIN td.servers
      /\ Handles("UpdateRsWithPrimaryFromMember", id, r)
  BY DEF Inv, UpdateRsWithPrimaryFromMember, Handles
<1>2. /\ t = [type |-> td.type, servers |-> t.servers, setName |-> td.setName,
              maxSetVersion |-> td.maxSetVersion, maxElectionId |-> td.maxElectionId,
              maxServerId |-> td.maxServerId]
      /\ t.servers \in [DOMAIN td.servers -> ServerDescription]
      /\ \A i \in DOMAIN td.servers : i # id => t.servers[i] = td.servers[i]
      /\ sd = ServerHandleIsmaster(td.servers[id], r)
  BY <1>1, ParsedTopology
<1>3. td.servers[id] \in ServerDescription
  BY <1>1 DEF TypeOK
<1>4. sd \in ServerDescription /\ sd.address = td.servers[id].address
      /\ sd.type = ReplyServerType(r)
  BY <1>2, <1>3, ParsedDescription
<1>5. sd.type \in {"RSSecondary", "RSArbiter", "RSOther"} /\ td.type = "RSWithPrimary"
  BY <1>1, <1>4, TransitionTableRows DEF RowHolds
<1>6. td.setName # None /\ SetNameOf(sd) = td.setName
  BY <1>2, <1>5 DEF UpdateRsWithPrimaryFromMember, Inv, MembersShareSetName
<1>7. \/ td' = RemoveServer(t, id)
      \/ ~HasPrimary(t) /\ td' = LabelUnknownMember(u, CurrentPrimary(sd), "PossiblePrimary")
      \/ td' = t
  BY DEF UpdateRsWithPrimaryFromMember
<1>8. CASE td' = RemoveServer(t, id)
  BY <1>1, <1>5, <1>8, ParseThenRemove, RemovalKeepsInv
<1>9. CASE td' = t
  <2>1. FitsAs(ServerHandleIsmaster(td.servers[id], r), td.type, td.setName)
    BY <1>2, <1>5, <1>6 DEF FitsAs
  <2>2. td' = [Parse(td, id, r) EXCEPT !.type = td.type]
    BY <1>2, <1>9
  <2>3. QED BY <1>1, <2>1, <2>2, NotedReplyKeepsInv
<1>10. CASE ~HasPrimary(t) /\ td' = LabelUnknownMember(u, CurrentPrimary(sd), "PossiblePrimary")
  <2>1. /\ u = [type |-> "RSNoPrimary", servers |-> t.servers, setName |-> td.setName,
                maxSetVersion |-> td.maxSetVersion, maxElectionId |-> td.maxElectionId,
                maxServerId |-> td.maxServerId]
        /\ u.servers = t.servers
    BY <1>2
  <2> HIDE DEF u
  <2>2. /\ td' = [type |-> "RSNoPrimary", servers |-> td'.servers, setName |-> td'.setName,
                  maxSetVersion |-> td.maxSetVersion, maxElectionId |-> td.maxElectionId,
                  maxServerId |-> td'.maxServerId]
        /\ td'.setName = td.setName
        /\ td'.maxServerId = td.maxServerId
        /\ td'.servers \in [DOMAIN td.servers -> ServerDescription]
        /\ \A i \in DOMAIN td.servers :
              /\ td'.servers[i].address = t.servers[i].address
              /\ td'.servers[i].lastIsMaster = t.servers[i].lastIsMaster
              /\ \/ td'.servers[i].type = t.servers[i].type
                 \/ td'.servers[i].type = "PossiblePrimary"
    BY <1>2, <1>10, <2>1, LabelledTopology
  <2>3. \A i \in DOMAIN td.servers :
           /\ t.servers[i].address = td.servers[i].address
           /\ t.servers[i].type \notin {"Standalone", "Mongos", "RSPrimary"}
           /\ t.servers[i].type \in RsMemberTypes => SetNameOf(t.servers[i]) = td.setName
    <3>1. \A i \in DOMAIN td.servers : t.servers[i].type # "RSPrimary"
      BY <1>2, <1>10 DEF HasPrimary
    <3>2. QED BY <1>2, <1>4, <1>5, <1>6, <3>1
              DEF Inv, ServersFitTopology, MembersShareSetName, IsReplicaSet, RsMemberTypes
  <2>4. PICK new \in NewServers(td, {}) : DOMAIN new = {} /\ Cardinality(DOMAIN new) = 0
    BY <1>1, NoNewServers
  <2>5. GrownFrom(new)
    BY <1>1, <2>2, <2>3, <2>4 DEF GrownFrom, TypeOK
  <2>6. \A i \in DOMAIN td'.servers :
           /\ td'.servers[i].type \notin {"Standalone", "Mongos", "RSPrimary"}
           /\ td'.servers[i].type \in RsMemberTypes =>
                 td'.setName # None /\ SetNameOf(td'.servers[i]) = td'.setName
    BY <1>6, <2>2, <2>3 DEF RsMemberTypes, SetNameOf
  <2>7. td'.setName \in SetName \cup {None}
    BY <1>1, <2>2 DEF TypeOK
  <2>8. QED BY <2>2, <2>4, <2>5, <2>6, <2>7, DiscoveryKeepsInv
<1>11. QED BY <1>7, <1>8, <1>9, <1>10

\* Servers made known: those that were there stay as they are.
LEMMA AddedServers ==
    ASSUME Inv, NEW addrs \in SUBSET Address, NEW new \in NewServers(td, addrs),
           NEW t, t.servers \in [DOMAIN td.servers -> ServerDescription],
           t = [type |-> t.type, servers |-> t.servers, setName |-> t.setName,
                maxSetVersion |-> t.maxSetVersion, maxElectionId |-> t.maxElectionId,
                maxServerId |-> td.maxServerId]
    PROVE  LET u == AddNewServers(t, new)
           IN /\ u = [type |-> t.type, servers |-> u.servers, setName |-> t.setName,
                      maxSetVersion |-> t.maxSetVersion, maxElectionId |-> t.maxElectionId,
                      maxServerId |-> td.maxServerId + Cardinality(DOMAIN new)]
              /\ DOMAIN u.servers = DOMAIN td.servers \cup DOMAIN new
              /\ u.servers \in [DOMAIN u.servers -> ServerDescription]
              /\ \A i \in DOMAIN td.servers : i \notin DOMAIN new /\ u.servers[i] = t.servers[i]
              /\ \A i \in DOMAIN new : /\ u.servers[i].address = new[i]
                                       /\ u.servers[i].type = "Unknown"
<1> DEFINE added == [i \in DOMAIN t.servers \cup DOMAIN new |->
                        IF i \in DOMAIN new THEN ServerInit(new[i]) ELSE t.servers[i]]
<1>1. TypeOK
  BY DEF Inv
<1>2. /\ \A i \in DOMAIN new : new[i] \in Address
      /\ DOMAIN new = (td.maxServerId + 1) .. (td.maxServerId + Cardinality(DOMAIN new))
      /\ Cardinality(DOMAIN new) \in Nat
  BY <1>1, NewServerIds
<1>3. DOMAIN td.servers \cap DOMAIN new = {}
  BY <1>1, <1>2 DEF TypeOK
<1>4. \A i \in DOMAIN new : /\ ServerInit(new[i]) \in ServerDescription
                            /\ ServerInit(new[i]).address = new[i]
                            /\ ServerInit(new[i]).type = "Unknown"
  BY <1>2, InitialDescription
<1>5. AddNewServers(t, new) =
         [type |-> t.type, servers |-> added, setName |-> t.setName,
          maxSetVersion |-> t.maxSetVersion, maxElectionId |-> t.maxElectionId,
          maxServerId |-> td.maxServerId + Cardinality(DOMAIN new)]
  <2>1. t.maxServerId = td.maxServerId
    OBVIOUS
  <2>2. AddNewServers(t, new) =
           [t EXCEPT !.servers = added, !.maxServerId = td.maxServerId + Cardinality(DOMAIN new)]
    BY <2>1 DEF AddNewServers
  <2> HIDE DEF added
  <2>3. QED BY <2>2
<1>6. /\ DOMAIN added = DOMAIN td.servers \cup DOMAIN new
      /\ added \in [DOMAIN added -> ServerDescription]
      /\ \A i \in DOMAIN td.servers : i \notin DOMAIN new /\ added[i] = t.servers[i]
      /\ \A i \in DOMAIN new : added[i].address = new[i] /\ added[i].type = "Unknown"
  BY <1>3, <1>4
<1> HIDE DEF added
<1>7. QED BY <1>5, <1>6

LEMMA UpdateRsWithoutPrimaryKeepsInv ==
    ASSUME Inv, NEW id, NEW r \in Reply \cup {None}, UpdateRsWithoutPrimary(id, r)
    PROVE  Inv' /\ ElectionStep /\ ServerIdStep /\ KindStep
<1> DEFINE p == Parse(td, id, r)
           t == [p EXCEPT !.type = "RSNoPrimary"]
           sd == t.servers[id]
           adopted == AdoptSetName(t, sd)
<1>1. TypeOK /\ id \in DOMAIN td.servers /\ HandlesWithoutPrimary(id, r)
  BY DEF Inv, UpdateRsWithoutPrimary, HandlesWithoutPrimary, Handles
<1>2. /\ p = [type |-> td.type, servers |-> p.servers, setName |-> td.setName,
              maxSetVersion |-> td.maxSetVersion, maxElectionId |-> td.maxElectionId,
              maxServerId |-> td.maxServerId]
      /\ p.servers \in [DOMAIN td.servers -> ServerDescription]
      /\ \A i \in DOMAIN td.servers : i # id => p.servers[i] = td.servers[i]
      /\ p.servers[id] = ServerHandleIsmaster(td.servers[id], r)
  BY <1>1, ParsedTopology
<1> HIDE DEF p
<1>3. /\ t = [type |-> "RSNoPrimary", servers |-> t.servers, setName |-> td.setName,
              maxSetVersion |-> td.maxSetVersion, maxElectionId |-> td.maxElectionId,
              maxServerId |-> td.maxServerId]
      /\ t.servers = p.servers
      /\ sd = ServerHandleIsmaster(td.servers[id], r)
  BY <1>2
<1>4. /\ sd \in ServerDescription
      /\ sd.address = td.servers[id].address
      /\ sd.type = ReplyServerType(r)
      /\ sd.lastIsMaster = r
  BY <1>1, <1>3, ParsedDescription DEF TypeOK
<1>5. /\ sd.type \in {"RSSecondary", "RSArbiter", "RSOther"}
      /\ td.type \in {"Unknown", "RSNoPrimary"}
  BY <1>1, <1>4, TransitionTableRows DEF RowHolds, HandlesWithoutPrimary
<1>6. ~OtherSet(td, sd)
  BY <1>3 DEF UpdateRsWithoutPrimary, OtherSet, p
<1>7. SetNameOf(sd) \in SetName /\ (td.setName = SetNameOf(sd) \/ td.setName = None)
  BY <1>1, <1>4, <1>5, <1>6, AdoptedSetName DEF RsMemberTypes
<1>8. PICK new \in NewServers(t, ServerMembers(sd)), match \in MatchesMe(sd) :
         td' = IF ~match THEN RemoveServer(AddNewServers(adopted, new), id)
               ELSE LabelUnknownMember(AddNewServers(adopted, new), CurrentPrimary(sd),
                                       "PossiblePrimary")
  BY DEF UpdateRsWithoutPrimary, p
<1>9. /\ adopted = [type |-> "RSNoPrimary", servers |-> adopted.servers,
                    setName |-> SetNameOf(sd), maxSetVersion |-> td.maxSetVersion,
                    maxElectionId |-> td.maxElectionId, maxServerId |-> td.maxServerId]
      /\ adopted.servers = t.servers
      /\ adopted.type = "RSNoPrimary"
      /\ adopted.setName = SetNameOf(sd)
  <2> HIDE DEF t
  <2>1. adopted = [t EXCEPT !.setName = SetNameOf(sd)]
    BY <1>3, <1>7 DEF AdoptSetName
  <2> HIDE DEF adopted
  <2>2. QED BY <1>3, <2>1
<1>10. ServerMembers(sd) \subseteq Address
  BY <1>4, ReplyAssumption DEF ServerMembers, ServerDescription, ReplyType
<1>11. new \in NewServers(td, ServerMembers(sd))
  <2>1. \A i \in DOMAIN td.servers : t.servers[i].address = td.servers[i].address
    BY <1>2, <1>3, <1>4
  <2>2. Addresses(t) = Addresses(td)
    BY <1>2, <1>3, <2>1 DEF Addresses
  <2>3. t.maxServerId = td.maxServerId
    BY <1>3
  <2>4. QED BY <1>8, <2>2, <2>3 DEF NewServers
<1> DEFINE u == AddNewServers(adopted, new)
<1> HIDE DEF t, adopted
<1>12. /\ u = [type |-> "RSNoPrimary", servers |-> u.servers, setName |-> SetNameOf(sd),
               maxSetVersion |-> td.maxSetVersion, maxElectionId |-> td.maxElectionId,
               maxServerId |-> td.maxServerId + Cardinality(DOMAIN new)]
       /\ DOMAIN u.servers = DOMAIN td.servers \cup DOMAIN new
       /\ u.servers \in [DOMAIN u.servers -> ServerDescription]
       /\ \A i \in DOMAIN td.servers : i \notin DOMAIN new /\ u.servers[i] = p.servers[i]
       /\ \A i \in DOMAIN new : u.servers[i].address = new[i] /\ u.servers[i].type = "Unknown"
  BY <1>2, <1>3, <1>9, <1>10, <1>11, AddedServers
<1>13. \A i \in DOMAIN u.servers :
          /\ u.servers[i].address = IF i \in DOMAIN new THEN new[i] ELSE td.servers[i].address
          /\ u.servers[i].type \notin {"Standalone", "Mongos", "RSPrimary"}
          /\ u.servers[i].type \in RsMemberTypes => SetNameOf(u.servers[i]) = SetNameOf(sd)
  <2> SUFFICES ASSUME NEW i \in DOMAIN u.servers
               PROVE  /\ u.servers[i].address = IF i \in DOMAIN new THEN new[i]
                                                ELSE td.servers[i].address
                      /\ u.servers[i].type \notin {"Standalone", "Mongos", "RSPrimary"}
                      /\ u.servers[i].type \in RsMemberTypes =>
                            SetNameOf(u.servers[i]) = SetNameOf(sd)
    OBVIOUS
  <2>1. CASE i \in DOMAIN new
    BY <1>12, <2>1 DEF RsMemberTypes
  <2>2. CASE i = id
    BY <1>1, <1>2, <1>3, <1>4, <1>5, <1>12, <2>2
  <2>3. CASE i \in DOMAIN td.servers /\ i # id
    <3>1. u.servers[i] = td.servers[i] /\ i \notin DOMAIN new
      BY <1>2, <1>12, <2>3
    <3>2. QED BY <1>5, <1>7, <2>3, <3>1
              DEF Inv, ServersFitTopology, MembersShareSetName, IsReplicaSet, RsMemberTypes
  <2>4. QED BY <1>12, <2>1, <2>2, <2>3
<1>14. /\ td' = [type |-> "RSNoPrimary", servers |-> td'.servers, setName |-> td'.setName,
                 maxSetVersion |-> td.maxSetVersion, maxElectionId |-> td.maxElectionId,
                 maxServerId |-> td'.maxServerId]
       /\ td'.setName = SetNameOf(sd)
       /\ td'.maxServerId = td.maxServerId + Cardinality(DOMAIN new)
       /\ DOMAIN td'.servers \subseteq DOMAIN u.servers
       /\ td'.servers \in [DOMAIN td'.servers -> ServerDescription]
       /\ \A i \in DOMAIN td'.servers :
             /\ td'.servers[i].address = u.servers[i].address
             /\ td'.servers[i].lastIsMaster = u.servers[i].lastIsMaster
             /\ \/ td'.servers[i].type = u.servers[i].type
                \/ td'.servers[i].type = "PossiblePrimary"
  <2>1. td' = RemoveServer(u, id)
          \/ td' = LabelUnknownMember(u, CurrentPrimary(sd), "PossiblePrimary")
    BY <1>8
  <2> HIDE DEF u
  <2>2. CASE td' = RemoveServer(u, id)
    <3>1. td' = [type |-> "RSNoPrimary",
                 servers |-> [i \in DOMAIN u.servers \ {id} |-> u.servers[i]],
                 setName |-> SetNameOf(sd), maxSetVersion |-> td.maxSetVersion,
                 maxElectionId |-> td.maxElectionId,
                 maxServerId |-> td.maxServerId + Cardinality(DOMAIN new)]
      BY <1>12, <2>2 DEF RemoveServer
    <3>2. QED BY <1>12, <3>1
  <2>3. CASE td' = LabelUnknownMember(u, CurrentPrimary(sd), "PossiblePrimary")
    BY <1>12, <2>3, LabelledTopology
  <2>4. QED BY <2>1, <2>2, <2>3
<1> HIDE DEF u
<1>15. GrownFrom(new)
  BY <1>12, <1>13, <1>14 DEF GrownFrom
<1>16. \A i \in DOMAIN td'.servers :
          /\ td'.servers[i].type \notin {"Standalone", "Mongos", "RSPrimary"}
          /\ td'.servers[i].type \in RsMemberTypes =>
                td'.setName # None /\ SetNameOf(td'.servers[i]) = td'.setName
  BY <1>7, <1>13, <1>14, SetNameAssumption DEF RsMemberTypes, SetNameOf
<1>17. Inv'
  BY <1>7, <1>10, <1>11, <1>14, <1>15, <1>16, DiscoveryKeepsInv
<1>18. ServerIdStep
  BY <1>10, <1>11, <1>15, GrowthKeepsAddresses DEF ServerIdStep
<1>19. ElectionStep /\ KindStep
  BY <1>1, <1>5, <1>7, <1>14
     DEF ElectionStep, ElectionBefore, KindStep, IsReplicaSet, TypeOK, NoSetVersion
<1>20. QED BY <1>17, <1>18, <1>19

LEMMA RejectMemberOfOtherSetKeepsInv ==
    ASSUME Inv, NEW id, NEW r \in Reply \cup {None}, RejectMemberOfOtherSet(id, r)
    PROVE  Inv'
<1>1. TypeOK /\ id \in DOMAIN td.servers /\ HandlesWithoutPrimary(id, r)
  BY DEF Inv, RejectMemberOfOtherSet, HandlesWithoutPrimary, Handles
<1>2. td.type \in {"Unknown", "RSNoPrimary"}
  BY <1>1, TransitionTableRows DEF RowHolds, HandlesWithoutPrimary
<1>3. td' = RemoveServer([Parse(td, id, r) EXCEPT !.type = "RSNoPrimary"], id)
  BY DEF RejectMemberOfOtherSet
<1>4. RemoveServer([Parse(td, id, r) EXCEPT !.type = "RSNoPrimary"], id) =
         [type |-> "RSNoPrimary",
          servers |-> [i \in DOMAIN td.servers \ {id} |-> td.servers[i]],
          setName |-> td.setName, maxSetVersion |-> td.maxSetVersion,
          maxElectionId |-> td.maxElectionId, maxServerId |-> td.maxServerId]
  <2> DEFINE t == Parse(td, id, r)
  <2>1. /\ t = [type |-> td.type, servers |-> t.servers, setName |-> td.setName,
                maxSetVersion |-> td.maxSetVersion, maxElectionId |-> td.maxElectionId,
                maxServerId |-> td.maxServerId]
        /\ t.servers \in [DOMAIN td.servers -> ServerDescription]
        /\ \A i \in DOMAIN td.servers : i # id => t.servers[i] = td.servers[i]
    BY <1>1, ParsedTopology
  <2> HIDE DEF t
  <2>2. [i \in DOMAIN t.servers \ {id} |-> t.servers[i]] =
           [i \in DOMAIN td.servers \ {id} |-> td.servers[i]]
    BY <2>1
  <2> DEFINE v == [t EXCEPT !.type = "RSNoPrimary"]
  <2>3. /\ v = [type |-> "RSNoPrimary", servers |-> t.servers, setName |-> td.setName,
                maxSetVersion |-> td.maxSetVersion, maxElectionId |-> td.maxElectionId,
                maxServerId |-> td.maxServerId]
        /\ v.servers = t.servers
    BY <2>1
  <2> HIDE DEF v
  <2>4. RemoveServer(v, id) =
           [type |-> "RSNoPrimary",
            servers |-> [i \in DOMAIN td.servers \ {id} |-> td.servers[i]],
            setName |-> td.setName, maxSetVersion |-> td.maxSetVersion,
            maxElectionId |-> td.maxElectionId, maxServerId |-> td.maxServerId]
    BY <2>2, <2>3 DEF RemoveServer
  <2>5. QED BY <2>4 DEF v, t
<1>5. QED BY <1>1, <1>2, <1>3, <1>4, RemovalKeepsInv

\* The election an accepted primary reports, if any, becomes the greatest.
LEMMA RecordedElection ==
    ASSUME NEW t, NEW sd \in ServerDescription, sd.setVersion \in Nat,
           t = [type |-> t.type, servers |-> t.servers, setName |-> t.setName,
                maxSetVersion |-> t.maxSetVersion, maxElectionId |-> t.maxElectionId,
                maxServerId |-> t.maxServerId],
           t.maxSetVersion \in Nat \cup {NoSetVersion}, t.maxElectionId \in Nat,
           ~StaleElection(t, sd)
    PROVE  LET u == RecordElection(t, sd)
           IN /\ u = [type |-> t.type, servers |-> t.servers, setName |-> t.setName,
                      maxSetVersion |-> u.maxSetVersion, maxElectionId |-> u.maxElectionId,
                      maxServerId |-> t.maxServerId]
              /\ u.maxSetVersion \in Nat
              /\ u.maxElectionId \in Nat
              /\ HasElectionId(sd) => /\ sd.setVersion = u.maxSetVersion
                                      /\ sd.electionId = u.maxElectionId
              /\ ElectionBefore(t.maxSetVersion, t.maxElectionId,
                                u.maxSetVersion, u.maxElectionId)
<1>1. HasSetVersion(sd)
  BY DEF HasSetVersion, NoSetVersion
<1> DEFINE v == IF sd.setVersion > t.maxSetVersion THEN sd.setVersion ELSE t.maxSetVersion
           e == IF HasElectionId(sd) THEN sd.electionId ELSE t.maxElectionId
<1>2. RecordElection(t, sd) =
         [type |-> t.type, servers |-> t.servers, setName |-> t.setName,
          maxSetVersion |-> v, maxElectionId |-> e, maxServerId |-> t.maxServerId]
  <2>1. RecordElection(t, sd) = [t EXCEPT !.maxElectionId = e, !.maxSetVersion = v]
    BY <1>1 DEF RecordElection
  <2> HIDE DEF v, e
  <2>2. QED BY <2>1
<1>3. v \in Nat /\ e \in Nat
  BY DEF NoSetVersion, ServerDescription
<1>4. HasElectionId(sd) => sd.setVersion = v /\ sd.electionId = e
  BY <1>1 DEF StaleElection, LaterElection, NoSetVersion
<1>5. ElectionBefore(t.maxSetVersion, t.maxElectionId, v, e)
  BY <1>1 DEF StaleElection, LaterElection, NoSetVersion, ElectionBefore, ServerDescription
<1> HIDE DEF v, e
<1>6. QED BY <1>2, <1>3, <1>4, <1>5

\* What the acceptance of a primary leaves, and that it keeps every promise.
LEMMA AcceptPrimaryKeepsInv ==
    ASSUME Inv, NEW id, NEW r \in Reply \cup {None}, AcceptPrimary(id, r)
    PROVE  Inv' /\ ElectionStep /\ ServerIdStep /\ KindStep
<1> DEFINE t == Parse(td, id, r)
           sd == t.servers[id]
           adopted == AdoptSetName(t, sd)
           recorded == RecordElection(adopted, sd)
           current == InvalidatePrimaries(recorded, id)
<1>1. TypeOK /\ id \in DOMAIN td.servers /\ Handles("UpdateRsFromPrimary", id, r)
  BY DEF Inv, AcceptPrimary, Handles
<1>2. /\ t = [type |-> td.type, servers |-> t.servers, setName |-> td.setName,
              maxSetVersion |-> td.maxSetVersion, maxElectionId |-> td.maxElectionId,
              maxServerId |-> td.maxServerId]
      /\ t.servers \in [DOMAIN td.servers -> ServerDescription]
      /\ \A i \in DOMAIN td.servers : i # id => t.servers[i] = td.servers[i]
      /\ sd = ServerHandleIsmaster(td.servers[id], r)
  BY <1>1, ParsedTopology
<1>3. /\ sd \in ServerDescription
      /\ sd.address = td.servers[id].address
      /\ sd.type = ReplyServerType(r)
      /\ sd.lastIsMaster = r
      /\ sd.setVersion \in Nat
  BY <1>1, <1>2, ParsedDescription DEF TypeOK
<1>4. /\ sd.type = "RSPrimary"
      /\ td.type \in {"Unknown", "RSNoPrimary", "RSWithPrimary"}
  BY <1>1, <1>3, TransitionTableRows DEF RowHolds
<1>5. ~OtherSet(td, sd) /\ ~StaleElection(t, sd)
  BY <1>2 DEF AcceptPrimary, OtherSet
<1>6. SetNameOf(sd) \in SetName /\ (td.setName = SetNameOf(sd) \/ td.setName = None)
  BY <1>1, <1>3, <1>4, <1>5, AdoptedSetName DEF RsMemberTypes
<1>7. ServerMembers(sd) \in SUBSET Address
  BY <1>3, ReplyAssumption DEF ServerMembers, ServerDescription, ReplyType
<1>8. PICK new \in NewServers(t, ServerMembers(sd)) :
         td' = UpdateRsType(RemoveUnreportedServers(AddNewServers(current, new), sd))
  BY DEF AcceptPrimary
<1>9. new \in NewServers(td, ServerMembers(sd))
  <2>1. \A i \in DOMAIN td.servers : t.servers[i].address = td.servers[i].address
    BY <1>2, <1>3
  <2>2. Addresses(t) = Addresses(td)
    BY <1>2, <2>1 DEF Addresses
  <2>3. t.maxServerId = td.maxServerId
    BY <1>2
  <2>4. QED BY <1>8, <2>2, <2>3 DEF NewServers
<1> HIDE DEF t
<1>10. /\ adopted = [type |-> td.type, servers |-> t.servers, setName |-> SetNameOf(sd),
                     maxSetVersion |-> td.maxSetVersion, maxElectionId |-> td.maxElectionId,
                     maxServerId |-> td.maxServerId]
       /\ adopted.maxSetVersion = td.maxSetVersion
       /\ adopted.maxElectionId = td.maxElectionId
       /\ ~StaleElection(adopted, sd)
  <2>1. adopted = [t EXCEPT !.setName = SetNameOf(sd)]
    BY <1>2, <1>6 DEF AdoptSetName
  <2> HIDE DEF adopted
  <2>2. adopted = [type |-> td.type, servers |-> t.servers, setName |-> SetNameOf(sd),
                   maxSetVersion |-> td.maxSetVersion, maxElectionId |-> td.maxElectionId,
                   maxServerId |-> td.maxServerId]
    BY <1>2, <2>1
  <2>3. t.maxSetVersion = td.maxSetVersion /\ t.maxElectionId = td.maxElectionId
    BY <1>2
  <2>4. QED BY <1>5, <2>2, <2>3 DEF StaleElection, LaterElection
<1> HIDE DEF adopted
<1>11. /\ recorded = [type |-> td.type, servers |-> t.servers, setName |-> SetNameOf(sd),
                      maxSetVersion |-> recorded.maxSetVersion,
                      maxElectionId |-> recorded.maxElectionId,
                      maxServerId |-> td.maxServerId]
       /\ recorded.maxSetVersion \in Nat
       /\ recorded.maxElectionId \in Nat
       /\ HasElectionId(sd) => /\ sd.setVersion = recorded.maxSetVersion
                               /\ sd.electionId = recorded.maxElectionId
       /\ ElectionBefore(td.maxSetVersion, td.maxElectionId,
                         recorded.maxSetVersion, recorded.maxElectionId)
  <2>1. td.maxSetVersion \in Nat \cup {NoSetVersion} /\ td.maxElectionId \in Nat
    BY <1>1 DEF TypeOK
  <2>2. QED BY <1>3, <1>10, <2>1, RecordedElection
<1> HIDE DEF recorded
<1>12. /\ current = [type |-> td.type, servers |-> current.servers, setName |-> SetNameOf(sd),
                     maxSetVersion |-> recorded.maxSetVersion,
                     maxElectionId |-> recorded.maxElectionId,
                     maxServerId |-> td.maxServerId]
       /\ current.servers \in [DOMAIN td.servers -> ServerDescription]
       /\ current.servers[id] = sd
       /\ \A i \in DOMAIN td.servers :
             i # id => /\ current.servers[i].address = td.servers[i].address
                       /\ current.servers[i].lastIsMaster = td.servers[i].lastIsMaster
                       /\ \/ current.servers[i].type = "Unknown"
                          \/ /\ current.servers[i].type = td.servers[i].type
                             /\ td.servers[i].type # "RSPrimary"
  <2> DEFINE demote(i) ==
                IF i # id /\ t.servers[i].type = "RSPrimary"
                THEN [t.servers[i] EXCEPT !.type = "Unknown", !.setVersion = NoSetVersion,
                                          !.electionId = 0]
                ELSE t.servers[i]
             demoted == [i \in DOMAIN t.servers |-> demote(i)]
  <2>1. recorded.servers = t.servers
    BY <1>11
  <2>2. current = [recorded EXCEPT !.servers = demoted]
    BY <2>1 DEF InvalidatePrimaries
  <2>3. demote(id) = sd
    OBVIOUS
  <2>4. \A i \in DOMAIN td.servers :
           /\ demote(i) \in ServerDescription
           /\ i # id => /\ demote(i).address = td.servers[i].address
                        /\ demote(i).lastIsMaster = td.servers[i].lastIsMaster
                        /\ \/ demote(i).type = "Unknown"
                           \/ demote(i).type = td.servers[i].type /\ td.servers[i].type # "RSPrimary"
    BY <1>2, ZenonT(30) DEF ServerDescription, ServerType, NoSetVersion
  <2> HIDE DEF demote, current
  <2>5. current.servers = demoted
    BY <1>11, <2>2
  <2>6. /\ current.servers \in [DOMAIN td.servers -> ServerDescription]
        /\ \A i \in DOMAIN td.servers : current.servers[i] = demote(i)
    BY <1>2, <2>4, <2>5
  <2> HIDE DEF demoted
  <2>7. current = [type |-> td.type, servers |-> current.servers, setName |-> SetNameOf(sd),
                   maxSetVersion |-> recorded.maxSetVersion,
                   maxElectionId |-> recorded.maxElectionId, maxServerId |-> td.maxServerId]
    BY <1>11, <2>2, <2>5
  <2>8. QED BY <1>1, <2>3, <2>4, <2>6, <2>7
<1> HIDE DEF current
<1> DEFINE added == AddNewServers(current, new)
<1>13. /\ added = [type |-> td.type, servers |-> added.servers, setName |-> SetNameOf(sd),
                   maxSetVersion |-> recorded.maxSetVersion,
                   maxElectionId |-> recorded.maxElectionId,
                   maxServerId |-> td.maxServerId + Cardinality(DOMAIN new)]
       /\ DOMAIN added.servers = DOMAIN td.servers \cup DOMAIN new
       /\ added.servers \in [DOMAIN added.servers -> ServerDescription]
       /\ \A i \in DOMAIN td.servers : i \notin DOMAIN new /\ added.servers[i] = current.servers[i]
       /\ \A i \in DOMAIN new : /\ added.servers[i].address = new[i]
                                /\ added.servers[i].type = "Unknown"
  BY <1>7, <1>9, <1>12, AddedServers
<1> HIDE DEF added
<1> DEFINE kept == {j \in DOMAIN added.servers : HasRsMember(sd, added.servers[j].address)}
           servers == [i \in kept |-> added.servers[i]]
           rest == RemoveUnreportedServers(added, sd)
<1>14. /\ rest = [type |-> td.type, servers |-> servers, setName |-> SetNameOf(sd),
                  maxSetVersion |-> recorded.maxSetVersion,
                  maxElectionId |-> recorded.maxElectionId,
                  maxServerId |-> td.maxServerId + Cardinality(DOMAIN new)]
       /\ rest.servers = servers
  BY <1>13 DEF RemoveUnreportedServers
<1> HIDE DEF rest
<1>15. /\ td' = [type |-> IF HasPrimary(rest) THEN "RSWithPrimary" ELSE "RSNoPrimary",
                 servers |-> servers, setName |-> SetNameOf(sd),
                 maxSetVersion |-> recorded.maxSetVersion,
                 maxElectionId |-> recorded.maxElectionId,
                 maxServerId |-> td.maxServerId + Cardinality(DOMAIN new)]
       /\ td'.servers = servers
       /\ td'.setName = SetNameOf(sd)
       /\ td'.maxSetVersion = recorded.maxSetVersion
       /\ td'.maxElectionId = recorded.maxElectionId
       /\ td'.maxServerId = td.maxServerId + Cardinality(DOMAIN new)
  <2>1. td' = UpdateRsType(rest)
    BY <1>8 DEF rest, added
  <2> HIDE DEF servers
  <2>2. QED BY <1>14, <2>1 DEF UpdateRsType
<1>16. HasPrimary(td') <=> HasPrimary(rest)
  BY <1>14, <1>15 DEF HasPrimary
<1>17. /\ DOMAIN td'.servers \subseteq DOMAIN td.servers \cup DOMAIN new
       /\ \A i \in DOMAIN td'.servers : /\ td'.servers[i] = added.servers[i]
                                        /\ td'.servers[i] \in ServerDescription
                                        /\ td'.servers[i].address \in ServerMembers(sd)
       /\ td'.servers \in [DOMAIN td'.servers -> ServerDescription]
  BY <1>13, <1>15 DEF HasRsMember
<1> HIDE DEF servers, kept
<1>18. GrownFrom(new)
  <2>1. \A i \in DOMAIN td'.servers :
           td'.servers[i].address = IF i \in DOMAIN new THEN new[i] ELSE td.servers[i].address
    BY <1>3, <1>12, <1>13, <1>17
  <2>2. QED BY <1>15, <1>17, <2>1 DEF GrownFrom
<1>19. \A i \in DOMAIN td'.servers :
          /\ i = id => td'.servers[i] = sd
          /\ i # id => /\ td'.servers[i].type \notin {"Standalone", "Mongos", "RSPrimary"}
                       /\ td'.servers[i].type \in RsMemberTypes =>
                             SetNameOf(td'.servers[i]) = td'.setName
  <2> SUFFICES ASSUME NEW i \in DOMAIN td'.servers
               PROVE  /\ i = id => td'.servers[i] = sd
                      /\ i # id =>
                            /\ td'.servers[i].type \notin {"Standalone", "Mongos", "RSPrimary"}
                            /\ td'.servers[i].type \in RsMemberTypes =>
                                  SetNameOf(td'.servers[i]) = td'.setName
    OBVIOUS
  <2>1. CASE i \in DOMAIN new
    BY <1>1, <1>13, <1>17, <2>1 DEF RsMemberTypes
  <2>2. CASE i = id
    BY <1>1, <1>12, <1>13, <1>17, <2>2
  <2>3. CASE i \in DOMAIN td.servers /\ i # id
    <3>1. /\ td'.servers[i].lastIsMaster = td.servers[i].lastIsMaster
          /\ \/ td'.servers[i].type = "Unknown"
             \/ td'.servers[i].type = td.servers[i].type /\ td.servers[i].type # "RSPrimary"
      BY <1>12, <1>13, <1>17, <2>3
    <3>2. SetNameOf(td'.servers[i]) = SetNameOf(td.servers[i])
      BY <3>1 DEF SetNameOf
    <3>3. QED BY <1>4, <1>6, <1>15, <2>3, <3>1, <3>2
              DEF Inv, ServersFitTopology, MembersShareSetName, IsReplicaSet, RsMemberTypes
  <2>4. QED BY <1>17, <2>1, <2>2, <2>3
<1>20. Inv'
  <2>1. td' = [type |-> IF HasPrimary(td') THEN "RSWithPrimary" ELSE "RSNoPrimary",
               servers |-> td'.servers, setName |-> td'.setName,
               maxSetVersion |-> td'.maxSetVersion, maxElectionId |-> td'.maxElectionId,
               maxServerId |-> td'.maxServerId]
    BY <1>15, <1>16
  <2>2. /\ td'.maxSetVersion \in Nat /\ td'.maxElectionId \in Nat
        /\ td'.setName \in SetName /\ SetNameOf(sd) = td'.setName
        /\ HasElectionId(sd) => /\ sd.setVersion = td'.maxSetVersion
                                /\ sd.electionId = td'.maxElectionId
    BY <1>6, <1>11, <1>15
  <2> HIDE DEF sd
  <2>3. \A i \in DOMAIN td'.servers :
           /\ td'.servers[i].address \in ServerMembers(sd)
           /\ i = id => td'.servers[i] = sd
           /\ i # id =>
                 /\ td'.servers[i].type \notin {"Standalone", "Mongos", "RSPrimary"}
                 /\ td'.servers[i].type \in RsMemberTypes =>
                       SetNameOf(td'.servers[i]) = td'.setName
    BY <1>17, <1>19
  <2>4. /\ DOMAIN td'.servers \subseteq 1 .. td'.maxServerId
        /\ td'.maxServerId \in Nat
        /\ AddressesAreUnique'
    BY <1>7, <1>9, <1>18, GrowthKeepsAddresses
  <2>5. LedBy(id, sd)
    BY <1>4, <1>17, <2>1, <2>2, <2>3, <2>4 DEF LedBy
  <2>6. QED BY <2>5, PrimaryKeepsInv
<1>21. ServerIdStep
  BY <1>7, <1>9, <1>18, GrowthKeepsAddresses DEF ServerIdStep
<1>22. ElectionStep
  BY <1>11, <1>15 DEF ElectionStep
<1>23. KindStep
  BY <1>4, <1>6, <1>15 DEF KindStep, IsReplicaSet
<1>24. QED BY <1>20, <1>21, <1>22, <1>23

-----------------------------------------------------------------------------
\* A picture made from the present one by handlers that make no server known
\* and record no election.
Quiet(t) ==
    /\ t = [type |-> t.type, servers |-> t.servers, setName |-> t.setName,
            maxSetVersion |-> td.maxSetVersion, maxElectionId |-> td.maxElectionId,
            maxServerId |-> td.maxServerId]
    /\ t.servers = [i \in DOMAIN t.servers |-> t.servers[i]]
    /\ DOMAIN t.servers \subseteq DOMAIN td.servers
    /\ \A i \in DOMAIN t.servers : t.servers[i].address = td.servers[i].address
    /\ td.setName # None => t.setName = td.setName

LEMMA QuietParse ==
    ASSUME TypeOK, NEW id \in DOMAIN td.servers, NEW r \in Reply \cup {None}
    PROVE  Quiet(Parse(td, id, r)) /\ Parse(td, id, r).type = td.type
<1> DEFINE t == Parse(td, id, r)
<1>1. /\ t = [type |-> td.type, servers |-> t.servers, setName |-> td.setName,
              maxSetVersion |-> td.maxSetVersion, maxElectionId |-> td.maxElectionId,
              maxServerId |-> td.maxServerId]
      /\ t.servers \in [DOMAIN td.servers -> ServerDescription]
      /\ \A i \in DOMAIN td.servers : i # id => t.servers[i] = td.servers[i]
      /\ t.servers[id] = ServerHandleIsmaster(td.servers[id], r)
  BY ParsedTopology
<1>2. t.servers[id].address = td.servers[id].address
  BY <1>1, ParsedDescription DEF TypeOK
<1> HIDE DEF t
<1>3. Quiet(t) /\ t.type = td.type
  BY <1>1, <1>2 DEF Quiet
<1>4. QED BY <1>3 DEF t

LEMMA QuietRetyped ==
    ASSUME NEW t, Quiet(t), NEW type
    PROVE  Quiet([t EXCEPT !.type = type]) /\ [t EXCEPT !.type = type].type = type
<1> DEFINE u == [t EXCEPT !.type = type]
<1>1. /\ u = [type |-> type, servers |-> t.servers, setName |-> t.setName,
              maxSetVersion |-> td.maxSetVersion, maxElectionId |-> td.maxElectionId,
              maxServerId |-> td.maxServerId]
      /\ u.servers = t.servers
  BY DEF Quiet
<1> HIDE DEF u
<1>2. Quiet(u) /\ u.type = type
  BY <1>1 DEF Quiet
<1>3. QED BY <1>2 DEF u

LEMMA QuietUpdateRsType ==
    ASSUME NEW t, Quiet(t)
    PROVE  Quiet(UpdateRsType(t)) /\ UpdateRsType(t).type \in {"RSNoPrimary", "RSWithPrimary"}
BY QuietRetyped DEF UpdateRsType

LEMMA QuietRemoved ==
    ASSUME NEW t, Quiet(t), NEW id
    PROVE  Quiet(RemoveServer(t, id)) /\ RemoveServer(t, id).type = t.type
<1> DEFINE u == RemoveServer(t, id)
<1>1. /\ u = [type |-> t.type, servers |-> [i \in DOMAIN t.servers \ {id} |-> t.servers[i]],
              setName |-> t.setName, maxSetVersion |-> td.maxSetVersion,
              maxElectionId |-> td.maxElectionId, maxServerId |-> td.maxServerId]
      /\ u.servers = [i \in DOMAIN t.servers \ {id} |-> t.servers[i]]
  BY DEF Quiet, RemoveServer
<1> HIDE DEF u
<1>2. Quiet(u) /\ u.type = t.type
  BY <1>1 DEF Quiet
<1>3. QED BY <1>2 DEF u

LEMMA QuietAdopted ==
    ASSUME NEW t, Quiet(t), NEW sd
    PROVE  Quiet(AdoptSetName(t, sd)) /\ AdoptSetName(t, sd).type = t.type
<1> DEFINE u == AdoptSetName(t, sd)
           setName == IF t.setName = None THEN SetNameOf(sd) ELSE t.setName
<1>1. /\ u = [type |-> t.type, servers |-> t.servers, setName |-> setName,
              maxSetVersion |-> td.maxSetVersion, maxElectionId |-> td.maxElectionId,
              maxServerId |-> td.maxServerId]
      /\ u.servers = t.servers
  <2>1. u = [t EXCEPT !.setName = setName]
    BY DEF AdoptSetName
  <2> HIDE DEF u, setName
  <2>2. QED BY <2>1 DEF Quiet
<1>2. td.setName # None => setName = td.setName
  BY DEF Quiet
<1> HIDE DEF u, setName
<1>3. Quiet(u) /\ u.type = t.type
  BY <1>1, <1>2 DEF Quiet
<1>4. QED BY <1>3 DEF u

LEMMA QuietLabelled ==
    ASSUME NEW t, Quiet(t), NEW a, t.servers \in [DOMAIN t.servers -> ServerDescription]
    PROVE  /\ Quiet(LabelUnknownMember(t, a, "PossiblePrimary"))
           /\ LabelUnknownMember(t, a, "PossiblePrimary").type = t.type
<1> DEFINE u == LabelUnknownMember(t, a, "PossiblePrimary")
<1>1. t = [type |-> t.type, servers |-> t.servers, setName |-> t.setName,
           maxSetVersion |-> t.maxSetVersion, maxElectionId |-> t.maxElectionId,
           maxServerId |-> t.maxServerId]
  BY DEF Quiet
<1>2. /\ u = [type |-> t.type, servers |-> u.servers, setName |-> t.setName,
              maxSetVersion |-> t.maxSetVersion, maxElectionId |-> t.maxElectionId,
              maxServerId |-> t.maxServerId]
      /\ u.servers \in [DOMAIN t.servers -> ServerDescription]
      /\ \A i \in DOMAIN t.servers : u.servers[i].address = t.servers[i].address
  BY <1>1, LabelledTopology
<1>3. /\ t.maxSetVersion = td.maxSetVersion
      /\ t.maxElectionId = td.maxElectionId
      /\ t.maxServerId = td.maxServerId
  BY DEF Quiet
<1> HIDE DEF u
<1>4. Quiet(u) /\ u.type = t.type
  BY <1>2, <1>3 DEF Quiet
<1>5. QED BY <1>4 DEF u

\* A quiet step keeps what must never be lost, if the type it leaves may follow.
LEMMA QuietStep ==
    ASSUME TypeOK, Quiet(td'),
           td.type \in {"Single", "Sharded"} => td'.type = td.type,
           IsReplicaSet => td'.type \in {"RSNoPrimary", "RSWithPrimary"}
    PROVE  ElectionStep /\ ServerIdStep /\ KindStep
<1>1. /\ td'.maxSetVersion = td.maxSetVersion
      /\ td'.maxElectionId = td.maxElectionId
      /\ td'.maxServerId = td.maxServerId
  BY DEF Quiet
<1>2. ElectionStep
  BY <1>1 DEF ElectionStep, ElectionBefore, TypeOK, NoSetVersion
<1>3. ServerIdStep
  BY <1>1 DEF ServerIdStep, Quiet, TypeOK
<1>4. KindStep
  BY DEF KindStep, Quiet, IsReplicaSet
<1>5. QED BY <1>2, <1>3, <1>4

\* The handlers that make no server known and record no election are quiet.
LEMMA QuietHandlers ==
    ASSUME TypeOK, NEW id, NEW r \in Reply \cup {None}, HandleIsmaster(id, r),
           ~AcceptPrimary(id, r), ~UpdateRsWithoutPrimary(id, r)
    PROVE  ElectionStep /\ ServerIdStep /\ KindStep
<1> DEFINE t == Parse(td, id, r)
           final == {"Single", "Sharded"}
           set == {"RSNoPrimary", "RSWithPrimary"}
<1>1. id \in DOMAIN td.servers
  BY DEF HandleIsmaster, NoTransition, CheckIfHasPrimary, UpdateUnknownWithStandalone,
         RemoveUnexpected, RemoveUnexpectedAndCheck, SetTopologyTypeToSharded,
         RejectPrimaryOfOtherSet, RejectStalePrimary, RejectMemberOfOtherSet,
         RejectMemberWithPrimary, UpdateRsWithPrimaryFromMember, HandlesWithoutPrimary, Handles
<1>2. Quiet(t) /\ t.type = td.type
  BY <1>1, QuietParse
<1>3. t.servers \in [DOMAIN td.servers -> ServerDescription]
  BY <1>1, ParsedTopology
<1>4. \A h : Handles(h, id, r) => RowHolds(h, ReplyServerType(r), td.type)
  BY TransitionTableRows
<1> HIDE DEF t
<1>5. CASE NoTransition(id, r)
  BY <1>2, <1>5, QuietStep DEF NoTransition, IsReplicaSet, t
<1>6. CASE CheckIfHasPrimary(id, r)
  <2>1. td.type = "RSWithPrimary"
    BY <1>4, <1>6 DEF CheckIfHasPrimary, RowHolds
  <2>2. Quiet(td') /\ td'.type \in set
    BY <1>2, <1>6, QuietUpdateRsType DEF CheckIfHasPrimary, t
  <2>3. QED BY <2>1, <2>2, QuietStep
<1>7. CASE UpdateUnknownWithStandalone(id, r)
  <2>1. td.type = "Unknown"
    BY <1>4, <1>7 DEF UpdateUnknownWithStandalone, RowHolds
  <2>2. Quiet(td')
    BY <1>2, <1>7, QuietRemoved, QuietRetyped DEF UpdateUnknownWithStandalone, t
  <2>3. QED BY <2>1, <2>2, QuietStep DEF IsReplicaSet
<1>8. CASE RemoveUnexpected(id, r)
  <2>1. Quiet(td') /\ td'.type = td.type
    BY <1>2, <1>8, QuietRemoved DEF RemoveUnexpected, t
  <2>2. QED BY <2>1, QuietStep DEF IsReplicaSet
<1>9. CASE SetTopologyTypeToSharded(id, r)
  <2>1. td.type = "Unknown"
    BY <1>4, <1>9 DEF SetTopologyTypeToSharded, RowHolds
  <2>2. Quiet(td')
    BY <1>2, <1>9, QuietRetyped DEF SetTopologyTypeToSharded, t
  <2>3. QED BY <2>1, <2>2, QuietStep DEF IsReplicaSet
<1>10. CASE \/ RemoveUnexpectedAndCheck(id, r)
            \/ RejectPrimaryOfOtherSet(id, r)
            \/ RejectMemberWithPrimary(id, r)
  <2>1. td.type \notin final
    BY <1>4, <1>10 DEF RemoveUnexpectedAndCheck, RejectPrimaryOfOtherSet,
                       RejectMemberWithPrimary, RowHolds
  <2>2. td' = UpdateRsType(RemoveServer(t, id))
    BY <1>10 DEF RemoveUnexpectedAndCheck, RejectPrimaryOfOtherSet, RejectMemberWithPrimary,
                 RemoveAndCheckPrimary, t
  <2>3. Quiet(td') /\ td'.type \in set
    BY <1>2, <2>2, QuietRemoved, QuietUpdateRsType
  <2>4. QED BY <2>1, <2>3, QuietStep
<1>11. CASE RejectStalePrimary(id, r)
  <2> DEFINE a == AdoptSetName(t, t.servers[id])
             u == Parse(a, id, None)
  <2>1. td.type \notin final
    BY <1>4, <1>11 DEF RejectStalePrimary, RowHolds
  <2>2. td' = UpdateRsType(IF u.type = "RSWithPrimary" THEN UpdateRsType(u) ELSE u)
    BY <1>11 DEF RejectStalePrimary, InvalidateServer, t
  <2>3. Quiet(a) /\ a.servers = t.servers
    <3>1. Quiet(a)
      BY <1>2, QuietAdopted
    <3>2. a.servers = t.servers
      BY <1>2 DEF AdoptSetName, Quiet
    <3>3. QED BY <3>1, <3>2
  <2>4. Quiet(u)
    <3> DEFINE sd == ServerHandleIsmaster(a.servers[id], None)
    <3>1. a.servers[id] \in ServerDescription
      BY <1>1, <1>3, <2>3
    <3>2. sd.address = a.servers[id].address
      BY <3>1, ParsedDescription
    <3> HIDE DEF a, sd
    <3>3. /\ u = [type |-> a.type, servers |-> [a.servers EXCEPT ![id] = sd],
                  setName |-> a.setName, maxSetVersion |-> td.maxSetVersion,
                  maxElectionId |-> td.maxElectionId, maxServerId |-> td.maxServerId]
          /\ u.servers = [a.servers EXCEPT ![id] = sd]
      BY <2>3 DEF Parse, Quiet, sd
    <3> HIDE DEF u
    <3>4. QED BY <2>3, <3>2, <3>3 DEF Quiet
  <2> HIDE DEF u
  <2>5. Quiet(td') /\ td'.type \in set
    BY <2>2, <2>4, QuietUpdateRsType
  <2>6. QED BY <2>1, <2>5, QuietStep
<1>12. CASE RejectMemberOfOtherSet(id, r)
  <2>1. td.type \notin final
    BY <1>4, <1>12 DEF RejectMemberOfOtherSet, HandlesWithoutPrimary, RowHolds
  <2>2. Quiet(td') /\ td'.type = "RSNoPrimary"
    <3> DEFINE u == [t EXCEPT !.type = "RSNoPrimary"]
    <3>1. td' = RemoveServer(u, id)
      BY <1>12 DEF RejectMemberOfOtherSet, t
    <3>2. Quiet(u) /\ u.type = "RSNoPrimary"
      BY <1>2, QuietRetyped
    <3> HIDE DEF u
    <3>3. QED BY <3>1, <3>2, QuietRemoved
  <2>3. QED BY <2>1, <2>2, QuietStep
<1>13. CASE UpdateRsWithPrimaryFromMember(id, r)
  <2> DEFINE u == [t EXCEPT !.type = "RSNoPrimary"]
             labelled == LabelUnknownMember(u, CurrentPrimary(t.servers[id]), "PossiblePrimary")
  <2>1. td.type = "RSWithPrimary"
    BY <1>4, <1>13 DEF UpdateRsWithPrimaryFromMember, RowHolds
  <2>2. td' \in {RemoveServer(t, id), labelled, t}
    BY <1>13 DEF UpdateRsWithPrimaryFromMember, t
  <2>3. Quiet(u) /\ u.type = "RSNoPrimary" /\ u.servers = t.servers
    BY <1>2, QuietRetyped DEF Quiet
  <2>4. u.servers \in [DOMAIN u.servers -> ServerDescription]
    BY <1>3, <2>3
  <2> HIDE DEF u
  <2>5. Quiet(labelled) /\ labelled.type = "RSNoPrimary"
    BY <2>3, <2>4, QuietLabelled
  <2> HIDE DEF labelled
  <2>6. Quiet(td') /\ td'.type \in set
    BY <1>2, <2>1, <2>2, <2>5, QuietRemoved
  <2>7. QED BY <2>1, <2>6, QuietStep
<1>14. QED
  BY <1>5, <1>6, <1>7, <1>8, <1>9, <1>10, <1>11, <1>12, <1>13 DEF HandleIsmaster

\* Every handler of an ismaster outcome keeps every promise.
LEMMA HandleIsmasterKeepsInv ==
    ASSUME Inv, NEW id, NEW r \in Reply \cup {None}, HandleIsmaster(id, r) PROVE Inv'
<1>1. CASE NoTransition(id, r)
  BY <1>1, NoTransitionKeepsInv
<1>2. CASE CheckIfHasPrimary(id, r)
  BY <1>2, CheckIfHasPrimaryKeepsInv
<1>3. CASE UpdateUnknownWithStandalone(id, r)
  BY <1>3, UpdateUnknownWithStandaloneKeepsInv
<1>4. CASE RemoveUnexpected(id, r)
  BY <1>4, RemoveUnexpectedKeepsInv
<1>5. CASE RemoveUnexpectedAndCheck(id, r)
  BY <1>5, RemoveUnexpectedAndCheckKeepsInv
<1>6. CASE SetTopologyTypeToSharded(id, r)
  BY <1>6, SetTopologyTypeToShardedKeepsInv
<1>7. CASE RejectPrimaryOfOtherSet(id, r)
  BY <1>7, RejectPrimaryOfOtherSetKeepsInv
<1>8. CASE RejectStalePrimary(id, r)
  BY <1>8, RejectStalePrimaryKeepsInv
<1>9. CASE AcceptPrimary(id, r)
  BY <1>9, AcceptPrimaryKeepsInv
<1>10. CASE RejectMemberOfOtherSet(id, r)
  BY <1>10, RejectMemberOfOtherSetKeepsInv
<1>11. CASE UpdateRsWithoutPrimary(id, r)
  BY <1>11, UpdateRsWithoutPrimaryKeepsInv
<1>12. CASE RejectMemberWithPrimary(id, r)
  BY <1>12, RejectMemberWithPrimaryKeepsInv
<1>13. CASE UpdateRsWithPrimaryFromMember(id, r)
  BY <1>13, UpdateRsWithPrimaryFromMemberKeepsInv
<1>14. QED
  BY <1>1, <1>2, <1>3, <1>4, <1>5, <1>6, <1>7, <1>8, <1>9, <1>10, <1>11, <1>12, <1>13
     DEF HandleIsmaster

LEMMA NextKeepsInv == Inv /\ [Next]_vars => Inv'
<1> SUFFICES ASSUME Inv, [Next]_vars PROVE Inv'
  OBVIOUS
<1>1. CASE Next
  BY <1>1, HandleIsmasterKeepsInv DEF Next
<1>2. CASE UNCHANGED vars
  BY <1>2 DEF vars, Inv, TypeOK, AddressesAreUnique, SingleHasOneServer, ServersFitTopology,
              AtMostOnePrimary, IsPrimary, MembersShareSetName, IsReplicaSet,
              PrimaryHoldsMaxElection, PrimaryListsEveryServer
<1>3. QED BY <1>1, <1>2

-----------------------------------------------------------------------------
\* Whatever replies arrive from whatever hosts, in any order, the client's
\* picture keeps all its promises at once.
THEOREM InvIsInvariant == Spec => []Inv
<1>1. Init => Inv
  BY InitInv
<1>2. Inv /\ [Next]_vars => Inv'
  BY NextKeepsInv
<1>3. QED BY <1>1, <1>2, PTL DEF Spec

\* The picture is always one that its readers can work with: ids lie below
\* max_server_id, hosts are distinct, the unguarded read of item 0 under type SINGLE
\* finds an item, servers fit the topology's type and belong to its set, which has a
\* name whenever strcmp reads it.
THEOREM PictureIsWellFormed == Spec => []WellFormed
<1>1. Inv => WellFormed
  BY DEF Inv, WellFormed
<1>2. QED BY <1>1, InvIsInvariant, PTL

\* A partitioned replica set never makes the client believe two primaries.
THEOREM OnePrimary == Spec => []AtMostOnePrimary
<1>1. Inv => AtMostOnePrimary
  BY DEF Inv
<1>2. QED BY <1>1, InvIsInvariant, PTL

\* The primary believed is the one of the greatest election heard of.
THEOREM NewestPrimary == Spec => []PrimaryHoldsMaxElection
<1>1. Inv => PrimaryHoldsMaxElection
  BY DEF Inv
<1>2. QED BY <1>1, InvIsInvariant, PTL

\* A primary's member lists decide who stays in the topology.
THEOREM PrimaryDecidesMembership == Spec => []PrimaryListsEveryServer
<1>1. Inv => PrimaryListsEveryServer
  BY DEF Inv
<1>2. QED BY <1>1, InvIsInvariant, PTL

-----------------------------------------------------------------------------
\* A step is not only safe in what it leaves but in what it takes along.
LEMMA NextKeepsPromises == Inv /\ [Next]_vars => [ElectionStep /\ ServerIdStep /\ KindStep]_vars
<1> SUFFICES ASSUME Inv, Next PROVE ElectionStep /\ ServerIdStep /\ KindStep
  OBVIOUS
<1>1. PICK id \in DOMAIN td.servers, r \in Reply \cup {None} : HandleIsmaster(id, r)
  BY DEF Next
<1>2. CASE AcceptPrimary(id, r)
  BY <1>2, AcceptPrimaryKeepsInv
<1>3. CASE UpdateRsWithoutPrimary(id, r)
  BY <1>3, UpdateRsWithoutPrimaryKeepsInv
<1>4. CASE ~AcceptPrimary(id, r) /\ ~UpdateRsWithoutPrimary(id, r)
  BY <1>1, <1>4, QuietHandlers DEF Inv
<1>5. QED BY <1>2, <1>3, <1>4

\* The greatest election remembered is never forgotten.
THEOREM ElectionIsRemembered == Spec => ElectionNeverGoesBack
<1>1. Inv /\ [Next]_vars => [ElectionStep]_vars
  BY NextKeepsPromises
<1>2. QED BY <1>1, InvIsInvariant, PTL DEF Spec, ElectionNeverGoesBack

\* No server id is ever given to a second host, and a topology never changes its mind
\* on what kind of deployment it talks to.
THEOREM IdentityNeverChanges == Spec => IdentityIsFinal
<1>1. Inv /\ [Next]_vars => [ServerIdStep /\ KindStep]_vars
  BY NextKeepsPromises
<1>2. QED BY <1>1, InvIsInvariant, PTL DEF Spec, IdentityIsFinal

(***************************************************************************)
(* The scanner.                                                            *)
(***************************************************************************)

-----------------------------------------------------------------------------
(* Lists.                                                                  *)

\* f counts S upwards.
Counts(f, S) ==
    /\ f \in [1 .. Cardinality(S) -> S]
    /\ \A i, j \in 1 .. Cardinality(S) : i < j => f[i] < f[j]

LEMMA Least ==
    ASSUME NEW S \in SUBSET Nat, S # {} PROVE \E m \in S : \A x \in S : ~(x < m)
<1>1. PICK m \in S : \A x \in S : ~(<<x, m>> \in OpToRel(<, Nat))
  BY NatLessThanWellFounded, WFMin, Zenon
<1>2. ASSUME NEW x \in S, x < m PROVE FALSE
  <2>1. <<x, m>> \in Nat \X Nat
    OBVIOUS
  <2>2. <<x, m>>[1] < <<x, m>>[2]
    BY <1>2
  <2>3. <<x, m>> \in OpToRel(<, Nat)
    BY <2>1, <2>2, Zenon DEF OpToRel
  <2>4. QED BY <1>1, <2>3
<1>3. QED BY <1>2

\* Of the sets that cannot be counted one would have the fewest elements; but it can be,
\* if it can without its least.
LEMMA SetsAreCounted ==
    ASSUME NEW S \in SUBSET Nat, IsFiniteSet(S)
    PROVE  \E f : Counts(f, S)
<1> DEFINE B == {U \in SUBSET S : ~\E f : Counts(f, U)}
           N == {Cardinality(U) : U \in B}
<1>1. SUFFICES ASSUME S \in B PROVE FALSE
  OBVIOUS
<1>2. \A U \in B : IsFiniteSet(U) /\ Cardinality(U) \in Nat /\ U \in SUBSET Nat
  BY FS_Subset, FS_CardinalityType
<1>3. N \subseteq Nat /\ N # {}
  BY <1>1, <1>2
<1>4. PICK c \in N : \A b \in N : ~(b < c)
  <2> HIDE DEF N
  <2>1. QED BY <1>3, Least
<1>5. PICK U \in B : c = Cardinality(U)
  BY <1>4
<1>6. CASE U = {}
  <2>1. Cardinality(U) = 0 /\ 1 .. 0 = {}
    BY <1>6, FS_EmptySet
  <2>2. Counts([i \in 1 .. 0 |-> i], U)
    BY <1>6, <2>1 DEF Counts
  <2>3. QED BY <1>5, <2>2
<1>7. CASE U # {}
  <2>1. U \in SUBSET Nat
    BY <1>2, <1>5
  <2>2. PICK m \in U : \A x \in U : ~(x < m)
    BY <1>7, <2>1, Least
  <2>3. /\ IsFiniteSet(U) /\ Cardinality(U) \in Nat /\ Cardinality(U \ {m}) = Cardinality(U) - 1
        /\ IsFiniteSet(U \ {m})
    BY <1>2, <1>5, <2>2, FS_RemoveElement
  <2>4. U \ {m} \notin B
    <3> SUFFICES ASSUME U \ {m} \in B PROVE FALSE
      OBVIOUS
    <3>1. Cardinality(U \ {m}) \in N
      OBVIOUS
    <3>2. ~(Cardinality(U \ {m}) < Cardinality(U))
      BY <1>4, <1>5, <3>1, Zenon
    <3>3. QED BY <2>3, <3>2
  <2>5. PICK g : Counts(g, U \ {m})
    BY <1>5, <2>4
  <2> DEFINE n == Cardinality(U)
             f == [i \in 1 .. n |-> IF i = 1 THEN m ELSE g[i - 1]]
  <2>6. /\ g \in [1 .. n - 1 -> U \ {m}]
        /\ \A i, j \in 1 .. n - 1 : i < j => g[i] < g[j]
    BY <2>3, <2>5 DEF Counts
  <2>7. \A x \in U \ {m} : m < x
    <3>1. \A x \in U : x \in Nat /\ m \in Nat
      BY <2>1, <2>2
    <3>2. QED BY <2>2, <3>1
  <2>8. n \in Nat
    BY <2>3
  <2> HIDE DEF n
  <2>9. \A i \in 1 .. n : i = 1 \/ i - 1 \in 1 .. n - 1
    BY <2>8
  <2>10. f \in [1 .. n -> U]
    BY <2>2, <2>6, <2>9
  <2>11. ASSUME NEW i \in 1 .. n, NEW j \in 1 .. n, i < j PROVE f[i] < f[j]
    <3>1. j - 1 \in 1 .. n - 1 /\ f[j] = g[j - 1] /\ g[j - 1] \in U \ {m}
      BY <2>6, <2>8, <2>11
    <3>2. CASE i = 1
      BY <2>7, <3>1, <3>2
    <3>3. CASE i # 1
      <4>1. i - 1 \in 1 .. n - 1 /\ f[i] = g[i - 1] /\ i - 1 < j - 1
        BY <2>8, <2>11, <3>3
      <4>2. QED BY <2>6, <3>1, <4>1
    <3>4. QED BY <3>2, <3>3
  <2> HIDE DEF f
  <2>12. Counts(f, U)
    BY <2>10, <2>11 DEF Counts, n
  <2>13. QED BY <1>5, <2>12
<1>8. QED BY <1>6, <1>7

LEMMA AscendingCounts ==
    ASSUME NEW S \in SUBSET Nat, IsFiniteSet(S)
    PROVE  /\ Cardinality(S) \in Nat
           /\ Counts(Ascending(S), S)
           /\ \A x \in S : \E i \in 1 .. Cardinality(S) : Ascending(S)[i] = x
<1> DEFINE n == Cardinality(S)
           f == Ascending(S)
<1>1. n \in Nat
  BY FS_CardinalityType
<1>2. PICK g : Counts(g, S)
  BY SetsAreCounted
<1>3. g \in [1 .. n -> S] /\ \A i, j \in DOMAIN g : i < j => g[i] < g[j]
  BY <1>2 DEF Counts
<1>4. f \in [1 .. n -> S] /\ \A i, j \in DOMAIN f : i < j => f[i] < f[j]
  BY <1>3 DEF Ascending
<1> HIDE DEF f
<1>5. Counts(f, S)
  BY <1>4 DEF Counts
<1>6. f \in Injection(1 .. n, S)
  <2>1. ASSUME NEW i \in 1 .. n, NEW j \in 1 .. n, f[i] = f[j] PROVE i = j
    <3>1. f[i] \in Nat /\ f[j] \in Nat
      BY <1>4
    <3>2. ~(i < j) /\ ~(j < i)
      BY <1>4, <2>1, <3>1
    <3>3. i \in Int /\ j \in Int
      BY <1>1
    <3>4. QED BY <3>2, <3>3
  <2>2. QED BY <1>4, <2>1 DEF Injection, IsInjective
<1>7. Cardinality(1 .. n) = n
  BY <1>1, FS_Interval
<1>8. f \in Surjection(1 .. n, S)
  BY <1>6, <1>7, FS_Injection
<1>9. \A x \in S : \E i \in 1 .. n : f[i] = x
  BY <1>8 DEF Surjection
<1>10. QED BY <1>1, <1>5, <1>9 DEF f

\* e takes out of a list what it has at these places.
TakesOut(e, list, places) ==
    /\ Cardinality(places) \in Nat
    /\ e \in [1 .. Cardinality(places) -> places]
    /\ \A i, j \in 1 .. Cardinality(places) : i < j => e[i] < e[j]
    /\ \A x \in places : \E i \in 1 .. Cardinality(places) : e[i] = x
    /\ Sublist(list, places) = [i \in 1 .. Cardinality(places) |-> list[e[i]]]

LEMMA SublistTakesOut ==
    ASSUME NEW T, NEW list \in Seq(T), NEW places \in SUBSET DOMAIN list
    PROVE  /\ IsFiniteSet(places) /\ Sublist(list, places) \in Seq(T)
           /\ \E e : TakesOut(e, list, places)
<1>1. DOMAIN list = 1 .. Len(list) /\ Len(list) \in Nat
  OBVIOUS
<1>2. IsFiniteSet(places)
  <2>1. IsFiniteSet(1 .. Len(list))
    BY <1>1, FS_Interval
  <2>2. QED BY <1>1, <2>1, FS_Subset
<1>3. places \in SUBSET Nat
  BY <1>1
<1> DEFINE e == Ascending(places)
           n == Cardinality(places)
<1>4. n \in Nat /\ Counts(e, places) /\ \A x \in places : \E i \in 1 .. n : e[i] = x
  BY <1>2, <1>3, AscendingCounts
<1>5. TakesOut(e, list, places)
  BY <1>4 DEF TakesOut, Counts, Sublist
<1>6. \A i \in 1 .. n : list[e[i]] \in T
  BY <1>1, <1>4 DEF Counts
<1>7. Sublist(list, places) = [i \in 1 .. n |-> list[e[i]]]
  BY DEF Sublist
<1> HIDE DEF e, n
<1>8. [i \in 1 .. n |-> list[e[i]]] \in Seq(T)
  BY <1>4, <1>6
<1>9. QED BY <1>2, <1>5, <1>7, <1>8

\* What a sublist has: the elements at the places, each once and in order.
LEMMA SublistHas ==
    ASSUME NEW T, NEW list \in Seq(T), NEW places \in SUBSET DOMAIN list
    PROVE  /\ Sublist(list, places) \in Seq(T)
           /\ \A i \in DOMAIN Sublist(list, places) : \E k \in places : Sublist(list, places)[i] = list[k]
           /\ \A k \in places : \E i \in DOMAIN Sublist(list, places) : Sublist(list, places)[i] = list[k]
           /\ \A i, j \in DOMAIN Sublist(list, places) : i # j =>
                 \E k, l \in places : /\ k # l /\ Sublist(list, places)[i] = list[k]
                                      /\ Sublist(list, places)[j] = list[l]
<1>1. PICK e : TakesOut(e, list, places)
  BY SublistTakesOut
<1> DEFINE n == Cardinality(places)
           s == Sublist(list, places)
<1>2. /\ n \in Nat /\ e \in [1 .. n -> places] /\ s = [i \in 1 .. n |-> list[e[i]]]
      /\ \A i, j \in 1 .. n : i < j => e[i] < e[j]
      /\ \A x \in places : \E i \in 1 .. n : e[i] = x
  BY <1>1 DEF TakesOut
<1>3. s \in Seq(T)
  BY SublistTakesOut
<1> HIDE DEF n, s
<1>4. DOMAIN s = 1 .. n /\ \A i \in 1 .. n : s[i] = list[e[i]] /\ e[i] \in places
  BY <1>2
<1>5. ASSUME NEW i \in 1 .. n, NEW j \in 1 .. n, i # j PROVE e[i] # e[j]
  <2>1. i < j \/ j < i
    BY <1>2, <1>5
  <2>2. e[i] < e[j] \/ e[j] < e[i]
    BY <1>2, <2>1
  <2>3. e[i] \in Int /\ e[j] \in Int
    BY <1>4
  <2>4. QED BY <2>2, <2>3
<1>6. \A i \in DOMAIN s : \E k \in places : s[i] = list[k]
  BY <1>4
<1>7. \A k \in places : \E i \in DOMAIN s : s[i] = list[k]
  BY <1>2, <1>4
<1>8. ASSUME NEW i \in DOMAIN s, NEW j \in DOMAIN s, i # j
      PROVE  \E k, l \in places : k # l /\ s[i] = list[k] /\ s[j] = list[l]
  BY <1>4, <1>5, <1>8
<1>9. QED BY <1>3, <1>6, <1>7, <1>8 DEF s

-----------------------------------------------------------------------------
(* The inductive invariant.                                                *)

\* A node's id was given to a server once.
NodesAreKnown == \A k \in DOMAIN nodes : nodes[k].id <= td.maxServerId

\* A server that has no node yet, or has lost it, has not answered.
NewServersAreSilent ==
    \A id \in DOMAIN td.servers :
        (\A k \in DOMAIN nodes : nodes[k].id # id) => td.servers[id].lastIsMaster = None

\* The timing out takes the commands from the front, and no connection is dropped in it.
ExpiryIsInOrder ==
    /\ cursor # None => scan = "expiring" /\ cmds # <<>> /\ cursor = cmds[1]
    /\ handled # None /\ handled.drop => scan = "off"

\* What a scan leaves behind are the commands of servers that have not answered.
LeftBehindAreSilent ==
    scan = "off" \/ (scan = "expiring" /\ cursor = None) =>
        \A c \in DOMAIN cmds :
            cmds[c] \in DOMAIN td.servers => td.servers[cmds[c]].lastIsMaster = None

\* The inductive invariant: the picture's own, and the scanner's.
ScannerInv ==
    /\ Inv
    /\ ScannerTypeOK
    /\ OneNodePerHost
    /\ CommandsHaveStreams
    /\ NodesAgreeWithServers
    /\ NodesAreKnown
    /\ NewServersAreSilent
    /\ ExpiryIsInOrder
    /\ LeftBehindAreSilent

-----------------------------------------------------------------------------
(* What the reply of one server leaves of what the others have answered.   *)

IsPicture(t) ==
    /\ t = [type |-> t.type, servers |-> t.servers, setName |-> t.setName,
            maxSetVersion |-> t.maxSetVersion, maxElectionId |-> t.maxElectionId,
            maxServerId |-> t.maxServerId]
    /\ t.servers \in [DOMAIN t.servers -> ServerDescription]

\* The last answer of server j, if it is known and has answered.
Heard(j) == IF j \in DOMAIN td.servers THEN td.servers[j].lastIsMaster ELSE None

\* The servers of picture t, but for id, have answered what they had.
Spares(t, id) ==
    /\ IsPicture(t)
    /\ \A j \in DOMAIN t.servers : j # id => t.servers[j].lastIsMaster = Heard(j)

LEMMA SparesServers ==
    ASSUME NEW t, NEW id, IsPicture(t), NEW f, f \in [DOMAIN f -> ServerDescription],
           \A j \in DOMAIN f : j # id => f[j].lastIsMaster = Heard(j)
    PROVE  Spares([t EXCEPT !.servers = f], id)
<1> DEFINE u == [t EXCEPT !.servers = f]
<1>1. /\ u = [type |-> t.type, servers |-> f, setName |-> t.setName,
              maxSetVersion |-> t.maxSetVersion, maxElectionId |-> t.maxElectionId,
              maxServerId |-> t.maxServerId]
      /\ u.servers = f
  BY DEF IsPicture
<1> HIDE DEF u
<1>2. IsPicture(u)
  BY <1>1 DEF IsPicture
<1>3. Spares(u, id)
  BY <1>1, <1>2 DEF Spares
<1>4. QED BY <1>3 DEF u

LEMMA SparesParse ==
    ASSUME NEW t, NEW id \in DOMAIN t.servers, Spares(t, id), NEW r \in Reply \cup {None}
    PROVE  Spares(Parse(t, id, r), id) /\ DOMAIN Parse(t, id, r).servers = DOMAIN t.servers
<1> DEFINE sd == ServerHandleIsmaster(t.servers[id], r)
           f == [t.servers EXCEPT ![id] = sd]
<1>1. sd \in ServerDescription
  BY ParsedDescription DEF Spares, IsPicture
<1> HIDE DEF sd
<1>2. f \in [DOMAIN f -> ServerDescription] /\ DOMAIN f = DOMAIN t.servers
  BY <1>1 DEF Spares, IsPicture
<1>3. \A j \in DOMAIN f : j # id => f[j].lastIsMaster = Heard(j)
  BY DEF Spares, IsPicture
<1>4. Parse(t, id, r) = [t EXCEPT !.servers = f]
  BY DEF Parse, sd
<1> HIDE DEF f
<1>5. Parse(t, id, r).servers = f
  BY <1>4 DEF Spares, IsPicture
<1>6. QED BY <1>2, <1>3, <1>4, <1>5, SparesServers DEF Spares

\* Nothing but the answers is looked at.
LEMMA SparesRetyped ==
    ASSUME NEW t, NEW id, Spares(t, id), NEW x
    PROVE  Spares([t EXCEPT !.type = x], id)
<1> DEFINE u == [t EXCEPT !.type = x]
<1>1. /\ u = [type |-> x, servers |-> t.servers, setName |-> t.setName,
              maxSetVersion |-> t.maxSetVersion, maxElectionId |-> t.maxElectionId,
              maxServerId |-> t.maxServerId]
      /\ u.servers = t.servers
  BY DEF Spares, IsPicture
<1> HIDE DEF u
<1>2. Spares(u, id)
  BY <1>1 DEF Spares, IsPicture
<1>3. QED BY <1>2 DEF u

LEMMA SparesUpdateRsType ==
    ASSUME NEW t, NEW id, Spares(t, id) PROVE Spares(UpdateRsType(t), id)
BY SparesRetyped DEF UpdateRsType

LEMMA SparesAdopted ==
    ASSUME NEW t, NEW id, Spares(t, id), NEW sd
    PROVE  Spares(AdoptSetName(t, sd), id) /\ AdoptSetName(t, sd).servers = t.servers
<1> DEFINE x == IF t.setName = None THEN SetNameOf(sd) ELSE t.setName
           u == [t EXCEPT !.setName = x]
<1>1. AdoptSetName(t, sd) = u
  BY DEF AdoptSetName
<1> HIDE DEF x
<1>2. /\ u = [type |-> t.type, servers |-> t.servers, setName |-> x,
              maxSetVersion |-> t.maxSetVersion, maxElectionId |-> t.maxElectionId,
              maxServerId |-> t.maxServerId]
      /\ u.servers = t.servers
  BY DEF Spares, IsPicture
<1> HIDE DEF u
<1>3. Spares(u, id)
  BY <1>2 DEF Spares, IsPicture
<1>4. QED BY <1>1, <1>2, <1>3

LEMMA SparesRecorded ==
    ASSUME NEW t, NEW id, Spares(t, id), NEW sd
    PROVE  Spares(RecordElection(t, sd), id) /\ RecordElection(t, sd).servers = t.servers
<1> DEFINE x == IF HasSetVersion(sd) /\ HasElectionId(sd) THEN sd.electionId ELSE t.maxElectionId
           y == IF HasSetVersion(sd) /\ sd.setVersion > t.maxSetVersion
                THEN sd.setVersion ELSE t.maxSetVersion
           u == [t EXCEPT !.maxElectionId = x, !.maxSetVersion = y]
<1>1. RecordElection(t, sd) = u
  BY DEF RecordElection
<1> HIDE DEF x, y
<1>2. t = [type |-> t.type, servers |-> t.servers, setName |-> t.setName,
           maxSetVersion |-> t.maxSetVersion, maxElectionId |-> t.maxElectionId,
           maxServerId |-> t.maxServerId]
  BY DEF Spares, IsPicture
<1>3. u = [type |-> t.type, servers |-> t.servers, setName |-> t.setName,
           maxSetVersion |-> y, maxElectionId |-> x, maxServerId |-> t.maxServerId]
  <2>1. PICK v : v = [t EXCEPT !.maxElectionId = x]
    OBVIOUS
  <2>2. v = [type |-> t.type, servers |-> t.servers, setName |-> t.setName,
             maxSetVersion |-> t.maxSetVersion, maxElectionId |-> x, maxServerId |-> t.maxServerId]
    BY <1>2, <2>1
  <2>3. u = [v EXCEPT !.maxSetVersion = y]
    BY <2>1, Zenon
  <2> HIDE DEF u
  <2>4. QED BY <2>2, <2>3
<1> HIDE DEF u
<1>4. u.servers = t.servers
  BY <1>3
<1>5. Spares(u, id)
  BY <1>3, <1>4 DEF Spares, IsPicture
<1>6. QED BY <1>1, <1>4, <1>5

LEMMA SparesRemoved ==
    ASSUME NEW t, NEW id, Spares(t, id), NEW j PROVE Spares(RemoveServer(t, j), id)
<1> DEFINE f == [i \in DOMAIN t.servers \ {j} |-> t.servers[i]]
<1>1. f \in [DOMAIN f -> ServerDescription]
  BY DEF Spares, IsPicture
<1>2. \A i \in DOMAIN f : i # id => f[i].lastIsMaster = Heard(i)
  BY DEF Spares
<1>3. RemoveServer(t, j) = [t EXCEPT !.servers = f]
  BY DEF RemoveServer
<1> HIDE DEF f
<1>4. QED BY <1>1, <1>2, <1>3, SparesServers DEF Spares

LEMMA SparesUnreported ==
    ASSUME NEW t, NEW id, Spares(t, id), NEW sd
    PROVE  Spares(RemoveUnreportedServers(t, sd), id)
<1> DEFINE left == {j \in DOMAIN t.servers : HasRsMember(sd, t.servers[j].address)}
           f == [i \in left |-> t.servers[i]]
<1>1. f \in [DOMAIN f -> ServerDescription]
  BY DEF Spares, IsPicture
<1>2. \A i \in DOMAIN f : i # id => f[i].lastIsMaster = Heard(i)
  BY DEF Spares
<1>3. RemoveUnreportedServers(t, sd) = [t EXCEPT !.servers = f]
  BY DEF RemoveUnreportedServers
<1> HIDE DEF f
<1>4. QED BY <1>1, <1>2, <1>3, SparesServers DEF Spares

LEMMA SparesLabelled ==
    ASSUME NEW t, NEW id, Spares(t, id), NEW a
    PROVE  Spares(LabelUnknownMember(t, a, "PossiblePrimary"), id)
<1> DEFINE u == LabelUnknownMember(t, a, "PossiblePrimary")
<1>1. /\ u = [type |-> t.type, servers |-> u.servers, setName |-> t.setName,
              maxSetVersion |-> t.maxSetVersion, maxElectionId |-> t.maxElectionId,
              maxServerId |-> t.maxServerId]
      /\ u.servers \in [DOMAIN t.servers -> ServerDescription]
      /\ \A i \in DOMAIN t.servers : u.servers[i].lastIsMaster = t.servers[i].lastIsMaster
  BY LabelledTopology DEF Spares, IsPicture
<1> HIDE DEF u
<1>2. Spares(u, id)
  BY <1>1 DEF Spares, IsPicture
<1>3. QED BY <1>2 DEF u

LEMMA SparesInvalidated ==
    ASSUME NEW t, NEW id, Spares(t, id) PROVE Spares(InvalidatePrimaries(t, id), id)
<1> DEFINE demoted(i) == IF i # id /\ t.servers[i].type = "RSPrimary"
                         THEN [t.servers[i] EXCEPT !.type = "Unknown", !.setVersion = NoSetVersion,
                                                   !.electionId = 0]
                         ELSE t.servers[i]
           f == [i \in DOMAIN t.servers |-> demoted(i)]
<1>1. \A i \in DOMAIN t.servers :
         demoted(i) \in ServerDescription /\ demoted(i).lastIsMaster = t.servers[i].lastIsMaster
  <2> SUFFICES ASSUME NEW i \in DOMAIN t.servers
               PROVE  /\ demoted(i) \in ServerDescription
                      /\ demoted(i).lastIsMaster = t.servers[i].lastIsMaster
    OBVIOUS
  <2>1. t.servers[i] \in ServerDescription
    BY DEF Spares, IsPicture
  <2>2. PICK s \in ServerDescription : s = t.servers[i]
    BY <2>1
  <2>3. [s EXCEPT !.type = "Unknown", !.setVersion = NoSetVersion, !.electionId = 0]
           \in ServerDescription
    BY DEF ServerDescription, ServerType
  <2>4. [s EXCEPT !.type = "Unknown", !.setVersion = NoSetVersion,
                  !.electionId = 0].lastIsMaster = s.lastIsMaster
    BY DEF ServerDescription
  <2>5. QED BY <2>2, <2>3, <2>4
<1>2. InvalidatePrimaries(t, id) = [t EXCEPT !.servers = f]
  BY DEF InvalidatePrimaries
<1> HIDE DEF demoted
<1>3. f \in [DOMAIN f -> ServerDescription] /\ \A i \in DOMAIN f : i # id => f[i].lastIsMaster = Heard(i)
  BY <1>1 DEF Spares
<1> HIDE DEF f
<1>4. QED BY <1>2, <1>3, SparesServers DEF Spares

\* The servers made known have not answered.
LEMMA SparesAdded ==
    ASSUME TypeOK, NEW addrs \in SUBSET Address, NEW new \in NewServers(td, addrs),
           NEW t, NEW id \in DOMAIN td.servers, Spares(t, id)
    PROVE  Spares(AddNewServers(t, new), id)
<1> DEFINE x == t.maxServerId + Cardinality(DOMAIN new)
           f == [i \in DOMAIN t.servers \cup DOMAIN new |->
                    IF i \in DOMAIN new THEN ServerInit(new[i]) ELSE t.servers[i]]
           u == [t EXCEPT !.servers = f, !.maxServerId = x]
<1>1. /\ \A i \in DOMAIN new : new[i] \in Address
      /\ DOMAIN new = (td.maxServerId + 1) .. (td.maxServerId + Cardinality(DOMAIN new))
      /\ Cardinality(DOMAIN new) \in Nat
  BY NewServerIds
<1>2. \A i \in DOMAIN new : i \notin DOMAIN td.servers
  BY <1>1 DEF TypeOK
<1>3. \A i \in DOMAIN new : ServerInit(new[i]) \in ServerDescription
                            /\ ServerInit(new[i]).lastIsMaster = None
  BY <1>1, InitialDescription DEF ServerInit
<1>4. \A i \in DOMAIN f : f[i] \in ServerDescription /\ (i # id => f[i].lastIsMaster = Heard(i))
  BY <1>2, <1>3 DEF Spares, IsPicture, Heard
<1>5. AddNewServers(t, new) = u
  BY DEF AddNewServers
<1> HIDE DEF x
<1>6. f \in [DOMAIN f -> ServerDescription]
  BY <1>4
<1> HIDE DEF f
<1>7. t = [type |-> t.type, servers |-> t.servers, setName |-> t.setName,
           maxSetVersion |-> t.maxSetVersion, maxElectionId |-> t.maxElectionId,
           maxServerId |-> t.maxServerId]
  BY DEF Spares, IsPicture
<1>8. u = [type |-> t.type, servers |-> f, setName |-> t.setName,
           maxSetVersion |-> t.maxSetVersion, maxElectionId |-> t.maxElectionId,
           maxServerId |-> x]
  <2>1. PICK v : v = [t EXCEPT !.servers = f]
    OBVIOUS
  <2>2. v = [type |-> t.type, servers |-> f, setName |-> t.setName,
             maxSetVersion |-> t.maxSetVersion, maxElectionId |-> t.maxElectionId,
             maxServerId |-> t.maxServerId]
    BY <1>7, <2>1
  <2>3. u = [v EXCEPT !.maxServerId = x]
    BY <2>1, Zenon
  <2> HIDE DEF u
  <2>4. QED BY <2>2, <2>3
<1> HIDE DEF u
<1>9. u.servers = f
  BY <1>8
<1>10. Spares(u, id)
  BY <1>4, <1>6, <1>8, <1>9 DEF Spares, IsPicture
<1>11. QED BY <1>5, <1>10

\* The members a parsed reply lists are hosts.
LEMMA MembersAreHosts ==
    ASSUME TypeOK, NEW id \in DOMAIN td.servers, NEW r \in Reply \cup {None}
    PROVE  ServerMembers(Parse(td, id, r).servers[id]) \in SUBSET Address
<1> DEFINE sd == Parse(td, id, r).servers[id]
<1>1. sd = ServerHandleIsmaster(td.servers[id], r)
  BY ParsedTopology
<1>2. sd.lastIsMaster = r
  BY <1>1, ParsedDescription DEF TypeOK
<1>3. r \in Reply => r.members \in SUBSET Address
  BY ReplyAssumption DEF ReplyType
<1> HIDE DEF sd
<1>4. ServerMembers(sd) \in SUBSET Address
  BY <1>2, <1>3 DEF ServerMembers
<1>5. QED BY <1>4 DEF sd

\* The reply of a server tells nothing of what the others have answered, and a server
\* it makes known has not.
LEMMA HandlersSpare ==
    ASSUME Inv, NEW id \in DOMAIN td.servers, NEW r \in Reply \cup {None}, HandleIsmaster(id, r)
    PROVE  Spares(td', id)
<1> DEFINE t == Parse(td, id, r)
           retyped == [t EXCEPT !.type = "RSNoPrimary"]
<1>1. TypeOK
  BY DEF Inv
<1>2. Spares(td, id)
  BY <1>1 DEF TypeOK, Spares, IsPicture, Heard
<1>3. Spares(t, id) /\ id \in DOMAIN t.servers
  BY <1>2, SparesParse
<1>4. ServerMembers(t.servers[id]) \in SUBSET Address
  BY <1>1, MembersAreHosts
<1>5. NewServers(t, ServerMembers(t.servers[id])) = NewServers(td, ServerMembers(t.servers[id]))
  <2>1. t.maxServerId = td.maxServerId
    BY <1>1, ParsedTopology
  <2>2. Addresses(t) = Addresses(td)
    <3>1. /\ t.servers \in [DOMAIN td.servers -> ServerDescription]
          /\ \A i \in DOMAIN td.servers : i # id => t.servers[i] = td.servers[i]
          /\ t.servers[id] = ServerHandleIsmaster(td.servers[id], r)
      BY <1>1, ParsedTopology
    <3>2. ServerHandleIsmaster(td.servers[id], r).address = td.servers[id].address
      BY <1>1, ParsedDescription DEF TypeOK
    <3> HIDE DEF t
    <3>3. \A i \in DOMAIN td.servers : t.servers[i].address = td.servers[i].address
      BY <3>1, <3>2
    <3>4. DOMAIN t.servers = DOMAIN td.servers
      BY <3>1
    <3>5. QED BY <3>3, <3>4, Zenon DEF Addresses
  <2>3. QED BY <2>1, <2>2, Zenon DEF NewServers
<1>6. Spares(retyped, id)
  BY <1>3, SparesRetyped
<1> HIDE DEF t, retyped
<1>7. CASE NoTransition(id, r)
  BY <1>3, <1>7 DEF NoTransition, t
<1>8. CASE CheckIfHasPrimary(id, r)
  BY <1>3, <1>8, SparesUpdateRsType DEF CheckIfHasPrimary, t
<1>9. CASE UpdateUnknownWithStandalone(id, r)
  BY <1>3, <1>9, SparesRemoved, SparesRetyped DEF UpdateUnknownWithStandalone, t
<1>10. CASE RemoveUnexpected(id, r)
  BY <1>3, <1>10, SparesRemoved DEF RemoveUnexpected, t
<1>11. CASE \/ RemoveUnexpectedAndCheck(id, r)
            \/ RejectPrimaryOfOtherSet(id, r)
            \/ RejectMemberWithPrimary(id, r)
  <2>1. td' = UpdateRsType(RemoveServer(t, id))
    BY <1>11 DEF RemoveUnexpectedAndCheck, RejectPrimaryOfOtherSet, RejectMemberWithPrimary,
                 RemoveAndCheckPrimary, t
  <2>2. QED BY <1>3, <2>1, SparesRemoved, SparesUpdateRsType
<1>12. CASE SetTopologyTypeToSharded(id, r)
  BY <1>3, <1>12, SparesRetyped DEF SetTopologyTypeToSharded, t
<1>13. CASE RejectStalePrimary(id, r)
  <2> DEFINE a == AdoptSetName(t, t.servers[id])
             u == Parse(a, id, None)
  <2>1. td' = UpdateRsType(IF u.type = "RSWithPrimary" THEN UpdateRsType(u) ELSE u)
    BY <1>13 DEF RejectStalePrimary, InvalidateServer, t
  <2>2. Spares(a, id) /\ id \in DOMAIN a.servers
    BY <1>3, SparesAdopted
  <2> HIDE DEF a
  <2>3. Spares(u, id)
    BY <2>2, SparesParse
  <2> HIDE DEF u
  <2>4. QED BY <2>1, <2>3, SparesUpdateRsType
<1>14. CASE AcceptPrimary(id, r)
  <2> DEFINE sd == t.servers[id]
             current == InvalidatePrimaries(RecordElection(AdoptSetName(t, sd), sd), id)
  <2>1. PICK new \in NewServers(t, ServerMembers(sd)) :
           td' = UpdateRsType(RemoveUnreportedServers(AddNewServers(current, new), sd))
    BY <1>14 DEF AcceptPrimary, t
  <2>2. Spares(current, id)
    BY <1>3, SparesAdopted, SparesRecorded, SparesInvalidated
  <2> HIDE DEF current
  <2>3. Spares(AddNewServers(current, new), id)
    BY <1>1, <1>4, <1>5, <2>2, SparesAdded
  <2>4. QED BY <2>1, <2>3, SparesUnreported, SparesUpdateRsType
<1>15. CASE RejectMemberOfOtherSet(id, r)
  <2>1. td' = RemoveServer(retyped, id)
    BY <1>15 DEF RejectMemberOfOtherSet, retyped, t
  <2>2. QED BY <1>6, <2>1, SparesRemoved
<1>16. CASE UpdateRsWithoutPrimary(id, r)
  <2> DEFINE sd == retyped.servers[id]
             adopted == AdoptSetName(retyped, sd)
  <2>1. PICK new \in NewServers(retyped, ServerMembers(sd)), match \in MatchesMe(sd) :
           td' = IF ~match THEN RemoveServer(AddNewServers(adopted, new), id)
                 ELSE LabelUnknownMember(AddNewServers(adopted, new), CurrentPrimary(sd),
                                         "PossiblePrimary")
    BY <1>16 DEF UpdateRsWithoutPrimary, retyped, t
  <2>2. retyped.servers = t.servers /\ retyped.maxServerId = t.maxServerId
    BY <1>3 DEF retyped, Spares, IsPicture
  <2>3. NewServers(retyped, ServerMembers(sd)) = NewServers(t, ServerMembers(t.servers[id]))
    <3>1. Addresses(retyped) = Addresses(t) /\ sd = t.servers[id]
      BY <2>2, Zenon DEF Addresses
    <3>2. NewServers(retyped, ServerMembers(t.servers[id])) = NewServers(t, ServerMembers(t.servers[id]))
      <4>1. retyped.maxServerId = t.maxServerId
        BY <2>2
      <4>2. Addresses(retyped) = Addresses(t)
        BY <3>1
      <4>3. QED BY <4>1, <4>2, ZenonT(30) DEF NewServers
    <3>3. QED BY <3>1, <3>2, Zenon
  <2>4. Spares(adopted, id)
    BY <1>6, SparesAdopted
  <2> HIDE DEF adopted
  <2>5. Spares(AddNewServers(adopted, new), id)
    BY <1>1, <1>4, <1>5, <2>3, <2>4, SparesAdded
  <2>6. QED BY <2>1, <2>5, SparesRemoved, SparesLabelled
<1>17. CASE UpdateRsWithPrimaryFromMember(id, r)
  <2> DEFINE labelled == LabelUnknownMember(retyped, CurrentPrimary(t.servers[id]), "PossiblePrimary")
  <2>1. td' \in {RemoveServer(t, id), labelled, t}
    BY <1>17 DEF UpdateRsWithPrimaryFromMember, t, retyped
  <2>2. Spares(labelled, id)
    BY <1>6, SparesLabelled
  <2> HIDE DEF labelled
  <2>3. QED BY <1>3, <2>1, <2>2, SparesRemoved
<1>18. QED
  BY <1>7, <1>8, <1>9, <1>10, <1>11, <1>12, <1>13, <1>14, <1>15, <1>16, <1>17 DEF HandleIsmaster

-----------------------------------------------------------------------------
(* What NULL replies leave of a picture.                                   *)

\* u is t, but for servers that are unknown now, and a type that follows from it.
Forgets(t, u) ==
    /\ IsPicture(u)
    /\ DOMAIN u.servers = DOMAIN t.servers
    /\ \A i \in DOMAIN t.servers :
          \/ u.servers[i] = t.servers[i]
          \/ /\ u.servers[i].address = t.servers[i].address
             /\ u.servers[i].type = "Unknown"
             /\ u.servers[i].lastIsMaster = None
    /\ u.setName = t.setName
    /\ u.maxSetVersion = t.maxSetVersion
    /\ u.maxElectionId = t.maxElectionId
    /\ u.maxServerId = t.maxServerId
    /\ \/ u.type = t.type
       \/ t.type = "RSWithPrimary" /\ u.type = "RSNoPrimary" /\ ~HasPrimary(u)

LEMMA InvalidationForgets ==
    ASSUME NEW t, IsPicture(t), NEW ids
    PROVE  Forgets(t, InvalidateServers(t, ids))
<1> DEFINE known == ids \cap DOMAIN t.servers
           sd(i) == IF i \in known THEN ServerHandleIsmaster(t.servers[i], None) ELSE t.servers[i]
           f == [i \in DOMAIN t.servers |-> sd(i)]
           u == [t EXCEPT !.servers = f]
           v == IF HasPrimary(u) THEN "RSWithPrimary" ELSE "RSNoPrimary"
           w == IF known # {} /\ u.type = "RSWithPrimary" THEN [u EXCEPT !.type = v] ELSE u
<1>1. InvalidateServers(t, ids) = w
  BY Zenon DEF InvalidateServers, UpdateRsType
<1>2. \A i \in DOMAIN t.servers :
         /\ sd(i) \in ServerDescription
         /\ \/ sd(i) = t.servers[i]
            \/ /\ sd(i).address = t.servers[i].address
               /\ sd(i).type = "Unknown"
               /\ sd(i).lastIsMaster = None
  <2> SUFFICES ASSUME NEW i \in DOMAIN t.servers
               PROVE  /\ sd(i) \in ServerDescription
                      /\ \/ sd(i) = t.servers[i]
                         \/ /\ sd(i).address = t.servers[i].address
                            /\ sd(i).type = "Unknown"
                            /\ sd(i).lastIsMaster = None
    OBVIOUS
  <2>1. t.servers[i] \in ServerDescription
    BY DEF IsPicture
  <2>2. CASE i \in known
    <3>1. sd(i) = ServerHandleIsmaster(t.servers[i], None)
      BY <2>2
    <3>2. ReplyServerType(None) = "Unknown"
      BY DEF ReplyServerType
    <3> HIDE DEF sd
    <3>3. QED BY <2>1, <3>1, <3>2, ParsedDescription
  <2>3. CASE i \notin known
    BY <2>1, <2>3
  <2>4. QED BY <2>2, <2>3
<1> HIDE DEF sd
<1>3. /\ f \in [DOMAIN t.servers -> ServerDescription]
      /\ \A i \in DOMAIN t.servers : f[i] = sd(i)
  BY <1>2
<1> HIDE DEF f
<1>4. /\ u = [type |-> t.type, servers |-> f, setName |-> t.setName,
              maxSetVersion |-> t.maxSetVersion, maxElectionId |-> t.maxElectionId,
              maxServerId |-> t.maxServerId]
      /\ u.type = t.type
  BY DEF IsPicture
<1> HIDE DEF u
<1>5. PICK type : /\ w = [type |-> type, servers |-> f, setName |-> t.setName,
                          maxSetVersion |-> t.maxSetVersion, maxElectionId |-> t.maxElectionId,
                          maxServerId |-> t.maxServerId]
                  /\ type = t.type \/ (t.type = "RSWithPrimary" /\ type = v)
  <2>1. CASE known # {} /\ u.type = "RSWithPrimary"
    <3>1. w = [u EXCEPT !.type = v]
      BY <2>1
    <3> HIDE DEF w, v
    <3>2. w = [type |-> v, servers |-> f, setName |-> t.setName,
               maxSetVersion |-> t.maxSetVersion, maxElectionId |-> t.maxElectionId,
               maxServerId |-> t.maxServerId]
      BY <1>4, <3>1
    <3>3. QED BY <1>4, <2>1, <3>2
  <2>2. CASE ~(known # {} /\ u.type = "RSWithPrimary")
    BY <1>4, <2>2
  <2>3. QED BY <2>1, <2>2
<1>6. HasPrimary(u) <=> HasPrimary(w)
  <2>1. u.servers = f /\ w.servers = f
    BY <1>4, <1>5
  <2> HIDE DEF w
  <2>2. QED BY <2>1, Zenon DEF HasPrimary
<1> HIDE DEF w
<1>7. /\ w.type = type /\ w.servers = f /\ w.setName = t.setName
      /\ w.maxSetVersion = t.maxSetVersion /\ w.maxElectionId = t.maxElectionId
      /\ w.maxServerId = t.maxServerId
  BY <1>5
<1>8. IsPicture(w)
  BY <1>3, <1>5, <1>7 DEF IsPicture
<1>9. w.type = t.type \/ (t.type = "RSWithPrimary" /\ w.type = "RSNoPrimary" /\ ~HasPrimary(w))
  BY <1>5, <1>6, <1>7
<1>10. Forgets(t, w)
  BY <1>2, <1>3, <1>7, <1>8, <1>9 DEF Forgets
<1>11. QED BY <1>1, <1>10

LEMMA ForgetsTwice ==
    ASSUME NEW t, NEW u, NEW v, Forgets(t, u), Forgets(u, v) PROVE Forgets(t, v)
<1>1. v.type = t.type \/ (t.type = "RSWithPrimary" /\ v.type = "RSNoPrimary" /\ ~HasPrimary(v))
  <2>1. ~HasPrimary(u) => ~HasPrimary(v)
    BY DEF Forgets, HasPrimary
  <2>2. QED BY <2>1 DEF Forgets
<1>2. \A i \in DOMAIN t.servers :
          \/ v.servers[i] = t.servers[i]
          \/ /\ v.servers[i].address = t.servers[i].address
             /\ v.servers[i].type = "Unknown"
             /\ v.servers[i].lastIsMaster = None
  BY DEF Forgets
<1>3. QED BY <1>1, <1>2 DEF Forgets

LEMMA ForgettingKeepsInv ==
    ASSUME Inv, Forgets(td, td') PROVE Inv' /\ ElectionStep /\ ServerIdStep /\ KindStep
<1>1. /\ td' = [type |-> td'.type, servers |-> td'.servers, setName |-> td'.setName,
                maxSetVersion |-> td'.maxSetVersion, maxElectionId |-> td'.maxElectionId,
                maxServerId |-> td'.maxServerId]
      /\ td'.servers \in [DOMAIN td'.servers -> ServerDescription]
      /\ DOMAIN td'.servers = DOMAIN td.servers
  BY DEF Forgets, IsPicture
<1>2. /\ td'.setName = td.setName /\ td'.maxSetVersion = td.maxSetVersion
      /\ td'.maxElectionId = td.maxElectionId /\ td'.maxServerId = td.maxServerId
  BY DEF Forgets
<1>3. \A i \in DOMAIN td.servers :
         /\ td'.servers[i].address = td.servers[i].address
         /\ td'.servers[i].type # "Unknown" => td'.servers[i] = td.servers[i]
  BY DEF Forgets
<1>4. \/ td'.type = td.type
      \/ /\ td.type = "RSWithPrimary" /\ td'.type = "RSNoPrimary"
         /\ \A i \in DOMAIN td.servers : td'.servers[i].type # "RSPrimary"
  BY <1>1 DEF Forgets, HasPrimary
<1>5. TypeOK'
  BY <1>1, <1>2, <1>4 DEF Inv, TypeOK, TopologyType
<1>6. AddressesAreUnique'
  BY <1>1, <1>3 DEF Inv, AddressesAreUnique
<1>7. SingleHasOneServer'
  BY <1>1, <1>4 DEF Inv, SingleHasOneServer
<1>8. ServersFitTopology'
  BY <1>1, <1>3, <1>4 DEF Inv, ServersFitTopology
<1>9. AtMostOnePrimary'
  BY <1>1, <1>3 DEF Inv, AtMostOnePrimary, IsPrimary
<1>10. MembersShareSetName'
  BY <1>1, <1>2, <1>3, <1>4 DEF Inv, MembersShareSetName, IsReplicaSet, SetNameOf
<1>11. PrimaryHoldsMaxElection'
  BY <1>1, <1>2, <1>3, <1>4 DEF Inv, PrimaryHoldsMaxElection, IsReplicaSet, IsPrimary
<1>12. PrimaryListsEveryServer'
  BY <1>1, <1>3, <1>4 DEF Inv, PrimaryListsEveryServer, IsReplicaSet, IsPrimary
<1>13. Inv'
  BY <1>5, <1>6, <1>7, <1>8, <1>9, <1>10, <1>11, <1>12 DEF Inv
<1>14. ElectionStep
  BY <1>2 DEF Inv, TypeOK, ElectionStep, ElectionBefore, NoSetVersion
<1>15. ServerIdStep
  BY <1>1, <1>2, <1>3 DEF Inv, TypeOK, ServerIdStep
<1>16. KindStep
  BY <1>2, <1>4 DEF KindStep, IsReplicaSet
<1>17. QED BY <1>13, <1>14, <1>15, <1>16

-----------------------------------------------------------------------------
(* What a step does to the picture, whoever takes it.                      *)

Known(id) == id = 0 \/ \E k \in DOMAIN nodes : nodes[k].id = id

\* The picture keeps its promises, and only server id, if any, answered something new.
Moves(id) ==
    /\ Inv'
    /\ ElectionStep /\ ServerIdStep /\ KindStep
    /\ \A j \in DOMAIN td'.servers :
          \/ j = id
          \/ td'.servers[j].lastIsMaster = None
          \/ j \in DOMAIN td.servers /\ td'.servers[j].lastIsMaster = td.servers[j].lastIsMaster

LEMMA ForgettingMoves == ASSUME Inv, Forgets(td, td') PROVE Moves(0)
<1>1. Inv' /\ ElectionStep /\ ServerIdStep /\ KindStep
  BY ForgettingKeepsInv
<1>2. QED BY <1>1 DEF Moves, Forgets

LEMMA StillnessMoves == ASSUME Inv, UNCHANGED td PROVE Moves(0)
<1>1. Inv'
  BY DEF Inv, TypeOK, AddressesAreUnique, SingleHasOneServer, ServersFitTopology,
         AtMostOnePrimary, IsPrimary, MembersShareSetName, IsReplicaSet,
         PrimaryHoldsMaxElection, PrimaryListsEveryServer
<1>2. ElectionStep
  BY DEF Inv, TypeOK, ElectionStep, ElectionBefore, NoSetVersion
<1>3. ServerIdStep /\ KindStep
  BY DEF Inv, TypeOK, ServerIdStep, KindStep, IsReplicaSet
<1>4. QED BY <1>1, <1>2, <1>3 DEF Moves

LEMMA InvalidationMoves ==
    ASSUME Inv, NEW ids, td' = InvalidateServers(td, ids) PROVE Moves(0) /\ Forgets(td, td')
<1>1. IsPicture(td)
  BY DEF Inv, TypeOK, IsPicture
<1>2. QED BY <1>1, InvalidationForgets, ForgettingMoves

LEMMA HandlingMoves ==
    ASSUME Inv, NEW id, NEW r \in Reply \cup {None}, Handle(id, r) PROVE Moves(id)
<1>1. CASE id \in DOMAIN td.servers
  <2>1. HandleIsmaster(id, r)
    BY <1>1 DEF Handle
  <2>2. Inv'
    BY <2>1, HandleIsmasterKeepsInv
  <2>3. ElectionStep /\ ServerIdStep /\ KindStep
    <3>1. CASE AcceptPrimary(id, r)
      BY <3>1, AcceptPrimaryKeepsInv
    <3>2. CASE UpdateRsWithoutPrimary(id, r)
      BY <3>2, UpdateRsWithoutPrimaryKeepsInv
    <3>3. CASE ~AcceptPrimary(id, r) /\ ~UpdateRsWithoutPrimary(id, r)
      BY <2>1, <3>3, QuietHandlers DEF Inv
    <3>4. QED BY <3>1, <3>2, <3>3
  <2>4. Spares(td', id)
    BY <1>1, <2>1, HandlersSpare
  <2>5. QED BY <2>2, <2>3, <2>4 DEF Moves, Spares, Heard
<1>2. CASE id \notin DOMAIN td.servers
  BY <1>2, StillnessMoves DEF Handle, Moves
<1>3. QED BY <1>1, <1>2

-----------------------------------------------------------------------------
(* What a step does to the nodes and the commands.                         *)

\* Nodes are distinct and fit the picture.
NodesFit ==
    /\ \A j, k \in DOMAIN nodes :
          nodes[j].id = nodes[k].id \/ nodes[j].address = nodes[k].address => j = k
    /\ NodesAgreeWithServers
    /\ NodesAreKnown
    /\ NewServersAreSilent

\* Commands are distinct and have their streams.
CommandsFit ==
    /\ cmds \in Seq(Nat \ {0})
    /\ \A c, d \in DOMAIN cmds : cmds[c] = cmds[d] => c = d
    /\ CommandsHaveStreams

\* At most streams and failures change.
SameNodes ==
    /\ nodes' \in Seq(NodeType)
    /\ DOMAIN nodes' = DOMAIN nodes
    /\ \A k \in DOMAIN nodes : /\ nodes'[k].id = nodes[k].id
                               /\ nodes'[k].address = nodes[k].address
                               /\ nodes'[k].retired = nodes[k].retired

LEMMA PartsOfScannerInv == ASSUME ScannerInv PROVE NodesFit /\ CommandsFit
BY DEF ScannerInv, NodesFit, CommandsFit, OneNodePerHost, ScannerTypeOK

LEMMA PartsOfNextScannerInv ==
    ASSUME Inv', ScannerTypeOK', NodesFit', CommandsFit', ExpiryIsInOrder', LeftBehindAreSilent'
    PROVE  ScannerInv'
BY DEF ScannerInv, NodesFit, CommandsFit, OneNodePerHost

LEMMA Listed == ASSUME NEW T, NEW list \in Seq(T) PROVE \A k \in DOMAIN list : list[k] \in T
OBVIOUS

LEMMA Relisted ==
    ASSUME NEW S, NEW T, NEW list \in Seq(S), NEW f, f \in [DOMAIN list -> T] PROVE f \in Seq(T)
OBVIOUS

LEMMA NodesAreTyped ==
    ASSUME ScannerInv
    PROVE  /\ nodes \in Seq(NodeType) /\ DOMAIN nodes = 1 .. Len(nodes) /\ Len(nodes) \in Nat
           /\ \A k \in DOMAIN nodes :
                 /\ nodes[k] \in NodeType
                 /\ nodes[k].id \in Nat \ {0} /\ nodes[k].id <= td.maxServerId
                 /\ nodes[k].address \in Address
                 /\ nodes[k].retired \in BOOLEAN /\ nodes[k].stream \in BOOLEAN
                 /\ nodes[k].failed \in BOOLEAN
<1>1. nodes \in Seq(NodeType) /\ \A k \in DOMAIN nodes : nodes[k].id <= td.maxServerId
  BY DEF ScannerInv, ScannerTypeOK, NodesAreKnown
<1>2. DOMAIN nodes = 1 .. Len(nodes) /\ Len(nodes) \in Nat
      /\ \A k \in DOMAIN nodes : nodes[k] \in NodeType
  BY <1>1
<1>3. QED BY <1>1, <1>2 DEF NodeType

LEMMA SameNodesFit ==
    ASSUME ScannerInv, NEW id, Known(id), Moves(id), SameNodes PROVE NodesFit'
<1>1. /\ DOMAIN td.servers \subseteq 1 .. td.maxServerId /\ td.maxServerId \in Nat
      /\ DOMAIN td'.servers \subseteq 1 .. td'.maxServerId /\ td'.maxServerId \in Nat
  BY DEF ScannerInv, Inv, Moves, TypeOK
<1>2. /\ td'.maxServerId >= td.maxServerId
      /\ \A j \in DOMAIN td'.servers :
            IF j \in DOMAIN td.servers THEN td'.servers[j].address = td.servers[j].address
            ELSE j > td.maxServerId
  BY DEF Moves, ServerIdStep
<1>3. NodesFit
  BY PartsOfScannerInv
<1>4. \A k \in DOMAIN nodes : nodes[k].id \in Nat \ {0} /\ nodes[k].id <= td.maxServerId
  BY NodesAreTyped
<1>5. \A j, k \in DOMAIN nodes' :
         nodes'[j].id = nodes'[k].id \/ nodes'[j].address = nodes'[k].address => j = k
  BY <1>3 DEF NodesFit, SameNodes
<1>6. NodesAgreeWithServers'
  <2> SUFFICES ASSUME NEW k \in DOMAIN nodes, nodes[k].id \in DOMAIN td'.servers
               PROVE  /\ ~nodes[k].retired
                      /\ nodes[k].address = td'.servers[nodes[k].id].address
    BY DEF NodesAgreeWithServers, SameNodes
  <2>1. nodes[k].id \in DOMAIN td.servers
    BY <1>1, <1>2, <1>4
  <2>2. QED BY <1>2, <1>3, <2>1 DEF NodesFit, NodesAgreeWithServers
<1>7. NodesAreKnown'
  <2> SUFFICES ASSUME NEW k \in DOMAIN nodes PROVE nodes[k].id <= td'.maxServerId
    BY DEF NodesAreKnown, SameNodes
  <2>1. QED BY <1>1, <1>2, <1>4
<1>8. NewServersAreSilent'
  <2> SUFFICES ASSUME NEW j \in DOMAIN td'.servers, \A k \in DOMAIN nodes : nodes[k].id # j
               PROVE  td'.servers[j].lastIsMaster = None
    BY DEF NewServersAreSilent, SameNodes
  <2>1. j # id
    BY <1>1 DEF Known
  <2>2. QED BY <1>3, <2>1 DEF Moves, NodesFit, NewServersAreSilent
<1>9. QED BY <1>5, <1>6, <1>7, <1>8 DEF NodesFit

\* Commands taken away, and streams only of theirs.
LEMMA FewerCommandsFit ==
    ASSUME CommandsFit, NEW places \in SUBSET DOMAIN cmds, cmds' = Sublist(cmds, places),
           SameNodes,
           \A c \in places, k \in DOMAIN nodes :
               nodes[k].id = cmds[c] /\ nodes[k].stream => nodes'[k].stream
    PROVE  CommandsFit' /\ \A d \in DOMAIN cmds' : \E c \in places : cmds'[d] = cmds[c]
<1>1. cmds \in Seq(Nat \ {0})
  BY DEF CommandsFit
<1>2. /\ cmds' \in Seq(Nat \ {0})
      /\ \A d \in DOMAIN cmds' : \E c \in places : cmds'[d] = cmds[c]
      /\ \A d, e \in DOMAIN cmds' : d # e =>
            \E c, b \in places : c # b /\ cmds'[d] = cmds[c] /\ cmds'[e] = cmds[b]
  BY <1>1, SublistHas
<1>3. \A d, e \in DOMAIN cmds' : cmds'[d] = cmds'[e] => d = e
  BY <1>2 DEF CommandsFit
<1>4. CommandsHaveStreams'
  BY <1>2, SMTT(30) DEF CommandsFit, CommandsHaveStreams, SameNodes
<1>5. QED BY <1>2, <1>3, <1>4 DEF CommandsFit

LEMMA CommandsAreTyped ==
    ASSUME ScannerInv
    PROVE  /\ cmds \in Seq(Nat \ {0}) /\ DOMAIN cmds = 1 .. Len(cmds) /\ Len(cmds) \in Nat
           /\ \A c \in DOMAIN cmds : cmds[c] \in Nat \ {0} /\ cmds[c] # None
<1>1. cmds \in Seq(Nat \ {0})
  BY DEF ScannerInv, ScannerTypeOK
<1>2. DOMAIN cmds = 1 .. Len(cmds) /\ Len(cmds) \in Nat
      /\ \A c \in DOMAIN cmds : cmds[c] \in Nat \ {0}
  BY <1>1
<1>3. QED BY <1>1, <1>2, NoneAssumption

-----------------------------------------------------------------------------
(* Between scans.                                                          *)

HandledType == [id : Nat \ {0}, drop : BOOLEAN] \cup {None}

\* No command is begun, and if server id answers it has none in flight.
LEMMA IdleStepKeepsInv ==
    ASSUME ScannerInv, Idle, NEW id, Known(id), Moves(id), SameNodes, CommandsFit',
           \A d \in DOMAIN cmds' : \E c \in DOMAIN cmds : cmds'[d] = cmds[c],
           \A c \in DOMAIN cmds : cmds[c] # id,
           UNCHANGED <<scan, cursor, assertion>>, handled' \in HandledType
    PROVE  ScannerInv'
<1>1. scan = "off" /\ scan' = "off" /\ cursor' = cursor /\ assertion' = assertion
  BY DEF Idle
<1>2. cursor = None
  BY <1>1 DEF ScannerInv, ExpiryIsInOrder
<1>3. NodesFit'
  BY SameNodesFit
<1>4. ScannerTypeOK'
  BY <1>1, <1>2 DEF ScannerInv, ScannerTypeOK, CommandsFit, SameNodes, HandledType
<1>5. ExpiryIsInOrder'
  BY <1>1, <1>2 DEF ExpiryIsInOrder
<1>6. LeftBehindAreSilent'
  <2> SUFFICES ASSUME NEW c \in DOMAIN cmds, cmds[c] \in DOMAIN td'.servers
               PROVE  td'.servers[cmds[c]].lastIsMaster = None
    BY DEF LeftBehindAreSilent
  <2>1. QED BY <1>1 DEF Moves, ScannerInv, LeftBehindAreSilent
<1>7. Inv'
  BY DEF Moves
<1>8. QED BY <1>3, <1>4, <1>5, <1>6, <1>7, PartsOfNextScannerInv

\* The one node that get_node finds.
LEMMA PositionsAreOne ==
    ASSUME ScannerInv, NEW id
    PROVE  /\ Positions(id) \in SUBSET DOMAIN nodes
           /\ \A k \in Positions(id) : nodes[k].id = id
           /\ \A k \in Positions(id), j \in DOMAIN nodes : nodes[j].id = id => j = k
BY DEF Positions, ScannerInv, OneNodePerHost

LEMMA StreamsChanged ==
    ASSUME ScannerInv, NEW id, NEW b \in BOOLEAN,
           nodes' = [k \in DOMAIN nodes |->
                        IF k \in Positions(id) THEN [nodes[k] EXCEPT !.stream = b] ELSE nodes[k]]
    PROVE  /\ SameNodes
           /\ \A k \in DOMAIN nodes : nodes'[k].stream = IF k \in Positions(id) THEN b ELSE nodes[k].stream
<1> DEFINE n(k) == IF k \in Positions(id) THEN [nodes[k] EXCEPT !.stream = b] ELSE nodes[k]
<1>1. \A k \in DOMAIN nodes : /\ n(k) \in NodeType
                              /\ n(k).id = nodes[k].id
                              /\ n(k).address = nodes[k].address
                              /\ n(k).retired = nodes[k].retired
                              /\ n(k).stream = IF k \in Positions(id) THEN b ELSE nodes[k].stream
  <2>1. \A k \in DOMAIN nodes : nodes[k] \in NodeType
    BY NodesAreTyped
  <2>2. QED BY <2>1 DEF NodeType
<1>2. nodes' = [k \in DOMAIN nodes |-> n(k)]
  OBVIOUS
<1> HIDE DEF n
<1>3. nodes' \in [DOMAIN nodes -> NodeType]
  BY <1>1, <1>2
<1>4. nodes' \in Seq(NodeType)
  BY <1>3, NodesAreTyped, Relisted
<1>5. DOMAIN nodes' = DOMAIN nodes /\ \A k \in DOMAIN nodes : nodes'[k] = n(k)
  BY <1>2
<1>6. QED BY <1>1, <1>4, <1>5 DEF SameNodes

LEMMA StillNodes == ASSUME ScannerInv, UNCHANGED nodes PROVE SameNodes
<1>1. nodes \in Seq(NodeType)
  BY NodesAreTyped
<1>2. QED BY <1>1 DEF SameNodes

LEMMA DisconnectingFits ==
    ASSUME ScannerInv, NEW id, Disconnect(id)
    PROVE  /\ SameNodes /\ CommandsFit'
           /\ \A d \in DOMAIN cmds' : \E c \in DOMAIN cmds : cmds'[d] = cmds[c]
<1>1. /\ SameNodes
      /\ \A k \in DOMAIN nodes : nodes'[k].stream = IF k \in Positions(id) THEN FALSE ELSE nodes[k].stream
  BY StreamsChanged DEF Disconnect
<1>2. CommandsFit
  BY PartsOfScannerInv
<1>3. CASE \E k \in Positions(id) : nodes[k].stream
  <2> DEFINE places == {c \in DOMAIN cmds : cmds[c] # id}
  <2>1. cmds' = Sublist(cmds, places)
    BY <1>3 DEF Disconnect, Without
  <2>2. \A c \in places, k \in DOMAIN nodes :
           nodes[k].id = cmds[c] /\ nodes[k].stream => nodes'[k].stream
    BY <1>1, PositionsAreOne
  <2>3. places \in SUBSET DOMAIN cmds
    OBVIOUS
  <2> HIDE DEF places
  <2>4. QED BY <1>1, <1>2, <2>1, <2>2, <2>3, FewerCommandsFit
<1>4. CASE ~\E k \in Positions(id) : nodes[k].stream
  <2>1. cmds' = cmds
    BY <1>4 DEF Disconnect
  <2>2. \A k \in DOMAIN nodes : nodes[k].stream => nodes'[k].stream
    BY <1>1, <1>4
  <2>3. CommandsHaveStreams'
    BY <1>1, <1>2, <2>1, <2>2 DEF CommandsFit, CommandsHaveStreams, SameNodes
  <2>4. QED BY <1>1, <1>2, <2>1, <2>3 DEF CommandsFit
<1>5. QED BY <1>3, <1>4

LEMMA StillCommands ==
    ASSUME ScannerInv, SameNodes, UNCHANGED cmds,
           \A k \in DOMAIN nodes : nodes[k].stream => nodes'[k].stream
    PROVE  /\ CommandsFit'
           /\ \A d \in DOMAIN cmds' : \E c \in DOMAIN cmds : cmds'[d] = cmds[c]
<1>1. CommandsFit
  BY PartsOfScannerInv
<1>2. CommandsHaveStreams'
  BY <1>1 DEF CommandsFit, CommandsHaveStreams, SameNodes
<1>3. QED BY <1>1, <1>2 DEF CommandsFit

\* A server that can be used has answered: it has no command in flight.
LEMMA UsableHasNoCommand ==
    ASSUME ScannerInv, Idle, NEW id, Usable(id)
    PROVE  id \in DOMAIN td.servers /\ Known(id) /\ \A c \in DOMAIN cmds : cmds[c] # id
<1>1. id \in DOMAIN td.servers /\ td.servers[id].lastIsMaster # None
  BY DEF Usable, ServerNewCopy, ServerInit
<1>2. \A c \in DOMAIN cmds : cmds[c] # id
  BY <1>1 DEF ScannerInv, LeftBehindAreSilent, Idle
<1>3. Known(id)
  BY PositionsAreOne DEF Usable, HasStream, Known
<1>4. QED BY <1>1, <1>2, <1>3

LEMMA NobodyIsZero == ASSUME ScannerInv PROVE Known(0) /\ \A c \in DOMAIN cmds : cmds[c] # 0
BY CommandsAreTyped DEF Known

LEMMA HandledIsTyped == ScannerInv => handled \in HandledType
BY DEF ScannerInv, ScannerTypeOK, HandledType

LEMMA UseFailsKeepsInv ==
    ASSUME ScannerInv, NEW id, UseFails(id) PROVE ScannerInv' /\ Moves(0)
<1>1. Moves(0)
  BY InvalidationMoves DEF UseFails, ScannerInv
<1>2. QED BY <1>1, DisconnectingFits, NobodyIsZero, HandledIsTyped, IdleStepKeepsInv DEF UseFails

LEMMA ConnectFailsKeepsInv ==
    ASSUME ScannerInv, NEW id, ConnectFails(id) PROVE ScannerInv' /\ Moves(0)
<1>1. Moves(0)
  BY InvalidationMoves DEF ConnectFails, ScannerInv
<1>2. SameNodes
  BY StillNodes DEF ConnectFails
<1>3. /\ CommandsFit'
      /\ \A d \in DOMAIN cmds' : \E c \in DOMAIN cmds : cmds'[d] = cmds[c]
  BY <1>2, StillCommands DEF ConnectFails
<1>4. QED BY <1>1, <1>2, <1>3, NobodyIsZero, HandledIsTyped, IdleStepKeepsInv DEF ConnectFails

LEMMA DropKeepsInv ==
    ASSUME ScannerInv, NEW id, Drop(id) PROVE ScannerInv' /\ Moves(0)
<1>1. Moves(0)
  BY InvalidationMoves, StillnessMoves DEF Drop, ScannerInv
<1>2. QED BY <1>1, DisconnectingFits, NobodyIsZero, HandledIsTyped, IdleStepKeepsInv DEF Drop

LEMMA PingKeepsInv ==
    ASSUME ScannerInv, NEW id, NEW r \in Reply, Ping(id, r) PROVE ScannerInv' /\ Moves(id)
<1>1. id \in DOMAIN td.servers /\ Known(id) /\ \A c \in DOMAIN cmds : cmds[c] # id
  BY UsableHasNoCommand DEF Ping
<1>2. Moves(id)
  BY <1>1, HandlingMoves DEF Ping, ScannerInv, Handle
<1>3. /\ SameNodes /\ CommandsFit'
      /\ \A d \in DOMAIN cmds' : \E c \in DOMAIN cmds : cmds'[d] = cmds[c]
  <2>1. CASE UNCHANGED <<nodes, cmds>>
    BY <2>1, StillNodes, StillCommands
  <2>2. CASE Disconnect(id)
    BY <2>2, DisconnectingFits
  <2>3. QED BY <2>1, <2>2 DEF Ping
<1>4. QED BY <1>1, <1>2, <1>3, HandledIsTyped, IdleStepKeepsInv DEF Ping

LEMMA HandshakeKeepsInv ==
    ASSUME ScannerInv, NEW id \in Nat \ {0}, NEW r \in Reply, Handshake(id, r)
    PROVE  ScannerInv' /\ Moves(id)
<1>1. PICK k \in Positions(id) : ~nodes[k].stream
  BY DEF Handshake, NotConnected
<1>2. Known(id)
  BY <1>1, PositionsAreOne DEF Known
<1>3. \A c \in DOMAIN cmds : cmds[c] # id
  BY <1>1, PositionsAreOne DEF ScannerInv, CommandsHaveStreams
<1>4. Moves(id)
  BY HandlingMoves DEF Handshake, ScannerInv
<1>5. /\ SameNodes
      /\ \A j \in DOMAIN nodes : nodes'[j].stream = IF j \in Positions(id) THEN TRUE ELSE nodes[j].stream
  BY StreamsChanged DEF Handshake
<1>6. /\ CommandsFit'
      /\ \A d \in DOMAIN cmds' : \E c \in DOMAIN cmds : cmds'[d] = cmds[c]
  BY <1>5, StillCommands DEF Handshake
<1>7. handled' \in HandledType
  BY DEF Handshake, HandledType
<1>8. QED BY <1>2, <1>3, <1>4, <1>5, <1>6, <1>7, IdleStepKeepsInv DEF Handshake

-----------------------------------------------------------------------------
(* In a scan.                                                              *)

\* What a sublist has first.
LEMMA SublistHead ==
    ASSUME NEW T, NEW list \in Seq(T), NEW places \in SUBSET DOMAIN list,
           NEW m \in places, \A x \in places : ~(x < m)
    PROVE  Sublist(list, places) # <<>> /\ Sublist(list, places)[1] = list[m]
<1>1. PICK e : TakesOut(e, list, places)
  BY SublistTakesOut
<1> DEFINE n == Cardinality(places)
           s == Sublist(list, places)
<1>2. /\ n \in Nat /\ e \in [1 .. n -> places] /\ s = [i \in 1 .. n |-> list[e[i]]]
      /\ \A i, j \in 1 .. n : i < j => e[i] < e[j]
      /\ \E i \in 1 .. n : e[i] = m
  BY <1>1 DEF TakesOut
<1> HIDE DEF n, s
<1>3. PICK i \in 1 .. n : e[i] = m
  BY <1>2
<1>4. i = 1
  <2>1. 1 \in 1 .. n /\ i \in Nat /\ (i = 1 \/ 1 < i)
    BY <1>2
  <2>2. e[1] \in places
    BY <1>2, <2>1
  <2>3. 1 < i => e[1] < m
    BY <1>2, <1>3, <2>1
  <2>4. QED BY <2>1, <2>2, <2>3
<1>5. s[1] = list[m] /\ 1 \in DOMAIN s
  BY <1>2, <1>3, <1>4
<1>6. s # <<>>
  BY <1>5
<1>7. QED BY <1>5, <1>6 DEF s

\* Zero is nobody's id.
LEMMA StillMoves == ASSUME NEW id, Moves(0) PROVE Moves(id)
<1>1. 0 \notin DOMAIN td'.servers
  BY DEF Moves, Inv, TypeOK
<1>2. QED BY <1>1 DEF Moves

\* The process aborts: nothing else changes.
LEMMA AbortingKeepsInv ==
    ASSUME ScannerInv, UNCHANGED <<td, nodes, cmds, scan, cursor, handled>>,
           assertion' \in {None, "!node->cmd", "!node->retired",
                           "scanner_node && !scanner_node->retired"}
    PROVE  ScannerInv' /\ Moves(0)
<1>1. Moves(0)
  BY StillnessMoves DEF ScannerInv
<1>2. SameNodes /\ CommandsFit'
  BY StillNodes, StillCommands
<1>3. NodesFit'
  BY <1>1, <1>2, NobodyIsZero, SameNodesFit
<1>4. ScannerTypeOK' /\ ExpiryIsInOrder' /\ LeftBehindAreSilent'
  BY DEF ScannerInv, ScannerTypeOK, ExpiryIsInOrder, LeftBehindAreSilent
<1>5. QED BY <1>1, <1>2, <1>3, <1>4, PartsOfNextScannerInv DEF Moves

LEMMA ExpireKeepsInv == ASSUME ScannerInv, Expire PROVE ScannerInv' /\ Moves(0)
<1>1. Moves(0)
  BY StillnessMoves DEF ScannerInv, Expire
<1>2. SameNodes /\ CommandsFit'
  BY StillNodes, StillCommands DEF Expire
<1>3. NodesFit'
  BY <1>1, <1>2, NobodyIsZero, SameNodesFit
<1>4. 1 \in DOMAIN cmds /\ cursor' = cmds[1] /\ cursor' # None /\ scan' = "expiring"
      /\ handled = None /\ handled' = None
  BY CommandsAreTyped DEF Expire
<1>5. ScannerTypeOK'
  BY <1>4 DEF ScannerInv, ScannerTypeOK, Expire
<1>6. ExpiryIsInOrder' /\ LeftBehindAreSilent'
  BY <1>4 DEF ExpiryIsInOrder, LeftBehindAreSilent, Expire
<1>7. QED BY <1>1, <1>2, <1>3, <1>5, <1>6, PartsOfNextScannerInv DEF Moves

\* A command ends, and nothing is left of it.
LEMMA EndingFits ==
    ASSUME ScannerInv, handled = None, NEW c \in DOMAIN cmds, NEW r \in Reply \cup {None},
           CommandEnds(cmds[c], r)
    PROVE  /\ Known(cmds[c]) /\ Moves(cmds[c]) /\ SameNodes /\ NodesFit' /\ CommandsFit'
           /\ cmds' = Sublist(cmds, DOMAIN cmds \ {c})
           /\ \A d \in DOMAIN cmds' : \E b \in DOMAIN cmds \ {c} : cmds'[d] = cmds[b]
           /\ handled' \in HandledType
           /\ handled' = None \/ handled' = [id |-> cmds[c], drop |-> FALSE]
<1> DEFINE id == cmds[c]
           places == {d \in DOMAIN cmds : cmds[d] # id}
<1>1. CommandsFit
  BY PartsOfScannerInv
<1>2. PICK k \in DOMAIN nodes : /\ nodes[k].id = id
                                /\ \A j \in DOMAIN nodes : nodes[j].id = id => j = k
  BY <1>1 DEF CommandsFit, CommandsHaveStreams, ScannerInv, OneNodePerHost
<1>3. Place(id) = k
  BY <1>2 DEF Place
<1>4. places = DOMAIN cmds \ {c}
  BY <1>1 DEF CommandsFit
<1>5. cmds' = Sublist(cmds, places)
  BY DEF CommandEnds, Without
<1>6. Known(id)
  BY <1>2 DEF Known
<1>7. /\ Moves(id) /\ SameNodes
      /\ \A j \in DOMAIN nodes : j # k /\ nodes[j].stream => nodes'[j].stream
      /\ handled' = None \/ handled' = [id |-> id, drop |-> FALSE]
  <2> HIDE DEF id
  <2>1. CASE nodes[k].retired
    <3>1. UNCHANGED <<td, nodes, handled>>
      BY <1>3, <2>1 DEF CommandEnds, id
    <3>2. Moves(id)
      BY <3>1, StillnessMoves, StillMoves DEF ScannerInv
    <3>3. QED BY <3>1, <3>2, StillNodes
  <2>2. CASE ~nodes[k].retired
    <3> DEFINE s == nodes[k].stream /\ r # None
               f == (r = None)
    <3>1. /\ nodes' = [nodes EXCEPT ![k].stream = s, ![k].failed = f]
          /\ Handle(id, r)
          /\ handled' = [id |-> id, drop |-> FALSE]
      BY <1>3, <2>2 DEF CommandEnds, id
    <3>2. Moves(id)
      BY <3>1, HandlingMoves DEF ScannerInv
    <3>3. s \in BOOLEAN /\ f \in BOOLEAN
      BY NodesAreTyped
    <3> HIDE DEF s, f
    <3>4. PICK middle : middle = [nodes EXCEPT ![k].stream = s]
      OBVIOUS
    <3>5. nodes' = [middle EXCEPT ![k].failed = f]
      BY <3>1, <3>4
    <3>6. /\ middle \in [DOMAIN nodes -> NodeType]
          /\ middle[k].id = nodes[k].id /\ middle[k].address = nodes[k].address
          /\ middle[k].retired = nodes[k].retired
          /\ \A j \in DOMAIN nodes : j # k => middle[j] = nodes[j]
      BY <3>3, <3>4, NodesAreTyped DEF NodeType
    <3>7. /\ nodes' \in [DOMAIN nodes -> NodeType]
          /\ nodes'[k].id = middle[k].id /\ nodes'[k].address = middle[k].address
          /\ nodes'[k].retired = middle[k].retired
          /\ \A j \in DOMAIN nodes : j # k => nodes'[j] = middle[j]
      BY <3>3, <3>5, <3>6 DEF NodeType
    <3>8. nodes' \in Seq(NodeType) /\ DOMAIN nodes' = DOMAIN nodes
      BY <3>7, NodesAreTyped, Relisted
    <3>9. SameNodes
      BY <3>6, <3>7, <3>8 DEF SameNodes
    <3>10. QED BY <3>1, <3>2, <3>6, <3>7, <3>9
  <2>3. QED BY <2>1, <2>2
<1>8. CommandsFit' /\ \A d \in DOMAIN cmds' : \E b \in places : cmds'[d] = cmds[b]
  <2>1. \A b \in places, j \in DOMAIN nodes :
           nodes[j].id = cmds[b] /\ nodes[j].stream => nodes'[j].stream
    BY <1>2, <1>7
  <2>2. places \in SUBSET DOMAIN cmds
    OBVIOUS
  <2> HIDE DEF places
  <2>3. QED BY <1>1, <1>5, <1>7, <2>1, <2>2, FewerCommandsFit
<1>9. NodesFit'
  BY <1>6, <1>7, SameNodesFit
<1>10. handled' \in HandledType
  <2>1. id \in Nat \ {0}
    BY CommandsAreTyped
  <2>2. None \in HandledType /\ \A x \in Nat \ {0} : [id |-> x, drop |-> FALSE] \in HandledType
    BY DEF HandledType
  <2>3. handled' = None \/ handled' = [id |-> id, drop |-> FALSE]
    BY <1>7
  <2>4. QED BY <2>1, <2>2, <2>3
<1> HIDE DEF places
<1>11. QED BY <1>4, <1>5, <1>6, <1>7, <1>8, <1>9, <1>10

LEMMA AnswerKeepsInv == ASSUME ScannerInv, Answer PROVE ScannerInv' /\ \E id : Moves(id)
<1>1. PICK c \in DOMAIN cmds, r \in Reply \cup {None} : CommandEnds(cmds[c], r)
  BY DEF Answer
<1>2. /\ Moves(cmds[c]) /\ SameNodes /\ NodesFit' /\ CommandsFit'
      /\ handled' \in HandledType
      /\ handled' = None \/ handled' = [id |-> cmds[c], drop |-> FALSE]
  BY <1>1, EndingFits DEF Answer
<1>3. scan' = "running" /\ cursor' = None /\ cmds[c] \in Nat \ {0} /\ assertion' = assertion
  BY CommandsAreTyped DEF Answer, ScannerInv, ExpiryIsInOrder
<1>4. ScannerTypeOK'
  BY <1>2, <1>3 DEF ScannerInv, ScannerTypeOK, SameNodes, CommandsFit, HandledType
<1>5. ExpiryIsInOrder' /\ LeftBehindAreSilent'
  BY <1>2, <1>3 DEF ExpiryIsInOrder, LeftBehindAreSilent
<1>6. QED BY <1>2, <1>4, <1>5, PartsOfNextScannerInv DEF Moves

LEMMA ExpireCommandKeepsInv ==
    ASSUME ScannerInv, ExpireCommand PROVE ScannerInv' /\ \E id : Moves(id)
<1>1. /\ DOMAIN cmds = 1 .. Len(cmds) /\ Len(cmds) \in Nat /\ cmds \in Seq(Nat \ {0})
      /\ \A c \in DOMAIN cmds : cmds[c] \in Nat \ {0} /\ cmds[c] # None
  BY CommandsAreTyped
<1>2. 1 \in DOMAIN cmds /\ cursor = cmds[1] /\ handled = None /\ scan = "expiring"
  BY <1>1 DEF ExpireCommand, ScannerInv, ExpiryIsInOrder
<1>3. cursor' = IF 1 = Len(cmds) THEN None ELSE cmds[2]
  <2>1. PICK c \in DOMAIN cmds : cmds[c] = cursor /\ cursor' = IF c = Len(cmds) THEN None ELSE cmds[c + 1]
    BY DEF ExpireCommand
  <2>2. c = 1
    BY <1>2, <2>1 DEF ScannerInv, OneNodePerHost
  <2>3. QED BY <2>1, <2>2
<1>4. /\ Moves(cmds[1]) /\ SameNodes /\ NodesFit' /\ CommandsFit'
      /\ cmds' = Sublist(cmds, DOMAIN cmds \ {1})
      /\ \A d \in DOMAIN cmds' : \E b \in DOMAIN cmds \ {1} : cmds'[d] = cmds[b]
      /\ handled' \in HandledType
      /\ handled' = None \/ handled' = [id |-> cmds[1], drop |-> FALSE]
  <2>1. CommandEnds(cmds[1], None)
    BY <1>2 DEF ExpireCommand
  <2>2. QED BY <1>2, <2>1, EndingFits
<1>5. scan' = "expiring" /\ assertion' = assertion
  BY <1>2 DEF ExpireCommand
<1>6. CASE Len(cmds) = 1
  <2>1. cursor' = None /\ DOMAIN cmds' = {}
    <3>1. DOMAIN cmds \ {1} = {}
      BY <1>1, <1>6
    <3>2. QED BY <1>3, <1>4, <1>6, <3>1
  <2>2. ScannerTypeOK'
    BY <1>1, <1>2, <1>4, <1>5, <2>1 DEF ScannerInv, ScannerTypeOK, SameNodes, CommandsFit, HandledType
  <2>3. ExpiryIsInOrder' /\ LeftBehindAreSilent'
    BY <1>4, <2>1 DEF ExpiryIsInOrder, LeftBehindAreSilent
  <2>4. QED BY <1>4, <2>2, <2>3, PartsOfNextScannerInv DEF Moves
<1>7. CASE Len(cmds) # 1
  <2>1. 2 \in DOMAIN cmds \ {1} /\ \A x \in DOMAIN cmds \ {1} : ~(x < 2)
    BY <1>1, <1>2, <1>7
  <2>2. cmds' # <<>> /\ cmds'[1] = cmds[2]
    BY <1>1, <1>4, <2>1, SublistHead
  <2>3. cursor' = cmds'[1] /\ cursor' # None
    BY <1>1, <1>3, <1>7, <2>1, <2>2
  <2>4. 1 \in DOMAIN cmds'
    BY <1>4, <2>2 DEF CommandsFit
  <2>5. ScannerTypeOK'
    BY <1>1, <1>2, <1>4, <1>5, <2>3, <2>4 DEF ScannerInv, ScannerTypeOK, SameNodes, CommandsFit, HandledType
  <2>6. ExpiryIsInOrder' /\ LeftBehindAreSilent'
    BY <1>4, <1>5, <2>2, <2>3 DEF ExpiryIsInOrder, LeftBehindAreSilent
  <2>7. QED BY <1>4, <2>5, <2>6, PartsOfNextScannerInv DEF Moves
<1>8. QED BY <1>6, <1>7

NothingTwice(s) == \A c, d \in DOMAIN s : s[c] = s[d] => c = d

\* List u has what s has, in its places, and then what t has.
Joins(u, s, t) ==
    /\ \A c \in DOMAIN s : c \in DOMAIN u /\ u[c] = s[c]
    /\ \A c \in DOMAIN u : \/ c \in DOMAIN s /\ u[c] = s[c]
                           \/ \E d \in DOMAIN t : u[c] = t[d]

\* One list after another, with nothing twice.
LEMMA Concatenated ==
    ASSUME NEW T, NEW s \in Seq(T), NEW t \in Seq(T), NothingTwice(s), NothingTwice(t),
           \A c \in DOMAIN s, d \in DOMAIN t : s[c] # t[d]
    PROVE  s \o t \in Seq(T) /\ Joins(s \o t, s, t) /\ NothingTwice(s \o t)
<1> DEFINE u == s \o t
<1>1. /\ u \in Seq(T) /\ Len(s) \in Nat /\ Len(t) \in Nat /\ DOMAIN s = 1 .. Len(s)
      /\ DOMAIN t = 1 .. Len(t) /\ DOMAIN u = 1 .. Len(s) + Len(t)
      /\ \A c \in 1 .. Len(s) + Len(t) : u[c] = IF c <= Len(s) THEN s[c] ELSE t[c - Len(s)]
  OBVIOUS
<1> HIDE DEF u
<1>2. \A c \in DOMAIN s : c \in DOMAIN u /\ u[c] = s[c]
  BY <1>1
<1>3. \A c \in DOMAIN u : \/ c \in DOMAIN s /\ u[c] = s[c]
                          \/ c - Len(s) \in DOMAIN t /\ u[c] = t[c - Len(s)]
  BY <1>1
<1>4. ASSUME NEW c \in DOMAIN u, NEW d \in DOMAIN u, u[c] = u[d] PROVE c = d
  <2>1. c \in Int /\ d \in Int /\ Len(s) \in Int
    BY <1>1
  <2>2. CASE c - Len(s) \in DOMAIN t /\ d - Len(s) \in DOMAIN t
             /\ t[c - Len(s)] = t[d - Len(s)]
    <3>1. c - Len(s) = d - Len(s)
      BY <2>2 DEF NothingTwice
    <3>2. QED BY <2>1, <3>1
  <2>3. QED BY <1>3, <1>4, <2>2 DEF NothingTwice
<1>5. \A c \in DOMAIN u : \/ c \in DOMAIN s /\ u[c] = s[c]
                          \/ \E d \in DOMAIN t : u[c] = t[d]
  BY <1>3
<1>6. u \in Seq(T) /\ Joins(u, s, t) /\ NothingTwice(u)
  BY <1>1, <1>2, <1>4, <1>5 DEF Joins, NothingTwice
<1>7. QED BY <1>6 DEF u

LEMMA StartScanKeepsInv == ASSUME ScannerInv, StartScan PROVE ScannerInv' /\ Moves(0)
<1>1. PICK due \in DueSets :
         /\ \A k \in due : ~Offends(k)
         /\ \E refused \in SUBSET {k \in due : ~nodes[k].stream} :
               LET asked == Sublist(nodes, due \ refused)
               IN /\ nodes' = [k \in DOMAIN nodes |->
                        IF k \in due \ refused THEN [nodes[k] EXCEPT !.stream = TRUE] ELSE nodes[k]]
                  /\ cmds' = cmds \o [i \in DOMAIN asked |-> asked[i].id]
                  /\ td' = InvalidateServers(td, {nodes[k].id : k \in refused})
  BY DEF StartScan
<1>2. PICK refused \in SUBSET {k \in due : ~nodes[k].stream} :
               LET asked == Sublist(nodes, due \ refused)
               IN /\ nodes' = [k \in DOMAIN nodes |->
                        IF k \in due \ refused THEN [nodes[k] EXCEPT !.stream = TRUE] ELSE nodes[k]]
                  /\ cmds' = cmds \o [i \in DOMAIN asked |-> asked[i].id]
                  /\ td' = InvalidateServers(td, {nodes[k].id : k \in refused})
  BY <1>1
<1> DEFINE places == due \ refused
           asked == Sublist(nodes, places)
           ids == [i \in DOMAIN asked |-> asked[i].id]
<1>3. /\ nodes' = [k \in DOMAIN nodes |->
                      IF k \in places THEN [nodes[k] EXCEPT !.stream = TRUE] ELSE nodes[k]]
      /\ cmds' = cmds \o ids
      /\ td' = InvalidateServers(td, {nodes[k].id : k \in refused})
  BY <1>2
<1>4. places \in SUBSET DOMAIN nodes /\ places \in SUBSET due
  BY DEF DueSets
<1> HIDE DEF places
<1>5. Moves(0)
  BY <1>3, InvalidationMoves DEF ScannerInv
<1>6. /\ SameNodes
      /\ \A k \in DOMAIN nodes : nodes'[k].stream = IF k \in places THEN TRUE ELSE nodes[k].stream
  <2> DEFINE n(k) == IF k \in places THEN [nodes[k] EXCEPT !.stream = TRUE] ELSE nodes[k]
  <2>1. \A k \in DOMAIN nodes : /\ n(k) \in NodeType
                                /\ n(k).id = nodes[k].id
                                /\ n(k).address = nodes[k].address
                                /\ n(k).retired = nodes[k].retired
                                /\ n(k).stream = IF k \in places THEN TRUE ELSE nodes[k].stream
    BY NodesAreTyped DEF NodeType
  <2>2. nodes' = [k \in DOMAIN nodes |-> n(k)]
    BY <1>3
  <2> HIDE DEF n
  <2>3. nodes' \in [DOMAIN nodes -> NodeType] /\ \A k \in DOMAIN nodes : nodes'[k] = n(k)
    BY <2>1, <2>2
  <2>4. nodes' \in Seq(NodeType)
    BY <2>3, NodesAreTyped, Relisted
  <2>5. QED BY <2>1, <2>3, <2>4 DEF SameNodes
<1>7. NodesFit'
  BY <1>5, <1>6, NobodyIsZero, SameNodesFit
<1>8. /\ asked \in Seq(NodeType)
      /\ \A i \in DOMAIN asked : \E k \in places : asked[i] = nodes[k]
      /\ \A i, j \in DOMAIN asked : i # j =>
            \E k, l \in places : k # l /\ asked[i] = nodes[k] /\ asked[j] = nodes[l]
  <2>1. nodes \in Seq(NodeType)
    BY NodesAreTyped
  <2>2. QED BY <1>4, <2>1, SublistHas
<1> HIDE DEF asked
<1>9. CommandsFit
  BY PartsOfScannerInv
<1>10. /\ ids \in Seq(Nat \ {0}) /\ DOMAIN ids = DOMAIN asked
       /\ \A i \in DOMAIN ids : \E k \in places : ids[i] = nodes[k].id
       /\ \A i, j \in DOMAIN ids : ids[i] = ids[j] => i = j
  <2>1. \A i \in DOMAIN asked : asked[i].id \in Nat \ {0}
    BY <1>4, <1>8, NodesAreTyped
  <2>2. ids \in Seq(Nat \ {0})
    BY <1>8, <2>1
  <2>3. DOMAIN ids = DOMAIN asked /\ \A i \in DOMAIN asked : ids[i] = asked[i].id
    OBVIOUS
  <2> HIDE DEF ids
  <2>4. \A i \in DOMAIN ids : \E k \in places : ids[i] = nodes[k].id
    BY <1>8, <2>3
  <2>5. ASSUME NEW i \in DOMAIN ids, NEW j \in DOMAIN ids, i # j PROVE ids[i] # ids[j]
    <3>1. PICK k \in places, l \in places : k # l /\ asked[i] = nodes[k] /\ asked[j] = nodes[l]
      BY <1>8, <2>3, <2>5
    <3>2. nodes[k].id # nodes[l].id
      BY <1>4, <3>1 DEF ScannerInv, OneNodePerHost
    <3>3. QED BY <2>3, <3>1, <3>2
  <2>6. QED BY <2>2, <2>3, <2>4, <2>5
<1> HIDE DEF ids
<1>11. \A c \in DOMAIN cmds, i \in DOMAIN ids : cmds[c] # ids[i]
  <2> SUFFICES ASSUME NEW c \in DOMAIN cmds, NEW k \in places PROVE cmds[c] # nodes[k].id
    BY <1>10
  <2>1. CASE nodes[k].stream
    BY <1>1, <1>4, <2>1 DEF Offends
  <2>2. CASE ~nodes[k].stream
    BY <1>4, <1>9, <2>2 DEF CommandsFit, CommandsHaveStreams, ScannerInv, OneNodePerHost
  <2>3. QED BY <2>1, <2>2
<1>12. /\ cmds' \in Seq(Nat \ {0})
       /\ \A c \in DOMAIN cmds' : \/ c \in DOMAIN cmds /\ cmds'[c] = cmds[c]
                                  \/ \E i \in DOMAIN ids : cmds'[c] = ids[i]
       /\ \A c, d \in DOMAIN cmds' : cmds'[c] = cmds'[d] => c = d
  <2>1. cmds \in Seq(Nat \ {0}) /\ NothingTwice(cmds)
    BY <1>9 DEF CommandsFit, NothingTwice
  <2>2. ids \in Seq(Nat \ {0}) /\ NothingTwice(ids)
    BY <1>10 DEF NothingTwice
  <2>3. cmds \o ids \in Seq(Nat \ {0}) /\ Joins(cmds \o ids, cmds, ids) /\ NothingTwice(cmds \o ids)
    BY <1>11, <2>1, <2>2, Concatenated
  <2>4. cmds' = cmds \o ids
    BY <1>3
  <2>5. QED BY <2>3, <2>4 DEF Joins, NothingTwice
<1>13. CommandsHaveStreams'
  <2> SUFFICES ASSUME NEW c \in DOMAIN cmds'
               PROVE  \E k \in DOMAIN nodes : nodes[k].id = cmds'[c] /\ nodes'[k].stream
    BY <1>6 DEF CommandsHaveStreams, SameNodes
  <2>1. CASE c \in DOMAIN cmds /\ cmds'[c] = cmds[c]
    <3>1. PICK k \in DOMAIN nodes : nodes[k].id = cmds[c] /\ nodes[k].stream
      BY <1>9, <2>1 DEF CommandsFit, CommandsHaveStreams
    <3>2. nodes'[k].stream
      BY <1>6, <3>1
    <3>3. QED BY <2>1, <3>1, <3>2
  <2>2. CASE \E i \in DOMAIN ids : cmds'[c] = ids[i]
    <3>1. PICK i \in DOMAIN ids : cmds'[c] = ids[i]
      BY <2>2
    <3>2. PICK k \in places : ids[i] = nodes[k].id
      BY <1>10
    <3>3. k \in DOMAIN nodes /\ nodes'[k].stream
      BY <1>4, <1>6
    <3>4. QED BY <3>1, <3>2, <3>3
  <2>3. QED BY <1>12, <2>1, <2>2
<1>14. CommandsFit'
  BY <1>12, <1>13 DEF CommandsFit
<1>15. scan' = "running" /\ cursor' = None /\ handled' = None /\ assertion' = assertion
  BY DEF StartScan, Idle, ScannerInv, ExpiryIsInOrder
<1>16. ScannerTypeOK' /\ ExpiryIsInOrder' /\ LeftBehindAreSilent'
  BY <1>6, <1>12, <1>15 DEF ScannerInv, ScannerTypeOK, ExpiryIsInOrder, LeftBehindAreSilent, SameNodes
<1>17. QED BY <1>5, <1>7, <1>14, <1>16, PartsOfNextScannerInv DEF Moves

\* The nodes of removed servers go, with their commands.
LEMMA FinishScanKeepsInv == ASSUME ScannerInv, FinishScan PROVE ScannerInv' /\ Moves(0)
<1> DEFINE left == {k \in DOMAIN nodes : ~nodes[k].retired}
           places == {c \in DOMAIN cmds : \E k \in left : nodes[k].id = cmds[c]}
<1>1. nodes' = Sublist(nodes, left) /\ cmds' = Sublist(cmds, places)
  BY DEF FinishScan
<1>2. left \in SUBSET DOMAIN nodes /\ places \in SUBSET DOMAIN cmds
  OBVIOUS
<1>3. UNCHANGED <<td, cursor, handled, assertion>> /\ handled = None /\ scan' = "off"
      /\ ((scan = "running" /\ cmds = <<>>) \/ (scan = "expiring" /\ cursor = None))
  BY DEF FinishScan
<1>4. Moves(0)
  BY <1>3, StillnessMoves DEF ScannerInv
<1>5. NodesFit /\ CommandsFit
  BY PartsOfScannerInv
<1>6. /\ \A k \in left : k \in DOMAIN nodes /\ ~nodes[k].retired
      /\ \A k \in DOMAIN nodes : nodes[k].retired \/ k \in left
      /\ \A c \in places : c \in DOMAIN cmds /\ \E k \in left : nodes[k].id = cmds[c]
  OBVIOUS
<1> HIDE DEF left, places
<1>7. /\ nodes' \in Seq(NodeType)
      /\ \A i \in DOMAIN nodes' : \E k \in left : nodes'[i] = nodes[k]
      /\ \A k \in left : \E i \in DOMAIN nodes' : nodes'[i] = nodes[k]
      /\ \A i, j \in DOMAIN nodes' : i # j =>
            \E k, l \in left : k # l /\ nodes'[i] = nodes[k] /\ nodes'[j] = nodes[l]
  <2>1. nodes \in Seq(NodeType)
    BY NodesAreTyped
  <2>2. QED BY <1>1, <1>2, <2>1, SublistHas
<1>8. /\ cmds' \in Seq(Nat \ {0})
      /\ \A d \in DOMAIN cmds' : \E c \in places : cmds'[d] = cmds[c]
      /\ \A d, e \in DOMAIN cmds' : d # e =>
            \E c, b \in places : c # b /\ cmds'[d] = cmds[c] /\ cmds'[e] = cmds[b]
  <2>1. cmds \in Seq(Nat \ {0})
    BY CommandsAreTyped
  <2>2. QED BY <1>1, <1>2, <2>1, SublistHas
<1>9. \A j, k \in DOMAIN nodes' :
         nodes'[j].id = nodes'[k].id \/ nodes'[j].address = nodes'[k].address => j = k
  BY <1>5, <1>6, <1>7, SMTT(30) DEF NodesFit
<1>10. NodesAgreeWithServers' /\ NodesAreKnown'
  BY <1>3, <1>5, <1>6, <1>7 DEF NodesFit, NodesAgreeWithServers, NodesAreKnown
<1>11. NewServersAreSilent'
  <2> SUFFICES ASSUME NEW id \in DOMAIN td.servers, \A i \in DOMAIN nodes' : nodes'[i].id # id
               PROVE  td.servers[id].lastIsMaster = None
    BY <1>3 DEF NewServersAreSilent
  <2>1. \A k \in DOMAIN nodes : nodes[k].id # id
    BY <1>5, <1>6, <1>7 DEF NodesFit, NodesAgreeWithServers
  <2>2. QED BY <1>5, <2>1 DEF NodesFit, NewServersAreSilent
<1>12. NodesFit'
  BY <1>9, <1>10, <1>11 DEF NodesFit
<1>13. CommandsHaveStreams'
  <2> SUFFICES ASSUME NEW c \in places
               PROVE  \E i \in DOMAIN nodes' : nodes'[i].id = cmds[c] /\ nodes'[i].stream
    BY <1>8 DEF CommandsHaveStreams
  <2>1. PICK k \in left : nodes[k].id = cmds[c]
    BY <1>6
  <2>2. nodes[k].stream
    BY <1>5, <1>6, <2>1 DEF CommandsFit, CommandsHaveStreams, NodesFit
  <2>3. QED BY <1>7, <2>1, <2>2
<1>14. CommandsFit'
  BY <1>5, <1>6, <1>8, <1>13 DEF CommandsFit
<1>15. cursor = None
  BY <1>3 DEF ScannerInv, ExpiryIsInOrder
<1>16. ScannerTypeOK'
  BY <1>3, <1>7, <1>8, <1>15 DEF ScannerInv, ScannerTypeOK
<1>17. ExpiryIsInOrder'
  BY <1>3, <1>15 DEF ExpiryIsInOrder
<1>18. LeftBehindAreSilent'
  <2>1. ASSUME NEW c \in DOMAIN cmds, cmds[c] \in DOMAIN td.servers
        PROVE  td.servers[cmds[c]].lastIsMaster = None
    BY <1>3, <2>1 DEF ScannerInv, LeftBehindAreSilent
  <2>2. QED BY <1>3, <1>6, <1>8, <2>1 DEF LeftBehindAreSilent
<1>19. QED BY <1>4, <1>12, <1>14, <1>16, <1>17, <1>18, PartsOfNextScannerInv DEF Moves

-----------------------------------------------------------------------------
(* The reconciliation.                                                     *)

\* List u has what s has, in its places, and then what t has, in its order.
Appends(u, s, t) ==
    /\ DOMAIN u = 1 .. Len(s) + Len(t)
    /\ \A k \in DOMAIN s : k \in DOMAIN u /\ u[k] = s[k]
    /\ \A i \in DOMAIN t : Len(s) + i \in DOMAIN u /\ u[Len(s) + i] = t[i]
    /\ \A k \in DOMAIN u : k \in DOMAIN s \/ \E i \in DOMAIN t : k = Len(s) + i

LEMMA Appended ==
    ASSUME NEW T, NEW s \in Seq(T), NEW t \in Seq(T)
    PROVE  Appends(s \o t, s, t) /\ s \o t \in Seq(T)
<1> DEFINE u == s \o t
<1>1. /\ u \in Seq(T) /\ Len(s) \in Nat /\ Len(t) \in Nat /\ DOMAIN s = 1 .. Len(s)
      /\ DOMAIN t = 1 .. Len(t) /\ DOMAIN u = 1 .. Len(s) + Len(t)
      /\ \A c \in 1 .. Len(s) + Len(t) : u[c] = IF c <= Len(s) THEN s[c] ELSE t[c - Len(s)]
      /\ \A c \in DOMAIN u : u[c] \in T
  OBVIOUS
<1> HIDE DEF u
<1>2. \A k \in DOMAIN s : k \in DOMAIN u /\ u[k] = s[k]
  BY <1>1
<1>3. ASSUME NEW i \in DOMAIN t PROVE Len(s) + i \in DOMAIN u /\ u[Len(s) + i] = t[i]
  <2>1. /\ Len(s) + i \in 1 .. Len(s) + Len(t) /\ ~(Len(s) + i <= Len(s))
        /\ Len(s) + i - Len(s) = i
    BY <1>1
  <2>2. QED BY <1>1, <2>1
<1>4. ASSUME NEW k \in DOMAIN u, k \notin DOMAIN s PROVE \E i \in DOMAIN t : k = Len(s) + i
  <2>1. k - Len(s) \in 1 .. Len(t) /\ k = Len(s) + (k - Len(s))
    BY <1>1, <1>4
  <2>2. QED BY <1>1, <2>1
<1>5. Appends(u, s, t) /\ u \in Seq(T)
  BY <1>1, <1>2, <1>3, <1>4 DEF Appends
<1>6. QED BY <1>5 DEF u

\* y is the node x, retired or not and with a stream or without.
Changed(y, x, a, b) ==
    /\ y \in NodeType /\ y.id = x.id /\ y.address = x.address
    /\ y.retired = a /\ y.stream = b

LEMMA NodeChanged ==
    ASSUME NEW x \in NodeType, NEW a, NEW b, {a, b} \subseteq BOOLEAN
    PROVE  Changed([x EXCEPT !.retired = a, !.stream = b], x, a, b)
<1>1. PICK z : z = [x EXCEPT !.retired = a]
  OBVIOUS
<1>2. /\ z \in NodeType /\ z.id = x.id /\ z.address = x.address /\ z.retired = a
  BY <1>1 DEF NodeType
<1>3. [x EXCEPT !.retired = a, !.stream = b] = [z EXCEPT !.stream = b]
  BY <1>1, Zenon
<1>4. PICK y : y = [z EXCEPT !.stream = b]
  OBVIOUS
<1>5. Changed(y, x, a, b)
  BY <1>2, <1>4 DEF NodeType, Changed
<1>6. QED BY <1>3, <1>4, <1>5

\* The servers without a node, each of a host without one.
LEMMA MissingAreNew ==
    ASSUME ScannerInv
    PROVE  /\ Missing \in SUBSET DOMAIN td.servers /\ Missing \in SUBSET (Nat \ {0})
           /\ IsFiniteSet(Missing)
           /\ \A id \in Missing : /\ id <= td.maxServerId
                                  /\ td.servers[id] \in ServerDescription
                                  /\ td.servers[id].lastIsMaster = None
           /\ \A id \in Missing, k \in DOMAIN nodes :
                 nodes[k].id # id /\ nodes[k].address # td.servers[id].address
           /\ \A id \in Missing, c \in DOMAIN cmds : cmds[c] # id
<1>1. Missing \in SUBSET DOMAIN td.servers
  BY DEF Missing
<1>2. /\ DOMAIN td.servers \subseteq 1 .. td.maxServerId /\ td.maxServerId \in Nat
      /\ td.servers \in [DOMAIN td.servers -> ServerDescription]
  BY DEF ScannerInv, Inv, TypeOK
<1>3. IsFiniteSet(Missing)
  <2>1. IsFiniteSet(1 .. td.maxServerId) /\ Missing \in SUBSET (1 .. td.maxServerId)
    BY <1>1, <1>2, FS_Interval
  <2>2. QED BY <2>1, FS_Subset
<1>4. \A id \in Missing, k \in DOMAIN nodes : nodes[k].address # td.servers[id].address
  BY DEF Missing, HasNodeForHost
<1>5. \A id \in Missing, k \in DOMAIN nodes : nodes[k].id # id
  BY <1>1, <1>4 DEF ScannerInv, NodesAgreeWithServers
<1>6. \A id \in Missing : td.servers[id].lastIsMaster = None
  BY <1>1, <1>5 DEF ScannerInv, NewServersAreSilent
<1>7. \A id \in Missing, c \in DOMAIN cmds : cmds[c] # id
  BY <1>5 DEF ScannerInv, CommandsHaveStreams
<1>8. Missing \in SUBSET (Nat \ {0}) /\ \A id \in Missing : id <= td.maxServerId
  BY <1>1, <1>2
<1>9. QED BY <1>1, <1>2, <1>3, <1>4, <1>5, <1>6, <1>7, <1>8

\* ids lists these servers, once each.
Lists(ids) ==
    /\ ids \in Seq(Nat \ {0}) /\ NothingTwice(ids)
    /\ \A i \in DOMAIN ids : ids[i] \in Missing
    /\ \A id \in Missing : \E i \in DOMAIN ids : ids[i] = id

LEMMA AscendingLists == ASSUME ScannerInv PROVE Lists(Ascending(Missing))
<1> DEFINE ids == Ascending(Missing)
           m == Cardinality(Missing)
<1>1. Missing \in SUBSET Nat /\ Missing \in SUBSET (Nat \ {0}) /\ IsFiniteSet(Missing)
  BY MissingAreNew
<1>2. m \in Nat /\ Counts(ids, Missing) /\ \A x \in Missing : \E i \in 1 .. m : ids[i] = x
  BY <1>1, AscendingCounts
<1>3. /\ ids \in [1 .. m -> Missing] /\ \A i, j \in 1 .. m : i < j => ids[i] < ids[j]
  BY <1>2 DEF Counts
<1> HIDE DEF ids, m
<1>4. DOMAIN ids = 1 .. m /\ \A i \in DOMAIN ids : ids[i] \in Missing /\ ids[i] \in Nat \ {0}
  BY <1>1, <1>3
<1>5. ids \in Seq(Nat \ {0})
  <2>1. ids \in [1 .. m -> Nat \ {0}]
    BY <1>1, <1>3
  <2>2. QED BY <1>2, <2>1
<1>6. NothingTwice(ids)
  <2> SUFFICES ASSUME NEW i \in 1 .. m, NEW j \in 1 .. m, ids[i] = ids[j] PROVE i = j
    BY <1>4 DEF NothingTwice
  <2>1. ~(i < j) /\ ~(j < i)
    BY <1>3, <1>4
  <2>2. i \in Int /\ j \in Int
    BY <1>2
  <2>3. QED BY <2>1, <2>2
<1>7. Lists(ids)
  BY <1>2, <1>4, <1>5, <1>6 DEF Lists
<1>8. QED BY <1>7 DEF ids

\* The nodes there were, and one for each of ids; none for a server that is removed is
\* left unretired, and none for a server in dropped connected.
Reconciled(ids, refused, dropped) ==
    /\ nodes' \in Seq(NodeType)
    /\ \A k \in DOMAIN nodes :
          /\ k \in DOMAIN nodes'
          /\ nodes'[k].id = nodes[k].id /\ nodes'[k].address = nodes[k].address
          /\ nodes'[k].retired = (nodes[k].retired \/ nodes[k].id \notin DOMAIN td.servers)
          /\ nodes'[k].stream = (nodes[k].stream /\ nodes[k].id \notin dropped)
    /\ \A i \in DOMAIN ids :
          LET k == Len(nodes) + i
          IN /\ k \in DOMAIN nodes'
             /\ nodes'[k].id = ids[i] /\ nodes'[k].address = td.servers[ids[i]].address
             /\ ~nodes'[k].retired
             /\ nodes'[k].stream = (ids[i] \notin refused \cup dropped)
    /\ \A k \in DOMAIN nodes' :
          k \in DOMAIN nodes \/ \E i \in DOMAIN ids : k = Len(nodes) + i

LEMMA ReconcilingNodes ==
    ASSUME ScannerInv, NEW refused, NEW dropped, NEW ids, Lists(ids), NEW added,
           added = [i \in DOMAIN ids |-> Node(ids[i], td.servers[ids[i]].address, ids[i] \notin refused)],
           nodes' = [k \in 1 .. (Len(nodes) + Len(added)) |->
                        LET n == (nodes \o added)[k]
                        IN [n EXCEPT !.retired = n.retired \/ n.id \notin DOMAIN td.servers,
                                     !.stream = n.stream /\ n.id \notin dropped]]
    PROVE  Reconciled(ids, refused, dropped)
<1>1. \A i \in DOMAIN ids : /\ ids[i] \in Missing /\ ids[i] \in Nat \ {0}
                            /\ ids[i] \in DOMAIN td.servers
                            /\ td.servers[ids[i]].address \in Address
  BY MissingAreNew DEF Lists, ServerDescription
<1>2. \A i \in DOMAIN ids : /\ added[i] \in NodeType
                            /\ added[i].id = ids[i] /\ added[i].address = td.servers[ids[i]].address
                            /\ added[i].retired = FALSE
                            /\ added[i].stream = (ids[i] \notin refused)
  BY <1>1 DEF Node, NodeType
<1>3. ids \in Seq(Nat \ {0})
  BY DEF Lists
<1>4. added \in Seq(NodeType) /\ DOMAIN added = DOMAIN ids
  <2>1. DOMAIN added = DOMAIN ids
    OBVIOUS
  <2>2. added \in [DOMAIN ids -> NodeType]
    BY <1>2
  <2>3. QED BY <1>3, <2>1, <2>2, Relisted
<1>5. nodes \in Seq(NodeType)
  BY NodesAreTyped
<1>6. PICK all : all = nodes \o added
  OBVIOUS
<1>7. /\ all \in Seq(NodeType) /\ DOMAIN all = 1 .. Len(nodes) + Len(added)
      /\ \A k \in DOMAIN all : all[k] \in NodeType
      /\ \A k \in DOMAIN nodes : k \in DOMAIN all /\ all[k] = nodes[k]
      /\ \A i \in DOMAIN added : Len(nodes) + i \in DOMAIN all /\ all[Len(nodes) + i] = added[i]
      /\ \A k \in DOMAIN all : k \in DOMAIN nodes \/ \E i \in DOMAIN added : k = Len(nodes) + i
  <2>1. nodes \o added \in Seq(NodeType) /\ Appends(nodes \o added, nodes, added)
    BY <1>4, <1>5, Appended
  <2>2. Appends(all, nodes, added)
    BY <1>6, <2>1
  <2>3. all \in Seq(NodeType)
    BY <1>6, <2>1
  <2>4. \A k \in DOMAIN all : all[k] \in NodeType
    BY <2>3, Listed
  <2>5. QED BY <2>2, <2>3, <2>4 DEF Appends
<1> DEFINE a(n) == n.retired \/ n.id \notin DOMAIN td.servers
           b(n) == n.stream /\ n.id \notin dropped
           g(n) == [n EXCEPT !.retired = a(n), !.stream = b(n)]
<1>8. nodes' = [k \in DOMAIN all |-> g(all[k])]
  BY <1>6, <1>7, Zenon
<1>9. \A n \in NodeType : /\ g(n) \in NodeType /\ g(n).id = n.id /\ g(n).address = n.address
                          /\ g(n).retired = a(n) /\ g(n).stream = b(n)
  <2> SUFFICES ASSUME NEW n \in NodeType
               PROVE  /\ g(n) \in NodeType /\ g(n).id = n.id /\ g(n).address = n.address
                      /\ g(n).retired = a(n) /\ g(n).stream = b(n)
    OBVIOUS
  <2>1. a(n) \in BOOLEAN /\ b(n) \in BOOLEAN
    BY DEF NodeType
  <2> HIDE DEF a, b
  <2>2. PICK c \in BOOLEAN : c = a(n)
    BY <2>1
  <2>3. PICK d \in BOOLEAN : d = b(n)
    BY <2>1
  <2>4. g(n) = [n EXCEPT !.retired = c, !.stream = d]
    BY <2>2, <2>3, Zenon
  <2> HIDE DEF g
  <2>5. /\ g(n) \in NodeType /\ g(n).id = n.id /\ g(n).address = n.address
        /\ g(n).retired = c /\ g(n).stream = d
    <3>1. {c, d} \subseteq BOOLEAN
      OBVIOUS
    <3>2. Changed([n EXCEPT !.retired = c, !.stream = d], n, c, d)
      BY <3>1, NodeChanged, Zenon
    <3>3. QED BY <2>4, <3>2, Zenon DEF Changed
  <2>6. QED BY <2>2, <2>3, <2>5, Zenon
<1> HIDE DEF g
<1>10. /\ DOMAIN nodes' = DOMAIN all /\ \A k \in DOMAIN all : nodes'[k] = g(all[k])
       /\ nodes' \in [DOMAIN all -> NodeType]
  <2>1. DOMAIN nodes' = DOMAIN all /\ \A k \in DOMAIN all : nodes'[k] = g(all[k])
    BY <1>8, Zenon
  <2>2. \A k \in DOMAIN all : g(all[k]) \in NodeType
    BY <1>7, <1>9, Zenon
  <2>3. nodes' \in [DOMAIN all -> NodeType]
    BY <1>8, <2>2, Zenon
  <2>4. QED BY <2>1, <2>3
<1>11. nodes' \in Seq(NodeType)
  <2>1. all \in Seq(NodeType)
    BY <1>7
  <2>2. nodes' \in [DOMAIN all -> NodeType]
    BY <1>10
  <2>3. QED BY <2>1, <2>2, Relisted, ZenonT(30)
<1>12. ASSUME NEW k \in DOMAIN nodes
       PROVE  /\ k \in DOMAIN nodes'
              /\ nodes'[k].id = nodes[k].id /\ nodes'[k].address = nodes[k].address
              /\ nodes'[k].retired = (nodes[k].retired \/ nodes[k].id \notin DOMAIN td.servers)
              /\ nodes'[k].stream = (nodes[k].stream /\ nodes[k].id \notin dropped)
  <2>1. nodes[k] \in NodeType /\ k \in DOMAIN all /\ all[k] = nodes[k]
    BY <1>7, NodesAreTyped
  <2>2. nodes'[k] = g(nodes[k]) /\ k \in DOMAIN nodes'
    BY <1>10, <2>1
  <2>3. QED BY <1>9, <2>1, <2>2
<1>13. ASSUME NEW i \in DOMAIN ids
       PROVE  LET k == Len(nodes) + i
              IN /\ k \in DOMAIN nodes'
                 /\ nodes'[k].id = ids[i] /\ nodes'[k].address = td.servers[ids[i]].address
                 /\ ~nodes'[k].retired
                 /\ nodes'[k].stream = (ids[i] \notin refused \cup dropped)
  <2> DEFINE k == Len(nodes) + i
  <2>1. k \in DOMAIN all /\ all[k] = added[i]
    BY <1>4, <1>7
  <2> HIDE DEF k
  <2>2. nodes'[k] = g(added[i]) /\ k \in DOMAIN nodes'
    BY <1>10, <2>1
  <2>3. added[i] \in NodeType /\ added[i].id = ids[i] /\ ids[i] \in DOMAIN td.servers
        /\ added[i].address = td.servers[ids[i]].address
        /\ added[i].retired = FALSE /\ added[i].stream = (ids[i] \notin refused)
    BY <1>1, <1>2
  <2>4. /\ k \in DOMAIN nodes' /\ nodes'[k].id = ids[i]
        /\ nodes'[k].address = td.servers[ids[i]].address
        /\ ~nodes'[k].retired
        /\ nodes'[k].stream = (ids[i] \notin refused \cup dropped)
    <3>1. /\ g(added[i]).id = added[i].id /\ g(added[i]).address = added[i].address
          /\ g(added[i]).retired = a(added[i]) /\ g(added[i]).stream = b(added[i])
      BY <1>9, <2>3
    <3>2. a(added[i]) = FALSE /\ b(added[i]) = (ids[i] \notin refused /\ ids[i] \notin dropped)
      BY <2>3
    <3> HIDE DEF a, b
    <3>3. QED BY <2>2, <2>3, <3>1, <3>2
  <2>5. QED BY <2>4 DEF k
<1>14. \A k \in DOMAIN nodes' : k \in DOMAIN nodes \/ \E i \in DOMAIN ids : k = Len(nodes) + i
  BY <1>4, <1>7, <1>10
<1>15. QED BY <1>11, <1>12, <1>13, <1>14 DEF Reconciled

LEMMA ReconciledNodesFit ==
    ASSUME ScannerInv, Forgets(td, td'), NEW refused, NEW dropped, NEW ids, Lists(ids),
           Reconciled(ids, refused, dropped)
    PROVE  NodesFit'
<1>1. NodesFit
  BY PartsOfScannerInv
<1>2. \A i \in DOMAIN ids : ids[i] \in Missing /\ ids[i] \in DOMAIN td.servers /\ ids[i] <= td.maxServerId
  BY MissingAreNew DEF Lists
<1>3. \A i \in DOMAIN ids, k \in DOMAIN nodes :
         nodes[k].id # ids[i] /\ nodes[k].address # td.servers[ids[i]].address
  BY <1>2, MissingAreNew
<1>4. \A i, j \in DOMAIN ids :
         ids[i] = ids[j] \/ td.servers[ids[i]].address = td.servers[ids[j]].address => i = j
  BY <1>2 DEF ScannerInv, Inv, AddressesAreUnique, Lists, NothingTwice
<1>5. \A k \in DOMAIN nodes' :
         \/ /\ k \in DOMAIN nodes
            /\ nodes'[k].id = nodes[k].id /\ nodes'[k].address = nodes[k].address
            /\ nodes'[k].retired = (nodes[k].retired \/ nodes[k].id \notin DOMAIN td.servers)
         \/ \E i \in DOMAIN ids :
               /\ k = Len(nodes) + i
               /\ nodes'[k].id = ids[i] /\ nodes'[k].address = td.servers[ids[i]].address
               /\ ~nodes'[k].retired
  BY DEF Reconciled
<1>6. /\ DOMAIN td'.servers = DOMAIN td.servers /\ td'.maxServerId = td.maxServerId
      /\ \A j \in DOMAIN td.servers :
            /\ td'.servers[j].address = td.servers[j].address
            /\ td'.servers[j].lastIsMaster \in {None, td.servers[j].lastIsMaster}
  BY DEF Forgets
<1>7. ASSUME NEW j \in DOMAIN nodes', NEW k \in DOMAIN nodes',
             nodes'[j].id = nodes'[k].id \/ nodes'[j].address = nodes'[k].address
      PROVE  j = k
  <2>1. CASE j \in DOMAIN nodes /\ k \in DOMAIN nodes
    <3>1. /\ nodes'[j].id = nodes[j].id /\ nodes'[j].address = nodes[j].address
          /\ nodes'[k].id = nodes[k].id /\ nodes'[k].address = nodes[k].address
      BY <2>1 DEF Reconciled
    <3>2. QED BY <1>1, <1>7, <2>1, <3>1 DEF NodesFit
  <2>2. CASE j \in DOMAIN nodes /\ k \notin DOMAIN nodes
    <3>1. nodes'[j].id = nodes[j].id /\ nodes'[j].address = nodes[j].address
      BY <2>2 DEF Reconciled
    <3>2. PICK i \in DOMAIN ids : nodes'[k].id = ids[i] /\ nodes'[k].address = td.servers[ids[i]].address
      BY <1>5, <2>2
    <3>3. QED BY <1>3, <1>7, <2>2, <3>1, <3>2
  <2>3. CASE j \notin DOMAIN nodes /\ k \in DOMAIN nodes
    <3>1. nodes'[k].id = nodes[k].id /\ nodes'[k].address = nodes[k].address
      BY <2>3 DEF Reconciled
    <3>2. PICK i \in DOMAIN ids : nodes'[j].id = ids[i] /\ nodes'[j].address = td.servers[ids[i]].address
      BY <1>5, <2>3
    <3>3. QED BY <1>3, <1>7, <2>3, <3>1, <3>2
  <2>4. CASE j \notin DOMAIN nodes /\ k \notin DOMAIN nodes
    <3>1. PICK i \in DOMAIN ids : /\ nodes'[k].id = ids[i] /\ k = Len(nodes) + i
                                  /\ nodes'[k].address = td.servers[ids[i]].address
      BY <1>5, <2>4
    <3>2. PICK h \in DOMAIN ids : /\ nodes'[j].id = ids[h] /\ j = Len(nodes) + h
                                  /\ nodes'[j].address = td.servers[ids[h]].address
      BY <1>5, <2>4
    <3>3. i = h
      BY <1>4, <1>7, <3>1, <3>2
    <3>4. QED BY <3>1, <3>2, <3>3
  <2>5. QED BY <2>1, <2>2, <2>3, <2>4
<1>8. NodesAgreeWithServers'
  <2> SUFFICES ASSUME NEW k \in DOMAIN nodes', nodes'[k].id \in DOMAIN td.servers
               PROVE  /\ ~nodes'[k].retired
                      /\ nodes'[k].address = td.servers[nodes'[k].id].address
    BY <1>6 DEF NodesAgreeWithServers
  <2>1. QED BY <1>1, <1>5 DEF NodesFit, NodesAgreeWithServers
<1>9. NodesAreKnown'
  <2>1. \A k \in DOMAIN nodes' : nodes'[k].id <= td.maxServerId
    BY <1>1, <1>2, <1>5 DEF NodesFit, NodesAreKnown
  <2>2. QED BY <1>6, <2>1 DEF NodesAreKnown
<1>10. NewServersAreSilent'
  <2> SUFFICES ASSUME NEW j \in DOMAIN td.servers, \A k \in DOMAIN nodes' : nodes'[k].id # j
               PROVE  td'.servers[j].lastIsMaster = None
    BY <1>6 DEF NewServersAreSilent
  <2>1. \A k \in DOMAIN nodes : nodes[k].id # j
    BY DEF Reconciled
  <2>2. td.servers[j].lastIsMaster = None
    BY <1>1, <2>1 DEF NodesFit, NewServersAreSilent
  <2>3. QED BY <1>6, <2>2
<1>11. QED BY <1>7, <1>8, <1>9, <1>10 DEF NodesFit

LEMMA ReconcileKeepsInv == ASSUME ScannerInv, Reconcile PROVE ScannerInv' /\ Moves(0)
<1> DEFINE ids == Ascending(Missing)
           all == cmds \o ids
           dropped == IF handled.drop THEN {handled.id} ELSE {}
           added(refused) == [i \in DOMAIN ids |-> Node(ids[i], td.servers[ids[i]].address,
                                                        ids[i] \notin refused)]
<1>1. PICK refused \in SUBSET Missing :
         /\ nodes' = [k \in 1 .. (Len(nodes) + Len(added(refused))) |->
                         LET n == (nodes \o added(refused))[k]
                         IN [n EXCEPT !.retired = n.retired \/ n.id \notin DOMAIN td.servers,
                                      !.stream = n.stream /\ n.id \notin dropped]]
         /\ cmds' = Sublist(all, {c \in DOMAIN all : all[c] \notin refused \cup dropped})
         /\ td' = InvalidateServers(InvalidateServers(td, refused), dropped)
  BY DEF Reconcile
<1>2. Lists(ids)
  BY AscendingLists
<1>3. Reconciled(ids, refused, dropped)
  <2>1. PICK new : new = added(refused)
    OBVIOUS
  <2>2. nodes' = [k \in 1 .. (Len(nodes) + Len(new)) |->
                         LET n == (nodes \o new)[k]
                         IN [n EXCEPT !.retired = n.retired \/ n.id \notin DOMAIN td.servers,
                                      !.stream = n.stream /\ n.id \notin dropped]]
    BY <1>1, <2>1, Zenon
  <2> HIDE DEF ids, dropped
  <2>3. QED BY <1>2, <2>1, <2>2, ReconcilingNodes
<1>4. Forgets(td, td') /\ Moves(0)
  <2>1. PICK u : u = InvalidateServers(td, refused)
    OBVIOUS
  <2>2. td' = InvalidateServers(u, dropped)
    BY <1>1, <2>1
  <2> HIDE DEF dropped
  <2>3. IsPicture(td)
    BY DEF ScannerInv, Inv, TypeOK, IsPicture
  <2>4. Forgets(td, u) /\ IsPicture(u)
    BY <2>1, <2>3, InvalidationForgets DEF Forgets
  <2>5. Forgets(u, td')
    BY <2>2, <2>4, InvalidationForgets
  <2>6. QED BY <2>4, <2>5, ForgetsTwice, ForgettingMoves DEF ScannerInv
<1>5. UNCHANGED <<scan, cursor, assertion>> /\ handled' = None /\ handled \in HandledType \ {None}
  BY HandledIsTyped DEF Reconcile
<1>6. cursor # None => dropped = {}
  BY <1>5 DEF ScannerInv, ExpiryIsInOrder, HandledType
<1> HIDE DEF dropped, ids
<1> DEFINE places == {c \in DOMAIN all : all[c] \notin refused \cup dropped}
<1>7. CommandsFit /\ cmds \in Seq(Nat \ {0}) /\ NothingTwice(cmds)
  BY PartsOfScannerInv DEF CommandsFit, NothingTwice
<1>8. all \in Seq(Nat \ {0}) /\ Joins(all, cmds, ids) /\ NothingTwice(all)
  <2>1. \A c \in DOMAIN cmds, i \in DOMAIN ids : cmds[c] # ids[i]
    BY <1>2, MissingAreNew DEF Lists
  <2>2. ids \in Seq(Nat \ {0}) /\ NothingTwice(ids)
    BY <1>2 DEF Lists
  <2>3. QED BY <1>7, <2>1, <2>2, Concatenated
<1> HIDE DEF all
<1>9. /\ \A c \in places : c \in DOMAIN all /\ all[c] \notin refused /\ all[c] \notin dropped
      /\ \A c \in DOMAIN all : all[c] \in refused \/ all[c] \in dropped \/ c \in places
      /\ places \in SUBSET DOMAIN all
  OBVIOUS
<1>10. cmds' = Sublist(all, places)
  BY <1>1
<1> HIDE DEF places
<1>11. /\ cmds' \in Seq(Nat \ {0})
       /\ \A d \in DOMAIN cmds' : \E c \in places : cmds'[d] = all[c]
       /\ \A d, e \in DOMAIN cmds' : d # e =>
             \E c, b \in places : c # b /\ cmds'[d] = all[c] /\ cmds'[e] = all[b]
  <2>1. all \in Seq(Nat \ {0})
    BY <1>8
  <2>2. QED BY <1>9, <1>10, <2>1, SublistHas
<1>12. \A c \in places : \/ c \in DOMAIN cmds /\ all[c] = cmds[c]
                         \/ \E i \in DOMAIN ids : all[c] = ids[i]
  BY <1>8, <1>9 DEF Joins
<1>13. CommandsHaveStreams'
  <2> SUFFICES ASSUME NEW c \in places
               PROVE  \E k \in DOMAIN nodes' : nodes'[k].id = all[c] /\ nodes'[k].stream
    BY <1>11 DEF CommandsHaveStreams
  <2>1. all[c] \notin refused /\ all[c] \notin dropped
    BY <1>9
  <2>2. CASE c \in DOMAIN cmds /\ all[c] = cmds[c]
    <3>1. PICK k \in DOMAIN nodes : nodes[k].id = cmds[c] /\ nodes[k].stream
      BY <1>7, <2>2 DEF CommandsFit, CommandsHaveStreams
    <3>2. k \in DOMAIN nodes' /\ nodes'[k].id = nodes[k].id /\ nodes'[k].stream
      BY <1>3, <2>1, <2>2, <3>1 DEF Reconciled
    <3>3. QED BY <2>2, <3>1, <3>2
  <2>3. CASE \E i \in DOMAIN ids : all[c] = ids[i]
    <3>1. PICK i \in DOMAIN ids : all[c] = ids[i]
      BY <2>3
    <3>2. PICK k \in DOMAIN nodes' : nodes'[k].id = ids[i] /\ nodes'[k].stream = (ids[i] \notin refused \cup dropped)
      BY <1>3 DEF Reconciled
    <3>3. QED BY <2>1, <3>1, <3>2
  <2>4. QED BY <1>12, <2>2, <2>3
<1>14. CommandsFit'
  <2>1. \A d, e \in DOMAIN cmds' : cmds'[d] = cmds'[e] => d = e
    BY <1>8, <1>9, <1>11 DEF NothingTwice
  <2>2. QED BY <1>11, <1>13, <2>1 DEF CommandsFit
<1>15. NodesFit'
  BY <1>2, <1>3, <1>4, ReconciledNodesFit
<1>16. cursor # None => cmds' # <<>> /\ cmds'[1] = cmds[1] /\ cmds # <<>>
  <2> SUFFICES ASSUME cursor # None PROVE cmds' # <<>> /\ cmds'[1] = cmds[1] /\ cmds # <<>>
    OBVIOUS
  <2>1. cmds # <<>> /\ 1 \in DOMAIN cmds
    BY <1>7 DEF ScannerInv, ExpiryIsInOrder
  <2>2. 1 \in DOMAIN all /\ all[1] = cmds[1]
    BY <1>8, <2>1 DEF Joins
  <2>3. all[1] \notin refused /\ all[1] \notin dropped
    BY <1>6, <2>1, <2>2, MissingAreNew
  <2>4. 1 \in places
    BY <1>9, <2>2, <2>3
  <2>5. \A x \in places : ~(x < 1)
    <3>1. all \in Seq(Nat \ {0})
      BY <1>8
    <3>2. DOMAIN all \in SUBSET (Nat \ {0})
      BY <3>1
    <3>3. QED BY <1>9, <3>2
  <2>6. all \in Seq(Nat \ {0}) /\ places \in SUBSET DOMAIN all
    BY <1>8, <1>9
  <2>7. QED BY <1>10, <2>1, <2>2, <2>4, <2>5, <2>6, SublistHead
<1>17. ScannerTypeOK'
  <2>1. nodes' \in Seq(NodeType) /\ cmds' \in Seq(Nat \ {0})
    BY <1>3, <1>11 DEF Reconciled
  <2>2. cursor' = None \/ (scan' = "expiring" /\ \E c \in DOMAIN cmds' : cmds'[c] = cursor')
    <3>1. cursor # None => 1 \in DOMAIN cmds'
      BY <1>16, <2>1
    <3>2. QED BY <1>5, <1>16, <3>1 DEF ScannerInv, ExpiryIsInOrder
  <2>3. QED BY <1>5, <2>1, <2>2 DEF ScannerInv, ScannerTypeOK
<1>18. ExpiryIsInOrder'
  BY <1>5, <1>16 DEF ScannerInv, ExpiryIsInOrder
<1>19. LeftBehindAreSilent'
  <2> SUFFICES ASSUME scan = "off" \/ (scan = "expiring" /\ cursor = None),
                      NEW c \in places, all[c] \in DOMAIN td.servers
               PROVE  td.servers[all[c]].lastIsMaster = None
    BY <1>4, <1>5, <1>11 DEF LeftBehindAreSilent, Forgets
  <2>1. CASE c \in DOMAIN cmds /\ all[c] = cmds[c]
    BY <2>1 DEF ScannerInv, LeftBehindAreSilent
  <2>2. CASE \E i \in DOMAIN ids : all[c] = ids[i]
    BY <1>2, <2>2, MissingAreNew DEF Lists
  <2>3. QED BY <1>12, <2>1, <2>2
<1>20. QED BY <1>4, <1>14, <1>15, <1>17, <1>18, <1>19, PartsOfNextScannerInv DEF Moves

-----------------------------------------------------------------------------
(* The theorems.                                                           *)

\* The seeds have the ids up to the greatest, and none has answered.
LEMMA SeedsAreSilent ==
    ASSUME Init
    PROVE  /\ DOMAIN td.servers = 1 .. td.maxServerId
           /\ \A id \in DOMAIN td.servers : td.servers[id].lastIsMaster = None
<1>1. PICK s \in Seeding : td \in TopologyOf(s)
  BY DEF Init
<1> DEFINE n == Cardinality(s.hosts)
<1>2. n \in Nat
  <2>1. s.hosts \subseteq Address
    BY SeedingAssumption DEF SeedingType
  <2>2. IsFiniteSet(s.hosts)
    BY <2>1, AddressAssumption, FS_Subset
  <2>3. QED BY <2>2, FS_CardinalityType
<1>3. PICK g \in [1 .. n -> s.hosts] :
         td = [type |-> IF s.replicaSet # None THEN "RSNoPrimary"
                        ELSE IF s.length > 1 THEN "Unknown" ELSE "Single",
               servers |-> [i \in DOMAIN g |-> ServerInit(g[i])],
               setName |-> s.replicaSet, maxSetVersion |-> NoSetVersion,
               maxElectionId |-> 0, maxServerId |-> Cardinality(DOMAIN g)]
  BY <1>1 DEF TopologyOf
<1> HIDE DEF n
<1>4. DOMAIN g = 1 .. n
  OBVIOUS
<1>5. Cardinality(DOMAIN g) = n
  BY <1>2, <1>4, CardinalityUpTo
<1>6. td.servers = [i \in 1 .. n |-> ServerInit(g[i])] /\ td.maxServerId = n
  BY <1>3, <1>4, <1>5
<1>7. QED BY <1>6 DEF ServerInit

LEMMA TopologyInitInv == TopologyInit => ScannerInv
<1> SUFFICES ASSUME TopologyInit PROVE ScannerInv
  OBVIOUS
<1>1. /\ nodes = [id \in 1 .. td.maxServerId |-> Node(id, td.servers[id].address, FALSE)]
      /\ cmds = <<>> /\ scan = "off" /\ cursor = None /\ handled = None /\ assertion = None
  BY DEF TopologyInit
<1>2. Inv
  BY InitInv DEF TopologyInit
<1>3. DOMAIN td.servers = 1 .. td.maxServerId
  BY SeedsAreSilent DEF TopologyInit
<1>4. /\ td.maxServerId \in Nat /\ td.servers \in [DOMAIN td.servers -> ServerDescription]
  BY <1>2 DEF Inv, TypeOK
<1>5. \A id \in 1 .. td.maxServerId :
         td.servers[id].address \in Address /\ id \in Nat \ {0} /\ id <= td.maxServerId
  BY <1>3, <1>4 DEF ServerDescription
<1>6. /\ DOMAIN nodes = 1 .. td.maxServerId
      /\ \A k \in 1 .. td.maxServerId :
            /\ nodes[k] \in NodeType /\ nodes[k].id = k /\ ~nodes[k].retired
            /\ nodes[k].address = td.servers[k].address
  BY <1>1, <1>5 DEF Node, NodeType
<1>7. nodes \in Seq(NodeType)
  <2>1. nodes \in [1 .. td.maxServerId -> NodeType]
    BY <1>1, <1>6
  <2>2. QED BY <1>4, <2>1
<1>8. ScannerTypeOK
  BY <1>1, <1>7 DEF ScannerTypeOK
<1>9. OneNodePerHost
  <2>1. \A j, k \in DOMAIN td.servers :
           td.servers[j].address = td.servers[k].address => j = k
    BY <1>2 DEF Inv, AddressesAreUnique
  <2>2. DOMAIN cmds = {}
    BY <1>1
  <2>3. \A j, k \in DOMAIN nodes :
           /\ nodes[j].id = j /\ nodes[k].id = k
           /\ nodes[j].address = nodes[k].address => j = k
    BY <1>3, <1>6, <2>1
  <2>4. QED BY <2>2, <2>3 DEF OneNodePerHost
<1>10. CommandsHaveStreams /\ ExpiryIsInOrder /\ LeftBehindAreSilent
  BY <1>1 DEF CommandsHaveStreams, ExpiryIsInOrder, LeftBehindAreSilent
<1>11. NodesAgreeWithServers
  BY <1>6 DEF NodesAgreeWithServers
<1>12. NodesAreKnown
  BY <1>5, <1>6 DEF NodesAreKnown
<1>13. NewServersAreSilent
  BY <1>3, <1>6 DEF NewServersAreSilent
<1>14. QED BY <1>2, <1>8, <1>9, <1>10, <1>11, <1>12, <1>13 DEF ScannerInv

\* Each step keeps the invariant, and the picture's promises.
LEMMA TopologyNextKeepsInv ==
    ASSUME ScannerInv, TopologyNext PROVE ScannerInv' /\ \E id : Moves(id)
<1>1. CASE StartScan
  BY <1>1, StartScanKeepsInv
<1>2. CASE StartScanAborts
  BY <1>2, AbortingKeepsInv DEF StartScanAborts
<1>3. CASE Answer
  BY <1>3, AnswerKeepsInv
<1>4. CASE Expire
  BY <1>4, ExpireKeepsInv
<1>5. CASE ExpireCommand
  BY <1>5, ExpireCommandKeepsInv
<1>6. CASE FinishScan
  BY <1>6, FinishScanKeepsInv
<1>7. CASE Reconcile
  BY <1>7, ReconcileKeepsInv
<1>8. CASE UseNext
  <2>1. PICK id \in 1 .. td.maxServerId :
           \/ UseAborts(id)
           \/ UseFails(id)
           \/ ConnectFails(id)
           \/ \E r \in Reply : Handshake(id, r) \/ Ping(id, r)
           \/ Drop(id)
    BY <1>8 DEF UseNext
  <2>2. id \in Nat \ {0}
    BY DEF ScannerInv, Inv, TypeOK
  <2>3. CASE UseAborts(id)
    BY <2>3, AbortingKeepsInv DEF UseAborts
  <2>4. CASE UseFails(id)
    BY <2>4, UseFailsKeepsInv
  <2>5. CASE ConnectFails(id)
    BY <2>5, ConnectFailsKeepsInv
  <2>6. ASSUME NEW r \in Reply, Handshake(id, r) PROVE ScannerInv' /\ \E j : Moves(j)
    BY <2>2, <2>6, HandshakeKeepsInv
  <2>7. ASSUME NEW r \in Reply, Ping(id, r) PROVE ScannerInv' /\ \E j : Moves(j)
    BY <2>7, PingKeepsInv
  <2>8. CASE Drop(id)
    BY <2>8, DropKeepsInv
  <2>9. QED BY <2>1, <2>3, <2>4, <2>5, <2>6, <2>7, <2>8
<1>9. QED
  BY <1>1, <1>2, <1>3, <1>4, <1>5, <1>6, <1>7, <1>8 DEF TopologyNext, ScanNext

LEMMA StepKeepsScannerInv == ScannerInv /\ [TopologyNext]_topologyVars => ScannerInv'
<1> SUFFICES ASSUME ScannerInv, [TopologyNext]_topologyVars PROVE ScannerInv'
  OBVIOUS
<1>1. CASE TopologyNext
  BY <1>1, TopologyNextKeepsInv
<1>2. CASE UNCHANGED topologyVars
  <2>1. UNCHANGED <<td, nodes, cmds, scan, cursor, handled>> /\ assertion' = assertion
    BY <1>2 DEF topologyVars
  <2>2. QED BY <2>1, AbortingKeepsInv DEF ScannerInv, ScannerTypeOK
<1>3. QED BY <1>1, <1>2

\* Scans, handshakes, lost connections and removed servers, in any order, keep the
\* scanner's invariant.
THEOREM ScannerInvIsInvariant == TopologySpec => []ScannerInv
<1>1. TopologyInit => ScannerInv
  BY TopologyInitInv
<1>2. ScannerInv /\ [TopologyNext]_topologyVars => ScannerInv'
  BY StepKeepsScannerInv
<1>3. QED BY <1>1, <1>2, PTL DEF TopologySpec

\* A command that a scan left behind is of a server that has not answered yet, which
\* the application cannot use: the stream it polls is nobody else's.
LEMMA ScannerInvIsSound == ScannerInv => ScannerIsSound
<1> SUFFICES ASSUME ScannerInv PROVE ScannerIsSound
  OBVIOUS
<1>1. StreamsAreNotShared
  <2> SUFFICES ASSUME Idle, NEW c \in DOMAIN cmds, Usable(cmds[c]) PROVE FALSE
    BY DEF StreamsAreNotShared
  <2>1. QED BY UsableHasNoCommand
<1>2. QED BY <1>1 DEF ScannerInv, ScannerIsSound

\* No host gets two monitoring connections, no command outlives its stream, and the
\* application is never given a stream that still owes the scanner a reply.
THEOREM ScannerStaysSound == TopologySpec => []ScannerIsSound
<1>1. ScannerInv => ScannerIsSound
  BY ScannerInvIsSound
<1>2. QED BY <1>1, ScannerInvIsInvariant, PTL

\* A node stands for one server as long as that server is known: its host's, and
\* unretired.
THEOREM NodesKeepTheirServers == TopologySpec => []NodesAgreeWithServers
<1>1. ScannerInv => NodesAgreeWithServers
  BY DEF ScannerInv
<1>2. QED BY <1>1, ScannerInvIsInvariant, PTL

\* The picture keeps the promises of TopologyDescriptionProps where the scanner and the
\* application drive it, whose NULL replies and handshakes are not single steps of Next.
THEOREM DrivenPictureIsWellFormed == TopologySpec => [](WellFormed /\ AtMostOnePrimary)
<1>1. ScannerInv => WellFormed /\ AtMostOnePrimary
  BY DEF ScannerInv, Inv, WellFormed
<1>2. QED BY <1>1, ScannerInvIsInvariant, PTL

\* And neither they nor the scanner make it forget an election, give an id twice or change
\* its mind on the kind of deployment.
THEOREM DrivenPictureKeepsItsPromises == TopologySpec => ElectionNeverGoesBack /\ IdentityIsFinal
<1>1. ScannerInv /\ [TopologyNext]_topologyVars => [ElectionStep /\ ServerIdStep /\ KindStep]_vars
  <2> SUFFICES ASSUME ScannerInv, [TopologyNext]_topologyVars
               PROVE  [ElectionStep /\ ServerIdStep /\ KindStep]_vars
    OBVIOUS
  <2>1. CASE TopologyNext
    BY <2>1, TopologyNextKeepsInv DEF Moves
  <2>2. CASE UNCHANGED topologyVars
    BY <2>2 DEF topologyVars, vars
  <2>3. QED BY <2>1, <2>2
<1>2. [ElectionStep /\ ServerIdStep /\ KindStep]_vars => [ElectionStep]_vars /\ [ServerIdStep /\ KindStep]_vars
  OBVIOUS
<1>3. QED
  BY <1>1, <1>2, ScannerInvIsInvariant, PTL DEF TopologySpec, ElectionNeverGoesBack, IdentityIsFinal
=============================================================================
