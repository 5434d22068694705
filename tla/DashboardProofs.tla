---------------------------- MODULE DashboardProofs ----------------------------
(***************************************************************************)
(* Proofs about what a dashboard is made of.                               *)
(*                                                                         *)
(* EntityDiscovery: the counts of added entities follow known_macs         *)
(* exactly, and a platform that listens has seen the list the coordinator  *)
(* holds; both promises of the module follow, for any platforms and host   *)
(* lists.  HostList: what the entities show of a list of any length adds   *)
(* up to what the mesh's sensors and the summaries say.  The card: what is *)
(* on the screen, for any entities and configurations, and the comparator, *)
(* for any devices.                                                        *)
(***************************************************************************)
EXTENDS MCDashboard, InductionLemmas

(* The inductive invariant.  known_macs is reset with the entry, so it     *)
(* says which entities were added in this load and which were not.         *)
AddsFollowKnown ==
    \A p \in Platforms, m \in Macs : adds[p][m] = IF m \in known[p] THEN 1 ELSE 0

ReadyPlatformsSawData ==
    loaded => \A p \in ready : DiscoveredMacs(data) \subseteq known[p]

DiscoveryInv ==
    /\ ready \subseteq Platforms
    /\ known \in [Platforms -> SUBSET Macs]
    /\ IF loaded THEN data \in HostLists ELSE data = None
    /\ AddsFollowKnown
    /\ ReadyPlatformsSawData

-----------------------------------------------------------------------------
(* A list the router may send holds no MAC that Macs does not.             *)
LEMMA DiscoveredAreMacs ==
    ASSUME NEW hosts \in HostLists
    PROVE  DiscoveredMacs(hosts) \subseteq Macs
  BY DEF Macs

(* One call of the listeners of P: entities are added for what is new and  *)
(* remembered as known, once.                                              *)
LEMMA AddingKeepsCounts ==
    ASSUME DiscoveryInv, NEW P \in SUBSET Platforms, NEW hosts \in HostLists,
           AddNewClients(P, hosts)
    PROVE  /\ known' \in [Platforms -> SUBSET Macs]
           /\ AddsFollowKnown'
           /\ \A p \in P : DiscoveredMacs(hosts) \subseteq known'[p]
           /\ \A p \in Platforms : known[p] \subseteq known'[p]
<1>1. DiscoveredMacs(hosts) \subseteq Macs
  BY DiscoveredAreMacs
<1>2. /\ known' \in [Platforms -> SUBSET Macs]
      /\ \A p \in P : DiscoveredMacs(hosts) \subseteq known'[p]
      /\ \A p \in Platforms : known[p] \subseteq known'[p]
  BY <1>1 DEF AddNewClients, DiscoveryInv
<1>3. ASSUME NEW p \in Platforms, NEW m \in Macs
      PROVE  adds'[p][m] = IF m \in known'[p] THEN 1 ELSE 0
  <2>1. adds[p][m] = IF m \in known[p] THEN 1 ELSE 0
    BY DEF DiscoveryInv, AddsFollowKnown
  <2>2. adds'[p][m] = adds[p][m] + (IF p \in P THEN Added(hosts, known[p])[m] ELSE 0)
    BY DEF AddNewClients
  <2>3. Added(hosts, known[p])[m] = IF m \in DiscoveredMacs(hosts) \ known[p] THEN 1 ELSE 0
    BY DEF Added
  <2>4. known'[p] = IF p \in P THEN known[p] \cup DiscoveredMacs(hosts) ELSE known[p]
    BY DEF AddNewClients
  <2> HIDE DEF DiscoveredMacs
  <2> QED
    BY <2>1, <2>2, <2>3, <2>4
<1> QED
  BY <1>2, <1>3 DEF AddsFollowKnown

(* A new load starts with no entities.                                     *)
LEMMA NoEntitiesStartsOver ==
    ASSUME NoEntities
    PROVE  /\ ready' = {}
           /\ known' \in [Platforms -> SUBSET Macs]
           /\ AddsFollowKnown'
  BY DEF NoEntities, AddsFollowKnown

(* The invariant holds, wherever polls, setups and reloads fall.           *)
THEOREM DiscoveryInductive == Spec => []DiscoveryInv
<1>1. Init => DiscoveryInv
  BY DEF Init, DiscoveryInv, AddsFollowKnown, ReadyPlatformsSawData
<1>2. DiscoveryInv /\ [Next]_vars => DiscoveryInv'
  <2> SUFFICES ASSUME DiscoveryInv, [Next]_vars
               PROVE  DiscoveryInv'
    OBVIOUS
  <2>1. ASSUME NEW hosts \in HostLists, SetUpEntry(hosts)
        PROVE  DiscoveryInv'
    BY <2>1, NoEntitiesStartsOver DEF SetUpEntry, DiscoveryInv, ReadyPlatformsSawData
  <2>2. ASSUME NEW p \in Platforms, SetUpPlatform(p)
        PROVE  DiscoveryInv'
    <3>1. data \in HostLists /\ AddNewClients({p}, data)
      BY <2>2 DEF SetUpPlatform, DiscoveryInv
    <3>2. /\ known' \in [Platforms -> SUBSET Macs]
          /\ AddsFollowKnown'
          /\ DiscoveredMacs(data) \subseteq known'[p]
          /\ \A q \in Platforms : known[q] \subseteq known'[q]
      BY <3>1, AddingKeepsCounts
    <3> QED
      BY <2>2, <3>1, <3>2 DEF SetUpPlatform, DiscoveryInv, ReadyPlatformsSawData
  <2>3. CASE PollStarts
    BY <2>3 DEF PollStarts, DiscoveryInv, AddsFollowKnown, ReadyPlatformsSawData
  <2>4. ASSUME NEW load \in polls, NEW hosts \in HostLists, PollSucceeds(load, hosts)
        PROVE  DiscoveryInv'
    <3>1. CASE loaded /\ load = loads
      <4>1. data' = hosts /\ AddNewClients(ready, hosts) /\ ready' = ready /\ loaded' = loaded
        BY <2>4, <3>1 DEF PollSucceeds
      <4>2. /\ known' \in [Platforms -> SUBSET Macs]
            /\ AddsFollowKnown'
            /\ \A p \in ready : DiscoveredMacs(hosts) \subseteq known'[p]
        BY <4>1, AddingKeepsCounts DEF DiscoveryInv
      <4> QED
        BY <3>1, <4>1, <4>2 DEF DiscoveryInv, ReadyPlatformsSawData
    <3>2. CASE ~(loaded /\ load = loads)
      BY <2>4, <3>2
         DEF PollSucceeds, DiscoveryInv, AddsFollowKnown, ReadyPlatformsSawData
    <3> QED
      BY <3>1, <3>2
  <2>5. ASSUME NEW load \in polls, PollFails(load)
        PROVE  DiscoveryInv'
    <3>1. CASE loaded /\ load = loads
      <4>1. /\ data' = data /\ AddNewClients(ready, data)
            /\ ready' = ready /\ loaded' = loaded
        BY <2>5, <3>1 DEF PollFails
      <4>2. /\ known' \in [Platforms -> SUBSET Macs]
            /\ AddsFollowKnown'
            /\ \A p \in ready : DiscoveredMacs(data) \subseteq known'[p]
        BY <3>1, <4>1, AddingKeepsCounts DEF DiscoveryInv
      <4> QED
        BY <4>1, <4>2 DEF DiscoveryInv, ReadyPlatformsSawData
    <3>2. CASE ~(loaded /\ load = loads)
      BY <2>5, <3>2
         DEF PollFails, DiscoveryInv, AddsFollowKnown, ReadyPlatformsSawData
    <3> QED
      BY <3>1, <3>2
  <2>6. CASE UnloadEntry
    BY <2>6, NoEntitiesStartsOver DEF UnloadEntry, DiscoveryInv, ReadyPlatformsSawData
  <2>7. CASE UNCHANGED vars
    BY <2>7 DEF vars, DiscoveryInv, AddsFollowKnown, ReadyPlatformsSawData
  <2> QED
    BY <2>1, <2>2, <2>3, <2>4, <2>5, <2>6, <2>7 DEF Next
<1> QED
  BY <1>1, <1>2, PTL DEF Spec

(* Each platform that is set up has an entity for every listed MAC.        *)
THEOREM EveryListedClientHasEntities == Spec => []EveryClientHasEntities
<1>1. DiscoveryInv => EveryClientHasEntities
  <2> SUFFICES ASSUME DiscoveryInv, loaded, NEW p \in ready, NEW m \in DiscoveredMacs(data)
               PROVE  adds[p][m] > 0
    BY DEF EveryClientHasEntities
  <2>1. m \in known[p] /\ m \in Macs
    BY DiscoveredAreMacs DEF DiscoveryInv, ReadyPlatformsSawData
  <2> QED
    BY <2>1 DEF DiscoveryInv, AddsFollowKnown
<1> QED
  BY <1>1, DiscoveryInductive, PTL

(* No entity is added twice in one load.                                   *)
THEOREM EntitiesAreAddedOnce == Spec => []AddedOnce
<1>1. DiscoveryInv => AddedOnce
  BY DEF DiscoveryInv, AddsFollowKnown, AddedOnce
<1> QED
  BY <1>1, DiscoveryInductive, PTL

-----------------------------------------------------------------------------
(* The counts of the inventory against what the entities show.             *)

(* The list the entities look at is a sequence of records, its rates       *)
(* numbers or missing.                                                     *)
LEMMA ListIsSequence ==
    ASSUME DiscoveryInv
    PROVE  /\ Len(list) \in Nat /\ DOMAIN list = 1 .. Len(list)
           /\ \A i \in DOMAIN list, dir \in Directions : list[i][dir] \in Int \cup {None}
  BY DiscoveryParameters DEF DiscoveryInv, list

(* A list has as many places as its length says.                           *)
LEMMA RecordsAreFinite ==
    ASSUME DOMAIN list = 1 .. Len(list), Len(list) \in Nat
    PROVE  IsFiniteSet(DOMAIN list) /\ Cardinality(DOMAIN list) = Len(list)
<1>1. ASSUME NEW n \in Nat
      PROVE  IsFiniteSet(1 .. n) /\ Cardinality(1 .. n) = n
  <2>1. 1 \in Int /\ n \in Int
    OBVIOUS
  <2>2. /\ IsFiniteSet(1 .. n)
        /\ Cardinality(1 .. n) = IF 1 > n THEN 0 ELSE n - 1 + 1
    BY <2>1, FS_Interval, Zenon
  <2> QED
    BY <2>2
<1> QED
  BY <1>1

(* The summary's all_reported_offline is what its name says.               *)
LEMMA StaleIsAllOffline ==
    ASSUME DOMAIN list = 1 .. Len(list), Len(list) \in Nat
    PROVE  AllReportedOffline(list) <=>
              list # <<>> /\ \A i \in DOMAIN list : list[i].raw_online = 0
<1> DEFINE Off == {i \in DOMAIN list : list[i].raw_online = 0}
<1>1. AllReportedOffline(list) <=> list # <<>> /\ Cardinality(Off) = Len(list)
  BY DEF SummarizeInventory, CountClients, AllReportedOffline
<1>2. Cardinality(Off) = Len(list) <=> Off = DOMAIN list
  BY RecordsAreFinite, FS_Subset
<1> QED
  BY <1>1, <1>2

(* The index an entity finds for its MAC, when that is the only one.       *)
IndexOf == [m \in Listed |-> CHOOSE i \in DOMAIN list : list[i].mac.spelt = m]

(* With as many MACs as records, each record is found by one entity, and   *)
(* that is the record the entity reads.                                    *)
LEMMA EachRecordHasItsEntity ==
    ASSUME DOMAIN list = 1 .. Len(list), Len(list) \in Nat, OneRecordPerMac
    PROVE  /\ IsFiniteSet(DOMAIN list) /\ Cardinality(DOMAIN list) = Len(list)
           /\ IsFiniteSet(Listed)
           /\ IndexOf \in Bijection(Listed, DOMAIN list)
           /\ \A m \in Listed : ClientOf(list, m) = list[IndexOf[m]]
<1>1. IsFiniteSet(DOMAIN list) /\ Cardinality(DOMAIN list) = Len(list)
  BY RecordsAreFinite
<1>2. /\ IndexOf \in [Listed -> DOMAIN list]
      /\ \A m \in Listed : list[IndexOf[m]].mac.spelt = m
  <2>1. \A m \in Listed : \E i \in DOMAIN list : list[i].mac.spelt = m
    BY DEF Listed, ClientListed, Matches
  <2>2. \A m \in Listed : /\ IndexOf[m] \in DOMAIN list
                          /\ list[IndexOf[m]].mac.spelt = m
    BY <2>1 DEF IndexOf
  <2> QED
    BY <2>2 DEF IndexOf
<1>3. IndexOf \in Injection(Listed, DOMAIN list)
  BY <1>2 DEF Injection, IsInjective
<1>4. IsFiniteSet(Listed) /\ IndexOf \in Surjection(Listed, DOMAIN list)
  BY <1>1, <1>3, FS_Injection DEF OneRecordPerMac
<1>5. ASSUME NEW m \in Listed
      PROVE  ClientOf(list, m) = list[IndexOf[m]]
  <2>1. \A i \in DOMAIN list : list[i].mac.spelt = m => i = IndexOf[m]
    BY <1>2, <1>4 DEF Surjection
  <2>2. Matches(list, m) = {IndexOf[m]}
    BY <1>2, <2>1 DEF Matches
  <2>3. (CHOOSE i \in {IndexOf[m]} : \A j \in {IndexOf[m]} : i <= j) = IndexOf[m]
    BY <1>2
  <2> QED
    BY <2>2, <2>3 DEF ClientOf
<1> QED
  BY <1>1, <1>3, <1>4, <1>5 DEF Bijection

(* Entities whose record is in a part of the list are as many as the       *)
(* records of that part.                                                   *)
LEMMA AsManyEntitiesAsRecords ==
    ASSUME DOMAIN list = 1 .. Len(list), Len(list) \in Nat, OneRecordPerMac,
           NEW Part \in SUBSET DOMAIN list
    PROVE  Cardinality({m \in Listed : IndexOf[m] \in Part}) = Cardinality(Part)
<1> DEFINE Shown == {m \in Listed : IndexOf[m] \in Part}
           f == [m \in Shown |-> IndexOf[m]]
<1>1. /\ IsFiniteSet(Shown)
      /\ IndexOf \in Bijection(Listed, DOMAIN list)
  BY EachRecordHasItsEntity, FS_Subset
<1>2. f \in Bijection(Shown, Part)
  BY <1>1 DEF Bijection, Injection, Surjection, IsInjective
<1> QED
  BY <1>1, <1>2, FS_Bijection DEF ExistsBijection

(* Whatever list the coordinator holds, as many connectivity entities are  *)
(* on, and signal entities of each state, as the inventory counts.         *)
THEOREM SensorsMatchInventory == Spec => []OnSensorsMatchInventory
<1>1. DiscoveryInv => Len(list) \in Nat /\ DOMAIN list = 1 .. Len(list)
  BY DiscoveryParameters DEF DiscoveryInv, list
<1>2. ASSUME Len(list) \in Nat, DOMAIN list = 1 .. Len(list), OneRecordPerMac
      PROVE  OnSensorsMatchInventory
  <2> DEFINE On == {i \in DOMAIN list : ReportedOnline(list[i])}
             Off == {i \in DOMAIN list : list[i].raw_online = 0}
             Unknown == {i \in DOMAIN list : list[i].raw_online = None}
             Summary == SummarizeInventory(list)
  <2>1. /\ Summary.reported_online = Cardinality(On)
        /\ Summary.reported_offline = Cardinality(Off)
        /\ Summary.unknown_online_state = Len(list) - Cardinality(On) - Cardinality(Off)
        /\ AllReportedOffline(list) <=> list # <<>> /\ Cardinality(Off) = Len(list)
    BY DEF SummarizeInventory, CountClients, AllReportedOffline
  <2>2. Cardinality(Unknown) = Len(list) - Cardinality(On) - Cardinality(Off)
    <3>1. /\ IsFiniteSet(DOMAIN list) /\ Cardinality(DOMAIN list) = Len(list)
          /\ IsFiniteSet(On) /\ IsFiniteSet(Off)
      BY <1>2, EachRecordHasItsEntity, FS_Subset
    <3>2. /\ IsFiniteSet(On \cup Off)
          /\ Cardinality(On \cup Off) = Cardinality(On) + Cardinality(Off) - Cardinality(On \cap Off)
      BY <3>1, FS_Union
    <3>3. On \cap Off = {} /\ Unknown = DOMAIN list \ (On \cup Off)
      BY DiscoveryParameters DEF ReportedOnline
    <3>4. /\ DOMAIN list \cap (On \cup Off) = On \cup Off
          /\ Cardinality(DOMAIN list \ (On \cup Off))
               = Cardinality(DOMAIN list) - Cardinality(DOMAIN list \cap (On \cup Off))
      BY <3>1, FS_Difference
    <3>5. /\ Cardinality(On) \in Nat /\ Cardinality(Off) \in Nat
          /\ Cardinality(On \cap Off) = 0
      BY <3>1, <3>3, FS_EmptySet, FS_CardinalityType
    <3> DEFINE Known == On \cup Off
    <3>6. Cardinality(Known) = Cardinality(On) + Cardinality(Off)
      BY <3>2, <3>5
    <3>7. Cardinality(DOMAIN list \ Known) = Len(list) - Cardinality(Known)
      BY <3>1, <3>4
    <3>8. Cardinality(Unknown) = Len(list) - (Cardinality(On) + Cardinality(Off))
      BY <3>3, <3>6, <3>7
    <3> HIDE DEF On, Off, Unknown
    <3> QED
      BY <3>5, <3>8, <1>2
  <2>3. On # {} => ~AllReportedOffline(list)
    <3>1. On # {} => Off # DOMAIN list
      BY DEF ReportedOnline
    <3>2. Off # DOMAIN list => Cardinality(Off) # Len(list)
      BY <1>2, EachRecordHasItsEntity, FS_Subset
    <3> QED
      BY <3>1, <3>2, <2>1
  <2>4. /\ \A m \in Listed : IndexOf[m] \in DOMAIN list
        /\ \A m \in Listed : ClientOf(list, m) = list[IndexOf[m]]
    BY <1>2, EachRecordHasItsEntity DEF Bijection, Injection
  <2>5. {m \in Listed : OnlineAvailable(list, m) /\ IsOn(list, m)}
          = {m \in Listed : IndexOf[m] \in On}
    BY <2>3, <2>4 DEF OnlineAvailable, IsOn, Listed
  <2>6. /\ {m \in Listed : InventoryState(list, m) = "reported_online"}
            = {m \in Listed : IndexOf[m] \in On}
        /\ {m \in Listed : InventoryState(list, m) = "reported_offline"}
            = {m \in Listed : IndexOf[m] \in Off}
        /\ {m \in Listed : InventoryState(list, m) = "unknown"}
            = {m \in Listed : IndexOf[m] \in Unknown}
    BY <2>4, DiscoveryParameters DEF InventoryState, ReportedOnline
  <2>7. /\ Cardinality({m \in Listed : IndexOf[m] \in On}) = Cardinality(On)
        /\ Cardinality({m \in Listed : IndexOf[m] \in Off}) = Cardinality(Off)
        /\ Cardinality({m \in Listed : IndexOf[m] \in Unknown}) = Cardinality(Unknown)
    BY <1>2, AsManyEntitiesAsRecords
  <2> HIDE DEF On, Off, Unknown
  <2> QED
    BY <2>1, <2>2, <2>5, <2>6, <2>7 DEF OnSensorsMatchInventory
<1>3. DiscoveryInv => OnSensorsMatchInventory
  BY <1>1, <1>2 DEF OnSensorsMatchInventory
<1> QED
  BY <1>3, DiscoveryInductive, PTL

-----------------------------------------------------------------------------
(* The rates, and what the health sensors say of them.                     *)

(* The values a mesh's sensor adds up are numbers of clients that are      *)
(* online, and where one is, the inventory is not all offline.             *)
LEMMA MeshRateIsSum ==
    ASSUME DiscoveryInv, NEW dir \in Directions
    PROVE  /\ IsFiniteSet(ValidValues(list, dir))
           /\ \A i \in ValidValues(list, dir) : list[i][dir] \in Nat
           /\ ValidValues(list, dir) # {} => ~AllReportedOffline(list)
           /\ AggregateRate(list, dir) =
                 IF ValidValues(list, dir) = {} THEN None
                 ELSE SumFunctionOnSet([i \in DOMAIN list |-> list[i][dir]],
                                       ValidValues(list, dir))
<1>1. IsFiniteSet(DOMAIN list) /\ Cardinality(DOMAIN list) = Len(list)
  BY ListIsSequence, RecordsAreFinite
<1>2. IsFiniteSet(ValidValues(list, dir)) /\ ValidValues(list, dir) \subseteq EligibleClients(list)
  BY <1>1, FS_Subset DEF ValidValues, EligibleClients
<1>3. \A i \in ValidValues(list, dir) : list[i][dir] \in Nat
  BY ListIsSequence DEF ValidValues, EligibleClients, ValidRate
<1>4. EligibleClients(list) # {} => ~AllReportedOffline(list)
  BY ListIsSequence, StaleIsAllOffline DEF EligibleClients, ReportedOnline
<1> QED
  BY <1>2, <1>3, <1>4 DEF AggregateRate, InventoryFresh

(* With one record per MAC, the clients whose sensors show a rate are      *)
(* those whose values the mesh's sensor adds up.                           *)
LEMMA RatedAreValid ==
    ASSUME DiscoveryInv, OneRecordPerMac, NEW dir \in Directions
    PROVE  /\ Rated(dir) = {m \in Listed : IndexOf[m] \in ValidValues(list, dir)}
           /\ \A m \in Rated(dir) : ClientRate(list, m, dir) = list[IndexOf[m]][dir]
<1>1. \A m \in Listed : /\ ClientListed(list, m)
                        /\ IndexOf[m] \in DOMAIN list
                        /\ ClientOf(list, m) = list[IndexOf[m]]
  BY ListIsSequence, EachRecordHasItsEntity DEF Bijection, Injection, Listed
<1>2. ASSUME NEW m \in Listed
      PROVE  ClientRate(list, m, dir) =
                IF IndexOf[m] \in ValidValues(list, dir) THEN list[IndexOf[m]][dir] ELSE None
  <2>1. IndexOf[m] \in ValidValues(list, dir) <=>
           ReportedOnline(list[IndexOf[m]]) /\ ValidRate(list[IndexOf[m]], dir)
    BY <1>1 DEF ValidValues, EligibleClients
  <2>2. ValidValues(list, dir) # {} => ~AllReportedOffline(list)
    BY MeshRateIsSum
  <2>3. ClientRate(list, m, dir) =
           IF /\ ReportedOnline(list[IndexOf[m]])
              /\ ~AllReportedOffline(list)
              /\ ValidRate(list[IndexOf[m]], dir)
           THEN list[IndexOf[m]][dir] ELSE None
    BY <1>1 DEF ClientRate
  <2> QED
    BY <2>1, <2>2, <2>3
<1>3. \A i \in ValidValues(list, dir) : list[i][dir] # None
  <2>1. \A i \in ValidValues(list, dir) : list[i][dir] \in Nat
    BY MeshRateIsSum
  <2>2. None \notin Nat
    BY DiscoveryParameters
  <2> QED
    BY <2>1, <2>2
<1> QED
  BY <1>2, <1>3 DEF Rated

(* Of every list: summed by the mesh's sensor or shown by the clients' own, *)
(* the rates are the same.                                                 *)
THEOREM MeshRateAddsUp == Spec => []MeshRateIsSumOfClients
<1>1. DiscoveryInv => MeshRateIsSumOfClients
  <2> SUFFICES ASSUME DiscoveryInv, OneRecordPerMac, NEW dir \in Directions
               PROVE  AggregateRate(list, dir) =
                         IF Rated(dir) = {} THEN None
                         ELSE SumFunction([m \in Rated(dir) |-> ClientRate(list, m, dir)])
    BY DEF MeshRateIsSumOfClients
  <2> DEFINE V == ValidValues(list, dir)
             value == [i \in DOMAIN list |-> list[i][dir]]
             rated == [m \in Rated(dir) |-> ClientRate(list, m, dir)]
             f == [m \in Rated(dir) |-> IndexOf[m]]
  <2>1. IndexOf \in Bijection(Listed, DOMAIN list) /\ IsFiniteSet(Listed)
    BY ListIsSequence, EachRecordHasItsEntity
  <2>2. /\ Rated(dir) = {m \in Listed : IndexOf[m] \in V}
        /\ \A m \in Rated(dir) : rated[m] = list[IndexOf[m]][dir]
    BY RatedAreValid
  <2>3. V \subseteq DOMAIN list /\ \A i \in V : value[i] = list[i][dir] /\ value[i] \in Nat
    BY MeshRateIsSum DEF ValidValues, EligibleClients
  <2> HIDE DEF V
  <2>4. IsFiniteSet(Rated(dir)) /\ f \in Bijection(Rated(dir), V)
    <3>1. IsFiniteSet(Rated(dir))
      BY <2>1, <2>2, FS_Subset
    <3> QED
      BY <3>1, <2>1, <2>2, <2>3 DEF Bijection, Injection, Surjection, IsInjective
  <2>5. \A m \in Rated(dir) : rated[m] = value[f[m]]
    BY <2>2, <2>3
  <2>6. SumFunctionOnSet(rated, Rated(dir)) = SumFunctionOnSet(value, V)
    <3> HIDE DEF rated, value, f
    <3>1. \A i \in V : value[i] \in Int
      BY <2>3
    <3> QED
      BY <2>4, <2>5, <3>1, SumAlongBijection
  <2>7. Rated(dir) = {} <=> V = {}
    BY <2>4 DEF Bijection, Injection, Surjection
  <2>8. SumFunction(rated) = SumFunctionOnSet(rated, Rated(dir))
    BY DEF SumFunction
  <2>9. AggregateRate(list, dir) = IF V = {} THEN None ELSE SumFunctionOnSet(value, V)
    BY MeshRateIsSum DEF V
  <2> QED
    BY <2>6, <2>7, <2>8, <2>9
<1> QED
  BY <1>1, DiscoveryInductive, PTL

(* What the transfer health sensor says, in terms of the records.          *)
LEMMA HealthByRecords ==
    ASSUME DiscoveryInv
    PROVE  LET seen == {i \in DOMAIN list :
                           ReportedOnline(list[i]) /\ \E dir \in Directions : PositiveRate(list[i], dir)}
           IN  /\ TransferHealth(list) = "inventory_stale" <=> AllReportedOffline(list)
               /\ TransferHealth(list) = "rate_observed" <=> seen # {}
<1> DEFINE seen == {i \in DOMAIN list :
                       ReportedOnline(list[i]) /\ \E dir \in Directions : PositiveRate(list[i], dir)}
           online == EligibleClients(list)
           readiness == SummarizeTransferReadiness(list)
<1>1. /\ readiness.inventory_all_reported_offline = AllReportedOffline(list)
      /\ readiness.eligible_clients = Cardinality(online)
      /\ readiness.clients_with_rate = Cardinality(seen)
  BY DEF SummarizeTransferReadiness, CountClients, EligibleClients
<1>2. IsFiniteSet(online) /\ IsFiniteSet(seen)
  BY ListIsSequence, RecordsAreFinite, FS_Subset DEF EligibleClients
<1>3. /\ Cardinality(online) \in Nat /\ Cardinality(seen) \in Nat
      /\ Cardinality(online) = 0 <=> online = {}
      /\ Cardinality(seen) = 0 <=> seen = {}
  BY <1>2, FS_CardinalityType, FS_EmptySet
<1>4. seen \subseteq online /\ (online # {} => ~AllReportedOffline(list))
  BY ListIsSequence, StaleIsAllOffline DEF EligibleClients, ReportedOnline
<1> HIDE DEF online, seen, readiness
<1>5. TransferHealth(list) =
         CASE readiness.inventory_all_reported_offline -> "inventory_stale"
           [] ~readiness.inventory_all_reported_offline /\ readiness.eligible_clients = 0
                -> "waiting_for_online_clients"
           [] readiness.eligible_clients > 0 /\ readiness.clients_with_rate = 0
                -> "waiting_for_rate_observation"
           [] OTHER -> "rate_observed"
  BY DEF TransferHealth, readiness
<1>6. CASE AllReportedOffline(list)
  <2>1. online = {} /\ seen = {}
    BY <1>4, <1>6
  <2>2. TransferHealth(list) = "inventory_stale"
    BY <1>1, <1>3, <1>5, <1>6, <2>1
  <2> QED
    BY <1>6, <2>1, <2>2 DEF seen
<1>7. CASE ~AllReportedOffline(list) /\ online = {}
  <2>1. TransferHealth(list) = "waiting_for_online_clients"
    BY <1>1, <1>3, <1>5, <1>7
  <2> QED
    BY <1>4, <1>7, <2>1 DEF seen
<1>8. CASE ~AllReportedOffline(list) /\ online # {} /\ seen = {}
  <2>1. TransferHealth(list) = "waiting_for_rate_observation"
    BY <1>1, <1>3, <1>5, <1>8
  <2> QED
    BY <1>8, <2>1 DEF seen
<1>9. CASE ~AllReportedOffline(list) /\ online # {} /\ seen # {}
  <2>1. TransferHealth(list) = "rate_observed"
    BY <1>1, <1>3, <1>5, <1>9
  <2> QED
    BY <1>9, <2>1 DEF seen
<1> QED
  BY <1>6, <1>7, <1>8, <1>9

(* The health sensors contradict no other entity, whatever the list.       *)
THEOREM HealthAgreesWithSensors == Spec => []HealthMatchesSensors
<1>1. ASSUME DiscoveryInv
      PROVE  TransferHealth(list) = "rate_observed" <=>
                \E dir \in Directions :
                    AggregateRate(list, dir) # None /\ AggregateRate(list, dir) > 0
  <2> DEFINE Shows(dir) == \E i \in DOMAIN list :
                               ReportedOnline(list[i]) /\ PositiveRate(list[i], dir)
  <2>1. ASSUME NEW dir \in Directions
        PROVE  AggregateRate(list, dir) # None /\ AggregateRate(list, dir) > 0 <=> Shows(dir)
    <3> DEFINE V == ValidValues(list, dir)
               value == [i \in DOMAIN list |-> list[i][dir]]
    <3>1. IsFiniteSet(V) /\ V \subseteq DOMAIN list /\ \A i \in V : value[i] \in Nat
      BY <1>1, MeshRateIsSum DEF ValidValues, EligibleClients
    <3>2. /\ SumFunctionOnSet(value, V) \in Nat
          /\ SumFunctionOnSet(value, V) > 0 <=> \E i \in V : value[i] > 0
      <4> HIDE DEF value, V
      <4> QED
        BY <3>1, SumOfNaturals
    <3>3. Shows(dir) <=> \E i \in V : value[i] > 0
      BY <1>1, ListIsSequence DEF PositiveRate, ValidValues, EligibleClients, ValidRate
    <3>4. AggregateRate(list, dir) = IF V = {} THEN None ELSE SumFunctionOnSet(value, V)
      BY <1>1, MeshRateIsSum
    <3> HIDE DEF value, V, Shows
    <3> QED
      BY <3>2, <3>3, <3>4, DiscoveryParameters
  <2>2. TransferHealth(list) = "rate_observed" <=> \E dir \in Directions : Shows(dir)
    BY <1>1, HealthByRecords
  <2> QED
    BY <2>1, <2>2
<1>2. ASSUME DiscoveryInv
      PROVE  /\ TransferHealth(list) = "inventory_stale" <=>
                   InventoryHealth(list) = "all_reported_offline"
             /\ TransferHealth(list) = "inventory_stale" =>
                   \A m \in Listed :
                       ~OnlineAvailable(list, m) /\ \A dir \in Directions : m \notin Rated(dir)
  <2>1. TransferHealth(list) = "inventory_stale" <=> AllReportedOffline(list)
    BY <1>2, HealthByRecords
  <2>2. AllReportedOffline(list) => list # <<>>
    BY <1>2, ListIsSequence, StaleIsAllOffline
  <2> QED
    BY <2>1, <2>2 DEF InventoryHealth, OnlineAvailable, Rated, ClientRate
<1>3. ASSUME DiscoveryInv, OneRecordPerMac
      PROVE  /\ OnlineClients(list) = Cardinality({m \in Listed : RateDataReliable(list, m)})
             /\ \A dir \in Directions :
                    /\ \A m \in Rated(dir) : RateDataReliable(list, m)
                    /\ CountingActive(list, dir) <=> Rated(dir) # {}
  <2>1. /\ \A m \in Listed : /\ IndexOf[m] \in DOMAIN list
                             /\ ClientOf(list, m) = list[IndexOf[m]]
        /\ \A i \in DOMAIN list : \E m \in Listed : IndexOf[m] = i
    BY <1>3, ListIsSequence, EachRecordHasItsEntity DEF Bijection, Injection, Surjection
  <2>2. EligibleClients(list) # {} => ~AllReportedOffline(list)
    BY <1>3, ListIsSequence, StaleIsAllOffline DEF EligibleClients, ReportedOnline
  <2>3. {m \in Listed : RateDataReliable(list, m)}
          = {m \in Listed : IndexOf[m] \in EligibleClients(list)}
    BY <2>1, <2>2 DEF RateDataReliable, EligibleClients
  <2>4. Cardinality({m \in Listed : IndexOf[m] \in EligibleClients(list)})
          = Cardinality(EligibleClients(list))
    <3>1. EligibleClients(list) \in SUBSET DOMAIN list
      BY DEF EligibleClients
    <3> QED
      BY <1>3, <3>1, ListIsSequence, AsManyEntitiesAsRecords
  <2>5. ASSUME NEW dir \in Directions
        PROVE  /\ \A m \in Rated(dir) : RateDataReliable(list, m)
               /\ CountingActive(list, dir) <=> Rated(dir) # {}
    <3>1. Rated(dir) = {m \in Listed : IndexOf[m] \in ValidValues(list, dir)}
      BY <1>3, RatedAreValid
    <3>2. ValidValues(list, dir) \subseteq EligibleClients(list) /\ EligibleClients(list) \subseteq DOMAIN list
      BY DEF ValidValues, EligibleClients
    <3>3. AggregateRate(list, dir) # None <=> ValidValues(list, dir) # {}
      <4> DEFINE V == ValidValues(list, dir)
                 value == [i \in DOMAIN list |-> list[i][dir]]
      <4>1. IsFiniteSet(V) /\ \A i \in V : value[i] \in Nat
        BY <1>3, <3>2, MeshRateIsSum
      <4>2. AggregateRate(list, dir) = IF V = {} THEN None ELSE SumFunctionOnSet(value, V)
        BY <1>3, MeshRateIsSum
      <4>3. SumFunctionOnSet(value, V) \in Nat
        <5> HIDE DEF value, V
        <5> QED
          BY <4>1, SumOfNaturals
      <4> HIDE DEF value, V
      <4>4. AggregateRate(list, dir) # None <=> V # {}
        BY <4>2, <4>3, DiscoveryParameters
      <4> QED
        BY <4>4 DEF V
    <3> QED
      BY <2>1, <2>3, <3>1, <3>2, <3>3 DEF CountingActive
  <2> QED
    BY <2>3, <2>4, <2>5 DEF OnlineClients
<1>4. DiscoveryInv => HealthMatchesSensors
  BY <1>1, <1>2, <1>3 DEF HealthMatchesSensors
<1> QED
  BY <1>4, DiscoveryInductive, PTL

-----------------------------------------------------------------------------
(* Joined texts.                                                           *)

(* The texts of s stand in all, one after the other and each followed by   *)
(* the separator or by the end; at[n] is the place after text n.           *)
JoinedAt(s, separator, all, at) ==
    /\ at[0] = 0
    /\ \A n \in 1 .. Len(s) :
          /\ at[n] = at[n - 1] + Len(s[n]) + 1
          /\ \A i \in 1 .. Len(s[n]) : all[at[n - 1] + i] = s[n][i]
          /\ IF n = Len(s) THEN at[n] = Len(all) + 1
             ELSE at[n] <= Len(all) /\ all[at[n]] = separator

(* What Join flattens.                                                     *)
Parts(s, separator) ==
    [i \in DOMAIN s |-> IF i = Len(s) THEN s[i] ELSE s[i] \o <<separator>>]

(* A text followed by one character.                                       *)
LEMMA OneMoreCharacter ==
    ASSUME NEW S, NEW text \in Seq(S), NEW x \in S
    PROVE  LET c == text \o <<x>>
           IN  /\ c \in Seq(S) /\ Len(c) = Len(text) + 1
               /\ c[Len(text) + 1] = x
               /\ \A i \in 1 .. Len(text) : c[i] = text[i]
<1> DEFINE c == text \o <<x>>
<1>1. c \in Seq(S) /\ Len(text) \in Nat
  BY LenProperties
<1>2. Len(c) = Len(text) + 1
  BY <1>1
<1>3. c[Len(text) + 1] = x
  BY <1>1
<1>4. \A i \in 1 .. Len(text) : c[i] = text[i]
  BY <1>1
<1> QED
  BY <1>1, <1>2, <1>3, <1>4

(* The parts are the texts with what follows each.                         *)
ArePartsOf(p, S, s, separator) ==
    /\ p \in Seq(Seq(S)) /\ Len(p) = Len(s)
    /\ \A n \in 1 .. Len(s) :
          /\ Len(s[n]) \in Nat
          /\ n = Len(s) => p[n] = s[n]
          /\ n # Len(s) => Len(p[n]) = Len(s[n]) + 1 /\ p[n][Len(s[n]) + 1] = separator
          /\ \A i \in 1 .. Len(s[n]) : p[n][i] = s[n][i]

LEMMA PartsFacts ==
    ASSUME NEW S, NEW s \in Seq(Seq(S)), NEW separator \in S
    PROVE  /\ ArePartsOf(Parts(s, separator), S, s, separator)
           /\ Join(s, separator) = FlattenSeq(Parts(s, separator))
<1> DEFINE N == Len(s)
           p == Parts(s, separator)
<1>1. N \in Nat /\ DOMAIN s = 1 .. N
      /\ \A n \in 1 .. N : s[n] \in Seq(S) /\ Len(s[n]) \in Nat
  BY LenProperties, ElementOfSeq
<1>2. Join(s, separator) = FlattenSeq(p)
  BY DEF Join, Parts
<1>3. p = [n \in 1 .. N |-> IF n = N THEN s[n] ELSE s[n] \o <<separator>>]
  BY <1>1 DEF Parts
<1> HIDE DEF N, p
<1>5. ASSUME NEW n \in 1 .. N
      PROVE  LET c == s[n] \o <<separator>>
             IN  /\ c \in Seq(S) /\ Len(c) = Len(s[n]) + 1
                 /\ c[Len(s[n]) + 1] = separator
                 /\ \A i \in 1 .. Len(s[n]) : c[i] = s[n][i]
  <2>1. s[n] \in Seq(S)
    BY <1>1
  <2> QED
    BY <2>1, OneMoreCharacter
<1>6. \A n \in 1 .. N : (IF n = N THEN s[n] ELSE s[n] \o <<separator>>) \in Seq(S)
  BY <1>1, <1>5
<1>7. p \in Seq(Seq(S)) /\ Len(p) = N
  BY <1>1, <1>3, <1>6
<1>8. ASSUME NEW n \in 1 .. N
      PROVE  /\ n = N => p[n] = s[n]
             /\ n # N => Len(p[n]) = Len(s[n]) + 1 /\ p[n][Len(s[n]) + 1] = separator
             /\ \A i \in 1 .. Len(s[n]) : p[n][i] = s[n][i]
  <2>1. p[n] = IF n = N THEN s[n] ELSE s[n] \o <<separator>>
    BY <1>3
  <2> QED
    BY <1>5, <2>1
<1>9. ArePartsOf(p, S, s, separator)
  BY <1>1, <1>7, <1>8 DEF N, ArePartsOf
<1> QED
  BY <1>2, <1>9 DEF p

(* Where the texts stand.                                                  *)
LEMMA JoinPlaces ==
    ASSUME NEW S, NEW s \in Seq(Seq(S)), NEW separator \in S, Len(s) > 0
    PROVE  /\ Join(s, separator) \in Seq(S)
           /\ \E at \in [0 .. Len(s) -> Nat] : JoinedAt(s, separator, Join(s, separator), at)
<1> DEFINE N == Len(s)
           p == Parts(s, separator)
           all == Join(s, separator)
<1>1. N \in Nat
  BY LenProperties
<1>a. ArePartsOf(p, S, s, separator) /\ all = FlattenSeq(p)
  BY PartsFacts
<1> HIDE DEF p, all
<1>2. /\ p \in Seq(Seq(S)) /\ Len(p) = N /\ all = FlattenSeq(p)
      /\ \A n \in 1 .. N :
            /\ Len(s[n]) \in Nat
            /\ n = N => p[n] = s[n]
            /\ n # N => Len(p[n]) = Len(s[n]) + 1 /\ p[n][Len(s[n]) + 1] = separator
            /\ \A i \in 1 .. Len(s[n]) : p[n][i] = s[n][i]
  BY <1>a DEF ArePartsOf
<1>3. PICK g \in [0 .. Len(p) -> Seq(S)] : Flattens(p, g) /\ all = g[Len(p)]
  <2>1. p \in Seq(Seq(S)) /\ all = FlattenSeq(p)
    BY <1>2
  <2> QED
    BY <2>1, FlattenSteps
<1>4. ASSUME NEW n \in 1 .. N
      PROVE  /\ Len(g[n]) = Len(g[n - 1]) + Len(p[n]) /\ Len(g[n]) <= Len(all)
             /\ \A i \in 1 .. Len(p[n]) : all[Len(g[n - 1]) + i] = p[n][i]
  <2>1. p \in Seq(Seq(S)) /\ n \in 1 .. Len(p)
    BY <1>2
  <2>2. Places(g[n - 1], p[n], g[n], g[Len(p)])
    BY <1>3, <2>1, FlattenPlaces
  <2> QED
    BY <1>3, <2>2 DEF Places
<1>5. g \in [0 .. N -> Seq(S)] /\ all = g[N] /\ Len(g[0]) = 0
  BY <1>2, <1>3 DEF Flattens
<1>6. all \in Seq(S) /\ Len(all) \in Nat /\ \A n \in 0 .. N : Len(g[n]) \in Nat
  BY <1>1, <1>5, LenProperties
<1> DEFINE at == [n \in 0 .. N |-> IF n = N THEN Len(all) + 1 ELSE Len(g[n])]
<1>7. at \in [0 .. N -> Nat] /\ at[0] = 0
  BY <1>1, <1>5, <1>6
<1>8. ASSUME NEW n \in 1 .. N
      PROVE  /\ at[n] = at[n - 1] + Len(s[n]) + 1
             /\ \A i \in 1 .. Len(s[n]) : all[at[n - 1] + i] = s[n][i]
             /\ IF n = N THEN at[n] = Len(all) + 1
                ELSE at[n] <= Len(all) /\ all[at[n]] = separator
  <2> DEFINE before == Len(g[n - 1])
             after == Len(g[n])
             end == Len(all)
             l == Len(s[n])
  <2>1. n - 1 \in 0 .. N /\ n \in 0 .. N /\ n - 1 # N
    BY <1>1
  <2>2. at[n - 1] = before /\ before \in Nat /\ after \in Nat /\ end \in Nat /\ l \in Nat
    BY <1>2, <1>6, <2>1
  <2>3. after = before + Len(p[n]) /\ after <= end
    BY <1>4
  <2>4. \A i \in 1 .. Len(p[n]) : all[before + i] = p[n][i]
    BY <1>4
  <2>5. \A i \in 1 .. l : p[n][i] = s[n][i]
    BY <1>2
  <2>6. CASE n = N
    <3>1. at[n] = end + 1 /\ Len(p[n]) = l /\ after = end
      BY <1>2, <1>5, <2>1, <2>6
    <3> HIDE DEF at, before, after, end, l
    <3>2. at[n] = at[n - 1] + l + 1
      BY <2>2, <2>3, <3>1
    <3>3. \A i \in 1 .. l : all[at[n - 1] + i] = s[n][i]
      BY <2>2, <2>4, <2>5, <3>1
    <3> QED
      BY <2>6, <3>1, <3>2, <3>3 DEF l, end
  <2>7. CASE n # N
    <3>1. at[n] = after /\ Len(p[n]) = l + 1 /\ p[n][l + 1] = separator
      BY <1>2, <2>1, <2>7
    <3> HIDE DEF at, before, after, end, l
    <3>2. at[n] = at[n - 1] + l + 1 /\ at[n] <= end /\ before + (l + 1) = at[n]
      BY <2>2, <2>3, <3>1
    <3>3. l + 1 \in 1 .. Len(p[n])
      BY <2>2, <3>1
    <3>4. all[at[n]] = separator
      <4>1. all[before + (l + 1)] = separator
        BY <2>4, <3>1, <3>3
      <4> QED
        BY <3>2, <4>1
    <3>5. ASSUME NEW i \in 1 .. l
          PROVE  all[at[n - 1] + i] = s[n][i]
      <4>1. i \in 1 .. Len(p[n])
        BY <2>2, <3>1
      <4> QED
        BY <2>2, <2>4, <2>5, <4>1
    <3> QED
      BY <2>7, <3>2, <3>4, <3>5 DEF l, end
  <2> QED
    BY <2>6, <2>7
<1>9. JoinedAt(s, separator, all, at)
  <2> HIDE DEF at
  <2> QED
    BY <1>7, <1>8 DEF JoinedAt
<1> QED
  BY <1>6, <1>7, <1>9 DEF all

(* What a joined text is made of.                                          *)
LEMMA JoinElements ==
    ASSUME NEW S, NEW s \in Seq(Seq(S)), NEW separator \in S,
           NEW k \in 1 .. Len(Join(s, separator))
    PROVE  \/ Join(s, separator)[k] = separator
           \/ IsIn(Join(s, separator)[k], s)
<1> DEFINE N == Len(s)
           p == Parts(s, separator)
           all == Join(s, separator)
<1>1. N \in Nat
  BY LenProperties
<1>a. ArePartsOf(p, S, s, separator) /\ all = FlattenSeq(p)
  BY PartsFacts
<1>3. k \in 1 .. Len(all)
  OBVIOUS
<1> HIDE DEF p, all
<1>2. /\ p \in Seq(Seq(S)) /\ Len(p) = N /\ all = FlattenSeq(p)
      /\ \A n \in 1 .. N :
            /\ Len(s[n]) \in Nat
            /\ n = N => p[n] = s[n]
            /\ n # N => Len(p[n]) = Len(s[n]) + 1 /\ p[n][Len(s[n]) + 1] = separator
            /\ \A i \in 1 .. Len(s[n]) : p[n][i] = s[n][i]
  BY <1>a DEF ArePartsOf
<1>4. PICK g \in [0 .. Len(p) -> Seq(S)] : Flattens(p, g) /\ all = g[Len(p)]
  BY <1>2, FlattenSteps
<1>5. IsIn(all[k], p)
  BY <1>2, <1>3, <1>4, FlattenElements
<1>6. PICK n \in 1 .. N : \E j \in 1 .. Len(p[n]) : all[k] = p[n][j]
  BY <1>2, <1>5 DEF IsIn
<1>7. PICK j \in 1 .. Len(p[n]) : all[k] = p[n][j]
  BY <1>6
<1>8. CASE j \in 1 .. Len(s[n])
  BY <1>2, <1>7, <1>8 DEF IsIn, all
<1>9. CASE j \notin 1 .. Len(s[n])
  <2>1. n # N
    BY <1>2, <1>9
  <2>2. j = Len(s[n]) + 1
    BY <1>2, <1>9, <2>1
  <2> QED
    BY <1>2, <1>7, <2>1, <2>2 DEF all
<1> QED
  BY <1>8, <1>9

(* No text of s holds the separator.                                       *)
IsFree(s, separator) == \A n \in 1 .. Len(s) : \A i \in 1 .. Len(s[n]) : s[n][i] # separator

(* A text that ends where one of another reading begins cannot be shorter: *)
(* the separator after it would stand in the other one.                    *)
LEMMA NotShorter ==
    ASSUME NEW S, NEW s \in Seq(Seq(S)), NEW t \in Seq(Seq(S)), NEW separator,
           IsFree(t, separator), NEW all, Len(all) \in Nat,
           NEW at \in [0 .. Len(s) -> Nat], JoinedAt(s, separator, all, at),
           NEW to \in [0 .. Len(t) -> Nat], JoinedAt(t, separator, all, to),
           NEW n \in Nat \ {0}, n <= Len(s), n <= Len(t), at[n - 1] = to[n - 1]
    PROVE  ~ (Len(s[n]) < Len(t[n]))
<1> SUFFICES ASSUME Len(s[n]) < Len(t[n])
             PROVE  FALSE
  OBVIOUS
<1>1. Len(s) \in Nat /\ Len(t) \in Nat
  BY LenProperties
<1>2. n \in 1 .. Len(s) /\ n \in 1 .. Len(t) /\ n \in 0 .. Len(s) /\ n \in 0 .. Len(t)
      /\ n - 1 \in 0 .. Len(s) /\ n - 1 \in 0 .. Len(t)
  BY <1>1
<1>3. Len(s[n]) \in Nat /\ Len(t[n]) \in Nat
  BY <1>2, ElementOfSeq, LenProperties
<1> DEFINE from == at[n - 1]
           short == Len(s[n])
           long == Len(t[n])
           end == Len(all)
<1>4. /\ at[n] = from + short + 1
      /\ n = Len(s) => at[n] = end + 1
      /\ n # Len(s) => all[at[n]] = separator
  BY <1>2 DEF JoinedAt
<1>5. \A i \in 1 .. long : all[from + i] = t[n][i]
  <2>1. \A i \in 1 .. Len(t[n]) : all[to[n - 1] + i] = t[n][i]
    BY <1>2 DEF JoinedAt
  <2> QED
    BY <2>1
<1>6. to[n] = from + long + 1 /\ (to[n] = end + 1 \/ to[n] <= end)
  BY <1>2 DEF JoinedAt
<1>7. /\ from \in Nat /\ short \in Nat /\ long \in Nat /\ end \in Nat /\ short < long
      /\ at[n] \in Nat /\ to[n] \in Nat
  BY <1>2, <1>3
<1>8. \A i \in 1 .. long : t[n][i] # separator
  BY <1>2 DEF IsFree
<1> HIDE DEF from, short, long, end
<1>9. n # Len(s)
  BY <1>4, <1>6, <1>7
<1>10. short + 1 \in 1 .. long /\ from + (short + 1) = at[n]
  BY <1>4, <1>7
<1> QED
  BY <1>4, <1>5, <1>8, <1>9, <1>10

(* Texts without the separator can be read back from what they are joined  *)
(* to.                                                                     *)
LEMMA JoinIsInjective ==
    ASSUME NEW S, NEW separator \in S,
           NEW s \in Seq(Seq(S)), Len(s) > 0, IsFree(s, separator),
           NEW t \in Seq(Seq(S)), Len(t) > 0, IsFree(t, separator),
           Join(s, separator) = Join(t, separator)
    PROVE  s = t
<1> DEFINE N == Len(s)
           M == Len(t)
           all == Join(s, separator)
<1>1. PICK at \in [0 .. N -> Nat] : JoinedAt(s, separator, all, at)
  BY JoinPlaces
<1>2. PICK to \in [0 .. M -> Nat] : JoinedAt(t, separator, all, to)
  BY JoinPlaces
<1>3. N \in Nat /\ M \in Nat /\ Len(all) \in Nat
  BY JoinPlaces, LenProperties
<1> HIDE DEF all
<1> DEFINE T == {n \in 0 .. N : n <= M /\ at[n] = to[n] /\ \A k \in 1 .. n : s[k] = t[k]}
<1>4. 0 \in T
  BY <1>1, <1>2, <1>3 DEF JoinedAt
<1>5. ASSUME NEW n \in 0 .. N - 1, n \in T
      PROVE  n + 1 \in T
  <2> DEFINE m == n + 1
  <2>1. n \in Nat /\ m \in Nat \ {0} /\ m - 1 = n /\ m <= N /\ n # N /\ m \in 1 .. N
    BY <1>3
  <2>2. n # M
    <3> SUFFICES ASSUME n = M
                 PROVE  FALSE
      OBVIOUS
    <3>1. n \in 1 .. N /\ n \in 1 .. M
      BY <1>3, <2>1
    <3>2. at[n] <= Len(all) /\ to[n] = Len(all) + 1 /\ at[n] = to[n]
      BY <1>1, <1>2, <1>5, <2>1, <3>1 DEF JoinedAt
    <3> QED
      BY <1>3, <3>2
  <2>3. m <= M /\ m \in 1 .. M
    BY <1>3, <1>5, <2>1, <2>2
  <2>4. at[m - 1] = to[m - 1]
    BY <1>5, <2>1
  <2>5. s[m] \in Seq(S) /\ t[m] \in Seq(S) /\ Len(s[m]) \in Nat /\ Len(t[m]) \in Nat
    BY <2>1, <2>3, ElementOfSeq, LenProperties
  <2> HIDE DEF m
  <2>6. ~ (Len(s[m]) < Len(t[m]))
    BY <1>1, <1>2, <1>3, <2>1, <2>3, <2>4, NotShorter
  <2>7. ~ (Len(t[m]) < Len(s[m]))
    BY <1>1, <1>2, <1>3, <2>1, <2>3, <2>4, NotShorter
  <2>8. Len(s[m]) = Len(t[m])
    BY <2>5, <2>6, <2>7
  <2>9. at[m] = to[m] /\ \A i \in 1 .. Len(s[m]) : s[m][i] = t[m][i]
    <3>1. /\ at[m] = at[m - 1] + Len(s[m]) + 1
          /\ \A i \in 1 .. Len(s[m]) : all[at[m - 1] + i] = s[m][i]
      BY <1>1, <2>1 DEF JoinedAt
    <3>2. /\ to[m] = to[m - 1] + Len(t[m]) + 1
          /\ \A i \in 1 .. Len(t[m]) : all[to[m - 1] + i] = t[m][i]
      BY <1>2, <2>3 DEF JoinedAt
    <3> QED
      BY <2>4, <2>8, <3>1, <3>2
  <2>10. s[m] = t[m]
    BY <2>5, <2>8, <2>9, SeqEqual
  <2>11. \A k \in 1 .. m : k \in 1 .. n \/ k = m
    BY <2>1
  <2>12. \A k \in 1 .. m : s[k] = t[k]
    BY <1>5, <2>10, <2>11
  <2>13. m \in 0 .. N
    BY <1>3, <2>1
  <2>14. m \in T
    BY <2>3, <2>9, <2>12, <2>13
  <2> QED
    BY <2>14 DEF m
<1>6. N \in T
  <2>1. \A n \in 0 .. N : n \in T
    <3> HIDE DEF T
    <3> QED
      BY <1>3, <1>4, <1>5, UpToInduction
  <2> QED
    BY <1>3, <2>1
<1>7. N = M
  <2> SUFFICES ASSUME N # M
               PROVE  FALSE
    OBVIOUS
  <2>1. N \in 1 .. N /\ N \in 1 .. M
    BY <1>3, <1>6
  <2>2. to[N] <= Len(all) /\ at[N] = Len(all) + 1 /\ at[N] = to[N]
    BY <1>1, <1>2, <1>6, <2>1 DEF JoinedAt
  <2> QED
    BY <1>3, <2>2
<1> QED
  BY <1>6, <1>7, SeqEqual

-----------------------------------------------------------------------------
(* The inductive invariant of the page.                                    *)

CardTypes ==
    /\ world \in Worlds
    /\ hass \in Worlds \cup {NoHass}
    /\ compact \in BOOLEAN /\ observing \in BOOLEAN
    /\ attached \in BOOLEAN /\ handle \in BOOLEAN

(* A signature that is not the empty one is that of the states on hand,    *)
(* which is why "set hass" may skip the drawing.                           *)
SignatureIsOfHass ==
    signature # EmptySignature => signature = RelevantSignature(hass, config)

(* The element has an observer exactly while it is in the page, and what   *)
(* the observer reported set the class.                                    *)
ObserverIsInPage ==
    /\ handle <=> attached
    /\ observing <=> attached
    /\ observing /\ reported # "hidden" => (compact <=> reported = "narrow")

CardInv ==
    CardTypes /\ SignatureIsOfHass /\ ShownIsCurrent /\ ObserverIsInPage

-----------------------------------------------------------------------------
(* A state's cell is eight texts, and its text is not empty.               *)
LEMMA CellFacts ==
    ASSUME NEW e \in Entities, NEW r \in Records
    PROVE  /\ Cell(e, r) \in Seq(Texts) /\ Len(Cell(e, r)) = 8
           /\ TextOf(e, r) \in Texts /\ Len(TextOf(e, r)) > 0
<1>1. /\ r.state \in Texts /\ r.name \in Texts /\ r.ip \in Texts /\ r.bytes \in Texts
      /\ r.metric \in Texts /\ r.period \in Texts /\ r.direction \in Texts
  BY CardParameters
<1>2. <<e>> \in Texts /\ Len(<<e>>) = 1
  BY CardParameters DEF Texts
<1> DEFINE c == Cell(e, r)
<1>3. c \in Seq(Texts) /\ Len(c) = 8 /\ c[1] = <<e>>
  <2> HIDE DEF Texts
  <2> QED
    BY <1>1, <1>2 DEF Cell
<1> HIDE DEF c
<1>4. Bar \in Characters
  BY CardParameters
<1>a. c \in Seq(Seq(Characters)) /\ Len(c) > 0
  BY <1>3 DEF Texts
<1>5. PICK at \in [0 .. Len(c) -> Nat] : JoinedAt(c, Bar, Join(c, Bar), at)
  BY <1>4, <1>a, JoinPlaces
<1>6. Join(c, Bar) \in Texts /\ Len(Join(c, Bar)) \in Nat
  <2>1. Join(c, Bar) \in Seq(Characters)
    BY <1>4, <1>a, JoinPlaces
  <2> QED
    BY <2>1, LenProperties DEF Texts
<1>7. at[0] = 0 /\ at[1] = at[0] + Len(c[1]) + 1 /\ at[1] <= Len(Join(c, Bar))
  <2>1. 1 \in 1 .. Len(c) /\ 1 # Len(c) /\ 1 - 1 = 0
    BY <1>3
  <2> QED
    BY <1>5, <2>1 DEF JoinedAt
<1>8. Len(Join(c, Bar)) > 0
  BY <1>2, <1>3, <1>6, <1>7
<1> QED
  BY <1>3, <1>6, <1>8 DEF TextOf, c

(* The texts of the relevant states.                                       *)
StateTexts(states, cfg) == {TextOf(e, states[e]) : e \in Relevant(states, cfg)}

LEMMA RelevantFacts ==
    ASSUME NEW states \in Worlds \cup {NoHass}, NEW cfg
    PROVE  /\ \A e \in Relevant(states, cfg) : e \in Entities /\ states[e] \in Records
           /\ Relevant(states, cfg) # {} => states \in Worlds /\ states # NoHass
           /\ IsFiniteSet(StateTexts(states, cfg))
           /\ \A x \in StateTexts(states, cfg) : x \in Texts /\ Len(x) > 0
           /\ StateTexts(states, cfg) = {} <=> Relevant(states, cfg) = {}
<1>1. /\ Relevant(states, cfg) # {} => states \in Worlds /\ states # NoHass
      /\ Relevant(states, cfg) \subseteq Entities
  BY DEF Relevant
<1>2. \A e \in Relevant(states, cfg) : e \in Entities /\ states[e] \in Records
  BY CardParameters DEF Relevant
<1>3. IsFiniteSet(Relevant(states, cfg))
  BY <1>1, CardParameters, FS_Subset
<1>4. IsFiniteSet(StateTexts(states, cfg))
  <2> DEFINE S == Relevant(states, cfg)
             f == [e \in S |-> TextOf(e, states[e])]
  <2>1. StateTexts(states, cfg) = {f[e] : e \in S}
    BY DEF StateTexts
  <2> HIDE DEF f
  <2> QED
    BY <1>3, <2>1, FiniteValues
<1>5. \A x \in StateTexts(states, cfg) : x \in Texts /\ Len(x) > 0
  BY <1>2, CellFacts DEF StateTexts
<1>6. StateTexts(states, cfg) = {} <=> Relevant(states, cfg) = {}
  BY DEF StateTexts
<1> QED
  BY <1>1, <1>2, <1>4, <1>5, <1>6

(* The texts as sort() lists them.                                         *)
LEMMA ListedTexts ==
    ASSUME NEW states \in Worlds \cup {NoHass}, NEW cfg
    PROVE  LET row == SetToSeq(StateTexts(states, cfg))
           IN  /\ RelevantSignature(states, cfg) = Join(row, Semicolon)
               /\ row \in Seq(Texts) /\ Len(row) \in Nat
               /\ \A n \in 1 .. Len(row) : row[n] \in StateTexts(states, cfg)
               /\ \A x \in StateTexts(states, cfg) : \E n \in 1 .. Len(row) : row[n] = x
               /\ Len(row) = 0 <=> Relevant(states, cfg) = {}
<1> DEFINE X == StateTexts(states, cfg)
           row == SetToSeq(X)
<1>1. RelevantSignature(states, cfg) = Join(row, Semicolon)
  BY DEF RelevantSignature, StateTexts
<1>2. /\ IsFiniteSet(X) /\ \A x \in X : x \in Texts
      /\ X = {} <=> Relevant(states, cfg) = {}
  BY RelevantFacts
<1> HIDE DEF X
<1>3. /\ Cardinality(X) \in Nat /\ row \in [1 .. Cardinality(X) -> X]
      /\ \A x \in X : \E i \in 1 .. Cardinality(X) : row[i] = x
  BY <1>2, SetToSeqLists
<1> HIDE DEF row
<1>4. row \in Seq(Texts) /\ Len(row) = Cardinality(X)
  <2> HIDE DEF Texts
  <2>1. row \in [1 .. Cardinality(X) -> Texts]
    BY <1>2, <1>3
  <2> QED
    BY <1>3, <2>1
<1>5. Len(row) = 0 <=> X = {}
  BY <1>3, <1>4
<1> QED
  BY <1>1, <1>2, <1>3, <1>4, <1>5 DEF X, row

(* No states, no text; and any state has one.                              *)
LEMMA NothingToSee ==
    ASSUME NEW states \in Worlds \cup {NoHass}, NEW cfg
    PROVE  RelevantSignature(states, cfg) = EmptySignature <=> Relevant(states, cfg) = {}
<1> DEFINE row == SetToSeq(StateTexts(states, cfg))
           text == Join(row, Semicolon)
<1>1. /\ RelevantSignature(states, cfg) = text
      /\ row \in Seq(Texts) /\ Len(row) \in Nat
      /\ \A n \in 1 .. Len(row) : row[n] \in StateTexts(states, cfg)
      /\ Len(row) = 0 <=> Relevant(states, cfg) = {}
  BY ListedTexts
<1>2. Semicolon \in Characters
  BY CardParameters
<1> HIDE DEF row
<1>3. CASE Len(row) = 0
  <2>1. row = <<>>
    BY <1>1, <1>3, EmptySeq
  <2>2. Len(Parts(row, Semicolon)) = 0 /\ text = FlattenSeq(Parts(row, Semicolon))
        /\ Parts(row, Semicolon) \in Seq(Texts)
    <3>1. row \in Seq(Seq(Characters))
      BY <1>1 DEF Texts
    <3>2. ArePartsOf(Parts(row, Semicolon), Characters, row, Semicolon)
      BY <1>2, <3>1, PartsFacts
    <3>3. text = FlattenSeq(Parts(row, Semicolon))
      BY <1>2, <3>1, PartsFacts
    <3> QED
      BY <1>3, <3>2, <3>3 DEF ArePartsOf, Texts
  <2> HIDE DEF text
  <2>3. text = Parts(row, Semicolon) /\ Parts(row, Semicolon) = <<>>
    BY <2>2, EmptySeq DEF FlattenSeq
  <2> QED
    BY <1>1, <1>3, <2>3 DEF EmptySignature
<1>4. CASE Len(row) # 0
  <2>1. Len(row) > 0
    BY <1>1, <1>4
  <2>2. PICK at \in [0 .. Len(row) -> Nat] : JoinedAt(row, Semicolon, text, at)
    BY <1>1, <1>2, <2>1, JoinPlaces DEF Texts
  <2>3. text \in Texts /\ Len(text) \in Nat
    BY <1>1, <1>2, <2>1, JoinPlaces, LenProperties DEF Texts
  <2> HIDE DEF text
  <2>4. 1 \in 1 .. Len(row) /\ 1 \in 0 .. Len(row) /\ 1 - 1 = 0
    BY <1>1, <2>1
  <2>5. Len(row[1]) > 0 /\ Len(row[1]) \in Nat
    BY <1>1, <2>4, RelevantFacts, LenProperties DEF Texts
  <2>6. /\ at[0] = 0 /\ at[1] = at[0] + Len(row[1]) + 1
        /\ IF 1 = Len(row) THEN at[1] = Len(text) + 1 ELSE at[1] <= Len(text)
    BY <2>2, <2>4 DEF JoinedAt
  <2>7. Len(text) > 0
    BY <2>3, <2>5, <2>6
  <2>8. text # <<>>
    BY <2>7
  <2> QED
    BY <1>1, <1>4, <2>8 DEF EmptySignature
<1> QED
  BY <1>3, <1>4

(* The text of a plain state holds no ";".                                 *)
LEMMA PlainText ==
    ASSUME NEW states \in Worlds \cup {NoHass}, NEW cfg, IsPlain(states, cfg),
           NEW e \in Relevant(states, cfg)
    PROVE  /\ IsFree(Cell(e, states[e]), Bar)
           /\ \A i \in 1 .. Len(TextOf(e, states[e])) : TextOf(e, states[e])[i] # Semicolon
<1> DEFINE c == Cell(e, states[e])
           text == Join(c, Bar)
<1>1. c \in Seq(Texts) /\ Len(c) = 8
  BY RelevantFacts, CellFacts
<1>2. Bar \in Characters /\ Bar # Semicolon
  BY CardParameters
<1>3. \A n \in 1 .. Len(c) : {Bar, Semicolon} \cap Range(c[n]) = {}
  BY <1>1 DEF IsPlain
<1>4. text = TextOf(e, states[e])
  BY DEF TextOf
<1> HIDE DEF c, text
<1>5. ASSUME NEW n \in 1 .. Len(c), NEW i \in 1 .. Len(c[n])
      PROVE  c[n][i] # Bar /\ c[n][i] # Semicolon
  <2>1. c[n] \in Seq(Characters)
    BY <1>1, ElementOfSeq DEF Texts
  <2>2. i \in DOMAIN c[n]
    BY <2>1, LenProperties
  <2>3. c[n][i] \in Range(c[n])
    BY <2>2 DEF Range
  <2> QED
    BY <1>3, <2>3
<1>6. ASSUME NEW i \in 1 .. Len(text)
      PROVE  text[i] # Semicolon
  <2>1. text[i] = Bar \/ IsIn(text[i], c)
    BY <1>1, <1>2, JoinElements DEF Texts, text
  <2> QED
    BY <1>2, <1>5, <2>1 DEF IsIn
<1> QED
  BY <1>4, <1>5, <1>6 DEF IsFree, c

(* Without separators in the texts a signature tells the cells.            *)
LEMMA PlainSignature ==
    ASSUME NEW x \in Worlds \cup {NoHass}, NEW y \in Worlds \cup {NoHass}, NEW cfg,
           IsPlain(x, cfg), IsPlain(y, cfg),
           RelevantSignature(x, cfg) = RelevantSignature(y, cfg),
           RelevantSignature(x, cfg) # EmptySignature
    PROVE  Cells(x, cfg) \subseteq Cells(y, cfg)
<1> DEFINE s == SetToSeq(StateTexts(x, cfg))
           t == SetToSeq(StateTexts(y, cfg))
<1>1. /\ RelevantSignature(x, cfg) = Join(s, Semicolon)
      /\ s \in Seq(Texts) /\ Len(s) \in Nat
      /\ \A n \in 1 .. Len(s) : s[n] \in StateTexts(x, cfg)
      /\ \A z \in StateTexts(x, cfg) : \E n \in 1 .. Len(s) : s[n] = z
      /\ Len(s) = 0 <=> Relevant(x, cfg) = {}
  BY ListedTexts
<1>2. /\ RelevantSignature(y, cfg) = Join(t, Semicolon)
      /\ t \in Seq(Texts) /\ Len(t) \in Nat
      /\ \A n \in 1 .. Len(t) : t[n] \in StateTexts(y, cfg)
      /\ Len(t) = 0 <=> Relevant(y, cfg) = {}
  BY ListedTexts
<1>3. Relevant(x, cfg) # {} /\ Relevant(y, cfg) # {}
  BY NothingToSee
<1> HIDE DEF s, t
<1>4. Len(s) > 0 /\ Len(t) > 0
  BY <1>1, <1>2, <1>3
<1>5. IsFree(s, Semicolon) /\ IsFree(t, Semicolon)
  <2>1. \A z \in StateTexts(x, cfg) : \A i \in 1 .. Len(z) : z[i] # Semicolon
    BY PlainText DEF StateTexts
  <2>2. \A z \in StateTexts(y, cfg) : \A i \in 1 .. Len(z) : z[i] # Semicolon
    BY PlainText DEF StateTexts
  <2> QED
    BY <1>1, <1>2, <2>1, <2>2 DEF IsFree
<1>6. s = t
  BY <1>1, <1>2, <1>4, <1>5, JoinIsInjective, CardParameters DEF Texts
<1>7. ASSUME NEW e \in Relevant(x, cfg)
      PROVE  Cell(e, x[e]) \in Cells(y, cfg)
  <2>1. TextOf(e, x[e]) \in StateTexts(y, cfg)
    <3>1. TextOf(e, x[e]) \in StateTexts(x, cfg)
      BY DEF StateTexts
    <3>2. PICK n \in 1 .. Len(s) : s[n] = TextOf(e, x[e])
      BY <1>1, <3>1
    <3> QED
      BY <1>2, <1>6, <3>2
  <2>2. PICK d \in Relevant(y, cfg) : TextOf(e, x[e]) = TextOf(d, y[d])
    BY <2>1 DEF StateTexts
  <2> DEFINE b == Cell(e, x[e])
             c == Cell(d, y[d])
  <2>3. b \in Seq(Texts) /\ Len(b) > 0 /\ c \in Seq(Texts) /\ Len(c) > 0
    <3>1. e \in Entities /\ x[e] \in Records /\ d \in Entities /\ y[d] \in Records
      BY RelevantFacts
    <3>2. b \in Seq(Texts) /\ Len(b) = 8 /\ c \in Seq(Texts) /\ Len(c) = 8
      BY <3>1, CellFacts
    <3> QED
      BY <3>2
  <2>4. IsFree(b, Bar) /\ IsFree(c, Bar)
    BY PlainText
  <2>5. Join(b, Bar) = Join(c, Bar)
    BY <2>2 DEF TextOf
  <2> HIDE DEF b, c
  <2>6. b = c
    BY <2>3, <2>4, <2>5, JoinIsInjective, CardParameters DEF Texts
  <2> QED
    BY <2>6 DEF Cells, b, c
<1> QED
  BY <1>7 DEF Cells

(* The states on the screen read as these do.                              *)
IsShown(states, cfg, s, isCompact, screen) ==
    \E w \in Worlds :
        /\ screen = View(w, cfg, s, isCompact)
        /\ RelevantSignature(w, cfg) = RelevantSignature(states, cfg)
        /\ IsPlain(w, cfg) /\ IsPlain(states, cfg) => Cells(w, cfg) = Cells(states, cfg)

LEMMA ShownReads ==
    ShownIsCurrent <=> (Relevant(hass, config) # {} =>
                            IsShown(hass, config, settings, compact, shown))
  BY DEF ShownIsCurrent, IsShown

(* What is drawn from the states themselves shows them.                    *)
LEMMA DrawnIsShown ==
    ASSUME NEW states \in Worlds \cup {NoHass}, NEW cfg, NEW s, NEW isCompact,
           Relevant(states, cfg) # {}
    PROVE  IsShown(states, cfg, s, isCompact, View(states, cfg, s, isCompact))
<1>1. states \in Worlds
  BY RelevantFacts
<1> QED
  BY <1>1 DEF IsShown

(* What shows some states shows others of their signature.                 *)
LEMMA SameSignatureSameView ==
    ASSUME NEW x \in Worlds \cup {NoHass}, NEW y \in Worlds \cup {NoHass},
           NEW cfg, NEW s, NEW isCompact, NEW screen,
           RelevantSignature(x, cfg) = RelevantSignature(y, cfg),
           RelevantSignature(x, cfg) # EmptySignature,
           IsShown(x, cfg, s, isCompact, screen)
    PROVE  IsShown(y, cfg, s, isCompact, screen)
<1>1. PICK w \in Worlds : /\ screen = View(w, cfg, s, isCompact)
                          /\ RelevantSignature(w, cfg) = RelevantSignature(x, cfg)
  BY DEF IsShown
<1>2. IsPlain(w, cfg) /\ IsPlain(y, cfg) => Cells(w, cfg) = Cells(y, cfg)
  <2> SUFFICES ASSUME IsPlain(w, cfg), IsPlain(y, cfg)
               PROVE  Cells(w, cfg) = Cells(y, cfg)
    OBVIOUS
  <2>1. Cells(w, cfg) \subseteq Cells(y, cfg)
    BY <1>1, PlainSignature
  <2>2. Cells(y, cfg) \subseteq Cells(w, cfg)
    BY <1>1, PlainSignature
  <2> QED
    BY <2>1, <2>2
<1> QED
  BY <1>1, <1>2 DEF IsShown

(* The states are handed over, and drawn or not.                           *)
LEMMA SetHassKeepsCard ==
    ASSUME CardInv, SetHass
    PROVE  CardInv'
<1> DEFINE latest == RelevantSignature(world, config)
<1>1. /\ hass' = world
      /\ UNCHANGED <<world, config, settings, compact, handle, attached, observing, reported>>
  BY DEF SetHass, page
<1>2. CASE latest # signature
  <2>1. signature' = latest /\ shown' = View(world, config, settings, compact)
    BY <1>2 DEF SetHass
  <2>2. ShownIsCurrent'
    BY <1>1, <2>1, DrawnIsShown DEF CardInv, CardTypes, ShownIsCurrent, IsShown
  <2> QED
    BY <1>1, <2>1, <2>2 DEF CardInv, CardTypes, SignatureIsOfHass, ObserverIsInPage
<1>3. CASE latest = signature
  <2>1. signature' = signature /\ shown' = shown
    BY <1>3 DEF SetHass
  <2>2. ASSUME Relevant(world, config) # {}
        PROVE  IsShown(world, config, settings, compact, shown)
    <3>1. signature # EmptySignature
      BY <1>3, <2>2, NothingToSee DEF CardInv, CardTypes
    <3>2. RelevantSignature(hass, config) = RelevantSignature(world, config)
      BY <1>3, <3>1 DEF CardInv, SignatureIsOfHass
    <3>3. Relevant(hass, config) # {}
      BY <1>3, <3>1, <3>2, NothingToSee DEF CardInv, CardTypes
    <3>4. IsShown(hass, config, settings, compact, shown)
      BY <3>3, ShownReads DEF CardInv
    <3> QED
      BY <1>3, <3>1, <3>2, <3>4, SameSignatureSameView DEF CardInv, CardTypes
  <2>3. ShownIsCurrent'
    BY <1>1, <2>1, <2>2 DEF ShownIsCurrent, IsShown
  <2> QED
    BY <1>1, <1>3, <2>1, <2>3 DEF CardInv, CardTypes, SignatureIsOfHass, ObserverIsInPage
<1> QED
  BY <1>2, <1>3

(* A drawing of the states on hand, with any configuration and settings.   *)
LEMMA DrawingShows ==
    ASSUME CardInv, hass' = hass, shown' = View(hass, config', settings', compact')
    PROVE  ShownIsCurrent'
  BY DrawnIsShown DEF CardInv, CardTypes, ShownIsCurrent, IsShown

(* The invariant holds, whatever the users, the browser and Home Assistant *)
(* do.                                                                     *)
THEOREM CardInductive == CardSpec => []CardInv
<1>1. CardInit => CardInv
  BY DEF CardInit, CardInv, CardTypes, SignatureIsOfHass, ShownIsCurrent, ObserverIsInPage,
         Relevant
<1>2. CardInv /\ [CardNext]_cardVars => CardInv'
  <2> SUFFICES ASSUME CardInv, [CardNext]_cardVars
               PROVE  CardInv'
    OBVIOUS
  <2> USE DEF CardInv
  <2>1. CASE StatesChange
    BY <2>1 DEF StatesChange, page, CardTypes, SignatureIsOfHass, ShownIsCurrent,
                ObserverIsInPage
  <2>2. ASSUME NEW cfg \in Configs, SetConfig(cfg)
        PROVE  CardInv'
    <3>1. ShownIsCurrent'
      BY <2>2, DrawingShows DEF SetConfig
    <3> QED
      BY <2>2, <3>1 DEF SetConfig, page, CardTypes, SignatureIsOfHass, ObserverIsInPage
  <2>3. CASE SetHass
    BY <2>3, SetHassKeepsCard
  <2>4. ASSUME NEW s, Change(s)
        PROVE  CardInv'
    <3>1. ShownIsCurrent'
      BY <2>4, DrawingShows DEF Change
    <3> QED
      BY <2>4, <3>1 DEF Change, page, CardTypes, SignatureIsOfHass, ObserverIsInPage
  <2>5. ASSUME NEW s \in Settings, AnotherCardSaves(s)
        PROVE  CardInv'
    BY <2>5 DEF AnotherCardSaves, page, CardTypes, SignatureIsOfHass, ShownIsCurrent,
                ObserverIsInPage
  <2>6. CASE Connected
    BY <2>6 DEF Connected, CardTypes, SignatureIsOfHass, ShownIsCurrent, ObserverIsInPage
  <2>7. CASE Disconnected
    BY <2>7 DEF Disconnected, Leave, CardTypes, SignatureIsOfHass, ShownIsCurrent,
                ObserverIsInPage
  <2>8. CASE LayoutChanges \/ UNCHANGED cardVars
    BY <2>8 DEF LayoutChanges, cardVars, page, CardTypes, SignatureIsOfHass, ShownIsCurrent,
                ObserverIsInPage
  <2>9. CASE ObserverReports
    <3>1. ShownIsCurrent'
      <4>1. CASE compact' = compact
        BY <2>9, <4>1 DEF ObserverReports, Observed, ShownIsCurrent
      <4>2. CASE compact' # compact
        <5>1. hass' = hass /\ shown' = View(hass, config', settings', compact')
          BY <2>9, <4>2 DEF ObserverReports, Observed
        <5> QED
          BY <5>1, DrawingShows
      <4> QED
        BY <4>1, <4>2
    <3> QED
      BY <2>9, <3>1 DEF ObserverReports, Observed, CardTypes, SignatureIsOfHass,
                        ObserverIsInPage
  <2>10. CASE ReloadPage
    BY <2>10 DEF ReloadPage, CardTypes, SignatureIsOfHass, ShownIsCurrent, ObserverIsInPage,
                 Relevant
  <2> QED
    BY <2>1, <2>2, <2>3, <2>4, <2>5, <2>6, <2>7, <2>8, <2>9, <2>10
       DEF CardNext, ChooseSort, ChoosePeriod, ToggleOrder
<1> QED
  BY <1>1, <1>2, PTL DEF CardSpec

(* What is on the screen is current.                                       *)
THEOREM ScreenIsCurrent == CardSpec => []ShownIsCurrent
  BY CardInductive, PTL DEF CardInv

(* A visible card is laid out for the width that was reported.             *)
THEOREM LayoutFollowsWidth == CardSpec => []LayoutFitsWidth
<1>1. CardInv => LayoutFitsWidth
  BY DEF CardInv, CardTypes, ObserverIsInPage, LayoutFitsWidth
<1> QED
  BY <1>1, CardInductive, PTL

-----------------------------------------------------------------------------
(* The comparator.                                                         *)

(* What CompareBy looks at before the names.                               *)
First(by, l, r) ==
    CASE by = "ip" -> CompareIp(l.ip, r.ip)
      [] IsTransfer(by) -> CompareTransfer(l.transfer, r.transfer)
      [] OTHER -> ByName(l, r)

(* Two texts compare as their ranks do.                                    *)
LEMMA TextsCompare ==
    ASSUME NEW a \in Int, NEW b \in Int
    PROVE  /\ a < b => LocaleCompare(a, b) = -1
           /\ b < a => LocaleCompare(a, b) = 1
           /\ a = b => LocaleCompare(a, b) = 0
<1>1. a < b => ~(b < a) /\ ~(a > b)
  OBVIOUS
<1>2. b < a => ~(a < b) /\ a > b
  OBVIOUS
<1>3. a = b => ~(a < b) /\ ~(a > b)
  OBVIOUS
<1> QED
  BY <1>1, <1>2, <1>3, Zenon DEF LocaleCompare

(* A comparison of IPs is one of numbers, or of texts that come last.      *)
LEMMA IpsCompare ==
    ASSUME NEW a \in [value : Int \cup {None}, text : Int],
           NEW b \in [value : Int \cup {None}, text : Int]
    PROVE  /\ a.value # None /\ b.value # None => CompareIp(a, b) = a.value - b.value
           /\ a.value # None /\ b.value = None => CompareIp(a, b) = -1
           /\ a.value = None /\ b.value # None => CompareIp(a, b) = 1
           /\ a.value = None /\ b.value = None =>
                  CompareIp(a, b) = LocaleCompare(a.text, b.text)
  BY ComparedParameters, Zenon DEF CompareIp

(* Each first comparison is a number, changes its sign with the sides, and *)
(* carries over from one pair to the next.                                 *)
LEMMA FirstIsConsistent ==
    ASSUME NEW by \in Sorts, NEW l \in Devices, NEW m \in Devices, NEW r \in Devices
    PROVE  /\ First(by, l, r) \in Int
           /\ First(by, r, l) = -First(by, l, r)
           /\ First(by, l, m) <= 0 /\ First(by, m, r) <= 0 =>
                /\ First(by, l, r) <= 0
                /\ First(by, l, m) < 0 \/ First(by, m, r) < 0 => First(by, l, r) < 0
<1>1. \A d \in {l, m, r} : /\ d.name \in Int
                            /\ d.ip \in [value : Int \cup {None}, text : Int]
                            /\ d.transfer \in Int \cup {None}
  BY ComparedParameters DEF Devices
<1>2. CASE by = "ip"
  <2>1. \A c, d \in {l, m, r} : First(by, c, d) = CompareIp(c.ip, d.ip)
    BY <1>2, Zenon DEF First, IsTransfer
  <2> DEFINE Ranked(c, d) ==
               /\ c.ip.value # None /\ d.ip.value # None =>
                      First(by, c, d) = c.ip.value - d.ip.value
               /\ c.ip.value # None /\ d.ip.value = None => First(by, c, d) = -1
               /\ c.ip.value = None /\ d.ip.value # None => First(by, c, d) = 1
               /\ c.ip.value = None /\ d.ip.value = None =>
                      /\ c.ip.text < d.ip.text => First(by, c, d) = -1
                      /\ d.ip.text < c.ip.text => First(by, c, d) = 1
                      /\ c.ip.text = d.ip.text => First(by, c, d) = 0
  <2>2. \A c, d \in {l, m, r} : Ranked(c, d)
    <3> SUFFICES ASSUME NEW c \in {l, m, r}, NEW d \in {l, m, r}
                 PROVE  Ranked(c, d)
      OBVIOUS
    <3>1. /\ c.ip \in [value : Int \cup {None}, text : Int]
          /\ d.ip \in [value : Int \cup {None}, text : Int]
      BY <1>1
    <3>2. First(by, c, d) = CompareIp(c.ip, d.ip)
      BY <2>1
    <3>3. /\ c.ip.value # None /\ d.ip.value # None =>
                 CompareIp(c.ip, d.ip) = c.ip.value - d.ip.value
          /\ c.ip.value # None /\ d.ip.value = None => CompareIp(c.ip, d.ip) = -1
          /\ c.ip.value = None /\ d.ip.value # None => CompareIp(c.ip, d.ip) = 1
          /\ c.ip.value = None /\ d.ip.value = None =>
                 CompareIp(c.ip, d.ip) = LocaleCompare(c.ip.text, d.ip.text)
      BY <3>1, IpsCompare
    <3>4. /\ c.ip.text < d.ip.text => LocaleCompare(c.ip.text, d.ip.text) = -1
          /\ d.ip.text < c.ip.text => LocaleCompare(c.ip.text, d.ip.text) = 1
          /\ c.ip.text = d.ip.text => LocaleCompare(c.ip.text, d.ip.text) = 0
      BY <3>1, TextsCompare
    <3> HIDE DEF First
    <3> QED
      BY <3>2, <3>3, <3>4, Zenon
  <2>3. \A c \in {l, m, r} : c.ip.value \in Int \cup {None} /\ c.ip.text \in Int
    BY <1>1
  <2> HIDE DEF First
  <2>4. ASSUME NEW c \in {l, m, r}, NEW d \in {l, m, r}
        PROVE  First(by, c, d) \in Int /\ First(by, d, c) = -First(by, c, d)
    <3>1. Ranked(c, d) /\ Ranked(d, c)
      BY <2>2
    <3> QED
      BY <2>3, <3>1
  <2>5. First(by, l, m) <= 0 /\ First(by, m, r) <= 0 =>
                /\ First(by, l, r) <= 0
                /\ First(by, l, m) < 0 \/ First(by, m, r) < 0 => First(by, l, r) < 0
    <3>1. Ranked(l, m) /\ Ranked(m, r) /\ Ranked(l, r)
      BY <2>2
    <3>2. /\ l.ip.value \in Int \cup {None} /\ l.ip.text \in Int
          /\ m.ip.value \in Int \cup {None} /\ m.ip.text \in Int
          /\ r.ip.value \in Int \cup {None} /\ r.ip.text \in Int
      BY <2>3
    <3> QED
      BY <3>1, <3>2
  <2> QED
    BY <2>4, <2>5
<1>3. CASE by \in {"download", "upload"}
  <2>1. \A c, d \in {l, m, r} : First(by, c, d) = OrZero(c.transfer) - OrZero(d.transfer)
    BY <1>3, Zenon DEF First, IsTransfer, CompareTransfer
  <2>2. \A c \in {l, m, r} : OrZero(c.transfer) \in Int
    BY <1>1 DEF OrZero
  <2> HIDE DEF OrZero
  <2> QED
    BY <2>1, <2>2
<1>4. CASE by = "device"
  <2>1. \A c, d \in {l, m, r} : First(by, c, d) = ByName(c, d)
    BY <1>4, Zenon DEF First, IsTransfer
  <2>2. \A c, d \in {l, m, r} :
           /\ c.name < d.name => ByName(c, d) = -1
           /\ d.name < c.name => ByName(c, d) = 1
           /\ c.name = d.name => ByName(c, d) = 0
    BY <1>1, TextsCompare DEF ByName
  <2> QED
    BY <1>1, <2>1, <2>2
<1> QED
  BY <1>2, <1>3, <1>4 DEF Sorts

(* So does the comparison with the names that break a tie.                 *)
LEMMA ByIsConsistent ==
    ASSUME NEW by \in Sorts, NEW l \in Devices, NEW m \in Devices, NEW r \in Devices
    PROVE  /\ CompareBy(by, l, r) \in Int
           /\ CompareBy(by, r, l) = -CompareBy(by, l, r)
           /\ CompareBy(by, l, m) <= 0 /\ CompareBy(by, m, r) <= 0 =>
                /\ CompareBy(by, l, r) <= 0
                /\ CompareBy(by, l, m) < 0 \/ CompareBy(by, m, r) < 0 =>
                       CompareBy(by, l, r) < 0
<1>1. \A d \in {l, m, r} : d.name \in Int
  BY ComparedParameters DEF Devices
<1>2. \A c, d \in {l, m, r} :
         CompareBy(by, c, d) = IF First(by, c, d) = 0 THEN ByName(c, d) ELSE First(by, c, d)
  BY Zenon DEF CompareBy, First
<1>4. \A c, d \in {l, m, r} :
         /\ c.name < d.name => ByName(c, d) = -1
         /\ d.name < c.name => ByName(c, d) = 1
         /\ c.name = d.name => ByName(c, d) = 0
  BY <1>1, TextsCompare DEF ByName
<1>3. /\ \A c, d \in {l, m, r} : First(by, c, d) \in Int /\ First(by, d, c) = -First(by, c, d)
      /\ \A c, d, e \in {l, m, r} :
            First(by, c, d) <= 0 /\ First(by, d, e) <= 0 =>
                /\ First(by, c, e) <= 0
                /\ First(by, c, d) < 0 \/ First(by, d, e) < 0 => First(by, c, e) < 0
  BY FirstIsConsistent
<1>5. \A c, d \in {l, m, r} :
         ByName(c, d) \in Int /\ ByName(d, c) = -ByName(c, d)
  BY <1>1, <1>4
<1>6. \A c, d, e \in {l, m, r} :
         ByName(c, d) <= 0 /\ ByName(d, e) <= 0 =>
             /\ ByName(c, e) <= 0
             /\ ByName(c, d) < 0 \/ ByName(d, e) < 0 => ByName(c, e) < 0
  BY <1>1, <1>4
<1> QED
  BY <1>2, <1>3, <1>5, <1>6

(* The comparator as it is handed to sort: unknown transfers last, the     *)
(* rest in the chosen direction.                                           *)
LEMMA CompareIsConsistent ==
    ASSUME NEW by \in Sorts, NEW o \in Orders,
           NEW l \in Devices, NEW m \in Devices, NEW r \in Devices
    PROVE  /\ Compare(by, o, l, r) > 0 <=> Compare(by, o, r, l) < 0
           /\ Compare(by, o, l, m) <= 0 /\ Compare(by, o, m, r) <= 0 =>
                /\ Compare(by, o, l, r) <= 0
                /\ Compare(by, o, l, m) < 0 \/ Compare(by, o, m, r) < 0 =>
                       Compare(by, o, l, r) < 0
<1> DEFINE Split(c, d) == IsTransfer(by) /\ (c.transfer = None) # (d.transfer = None)
           desc == EffectiveOrder(by, o) = "desc"
<1>1. \A c, d \in {l, m, r} :
         /\ Split(c, d) => Compare(by, o, c, d) = IF c.transfer = None THEN 1 ELSE -1
         /\ ~Split(c, d) => Compare(by, o, c, d) =
               IF desc THEN -CompareBy(by, c, d) ELSE CompareBy(by, c, d)
  BY Zenon DEF Compare, Signed
<1>2. /\ \A c, d \in {l, m, r} :
            CompareBy(by, c, d) \in Int /\ CompareBy(by, d, c) = -CompareBy(by, c, d)
      /\ \A c, d, e \in {l, m, r} :
            CompareBy(by, c, d) <= 0 /\ CompareBy(by, d, e) <= 0 =>
                /\ CompareBy(by, c, e) <= 0
                /\ CompareBy(by, c, d) < 0 \/ CompareBy(by, d, e) < 0 =>
                       CompareBy(by, c, e) < 0
  BY ByIsConsistent
<1> HIDE DEF desc
<1> QED
  BY <1>1, <1>2

(* Whatever rows are sorted, by any column in any order, the comparator    *)
(* gives sort one consistent order.                                        *)
THEOREM ComparatorHolds ==
    ASSUME sort \in Sorts, order \in Orders, rows \in Seq(Devices)
    PROVE  ComparatorIsConsistent
<1>1. \A i \in DOMAIN rows : rows[i] \in Devices
  OBVIOUS
<1>2. ASSUME NEW i \in DOMAIN rows, NEW j \in DOMAIN rows
      PROVE  (Cmp(i, j) > 0) = (Cmp(j, i) < 0)
  BY <1>1, CompareIsConsistent DEF Cmp
<1>3. ASSUME NEW i \in DOMAIN rows, NEW j \in DOMAIN rows, NEW k \in DOMAIN rows,
             Cmp(i, j) <= 0, Cmp(j, k) <= 0
      PROVE  Cmp(i, k) <= 0 /\ (Cmp(i, j) < 0 \/ Cmp(j, k) < 0 => Cmp(i, k) < 0)
  BY <1>1, <1>3, CompareIsConsistent DEF Cmp
<1> QED
  BY <1>2, <1>3 DEF ComparatorIsConsistent

=============================================================================
