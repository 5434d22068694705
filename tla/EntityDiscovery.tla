---------------------------- MODULE EntityDiscovery ----------------------------
(***************************************************************************)
(* Which entities exist: add_new_clients of the sensor and binary_sensor   *)
(* platforms, each with a known_macs set of its own, against the polls of  *)
(* the coordinator, platform setup and reloads of the entry.               *)
(*                                                                         *)
(* A poll runs in an executor thread and may outlive the load it belongs   *)
(* to; the coordinator of an earlier load has no listeners left.  One      *)
(* entity stands for all those a platform adds for a MAC together.         *)
(***************************************************************************)
EXTENDS HostList

CONSTANTS
    Platforms,  \* the platforms that add entities for clients
    HostLists,  \* the host lists a successful poll may return
    MaxLoads    \* bound: how often the entry is loaded

ASSUME DiscoveryParameters ==
    /\ MaxLoads \in Nat
    /\ None \notin Int
    /\ \A list \in HostLists :
          /\ Len(list) \in Nat /\ DOMAIN list = 1 .. Len(list)
          /\ \A i \in DOMAIN list, dir \in Directions : list[i][dir] \in Int \cup {None}

VARIABLES
    loads,    \* how often the entry was loaded; the number of this load
    loaded,
    data,     \* data of this load's coordinator, None when not loaded
    ready,    \* the platforms that are set up and listen
    known,    \* known[p]: known_macs
    adds,     \* adds[p][m]: how often an entity for m was added in this load
    polls     \* the loads whose coordinator has a poll in its thread

vars == <<loads, loaded, data, ready, known, adds, polls>>

Macs == UNION {DiscoveredMacs(list) : list \in HostLists}

-----------------------------------------------------------------------------
(* mutated: known_macs is extended only after the loop over the list       *)
AddedPerRecord(list, seen) ==
    [m \in Macs |-> IF m \in seen THEN 0
                    ELSE CountClients(list, LAMBDA c : c.mac.bare = m)]

(* add_new_clients: how many entities it adds for each MAC                 *)
Added(list, seen) ==
    [m \in Macs |-> IF m \in DiscoveredMacs(list) \ seen THEN 1 ELSE 0]

(* mutated: the listener of a platform runs on the list it was set up with *)
AddNewClientsOnce(P, list) ==
    LET first == {p \in P : known[p] = {}} IN
    /\ known' = [p \in Platforms |->
                    IF p \in first THEN DiscoveredMacs(list) ELSE known[p]]
    /\ adds' = [p \in Platforms |-> [m \in Macs |->
                    adds[p][m] + IF p \in first THEN Added(list, known[p])[m] ELSE 0]]

AddNewClients(P, list) ==
    /\ known' = [p \in Platforms |->
                    IF p \in P THEN known[p] \cup DiscoveredMacs(list) ELSE known[p]]
    /\ adds' = [p \in Platforms |-> [m \in Macs |->
                    adds[p][m] + IF p \in P THEN Added(list, known[p])[m] ELSE 0]]

NoEntities ==
    /\ ready' = {}
    /\ known' = [p \in Platforms |-> {}]
    /\ adds' = [p \in Platforms |-> [m \in Macs |-> 0]]

-----------------------------------------------------------------------------
Init ==
    /\ loads = 0 /\ loaded = FALSE /\ data = None
    /\ ready = {}
    /\ known = [p \in Platforms |-> {}]
    /\ adds = [p \in Platforms |-> [m \in Macs |-> 0]]
    /\ polls = {}

(* async_setup_entry with its first refresh: a new coordinator             *)
SetUpEntry(list) ==
    /\ ~loaded /\ loads < MaxLoads
    /\ loads' = loads + 1 /\ loaded' = TRUE
    /\ data' = list
    /\ NoEntities
    /\ UNCHANGED polls

(* A platform's async_setup_entry has no await: it adds the entities of    *)
(* the clients known by then and starts to listen in one step.             *)
SetUpPlatform(p) ==
    /\ loaded /\ p \notin ready
    /\ ready' = ready \cup {p}
    /\ AddNewClients({p}, data)
    /\ UNCHANGED <<loads, loaded, data, polls>>

(* The coordinator schedules polls while it has listeners.                 *)
PollStarts ==
    /\ ready # {} /\ loads \notin polls
    /\ polls' = polls \cup {loads}
    /\ UNCHANGED <<loads, loaded, data, ready, known, adds>>

PollSucceeds(load, list) ==
    /\ load \in polls
    /\ polls' = polls \ {load}
    /\ IF loaded /\ load = loads
       THEN /\ data' = list
            /\ AddNewClients(ready, list)
       ELSE UNCHANGED <<data, known, adds>>
    /\ UNCHANGED <<loads, loaded, ready>>

(* The listeners may be called, on the list they have already seen.        *)
PollFails(load) ==
    /\ load \in polls
    /\ polls' = polls \ {load}
    /\ IF loaded /\ load = loads
       THEN AddNewClients(ready, data)
       ELSE UNCHANGED <<known, adds>>
    /\ UNCHANGED <<loads, loaded, data, ready>>

UnloadEntry ==
    /\ loaded /\ ready = Platforms
    /\ loaded' = FALSE /\ data' = None
    /\ NoEntities
    /\ UNCHANGED <<loads, polls>>

Next ==
    \/ \E list \in HostLists : SetUpEntry(list)
    \/ \E p \in Platforms : SetUpPlatform(p)
    \/ PollStarts
    \/ \E load \in polls : PollFails(load) \/ \E list \in HostLists : PollSucceeds(load, list)
    \/ UnloadEntry

Spec == Init /\ [][Next]_vars

-----------------------------------------------------------------------------
(* Wherever a poll falls between the setups of the two platforms, neither  *)
(* misses a client: each platform that is set up has an entity for every   *)
(* MAC of the list the coordinator holds (sensor.py:44, binary_sensor.py:26).*)
EveryClientHasEntities ==
    loaded => \A p \in ready, m \in DiscoveredMacs(data) : adds[p][m] > 0

(* No entity is added twice in one load: not for a MAC the router lists    *)
(* twice, one that left and came back, nor by a poll that outlived a       *)
(* reload.  Home Assistant refuses the second entity of a unique id.       *)
AddedOnce == \A p \in Platforms, m \in Macs : adds[p][m] <= 1

=============================================================================
