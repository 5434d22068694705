------------------------------ MODULE MCEntities ------------------------------
(***************************************************************************)
(* EntityDiscovery composed with what its entities show of the list their  *)
(* coordinator holds (HostList): two platforms, lists of up to two         *)
(* records.  The records differ in the MAC, which may be spelt with white  *)
(* space or be missing, in the online field and in the rates.              *)
(***************************************************************************)
EXTENDS EntityDiscovery

Record(spelt, bare, online, up, down) ==
    [mac |-> [spelt |-> spelt, bare |-> bare],
     raw_online |-> online, upload |-> up, download |-> down]

MCRecords ==
    {Record("laptop", "laptop", online, rates[1], rates[2]) :
        online \in {None, 0, 1}, rates \in {<<0, 1>>, <<None, 0>>, <<2, None>>}}
      \cup {Record("phone", "phone", 1, 1, None), Record("phone", "phone", 0, 2, 1),
            Record("phone", "phone", None, None, None), Record("phone", "phone", 2, 0, 0),
            Record("laptop ", "laptop", 1, 1, 1), Record("", "", 0, None, None)}

MCHostLists ==
    {<<>>} \cup {<<a>> : a \in MCRecords}
      \cup {<<a, b>> : a \in MCRecords, b \in MCRecords}

-----------------------------------------------------------------------------
(* The list the entities look at.                                          *)
list == IF data = None THEN <<>> ELSE data

Listed == {m \in Macs : ClientListed(list, m)}

OneRecordPerMac == Cardinality(Listed) = Len(list)

Rated(dir) == {m \in Listed : ClientRate(list, m, dir) # None}

(* Summed by the mesh's sensor (sensor.py:199) or shown by the clients'    *)
(* own (sensor.py:534), the rates are the same, whichever are missing or   *)
(* withheld.                                                               *)
MeshRateIsSumOfClients ==
    OneRecordPerMac =>
        \A dir \in Directions :
            AggregateRate(list, dir) =
                IF Rated(dir) = {} THEN None
                ELSE SumFunction([m \in Rated(dir) |-> ClientRate(list, m, dir)])

(* The health sensors (sensor.py:89, 134), computed from summaries of the  *)
(* list, say what the rate, signal and connectivity entities, which never  *)
(* see the summaries, show: also of what may be relied on or is counted.   *)
HealthMatchesSensors ==
    LET health == TransferHealth(list) IN
    /\ health = "rate_observed" <=>
         \E dir \in Directions :
             AggregateRate(list, dir) # None /\ AggregateRate(list, dir) > 0
    /\ health = "inventory_stale" <=> InventoryHealth(list) = "all_reported_offline"
    /\ health = "inventory_stale" =>
         \A m \in Listed :
             ~OnlineAvailable(list, m) /\ \A dir \in Directions : m \notin Rated(dir)
    /\ OneRecordPerMac =>
         /\ OnlineClients(list) = Cardinality({m \in Listed : RateDataReliable(list, m)})
         /\ \A dir \in Directions :
                /\ \A m \in Rated(dir) : RateDataReliable(list, m)
                /\ CountingActive(list, dir) <=> Rated(dir) # {}

(* As many connectivity entities are on, and signal entities of each       *)
(* inventory state, as the inventory counts (binary_sensor.py:79,          *)
(* sensor.py:455, api.py:60).                                              *)
OnSensorsMatchInventory ==
    LET summary == SummarizeInventory(list)
        InState(s) == Cardinality({m \in Listed : InventoryState(list, m) = s})
    IN  OneRecordPerMac =>
          /\ Cardinality({m \in Listed : OnlineAvailable(list, m) /\ IsOn(list, m)})
               = summary.reported_online
          /\ InState("reported_online") = summary.reported_online
          /\ InState("reported_offline") = summary.reported_offline
          /\ InState("unknown") = summary.unknown_online_state

=============================================================================
