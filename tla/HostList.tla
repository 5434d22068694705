------------------------------- MODULE HostList -------------------------------
(***************************************************************************)
(* What api.py, the coordinator and the entities compute from one decoded  *)
(* host list: a sequence of clients, in the order the router sent them.    *)
(*                                                                         *)
(* A client is a record with at least mac, raw_online, upload and download *)
(* (raw_uprate and raw_downrate).  A MAC is a record: spelt is what the    *)
(* router sent up to letter case, bare is the same without the white space *)
(* around it; str.strip() maps one to the other and every comparison in    *)
(* the code ignores case.                                                  *)
(***************************************************************************)
EXTENDS Integers, Sequences, FiniteSets, SequencesExt, Python

Directions == {"upload", "download"}

-----------------------------------------------------------------------------
(* api.py                                                                  *)

ReportedOnline(c) == c.raw_online \notin {None, 0}

CountClients(list, Test(_)) == Cardinality({i \in DOMAIN list : Test(list[i])})

SummarizeInventory(list) ==
    LET online  == CountClients(list, ReportedOnline)
        offline == CountClients(list, LAMBDA c : c.raw_online = 0)
    IN [total_clients        |-> Len(list),
        reported_online      |-> online,
        reported_offline     |-> offline,
        unknown_online_state |-> Len(list) - online - offline,
        all_reported_offline |-> list # <<>> /\ offline = Len(list)]

AllReportedOffline(list) == SummarizeInventory(list).all_reported_offline

(* mutated: a rate of zero is taken for an observation                     *)
KnownRate(c, dir) == c[dir] # None

PositiveRate(c, dir) == c[dir] # None /\ c[dir] > 0

SummarizeTransferReadiness(list) ==
    LET With(Test(_)) == CountClients(list, LAMBDA c : ReportedOnline(c) /\ Test(c))
    IN [eligible_clients |-> With(LAMBDA c : TRUE),
        clients_with_rate |->
            With(LAMBDA c : \E dir \in Directions : PositiveRate(c, dir)),
        clients_with_upload_rate   |-> With(LAMBDA c : PositiveRate(c, "upload")),
        clients_with_download_rate |-> With(LAMBDA c : PositiveRate(c, "download")),
        inventory_all_reported_offline |-> AllReportedOffline(list)]

-----------------------------------------------------------------------------
(* sensor.py: the mesh                                                     *)

ValidRate(c, dir) == c[dir] # None /\ c[dir] >= 0

(* Where in the list they are                                              *)
EligibleClients(list) == {i \in DOMAIN list : ReportedOnline(list[i])}

InventoryFresh(list) ==
    EligibleClients(list) # {} /\ ~AllReportedOffline(list)

ValidValues(list, dir) == {i \in EligibleClients(list) : ValidRate(list[i], dir)}

(* mutated: the first eligible client's rate stands for all                *)
FirstRate(list, dir) ==
    IF ~InventoryFresh(list) \/ ValidValues(list, dir) = {} THEN None
    ELSE list[Min(ValidValues(list, dir))][dir]

(* _aggregate_rate_kib_s                                                   *)
AggregateRate(list, dir) ==
    IF ~InventoryFresh(list) \/ ValidValues(list, dir) = {} THEN None
    ELSE SumFunctionOnSet([i \in DOMAIN list |-> list[i][dir]], ValidValues(list, dir))

(* What a mesh sensor adds to its value: online_clients, counting_active    *)
OnlineClients(list) == Cardinality(EligibleClients(list))

CountingActive(list, dir) == AggregateRate(list, dir) # None

(* TendaMW6InventoryHealthSensor.native_value                              *)
InventoryHealth(list) ==
    IF list = <<>> THEN "no_clients"
    ELSE IF AllReportedOffline(list) THEN "all_reported_offline"
    ELSE "reporting"

(* TendaMW6TransferHealthSensor.native_value                               *)
TransferHealth(list) ==
    LET ready == SummarizeTransferReadiness(list) IN
    CASE ready.inventory_all_reported_offline -> "inventory_stale"
      [] ~ready.inventory_all_reported_offline /\ ready.eligible_clients = 0
           -> "waiting_for_online_clients"
      [] ready.eligible_clients > 0 /\ ready.clients_with_rate = 0
           -> "waiting_for_rate_observation"
      [] OTHER -> "rate_observed"

-----------------------------------------------------------------------------
(* sensor.py and binary_sensor.py: one client.  mac is an entity's _mac.   *)

(* _client: the first record with that MAC, spelt exactly so               *)
Matches(list, mac) == {i \in DOMAIN list : list[i].mac.spelt = mac}

ClientListed(list, mac) == Matches(list, mac) # {}

ClientOf(list, mac) ==
    list[CHOOSE i \in Matches(list, mac) : \A j \in Matches(list, mac) : i <= j]

(* _valid_rate_kib_s and _rate_kib_s                                       *)
ClientRate(list, mac, dir) ==
    IF /\ ClientListed(list, mac)
       /\ ReportedOnline(ClientOf(list, mac))
       /\ ~AllReportedOffline(list)
       /\ ValidRate(ClientOf(list, mac), dir)
    THEN ClientOf(list, mac)[dir]
    ELSE None

(* TendaMW6ClientSignalSensor: inventory_state, rate_data_reliable         *)
InventoryState(list, mac) ==
    LET online == ClientOf(list, mac).raw_online IN
    IF online = None THEN "unknown"
    ELSE IF online = 0 THEN "reported_offline" ELSE "reported_online"

RateDataReliable(list, mac) ==
    ReportedOnline(ClientOf(list, mac)) /\ ~AllReportedOffline(list)

(* TendaMW6ClientOnlineBinarySensor: available, is_on                      *)
OnlineAvailable(list, mac) ==
    ClientListed(list, mac) /\ ~AllReportedOffline(list)

(* mutated: only a reported zero is off                                    *)
IsOnUnlessZero(list, mac) == ClientOf(list, mac).raw_online # 0

IsOn(list, mac) == ReportedOnline(ClientOf(list, mac))

(* add_new_clients: the MACs an update adds entities for                   *)
DiscoveredMacs(list) == {list[i].mac.bare : i \in DOMAIN list} \ {""}

=============================================================================
