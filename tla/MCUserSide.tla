------------------------------ MODULE MCUserSide ------------------------------
(***************************************************************************)
(* What users do to the integration: they add entries (ConfigFlow), edit   *)
(* the device map of one (DeviceNames) and choose preferences              *)
(* (PreferenceSelect).  The three share no state, so one run checks them   *)
(* side by side: the first state says which one moves, the others stay in  *)
(* an initial state of theirs.                                             *)
(***************************************************************************)
EXTENDS ConfigFlow, DeviceNames, PreferenceSelect

VARIABLE part  \* "flows", "names" or "select"

(* Two routers, one of which is also typed with a space.                   *)
MCHosts ==
    {[spelt |-> "gateway", bare |-> "gateway"], [spelt |-> "gateway ", bare |-> "gateway"],
     [spelt |-> "node", bare |-> "node"]}

(* Two clients over two addresses: an exchange of addresses, an address    *)
(* listed twice, a client that is away, and an address the parser rejects. *)
(* Only the first client has a name of its own.                            *)
Client(ip, mac) ==
    [ip |-> ip, mac |-> mac, name |-> IF mac = "mac_a" THEN "phone" ELSE Blank]

MCHostLists ==
    {{},
     {Client("ip1", "mac_a"), Client("ip2", "mac_b")},
     {Client("ip2", "mac_a"), Client("ip1", "mac_b")},
     {Client("ip1", "mac_a"), Client("ip1", "mac_b")},
     {Client("ip1", "mac_a")},
     {Client("ip1", "mac_a"), Client("malformed", "mac_b")}}

(* IPv4 addresses in order, then the rest, then by MAC.                    *)
MCRank(c) ==
    (CASE c.ip = "ip1" -> 10 [] c.ip = "ip2" -> 20 [] OTHER -> 30)
      + (IF c.mac = "mac_a" THEN 1 ELSE 2)

-----------------------------------------------------------------------------
FlowsAtRest == FlowInit /\ \A b \in Bare : accepts[b] = "a1"
NamesAtRest == NamesInit /\ list = {}
SelectAtRest == SelectInit /\ \A e \in Entries : registry[e] = None

Init ==
    \/ part = "flows" /\ FlowInit /\ NamesAtRest /\ SelectAtRest
    \/ part = "names" /\ FlowsAtRest /\ NamesInit /\ SelectAtRest
    \/ part = "select" /\ FlowsAtRest /\ NamesAtRest /\ SelectInit

Next ==
    /\ \/ part = "flows" /\ FlowNext /\ UNCHANGED <<namesVars, selectVars>>
       \/ part = "names" /\ NamesNext /\ UNCHANGED <<flowVars, selectVars>>
       \/ part = "select" /\ SelectNext /\ UNCHANGED <<flowVars, namesVars>>
    /\ UNCHANGED part

Spec == Init /\ [][Next]_<<part, flowVars, namesVars, selectVars>>

=============================================================================
