--------------------------- MODULE ProbeInventory ---------------------------
(***************************************************************************)
(* diagnose_inventory of tools/mw6_probe.py: host lists are read until the *)
(* deadline, and what they said of the client and of the other clients of  *)
(* its mesh node decides one of five verdicts.                             *)
(***************************************************************************)
EXTENDS ProbeSelection

CONSTANTS Nodes,          \* serial numbers of mesh nodes
          NoNode          \* a record without one, or no node known yet

VARIABLES targetNode,     \* target_node
          targetOnline,   \* the values in target_samples
          observations,   \* what was seen of each MAC: its nodes, its online values
          seen            \* history: <<mac, node, online>> of every record read

inventoryVars == <<targetNode, targetOnline, observations, seen>>

InventoryRecords == [mac : Macs \cup {NoMac}, match : Matches,
                     online : BOOLEAN, node : Nodes \cup {NoNode}]

Unobserved == [nodes |-> {}, online |-> {}]

InventoryInit ==
    /\ Started
    /\ targetNode = NoNode
    /\ targetOnline = {}
    /\ observations = [m \in Macs |-> Unobserved]
    /\ seen = {}

Of(clients, mac) == {c \in ToSet(clients) : c.mac = mac}

NodesOf(records) == {c.node : c \in records} \ {NoNode}

OnlineOf(records) == {c.online : c \in records}

\* mutated: the last list replaces what the earlier ones said
ObservedLast(old, clients) ==
    [m \in Macs |->
        IF Of(clients, m) = {} THEN old[m]
        ELSE [nodes  |-> old[m].nodes \cup NodesOf(Of(clients, m)),
              online |-> OnlineOf(Of(clients, m))]]

\* What a list adds to the observations.
Observed(old, clients) ==
    [m \in Macs |->
        [nodes  |-> old[m].nodes \cup NodesOf(Of(clients, m)),
         online |-> old[m].online \cup OnlineOf(Of(clients, m))]]

\* One round of the loop.  The first node named by the client's record is kept:
\* a later record that names another one does not change it.
InventoryRound(clients) ==
    /\ stage = "hosts"
    /\ rounds < MaxRounds
    /\ ~Ambiguous(clients)
    /\ rounds' = rounds + 1
    /\ LET matches == Selection(clients)
       IN  /\ selected' = Selected(matches)
           /\ targetNode' = IF targetNode = NoNode /\ matches # << >>
                            THEN Head(matches).node ELSE targetNode
           /\ targetOnline' = IF matches = << >> THEN targetOnline
                              ELSE targetOnline \cup {Head(matches).online}
    /\ observations' = Observed(observations, clients)
    /\ seen' = seen \cup {<<c.mac, c.node, c.online>> : c \in ToSet(clients)}
    /\ UNCHANGED <<stage, verdict>>

Peers == {m \in Macs \ {selected} : targetNode \in observations[m].nodes}

StayedOffline == targetOnline # {} /\ TRUE \notin targetOnline

InventoryVerdict ==
    CASE targetOnline = {}
            -> "TARGET_NOT_FOUND"
      [] TRUE \in targetOnline
            -> "TARGET_INVENTORY_REFRESHED"
      [] StayedOffline /\ (\E m \in Peers : TRUE \in observations[m].online)
            -> "TARGET_ONLY_STALE"
      [] StayedOffline /\ Peers # {} /\ (\A m \in Peers : TRUE \notin observations[m].online)
            -> "NODE_REPORTING_STALE"
      [] StayedOffline /\ Peers = {}
            -> "STALE_TARGET_NODE_INCONCLUSIVE"

InventoryNext ==
    \/ \E clients \in SeqOf(InventoryRecords, MaxHosts) :
          \/ InventoryRound(clients)
          \/ stage = "hosts" /\ GiveUp(clients) /\ UNCHANGED inventoryVars
    \/ RequestFails /\ UNCHANGED inventoryVars
    \/ Conclude(InventoryVerdict) /\ UNCHANGED inventoryVars

InventorySpec == InventoryInit /\ [][InventoryNext]_<<common, inventoryVars>>
-----------------------------------------------------------------------------
OthersAtTheNode == {s \in seen : /\ s[1] \in Macs \ {selected}
                                 /\ s[2] = targetNode
                                 /\ targetNode # NoNode}

\* What is said of the node holds over all the lists, in whichever round another
\* client was there: a node-wide failure is announced only when one was listed at the
\* node and never online there, and "a second client on that mesh node is needed"
\* only when none was (mw6_probe.py:585-598).
InventoryVerdictIsTrue ==
    /\ verdict = "NODE_REPORTING_STALE" =>
         /\ OthersAtTheNode # {}
         /\ \A s \in OthersAtTheNode : ~s[3]
    /\ verdict = "STALE_TARGET_NODE_INCONCLUSIVE" => OthersAtTheNode = {}

\* "Another client associated with the same NODE_SN was refreshed while the target
\* stayed offline ... not a node-wide publish failure" (mw6_probe.py:578-583): one
\* that was refreshed at that node, where else it may have been online.
TargetOnlyStaleIsSupported ==
    verdict = "TARGET_ONLY_STALE" => \E s \in OthersAtTheNode : s[3]
=============================================================================
