------------------------------- MODULE MCProbe -------------------------------
(***************************************************************************)
(* The tools that read one session and print: a run of mw6_probe.py makes  *)
(* one of its two diagnoses, the rates when both options are given;        *)
(* mw6_auth_extract.py looks for an account in a capture; the readers of a *)
(* host list decode one, and the cmdsrv client decompresses a block.  They *)
(* share no state, so a behaviour is of one of them.                       *)
(***************************************************************************)
EXTENDS ProbeInventory, ProbeRates, AuthCapture, ProtoWire, CmdBlock, TLC

VARIABLE task  \* which of them

Init ==
    /\ task \in {"rates", "inventory", "account", "payload", "block"}
    /\ InventoryInit
    /\ RatesInit
    /\ CaptureInit
    /\ IF task = "payload" THEN WireInit ELSE list = <<>> /\ cut = 0
    /\ IF task = "block" THEN BlockInit ELSE block = [steps |-> <<>>, last |-> <<>>]

Next ==
    /\ \/ /\ task = "rates" /\ RatesNext
          /\ UNCHANGED <<inventoryVars, captureVars>>
       \/ /\ task = "inventory" /\ InventoryNext
          /\ UNCHANGED <<rateVars, captureVars>>
       \/ /\ task = "account" /\ CaptureNext
          /\ UNCHANGED <<common, inventoryVars, rateVars>>
    /\ UNCHANGED <<task, wireVars, block>>

\* Nothing tells one MAC or one node from another.
Symmetry == Permutations(Macs) \cup Permutations(Nodes)

Spec == Init /\ [][Next]_<<task, common, inventoryVars, rateVars, captureVars, wireVars, block>>

-----------------------------------------------------------------------------
\* Clients with every field and with hardly any, the signal at both ends of a half
\* word, and after each a field of another wire type that no reader knows.
Absent == [f \in DOMAIN FieldNo \cup {"unknown"} |-> IF f = "unknown" THEN <<>> ELSE None]

MCHosts ==
    {[ip |-> <<49, 46>>, mac |-> <<97>>, access |-> <<53>>, node |-> <<78>>,
      condition_time |-> 300, online |-> 1, uprate |-> 0, downrate |-> 20000,
      signal |-> -60, name |-> <<110>>, unknown |-> <<[no |-> 11, wire |-> 0, value |-> 5]>>],
     [Absent EXCEPT !.mac = <<98>>, !.signal = -128, !.unknown = <<[no |-> 12, wire |-> 5, value |-> <<1, 0, 0, 255>>]>>],
     [Absent EXCEPT !.name = <<99>>, !.signal = 127,
                    !.unknown = <<[no |-> 12, wire |-> 1, value |-> <<0, 0, 0, 0, 1, 2, 3, 8>>]>>],
     [Absent EXCEPT !.ip = <<>>, !.online = 0, !.signal = 0,
                    !.unknown = <<[no |-> 16, wire |-> 2, value |-> <<10, 1, 49>>]>>]}

\* Literals of every length up to 36, and matches that follow and overlap them.
Literals(n) == [i \in 1 .. n |-> (5 * i) % Byte]

MCBlocks ==
    {[steps |-> <<>>, last |-> Literals(n)] : n \in 0 .. 36}
      \cup {[steps |-> <<[literals |-> Literals(l), offset |-> o, match |-> n]>>,
             last  |-> Literals(t)] :
               l \in {2, 3, 18}, o \in 1 .. 2, n \in {4, 6, 7, 8, 22, 23}, t \in {0, 1, 3}}
      \cup {[steps |-> <<[literals |-> Literals(l), offset |-> l, match |-> n],
                         [literals |-> <<>>, offset |-> o, match |-> 5]>>,
             last  |-> <<>>] : l \in {1, 17}, n \in {4, 5}, o \in {3, 4, 5}}

=============================================================================

