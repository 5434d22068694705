-------------------------------- MODULE MCCard --------------------------------
(***************************************************************************)
(* The card in a page (DeviceCard), and the comparator it sorts with       *)
(* (CardSort) on every sequence of up to three devices.  A first state     *)
(* with devices is looked at alone; from one without, the card moves.      *)
(*                                                                         *)
(* The page has two entities and a card configured for one config entry or *)
(* for all.  Their states differ in the bytes alone, in the client and the *)
(* entry alone, and in where a text holds a separator.                     *)
(***************************************************************************)
EXTENDS DeviceCard, TLC

CONSTANTS tv, rate, home, cabin, alpha, beta,
          Names, Ips, Transfers  \* what the compared devices may have

ASSUME ComparedParameters ==
    /\ None \notin Int
    /\ Names \subseteq Int /\ Transfers \subseteq Int \cup {None}
    /\ Ips \subseteq [value : Int \cup {None}, text : Int]

VARIABLES sort, order, rows      \* the comparator's settings and devices

Says(name, ip, bytes, mac, entry) ==
    [state |-> <<alpha>>, name |-> name, ip |-> ip, bytes |-> bytes, metric |-> <<beta>>,
     period |-> <<>>, direction |-> <<>>, mac |-> mac, entry |-> entry]

Tv(bytes) == Says(<<alpha>>, <<beta>>, bytes, alpha, home)
Rate(mac, entry) == Says(<<alpha>>, <<beta>>, <<>>, mac, entry)

MCWorlds ==
    {tv :> Absent    @@ rate :> Absent,
     tv :> Tv(<<alpha>>) @@ rate :> Rate(alpha, home),
     tv :> Tv(<<beta>>) @@ rate :> Rate(alpha, home),
     tv :> Tv(<<alpha>>) @@ rate :> Rate(beta, cabin),
     tv :> Says(<<alpha, Bar, beta>>, <<alpha>>, <<alpha>>, alpha, home) @@ rate :> Absent,
     tv :> Says(<<alpha>>, <<beta, Bar, alpha>>, <<alpha>>, alpha, home) @@ rate :> Absent}

CardRecords == {w[e] : w \in MCWorlds, e \in {tv, rate}} \ {Absent}

MCConfigs == {[entry |-> cabin, sort |-> "device", order |-> "auto"],
              [entry |-> NoEntry, sort |-> "download", order |-> "asc"]}

\* Two addresses, and two texts that are none.
CardIps == [value : {1, 2}, text : {0}] \cup [value : {None}, text : {1, 2}]

Devices == [name : Names, ip : Ips, transfer : Transfers]

(* Devices that differ in what the comparator looks at.                     *)
Compared(by) ==
    {d \in Devices : /\ by # "ip" => d.ip = CHOOSE ip \in Ips : TRUE
                     /\ ~ IsTransfer(by) => d.transfer = None}

MCCharacters == {tv, rate, alpha, beta, Bar, Semicolon}

(* One state of the card, and none of the comparator's.                     *)
CardAtRest ==
    /\ CardInit
    /\ \A e \in Entities : world[e] = Absent
    /\ stored = NoSettings /\ storageWorks /\ width = "hidden"
    /\ config.entry = NoEntry

NothingCompared == sort = "device" /\ order = "auto" /\ rows = <<>>

PageInit ==
    \/ CardInit /\ NothingCompared
    \/ CardAtRest /\ sort \in Sorts /\ order \in Orders /\ rows \in SeqOf(Compared(sort), 3) \ {<<>>}

PageNext ==
    /\ rows = <<>>
    /\ CardNext
    /\ UNCHANGED <<sort, order, rows>>

pageVars == <<cardVars, sort, order, rows>>

-----------------------------------------------------------------------------
Cmp(i, j) == Compare(sort, order, rows[i], rows[j])

(* Array.prototype.sort needs a consistent comparator: it may not depend on *)
(* the sides the devices stand on, and equal and smaller must carry over    *)
(* from one pair to the next, also where a transfer or an IP is unknown     *)
(* (tenda-mw6-card.js:334).                                                 *)
ComparatorIsConsistent ==
    /\ \A i, j \in DOMAIN rows : (Cmp(i, j) > 0) = (Cmp(j, i) < 0)
    /\ \A i, j, k \in DOMAIN rows :
          Cmp(i, j) <= 0 /\ Cmp(j, k) <= 0 =>
              Cmp(i, k) <= 0 /\ (Cmp(i, j) < 0 \/ Cmp(j, k) < 0 => Cmp(i, k) < 0)

=============================================================================
