------------------------------ MODULE ProbeProofs ------------------------------
(***************************************************************************)
(* Proofs about the tools that read a session and print, and about the     *)
(* readers of a host list: the two diagnoses of mw6_probe.py, for any      *)
(* number of rounds and records, the account that is found in a capture,   *)
(* for any transaction ids, and the decoding of a payload, for any list of *)
(* well-formed clients and any widths.                                     *)
(*                                                                         *)
(* Each diagnosis keeps a digest of what it has read; that the digest says *)
(* no more and no less than the history its verdict is judged by is the    *)
(* inductive invariant.                                                    *)
(*                                                                         *)
(* A payload does not change.  What is proved about it goes up with the    *)
(* encoding: a number, a field, a message, a client and a list that stand  *)
(* in a buffer are read as they were sent, and one that the buffer cuts is *)
(* noticed.  After each round of the loop over a message the reader stands *)
(* between two of its fields, with those before read, or has raised.       *)
(***************************************************************************)
EXTENDS ProbeInventory, ProbeRates, AuthCapture, ProtoWire, InductionLemmas

-----------------------------------------------------------------------------
(* diagnose_client_rates                                                   *)

(* The samples and the WAN flag hold the traffic of the whole run, and a   *)
(* verdict is that of the samples it was printed with.                     *)
RatesInv ==
    /\ traffic \subseteq {"client", "wan"}
    /\ wanSeen <=> "wan" \in traffic
    /\ HadRate <=> "client" \in traffic
    /\ verdict # "none" => stage = "ended" /\ verdict = RateVerdict

(* One round's samples.                                                    *)
LEMMA WanRoundKeepsRates ==
    ASSUME RatesInv, NEW reading \in BOOLEAN, ReadWanTraffic(reading)
    PROVE  RatesInv'
<1> DEFINE matches == Selection(hosts)
           online == Head(matches).online
           rate == Head(matches).rate
<1>1. /\ wanSeen' = (wanSeen \/ reading)
      /\ sampled' = IF matches = <<>> THEN sampled ELSE sampled \cup {<<online, rate>>}
      /\ traffic' = traffic \cup (IF reading THEN {"wan"} ELSE {})
                            \cup (IF matches # <<>> /\ rate THEN {"client"} ELSE {})
      /\ verdict' = verdict /\ stage = "wan"
  BY DEF ReadWanTraffic, WanSeen, Kept
<1> HIDE DEF matches, online, rate
<1>2. HadRate' <=> HadRate \/ (matches # <<>> /\ rate)
  <2>1. CASE matches = <<>>
    BY <1>1, <2>1 DEF HadRate
  <2>2. CASE matches # <<>>
    <3>1. sampled' = sampled \cup {<<online, rate>>}
      BY <1>1, <2>2
    <3>2. <<online, rate>>[2] = rate
      OBVIOUS
    <3>3. HadRate' <=> HadRate \/ <<online, rate>>[2]
      BY <3>1, Zenon DEF HadRate
    <3> QED
      BY <2>2, <3>2, <3>3, Zenon
  <2> QED
    BY <2>1, <2>2
<1>3. verdict' = "none"
  BY <1>1 DEF RatesInv
<1>4. traffic' \subseteq {"client", "wan"}
  BY <1>1 DEF RatesInv
<1>5. wanSeen' <=> "wan" \in traffic'
  BY <1>1 DEF RatesInv
<1>6. HadRate' <=> "client" \in traffic'
  BY <1>1, <1>2 DEF RatesInv
<1> QED
  BY <1>3, <1>4, <1>5, <1>6 DEF RatesInv

(* The invariant holds, whichever requests fail.                           *)
THEOREM RatesInductive == RatesSpec => []RatesInv
<1>1. RatesInit => RatesInv
  BY DEF RatesInit, Started, RatesInv, HadRate
<1>2. RatesInv /\ [RatesNext]_<<common, rateVars>> => RatesInv'
  <2> SUFFICES ASSUME RatesInv, [RatesNext]_<<common, rateVars>>
               PROVE  RatesInv'
    OBVIOUS
  <2>1. ASSUME NEW clients, ReadHostList(clients)
        PROVE  RatesInv'
    <3>1. UNCHANGED <<verdict, sampled, wanSeen, traffic>> /\ verdict = "none"
      BY <2>1 DEF ReadHostList, RatesInv
    <3> QED
      BY <3>1 DEF RatesInv, HadRate
  <2>2. ASSUME NEW reading \in BOOLEAN, ReadWanTraffic(reading)
        PROVE  RatesInv'
    BY <2>2, WanRoundKeepsRates
  <2>3. CASE ((stage = "wan" /\ GiveUp(hosts)) \/ RequestFails) /\ UNCHANGED rateVars
    <3>1. UNCHANGED <<verdict, sampled, wanSeen, traffic>> /\ verdict = "none"
      BY <2>3 DEF GiveUp, RequestFails, rateVars, RatesInv
    <3> QED
      BY <3>1 DEF RatesInv, HadRate
  <2>4. CASE Conclude(RateVerdict) /\ UNCHANGED rateVars
    <3>1. /\ UNCHANGED <<sampled, wanSeen, traffic>>
          /\ stage' = "ended" /\ verdict' = RateVerdict
      BY <2>4 DEF Conclude, rateVars
    <3>2. RateVerdict' = RateVerdict /\ HadRate' = HadRate
      BY <3>1 DEF RateVerdict, WasOffline, HadRate
    <3> QED
      BY <3>1, <3>2 DEF RatesInv
  <2>5. CASE UNCHANGED <<common, rateVars>>
    <3>1. UNCHANGED <<stage, verdict, sampled, wanSeen, traffic>>
      BY <2>5 DEF common, rateVars
    <3>2. RateVerdict' = RateVerdict /\ HadRate' = HadRate
      BY <3>1 DEF RateVerdict, WasOffline, HadRate
    <3> QED
      BY <3>1, <3>2 DEF RatesInv
  <2> QED
    BY <2>1, <2>2, <2>3, <2>4, <2>5 DEF RatesNext
<1> QED
  BY <1>1, <1>2, PTL DEF RatesSpec

(* What the verdict says of the traffic holds over the whole run.          *)
THEOREM RateVerdictHolds == RatesSpec => []RateVerdictIsTrue
<1>1. RatesInv => RateVerdictIsTrue
  <2>1. /\ RateVerdict = "ONLINE_BUT_NO_RATE_EVIDENCE" => ~HadRate /\ ~wanSeen
        /\ RateVerdict = "ONLINE_CLIENT_ZERO_WITH_WAN_TRAFFIC" => ~HadRate /\ wanSeen
    BY Zenon DEF RateVerdict
  <2> QED
    BY <2>1 DEF RatesInv, RateVerdictIsTrue
<1> QED
  BY <1>1, RatesInductive, PTL

-----------------------------------------------------------------------------
(* diagnose_inventory                                                      *)

(* The observations of each MAC are what the records with it said, and a   *)
(* verdict is that of the observations it was printed with.                *)
InventoryInv ==
    /\ \A s \in seen : s[3] \in BOOLEAN
    /\ \A m \in Macs :
          /\ observations[m].nodes = {s[2] : s \in {t \in seen : t[1] = m}} \ {NoNode}
          /\ observations[m].online = {s[3] : s \in {t \in seen : t[1] = m}}
    /\ verdict # "none" => stage = "ended" /\ verdict = InventoryVerdict

(* A list adds to the observations of each MAC what its records say.       *)
LEMMA RoundKeepsInventory ==
    ASSUME InventoryInv, NEW clients \in SeqOf(InventoryRecords, MaxHosts),
           InventoryRound(clients)
    PROVE  InventoryInv'
<1> DEFINE records == ToSet(clients)
           added == {<<c.mac, c.node, c.online>> : c \in records}
<1>1. /\ observations' = Observed(observations, clients)
      /\ seen' = seen \cup added
      /\ verdict' = verdict /\ stage = "hosts"
  BY DEF InventoryRound
<1>2. \A c \in records : c.online \in BOOLEAN
  BY DEF ToSet, SeqOf, InventoryRecords
<1> HIDE DEF records
<1>3. \A s \in seen' : s[3] \in BOOLEAN
  BY <1>1, <1>2 DEF InventoryInv
<1>4. ASSUME NEW m \in Macs
      PROVE  /\ observations'[m].nodes = {s[2] : s \in {t \in seen' : t[1] = m}} \ {NoNode}
             /\ observations'[m].online = {s[3] : s \in {t \in seen' : t[1] = m}}
  <2> DEFINE Mine == {c \in records : c.mac = m}
  <2>1. /\ observations'[m].nodes = observations[m].nodes \cup ({c.node : c \in Mine} \ {NoNode})
        /\ observations'[m].online = observations[m].online \cup {c.online : c \in Mine}
    BY <1>1 DEF Observed, Of, NodesOf, OnlineOf, records
  <2> DEFINE Before == {t \in seen : t[1] = m}
             New == {<<c.mac, c.node, c.online>> : c \in Mine}
  <2>2. {t \in seen' : t[1] = m} = Before \cup New
    BY <1>1
  <2>3. {s[2] : s \in New} = {c.node : c \in Mine} /\ {s[3] : s \in New} = {c.online : c \in Mine}
    <3>1. \A c \in Mine : <<c.mac, c.node, c.online>> \in New
      OBVIOUS
    <3>2. \A s \in New : \E c \in Mine : s[2] = c.node /\ s[3] = c.online
      OBVIOUS
    <3>3. \A c \in Mine : \E s \in New : s[2] = c.node /\ s[3] = c.online
      BY <3>1
    <3> HIDE DEF Mine, New
    <3> QED
      BY <3>2, <3>3
  <2>4. /\ {s[2] : s \in Before \cup New} = {s[2] : s \in Before} \cup {s[2] : s \in New}
        /\ {s[3] : s \in Before \cup New} = {s[3] : s \in Before} \cup {s[3] : s \in New}
    <3> HIDE DEF Before, New
    <3> QED
      OBVIOUS
  <2> HIDE DEF Mine
  <2> QED
    BY <2>1, <2>2, <2>3, <2>4 DEF InventoryInv
<1>5. verdict' = "none"
  BY <1>1 DEF InventoryInv
<1> QED
  BY <1>3, <1>4, <1>5 DEF InventoryInv

(* The invariant holds, whichever requests fail.                           *)
THEOREM InventoryInductive == InventorySpec => []InventoryInv
<1>1. InventoryInit => InventoryInv
  BY DEF InventoryInit, Started, Unobserved, InventoryInv
<1>2. InventoryInv /\ [InventoryNext]_<<common, inventoryVars>> => InventoryInv'
  <2> SUFFICES ASSUME InventoryInv, [InventoryNext]_<<common, inventoryVars>>
               PROVE  InventoryInv'
    OBVIOUS
  <2>1. ASSUME NEW clients \in SeqOf(InventoryRecords, MaxHosts), InventoryRound(clients)
        PROVE  InventoryInv'
    BY <2>1, RoundKeepsInventory
  <2>2. ASSUME NEW clients, (stage = "hosts" /\ GiveUp(clients)) \/ RequestFails,
               UNCHANGED inventoryVars
        PROVE  InventoryInv'
    <3>1. UNCHANGED <<verdict, observations, seen>> /\ verdict = "none"
      BY <2>2 DEF GiveUp, RequestFails, inventoryVars, InventoryInv
    <3> QED
      BY <3>1 DEF InventoryInv
  <2>3. CASE Conclude(InventoryVerdict) /\ UNCHANGED inventoryVars
    <3>1. /\ UNCHANGED <<targetNode, targetOnline, observations, seen, selected>>
          /\ stage' = "ended" /\ verdict' = InventoryVerdict
      BY <2>3 DEF Conclude, inventoryVars
    <3>2. InventoryVerdict' = InventoryVerdict
      BY <3>1 DEF InventoryVerdict, Peers, StayedOffline
    <3> QED
      BY <3>1, <3>2 DEF InventoryInv
  <2>4. CASE UNCHANGED <<common, inventoryVars>>
    <3>1. UNCHANGED <<targetNode, targetOnline, observations, seen, selected, stage, verdict>>
      BY <2>4 DEF common, inventoryVars
    <3>2. InventoryVerdict' = InventoryVerdict
      BY <3>1 DEF InventoryVerdict, Peers, StayedOffline
    <3> QED
      BY <3>1, <3>2 DEF InventoryInv
  <2> QED
    BY <2>1, <2>2, <2>3, <2>4 DEF InventoryNext
<1> QED
  BY <1>1, <1>2, PTL DEF InventorySpec

(* What is said of the client's mesh node holds over all the lists.        *)
THEOREM InventoryVerdictHolds == InventorySpec => []InventoryVerdictIsTrue
<1>1. InventoryInv => InventoryVerdictIsTrue
  <2> SUFFICES ASSUME InventoryInv
               PROVE  InventoryVerdictIsTrue
    OBVIOUS
  <2>1. /\ InventoryVerdict = "NODE_REPORTING_STALE" =>
             Peers # {} /\ \A m \in Peers : TRUE \notin observations[m].online
        /\ InventoryVerdict = "STALE_TARGET_NODE_INCONCLUSIVE" => Peers = {}
    BY Zenon DEF InventoryVerdict, StayedOffline
  <2>2. ASSUME NEW m \in Peers
        PROVE  OthersAtTheNode # {}
    BY <2>2 DEF Peers, OthersAtTheNode, InventoryInv
  <2>3. ASSUME NEW s \in OthersAtTheNode
        PROVE  s[1] \in Peers /\ s[3] \in observations[s[1]].online /\ s[3] \in BOOLEAN
    BY <2>3 DEF Peers, OthersAtTheNode, InventoryInv
  <2>4. verdict = "NODE_REPORTING_STALE" =>
             OthersAtTheNode # {} /\ \A s \in OthersAtTheNode : ~s[3]
    BY <2>1, <2>2, <2>3 DEF InventoryInv
  <2>5. verdict = "STALE_TARGET_NODE_INCONCLUSIVE" => OthersAtTheNode = {}
    BY <2>1, <2>3 DEF InventoryInv
  <2> QED
    BY <2>4, <2>5 DEF InventoryVerdictIsTrue
<1> QED
  BY <1>1, InventoryInductive, PTL

-----------------------------------------------------------------------------
(* extract_successful_account                                              *)

(* With one connection open at a time, what is remembered of the id of the *)
(* unanswered LOGIN is that LOGIN's account, if the capture holds it.      *)
CaptureInv ==
    /\ sent \in [Connections -> Int]
    /\ pending \in [Connections -> Accounts \cup {None}]
    /\ requests \in [Tids -> Accounts \cup {None}]
    /\ captured \in [Connections -> BOOLEAN]
    /\ \A c, d \in Opened : c = d
    /\ \A c \in Connections : pending[c] # None =>
          /\ c \in Opened /\ sent[c] > 0
          /\ account = None /\ captured[c] => requests[TidOf(sent[c])] = pending[c]
    /\ AccountWasAccepted

(* The id of a request is a transaction id, however often they wrap.       *)
LEMMA TidType ==
    ASSUME NEW n \in Nat \ {0}
    PROVE  TidOf(n) \in Tids
<1>1. Cardinality(Tids) = LastTid - FirstTid + 1
  <2>1. /\ FirstTid \in Int /\ LastTid \in Int /\ ~(FirstTid > LastTid)
    BY CaptureParameters
  <2>2. Cardinality(FirstTid .. LastTid) =
          IF FirstTid > LastTid THEN 0 ELSE LastTid - FirstTid + 1
    BY <2>1, FS_Interval, Zenon
  <2> QED
    BY <2>1, <2>2 DEF Tids
<1> DEFINE size == LastTid - FirstTid + 1
<1>2. size \in Nat \ {0}
  BY CaptureParameters
<1>3. (n - 1) % size \in 0 .. size - 1
  <2>1. ASSUME NEW k \in Nat, NEW p \in Nat \ {0}
        PROVE  k % p \in 0 .. p - 1
    OBVIOUS
  <2>2. n - 1 \in Nat
    OBVIOUS
  <2> HIDE DEF size
  <2> QED
    BY <1>2, <2>1, <2>2
<1>4. TidOf(n) = FirstTid + ((n - 1) % size)
  BY <1>1 DEF TidOf
<1> DEFINE r == (n - 1) % size
<1> HIDE DEF r
<1>5. r \in 0 .. LastTid - FirstTid
  BY <1>2, <1>3, CaptureParameters DEF r
<1> QED
  BY <1>4, <1>5, CaptureParameters DEF Tids, r

(* A connection is opened only when none is, if one may be.                *)
LEMMA OneOpen ==
    ASSUME MaxOpen <= 1, CaptureInv, NEW c \in Connections, OpenConnection(c)
    PROVE  Opened = {}
<1>1. CASE \E d \in Connections : Opened = {d}
  <2>1. Cardinality(Opened) = 1
    BY <1>1, FS_Singleton, Zenon
  <2> QED
    BY <2>1, CaptureParameters DEF OpenConnection
<1>2. Opened = {} \/ \E d \in Connections : Opened = {d}
  BY DEF CaptureInv, Opened
<1> QED
  BY <1>1, <1>2

(* The invariant holds, whatever the app does on one connection at a time. *)
THEOREM CaptureInductive ==
    ASSUME MaxOpen <= 1
    PROVE  CaptureSpec => []CaptureInv
<1>1. CaptureInit => CaptureInv
  BY CaptureParameters DEF CaptureInit, CaptureInv, Opened, AccountWasAccepted
<1>2. CaptureInv /\ [CaptureNext]_captureVars => CaptureInv'
  <2> SUFFICES ASSUME CaptureInv, [CaptureNext]_captureVars
               PROVE  CaptureInv'
    OBVIOUS
  <2> USE DEF CaptureInv
  <2>1. ASSUME NEW c \in Connections, OpenConnection(c)
        PROVE  CaptureInv'
    <3>1. Opened = {}
      BY <2>1, OneOpen
    <3>2. \A d \in Connections : pending[d] = None
      BY <3>1
    <3> QED
      BY <2>1, <3>1, <3>2 DEF OpenConnection, Opened, AccountWasAccepted
  <2>2. ASSUME NEW c \in Connections, CloseConnection(c)
        PROVE  CaptureInv'
    <3>1. \A d \in Connections : d # c => sent'[d] = sent[d] /\ pending'[d] = pending[d]
      BY <2>2 DEF CloseConnection
    <3>2. sent'[c] = -1 /\ pending'[c] = None
      BY <2>2 DEF CloseConnection
    <3> QED
      BY <2>2, <3>1, <3>2 DEF CloseConnection, Opened, AccountWasAccepted
  <2>3. ASSUME NEW c \in Connections, pending[c] = None, OtherRequest(c)
        PROVE  CaptureInv'
    <3>1. \A d \in Connections : d # c => sent'[d] = sent[d]
      BY <2>3 DEF OtherRequest
    <3>2. Opened' = Opened
      BY <2>3 DEF OtherRequest, Opened
    <3> QED
      BY <2>3, <3>1, <3>2 DEF OtherRequest, AccountWasAccepted
  <2>4. ASSUME NEW c \in Connections, NEW a \in Accounts, LoginRequest(c, a)
        PROVE  CaptureInv'
    <3>1. /\ sent[c] \in Nat /\ sent'[c] = sent[c] + 1
          /\ sent' \in [Connections -> Int] /\ Opened' = Opened
          /\ \A d \in Connections : d # c => sent'[d] = sent[d]
      BY <2>4 DEF LoginRequest, SendLogin, Opened
    <3>2. TidOf(sent'[c]) \in Tids
      BY <3>1, TidType
    <3>3. /\ requests' \in [Tids -> Accounts \cup {None}]
          /\ account = None => requests'[TidOf(sent'[c])] = a
      BY <2>4, <3>2 DEF LoginRequest, Remember
    <3>4. /\ pending' \in [Connections -> Accounts \cup {None}] /\ pending'[c] = a
          /\ captured' \in [Connections -> BOOLEAN]
          /\ UNCHANGED <<account, matched>>
      BY <2>4 DEF LoginRequest, SendLogin
    <3>5. \A d \in Connections : pending'[d] # None => d = c
      BY <2>4 DEF LoginRequest, SendLogin
    <3>6. c \in Opened
      BY <2>4 DEF LoginRequest, SendLogin
    <3> QED
      BY <3>1, <3>3, <3>4, <3>5, <3>6 DEF AccountWasAccepted
  <2>8. ASSUME NEW c \in Connections, NEW a \in Accounts, RequestMissed(c, a)
        PROVE  CaptureInv'
    <3>1. /\ sent[c] \in Nat /\ sent'[c] = sent[c] + 1
          /\ sent' \in [Connections -> Int] /\ Opened' = Opened
          /\ \A d \in Connections : d # c => sent'[d] = sent[d]
      BY <2>8 DEF RequestMissed, SendLogin, Opened
    <3>2. /\ pending' \in [Connections -> Accounts \cup {None}]
          /\ captured' \in [Connections -> BOOLEAN] /\ captured'[c] = FALSE
          /\ UNCHANGED <<requests, account, matched>>
      BY <2>8 DEF RequestMissed, SendLogin
    <3>3. /\ \A d \in Connections : pending'[d] # None => d = c
          /\ c \in Opened
      BY <2>8 DEF RequestMissed, SendLogin
    <3> QED
      BY <3>1, <3>2, <3>3 DEF AccountWasAccepted
  <2>5. ASSUME NEW c \in Connections, LoginAnswer(c)
        PROVE  CaptureInv'
    <3>1. /\ UNCHANGED <<sent, requests>> /\ Opened' = Opened
          /\ pending' \in [Connections -> Accounts \cup {None}]
          /\ \A d \in Connections : pending'[d] = None
      BY <2>5 DEF LoginAnswer, Opened
    <3>2. UNCHANGED captured
      BY <2>5 DEF LoginAnswer
    <3>3. AccountWasAccepted'
      BY <2>5 DEF LoginAnswer, AccountWasAccepted
    <3> QED
      BY <3>1, <3>2, <3>3
  <2>6. ASSUME NEW c \in Connections, AnswerMissed(c)
        PROVE  CaptureInv'
    BY <2>6 DEF AnswerMissed, Opened, AccountWasAccepted
  <2>7. CASE UNCHANGED captureVars
    BY <2>7 DEF captureVars, Opened, AccountWasAccepted
  <2> QED
    BY <2>1, <2>2, <2>3, <2>4, <2>5, <2>6, <2>7, <2>8 DEF CaptureNext
<1> QED
  BY <1>1, <1>2, PTL DEF CaptureSpec

(* The extracted account is one the router accepted, when its LOGIN is in  *)
(* the capture and the captured connections follow each other.             *)
THEOREM ExtractedAccountWasAccepted ==
    ASSUME MaxOpen <= 1
    PROVE  CaptureSpec => []AccountWasAccepted
<1>1. CaptureInv => AccountWasAccepted
  BY DEF CaptureInv
<1> QED
  BY <1>1, CaptureInductive, PTL

-----------------------------------------------------------------------------
(* _decode_mesh_hosts, decode_mesh_hosts and decode_host_lists: numbers    *)

(* The widths.                                                             *)
LEMMA WireNumbers ==
    /\ Base = 128 /\ MaxDigits \in Nat \ {0} /\ MaxListed \in Nat
    /\ Word \in Nat /\ Base <= Word /\ Word <= Capacity
    /\ Bytes = 0 .. 255
  BY WireParameters DEF Bytes

(* The powers of the base.                                                 *)
IsPowers(u) ==
    /\ u \in [0 .. MaxDigits -> Nat] /\ u[0] = 1
    /\ \A d \in 1 .. MaxDigits : u[d] = Base * u[d - 1]

(* Capacity is the last of them.                                           *)
LEMMA PowersFacts == \E u : IsPowers(u) /\ u[MaxDigits] = Capacity
<1> DEFINE N == MaxDigits
           f == [d \in 1 .. N |-> [x \in Nat |-> Base * x]]
           Gives(u) == u = [k \in 0 .. N |-> IF k = 0 THEN 1 ELSE Base * u[k - 1]]
           p == CHOOSE u : Gives(u)
<1>1. N \in Nat /\ 1 \in Nat /\ N \in 0 .. N
  BY WireNumbers
<1>2. f \in [1 .. N -> [Nat -> Nat]]
  BY WireNumbers
<1>3. PICK g : Iterates(N, Nat, 1, f, g)
  <2> HIDE DEF f, N
  <2> QED
    BY <1>1, <1>2, IterationExists
<1>4. g \in [0 .. N -> Nat] /\ g[0] = 1 /\ \A n \in 1 .. N : g[n] = f[n][g[n - 1]]
  BY <1>3 DEF Iterates
<1>5. ASSUME NEW n \in 0 .. N
      PROVE  g[n] = IF n = 0 THEN 1 ELSE Base * g[n - 1]
  <2>1. CASE n = 0
    BY <1>4, <2>1
  <2>2. CASE n # 0
    <3>1. n \in 1 .. N /\ n - 1 \in 0 .. N
      BY <1>1, <2>2
    <3>2. g[n - 1] \in Nat
      BY <1>4, <3>1
    <3> QED
      BY <1>4, <2>2, <3>1, <3>2
  <2> QED
    BY <2>1, <2>2
<1>6. g = [n \in 0 .. N |-> g[n]]
  BY <1>4
<1>7. Gives(g)
  BY <1>5, <1>6
<1>8. Gives(p)
  <2> HIDE DEF Gives
  <2> QED
    BY <1>7
<1>9. Capacity = p[N]
  BY DEF Capacity
<1> HIDE DEF p
<1>10. \A n \in 0 .. N : p[n] = IF n = 0 THEN 1 ELSE Base * p[n - 1]
  BY <1>8
<1>11. p = [n \in 0 .. N |-> p[n]]
  BY <1>8
<1> DEFINE T == {n \in 0 .. N : p[n] \in Nat}
<1>12. \A n \in 0 .. N : n \in T
  <2>1. 0 \in T
    BY <1>1, <1>10
  <2>2. ASSUME NEW n \in 0 .. N - 1, n \in T
        PROVE  n + 1 \in T
    <3>1. n + 1 \in 0 .. N /\ n + 1 # 0 /\ (n + 1) - 1 = n
      BY <1>1
    <3>2. p[n + 1] = Base * p[n]
      BY <1>10, <3>1
    <3> QED
      BY <2>2, <3>1, <3>2, WireNumbers
  <2> HIDE DEF T
  <2> QED
    BY <1>1, <2>1, <2>2, UpToInduction
<1>13. p \in [0 .. N -> Nat]
  BY <1>11, <1>12
<1>14. \A d \in 1 .. N : d \in 0 .. N /\ d # 0
  BY <1>1
<1>15. 0 \in 0 .. N
  BY <1>1
<1> HIDE DEF N
<1>16. p[0] = 1 /\ \A d \in 1 .. N : p[d] = Base * p[d - 1]
  BY <1>10, <1>14, <1>15
<1>17. IsPowers(p)
  BY <1>13, <1>16 DEF IsPowers, N
<1> QED
  BY <1>9, <1>17 DEF N

(* A number in groups of seven bits, the lowest first.                     *)
IsGroups(n, g) ==
    /\ g \in [0 .. n -> Seq(Bytes)]
    /\ \A k \in 0 .. n :
          g[k] = IF k < Base THEN <<k>> ELSE <<Base + (k % Base)>> \o g[k \div Base]

(* A number is its lowest group and a smaller number.                      *)
LEMMA FewerGroups ==
    ASSUME NEW k \in Nat, k >= Base
    PROVE  k \div Base \in 0 .. k - 1 /\ k \div Base >= 1 /\ k % Base \in 0 .. Base - 1
           /\ k = Base * (k \div Base) + (k % Base)
  BY WireNumbers

(* EncodeVarint sends the groups of a number.                              *)
LEMMA GroupsFacts ==
    ASSUME NEW n \in Nat
    PROVE  \E g : IsGroups(n, g) /\ EncodeVarint(n) = g[n]
<1> DEFINE Group(k, g) == IF k < Base THEN <<k>> ELSE <<Base + (k % Base)>> \o g[k \div Base]
           Gives(m, g) == g = [k \in 0 .. m |-> Group(k, g)]
           T == {m \in 0 .. n : \E g : Gives(m, g)}
           p == CHOOSE g : Gives(n, g)
<1>1. 0 \in T
  <2> DEFINE h == [k \in 0 .. 0 |-> <<0>>]
  <2>1. \A k \in 0 .. 0 : Group(k, h) = <<0>>
    BY WireNumbers
  <2>2. Gives(0, h)
    BY <2>1
  <2> HIDE DEF Gives
  <2>3. \E g : Gives(0, g)
    BY <2>2
  <2>4. 0 \in 0 .. n
    OBVIOUS
  <2> QED
    BY <2>3, <2>4
<1>2. ASSUME NEW m \in 0 .. n - 1, m \in T
      PROVE  m + 1 \in T
  <2>1. PICK g : Gives(m, g)
    BY <1>2
  <2> DEFINE h == [k \in 0 .. m + 1 |-> IF k <= m THEN g[k] ELSE Group(m + 1, g)]
  <2>2. m \in Nat /\ m + 1 \in 0 .. n
    OBVIOUS
  <2>3. \A k \in 0 .. m : g[k] = Group(k, g)
    BY <2>1
  <2>4. \A k \in 0 .. m : h[k] = g[k]
    BY <2>2
  <2>5. ASSUME NEW k \in 0 .. m + 1
        PROVE  h[k] = Group(k, g) /\ Group(k, g) = Group(k, h)
    <3>1. h[k] = Group(k, g)
      <4>1. CASE k = m + 1
        BY <2>2, <4>1
      <4>2. CASE k # m + 1
        <5>1. k \in 0 .. m
          BY <2>2, <4>2
        <5> HIDE DEF h, Group
        <5> QED
          BY <2>3, <2>4, <5>1
      <4> QED
        BY <4>1, <4>2
    <3>2. k >= Base => k \div Base \in 0 .. m
      BY <2>2, FewerGroups
    <3>3. k >= Base => h[k \div Base] = g[k \div Base]
      <4> HIDE DEF h
      <4> QED
        BY <2>4, <3>2
    <3>4. k < Base \/ k >= Base
      BY WireNumbers
    <3> HIDE DEF h
    <3> QED
      BY <3>1, <3>3, <3>4
  <2>6. h = [k \in 0 .. m + 1 |-> h[k]]
    OBVIOUS
  <2> HIDE DEF h, Group
  <2>7. Gives(m + 1, h)
    BY <2>5, <2>6
  <2> HIDE DEF Gives
  <2> QED
    BY <2>2, <2>7
<1>3. \A m \in 0 .. n : m \in T
  <2> HIDE DEF T
  <2> QED
    BY <1>1, <1>2, UpToInduction
<1>4. n \in 0 .. n
  OBVIOUS
<1>5. Gives(n, p)
  <2> HIDE DEF Gives
  <2>1. \E g : Gives(n, g)
    BY <1>3, <1>4
  <2> QED
    BY <2>1
<1>6. EncodeVarint(n) = p[n]
  BY DEF EncodeVarint
<1> HIDE DEF p
<1>7. p = [k \in 0 .. n |-> p[k]] /\ \A k \in 0 .. n : p[k] = Group(k, p)
  BY <1>5
<1> DEFINE U == {k \in 0 .. n : p[k] \in Seq(Bytes)}
<1>8. \A k \in 0 .. n : k \in U
  <2>1. ASSUME NEW k \in 0 .. n, \A j \in 0 .. k - 1 : j \in U
        PROVE  k \in U
    <3>1. CASE k < Base
      <4>1. p[k] = <<k>>
        BY <1>7, <3>1
      <4>2. k \in Bytes
        BY <3>1, WireNumbers
      <4>3. p[k] \in Seq(Bytes)
        BY <4>1, <4>2
      <4> QED
        BY <4>3
    <3>2. CASE k >= Base
      <4> DEFINE q == k \div Base
      <4>1. q \in 0 .. k - 1 /\ Base + (k % Base) \in Bytes /\ ~ (k < Base)
        BY <3>2, FewerGroups, WireNumbers
      <4>2. p[q] \in Seq(Bytes)
        <5> HIDE DEF q
        <5> QED
          BY <2>1, <4>1
      <4>3. p[k] = <<Base + (k % Base)>> \o p[q]
        BY <1>7, <4>1
      <4>4. <<Base + (k % Base)>> \in Seq(Bytes)
        BY <4>1
      <4> HIDE DEF q
      <4> QED
        BY <4>2, <4>3, <4>4, ConcatProperties
    <3> QED
      BY <3>1, <3>2, WireNumbers
  <2> HIDE DEF U
  <2> QED
    BY <2>1, StrongInduction
<1>9. p \in [0 .. n -> Seq(Bytes)]
  BY <1>7, <1>8
<1>10. IsGroups(n, p)
  BY <1>7, <1>9 DEF IsGroups
<1> QED
  BY <1>6, <1>10

(* What the bytes from each position on stand for as a varint.             *)
IsVarints(buf, w) ==
    /\ w \in [1 .. Len(buf) + 1 -> Nat]
    /\ \A p \in 1 .. Len(buf) :
          w[p] = IF buf[p] < Base THEN buf[p] ELSE (buf[p] - Base) + Base * w[p + 1]

(* VarintAt is what they stand for.                                        *)
LEMMA VarintAtFacts ==
    ASSUME NEW buf \in Seq(Nat)
    PROVE  IsVarints(buf, VarintAt(buf))
<1> DEFINE N == Len(buf)
           Byte(n) == buf[N + 1 - n]
           f == [n \in 1 .. N |->
                    [x \in Nat |-> IF Byte(n) < Base THEN Byte(n) ELSE (Byte(n) - Base) + Base * x]]
           Value(p, w) == IF p > N THEN 0
                          ELSE IF buf[p] < Base THEN buf[p]
                          ELSE (buf[p] - Base) + Base * w[p + 1]
           Gives(w) == w = [p \in 1 .. N + 1 |-> Value(p, w)]
           v == CHOOSE w : Gives(w)
<1>1. N \in Nat /\ \A n \in 1 .. N : buf[n] \in Nat
  BY LenProperties, ElementOfSeq
<1>2. \A n \in 1 .. N : N + 1 - n \in 1 .. N /\ Byte(n) \in Nat
  BY <1>1
<1>3. f \in [1 .. N -> [Nat -> Nat]]
  <2>1. ASSUME NEW n \in 1 .. N, NEW x \in Nat
        PROVE  (IF Byte(n) < Base THEN Byte(n) ELSE (Byte(n) - Base) + Base * x) \in Nat
    <3> DEFINE b == Byte(n)
               y == Base * x
    <3>1. b \in Nat /\ y \in Nat /\ Base \in Nat
      BY <1>2, WireNumbers
    <3> HIDE DEF b, y
    <3>2. (IF b < Base THEN b ELSE (b - Base) + y) \in Nat
      BY <3>1
    <3> QED
      BY <3>2 DEF b, y
  <2> HIDE DEF N, Byte
  <2> QED
    BY <2>1
<1>4. PICK g : Iterates(N, Nat, 0, f, g)
  <2> HIDE DEF f, N
  <2> QED
    BY <1>1, <1>3, IterationExists
<1>5. g \in [0 .. N -> Nat] /\ g[0] = 0 /\ \A n \in 1 .. N : g[n] = f[n][g[n - 1]]
  BY <1>4 DEF Iterates
<1> DEFINE h == [p \in 1 .. N + 1 |-> g[N + 1 - p]]
<1>6. ASSUME NEW p \in 1 .. N + 1
      PROVE  h[p] = Value(p, h)
  <2>1. CASE p > N
    <3>1. N + 1 - p = 0
      BY <1>1, <2>1
    <3>2. h[p] = 0
      BY <1>5, <3>1
    <3> QED
      BY <2>1, <3>2
  <2>2. CASE ~ (p > N)
    <3>1. /\ N + 1 - p \in 1 .. N /\ (N + 1 - p) - 1 = N + 1 - (p + 1)
          /\ N + 1 - (N + 1 - p) = p /\ (N + 1 - p) - 1 \in 0 .. N /\ p + 1 \in 1 .. N + 1
      BY <1>1, <2>2
    <3>2. h[p] = g[N + 1 - p] /\ h[p + 1] = g[(N + 1 - p) - 1] /\ g[(N + 1 - p) - 1] \in Nat
      BY <1>5, <3>1
    <3>3. Byte(N + 1 - p) = buf[p]
      BY <3>1
    <3>4. g[N + 1 - p] = IF buf[p] < Base THEN buf[p] ELSE (buf[p] - Base) + Base * g[(N + 1 - p) - 1]
      <4>1. g[N + 1 - p] = f[N + 1 - p][g[(N + 1 - p) - 1]]
        BY <1>5, <3>1
      <4> HIDE DEF Byte, h, N
      <4> QED
        BY <3>1, <3>2, <3>3, <4>1
    <3> HIDE DEF h
    <3> QED
      BY <2>2, <3>2, <3>4
  <2> QED
    BY <2>1, <2>2
<1>7. h = [p \in 1 .. N + 1 |-> h[p]]
  OBVIOUS
<1> HIDE DEF h, Value
<1>8. Gives(h)
  BY <1>6, <1>7
<1>9. Gives(v)
  <2> HIDE DEF Gives
  <2> QED
    BY <1>8
<1>10. VarintAt(buf) = v
  BY DEF VarintAt, Value
<1> HIDE DEF v
<1>11. v = [p \in 1 .. N + 1 |-> v[p]] /\ \A p \in 1 .. N + 1 : v[p] = Value(p, v)
  BY <1>9
<1> DEFINE T == {n \in 0 .. N : v[N + 1 - n] \in Nat}
<1>12. \A n \in 0 .. N : n \in T
  <2>1. 0 \in T
    <3>1. N + 1 - 0 \in 1 .. N + 1 /\ N + 1 - 0 > N /\ 0 \in 0 .. N
      BY <1>1
    <3>2. v[N + 1 - 0] = 0
      BY <1>11, <3>1 DEF Value
    <3> QED
      BY <3>1, <3>2
  <2>2. ASSUME NEW n \in 0 .. N - 1, n \in T
        PROVE  n + 1 \in T
    <3> DEFINE p == N + 1 - (n + 1)
    <3>1. p \in 1 .. N /\ p + 1 = N + 1 - n /\ ~ (p > N) /\ p \in 1 .. N + 1 /\ n + 1 \in 0 .. N
      BY <1>1
    <3> HIDE DEF p
    <3>2. v[p + 1] \in Nat /\ buf[p] \in Nat
      BY <1>1, <2>2, <3>1
    <3>3. v[p] = IF buf[p] < Base THEN buf[p] ELSE (buf[p] - Base) + Base * v[p + 1]
      BY <1>11, <3>1 DEF Value
    <3>4. Base * v[p + 1] \in Nat
      BY <3>2, WireNumbers
    <3>5. v[p] \in Nat
      <4>1. CASE buf[p] < Base
        BY <3>2, <3>3, <4>1
      <4>2. CASE ~ (buf[p] < Base)
        <5>1. buf[p] - Base \in Nat
          BY <3>2, <4>2, WireNumbers
        <5>2. v[p] = (buf[p] - Base) + Base * v[p + 1]
          BY <3>3, <4>2
        <5> QED
          BY <3>4, <5>1, <5>2
      <4> QED
        BY <4>1, <4>2
    <3> QED
      BY <3>1, <3>5 DEF p
  <2> HIDE DEF T
  <2> QED
    BY <1>1, <2>1, <2>2, UpToInduction
<1>13. ASSUME NEW p \in 1 .. N + 1
       PROVE  v[p] \in Nat
  <2>1. N + 1 - p \in 0 .. N /\ N + 1 - (N + 1 - p) = p
    BY <1>1
  <2> QED
    BY <1>12, <2>1
<1>14. v \in [1 .. N + 1 -> Nat]
  BY <1>11, <1>13
<1>15. \A p \in 1 .. N : p \in 1 .. N + 1 /\ ~ (p > N)
  BY <1>1
<1>16. \A p \in 1 .. N : v[p] = IF buf[p] < Base THEN buf[p] ELSE (buf[p] - Base) + Base * v[p + 1]
  BY <1>11, <1>15 DEF Value
<1> QED
  BY <1>10, <1>14, <1>16 DEF IsVarints

(* Only the last byte of a number is below Base.                           *)
IsVarint(e) ==
    /\ e \in Seq(Bytes) /\ Len(e) \in Nat \ {0} /\ e[Len(e)] < Base
    /\ \A i \in 1 .. Len(e) - 1 : e[i] >= Base

(* Bytes are numbers.                                                      *)
LEMMA BytesAreNumbers ==
    ASSUME NEW e \in Seq(Bytes)
    PROVE  e \in Seq(Nat) /\ Len(e) \in Nat
<1>1. Bytes \subseteq Nat
  BY WireNumbers
<1> QED
  BY <1>1, SeqMonotonic, LenProperties

(* A group and those after it.                                             *)
LEMMA GroupStep ==
    ASSUME NEW n \in Nat, NEW g, IsGroups(n, g), NEW k \in 0 .. n, k >= Base
    PROVE  /\ k \div Base \in 0 .. k - 1 /\ k \div Base \in 0 .. n
           /\ g[k \div Base] \in Seq(Bytes)
           /\ Len(g[k]) = 1 + Len(g[k \div Base])
           /\ g[k][1] = Base + (k % Base)
           /\ \A i \in 1 .. Len(g[k \div Base]) : g[k][1 + i] = g[k \div Base][i]
<1> DEFINE q == k \div Base
           a == <<Base + (k % Base)>>
           b == g[q]
           c == g[k]
<1>1. q \in 0 .. k - 1 /\ q \in 0 .. n /\ Base + (k % Base) \in Bytes /\ ~ (k < Base)
  BY FewerGroups, WireNumbers
<1>2. c = a \o b
  BY <1>1 DEF IsGroups
<1>3. b \in Seq(Bytes)
  <2> HIDE DEF q
  <2> QED
    BY <1>1 DEF IsGroups
<1>4. a \in Seq(Bytes) /\ Len(a) = 1 /\ a[1] = Base + (k % Base) /\ 1 \in 1 .. Len(a)
  BY <1>1
<1>5. a \in Seq(Bytes) /\ b \in Seq(Bytes) /\ c = a \o b
  BY <1>2, <1>3, <1>4
<1> HIDE DEF a, b, c
<1>6. /\ Len(c) = Len(a) + Len(b)
      /\ \A i \in 1 .. Len(a) : c[i] = a[i]
      /\ \A i \in 1 .. Len(b) : c[Len(a) + i] = b[i]
  BY <1>5, ConcatFacts
<1>7. /\ Len(c) = 1 + Len(b) /\ c[1] = Base + (k % Base)
      /\ \A i \in 1 .. Len(b) : c[1 + i] = b[i]
  BY <1>4, <1>6
<1> QED
  BY <1>1, <1>3, <1>7 DEF b, c, q

(* The groups of a number are a varint.                                    *)
LEMMA GroupsAreVarints ==
    ASSUME NEW n \in Nat, NEW g, IsGroups(n, g)
    PROVE  \A k \in 0 .. n : IsVarint(g[k])
<1> DEFINE T == {k \in 0 .. n : IsVarint(g[k])}
<1>1. ASSUME NEW k \in 0 .. n, \A j \in 0 .. k - 1 : j \in T
      PROVE  k \in T
  <2>1. CASE k < Base
    <3>1. g[k] = <<k>>
      BY <2>1 DEF IsGroups
    <3>2. k \in Bytes
      BY <2>1, WireNumbers
    <3>3. IsVarint(<<k>>)
      BY <2>1, <3>2 DEF IsVarint
    <3> QED
      BY <3>1, <3>3
  <2>2. CASE k >= Base
    <3> DEFINE b == g[k \div Base]
               c == g[k]
    <3>1. /\ b \in Seq(Bytes) /\ Len(c) = 1 + Len(b) /\ c[1] = Base + (k % Base)
          /\ \A i \in 1 .. Len(b) : c[1 + i] = b[i]
      BY <2>2, GroupStep
    <3>2. IsVarint(b)
      BY <1>1, <2>2, GroupStep
    <3>3. c \in Seq(Bytes) /\ Base + (k % Base) >= Base
      BY <2>2, FewerGroups, WireNumbers DEF IsGroups
    <3> HIDE DEF b, c
    <3>4. Len(c) \in Nat \ {0} /\ Len(b) \in 1 .. Len(b) /\ c[Len(c)] = b[Len(b)]
      BY <3>1, <3>2 DEF IsVarint
    <3>5. ASSUME NEW i \in 1 .. Len(c) - 1
          PROVE  c[i] >= Base
      <4>1. CASE i = 1
        BY <3>1, <3>3, <4>1
      <4>2. CASE i # 1
        <5>1. i - 1 \in 1 .. Len(b) - 1 /\ i - 1 \in 1 .. Len(b) /\ 1 + (i - 1) = i
          BY <3>1, <3>2, <4>2 DEF IsVarint
        <5>2. c[1 + (i - 1)] = b[i - 1]
          BY <3>1, <5>1
        <5> QED
          BY <3>2, <5>1, <5>2 DEF IsVarint
      <4> QED
        BY <4>1, <4>2
    <3>6. IsVarint(c)
      BY <3>2, <3>3, <3>4, <3>5 DEF IsVarint
    <3> QED
      BY <3>6 DEF c
  <2> QED
    BY <2>1, <2>2, WireNumbers
<1>2. \A k \in 0 .. n : k \in T
  <2> HIDE DEF T
  <2> QED
    BY <1>1, StrongInduction
<1> QED
  BY <1>2

(* Below a power of the base, no more groups than that.                    *)
LEMMA GroupsAreFew ==
    ASSUME NEW n \in Nat, NEW g, IsGroups(n, g), NEW u, IsPowers(u)
    PROVE  \A d \in 1 .. MaxDigits : \A k \in 0 .. n : k < u[d] => Len(g[k]) <= d
<1> DEFINE M == MaxDigits - 1
           T == {d \in 0 .. M : \A k \in 0 .. n : k < u[d + 1] => Len(g[k]) <= d + 1}
<1>1. M \in Nat /\ 1 \in 1 .. MaxDigits
  BY WireNumbers
<1>2. \A k \in 0 .. n : k < Base => Len(g[k]) = 1
  <2>1. ASSUME NEW k \in 0 .. n, k < Base
        PROVE  Len(g[k]) = 1
    <3>1. g[k] = <<k>>
      BY <2>1 DEF IsGroups
    <3> QED
      BY <3>1
  <2> QED
    BY <2>1
<1>3. 0 \in T
  <2>1. u[1] = Base
    BY <1>1, WireNumbers DEF IsPowers
  <2>2. 0 + 1 = 1 /\ 0 \in 0 .. M
    BY <1>1
  <2>3. ASSUME NEW k \in 0 .. n, k < u[0 + 1]
        PROVE  Len(g[k]) <= 0 + 1
    <3>1. Len(g[k]) = 1
      BY <1>2, <2>1, <2>2, <2>3
    <3> QED
      BY <3>1
  <2> HIDE DEF M
  <2> QED
    BY <2>2, <2>3
<1>4. ASSUME NEW d \in 0 .. M - 1, d \in T
      PROVE  d + 1 \in T
  <2>1. /\ d + 1 \in 0 .. M /\ (d + 1) + 1 \in 1 .. MaxDigits /\ ((d + 1) + 1) - 1 = d + 1
        /\ d + 1 \in 0 .. MaxDigits
    BY <1>1, WireNumbers
  <2>2. u[(d + 1) + 1] = Base * u[d + 1] /\ u[d + 1] \in Nat
    BY <2>1 DEF IsPowers
  <2>3. ASSUME NEW k \in 0 .. n, k < u[(d + 1) + 1]
        PROVE  Len(g[k]) <= (d + 1) + 1
    <3>1. CASE k < Base
      <4>1. Len(g[k]) = 1
        BY <1>2, <3>1
      <4>2. d \in Nat
        OBVIOUS
      <4> QED
        BY <4>1, <4>2
    <3>2. CASE k >= Base
      <4> DEFINE q == k \div Base
      <4>1. /\ q \in 0 .. n /\ Len(g[k]) = 1 + Len(g[q]) /\ g[q] \in Seq(Bytes)
        BY <3>2, GroupStep
      <4>2. q \in Nat /\ k = Base * q + (k % Base) /\ k % Base \in Nat
        BY <3>2, FewerGroups, WireNumbers
      <4> HIDE DEF q
      <4>3. q < u[d + 1]
        BY <2>2, <2>3, <4>2, WireNumbers
      <4>4. Len(g[q]) <= d + 1 /\ Len(g[q]) \in Nat
        BY <1>4, <4>1, <4>3, LenProperties
      <4> QED
        BY <4>1, <4>4
    <3> QED
      BY <3>1, <3>2, WireNumbers
  <2> QED
    BY <2>1, <2>3
<1>5. \A d \in 0 .. M : d \in T
  <2> HIDE DEF T, M
  <2> QED
    BY <1>1, <1>3, <1>4, UpToInduction
<1>6. \A d \in 1 .. MaxDigits : d - 1 \in 0 .. M /\ (d - 1) + 1 = d
  BY WireNumbers
<1> QED
  BY <1>5, <1>6

(* The groups of a number stand for it.                                    *)
LEMMA GroupsAreRead ==
    ASSUME NEW n \in Nat, NEW g, IsGroups(n, g), NEW buf \in Seq(Nat), NEW w, IsVarints(buf, w)
    PROVE  \A k \in 0 .. n : \A pos \in Nat \ {0} :
              Holds(buf, pos, g[k]) /\ pos + Len(g[k]) - 1 <= Len(buf) => w[pos] = k
<1> DEFINE T == {k \in 0 .. n : \A pos \in Nat \ {0} :
                    Holds(buf, pos, g[k]) /\ pos + Len(g[k]) - 1 <= Len(buf) => w[pos] = k}
<1>0. Len(buf) \in Nat
  BY LenProperties
<1>1. ASSUME NEW k \in 0 .. n, \A j \in 0 .. k - 1 : j \in T
      PROVE  k \in T
  <2> SUFFICES ASSUME NEW pos \in Nat \ {0}, Holds(buf, pos, g[k]),
                      pos + Len(g[k]) - 1 <= Len(buf)
               PROVE  w[pos] = k
    OBVIOUS
  <2>0. IsVarint(g[k])
    BY GroupsAreVarints
  <2>1. pos \in 1 .. Len(buf) /\ buf[pos] = g[k][1]
    <3>1. Len(g[k]) \in Nat \ {0}
      BY <2>0 DEF IsVarint
    <3>2. 1 \in 1 .. Len(g[k]) /\ pos + 1 - 1 = pos /\ pos \in 1 .. Len(buf)
      BY <1>0, <3>1
    <3> QED
      BY <3>2 DEF Holds
  <2>2. CASE k < Base
    <3>1. g[k] = <<k>>
      BY <2>2 DEF IsGroups
    <3> QED
      BY <2>1, <2>2, <3>1 DEF IsVarints
  <2>3. CASE k >= Base
    <3> DEFINE q == k \div Base
               b == g[q]
    <3>1. /\ q \in 0 .. k - 1 /\ b \in Seq(Bytes) /\ Len(g[k]) = 1 + Len(b)
          /\ g[k][1] = Base + (k % Base)
          /\ \A i \in 1 .. Len(b) : g[k][1 + i] = b[i]
      BY <2>3, GroupStep
    <3>2. k = Base * q + (k % Base) /\ k % Base \in Nat
      BY <2>3, FewerGroups, WireNumbers
    <3>3. Len(b) \in Nat /\ b \in Seq(Nat) /\ g[k] \in Seq(Nat)
      BY <2>0, <3>1, BytesAreNumbers DEF IsVarint
    <3> HIDE DEF q
    <3>4. Holds(buf, pos + 1, b)
      <4> HIDE DEF b
      <4>1. 1 + Len(b) <= Len(g[k]) /\ 1 \in Nat
        BY <3>1, <3>3
      <4> QED
        BY <3>1, <3>3, <4>1, HoldsPart
    <3>5. pos + 1 \in Nat \ {0} /\ (pos + 1) + Len(b) - 1 <= Len(buf)
      <4>1. Len(g[k]) = 1 + Len(b) /\ Len(b) \in Nat
        BY <3>1, <3>3
      <4> HIDE DEF b
      <4> QED
        BY <1>0, <4>1
    <3>6. w[pos + 1] = q
      BY <1>1, <3>1, <3>4, <3>5
    <3>7. ~ (buf[pos] < Base)
      BY <2>1, <3>1, <3>2, WireNumbers
    <3>8. w[pos] = (buf[pos] - Base) + Base * w[pos + 1]
      BY <2>1, <3>7 DEF IsVarints
    <3> DEFINE r == k % Base
    <3>9. w[pos] = ((Base + r) - Base) + Base * q /\ k = Base * q + r /\ r \in Nat /\ q \in Nat
      BY <2>1, <3>1, <3>2, <3>6, <3>8
    <3> HIDE DEF r
    <3> QED
      BY <3>9, WireNumbers
  <2> QED
    BY <2>2, <2>3, WireNumbers
<1>2. \A k \in 0 .. n : k \in T
  <2> HIDE DEF T
  <2> QED
    BY <1>1, StrongInduction
<1> QED
  BY <1>2

(* A number as a varint.                                                   *)
LEMMA EncodeVarintFacts ==
    ASSUME NEW n \in Nat
    PROVE  /\ IsVarint(EncodeVarint(n))
           /\ n < Word => Len(EncodeVarint(n)) <= MaxDigits
           /\ \A buf \in Seq(Nat), pos \in Nat \ {0} :
                 /\ Holds(buf, pos, EncodeVarint(n))
                 /\ pos + Len(EncodeVarint(n)) - 1 <= Len(buf)
                 => VarintAt(buf)[pos] = n
<1>1. PICK g : IsGroups(n, g) /\ EncodeVarint(n) = g[n]
  BY GroupsFacts
<1>2. PICK u : IsPowers(u) /\ u[MaxDigits] = Capacity
  BY PowersFacts
<1>3. n \in 0 .. n
  OBVIOUS
<1>4. IsVarint(EncodeVarint(n))
  BY <1>1, <1>3, GroupsAreVarints
<1>5. ASSUME n < Word
      PROVE  Len(EncodeVarint(n)) <= MaxDigits
  <2>1. MaxDigits \in 1 .. MaxDigits /\ u[MaxDigits] \in Nat
    BY <1>2, WireNumbers DEF IsPowers
  <2>2. n < u[MaxDigits]
    BY <1>2, <1>5, <2>1, WireNumbers
  <2> QED
    BY <1>1, <1>2, <1>3, <2>1, <2>2, GroupsAreFew
<1>6. ASSUME NEW buf \in Seq(Nat), NEW pos \in Nat \ {0},
             Holds(buf, pos, EncodeVarint(n)),
             pos + Len(EncodeVarint(n)) - 1 <= Len(buf)
      PROVE  VarintAt(buf)[pos] = n
  <2>1. IsVarints(buf, VarintAt(buf))
    BY VarintAtFacts
  <2> QED
    BY <1>1, <1>3, <1>6, <2>1, GroupsAreRead
<1> QED
  BY <1>4, <1>5, <1>6

(* Where the search for the last byte of a varint stops.                   *)
LEMMA SearchEnds ==
    ASSUME NEW pos \in Nat \ {0}, NEW l \in Nat
    PROVE  \A p \in Nat : p <= Min({pos + MaxDigits - 1, l}) <=> p <= pos + MaxDigits - 1 /\ p <= l
<1> DEFINE x == pos + MaxDigits - 1
<1>1. x \in Nat
  BY WireNumbers
<1> HIDE DEF x
<1>2. Min({x, l}) = IF x <= l THEN x ELSE l
  BY <1>1, MinOfTwo
<1>3. \A p \in Nat : p <= Min({x, l}) <=> p <= x /\ p <= l
  BY <1>1, <1>2
<1> QED
  BY <1>3 DEF x

(* A number that is there is read,                                         *)
LEMMA VarintIsRead ==
    ASSUME NEW buf \in Seq(Nat), NEW n \in Nat, n < Word, NEW pos \in Nat \ {0},
           Holds(buf, pos, EncodeVarint(n)),
           pos + Len(EncodeVarint(n)) - 1 <= Len(buf)
    PROVE  ReadVarint(buf, pos) = [value |-> n, next |-> pos + Len(EncodeVarint(n))]
<1> DEFINE e == EncodeVarint(n)
           l == Len(e)
           N == Len(buf)
           last == Min({pos + MaxDigits - 1, N})
           ends == {p \in pos .. last : buf[p] < Base}
<1>1. IsVarint(e) /\ l \in Nat \ {0} /\ l <= MaxDigits /\ N \in Nat
  BY EncodeVarintFacts, LenProperties DEF IsVarint
<1>2. \A i \in 1 .. l : pos + i - 1 <= N => buf[pos + i - 1] = e[i]
  BY DEF Holds
<1>3. e[l] < Base /\ \A i \in 1 .. l - 1 : e[i] >= Base
  BY <1>1 DEF IsVarint
<1>4. VarintAt(buf)[pos] = n
  BY EncodeVarintFacts
<1>5. \A p \in Nat : p <= last <=> p <= pos + MaxDigits - 1 /\ p <= N
  BY <1>1, SearchEnds
<1>6. pos + l - 1 <= N
  OBVIOUS
<1>7. last \in Nat
  <2>1. pos + MaxDigits - 1 \in Nat
    BY WireNumbers
  <2> QED
    BY <1>1, <2>1, MinOfTwo
<1> HIDE DEF e, l, N, last
<1>8. pos + l - 1 \in ends
  <2>1. l \in 1 .. l /\ pos + l - 1 \in Nat
    BY <1>1
  <2>2. pos + l - 1 <= last
    BY <1>1, <1>5, <1>6, <2>1, WireNumbers
  <2>3. buf[pos + l - 1] < Base
    BY <1>2, <1>3, <1>6, <2>1
  <2>4. pos + l - 1 \in pos .. last
    BY <1>1, <1>7, <2>1, <2>2
  <2> QED
    BY <2>3, <2>4
<1>9. ASSUME NEW p \in ends
      PROVE  pos + l - 1 <= p
  <2> SUFFICES ASSUME p < pos + l - 1
               PROVE  FALSE
    BY <1>1, <1>7
  <2>1. p \in pos .. last /\ buf[p] < Base /\ p \in Nat
    BY <1>7
  <2>2. p - pos + 1 \in 1 .. l - 1 /\ p - pos + 1 \in 1 .. l /\ pos + (p - pos + 1) - 1 = p /\ p <= N
    BY <1>1, <1>6, <2>1
  <2>3. buf[p] = e[p - pos + 1] /\ e[p - pos + 1] >= Base
    BY <1>2, <1>3, <2>2
  <2>4. e[p - pos + 1] \in Bytes
    BY <1>1, <2>2, ElementOfSeq DEF IsVarint, l
  <2> DEFINE x == e[p - pos + 1]
  <2>5. x \in Bytes /\ x < Base /\ x >= Base
    BY <2>1, <2>3, <2>4
  <2> HIDE DEF x
  <2> QED
    BY <2>5, WireNumbers
<1>10. Min(ends) = pos + l - 1 /\ ends # {}
  <2>1. ends \in SUBSET Nat /\ ends # {}
    BY <1>7, <1>8
  <2> HIDE DEF ends
  <2>2. Min(ends) \in ends /\ Min(ends) \in Nat /\ \A x \in ends : Min(ends) <= x
    BY <2>1, MinIsLeast
  <2>3. Min(ends) <= pos + l - 1 /\ pos + l - 1 <= Min(ends)
    BY <1>8, <1>9, <2>2
  <2> QED
    BY <1>1, <2>1, <2>2, <2>3
<1>11. ReadVarint(buf, pos) = IF ends = {} THEN Error
                              ELSE [value |-> VarintAt(buf)[pos], next |-> Min(ends) + 1]
  BY DEF ReadVarint, last, N
<1>12. (pos + l - 1) + 1 = pos + l
  BY <1>1
<1> HIDE DEF ends
<1>13. ReadVarint(buf, pos) = [value |-> n, next |-> pos + l]
  BY <1>4, <1>10, <1>11, <1>12
<1> QED
  BY <1>13 DEF l, e

(* and of one that is cut none is made.                                    *)
LEMMA VarintIsCut ==
    ASSUME NEW buf \in Seq(Nat), NEW n \in Nat, n < Word, NEW pos \in Nat \ {0},
           Holds(buf, pos, EncodeVarint(n)),
           pos + Len(EncodeVarint(n)) - 1 > Len(buf)
    PROVE  ReadVarint(buf, pos) = Error
<1> DEFINE e == EncodeVarint(n)
           l == Len(e)
           N == Len(buf)
           last == Min({pos + MaxDigits - 1, N})
           ends == {p \in pos .. last : buf[p] < Base}
<1>1. IsVarint(e) /\ l \in Nat \ {0} /\ N \in Nat
  BY EncodeVarintFacts, LenProperties DEF IsVarint
<1>2. \A i \in 1 .. l : pos + i - 1 <= N => buf[pos + i - 1] = e[i]
  BY DEF Holds
<1>3. \A i \in 1 .. l - 1 : e[i] >= Base
  BY <1>1 DEF IsVarint
<1>5. \A p \in Nat : p <= last <=> p <= pos + MaxDigits - 1 /\ p <= N
  BY <1>1, SearchEnds
<1>6. pos + l - 1 > N
  OBVIOUS
<1>7. last \in Nat
  <2>1. pos + MaxDigits - 1 \in Nat
    BY WireNumbers
  <2> QED
    BY <1>1, <2>1, MinOfTwo
<1>8. ReadVarint(buf, pos) = IF ends = {} THEN Error
                             ELSE [value |-> VarintAt(buf)[pos], next |-> Min(ends) + 1]
  BY DEF ReadVarint
<1> HIDE DEF e, l, N, last
<1>9. ASSUME NEW p \in ends
      PROVE  FALSE
  <2>1. p \in pos .. last /\ buf[p] < Base /\ p \in Nat
    BY <1>7
  <2>2. p <= N
    BY <1>5, <1>7, <2>1
  <2>3. p - pos + 1 \in 1 .. l - 1 /\ p - pos + 1 \in 1 .. l /\ pos + (p - pos + 1) - 1 = p
    BY <1>1, <1>6, <2>1, <2>2
  <2>4. buf[p] = e[p - pos + 1] /\ e[p - pos + 1] >= Base
    BY <1>2, <1>3, <2>2, <2>3
  <2>5. e[p - pos + 1] \in Bytes
    BY <1>1, <2>3, ElementOfSeq DEF IsVarint, l
  <2> DEFINE x == e[p - pos + 1]
  <2>6. x \in Bytes /\ x < Base /\ x >= Base
    BY <2>1, <2>4, <2>5
  <2> HIDE DEF x
  <2> QED
    BY <2>6, WireNumbers
<1>10. ends = {}
  <2> HIDE DEF ends
  <2> QED
    BY <1>9
<1> QED
  BY <1>8, <1>10

(* What a field is sent as: its key, then its value.                       *)
Key(field) == 8 * field.no + field.wire

(* From the key come the number and the wire type.                         *)
LEMMA KeyFacts ==
    ASSUME NEW field, Sendable(field)
    PROVE  /\ Key(field) \in Nat /\ Key(field) < Word
           /\ Key(field) \div 8 = field.no /\ Key(field) % 8 = field.wire
           /\ field.no \in Nat \ {0} /\ field.wire \in {0, 1, 2, 5}
           /\ field = [no |-> field.no, wire |-> field.wire, value |-> field.value]
           /\ field.value \in Values
<1> DEFINE n == field.no
           w == field.wire
<1>1. n \in Nat \ {0} /\ w \in {0, 1, 2, 5} /\ 8 * n + 7 < Word
  BY DEF Sendable
<1>2. field = [no |-> n, wire |-> w, value |-> field.value] /\ field.value \in Values
  <2>1. field.value \in Nat \/ field.value \in Seq(Bytes)
    BY WireNumbers DEF Sendable
  <2>2. field.value \in Seq(Bytes) => field.value \in Seq(Nat)
    BY BytesAreNumbers
  <2>3. field = [no |-> n, wire |-> w, value |-> field.value]
    BY DEF Sendable
  <2> QED
    BY <2>1, <2>2, <2>3 DEF Values
<1>3. Key(field) = 8 * n + w
  BY DEF Key
<1> HIDE DEF n, w
<1>4. 8 * n + w \in Nat /\ 8 * n + w < Word /\ w \in Nat /\ w < 8
  BY <1>1, WireNumbers
<1>5. (8 * n + w) \div 8 = n /\ (8 * n + w) % 8 = w
  BY <1>1, <1>4, DivisionIsUnique
<1> QED
  BY <1>1, <1>2, <1>3, <1>4, <1>5 DEF n, w

(* By its wire type, what a value is and what it is sent as.               *)
LEMMA ValueFacts ==
    ASSUME NEW field, Sendable(field)
    PROVE  /\ EncodeValue(field) \in Seq(Bytes)
           /\ field.wire = 0 => /\ field.value \in Nat /\ field.value < Word
                                /\ EncodeValue(field) = EncodeVarint(field.value)
           /\ field.wire = 1 => /\ field.value \in Seq(Bytes) /\ Len(field.value) = 8
                                /\ EncodeValue(field) = field.value
           /\ field.wire = 2 => /\ field.value \in Seq(Bytes) /\ Len(field.value) < Word
                                /\ Len(field.value) \in Nat
                                /\ EncodeValue(field) = EncodeVarint(Len(field.value)) \o field.value
           /\ field.wire = 5 => /\ field.value \in Seq(Bytes) /\ Len(field.value) = 4
                                /\ EncodeValue(field) = field.value
<1>1. CASE field.wire = 0
  <2>1. field.value \in Nat /\ field.value < Word
    BY <1>1, WireNumbers DEF Sendable
  <2>2. EncodeValue(field) = EncodeVarint(field.value)
    BY <1>1 DEF EncodeValue
  <2>3. EncodeVarint(field.value) \in Seq(Bytes)
    BY <2>1, EncodeVarintFacts DEF IsVarint
  <2> QED
    BY <1>1, <2>1, <2>2, <2>3
<1>2. CASE field.wire \in {1, 5}
  <2>1. /\ field.value \in Seq(Bytes) /\ field.wire # 0 /\ field.wire # 2
        /\ field.wire = 1 => Len(field.value) = 8
        /\ field.wire = 5 => Len(field.value) = 4
    BY <1>2 DEF Sendable
  <2>2. EncodeValue(field) = field.value
    <3>1. CASE field.wire = 1
      BY <3>1 DEF EncodeValue
    <3>2. CASE field.wire = 5
      BY <3>2 DEF EncodeValue
    <3> QED
      BY <1>2, <3>1, <3>2
  <2> QED
    BY <2>1, <2>2
<1>3. CASE field.wire = 2
  <2>1. field.value \in Seq(Bytes) /\ Len(field.value) < Word
    BY <1>3 DEF Sendable
  <2>2. Len(field.value) \in Nat
    BY <2>1, LenProperties
  <2>3. EncodeValue(field) = EncodeVarint(Len(field.value)) \o field.value
    <3>1. field.wire = 2 /\ field.wire # 0
      BY <1>3
    <3> QED
      BY <3>1, Zenon DEF EncodeValue
  <2>4. EncodeVarint(Len(field.value)) \in Seq(Bytes)
    BY <2>2, EncodeVarintFacts DEF IsVarint
  <2>5. EncodeValue(field) \in Seq(Bytes)
    BY <2>1, <2>3, <2>4, ConcatProperties
  <2> QED
    BY <1>3, <2>1, <2>2, <2>3, <2>5
<1> QED
  BY <1>1, <1>2, <1>3, KeyFacts

(* The two parts of what stands in a buffer.                               *)
LEMMA PartsOfConcat ==
    ASSUME NEW a \in Seq(Bytes), NEW b \in Seq(Bytes), NEW c, c = a \o b,
           NEW buf \in Seq(Nat), NEW pos \in Nat \ {0}, Holds(buf, pos, c)
    PROVE  /\ c \in Seq(Bytes) /\ Len(c) = Len(a) + Len(b)
           /\ Len(a) \in Nat /\ Len(b) \in Nat
           /\ Holds(buf, pos, a) /\ Holds(buf, pos + Len(a), b)
<1>1. /\ c \in Seq(Bytes) /\ Len(c) = Len(a) + Len(b)
      /\ \A i \in 1 .. Len(a) : c[i] = a[i]
      /\ \A i \in 1 .. Len(b) : c[Len(a) + i] = b[i]
  BY ConcatFacts
<1>2. Len(a) \in Nat /\ Len(b) \in Nat /\ a \in Seq(Nat) /\ b \in Seq(Nat) /\ c \in Seq(Nat)
  BY <1>1, BytesAreNumbers
<1>3. Holds(buf, pos, a)
  <2> SUFFICES ASSUME NEW i \in 1 .. Len(a), pos + i - 1 <= Len(buf)
               PROVE  buf[pos + i - 1] = a[i]
    BY DEF Holds
  <2>1. i \in 1 .. Len(c)
    BY <1>1, <1>2
  <2>2. buf[pos + i - 1] = c[i]
    BY <2>1 DEF Holds
  <2> QED
    BY <1>1, <2>2
<1>4. Holds(buf, pos + Len(a), b)
  <2>1. Len(a) + Len(b) <= Len(c)
    BY <1>1, <1>2
  <2> QED
    BY <1>1, <1>2, <2>1, HoldsPart
<1> QED
  BY <1>1, <1>2, <1>3, <1>4

(* Bytes that are there are taken.                                         *)
LEMMA SliceIsRead ==
    ASSUME NEW buf \in Seq(Nat), NEW v \in Seq(Nat), NEW pos \in Nat \ {0},
           Holds(buf, pos, v), pos + Len(v) - 1 <= Len(buf), NEW reader
    PROVE  Slice(reader, buf, pos, Len(v)) = [value |-> v, next |-> pos + Len(v)]
<1> DEFINE l == Len(v)
           N == Len(buf)
           e == pos + l - 1
<1>1. l \in Nat /\ N \in Nat /\ e <= N
  BY LenProperties
<1>2. \A i \in 1 .. l : pos + i - 1 <= N => buf[pos + i - 1] = v[i]
  BY DEF Holds
<1>3. \A i \in 1 .. N : buf[i] \in Nat
  BY ElementOfSeq
<1>4. v \in Seq(Nat) /\ \A i \in 1 .. l : v[i] \in Nat
  BY ElementOfSeq
<1>5. e \in Nat /\ Min({e, N}) = e
  <2>1. e \in Nat
    <3> HIDE DEF l
    <3> QED
      BY <1>1
  <2> HIDE DEF e, N
  <2> QED
    BY <1>1, <2>1, MinOfTwo
<1>6. Slice(reader, buf, pos, l) = [value |-> SubSeq(buf, pos, Min({e, N})), next |-> pos + l]
  <2>1. ~ (e > N)
    <3> HIDE DEF e, N
    <3> QED
      BY <1>1, <1>5
  <2> QED
    BY <2>1 DEF Slice, Taken
<1> HIDE DEF l, N
<1> DEFINE s == SubSeq(buf, pos, e)
<1>7. /\ s \in Seq(Nat) /\ Len(s) = l /\ \A i \in 1 .. l : s[i] = v[i]
  <2>1. \A i \in pos .. e : i \in 1 .. N
    BY <1>1
  <2>2. \A i \in pos .. e : buf[i] \in Nat
    BY <1>3, <2>1
  <2>3. /\ s \in Seq(Nat) /\ Len(s) = IF pos <= e THEN e - pos + 1 ELSE 0
        /\ \A i \in 1 .. e - pos + 1 : s[i] = buf[pos + i - 1]
    <3> HIDE DEF e
    <3> QED
      BY <1>5, <2>2, SubSeqProperties
  <2>4. e - pos + 1 = l /\ (pos <= e <=> l >= 1)
    BY <1>1
  <2>5. Len(s) = l
    <3> HIDE DEF e, s
    <3> QED
      BY <1>1, <2>3, <2>4
  <2>6. ASSUME NEW i \in 1 .. l
        PROVE  s[i] = v[i]
    <3>1. pos + i - 1 <= N /\ i \in 1 .. e - pos + 1
      BY <1>1, <2>4
    <3> HIDE DEF s, e
    <3> QED
      BY <1>2, <2>3, <3>1
  <2> QED
    BY <2>3, <2>5, <2>6
<1>8. s = v
  <2> HIDE DEF s
  <2>1. Len(s) = Len(v) /\ \A i \in 1 .. Len(s) : s[i] = v[i]
    BY <1>7 DEF l
  <2> QED
    BY <1>4, <1>7, <2>1, SeqEqual
<1> QED
  BY <1>5, <1>6, <1>8 DEF l

(* Numbers and bytes that were read are not errors.                        *)
LEMMA ReadIsNoError ==
    ASSUME NEW v \in Values, NEW next \in Nat
    PROVE  /\ [value |-> v, next |-> next] # Error
           /\ \A no, wire \in Nat : [no |-> no, wire |-> wire, value |-> v, next |-> next] # Error
  BY WireParameters

(* The value of a field,                                                   *)
LEMMA BodyIsRead ==
    ASSUME NEW field, Sendable(field), NEW buf \in Seq(Nat), NEW pos \in Nat \ {0},
           Holds(buf, pos, EncodeValue(field)),
           pos + Len(EncodeValue(field)) - 1 <= Len(buf), NEW reader
    PROVE  Body(reader, buf, field.wire, pos)
             = [value |-> field.value, next |-> pos + Len(EncodeValue(field))]
<1> DEFINE V == EncodeValue(field)
           v == field.value
<1>0. Len(buf) \in Nat
  BY LenProperties
<1>1. CASE field.wire = 0
  <2>1. Body(reader, buf, field.wire, pos) = ReadVarint(buf, pos)
    BY <1>1 DEF Body
  <2>2. v \in Nat /\ v < Word /\ V = EncodeVarint(v)
    BY <1>1, ValueFacts
  <2> QED
    BY <2>1, <2>2, VarintIsRead
<1>2. CASE field.wire \in {1, 5}
  <2>1. v \in Seq(Bytes) /\ V = v
    BY <1>2, ValueFacts
  <2>2. Body(reader, buf, field.wire, pos) = Slice(reader, buf, pos, Len(v))
    <3>1. (field.wire = 1 => Len(v) = 8) /\ (field.wire = 5 => Len(v) = 4)
      BY ValueFacts
    <3> HIDE DEF v
    <3>2. CASE field.wire = 1
      <4>1. Body(reader, buf, 1, pos) = Slice(reader, buf, pos, 8) /\ Len(v) = 8
        BY <3>1, <3>2 DEF Body
      <4> QED
        BY <3>2, <4>1
    <3>3. CASE field.wire = 5
      <4>1. Body(reader, buf, 5, pos) = Slice(reader, buf, pos, 4) /\ Len(v) = 4
        BY <3>1, <3>3 DEF Body
      <4> QED
        BY <3>3, <4>1
    <3> QED
      BY <1>2, <3>2, <3>3
  <2>3. v \in Seq(Nat)
    BY <2>1, BytesAreNumbers
  <2>4. Holds(buf, pos, v) /\ pos + Len(v) - 1 <= Len(buf) /\ Len(EncodeValue(field)) = Len(v)
    BY <2>1
  <2> HIDE DEF V, v
  <2>5. Slice(reader, buf, pos, Len(v)) = [value |-> v, next |-> pos + Len(v)]
    BY <2>3, <2>4, SliceIsRead
  <2> QED
    BY <2>2, <2>4, <2>5 DEF v
<1>3. CASE field.wire = 2
  <2> DEFINE L == EncodeVarint(Len(v))
  <2>1. Body(reader, buf, field.wire, pos) = LengthDelimited(reader, buf, ReadVarint(buf, pos))
    BY <1>3 DEF Body
  <2>2. v \in Seq(Bytes) /\ Len(v) \in Nat /\ Len(v) < Word /\ V = L \o v
    BY <1>3, ValueFacts
  <2>3. L \in Seq(Bytes) /\ v \in Seq(Nat)
    BY <2>2, EncodeVarintFacts, BytesAreNumbers DEF IsVarint
  <2>4. /\ Len(V) = Len(L) + Len(v) /\ Len(L) \in Nat
        /\ Holds(buf, pos, L) /\ Holds(buf, pos + Len(L), v)
    <3> HIDE DEF V, L, v
    <3>1. Holds(buf, pos, V) /\ V = L \o v /\ L \in Seq(Bytes) /\ v \in Seq(Bytes)
      BY <2>2, <2>3 DEF V
    <3> QED
      BY <3>1, PartsOfConcat
  <2>5. pos + Len(V) - 1 <= Len(buf)
    OBVIOUS
  <2>6. /\ pos + Len(L) - 1 <= Len(buf) /\ (pos + Len(L)) + Len(v) - 1 <= Len(buf)
        /\ pos + Len(L) \in Nat \ {0} /\ (pos + Len(L)) + Len(v) = pos + Len(V)
    <3> HIDE DEF V, L, v
    <3> QED
      BY <1>0, <2>2, <2>4, <2>5
  <2>7. ReadVarint(buf, pos) = [value |-> Len(v), next |-> pos + Len(L)]
    BY <2>2, <2>4, <2>6, VarintIsRead
  <2>8. [value |-> Len(v), next |-> pos + Len(L)] # Error
    BY <2>2, <2>6, ReadIsNoError DEF Values
  <2> HIDE DEF V, L, v
  <2>9. Slice(reader, buf, pos + Len(L), Len(v)) = [value |-> v, next |-> (pos + Len(L)) + Len(v)]
    BY <2>3, <2>4, <2>6, SliceIsRead
  <2>10. LengthDelimited(reader, buf, ReadVarint(buf, pos)) = Slice(reader, buf, pos + Len(L), Len(v))
    BY <2>7, <2>8 DEF LengthDelimited
  <2> QED
    BY <2>1, <2>6, <2>9, <2>10 DEF V, v
<1> QED
  BY <1>1, <1>2, <1>3, KeyFacts

(* and what a reader that checks lengths makes of a cut one.               *)
LEMMA BodyIsCut ==
    ASSUME NEW field, Sendable(field), NEW buf \in Seq(Nat), NEW pos \in Nat \ {0},
           Holds(buf, pos, EncodeValue(field)),
           pos + Len(EncodeValue(field)) - 1 > Len(buf), NEW reader, reader # "probe"
    PROVE  Body(reader, buf, field.wire, pos) = Error
<1> DEFINE V == EncodeValue(field)
           v == field.value
<1>0. Len(buf) \in Nat
  BY LenProperties
<1>1. CASE field.wire = 0
  <2>1. Body(reader, buf, field.wire, pos) = ReadVarint(buf, pos)
    BY <1>1 DEF Body
  <2>2. v \in Nat /\ v < Word /\ V = EncodeVarint(v)
    BY <1>1, ValueFacts
  <2> QED
    BY <2>1, <2>2, VarintIsCut
<1>2. CASE field.wire \in {1, 5}
  <2>1. v \in Seq(Bytes) /\ V = v
    BY <1>2, ValueFacts
  <2>2. Body(reader, buf, field.wire, pos) = Slice(reader, buf, pos, Len(v))
    <3>1. (field.wire = 1 => Len(v) = 8) /\ (field.wire = 5 => Len(v) = 4)
      BY ValueFacts
    <3> HIDE DEF v
    <3>2. CASE field.wire = 1
      <4>1. Body(reader, buf, 1, pos) = Slice(reader, buf, pos, 8) /\ Len(v) = 8
        BY <3>1, <3>2 DEF Body
      <4> QED
        BY <3>2, <4>1
    <3>3. CASE field.wire = 5
      <4>1. Body(reader, buf, 5, pos) = Slice(reader, buf, pos, 4) /\ Len(v) = 4
        BY <3>1, <3>3 DEF Body
      <4> QED
        BY <3>3, <4>1
    <3> QED
      BY <1>2, <3>2, <3>3
  <2>3. pos + Len(v) - 1 > Len(buf)
    BY <2>1
  <2> QED
    BY <2>2, <2>3 DEF Slice
<1>3. CASE field.wire = 2
  <2> DEFINE L == EncodeVarint(Len(v))
  <2>1. Body(reader, buf, field.wire, pos) = LengthDelimited(reader, buf, ReadVarint(buf, pos))
    BY <1>3 DEF Body
  <2>2. v \in Seq(Bytes) /\ Len(v) \in Nat /\ Len(v) < Word /\ V = L \o v
    BY <1>3, ValueFacts
  <2>3. L \in Seq(Bytes)
    BY <2>2, EncodeVarintFacts DEF IsVarint
  <2>4. /\ Len(V) = Len(L) + Len(v) /\ Len(L) \in Nat
        /\ Holds(buf, pos, L)
    <3> HIDE DEF V, L, v
    <3>1. Holds(buf, pos, V) /\ V = L \o v /\ L \in Seq(Bytes) /\ v \in Seq(Bytes)
      BY <2>2, <2>3 DEF V
    <3> QED
      BY <3>1, PartsOfConcat
  <2>5. CASE pos + Len(L) - 1 > Len(buf)
    <3>1. ReadVarint(buf, pos) = Error
      BY <2>2, <2>4, <2>5, VarintIsCut
    <3> QED
      BY <2>1, <3>1 DEF LengthDelimited
  <2>6. CASE ~ (pos + Len(L) - 1 > Len(buf))
    <3>1. pos + Len(L) - 1 <= Len(buf) /\ pos + Len(L) \in Nat
      <4> HIDE DEF L
      <4> QED
        BY <1>0, <2>4, <2>6
    <3>2. ReadVarint(buf, pos) = [value |-> Len(v), next |-> pos + Len(L)]
      BY <2>2, <2>4, <3>1, VarintIsRead
    <3>3. [value |-> Len(v), next |-> pos + Len(L)] # Error
      BY <2>2, <3>1, ReadIsNoError DEF Values
    <3>4. pos + Len(V) - 1 > Len(buf)
      OBVIOUS
    <3> HIDE DEF V, L, v
    <3>5. (pos + Len(L)) + Len(v) - 1 > Len(buf)
      BY <1>0, <2>2, <2>4, <3>4
    <3> QED
      BY <2>1, <3>2, <3>3, <3>5 DEF LengthDelimited, Slice
  <2> QED
    BY <2>5, <2>6
<1> QED
  BY <1>1, <1>2, <1>3, KeyFacts

(* A field that is there.                                                  *)
LEMMA FieldFacts ==
    ASSUME NEW field, Sendable(field)
    PROVE  /\ EncodeField(field) \in Seq(Bytes) /\ EncodeField(field) \in Seq(Nat)
           /\ Len(EncodeField(field)) \in Nat \ {0}
<1> DEFINE a == EncodeVarint(Key(field))
           b == EncodeValue(field)
           c == EncodeField(field)
<1>1. a \in Seq(Bytes) /\ Len(a) \in Nat \ {0} /\ b \in Seq(Bytes)
  BY KeyFacts, ValueFacts, EncodeVarintFacts DEF IsVarint
<1>2. c = a \o b
  BY DEF EncodeField, Key
<1> HIDE DEF a, b, c
<1>3. c \in Seq(Bytes) /\ Len(c) = Len(a) + Len(b) /\ Len(b) \in Nat
  BY <1>1, <1>2, ConcatProperties, LenProperties
<1>4. Len(c) \in Nat \ {0} /\ c \in Seq(Nat)
  BY <1>1, <1>3, BytesAreNumbers
<1> QED
  BY <1>3, <1>4 DEF c

(* It is read as it was sent, and the next one begins after it,            *)
LEMMA FieldIsRead ==
    ASSUME NEW field, Sendable(field), NEW buf \in Seq(Nat), NEW pos \in Nat \ {0},
           Holds(buf, pos, EncodeField(field)),
           pos + Len(EncodeField(field)) - 1 <= Len(buf), NEW reader
    PROVE  ReadField(reader, buf, ReadVarint(buf, pos))
             = [no |-> field.no, wire |-> field.wire, value |-> field.value,
                next |-> pos + Len(EncodeField(field))]
<1> DEFINE key == Key(field)
           a == EncodeVarint(key)
           b == EncodeValue(field)
           c == EncodeField(field)
           p == pos + Len(a)
<1>1. a \in Seq(Bytes) /\ Len(a) \in Nat \ {0} /\ b \in Seq(Bytes) /\ c = a \o b /\ Holds(buf, pos, c)
  BY KeyFacts, ValueFacts, EncodeVarintFacts DEF IsVarint, EncodeField, Key
<1>2. /\ Len(c) = Len(a) + Len(b) /\ Len(b) \in Nat
      /\ Holds(buf, pos, a) /\ Holds(buf, pos + Len(a), b)
  <2> HIDE DEF a, b, c
  <2> QED
    BY <1>1, PartsOfConcat
<1>3. pos + Len(c) - 1 <= Len(buf) /\ Len(buf) \in Nat
  BY LenProperties
<1>4. /\ pos + Len(a) - 1 <= Len(buf) /\ p \in Nat \ {0} /\ p + Len(b) - 1 <= Len(buf)
      /\ p + Len(b) = pos + Len(c) /\ p + Len(b) \in Nat
  <2> HIDE DEF a, b, c
  <2> QED
    BY <1>1, <1>2, <1>3
<1>5. key \in Nat /\ key < Word /\ key \div 8 = field.no /\ key % 8 = field.wire
      /\ field.no \in Nat /\ field.no # 0 /\ field.wire \in Nat /\ field.value \in Values
  BY KeyFacts
<1>6. ReadVarint(buf, pos) = [value |-> key, next |-> p] /\ [value |-> key, next |-> p] # Error
  <2>1. ReadVarint(buf, pos) = [value |-> key, next |-> p]
    BY <1>2, <1>4, <1>5, VarintIsRead
  <2>2. key \in Values
    BY <1>5 DEF Values
  <2> QED
    BY <1>4, <2>1, <2>2, ReadIsNoError
<1>7. Body(reader, buf, field.wire, p) = [value |-> field.value, next |-> p + Len(b)]
  BY <1>2, <1>4, BodyIsRead
<1>8. [value |-> field.value, next |-> p + Len(b)] # Error
  BY <1>4, <1>5, ReadIsNoError
<1> DEFINE k == [value |-> key, next |-> p]
           r == [value |-> field.value, next |-> p + Len(b)]
<1>9. k # Error /\ k.value \div 8 = field.no /\ k.value % 8 = field.wire /\ k.next = p
  BY <1>5, <1>6
<1>10. Body(reader, buf, field.wire, p) = r /\ r # Error /\ r.value = field.value /\ r.next = pos + Len(c)
  BY <1>4, <1>7, <1>8
<1> HIDE DEF k, r, p, key, a, b, c
<1>11. ReadField(reader, buf, k) = [no |-> field.no, wire |-> field.wire, value |-> field.value,
                                    next |-> pos + Len(c)]
  BY <1>5, <1>9, <1>10 DEF ReadField
<1> QED
  BY <1>6, <1>11 DEF k, c

(* and of one that is cut a reader that checks lengths makes none.         *)
LEMMA FieldIsCut ==
    ASSUME NEW field, Sendable(field), NEW buf \in Seq(Nat), NEW pos \in Nat \ {0},
           Holds(buf, pos, EncodeField(field)),
           pos + Len(EncodeField(field)) - 1 > Len(buf), NEW reader, reader # "probe"
    PROVE  ReadField(reader, buf, ReadVarint(buf, pos)) = Error
<1> DEFINE key == Key(field)
           a == EncodeVarint(key)
           b == EncodeValue(field)
           c == EncodeField(field)
           p == pos + Len(a)
<1>1. a \in Seq(Bytes) /\ Len(a) \in Nat \ {0} /\ b \in Seq(Bytes) /\ c = a \o b /\ Holds(buf, pos, c)
  BY KeyFacts, ValueFacts, EncodeVarintFacts DEF IsVarint, EncodeField, Key
<1>2. /\ Len(c) = Len(a) + Len(b) /\ Len(b) \in Nat
      /\ Holds(buf, pos, a) /\ Holds(buf, pos + Len(a), b)
  <2> HIDE DEF a, b, c
  <2> QED
    BY <1>1, PartsOfConcat
<1>3. pos + Len(c) - 1 > Len(buf) /\ Len(buf) \in Nat
  BY LenProperties
<1>5. key \in Nat /\ key < Word /\ key \div 8 = field.no /\ key % 8 = field.wire
      /\ field.no \in Nat /\ field.no # 0 /\ field.wire \in Nat
  BY KeyFacts
<1>6. CASE pos + Len(a) - 1 > Len(buf)
  <2>1. ReadVarint(buf, pos) = Error
    BY <1>2, <1>5, <1>6, VarintIsCut
  <2> QED
    BY <2>1 DEF ReadField
<1>7. CASE ~ (pos + Len(a) - 1 > Len(buf))
  <2>1. pos + Len(a) - 1 <= Len(buf) /\ p \in Nat \ {0} /\ p + Len(b) - 1 > Len(buf)
    <3> HIDE DEF a, b, c
    <3> QED
      BY <1>1, <1>2, <1>3, <1>7
  <2>2. ReadVarint(buf, pos) = [value |-> key, next |-> p]
    BY <1>2, <1>5, <2>1, VarintIsRead
  <2>3. Body(reader, buf, field.wire, p) = Error
    BY <1>2, <2>1, BodyIsCut
  <2> DEFINE k == [value |-> key, next |-> p]
  <2>4. k.value % 8 = field.wire /\ k.next = p
    BY <1>5
  <2> HIDE DEF k, p, key, a, b, c
  <2>5. ReadField(reader, buf, k) = Error
    BY <2>3, <2>4 DEF ReadField
  <2> QED
    BY <2>2, <2>5 DEF k
<1> QED
  BY <1>6, <1>7

-----------------------------------------------------------------------------
(* ... messages                                                            *)

(* The rounds of the loop, one after the other.                            *)
LEMMA FieldRoundsFacts ==
    ASSUME NEW reader, NEW buf, Len(buf) \in Nat
    PROVE  /\ FieldRounds(reader, buf)[0] = [pos |-> 1, fields |-> <<>>]
           /\ \A n \in 1 .. Len(buf) :
                 FieldRounds(reader, buf)[n] = NextField(reader, buf, FieldRounds(reader, buf)[n - 1])
<1> DEFINE N == Len(buf)
           Start == [pos |-> 1, fields |-> <<>>]
           Gives(m, g) == g = [n \in 0 .. m |->
               IF n = 0 THEN Start ELSE NextField(reader, buf, g[n - 1])]
           T == {m \in 0 .. N : \E g : Gives(m, g)}
<1>1. 0 \in T
  <2> DEFINE h == [n \in 0 .. 0 |-> Start]
  <2>1. \A n \in 0 .. 0 : n = 0
    OBVIOUS
  <2>2. Gives(0, h)
    BY <2>1
  <2>3. \E g : Gives(0, g)
    BY <2>2
  <2> QED
    BY <2>3
<1>2. ASSUME NEW m \in 0 .. N - 1, m \in T
      PROVE  m + 1 \in T
  <2>1. PICK g : Gives(m, g)
    BY <1>2
  <2> DEFINE h == [n \in 0 .. m + 1 |-> IF n <= m THEN g[n] ELSE NextField(reader, buf, g[m])]
  <2>2. m \in Nat /\ m + 1 \in 0 .. N
    OBVIOUS
  <2>3. \A n \in 0 .. m : g[n] = IF n = 0 THEN Start ELSE NextField(reader, buf, g[n - 1])
    BY <2>1
  <2>4. ASSUME NEW n \in 0 .. m + 1
        PROVE  h[n] = IF n = 0 THEN Start ELSE NextField(reader, buf, h[n - 1])
    <3>1. CASE n = m + 1
      <4>1. h[n] = NextField(reader, buf, g[m]) /\ h[n - 1] = g[m] /\ n # 0
        BY <2>2, <3>1
      <4> QED
        BY <3>1, <4>1
    <3>2. CASE n # m + 1
      <4>1. n \in 0 .. m /\ h[n] = g[n] /\ (n # 0 => n - 1 \in 0 .. m + 1 /\ h[n - 1] = g[n - 1])
        BY <2>2, <3>2
      <4> QED
        BY <2>3, <4>1
    <3> QED
      BY <3>1, <3>2
  <2>5. h = [n \in 0 .. m + 1 |-> h[n]]
    OBVIOUS
  <2> HIDE DEF h
  <2>6. Gives(m + 1, h)
    BY <2>4, <2>5
  <2> HIDE DEF Gives
  <2> QED
    BY <2>2, <2>6
<1>3. N \in T
  <2> HIDE DEF T
  <2>1. \A n \in 0 .. N : n \in T
    BY <1>1, <1>2, UpToInduction
  <2> QED
    BY <2>1
<1>4. FieldRounds(reader, buf) = CHOOSE g : Gives(N, g)
  BY DEF FieldRounds
<1> DEFINE after == FieldRounds(reader, buf)
<1>5. Gives(N, after)
  <2> HIDE DEF Gives
  <2> QED
    BY <1>3, <1>4
<1> HIDE DEF after
<1>6. \A n \in 0 .. N : after[n] = IF n = 0 THEN Start ELSE NextField(reader, buf, after[n - 1])
  BY <1>5
<1>7. 0 \in 0 .. N /\ \A n \in 1 .. N : n \in 0 .. N /\ n # 0
  OBVIOUS
<1> QED
  BY <1>6, <1>7 DEF after

(* The fields of a message.                                                *)
AreSendable(fs) == fs \in Seq(Field) /\ \A i \in 1 .. Len(fs) : Sendable(fs[i])

(* Where each field ends in a message.                                     *)
AreEnds(fs, e) ==
    /\ e \in [0 .. Len(fs) -> Nat] /\ e[0] = 0 /\ e[Len(fs)] = Len(EncodeFields(fs))
    /\ \A n \in 1 .. Len(fs) :
          /\ e[n] = e[n - 1] + Len(EncodeField(fs[n]))
          /\ e[n] <= Len(EncodeFields(fs))
          /\ \A i \in 1 .. Len(EncodeField(fs[n])) :
                EncodeFields(fs)[e[n - 1] + i] = EncodeField(fs[n])[i]

(* Every message has them.                                                 *)
LEMMA FieldsHaveEnds ==
    ASSUME NEW fs, AreSendable(fs)
    PROVE  /\ EncodeFields(fs) \in Seq(Bytes)
           /\ \E e : AreEnds(fs, e)
<1> DEFINE N == Len(fs)
           seqs == [i \in DOMAIN fs |-> EncodeField(fs[i])]
           E == EncodeFields(fs)
<1>1. N \in Nat /\ DOMAIN fs = 1 .. N
  BY LenProperties DEF AreSendable
<1>2. \A i \in 1 .. N : EncodeField(fs[i]) \in Seq(Bytes)
  BY FieldFacts DEF AreSendable
<1>3. seqs \in Seq(Seq(Bytes)) /\ Len(seqs) = N /\ \A i \in 1 .. N : seqs[i] = EncodeField(fs[i])
  <2> HIDE DEF N
  <2> QED
    BY <1>1, <1>2
<1>4. E = FlattenSeq(seqs)
  BY DEF EncodeFields
<1> HIDE DEF seqs, E
<1>5. PICK g \in [0 .. Len(seqs) -> Seq(Bytes)] : Flattens(seqs, g) /\ FlattenSeq(seqs) = g[Len(seqs)]
  BY <1>3, FlattenSteps
<1> DEFINE e == [n \in 0 .. N |-> Len(g[n])]
<1>6. g \in [0 .. N -> Seq(Bytes)] /\ g[0] = <<>> /\ g[N] = E
  BY <1>3, <1>4, <1>5 DEF Flattens
<1>7. e \in [0 .. N -> Nat] /\ \A n \in 0 .. N : e[n] = Len(g[n])
  BY <1>6, LenProperties
<1>8. 0 \in 0 .. N /\ N \in 0 .. N /\ \A n \in 1 .. N : n \in 0 .. N /\ n - 1 \in 0 .. N
  BY <1>1
<1>9. e[0] = 0 /\ e[N] = Len(E) /\ E \in Seq(Bytes)
  <2> HIDE DEF N, e
  <2>1. Len(<<>>) = 0
    OBVIOUS
  <2>2. e[0] = Len(g[0]) /\ e[N] = Len(g[N]) /\ g[N] \in Seq(Bytes)
    BY <1>6, <1>7, <1>8
  <2> QED
    BY <1>6, <2>1, <2>2
<1>10. ASSUME NEW n \in 1 .. N
       PROVE  /\ e[n] = e[n - 1] + Len(EncodeField(fs[n]))
              /\ e[n] <= Len(E)
              /\ \A i \in 1 .. Len(EncodeField(fs[n])) : E[e[n - 1] + i] = EncodeField(fs[n])[i]
  <2>1. n \in 1 .. Len(seqs)
    BY <1>3
  <2>2. /\ Len(g[n]) = Len(g[n - 1]) + Len(seqs[n])
        /\ Len(g[n]) <= Len(g[Len(seqs)])
        /\ \A i \in 1 .. Len(seqs[n]) : g[Len(seqs)][Len(g[n - 1]) + i] = seqs[n][i]
    <3>1. Places(g[n - 1], seqs[n], g[n], g[Len(seqs)])
      BY <1>3, <1>5, <2>1, FlattenPlaces
    <3> QED
      BY <3>1 DEF Places
  <2>3. /\ g[Len(seqs)] = E /\ seqs[n] = EncodeField(fs[n])
        /\ e[n] = Len(g[n]) /\ e[n - 1] = Len(g[n - 1])
    BY <1>3, <1>6, <1>7, <1>8
  <2> HIDE DEF e, N
  <2> QED
    BY <2>2, <2>3
<1> HIDE DEF e
<1>11. AreEnds(fs, e)
  BY <1>7, <1>9, <1>10 DEF AreEnds, E, N
<1> QED
  BY <1>9, <1>11 DEF E

(* A field is a byte at least.                                             *)
LEMMA EndsClimb ==
    ASSUME NEW fs, AreSendable(fs), NEW e, AreEnds(fs, e), NEW k \in 0 .. Len(fs)
    PROVE  \A n \in k .. Len(fs) : e[n] >= e[k] + (n - k)
<1> DEFINE N == Len(fs)
           T == {d \in 0 .. N - k : e[k + d] >= e[k] + d}
<1>1. N \in Nat /\ N - k \in Nat
  BY LenProperties DEF AreSendable
<1>2. e \in [0 .. N -> Nat]
  BY DEF AreEnds
<1> HIDE DEF N
<1>3. 0 \in T
  BY <1>1, <1>2 DEF N
<1>4. ASSUME NEW d \in 0 .. (N - k) - 1, d \in T
      PROVE  d + 1 \in T
  <2> DEFINE n == k + (d + 1)
             l == Len(EncodeField(fs[n]))
  <2>1. n \in 1 .. N /\ n - 1 = k + d /\ d + 1 \in 0 .. N - k /\ k + d \in 0 .. N /\ n \in 0 .. N
    BY <1>1 DEF N
  <2> HIDE DEF n
  <2>2. l \in Nat \ {0}
    BY <2>1, FieldFacts DEF AreSendable, N
  <2>3. e[n] = e[k + d] + l
    BY <2>1 DEF AreEnds, N
  <2> HIDE DEF l
  <2>4. e[k + d] \in Nat /\ e[k] \in Nat /\ e[k + d] >= e[k] + d
    BY <1>2, <1>4, <2>1 DEF N
  <2>5. e[n] >= e[k] + (d + 1)
    BY <2>2, <2>3, <2>4
  <2> QED
    BY <2>1, <2>5 DEF n
<1>5. \A d \in 0 .. N - k : d \in T
  <2> HIDE DEF T
  <2> QED
    BY <1>1, <1>3, <1>4, UpToInduction
<1>6. ASSUME NEW n \in k .. N
      PROVE  e[n] >= e[k] + (n - k)
  <2>1. n - k \in 0 .. N - k /\ k + (n - k) = n
    BY <1>1 DEF N
  <2> QED
    BY <1>5, <2>1
<1> QED
  BY <1>6 DEF N

(* After n rounds the first fields have been read, n at least unless there *)
(* are no more bytes; or the message was cut, and the reader has raised.   *)
ReadSoFar(fs, e, buf, n, s) ==
    \/ \E k \in 0 .. Len(fs) :
          /\ s = [pos |-> e[k] + 1, fields |-> SubSeq(fs, 1, k)]
          /\ e[k] <= Len(buf)
          /\ k >= n \/ e[k] = Len(buf)
    \/ /\ s = [pos |-> Len(buf) + 1, fields |-> Error]
       /\ Len(buf) < Len(EncodeFields(fs))

(* A round reads one field more, or finds that it is cut.                  *)
LEMMA RoundReadsField ==
    ASSUME NEW fs, AreSendable(fs), NEW e, AreEnds(fs, e),
           NEW buf \in Seq(Nat), Begins(buf, EncodeFields(fs)), NEW reader,
           reader # "probe" \/ Len(buf) = Len(EncodeFields(fs)),
           NEW n \in Nat, NEW s, ReadSoFar(fs, e, buf, n, s)
    PROVE  ReadSoFar(fs, e, buf, n + 1, NextField(reader, buf, s))
<1> DEFINE N == Len(buf)
           M == Len(fs)
           E == EncodeFields(fs)
           t == NextField(reader, buf, s)
<1>1. N \in Nat /\ M \in Nat /\ Len(E) \in Nat /\ N <= Len(E) /\ e \in [0 .. M -> Nat] /\ e[M] = Len(E)
  BY LenProperties DEF Begins, AreSendable, AreEnds
<1>2. CASE s = [pos |-> N + 1, fields |-> Error] /\ N < Len(E)
  <2>1. s.pos = N + 1 /\ s.pos > N
    BY <1>1, <1>2
  <2>2. t = s
    BY <2>1 DEF NextField
  <2> QED
    BY <1>2, <2>2 DEF ReadSoFar
<1>3. ASSUME NEW k \in 0 .. M, s = [pos |-> e[k] + 1, fields |-> SubSeq(fs, 1, k)],
             e[k] <= N, k >= n \/ e[k] = N
      PROVE  ReadSoFar(fs, e, buf, n + 1, t)
  <2> DEFINE p == e[k] + 1
  <2>0. s.pos = p /\ s.fields = SubSeq(fs, 1, k) /\ e[k] \in Nat /\ p \in Nat \ {0}
    <3>1. s.pos = e[k] + 1 /\ s.fields = SubSeq(fs, 1, k)
      BY <1>3
    <3>2. e[k] \in Nat
      BY <1>1
    <3>3. e[k] + 1 \in Nat \ {0}
      BY <3>2
    <3> QED
      BY <3>1, <3>2, <3>3
  <2>1. CASE e[k] = N
    <3>1. s.pos > N
      BY <1>1, <2>0, <2>1
    <3>2. t = s
      BY <3>1 DEF NextField
    <3> QED
      BY <1>3, <2>1, <3>2 DEF ReadSoFar
  <2>2. CASE e[k] # N
    <3> DEFINE f == fs[k + 1]
               c == EncodeField(f)
               l == Len(c)
    <3>1. k # M /\ e[k] < N
      BY <1>1, <1>3, <2>0, <2>2
    <3>2. k + 1 \in 1 .. M /\ k + 1 \in 0 .. M /\ (k + 1) - 1 = k /\ k \in Nat /\ k < M /\ k >= n
      BY <1>1, <1>3, <2>2, <3>1
    <3>3. Sendable(f) /\ f \in Field
      BY <3>2, ElementOfSeq DEF AreSendable
    <3>4. /\ e[k + 1] = e[k] + l /\ e[k + 1] <= Len(E)
          /\ \A i \in 1 .. l : E[e[k] + i] = c[i]
      BY <3>2 DEF AreEnds
    <3>5. l \in Nat \ {0}
      BY <3>3, FieldFacts
    <3>6. \A i \in 1 .. N : buf[i] = E[i]
      BY DEF Begins
    <3> HIDE DEF c, l, f, E, N
    <3>7. Holds(buf, p, c)
      <4>1. ASSUME NEW i \in 1 .. l, p + i - 1 <= N
            PROVE  buf[p + i - 1] = c[i]
        <5>1. p + i - 1 = e[k] + i /\ e[k] + i \in 1 .. N
          BY <2>0, <3>5, <4>1
        <5> QED
          BY <3>4, <3>6, <5>1
      <4> QED
        BY <4>1 DEF Holds, l, N
    <3>8. ~ (s.pos > N)
      BY <1>1, <2>0, <3>1
    <3>9. CASE e[k + 1] <= N
      <4>1. p + l - 1 <= N /\ p + l = e[k + 1] + 1 /\ p + l \in Nat
        <5> DEFINE x == e[k]
                   y == e[k + 1]
        <5>1. y = x + l /\ y <= N /\ x \in Nat /\ l \in Nat \ {0} /\ N \in Nat
          BY <1>1, <2>0, <3>4, <3>5, <3>9
        <5> HIDE DEF x, y
        <5>2. (x + 1) + l - 1 <= N /\ (x + 1) + l = y + 1 /\ (x + 1) + l \in Nat
          BY <5>1
        <5> QED
          BY <5>2 DEF x, y
      <4> DEFINE r == [no |-> f.no, wire |-> f.wire, value |-> f.value, next |-> p + l]
      <4>2. ReadField(reader, buf, ReadVarint(buf, p)) = r
        BY <2>0, <3>3, <3>7, <4>1, FieldIsRead DEF c, l, N
      <4>3. r # Error
        <5>1. f.no \in Nat /\ f.wire \in Nat /\ f.value \in Values
          BY <3>3, KeyFacts
        <5> HIDE DEF p
        <5> QED
          BY <4>1, <5>1, ReadIsNoError
      <4>4. [no |-> r.no, wire |-> r.wire, value |-> r.value] = f /\ r.next = p + l
        BY <3>3, KeyFacts
      <4>5. Append(SubSeq(fs, 1, k), f) = SubSeq(fs, 1, k + 1)
        BY <3>2, OneMore DEF AreSendable, f
      <4> HIDE DEF r, p
      <4>6. t = [pos |-> e[k + 1] + 1, fields |-> SubSeq(fs, 1, k + 1)]
        BY <2>0, <3>8, <4>1, <4>2, <4>3, <4>4, <4>5 DEF NextField, N
      <4>7. k + 1 >= n + 1
        BY <3>2
      <4> QED
        BY <3>2, <3>9, <4>6, <4>7 DEF ReadSoFar, N
    <3>10. CASE ~ (e[k + 1] <= N)
      <4>1. p + l - 1 > N /\ N < Len(E)
        BY <1>1, <2>0, <3>4, <3>5, <3>10
      <4>2. reader # "probe"
        BY <1>1, <4>1 DEF N, E
      <4>3. ReadField(reader, buf, ReadVarint(buf, p)) = Error
        BY <2>0, <3>3, <3>7, <4>1, <4>2, FieldIsCut DEF c, l, N
      <4> HIDE DEF p
      <4>4. t = [pos |-> N + 1, fields |-> Error]
        BY <2>0, <3>8, <4>3 DEF NextField, N
      <4> QED
        BY <4>1, <4>4 DEF ReadSoFar, N, E
    <3> QED
      BY <3>9, <3>10
  <2> QED
    BY <2>1, <2>2
<1> QED
  BY <1>2, <1>3 DEF ReadSoFar

(* A whole message is read as it was sent; a reader that checks lengths    *)
(* makes of a cut one no field that was not sent.                          *)
LEMMA MessageIsRead ==
    ASSUME NEW fs, AreSendable(fs), NEW buf \in Seq(Nat), Begins(buf, EncodeFields(fs)),
           NEW reader, reader # "probe" \/ Len(buf) = Len(EncodeFields(fs))
    PROVE  /\ Len(buf) = Len(EncodeFields(fs)) => ProtobufFields(reader, buf) = fs
           /\ \/ ProtobufFields(reader, buf) = Error
              \/ \E k \in 0 .. Len(fs) : ProtobufFields(reader, buf) = SubSeq(fs, 1, k)
<1> DEFINE N == Len(buf)
           M == Len(fs)
           E == EncodeFields(fs)
           after == FieldRounds(reader, buf)
<1>1. PICK e : AreEnds(fs, e)
  BY FieldsHaveEnds
<1>2. N \in Nat /\ M \in Nat /\ e \in [0 .. M -> Nat] /\ e[0] = 0 /\ e[M] = Len(E)
  BY <1>1, LenProperties DEF AreSendable, AreEnds
<1>3. after[0] = [pos |-> 1, fields |-> <<>>] /\ \A n \in 1 .. N : after[n] = NextField(reader, buf, after[n - 1])
  BY <1>2, FieldRoundsFacts
<1> HIDE DEF after
<1> DEFINE U == {n \in 0 .. N : ReadSoFar(fs, e, buf, n, after[n])}
<1>4. 0 \in U
  <2>1. SubSeq(fs, 1, 0) = <<>>
    BY SubSeqEmpty
  <2>2. 0 \in 0 .. M /\ e[0] + 1 = 1 /\ e[0] <= N /\ 0 >= 0
    BY <1>2
  <2> HIDE DEF M, N
  <2>3. after[0] = [pos |-> e[0] + 1, fields |-> SubSeq(fs, 1, 0)]
    BY <1>3, <2>1, <2>2
  <2>4. ReadSoFar(fs, e, buf, 0, after[0])
    BY <2>2, <2>3 DEF ReadSoFar, M, N
  <2> QED
    BY <1>2, <2>4
<1>5. ASSUME NEW n \in 0 .. N - 1, n \in U
      PROVE  n + 1 \in U
  <2>1. n + 1 \in 1 .. N /\ (n + 1) - 1 = n /\ n + 1 \in 0 .. N /\ n \in Nat
    BY <1>2
  <2>2. after[n + 1] = NextField(reader, buf, after[n])
    BY <1>3, <2>1
  <2>3. ReadSoFar(fs, e, buf, n, after[n])
    BY <1>5
  <2>4. ReadSoFar(fs, e, buf, n + 1, NextField(reader, buf, after[n]))
    BY <1>1, <2>1, <2>3, RoundReadsField
  <2> QED
    BY <2>1, <2>2, <2>4
<1>6. ReadSoFar(fs, e, buf, N, after[N])
  <2>1. \A n \in 0 .. N : n \in U
    <3> HIDE DEF U, N
    <3> QED
      BY <1>2, <1>4, <1>5, UpToInduction
  <2>2. N \in 0 .. N
    BY <1>2
  <2> HIDE DEF N
  <2> QED
    BY <2>1, <2>2
<1>7. ProtobufFields(reader, buf) = after[N].fields
  BY DEF ProtobufFields, after
<1>8. CASE after[N] = [pos |-> N + 1, fields |-> Error] /\ N < Len(E)
  <2>1. after[N].fields = Error
    BY <1>8
  <2>2. N # Len(E)
    BY <1>2, <1>8
  <2> QED
    BY <1>7, <2>1, <2>2
<1>9. ASSUME NEW k \in 0 .. M, after[N] = [pos |-> e[k] + 1, fields |-> SubSeq(fs, 1, k)],
             e[k] <= N, k >= N \/ e[k] = N
      PROVE  /\ N = Len(E) => ProtobufFields(reader, buf) = fs
             /\ ProtobufFields(reader, buf) = SubSeq(fs, 1, k)
  <2>1. ProtobufFields(reader, buf) = SubSeq(fs, 1, k)
    BY <1>7, <1>9
  <2>2. 0 \in 0 .. M /\ k \in 0 .. M /\ M \in k .. M
    BY <1>2
  <2>3. e[k] >= e[0] + (k - 0) /\ e[M] >= e[k] + (M - k)
    <3>1. \A j \in 0 .. M : \A n \in j .. M : e[n] >= e[j] + (n - j)
      BY <1>1, EndsClimb
    <3> HIDE DEF M
    <3> QED
      BY <2>2, <3>1
  <2>4. e[k] = N
    BY <1>2, <1>9, <2>3
  <2>5. ASSUME N = Len(E)
        PROVE  SubSeq(fs, 1, k) = fs
    <3>1. k = M
      BY <1>2, <2>3, <2>4, <2>5
    <3> QED
      BY <3>1, SubSeqFull DEF AreSendable
  <2> QED
    BY <2>1, <2>5
<1> QED
  BY <1>6, <1>8, <1>9 DEF ReadSoFar

-----------------------------------------------------------------------------
(* ... clients                                                             *)

(* A signed number of half a word is read back from a word and from half   *)
(* of one.                                                                 *)
LEMMA SignalIsRead ==
    ASSUME NEW v \in -(HalfWord \div 2) .. (HalfWord \div 2) - 1
    PROVE  /\ v % Word \in 0 .. Word - 1
           /\ Signed(v % Word, Word) = v
           /\ Signed((v % Word) % HalfWord, HalfWord) = v
<1> DEFINE h == HalfWord \div 2
           q == Word \div HalfWord
<1>1. h \in Nat \ {0} /\ HalfWord = 2 * h
  BY WireParameters
<1>2. q \in Nat /\ Word = HalfWord * q
  <2>1. Word \in Nat /\ HalfWord \in Nat /\ HalfWord > 0 /\ Word % HalfWord = 0
    BY WireParameters
  <2> QED
    BY <2>1, Division
<1>3. v \in Int /\ v >= -h /\ v <= h - 1
  BY <1>1
<1>4. Word \in Nat /\ Word > 0
  BY WireNumbers
<1> HIDE DEF h, q
<1>5. q >= 1
  BY <1>1, <1>2, <1>4
<1> DEFINE x == h * q
<1>6. x \in Nat /\ x >= h
  BY <1>1, <1>2, <1>5
<1>7. Word = 2 * x
  BY <1>1, <1>2
<1> HIDE DEF x
<1>8. Word \div 2 = x /\ HalfWord \div 2 = h
  BY <1>1, <1>6, <1>7
<1>9. CASE v >= 0
  <2>1. v \in 0 .. Word - 1 /\ v \in 0 .. HalfWord - 1
    BY <1>1, <1>3, <1>6, <1>7, <1>9
  <2>2. v % Word = v
    <3>1. (Word * 0 + v) % Word = v
      BY <1>4, <2>1, RemainderOf
    <3> QED
      BY <1>3, <1>4, <3>1
  <2>3. v % HalfWord = v
    <3>1. HalfWord \in Nat /\ HalfWord > 0
      BY <1>1
    <3>2. (HalfWord * 0 + v) % HalfWord = v
      BY <2>1, <3>1, RemainderOf
    <3> QED
      BY <1>3, <3>1, <3>2
  <2>4. ~ (v >= Word \div 2) /\ ~ (v >= HalfWord \div 2)
    BY <1>1, <1>3, <1>6, <1>8
  <2> QED
    BY <2>1, <2>2, <2>3, <2>4 DEF Signed
<1>10. CASE v < 0
  <2> DEFINE a == v + Word
             b == v + HalfWord
  <2>1. a \in 0 .. Word - 1 /\ b \in 0 .. HalfWord - 1 /\ v = Word * (-1) + a
    BY <1>1, <1>3, <1>6, <1>7, <1>10
  <2>2. v % Word = a
    <3> HIDE DEF a
    <3>1. (Word * (-1) + a) % Word = a
      BY <1>4, <2>1, RemainderOf
    <3> QED
      BY <2>1, <3>1
  <2>3. a % HalfWord = b
    <3>1. HalfWord \in Nat /\ HalfWord > 0 /\ q - 1 \in Int
      BY <1>1, <1>2
    <3>2. HalfWord * q = HalfWord * (q - 1) + HalfWord
      BY <1>2, <3>1
    <3>3. a = HalfWord * (q - 1) + b
      <4> DEFINE y == HalfWord * (q - 1)
      <4>1. y \in Int /\ Word = y + HalfWord
        BY <1>2, <3>1, <3>2
      <4> HIDE DEF y
      <4>2. a = y + b
        BY <1>3, <1>4, <3>1, <4>1
      <4> QED
        BY <4>2 DEF y
    <3> HIDE DEF a, b
    <3>4. (HalfWord * (q - 1) + b) % HalfWord = b
      BY <2>1, <3>1, RemainderOf
    <3> QED
      BY <3>3, <3>4
  <2>4. a >= Word \div 2 /\ b >= HalfWord \div 2
    BY <1>1, <1>3, <1>6, <1>7, <1>8
  <2>5. a - Word = v /\ b - HalfWord = v
    BY <1>1, <1>3, <1>4
  <2> HIDE DEF a, b
  <2> QED
    BY <2>1, <2>2, <2>3, <2>4, <2>5 DEF Signed
<1> QED
  BY <1>3, <1>9, <1>10

(* The numbers of the known fields.                                        *)
LEMMA FieldNumbers ==
    /\ \A f \in DOMAIN FieldNo : FieldNo[f] \in 1 .. 10
    /\ \A f, g \in DOMAIN FieldNo : FieldNo[f] = FieldNo[g] => f = g
    /\ \A no \in 1 .. 10 : \E f \in DOMAIN FieldNo : FieldNo[f] = no
    /\ TextFields \subseteq DOMAIN FieldNo /\ "signal" \in DOMAIN FieldNo
    /\ "signal" \notin TextFields
<1>1. DOMAIN FieldNo = {"ip", "mac", "access", "node", "condition_time", "online",
                        "uprate", "downrate", "signal", "name"}
  BY DEF FieldNo
<1>2. /\ FieldNo["ip"] = 1 /\ FieldNo["mac"] = 2 /\ FieldNo["access"] = 3
      /\ FieldNo["node"] = 4 /\ FieldNo["condition_time"] = 5 /\ FieldNo["online"] = 6
      /\ FieldNo["uprate"] = 7 /\ FieldNo["downrate"] = 8 /\ FieldNo["signal"] = 9
      /\ FieldNo["name"] = 10
  BY DEF FieldNo
<1>3. \A f \in DOMAIN FieldNo : FieldNo[f] \in 1 .. 10
  BY <1>1, <1>2
<1>4. \A f, g \in DOMAIN FieldNo : FieldNo[f] = FieldNo[g] => f = g
  BY <1>1, <1>2
<1>5. \A no \in 1 .. 10 : no \in {1, 2, 3, 4, 5, 6, 7, 8, 9, 10}
  OBVIOUS
<1>6. \A no \in 1 .. 10 : \E f \in DOMAIN FieldNo : FieldNo[f] = no
  BY <1>1, <1>2, <1>5
<1>7. TextFields \subseteq DOMAIN FieldNo /\ "signal" \in DOMAIN FieldNo
      /\ "signal" \notin TextFields
  BY <1>1 DEF TextFields
<1> QED
  BY <1>3, <1>4, <1>6, <1>7

(* The field a client's value is sent in.                                  *)
SentField(host, f) ==
    IF f \in TextFields THEN [no |-> FieldNo[f], wire |-> 2, value |-> host[f]]
    ELSE [no |-> FieldNo[f], wire |-> 0, value |-> host[f] % Word]

(* It can be sent, and is the only one for that value.                     *)
LEMMA SentFieldFacts ==
    ASSUME NEW host, WellFormedHost(host), NEW f \in DOMAIN FieldNo
    PROVE  /\ host[f] = None => FieldOf(host, f) = <<>>
           /\ host[f] # None => /\ FieldOf(host, f) = <<SentField(host, f)>>
                                /\ Sendable(SentField(host, f))
                                /\ SentField(host, f).no = FieldNo[f]
<1> DEFINE n == FieldNo[f]
           x == SentField(host, f)
           v == host[f]
<1>0. CASE v = None
  BY <1>0 DEF FieldOf
<1>1. n \in Nat \ {0} /\ 8 * n + 7 < Word
  BY FieldNumbers, WireNumbers
<1>2. CASE v # None /\ f \in TextFields
  <2>1. v \in Seq(1 .. Base - 1) /\ Len(v) < Word
    BY <1>2 DEF WellFormedHost
  <2>2. v \in Seq(Bytes)
    <3>1. 1 .. Base - 1 \subseteq Bytes
      BY WireNumbers
    <3> QED
      BY <2>1, <3>1, SeqMonotonic
  <2>3. FieldOf(host, f) = <<x>> /\ x = [no |-> n, wire |-> 2, value |-> v]
    BY <1>2 DEF FieldOf, SentField
  <2> HIDE DEF x, n, v
  <2>4. Sendable(x) /\ x.no = n
    BY <1>1, <2>1, <2>2, <2>3 DEF Sendable
  <2> QED
    BY <1>2, <2>3, <2>4 DEF x, n, v
<1>3. CASE v # None /\ f \notin TextFields
  <2>1. v % Word \in 0 .. Word - 1
    <3>1. CASE f = "signal"
      BY <1>3, <3>1, SignalIsRead DEF WellFormedHost
    <3>2. CASE f # "signal"
      <4>1. v \in 0 .. Word - 1
        BY <1>3, <3>2 DEF WellFormedHost
      <4> HIDE DEF v
      <4> QED
        BY <4>1, WireNumbers, Division
    <3> QED
      BY <3>1, <3>2
  <2>2. FieldOf(host, f) = <<x>> /\ x = [no |-> n, wire |-> 0, value |-> v % Word]
    BY <1>3 DEF FieldOf, SentField
  <2> HIDE DEF x, n, v
  <2>3. Sendable(x) /\ x.no = n
    BY <1>1, <2>1, <2>2 DEF Sendable
  <2> QED
    BY <1>3, <2>2, <2>3 DEF x, n, v
<1> QED
  BY <1>0, <1>2, <1>3

(* A field that can be sent is one that can be read.                       *)
LEMMA SendableIsField ==
    ASSUME NEW x, Sendable(x)
    PROVE  x \in Field
<1>1. x = [no |-> x.no, wire |-> x.wire, value |-> x.value]
  BY KeyFacts
<1>2. x.no \in Nat /\ x.wire \in Nat /\ x.value \in Values
  BY KeyFacts
<1>3. [no |-> x.no, wire |-> x.wire, value |-> x.value] \in Field
  BY <1>2 DEF Field
<1> QED
  BY <1>1, <1>3

(* The fields of a client: those it has, each as it is sent, and others of *)
(* higher numbers.                                                         *)
AreFieldsOf(fs, host) ==
    /\ AreSendable(fs)
    /\ \A f \in DOMAIN FieldNo :
          /\ \A i \in 1 .. Len(fs) :
                fs[i].no = FieldNo[f] => host[f] # None /\ fs[i] = SentField(host, f)
          /\ host[f] # None => \E i \in 1 .. Len(fs) : fs[i].no = FieldNo[f]

(* FieldsOf are the fields of a client.                                    *)
LEMMA FieldsOfFacts ==
    ASSUME NEW host, WellFormedHost(host)
    PROVE  AreFieldsOf(FieldsOf(host), host)
<1> DEFINE Named(no) == CHOOSE f \in DOMAIN FieldNo : FieldNo[f] = no
           seqs == [no \in 1 .. 10 |-> FieldOf(host, Named(no))]
           known == FlattenSeq(seqs)
           rest == host.unknown
           fs == FieldsOf(host)
<1>1. fs = known \o rest
  BY DEF FieldsOf
<1>2. \A no \in 1 .. 10 : Named(no) \in DOMAIN FieldNo /\ FieldNo[Named(no)] = no
  BY FieldNumbers
<1> HIDE DEF Named
<1>3. ASSUME NEW no \in 1 .. 10
      PROVE  /\ seqs[no] = FieldOf(host, Named(no))
             /\ seqs[no] \in Seq(Field)
             /\ \A j \in 1 .. Len(seqs[no]) :
                   /\ j = 1 /\ seqs[no][j] = SentField(host, Named(no))
                   /\ host[Named(no)] # None
             /\ host[Named(no)] # None => Len(seqs[no]) = 1
  <2> DEFINE f == Named(no)
             s == seqs[no]
             x == SentField(host, f)
  <2>1. s = FieldOf(host, f) /\ f \in DOMAIN FieldNo
    BY <1>2
  <2> HIDE DEF s, f
  <2>2. CASE host[f] = None
    <3>1. s = <<>>
      BY <2>1, <2>2, SentFieldFacts
    <3>2. s \in Seq(Field) /\ 1 .. Len(s) = {}
      BY <3>1
    <3> QED
      BY <2>1, <2>2, <3>2 DEF s, f
  <2>3. CASE host[f] # None
    <3>1. s = <<x>> /\ Sendable(x)
      BY <2>1, <2>3, SentFieldFacts
    <3>2. x \in Field
      BY <3>1, SendableIsField
    <3> HIDE DEF x
    <3>3. s \in Seq(Field) /\ Len(s) = 1 /\ s[1] = x
      BY <3>1, <3>2
    <3>4. \A j \in 1 .. Len(s) : j = 1 /\ s[j] = x
      BY <3>3
    <3> HIDE DEF seqs
    <3> QED
      BY <2>1, <2>3, <3>3, <3>4 DEF s, f, x
  <2> QED
    BY <2>2, <2>3
<1>4. seqs \in Seq(Seq(Field)) /\ Len(seqs) = 10
  <2>1. \A no \in 1 .. 10 : FieldOf(host, Named(no)) \in Seq(Field)
    BY <1>3
  <2> QED
    BY <2>1
<1>5. rest \in Seq(Field) /\ Len(rest) \in Nat /\ \A i \in 1 .. Len(rest) : Sendable(rest[i]) /\ rest[i].no > 10
  <2>1. Len(rest) \in Nat /\ rest = [i \in 1 .. Len(rest) |-> rest[i]]
    BY DEF WellFormedHost
  <2>2. DOMAIN rest = 1 .. Len(rest)
    BY <2>1
  <2>3. \A i \in 1 .. Len(rest) : Sendable(rest[i]) /\ rest[i].no > 10
    BY <2>2 DEF WellFormedHost
  <2>4. \A i \in 1 .. Len(rest) : rest[i] \in Field
    BY <2>3, SendableIsField
  <2> HIDE DEF rest
  <2>5. [i \in 1 .. Len(rest) |-> rest[i]] \in Seq(Field)
    BY <2>1, <2>4
  <2> QED
    BY <2>1, <2>3, <2>5
<1>6. PICK g \in [0 .. Len(seqs) -> Seq(Field)] : Flattens(seqs, g) /\ FlattenSeq(seqs) = g[Len(seqs)]
  <2> HIDE DEF seqs
  <2> QED
    BY <1>4, FlattenSteps
<1>7. known = g[Len(seqs)] /\ known \in Seq(Field)
  <2>1. Len(seqs) \in 0 .. Len(seqs)
    BY <1>4
  <2> QED
    BY <1>6, <2>1
<1>8. ASSUME NEW i \in 1 .. Len(known)
      PROVE  \E no \in 1 .. 10 : host[Named(no)] # None /\ known[i] = SentField(host, Named(no))
  <2>1. \E n \in 1 .. Len(seqs) : \E j \in 1 .. Len(seqs[n]) : g[Len(seqs)][i] = seqs[n][j]
    <3>1. i \in 1 .. Len(g[Len(seqs)])
      BY <1>7
    <3>2. seqs \in Seq(Seq(Field))
      BY <1>4
    <3> HIDE DEF seqs, known
    <3>3. IsIn(g[Len(seqs)][i], seqs)
      BY <1>6, <3>1, <3>2, FlattenElements
    <3> QED
      BY <3>3 DEF IsIn
  <2>2. PICK n \in 1 .. 10 : \E j \in 1 .. Len(seqs[n]) : known[i] = seqs[n][j]
    <3> HIDE DEF seqs, known
    <3> QED
      BY <1>4, <1>7, <2>1
  <2>3. PICK j \in 1 .. Len(seqs[n]) : known[i] = seqs[n][j]
    BY <2>2
  <2> HIDE DEF seqs, known
  <2>4. seqs[n][j] = SentField(host, Named(n)) /\ host[Named(n)] # None
    BY <1>3, <2>3
  <2> QED
    BY <2>3, <2>4
<1>9. ASSUME NEW no \in 1 .. 10, host[Named(no)] # None
      PROVE  \E i \in 1 .. Len(known) : known[i] = SentField(host, Named(no))
  <2>1. Places(g[no - 1], seqs[no], g[no], g[Len(seqs)])
    <3>1. no \in 1 .. Len(seqs)
      BY <1>4
    <3> HIDE DEF seqs
    <3> QED
      BY <1>4, <1>6, <3>1, FlattenPlaces
  <2>2. Len(seqs[no]) = 1 /\ seqs[no][1] = SentField(host, Named(no))
    <3> HIDE DEF seqs
    <3>1. Len(seqs[no]) = 1
      BY <1>3, <1>9
    <3>2. 1 \in 1 .. Len(seqs[no])
      BY <3>1
    <3> QED
      BY <1>3, <3>1, <3>2
  <2> DEFINE a == g[no - 1]
             b == seqs[no]
             c == g[no]
  <2>3. /\ Len(a) \in Nat /\ Len(b) = 1 /\ Len(c) = Len(a) + Len(b) /\ Len(c) <= Len(known)
        /\ \A i \in 1 .. Len(b) : known[Len(a) + i] = b[i]
    <3> HIDE DEF seqs, known
    <3> QED
      BY <1>7, <2>1, <2>2 DEF Places
  <2> HIDE DEF a, b, c, known, seqs
  <2>4. Len(known) \in Nat
    BY <1>7, LenProperties
  <2>5. Len(a) + 1 \in 1 .. Len(known)
    BY <2>3, <2>4
  <2>6. known[Len(a) + 1] = b[1] /\ b[1] = SentField(host, Named(no))
    BY <2>2, <2>3 DEF b
  <2> QED
    BY <2>5, <2>6
<1> HIDE DEF seqs, known, rest, fs
<1>10. /\ fs \in Seq(Field) /\ Len(fs) = Len(known) + Len(rest)
       /\ \A i \in 1 .. Len(known) : fs[i] = known[i]
       /\ \A i \in 1 .. Len(rest) : fs[Len(known) + i] = rest[i]
  BY <1>1, <1>5, <1>7, ConcatFacts
<1>11. Len(known) \in Nat /\ Len(rest) \in Nat
  BY <1>5, <1>7, LenProperties
<1>12. ASSUME NEW i \in 1 .. Len(fs)
       PROVE  \/ \E no \in 1 .. 10 : host[Named(no)] # None /\ fs[i] = SentField(host, Named(no))
              \/ Sendable(fs[i]) /\ fs[i].no > 10
  <2>1. CASE i <= Len(known)
    <3>1. i \in 1 .. Len(known)
      BY <1>11, <2>1
    <3> QED
      BY <1>8, <1>10, <3>1
  <2>2. CASE ~ (i <= Len(known))
    <3>1. i - Len(known) \in 1 .. Len(rest) /\ Len(known) + (i - Len(known)) = i
      BY <1>10, <1>11, <2>2
    <3>2. fs[i] = rest[i - Len(known)]
      BY <1>10, <3>1
    <3> QED
      BY <1>5, <3>1, <3>2
  <2> QED
    BY <2>1, <2>2
<1>13. AreSendable(fs)
  <2>1. ASSUME NEW i \in 1 .. Len(fs)
        PROVE  Sendable(fs[i])
    <3>1. CASE \E no \in 1 .. 10 : host[Named(no)] # None /\ fs[i] = SentField(host, Named(no))
      BY <1>2, <3>1, SentFieldFacts
    <3> QED
      BY <1>12, <3>1
  <2> QED
    BY <1>10, <2>1 DEF AreSendable
<1>14. ASSUME NEW f \in DOMAIN FieldNo
       PROVE  /\ \A i \in 1 .. Len(fs) :
                    fs[i].no = FieldNo[f] => host[f] # None /\ fs[i] = SentField(host, f)
              /\ host[f] # None => \E i \in 1 .. Len(fs) : fs[i].no = FieldNo[f]
  <2>0. FieldNo[f] \in 1 .. 10 /\ Named(FieldNo[f]) = f
    BY <1>2, FieldNumbers
  <2>1. ASSUME NEW i \in 1 .. Len(fs), fs[i].no = FieldNo[f]
        PROVE  host[f] # None /\ fs[i] = SentField(host, f)
    <3>1. ~ (fs[i].no > 10)
      BY <2>0, <2>1
    <3>2. PICK no \in 1 .. 10 : host[Named(no)] # None /\ fs[i] = SentField(host, Named(no))
      BY <1>12, <3>1
    <3>3. fs[i].no = no
      BY <1>2, <3>2, SentFieldFacts
    <3> QED
      BY <2>0, <2>1, <3>2, <3>3
  <2>2. ASSUME host[f] # None
        PROVE  \E i \in 1 .. Len(fs) : fs[i].no = FieldNo[f]
    <3>1. PICK i \in 1 .. Len(known) : known[i] = SentField(host, f)
      BY <1>9, <2>0, <2>2
    <3>2. i \in 1 .. Len(fs) /\ fs[i] = SentField(host, f)
      BY <1>10, <1>11, <3>1
    <3> QED
      BY <2>2, <3>2, SentFieldFacts
  <2> QED
    BY <2>1, <2>2
<1>15. AreFieldsOf(fs, host)
  BY <1>13, <1>14 DEF AreFieldsOf
<1> QED
  BY <1>15 DEF fs

(* A text without a zero is read as it is.                                 *)
LEMMA TextIsRead ==
    ASSUME NEW text \in Seq(1 .. Base - 1), NEW reader
    PROVE  AsText(reader, text) = text
<1> DEFINE N == Len(text)
           T == {0} \cup {i \in DOMAIN text : text[i] # 0}
<1>1. N \in Nat /\ DOMAIN text = 1 .. N /\ \A i \in 1 .. N : text[i] \in 1 .. Base - 1
  BY LenProperties, ElementOfSeq
<1>2. \A n \in 1 .. Base - 1 : n < Base /\ n # 0
  BY WireNumbers
<1>3. \A i \in DOMAIN text : text[i] < Base
  BY <1>1, <1>2
<1>4. T = 0 .. N
  <2>1. \A i \in 1 .. N : i \in T
    BY <1>1, <1>2
  <2>2. \A i \in T : i = 0 \/ i \in 1 .. N
    BY <1>1
  <2> HIDE DEF T
  <2>3. \A i : i \in 0 .. N <=> i = 0 \/ i \in 1 .. N
    BY <1>1
  <2>4. 0 \in T
    BY DEF T
  <2> QED
    BY <2>1, <2>2, <2>3, <2>4
<1> HIDE DEF T
<1>5. Max(T) = N
  <2>1. IsFiniteSet(0 .. N) /\ 0 .. N \in SUBSET Int /\ 0 .. N # {}
    <3>1. 0 \in Int /\ N \in Int /\ 0 \in 0 .. N /\ \A i \in 0 .. N : i \in Int
      BY <1>1
    <3>2. IsFiniteSet(0 .. N)
      BY <3>1, FS_Interval
    <3> HIDE DEF N
    <3> QED
      BY <3>1, <3>2
  <2>2. Max(T) \in 0 .. N /\ \A x \in 0 .. N : x <= Max(T)
    BY <1>4, <2>1, MaxIsGreatest
  <2>3. N \in 0 .. N
    BY <1>1
  <2> QED
    BY <1>1, <2>2, <2>3
<1>6. Stripped(text) = text
  BY <1>5, SubSeqFull DEF Stripped, T
<1> QED
  BY <1>3, <1>6 DEF AsText

(* What is made of one of a client's fields is what the client has in it.  *)
LEMMA RawIsShown ==
    ASSUME NEW host, WellFormedHost(host), NEW fs, AreFieldsOf(fs, host),
           NEW f \in DOMAIN FieldNo, NEW reader
    PROVE  Raw(reader, fs, f) = host[f]
<1> DEFINE of == {i \in DOMAIN fs : fs[i].no = FieldNo[f] /\ fs[i].wire \in {0, 2}}
           field == fs[Max(of)]
           x == SentField(host, f)
<1>1. DOMAIN fs = 1 .. Len(fs) /\ Len(fs) \in Nat /\ \A i \in 1 .. Len(fs) : Sendable(fs[i])
  BY LenProperties DEF AreFieldsOf, AreSendable
<1>2. \A i \in 1 .. Len(fs) : fs[i].no = FieldNo[f] => host[f] # None /\ fs[i] = x
  BY DEF AreFieldsOf
<1>3. Raw(reader, fs, f) =
         IF of = {} THEN None
         ELSE IF field.wire = 2 THEN AsText(reader, field.value)
         ELSE IF f # "signal" THEN field.value
         ELSE IF reader = "hostinfo" THEN Signed(field.value % HalfWord, HalfWord)
         ELSE Signed(field.value, Word)
  BY DEF Raw
<1>4. CASE host[f] = None
  <2>1. of = {}
    BY <1>1, <1>2, <1>4
  <2> QED
    BY <1>3, <1>4, <2>1
<1>5. CASE host[f] # None
  <2>1. PICK i \in 1 .. Len(fs) : fs[i].no = FieldNo[f]
    BY <1>5 DEF AreFieldsOf
  <2>2. fs[i] = x /\ x.wire \in {0, 2}
    <3>1. x.wire = 0 \/ x.wire = 2
      BY DEF SentField
    <3> QED
      BY <1>2, <2>1, <3>1
  <2>3. i \in of
    BY <1>1, <2>1, <2>2
  <2>4. of \in SUBSET Int /\ IsFiniteSet(of)
    <3>1. of \subseteq 1 .. Len(fs)
      BY <1>1
    <3>2. IsFiniteSet(1 .. Len(fs))
      BY <1>1, FS_Interval
    <3> HIDE DEF of
    <3>3. IsFiniteSet(of)
      BY <3>1, <3>2, FS_Subset
    <3>4. 1 .. Len(fs) \subseteq Int
      BY <1>1
    <3> QED
      BY <3>1, <3>3, <3>4
  <2>5. Max(of) \in of
    <3> HIDE DEF of
    <3> QED
      BY <2>3, <2>4, MaxIsGreatest
  <2>6. field = x
    <3>1. Max(of) \in 1 .. Len(fs) /\ fs[Max(of)].no = FieldNo[f]
      BY <1>1, <2>5
    <3> QED
      BY <1>2, <3>1
  <2>7. of # {}
    BY <2>3
  <2> HIDE DEF of, field
  <2>8. CASE f \in TextFields
    <3>1. x.wire = 2 /\ x.value = host[f]
      BY <2>8 DEF SentField
    <3>2. Raw(reader, fs, f) = AsText(reader, host[f])
      BY <1>3, <2>6, <2>7, <3>1
    <3>3. host[f] \in Seq(1 .. Base - 1)
      BY <1>5, <2>8 DEF WellFormedHost
    <3>4. AsText(reader, host[f]) = host[f]
      BY <3>3, TextIsRead
    <3> QED
      BY <3>2, <3>4
  <2>9. CASE f = "signal"
    <3>1. x.wire = 0 /\ x.value = host[f] % Word
      BY <2>9, FieldNumbers DEF SentField
    <3>2. host[f] \in -(HalfWord \div 2) .. (HalfWord \div 2) - 1
      BY <1>5, <2>9 DEF WellFormedHost
    <3>3. /\ Signed(host[f] % Word, Word) = host[f]
          /\ Signed((host[f] % Word) % HalfWord, HalfWord) = host[f]
      BY <3>2, SignalIsRead
    <3>4. /\ field.wire # 2 /\ field.value = host[f] % Word
      BY <2>6, <3>1
    <3> QED
      BY <1>3, <2>7, <2>9, <3>3, <3>4
  <2>10. CASE f \notin TextFields /\ f # "signal"
    <3>1. x.wire = 0 /\ x.value = host[f] % Word
      BY <2>10 DEF SentField
    <3>2. host[f] \in 0 .. Word - 1
      BY <1>5, <2>10 DEF WellFormedHost
    <3>3. host[f] % Word = host[f]
      <4>1. \A n \in 0 .. Word - 1 : n % Word = n
        BY WireNumbers
      <4> QED
        BY <3>2, <4>1
    <3>4. field.wire # 2 /\ field.value = host[f]
      BY <2>6, <3>1, <3>3
    <3> QED
      BY <1>3, <2>7, <2>10, <3>4
  <2> QED
    BY <2>8, <2>9, <2>10
<1> QED
  BY <1>4, <1>5

(* A client's fields are decoded to the client.                            *)
LEMMA RecordIsShown ==
    ASSUME NEW host, WellFormedHost(host), NEW reader
    PROVE  /\ Record(reader, FieldsOf(host)) = Shown(reader, host)
           /\ Shown(reader, host) \in Records
           /\ Shown(reader, host) # Error
<1>1. \A f \in DOMAIN FieldNo : Raw(reader, FieldsOf(host), f) = host[f]
  BY FieldsOfFacts, RawIsShown
<1>2. Record(reader, FieldsOf(host)) = Shown(reader, host)
  BY <1>1 DEF Record, Shown
<1>3. ASSUME NEW f \in DOMAIN FieldNo
      PROVE  Shown(reader, host)[f] \in Int \cup Seq(Nat) \cup {None}
  <2>1. Shown(reader, host)[f] = IF host[f] = None THEN Defaulted(reader, f) ELSE host[f]
    BY DEF Shown
  <2>2. CASE host[f] = None
    <3>1. Defaulted(reader, f) = <<>> \/ Defaulted(reader, f) = None
      BY DEF Defaulted
    <3>2. <<>> \in Seq(Nat)
      BY EmptySeq
    <3> QED
      BY <2>1, <2>2, <3>1, <3>2
  <2>3. CASE host[f] # None /\ f \in TextFields
    <3>1. host[f] \in Seq(1 .. Base - 1) /\ 1 .. Base - 1 \subseteq Nat
      BY <2>3, WireNumbers DEF WellFormedHost
    <3>2. host[f] \in Seq(Nat)
      BY <3>1, SeqMonotonic
    <3> QED
      BY <2>1, <2>3, <3>2
  <2>4. CASE host[f] # None /\ f \notin TextFields
    <3>1. host[f] \in Int
      <4>1. CASE f = "signal"
        BY <2>4, <4>1, WireParameters DEF WellFormedHost
      <4>2. CASE f # "signal"
        BY <2>4, <4>2 DEF WellFormedHost
      <4> QED
        BY <4>1, <4>2
    <3> QED
      BY <2>1, <2>4, <3>1
  <2> QED
    BY <2>2, <2>3, <2>4
<1>4. Shown(reader, host) \in Records
  BY <1>3 DEF Records, Shown
<1> QED
  BY <1>2, <1>4, WireParameters

-----------------------------------------------------------------------------
(* ... and lists.                                                          *)

(* What At picks, as one sequence of at most one element for each place.   *)
Picks(s, places) == [i \in DOMAIN s |-> IF i \in places THEN <<s[i]>> ELSE <<>>]

(* Their sequences.                                                        *)
ArePicks(S, s, places, p) ==
    /\ p \in Seq(Seq(S)) /\ Len(p) = Len(s)
    /\ \A i \in 1 .. Len(s) : p[i] = IF i \in places THEN <<s[i]>> ELSE <<>>

(* At flattens them.                                                       *)
LEMMA PicksFacts ==
    ASSUME NEW S, NEW s \in Seq(S), NEW places
    PROVE  /\ At(s, places) = FlattenSeq(Picks(s, places))
           /\ ArePicks(S, s, places, Picks(s, places))
<1> DEFINE N == Len(s)
           p == Picks(s, places)
<1>1. N \in Nat /\ DOMAIN s = 1 .. N /\ \A i \in 1 .. N : s[i] \in S
  BY LenProperties, ElementOfSeq
<1>2. p = [i \in 1 .. N |-> IF i \in places THEN <<s[i]>> ELSE <<>>]
  BY <1>1 DEF Picks
<1>3. \A i \in 1 .. N : (IF i \in places THEN <<s[i]>> ELSE <<>>) \in Seq(S)
  BY <1>1
<1>4. At(s, places) = FlattenSeq(p)
  BY DEF At, Picks
<1> HIDE DEF N, p
<1>5. p \in Seq(Seq(S)) /\ Len(p) = N
  BY <1>1, <1>2, <1>3
<1>6. \A i \in 1 .. N : p[i] = IF i \in places THEN <<s[i]>> ELSE <<>>
  BY <1>2
<1>7. ArePicks(S, s, places, p)
  BY <1>5, <1>6 DEF ArePicks, N
<1> QED
  BY <1>4, <1>7 DEF p

(* At all places there is the whole sequence.                              *)
LEMMA AtAllPlaces ==
    ASSUME NEW S, NEW s \in Seq(S), NEW places, 1 .. Len(s) \subseteq places
    PROVE  At(s, places) = s
<1> DEFINE N == Len(s)
           p == Picks(s, places)
<1>1. N \in Nat
  BY LenProperties
<1>2. At(s, places) = FlattenSeq(p) /\ p \in Seq(Seq(S)) /\ Len(p) = N
      /\ \A i \in 1 .. N : p[i] = <<s[i]>>
  BY PicksFacts DEF ArePicks
<1> HIDE DEF p
<1>3. PICK g \in [0 .. Len(p) -> Seq(S)] : Flattens(p, g) /\ FlattenSeq(p) = g[Len(p)]
  BY <1>2, FlattenSteps
<1>4. g \in [0 .. N -> Seq(S)] /\ g[0] = <<>> /\ \A n \in 1 .. N : g[n] = g[n - 1] \o <<s[n]>>
  BY <1>2, <1>3 DEF Flattens
<1> DEFINE T == {n \in 0 .. N : Len(g[n]) = n /\ \A i \in 1 .. n : g[n][i] = s[i]}
<1>5. 0 \in T
  BY <1>1, <1>4
<1>6. ASSUME NEW n \in 0 .. N - 1, n \in T
      PROVE  n + 1 \in T
  <2> DEFINE a == g[n]
             b == <<s[n + 1]>>
             c == g[n + 1]
  <2>1. n + 1 \in 1 .. N /\ (n + 1) - 1 = n /\ n \in 0 .. N /\ n + 1 \in 0 .. N
    BY <1>1
  <2>2. a \in Seq(S) /\ c = a \o b
    BY <1>4, <2>1
  <2>3. b \in Seq(S) /\ Len(b) = 1 /\ b[1] = s[n + 1]
    <3>1. s[n + 1] \in S
      BY <2>1, ElementOfSeq
    <3> QED
      BY <3>1
  <2>4. Len(a) = n /\ \A i \in 1 .. n : a[i] = s[i]
    BY <1>6
  <2> HIDE DEF a, b, c, N
  <2>5. /\ Len(c) = Len(a) + Len(b)
        /\ \A i \in 1 .. Len(a) : c[i] = a[i]
        /\ \A i \in 1 .. Len(b) : c[Len(a) + i] = b[i]
    <3>1. a \in Seq(S) /\ b \in Seq(S) /\ c = a \o b
      BY <2>2, <2>3
    <3> HIDE DEF T
    <3> QED
      BY <3>1, ConcatFacts
  <2>6. Len(c) = n + 1 /\ (\A i \in 1 .. n : c[i] = s[i]) /\ c[n + 1] = s[n + 1]
    BY <2>3, <2>4, <2>5
  <2>7. \A i \in 1 .. n + 1 : c[i] = s[i]
    BY <2>6
  <2> QED
    BY <2>1, <2>6, <2>7 DEF c
<1>7. N \in T
  <2> HIDE DEF T, N
  <2>1. \A n \in 0 .. N : n \in T
    BY <1>1, <1>5, <1>6, UpToInduction
  <2> QED
    BY <1>1, <2>1
<1> DEFINE all == g[N]
<1>8. all \in Seq(S) /\ Len(all) = N /\ \A i \in 1 .. N : all[i] = s[i]
  <2>1. N \in 0 .. N
    BY <1>1
  <2> QED
    BY <1>4, <1>7, <2>1
<1>9. At(s, places) = all
  BY <1>2, <1>3
<1> HIDE DEF all
<1>10. all = s
  BY <1>8, SeqEqual DEF N
<1> QED
  BY <1>9, <1>10

(* At no place there is nothing.                                           *)
LEMMA AtNoPlace ==
    ASSUME NEW S, NEW s \in Seq(S), NEW places, \A i \in 1 .. Len(s) : i \notin places
    PROVE  At(s, places) = <<>>
<1> DEFINE N == Len(s)
           p == Picks(s, places)
<1>1. N \in Nat
  BY LenProperties
<1>2. At(s, places) = FlattenSeq(p) /\ p \in Seq(Seq(S)) /\ Len(p) = N
      /\ \A i \in 1 .. N : p[i] = <<>>
  BY PicksFacts DEF ArePicks
<1> HIDE DEF p
<1>3. PICK g \in [0 .. Len(p) -> Seq(S)] : Flattens(p, g) /\ FlattenSeq(p) = g[Len(p)]
  BY <1>2, FlattenSteps
<1>4. g \in [0 .. N -> Seq(S)] /\ g[0] = <<>> /\ \A n \in 1 .. N : g[n] = g[n - 1] \o <<>>
  BY <1>2, <1>3 DEF Flattens
<1> DEFINE T == {n \in 0 .. N : g[n] = <<>>}
<1>5. 0 \in T
  BY <1>1, <1>4
<1>6. ASSUME NEW n \in 0 .. N - 1, n \in T
      PROVE  n + 1 \in T
  <2>1. n + 1 \in 1 .. N /\ (n + 1) - 1 = n /\ n + 1 \in 0 .. N
    BY <1>1
  <2>2. g[n + 1] = <<>> \o <<>>
    BY <1>4, <1>6, <2>1
  <2>3. <<>> \o <<>> = <<>>
    OBVIOUS
  <2> QED
    BY <2>1, <2>2, <2>3
<1>7. N \in T
  <2> HIDE DEF T, N
  <2>1. \A n \in 0 .. N : n \in T
    BY <1>1, <1>5, <1>6, UpToInduction
  <2> QED
    BY <1>1, <2>1
<1> QED
  BY <1>2, <1>3, <1>7

(* What is picked from the beginning of a sequence is the beginning of     *)
(* what is picked from all of it.                                          *)
LEMMA AtBeginning ==
    ASSUME NEW S, NEW s \in Seq(S), NEW t \in Seq(S), Len(t) <= Len(s),
           \A i \in 1 .. Len(t) : t[i] = s[i],
           NEW P, NEW Q, \A i \in 1 .. Len(t) : i \in P <=> i \in Q
    PROVE  IsPrefix(At(t, P), At(s, Q))
<1> DEFINE N == Len(s)
           k == Len(t)
           p == Picks(t, P)
           q == Picks(s, Q)
<1>1. N \in Nat /\ k \in Nat /\ k <= N
  BY LenProperties
<1>2. /\ At(t, P) = FlattenSeq(p) /\ p \in Seq(Seq(S)) /\ Len(p) = k
      /\ \A i \in 1 .. k : p[i] = IF i \in P THEN <<t[i]>> ELSE <<>>
  <2>1. At(t, P) = FlattenSeq(p) /\ ArePicks(S, t, P, p)
    BY PicksFacts
  <2> HIDE DEF p
  <2> QED
    BY <2>1 DEF ArePicks
<1>3. /\ At(s, Q) = FlattenSeq(q) /\ q \in Seq(Seq(S)) /\ Len(q) = N
      /\ \A i \in 1 .. N : q[i] = IF i \in Q THEN <<s[i]>> ELSE <<>>
  <2>1. At(s, Q) = FlattenSeq(q) /\ ArePicks(S, s, Q, q)
    BY PicksFacts
  <2> HIDE DEF q
  <2> QED
    BY <2>1 DEF ArePicks
<1> HIDE DEF p, q
<1>4. PICK g \in [0 .. Len(p) -> Seq(S)] : Flattens(p, g) /\ FlattenSeq(p) = g[Len(p)]
  BY <1>2, FlattenSteps
<1>5. PICK h \in [0 .. Len(q) -> Seq(S)] : Flattens(q, h) /\ FlattenSeq(q) = h[Len(q)]
  BY <1>3, FlattenSteps
<1>6. \A n \in 1 .. k : p[n] = q[n]
  <2>1. \A n \in 1 .. k : n \in 1 .. N /\ t[n] = s[n]
    BY <1>1
  <2> QED
    BY <1>2, <1>3, <2>1
<1> HIDE DEF N, k
<1>7. \A n \in 0 .. k : g[n] = h[n]
  <2>1. /\ Flattens(p, g) /\ Flattens(q, h) /\ k \in Nat /\ Len(p) \in Nat /\ Len(q) \in Nat
        /\ k <= Len(p) /\ k <= Len(q)
    BY <1>1, <1>2, <1>3, <1>4, <1>5
  <2>2. Alike(p, q, 1 .. k)
    BY <1>6 DEF Alike
  <2>3. Alike(g, h, 0 .. k)
    BY <2>1, <2>2, FlattenAlike
  <2> QED
    BY <2>3 DEF Alike
<1>8. k \in 0 .. k /\ N \in 0 .. N /\ k \in 0 .. N /\ N \in k .. N
  BY <1>1
<1>9. Begins(h[k], h[N])
  BY <1>3, <1>5, <1>8, FlattenGrows
<1>10. g[k] = h[k] /\ h[k] \in Seq(S) /\ h[N] \in Seq(S)
  BY <1>3, <1>5, <1>7, <1>8
<1>11. IsPrefix(h[k], h[N])
  BY <1>9, <1>10, BeginsIsPrefix
<1> QED
  BY <1>2, <1>3, <1>4, <1>5, <1>10, <1>11

(* A list's fields: each can be sent, and holds its client's.              *)
LEMMA HostFieldsFacts ==
    ASSUME NEW clients \in Seq(Hosts)
    PROVE  /\ AreSendable(HostFields(clients)) /\ Len(HostFields(clients)) = Len(clients)
           /\ \A i \in 1 .. Len(clients) :
                 HostFields(clients)[i] =
                    [no |-> 1, wire |-> 2, value |-> EncodeFields(FieldsOf(clients[i]))]
<1> DEFINE N == Len(clients)
           fs == HostFields(clients)
           x(i) == [no |-> 1, wire |-> 2, value |-> EncodeFields(FieldsOf(clients[i]))]
<1>1. N \in Nat /\ DOMAIN clients = 1 .. N /\ \A i \in 1 .. N : clients[i] \in Hosts
  BY LenProperties, ElementOfSeq
<1>2. fs = [i \in 1 .. N |-> x(i)]
  BY <1>1 DEF HostFields
<1>3. ASSUME NEW i \in 1 .. N
      PROVE  Sendable(x(i)) /\ x(i) \in Field
  <2> DEFINE v == EncodeFields(FieldsOf(clients[i]))
             y == x(i)
  <2>1. WellFormedHost(clients[i])
    BY <1>1, WireParameters
  <2>2. Len(v) < Word
    BY <2>1 DEF WellFormedHost
  <2>3. v \in Seq(Bytes)
    BY <2>1, FieldsOfFacts, FieldsHaveEnds DEF AreFieldsOf
  <2>4. 1 \in Nat \ {0} /\ 8 * 1 + 7 < Word
    BY WireNumbers
  <2>5. y = [no |-> 1, wire |-> 2, value |-> v]
    OBVIOUS
  <2> HIDE DEF v, y
  <2>6. Sendable(y)
    BY <2>2, <2>3, <2>4, <2>5 DEF Sendable
  <2>7. y \in Field
    BY <2>6, SendableIsField
  <2> QED
    BY <2>6, <2>7 DEF y
<1> HIDE DEF x, N, fs
<1>4. fs \in Seq(Field) /\ Len(fs) = N /\ \A i \in 1 .. N : fs[i] = x(i)
  BY <1>1, <1>2, <1>3
<1>5. AreSendable(fs)
  BY <1>3, <1>4 DEF AreSendable
<1> QED
  BY <1>4, <1>5 DEF x, N, fs

(* Each of the messages in a list is decoded to its client.                *)
LEMMA ClientIsDecoded ==
    ASSUME NEW host \in Hosts, NEW reader
    PROVE  /\ DecodeRecord(reader, ProtobufFields(reader, EncodeFields(FieldsOf(host))))
                = Shown(reader, host)
           /\ Shown(reader, host) \in Records /\ Shown(reader, host) # Error
<1> DEFINE fs == FieldsOf(host)
           buf == EncodeFields(fs)
<1>1. WellFormedHost(host)
  BY WireParameters
<1>2. AreSendable(fs)
  BY <1>1, FieldsOfFacts DEF AreFieldsOf
<1>3. Record(reader, fs) = Shown(reader, host) /\ Shown(reader, host) \in Records
      /\ Shown(reader, host) # Error
  BY <1>1, RecordIsShown
<1> HIDE DEF fs
<1>4. buf \in Seq(Bytes)
  BY <1>2, FieldsHaveEnds
<1>5. buf \in Seq(Nat) /\ Len(buf) \in Nat
  BY <1>4, BytesAreNumbers
<1>6. Begins(buf, buf)
  BY <1>5 DEF Begins
<1>7. ProtobufFields(reader, buf) = fs
  BY <1>2, <1>5, <1>6, MessageIsRead
<1>8. fs # Error
  BY <1>2, WireParameters DEF AreSendable
<1> QED
  BY <1>3, <1>7, <1>8 DEF DecodeRecord, fs

(* The clients of a list, as a reader shows them.                          *)
ShownOf(reader, clients) == [i \in DOMAIN clients |-> Shown(reader, clients[i])]

(* They are records and no errors.                                         *)
LEMMA ShownOfFacts ==
    ASSUME NEW reader, NEW clients \in Seq(Hosts)
    PROVE  /\ ShownOf(reader, clients) \in Seq(Records)
           /\ Len(ShownOf(reader, clients)) = Len(clients)
           /\ \A i \in 1 .. Len(clients) :
                 /\ ShownOf(reader, clients)[i] = Shown(reader, clients[i])
                 /\ ShownOf(reader, clients)[i] # Error
<1> DEFINE N == Len(clients)
           w == ShownOf(reader, clients)
           x(i) == Shown(reader, clients[i])
<1>1. N \in Nat /\ DOMAIN clients = 1 .. N /\ \A i \in 1 .. N : clients[i] \in Hosts
  BY LenProperties, ElementOfSeq
<1>2. w = [i \in 1 .. N |-> x(i)]
  BY <1>1 DEF ShownOf
<1>3. \A i \in 1 .. N : x(i) \in Records /\ x(i) # Error
  BY <1>1, ClientIsDecoded
<1> HIDE DEF x, N, w
<1>4. w \in Seq(Records) /\ Len(w) = N
  BY <1>1, <1>2, <1>3
<1>5. \A i \in 1 .. N : w[i] = x(i) /\ w[i] # Error
  BY <1>2, <1>3
<1> QED
  BY <1>4, <1>5 DEF x, N, w

(* A list that is there as it was sent is decoded to its clients.          *)
LEMMA ListIsDecoded ==
    ASSUME NEW reader, NEW clients \in Seq(Hosts)
    PROVE  DecodeLists(reader, HostFields(clients)) = Expected(reader, clients)
<1> DEFINE N == Len(clients)
           fs == HostFields(clients)
           w == ShownOf(reader, clients)
           ones == {i \in DOMAIN fs : fs[i].no = 1}
           rest == DOMAIN fs \ ones
           good == {i \in DOMAIN w : Addressed(w[i])}
           kept == {i \in DOMAIN w : w[i] # Error /\ Addressed(w[i])}
           read(m) == [i \in DOMAIN m |-> DecodeRecord(reader, ProtobufFields(reader, m[i].value))]
<1>1. /\ N \in Nat /\ fs \in Seq(Field) /\ Len(fs) = N /\ DOMAIN fs = 1 .. N
      /\ \A i \in 1 .. N : fs[i] = [no |-> 1, wire |-> 2, value |-> EncodeFields(FieldsOf(clients[i]))]
  BY HostFieldsFacts, LenProperties DEF AreSendable
<1>2. /\ w \in Seq(Records) /\ Len(w) = N /\ DOMAIN w = 1 .. N
      /\ \A i \in 1 .. N : w[i] = Shown(reader, clients[i]) /\ w[i] # Error
  BY <1>1, ShownOfFacts, LenProperties
<1>3. Expected(reader, clients) = IF reader = "hostinfo" THEN At(w, good) ELSE w
  BY DEF Expected, ShownOf
<1>4. ones = 1 .. N /\ rest = {}
  BY <1>1
<1>5. Messages(fs, ones) = fs
  <2> DEFINE p == {i \in ones : fs[i].wire = 2}
  <2>1. 1 .. Len(fs) \subseteq p
    BY <1>1, <1>4
  <2> HIDE DEF p, fs, ones
  <2>2. At(fs, p) = fs
    BY <1>1, <2>1, AtAllPlaces
  <2> QED
    BY <2>2 DEF Messages, p
<1>6. Messages(fs, rest) = <<>>
  <2> DEFINE p == {i \in rest : fs[i].wire = 2}
  <2>1. \A i \in 1 .. Len(fs) : i \notin p
    BY <1>4
  <2> HIDE DEF p, fs, rest
  <2>2. At(fs, p) = <<>>
    BY <1>1, <2>1, AtNoPlace
  <2> QED
    BY <2>2 DEF Messages, p
<1>7. read(fs) = w
  <2>1. ASSUME NEW i \in 1 .. N
        PROVE  DecodeRecord(reader, ProtobufFields(reader, fs[i].value)) = w[i]
    <3>1. clients[i] \in Hosts
      BY ElementOfSeq
    <3>2. fs[i].value = EncodeFields(FieldsOf(clients[i]))
      BY <1>1
    <3> QED
      BY <1>2, <3>1, <3>2, ClientIsDecoded
  <2>2. w = [i \in 1 .. N |-> w[i]]
    BY <1>2
  <2> HIDE DEF w, fs
  <2> QED
    BY <1>1, <2>1, <2>2
<1>8. DecodeRecords(reader, fs) = Expected(reader, clients)
  <2>1. kept = good
    BY <1>2
  <2>2. ~ Contains(w, Error)
    BY <1>2 DEF Contains
  <2>3. DecodeRecords(reader, fs) =
           IF reader = "hostinfo" THEN At(w, kept) ELSE IF Contains(w, Error) THEN Error ELSE w
    BY <1>7 DEF DecodeRecords
  <2> HIDE DEF kept, good, w
  <2> QED
    BY <1>3, <2>1, <2>2, <2>3
<1>9. ASSUME reader = "hostinfo"
      PROVE  DecodeRecords(reader, <<>>) = <<>>
  <2>1. read(<<>>) = <<>>
    OBVIOUS
  <2> DEFINE none == {i \in DOMAIN read(<<>>) : read(<<>>)[i] # Error /\ Addressed(read(<<>>)[i])}
  <2>2. DecodeRecords(reader, <<>>) = At(read(<<>>), none)
    BY <1>9 DEF DecodeRecords
  <2>3. At(<<>>, none) = <<>>
    <3> HIDE DEF none
    <3>1. <<>> \in Seq(Nat) /\ \A i \in 1 .. Len(<<>>) : i \notin none
      BY EmptySeq
    <3> QED
      BY <3>1, AtNoPlace
  <2> HIDE DEF none, read
  <2> QED
    BY <2>1, <2>2, <2>3
<1>10. DecodeLists(reader, fs) =
          IF reader = "hostinfo" /\ DecodeRecords(reader, Messages(fs, ones)) = <<>>
          THEN DecodeRecords(reader, Messages(fs, rest))
          ELSE DecodeRecords(reader, Messages(fs, ones))
  BY DEF DecodeLists
<1> HIDE DEF fs, ones, rest
<1> QED
  BY <1>5, <1>6, <1>8, <1>9, <1>10 DEF fs

(* Of the first clients of a list a reader shows the first it would show.  *)
LEMMA FirstAreExpected ==
    ASSUME NEW reader, NEW clients \in Seq(Hosts), NEW k \in 0 .. Len(clients)
    PROVE  IsPrefix(Expected(reader, SubSeq(clients, 1, k)), Expected(reader, clients))
<1> DEFINE first == SubSeq(clients, 1, k)
           v == ShownOf(reader, first)
           w == ShownOf(reader, clients)
           P == {i \in DOMAIN v : Addressed(v[i])}
           Q == {i \in DOMAIN w : Addressed(w[i])}
<1>1. first \in Seq(Hosts) /\ Len(first) = k /\ \A i \in 1 .. k : first[i] = clients[i]
  BY FirstElements
<1>2. Len(clients) \in Nat /\ \A i \in 1 .. k : i \in 1 .. Len(clients)
  BY LenProperties
<1> HIDE DEF first
<1>3. /\ v \in Seq(Records) /\ Len(v) = k /\ DOMAIN v = 1 .. k
      /\ \A i \in 1 .. k : v[i] = Shown(reader, first[i])
  BY <1>1, ShownOfFacts, LenProperties
<1>4. /\ w \in Seq(Records) /\ Len(w) = Len(clients) /\ DOMAIN w = 1 .. Len(clients)
      /\ \A i \in 1 .. Len(clients) : w[i] = Shown(reader, clients[i])
  BY ShownOfFacts, LenProperties
<1>5. /\ Expected(reader, first) = IF reader = "hostinfo" THEN At(v, P) ELSE v
      /\ Expected(reader, clients) = IF reader = "hostinfo" THEN At(w, Q) ELSE w
  BY DEF Expected, ShownOf
<1>6. Len(v) <= Len(w) /\ \A i \in 1 .. Len(v) : v[i] = w[i]
  BY <1>1, <1>2, <1>3, <1>4
<1>7. \A i \in 1 .. Len(v) : i \in P <=> i \in Q
  BY <1>2, <1>3, <1>4, <1>6
<1> HIDE DEF v, w, P, Q
<1>8. IsPrefix(At(v, P), At(w, Q))
  BY <1>3, <1>4, <1>6, <1>7, AtBeginning
<1>9. IsPrefix(v, w)
  <2>1. Begins(v, w)
    BY <1>2, <1>3, <1>4, <1>6 DEF Begins
  <2> QED
    BY <1>3, <1>4, <2>1, BeginsIsPrefix
<1> QED
  BY <1>5, <1>8, <1>9 DEF first

(* The fields of the first clients of a list.                              *)
LEMMA FirstHostFields ==
    ASSUME NEW clients \in Seq(Hosts), NEW k \in 0 .. Len(clients)
    PROVE  SubSeq(HostFields(clients), 1, k) = HostFields(SubSeq(clients, 1, k))
<1> DEFINE first == SubSeq(clients, 1, k)
           a == SubSeq(HostFields(clients), 1, k)
           b == HostFields(first)
<1>1. first \in Seq(Hosts) /\ Len(first) = k /\ \A i \in 1 .. k : first[i] = clients[i]
  BY FirstElements
<1>2. Len(clients) \in Nat /\ \A i \in 1 .. k : i \in 1 .. Len(clients)
  BY LenProperties
<1>3. HostFields(clients) \in Seq(Field) /\ Len(HostFields(clients)) = Len(clients)
  BY HostFieldsFacts DEF AreSendable
<1>4. a \in Seq(Field) /\ Len(a) = k /\ \A i \in 1 .. k : a[i] = HostFields(clients)[i]
  BY <1>3, FirstElements
<1> HIDE DEF first
<1>5. /\ b \in Seq(Field) /\ Len(b) = k
      /\ \A i \in 1 .. k : b[i] = [no |-> 1, wire |-> 2, value |-> EncodeFields(FieldsOf(first[i]))]
  BY <1>1, HostFieldsFacts DEF AreSendable
<1>6. \A i \in 1 .. k : HostFields(clients)[i] =
         [no |-> 1, wire |-> 2, value |-> EncodeFields(FieldsOf(clients[i]))]
  BY <1>2, HostFieldsFacts
<1> HIDE DEF a, b
<1>7. \A i \in 1 .. k : a[i] = b[i]
  BY <1>1, <1>4, <1>5, <1>6
<1>8. a = b
  BY <1>4, <1>5, <1>7, SeqEqual
<1> QED
  BY <1>8 DEF a, b, first

(* The bytes of a payload after the status begin the message of a list.    *)
BeginsMessage(payload, clients) ==
    LET m == SubSeq(payload, 5, Len(payload)) IN
    /\ payload \in Seq(Nat) /\ m \in Seq(Nat)
    /\ Begins(m, EncodeFields(HostFields(clients)))
    /\ Len(payload) = Len(EncodeHosts(clients)) =>
          Len(m) = Len(EncodeFields(HostFields(clients)))

(* So do those of a payload, or of the first bytes of one.                 *)
LEMMA PayloadMessage ==
    ASSUME NEW clients \in Seq(Hosts), NEW n \in 0 .. Len(EncodeHosts(clients)),
           NEW payload, payload = SubSeq(EncodeHosts(clients), 1, n)
    PROVE  /\ EncodeHosts(clients) \in Seq(Nat) /\ Len(payload) = n
           /\ BeginsMessage(payload, clients)
<1> DEFINE E == EncodeFields(HostFields(clients))
           status == <<0, 0, 0, 0>>
           all == EncodeHosts(clients)
           m == SubSeq(payload, 5, Len(payload))
<1>1. E \in Seq(Nat) /\ Len(E) \in Nat
  BY HostFieldsFacts, FieldsHaveEnds, BytesAreNumbers
<1>2. status \in Seq(Nat) /\ Len(status) = 4
  OBVIOUS
<1>3. all = status \o E
  BY DEF EncodeHosts
<1> HIDE DEF E, status, all
<1>4. /\ all \in Seq(Nat) /\ Len(all) = Len(status) + Len(E)
      /\ \A i \in 1 .. Len(E) : all[Len(status) + i] = E[i]
  <2>1. E \in Seq(Nat) /\ status \in Seq(Nat)
    BY <1>1, <1>2
  <2> QED
    BY <1>3, <2>1, ConcatFacts
<1>5. Len(all) = 4 + Len(E) /\ \A i \in 1 .. Len(E) : all[4 + i] = E[i]
  BY <1>2, <1>4
<1>6. payload \in Seq(Nat) /\ Len(payload) = n /\ \A i \in 1 .. n : payload[i] = all[i]
  <2>1. n \in 0 .. Len(all) /\ payload = SubSeq(all, 1, n)
    BY DEF all
  <2> QED
    BY <1>4, <2>1, FirstElements
<1>7. n \in Nat /\ n <= 4 + Len(E)
  BY <1>1, <1>5 DEF all
<1>8. /\ m \in Seq(Nat) /\ Len(m) = IF 5 <= n THEN n - 5 + 1 ELSE 0
      /\ \A i \in 1 .. n - 5 + 1 : m[i] = payload[5 + i - 1]
  <2>1. \A i \in 5 .. n : payload[i] \in Nat
    <3>1. \A i \in 5 .. n : i \in 1 .. Len(payload)
      BY <1>6, <1>7
    <3> QED
      BY <1>6, <3>1, ElementOfSeq
  <2>2. 5 \in Int /\ n \in Int /\ m = SubSeq(payload, 5, n)
    BY <1>6, <1>7
  <2> HIDE DEF m
  <2> QED
    BY <2>1, <2>2, SubSeqProperties
<1> HIDE DEF m
<1>9. Len(m) \in Nat /\ Len(m) <= Len(E) /\ (n = 4 + Len(E) => Len(m) = Len(E))
  BY <1>1, <1>7, <1>8
<1>10. ASSUME NEW i \in 1 .. Len(m)
       PROVE  E[i] = m[i]
  <2>1. i \in 1 .. n - 5 + 1 /\ 5 + i - 1 = 4 + i /\ 4 + i \in 1 .. n /\ i \in 1 .. Len(E)
    BY <1>1, <1>7, <1>8, <1>9
  <2>2. m[i] = payload[4 + i]
    BY <1>8, <2>1
  <2>3. payload[4 + i] = all[4 + i]
    BY <1>6, <2>1
  <2>4. all[4 + i] = E[i]
    BY <1>5, <2>1
  <2> QED
    BY <2>2, <2>3, <2>4
<1>11. Begins(m, E)
  BY <1>1, <1>9, <1>10 DEF Begins
<1>12. BeginsMessage(payload, clients)
  BY <1>5, <1>6, <1>8, <1>9, <1>11 DEF BeginsMessage, all, E, m
<1> QED
  BY <1>4, <1>6, <1>12 DEF all

(* What is there at the start stays there.                                 *)
WireInv == list \in Seq(Hosts) /\ cut \in 0 .. Len(Sent)

(* The payload is that of a list of the clients there are, all the time.   *)
LEMMA WireInvariant == WireSpec => []WireInv
<1>1. WireInit => WireInv
  <2> SUFFICES ASSUME WireInit
               PROVE  WireInv
    OBVIOUS
  <2>1. PICK m \in 0 .. MaxListed : list \in [1 .. m -> Hosts]
    BY DEF WireInit, SeqOf
  <2>2. m \in Nat
    BY WireNumbers
  <2>3. list \in Seq(Hosts)
    BY <2>1, <2>2
  <2> QED
    BY <2>3 DEF WireInit, WireInv, Sent
<1>2. WireInv /\ [UNCHANGED wireVars]_wireVars => WireInv'
  <2> SUFFICES ASSUME WireInv, list' = list, cut' = cut
               PROVE  WireInv'
    BY DEF wireVars
  <2> QED
    BY DEF WireInv, Sent
<1> QED
  BY <1>1, <1>2, PTL DEF WireSpec

(* The readers get back the clients the router listed, of any list and any *)
(* widths: whatever the fields are that no reader knows (api.py:303-333).  *)
THEOREM EncodedHostsComeBack == WireSpec => []EncodedHostsAreDecoded
<1>1. WireInv => EncodedHostsAreDecoded
  <2> SUFFICES ASSUME WireInv, cut = Len(Sent), NEW reader \in Readers
               PROVE  DecodeHosts(reader, Sent) = Expected(reader, list)
    BY DEF EncodedHostsAreDecoded
  <2> DEFINE n == Len(EncodeHosts(list))
             payload == SubSeq(EncodeHosts(list), 1, n)
             m == SubSeq(payload, 5, Len(payload))
             fs == HostFields(list)
  <2>1. list \in Seq(Hosts) /\ n \in 0 .. n
    BY DEF WireInv, Sent
  <2>2. /\ EncodeHosts(list) \in Seq(Nat) /\ Len(payload) = n /\ m \in Seq(Nat)
        /\ Begins(m, EncodeFields(fs)) /\ Len(m) = Len(EncodeFields(fs))
    <3>1. payload = SubSeq(EncodeHosts(list), 1, n)
      OBVIOUS
    <3> HIDE DEF payload
    <3>2. EncodeHosts(list) \in Seq(Nat) /\ Len(payload) = n /\ BeginsMessage(payload, list)
      BY <2>1, <3>1, PayloadMessage
    <3> QED
      BY <3>2 DEF BeginsMessage
  <2>3. payload = Sent
    BY <2>2, SubSeqFull DEF Sent
  <2>4. AreSendable(fs) /\ fs # Error
    BY <2>1, HostFieldsFacts, WireParameters DEF AreSendable
  <2>5. ProtobufFields(reader, m) = fs
    <3> HIDE DEF m, fs
    <3> QED
      BY <2>2, <2>4, MessageIsRead
  <2>6. DecodeLists(reader, fs) = Expected(reader, list)
    BY <2>1, ListIsDecoded
  <2>7. n >= 4
    <3>1. <<0, 0, 0, 0>> \in Seq(Nat) /\ Len(<<0, 0, 0, 0>>) = 4
      OBVIOUS
    <3>2. EncodeFields(fs) \in Seq(Nat) /\ Len(EncodeFields(fs)) \in Nat
      BY <2>4, FieldsHaveEnds, BytesAreNumbers
    <3> HIDE DEF fs
    <3>3. Len(<<0, 0, 0, 0>> \o EncodeFields(fs)) = 4 + Len(EncodeFields(fs))
      BY <3>1, <3>2, ConcatProperties
    <3>4. n = 4 + Len(EncodeFields(fs))
      BY <3>3 DEF EncodeHosts, fs
    <3> HIDE DEF n
    <3> QED
      BY <3>2, <3>4
  <2>8. DecodeHosts(reader, payload) =
           IF Len(payload) < 4 /\ reader # "hostinfo" THEN Error
           ELSE IF ProtobufFields(reader, m) = Error THEN Error
           ELSE DecodeLists(reader, ProtobufFields(reader, m))
    BY DEF DecodeHosts
  <2>9. ~ (Len(payload) < 4)
    <3> HIDE DEF payload
    <3> QED
      BY <2>1, <2>2, <2>7
  <2> HIDE DEF payload, m, fs, n
  <2> QED
    BY <2>3, <2>4, <2>5, <2>6, <2>8, <2>9
<1> QED
  BY <1>1, WireInvariant, PTL

(* However short a list was cut, a reader that checks lengths raises or    *)
(* returns the beginning of it (api.py:272, mw6_hostinfo.py:76).           *)
THEOREM TruncationNoticed == WireSpec => []TruncationIsNoticed
<1>1. WireInv => TruncationIsNoticed
  <2> SUFFICES ASSUME WireInv, NEW reader \in {"api", "hostinfo"}
               PROVE  \/ DecodeHosts(reader, SubSeq(Sent, 1, cut)) = Error
                      \/ IsPrefix(DecodeHosts(reader, SubSeq(Sent, 1, cut)), Expected(reader, list))
    BY DEF TruncationIsNoticed
  <2> DEFINE payload == SubSeq(Sent, 1, cut)
             m == SubSeq(payload, 5, Len(payload))
             fs == HostFields(list)
             read == ProtobufFields(reader, m)
  <2>1. list \in Seq(Hosts) /\ cut \in 0 .. Len(EncodeHosts(list))
    BY DEF WireInv, Sent
  <2>2. m \in Seq(Nat) /\ Begins(m, EncodeFields(fs))
    <3>1. payload = SubSeq(EncodeHosts(list), 1, cut)
      BY DEF Sent
    <3> HIDE DEF payload
    <3>2. BeginsMessage(payload, list)
      BY <2>1, <3>1, PayloadMessage
    <3> QED
      BY <3>2 DEF BeginsMessage
  <2>3. AreSendable(fs) /\ Len(fs) = Len(list)
    BY <2>1, HostFieldsFacts
  <2>4. reader # "probe"
    OBVIOUS
  <2>5. read = Error \/ \E k \in 0 .. Len(fs) : read = SubSeq(fs, 1, k)
    <3> HIDE DEF m, fs
    <3> QED
      BY <2>2, <2>3, <2>4, MessageIsRead
  <2>6. DecodeHosts(reader, payload) =
           IF Len(payload) < 4 /\ reader # "hostinfo" THEN Error
           ELSE IF read = Error THEN Error
           ELSE DecodeLists(reader, read)
    BY DEF DecodeHosts
  <2> HIDE DEF read
  <2>7. ASSUME NEW k \in 0 .. Len(list), read = SubSeq(fs, 1, k)
        PROVE  IsPrefix(DecodeLists(reader, read), Expected(reader, list))
    <3> DEFINE first == SubSeq(list, 1, k)
    <3>1. first \in Seq(Hosts) /\ read = HostFields(first)
      BY <2>1, <2>7, FirstElements, FirstHostFields
    <3>2. IsPrefix(Expected(reader, first), Expected(reader, list))
      BY <2>1, FirstAreExpected
    <3> HIDE DEF first, fs
    <3>3. DecodeLists(reader, read) = Expected(reader, first)
      BY <3>1, ListIsDecoded
    <3> QED
      BY <3>2, <3>3
  <2>8. read = Error \/ IsPrefix(DecodeLists(reader, read), Expected(reader, list))
    <3> HIDE DEF fs
    <3> QED
      BY <2>3, <2>5, <2>7
  <2> HIDE DEF payload
  <2>9. \/ DecodeHosts(reader, payload) = Error
        \/ IsPrefix(DecodeHosts(reader, payload), Expected(reader, list))
    BY <2>6, <2>8
  <2> QED
    BY <2>9 DEF payload
<1> QED
  BY <1>1, WireInvariant, PTL

=============================================================================
