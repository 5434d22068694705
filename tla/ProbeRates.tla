----------------------------- MODULE ProbeRates -----------------------------
(***************************************************************************)
(* diagnose_client_rates of tools/mw6_probe.py: each round reads the host  *)
(* list and then, with a second request, the router's own WAN rates.  The  *)
(* client's rates and the WAN control together decide the verdict.         *)
(*                                                                         *)
(* Rates are zero or not, which is all the verdict asks of them.           *)
(***************************************************************************)
EXTENDS ProbeSelection

VARIABLES hosts,          \* the host list whose WAN control is still to come
          sampled,        \* <<online, rate>> of every sample kept
          wanSeen,        \* some WAN sample was not zero
          traffic         \* history: where traffic was reported, "client" or "wan"

rateVars == <<hosts, sampled, wanSeen, traffic>>

RateRecords == [mac : Macs \cup {NoMac}, match : Matches, online : BOOLEAN, rate : BOOLEAN]

RatesInit ==
    /\ Started
    /\ hosts = << >>
    /\ sampled = {}
    /\ wanSeen = FALSE
    /\ traffic = {}

\* The first request of a round.
ReadHostList(clients) ==
    /\ stage = "hosts"
    /\ rounds < MaxRounds
    /\ stage' = "wan"
    /\ hosts' = clients
    /\ rounds' = rounds + 1
    /\ UNCHANGED <<verdict, selected, sampled, wanSeen, traffic>>

\* mutated: the last sample replaces the earlier ones
KeptLast(old, sample) == {sample}

\* samples.append; the verdict looks at all of them
Kept(old, sample) == old \cup {sample}

\* The WAN control is kept whether or not the client is in the list.
WanSeen(old, reading) == old \/ reading

\* The second request, and what the round makes of both answers.
ReadWanTraffic(reading) ==
    /\ stage = "wan"
    /\ ~Ambiguous(hosts)
    /\ LET matches == Selection(hosts)
       IN  /\ wanSeen' = WanSeen(wanSeen, reading)
           /\ selected' = Selected(matches)
           /\ sampled' = IF matches = << >> THEN sampled
                         ELSE Kept(sampled, <<Head(matches).online, Head(matches).rate>>)
           /\ traffic' = traffic
                \cup (IF reading THEN {"wan"} ELSE {})
                \cup (IF matches # << >> /\ Head(matches).rate THEN {"client"} ELSE {})
    /\ stage' = "hosts"
    /\ hosts' = << >>
    /\ UNCHANGED <<verdict, rounds>>

WasOffline == \E s \in sampled : ~s[1]

HadRate == \E s \in sampled : s[2]

RateVerdict ==
    CASE sampled = {}
            -> "CLIENT_NOT_FOUND"
      [] sampled # {} /\ WasOffline
            -> "INVENTORY_ONLINE_DROPPED"
      [] sampled # {} /\ ~WasOffline /\ ~HadRate /\ wanSeen
            -> "ONLINE_CLIENT_ZERO_WITH_WAN_TRAFFIC"
      [] sampled # {} /\ ~WasOffline /\ ~HadRate /\ ~wanSeen
            -> "ONLINE_BUT_NO_RATE_EVIDENCE"
      [] sampled # {} /\ ~WasOffline /\ HadRate
            -> "RATE_PIPELINE_ACTIVE"

\* The WAN reading is made before the client is looked for, and lost with the run.
RatesNext ==
    \/ \E clients \in SeqOf(RateRecords, MaxHosts) : ReadHostList(clients)
    \/ \E reading \in BOOLEAN : ReadWanTraffic(reading)
    \/ stage = "wan" /\ GiveUp(hosts) /\ UNCHANGED rateVars
    \/ RequestFails /\ UNCHANGED rateVars
    \/ Conclude(RateVerdict) /\ UNCHANGED rateVars

RatesSpec == RatesInit /\ [][RatesNext]_<<common, rateVars>>
-----------------------------------------------------------------------------
\* What the verdict says of the traffic holds over the whole run, the rounds in which
\* the client was not listed included: "Neither client nor WAN control showed a
\* non-zero rate" (mw6_probe.py:417-418), and zero under WAN traffic only when that
\* is what the run as a whole showed, whichever round showed it.
RateVerdictIsTrue ==
    /\ verdict = "ONLINE_BUT_NO_RATE_EVIDENCE" => traffic = {}
    /\ verdict = "ONLINE_CLIENT_ZERO_WITH_WAN_TRAFFIC" => traffic = {"wan"}
=============================================================================
