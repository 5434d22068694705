--------------------------- MODULE ProbeSelection ---------------------------
(***************************************************************************)
(* What the two diagnoses of tools/mw6_probe.py have in common: a loop     *)
(* over host lists that ends with a verdict once the deadline has passed,  *)
(* or without one, and how the client is picked out of a list: by the      *)
(* selector typed on the command line until a client is found, by that     *)
(* client's MAC afterwards.                                                *)
(*                                                                         *)
(* A record of the list carries how the selector relates to it, in the     *)
(* field match: "exact" when it equals the record's address, MAC or name,  *)
(* "partial" when the name merely contains it, "none" otherwise.           *)
(***************************************************************************)
EXTENDS Naturals, Sequences, SequencesExt

CONSTANTS Macs,     \* MAC addresses
          NoMac,    \* a record without one, which the decoder leaves empty
          Unset,    \* no client has been found yet
          MaxHosts, \* bound: records in one host list
          MaxRounds \* bound: host lists read before the deadline

VARIABLES stage,    \* "hosts", "wan", "ended": the request to make next
          verdict,  \* the classification printed, or "none"
          selected, \* selected_mac
          rounds    \* host lists read

common == <<stage, verdict, selected, rounds>>

Matches == {"exact", "partial", "none"}

Hits(clients) == SelectSeq(clients, LAMBDA c : c.match # "none")

Exact(clients) == SelectSeq(clients, LAMBDA c : c.match = "exact")

\* The selector fits several records and does not name exactly one of them:
\* the diagnosis is abandoned with a RuntimeError.
Ambiguous(clients) ==
    /\ selected \notin Macs
    /\ Len(Hits(clients)) > 1
    /\ Len(Exact(clients)) # 1

Selection(clients) ==
    IF selected \in Macs
    THEN SelectSeq(clients, LAMBDA c : c.mac = selected)
    ELSE IF Len(Hits(clients)) > 1 THEN Exact(clients) ELSE Hits(clients)

\* The first match fixes the MAC, even when that record has none: an empty MAC
\* is not None, so it is never replaced, yet it is falsy, so the selector goes on
\* being used.
Selected(matches) ==
    IF selected = Unset /\ matches # << >> THEN Head(matches).mac ELSE selected

-----------------------------------------------------------------------------
Started ==
    /\ stage = "hosts"
    /\ verdict = "none"
    /\ selected = Unset
    /\ rounds = 0

\* A RuntimeError: the selector fits several records of the list.
GiveUp(clients) ==
    /\ Ambiguous(clients)
    /\ stage' = "ended"
    /\ UNCHANGED <<verdict, selected, rounds>>

\* A request fails: a socket error, or a status that is not zero.
RequestFails ==
    /\ stage # "ended"
    /\ stage' = "ended"
    /\ UNCHANGED <<verdict, selected, rounds>>

\* The deadline passes.  It is looked at after a round, so at least one was made.
Conclude(classification) ==
    /\ stage = "hosts"
    /\ rounds > 0
    /\ stage' = "ended"
    /\ verdict' = classification
    /\ UNCHANGED <<selected, rounds>>
=============================================================================
