--------------------------- MODULE MCRouterSession ---------------------------
(***************************************************************************)
(* The two programs that read a byte stream against a clock, each on a     *)
(* connection of its own: RouterSession with two-cell headers, payloads of *)
(* no, one and two cells, and a router that may refuse, mix up, cut short  *)
(* and interrupt; CmdMonitor with frames in two pieces.  They share no     *)
(* state, so a behaviour is of one of them.                                *)
(***************************************************************************)
EXTENDS RouterSession, CmdMonitor

Frame(what, body, len) ==
    [magic |-> TRUE, kind |-> "resp", what |-> what, body |-> body, len |-> len]

MCFrames ==
    {Frame("sta", "ok", 0),
     Frame("login", "ok", 1), Frame("login", "refused", 1), Frame("login", "short", 0),
     Frame("hosts", "ok", 2), Frame("hosts", "refused", 1), Frame("hosts", "garbled", 1),
     Frame("foreign", "ok", 1),
     [Frame("foreign", "ok", 0) EXCEPT !.magic = FALSE],
     [Frame("foreign", "ok", 1) EXCEPT !.kind = "other"]}

-----------------------------------------------------------------------------
MCInit == Init /\ MonitorInit

MCNext ==
    \/ stage = "off" /\ Next /\ UNCHANGED monitorVars
    \/ pc = "idle" /\ MonitorNext /\ UNCHANGED vars
    \/ stage = "ended" /\ UNCHANGED <<vars, monitorVars>>

MCSpec ==
    MCInit /\ [][MCNext]_<<vars, monitorVars>> /\ WF_vars(GetClients) /\ MonitorFairness

=============================================================================
