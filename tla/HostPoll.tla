------------------------------- MODULE HostPoll -------------------------------
(***************************************************************************)
(* What one poll of the router promises its callers, the coordinator       *)
(* (_async_update_data) and the config flow (_validate_input): it ends,    *)
(* with clients only if the router accepted the account on the way, with   *)
(* TendaMW6AuthError only if it did not.                                   *)
(***************************************************************************)
CONSTANT None

VARIABLES phase, granted, outcome

vars == <<phase, granted, outcome>>

Outcomes == {"clients", "auth_error", "error", "os_error"}

Init ==
    /\ phase = "idle"
    /\ granted = FALSE
    /\ outcome = None

Start ==
    /\ phase = "idle"
    /\ phase' = "running"
    /\ UNCHANGED <<granted, outcome>>

Grant ==
    /\ phase = "running"
    /\ granted' = TRUE
    /\ UNCHANGED <<phase, outcome>>

Finish(o) ==
    /\ phase = "running"
    /\ o = "clients" => granted
    /\ o = "auth_error" => ~granted
    /\ phase' = "done"
    /\ outcome' = o
    /\ UNCHANGED granted

Again ==
    /\ phase = "done"
    /\ phase' = "idle"
    /\ granted' = FALSE
    /\ outcome' = None

Next ==
    \/ Start
    \/ Grant
    \/ \E o \in Outcomes : Finish(o)
    \/ Again

Spec == Init /\ [][Next]_vars /\ WF_vars(\E o \in Outcomes : Finish(o))

=============================================================================
