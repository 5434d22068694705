------------------------------ MODULE ConfigFlow ------------------------------
(***************************************************************************)
(* Adding the integration: config flows of several users and tabs, each    *)
(* validating its input against the router (config_flow.py _validate_input,*)
(* async_step_user) before it creates an entry.  A validation is one poll  *)
(* of the router in an executor thread; it ends as HostPoll says.          *)
(*                                                                         *)
(* A host is a record: spelt is the text the user typed, bare the same     *)
(* without white space around it.  The names of different hosts may reach  *)
(* the same router; what counts as a duplicate is the host's name.         *)
(***************************************************************************)
EXTENDS Python, FiniteSets, Integers

CONSTANTS
    Flows,        \* the flows that may be open at the same time
    Hosts,        \* the host texts users type
    Accounts,     \* the well-formed accounts users type
    MaxRemovals   \* bound: entries the user removes again

ASSUME FlowParameters ==
    /\ MaxRemovals \in Nat
    /\ \A h \in Hosts : DOMAIN h = {"spelt", "bare"}

VARIABLES
    flow,     \* flow[f]: step, input and error of the flow
    entries,  \* the entries of the domain: unique_id, host, account
    accepts,  \* accepts[b]: the account the router behind host b accepts
    removals

flowVars == <<flow, entries, accepts, removals>>

Bare == {h.bare : h \in Hosts}
Outcomes == {"clients", "auth_error", "error", "os_error"}
Inputs == [host : Hosts, account : Accounts \cup {None}]

Form(error) == [step |-> "form", input |-> None, error |-> error]
Ended(step) == [step |-> step, input |-> None, error |-> None]

Step(f, state) == flow' = [flow EXCEPT ![f] = state]

-----------------------------------------------------------------------------
FlowInit ==
    /\ flow = [f \in Flows |-> Ended("closed")]
    /\ entries = {}
    /\ accepts \in [Bare -> Accounts]
    /\ removals = 0

(* async_step_user without input                                           *)
OpenFlow(f) ==
    /\ flow[f].step \in {"closed", "created", "aborted"}
    /\ Step(f, Form(None))
    /\ UNCHANGED <<entries, accepts, removals>>

(* async_step_user with input up to the await of api.validate; account     *)
(* None is a text LOGIN_ACCOUNT_RE does not match.                         *)
SubmitInput(f, input) ==
    /\ flow[f].step = "form"
    /\ Step(f, IF input.account = None THEN Form("invalid_account")
               ELSE [step |-> "validating", input |-> input, error |-> None])
    /\ UNCHANGED <<entries, accepts, removals>>

(* How the poll of that host may end.  A host with white space around it   *)
(* is dialled as it was typed.                                             *)
PossibleOutcomes(input) ==
    {"error", "os_error"} \cup
      (IF input.account = accepts[input.host.bare] THEN {"clients"} ELSE {"auth_error"})

ErrorOf(outcome) ==
    IF outcome = "auth_error" THEN "invalid_auth" ELSE "cannot_connect"

(* mutated: the host is made unique as it was typed                        *)
NewEntryAsTyped(input) ==
    [unique_id |-> input.host.spelt, host |-> input.host.bare, account |-> input.account]

NewEntry(input) ==
    [unique_id |-> input.host.bare, host |-> input.host.bare, account |-> input.account]

(* _abort_if_unique_id_configured                                          *)
Configured(input) == \E en \in entries : en.unique_id = NewEntry(input).unique_id

(* mutated: whatever the exception, the entry is created                   *)
ValidationAlwaysEnds(f, outcome) ==
    /\ flow[f].step = "validating"
    /\ outcome \in PossibleOutcomes(flow[f].input)
    /\ entries' = entries \cup {NewEntry(flow[f].input)}
    /\ Step(f, Ended("created"))
    /\ UNCHANGED <<accepts, removals>>

(* async_step_user after the await: async_set_unique_id does not suspend,  *)
(* so the check and the creation of the entry are one step.                *)
ValidationEnds(f, outcome) ==
    LET input == flow[f].input IN
    /\ flow[f].step = "validating"
    /\ outcome \in PossibleOutcomes(input)
    /\ CASE outcome # "clients" ->
              Step(f, Form(ErrorOf(outcome))) /\ UNCHANGED entries
         [] outcome = "clients" /\ Configured(input) ->
              Step(f, Ended("aborted")) /\ UNCHANGED entries
         [] OTHER ->
              /\ entries' = entries \cup {NewEntry(input)}
              /\ Step(f, Ended("created"))
    /\ UNCHANGED <<accepts, removals>>

CloseFlow(f) ==
    /\ flow[f].step # "closed"
    /\ Step(f, Ended("closed"))
    /\ UNCHANGED <<entries, accepts, removals>>

DeleteEntry(en) ==
    /\ removals < MaxRemovals
    /\ removals' = removals + 1
    /\ entries' = entries \ {en}
    /\ UNCHANGED <<flow, accepts>>

FlowNext ==
    \/ \E f \in Flows :
          \/ OpenFlow(f) \/ CloseFlow(f)
          \/ \E input \in Inputs : SubmitInput(f, input)
          \/ \E outcome \in Outcomes : ValidationEnds(f, outcome)
    \/ \E en \in entries : DeleteEntry(en)

FlowSpec == FlowInit /\ [][FlowNext]_flowVars

-----------------------------------------------------------------------------
(* No two entries of one host, whatever flows for it validate side by side *)
(* and however the host was typed (config_flow.py:65).                     *)
OneEntryPerHost ==
    \A a, b \in entries : a.host = b.host => a = b

(* What is stored is what was validated: an entry holds the account its    *)
(* own router accepts, whichever flow's poll came back first and whatever  *)
(* error the others ended with (config_flow.py:27, 56-72).                 *)
StoredAccountWasAccepted ==
    \A en \in entries : en.account = accepts[en.host]

=============================================================================
