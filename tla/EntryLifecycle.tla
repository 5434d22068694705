---------------------------- MODULE EntryLifecycle ----------------------------
(***************************************************************************)
(* The config entries of __init__.py: frontend registration, migration,    *)
(* setup, the options update listener, reload and unload.                  *)
(*                                                                         *)
(* Every coroutine runs on one event loop, so the code between two awaits  *)
(* is one step and the steps of different coroutines interleave.  Home     *)
(* Assistant sets an entry up only after async_setup returned, runs setup  *)
(* and unload of one entry under the entry's lock, and retries a setup     *)
(* that raised ConfigEntryNotReady.                                        *)
(***************************************************************************)
EXTENDS Integers

CONSTANTS
    None,
    Entries,     \* the config entries of the domain
    MaxSaves,    \* bound: options saves per entry
    MaxRestarts  \* bound: restarts of Home Assistant

ASSUME LifecycleParameters ==
    /\ None \notin Nat \cup {"account", "login"}
    /\ MaxSaves \in Nat /\ MaxRestarts \in Nat

VARIABLES
    component,     \* "down", "registering" in async_setup, "ready"
    registered,    \* hass.data[DOMAIN]["frontend_registered"]
    registrations, \* how often the card was registered since the start
    entry,         \* entry[e]: version, account, payload (stored)
    options,       \* options[e]: number of the last saved options (stored)
    state,         \* state[e]: where Home Assistant stands with the entry
    aliases,       \* aliases[e]: the options parsed by the running setup
    coordinator,   \* hass.data[DOMAIN][e]: the options its coordinator uses
    listening,     \* the update listener is installed
    reloads,       \* reloads[e]: reload tasks waiting for the lock
    heard,         \* history: last options saved while listening
    restarts

stored == <<entry, options>>
frontend == <<component, registered, registrations>>
vars == <<frontend, stored, state, aliases, coordinator, listening, reloads,
          heard, restarts>>

States == {"not_loaded", "migration_error", "refreshing", "retry",
           "forwarding", "loaded", "unloading", "failed_unload"}

Payloads == {"login", "other"}

(* The stored entries the releases leave behind: version 1 held the raw    *)
(* LoginMsg payload, version 2 the account in it, 3 is from a later one.   *)
StoredEntries ==
    [version : {1}, account : {None}, payload : Payloads \cup {None}]
      \cup [version : {2, 3}, account : {"account"}, payload : {None}]

-----------------------------------------------------------------------------
(* extract_login_account                                                   *)
ExtractLoginAccount(payload) == IF payload = "login" THEN "account" ELSE None

(* mutated: the payload is dropped before it is known to be convertible    *)
MigratedEagerly(en) ==
    IF en.version = 1
    THEN [en EXCEPT !.payload = None, !.account = ExtractLoginAccount(en.payload)]
    ELSE en

(* mutated: the raw payload stays stored beside the account                *)
MigratedKeepingPayload(en) ==
    IF en.version = 1 /\ ExtractLoginAccount(en.payload) # None
    THEN [en EXCEPT !.version = 2, !.account = ExtractLoginAccount(en.payload)]
    ELSE en

(* async_migrate_entry: what is stored afterwards                          *)
Migrated(en) ==
    IF en.version = 1 /\ ExtractLoginAccount(en.payload) # None
    THEN [version |-> 2, account |-> ExtractLoginAccount(en.payload), payload |-> None]
    ELSE en

(* its result: an entry of version 2, or of a later release, is accepted   *)
(* as it is                                                                *)
Migratable(en) == Migrated(en).version >= 2

-----------------------------------------------------------------------------
Init ==
    /\ component = "down" /\ registered = FALSE /\ registrations = 0
    /\ entry \in [Entries -> StoredEntries]
    /\ options = [e \in Entries |-> 0]
    /\ state = [e \in Entries |-> "not_loaded"]
    /\ aliases = [e \in Entries |-> None]
    /\ coordinator = [e \in Entries |-> None]
    /\ listening = [e \in Entries |-> FALSE]
    /\ reloads = [e \in Entries |-> 0]
    /\ heard = [e \in Entries |-> 0]
    /\ restarts = 0

GoTo(e, s) == state' = [state EXCEPT ![e] = s]

(* async_setup: the check, then the await of async_register_static_paths   *)
SetUpComponent ==
    /\ component = "down"
    /\ component' = IF registered THEN "ready" ELSE "registering"
    /\ UNCHANGED <<registered, registrations, stored, state, aliases, coordinator,
                   listening, reloads, heard, restarts>>

RegisterCard ==
    /\ registrations' = registrations + 1
    /\ registered' = TRUE

ComponentReady ==
    /\ component = "registering"
    /\ component' = "ready"
    /\ RegisterCard
    /\ UNCHANGED <<stored, state, aliases, coordinator, listening, reloads, heard,
                   restarts>>

(* async_migrate_entry and async_setup_entry up to the first refresh.  The *)
(* component is ready, so _async_register_frontend finds its flag set and  *)
(* does not suspend; were it not set, the card would be registered here.   *)
SetUpWith(e, register) ==
    /\ component = "ready"
    /\ state[e] \in {"not_loaded", "retry"}
    /\ entry' = [entry EXCEPT ![e] = Migrated(@)]
    /\ IF Migratable(entry[e])
       THEN /\ GoTo(e, "refreshing")
            /\ aliases' = [aliases EXCEPT ![e] = options[e]]
            /\ IF register THEN RegisterCard ELSE UNCHANGED <<registered, registrations>>
       ELSE /\ GoTo(e, "migration_error")
            /\ UNCHANGED <<aliases, registered, registrations>>
    /\ UNCHANGED <<component, options, coordinator, listening, reloads, heard, restarts>>

(* mutated: every setup registers the card                                 *)
SetUpRegisteringAlways(e) == SetUpWith(e, TRUE)

SetUpEntry(e) == SetUpWith(e, ~registered)

(* async_config_entry_first_refresh returned: the coordinator is stored,   *)
(* the update listener added, the platforms are being set up.              *)
RefreshSucceeds(e) ==
    /\ state[e] = "refreshing"
    /\ coordinator' = [coordinator EXCEPT ![e] = aliases[e]]
    /\ listening' = [listening EXCEPT ![e] = TRUE]
    /\ GoTo(e, "forwarding")
    /\ UNCHANGED <<frontend, stored, aliases, reloads, heard, restarts>>

(* It raised ConfigEntryNotReady.                                          *)
RefreshFails(e) ==
    /\ state[e] = "refreshing"
    /\ GoTo(e, "retry")
    /\ UNCHANGED <<frontend, stored, aliases, coordinator, listening, reloads, heard,
                   restarts>>

PlatformsReady(e) ==
    /\ state[e] = "forwarding"
    /\ GoTo(e, "loaded")
    /\ UNCHANGED <<frontend, stored, aliases, coordinator, listening, reloads, heard,
                   restarts>>

(* mutated: a save is reloaded only when the entry is loaded by then       *)
SaveOptionsWhenLoaded(e) ==
    /\ options[e] < MaxSaves
    /\ options' = [options EXCEPT ![e] = @ + 1]
    /\ IF listening[e] THEN heard' = [heard EXCEPT ![e] = options[e] + 1] ELSE UNCHANGED heard
    /\ IF state[e] = "loaded" THEN reloads' = [reloads EXCEPT ![e] = @ + 1] ELSE UNCHANGED reloads
    /\ UNCHANGED <<frontend, entry, state, aliases, coordinator, listening, restarts>>

(* The options flow stores new options; Home Assistant starts a task of    *)
(* _async_update_listener when the listener is installed.                  *)
SaveOptions(e) ==
    /\ options[e] < MaxSaves
    /\ options' = [options EXCEPT ![e] = @ + 1]
    /\ IF listening[e]
       THEN /\ reloads' = [reloads EXCEPT ![e] = @ + 1]
            /\ heard' = [heard EXCEPT ![e] = options[e] + 1]
       ELSE UNCHANGED <<reloads, heard>>
    /\ UNCHANGED <<frontend, entry, state, aliases, coordinator, listening, restarts>>

(* async_reload gets the lock: a loaded entry is unloaded first, a waiting *)
(* retry is cancelled, an entry that failed to unload stays as it is.      *)
Reload(e) ==
    /\ reloads[e] > 0
    /\ state[e] \in {"not_loaded", "retry", "loaded", "failed_unload"}
    /\ reloads' = [reloads EXCEPT ![e] = @ - 1]
    /\ CASE state[e] = "loaded" -> GoTo(e, "unloading")
         [] state[e] = "retry"  -> GoTo(e, "not_loaded")
         [] OTHER               -> UNCHANGED state
    /\ UNCHANGED <<frontend, stored, aliases, coordinator, listening, heard, restarts>>

(* mutated: the coordinator is forgotten before the platforms are gone     *)
UnloadAnyway(e) ==
    /\ state[e] = "unloading"
    /\ GoTo(e, "failed_unload")
    /\ coordinator' = [coordinator EXCEPT ![e] = None]
    /\ UNCHANGED <<frontend, stored, aliases, listening, reloads, heard, restarts>>

(* async_unload_entry when the platforms could not be unloaded             *)
UnloadFails(e) ==
    /\ state[e] = "unloading"
    /\ GoTo(e, "failed_unload")
    /\ UNCHANGED <<frontend, stored, aliases, coordinator, listening, reloads, heard,
                   restarts>>

(* async_unload_entry, then the entry's on_unload callbacks                *)
UnloadSucceeds(e) ==
    /\ state[e] = "unloading"
    /\ coordinator' = [coordinator EXCEPT ![e] = None]
    /\ listening' = [listening EXCEPT ![e] = FALSE]
    /\ GoTo(e, "not_loaded")
    /\ UNCHANGED <<frontend, stored, aliases, reloads, heard, restarts>>

(* Home Assistant stops, from any state, and starts again.                 *)
RestartHomeAssistant ==
    /\ restarts < MaxRestarts
    /\ restarts' = restarts + 1
    /\ component' = "down" /\ registered' = FALSE /\ registrations' = 0
    /\ state' = [e \in Entries |-> "not_loaded"]
    /\ aliases' = [e \in Entries |-> None]
    /\ coordinator' = [e \in Entries |-> None]
    /\ listening' = [e \in Entries |-> FALSE]
    /\ reloads' = [e \in Entries |-> 0]
    /\ UNCHANGED <<stored, heard>>

Next ==
    \/ SetUpComponent
    \/ ComponentReady
    \/ RestartHomeAssistant
    \/ \E e \in Entries :
          \/ SetUpEntry(e)
          \/ RefreshSucceeds(e) \/ RefreshFails(e) \/ PlatformsReady(e)
          \/ SaveOptions(e) \/ Reload(e)
          \/ UnloadSucceeds(e) \/ UnloadFails(e)

(* The event loop resumes every coroutine whose await is over, Home        *)
(* Assistant retries a setup for ever, and a router that is asked for ever *)
(* answers some day.                                                       *)
Fairness ==
    /\ WF_vars(SetUpComponent) /\ WF_vars(ComponentReady)
    /\ \A e \in Entries :
          /\ WF_vars(SetUpEntry(e))
          /\ SF_vars(RefreshSucceeds(e))
          /\ WF_vars(PlatformsReady(e))
          /\ WF_vars(Reload(e))
          /\ WF_vars(UnloadSucceeds(e) \/ UnloadFails(e))

Spec == Init /\ [][Next]_vars /\ Fairness

-----------------------------------------------------------------------------
Versions == 0 .. MaxSaves

(* The type invariant of the entries.                                      *)
TypeOK ==
    /\ component \in {"down", "registering", "ready"}
    /\ registered \in BOOLEAN
    /\ registrations \in Nat
    /\ entry \in [Entries -> StoredEntries]
    /\ options \in [Entries -> Versions]
    /\ state \in [Entries -> States]
    /\ aliases \in [Entries -> Versions \cup {None}]
    /\ coordinator \in [Entries -> Versions \cup {None}]
    /\ listening \in [Entries -> BOOLEAN]
    /\ reloads \in [Entries -> Versions]
    /\ heard \in [Entries -> Versions]
    /\ restarts \in 0 .. MaxRestarts

(* __init__.py:35 "exactly once": the check of frontend_registered and its *)
(* assignment are on either side of an await, and still no order of        *)
(* async_setup, of several entries' setups, of retries and of reloads      *)
(* registers the card twice in one run of Home Assistant.                  *)
FrontendOnce == registrations <= 1

(* The platforms (sensor.py:27, binary_sensor.py:23) read the coordinator  *)
(* from hass.data while they are set up and their entities use it until    *)
(* they are gone: it is there from the forwarding to the end of the        *)
(* unload, also of one that failed, and at no other time.                  *)
CoordinatorWhilePlatforms ==
    \A e \in Entries :
        (coordinator[e] # None) =
            (state[e] \in {"forwarding", "loaded", "unloading", "failed_unload"})

(* A migration changes all of a stored entry or nothing: one that fails,   *)
(* as of a version 1 entry without a payload or with one that cannot be    *)
(* read, leaves it to a release that can; one that changes it leaves       *)
(* version 2 and an account.  Setups, reloads and restarts change nothing. *)
MigrationIsAllOrNothing ==
    [][\A e \in Entries :
          entry'[e] # entry[e] => entry'[e].version = 2 /\ entry'[e].account # None]_vars

(* Options saved while the entry's update listener is installed reach the  *)
(* coordinator, whatever reloads, failing refreshes and further saves come *)
(* in between (__init__.py _async_update_listener), unless the platforms   *)
(* refuse to unload.                                                       *)
HeardSavesApply ==
    \A e \in Entries, n \in 1 .. MaxSaves :
        heard[e] = n ~> \/ coordinator[e] # None /\ coordinator[e] >= n
                        \/ state[e] = "failed_unload"

(* __init__.py:137 "Reload the entry after its alias options change": a    *)
(* loaded entry with no reload on its way uses the saved options.          *)
LoadedIsCurrent ==
    \A e \in Entries :
        state[e] = "loaded" /\ reloads[e] = 0 => coordinator[e] = options[e]

=============================================================================
