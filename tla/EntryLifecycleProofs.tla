------------------------- MODULE EntryLifecycleProofs -------------------------
(***************************************************************************)
(* Proofs about EntryLifecycle, for every set of config entries and every  *)
(* number of saves and restarts.                                           *)
(***************************************************************************)
EXTENDS EntryLifecycle, TLAPS

-----------------------------------------------------------------------------
(* The inductive invariant, in the parts its proof goes through.           *)

(* A reload task stands for a save of its own, so there are no more of     *)
(* them than saves.                                                        *)
ReloadsAreSaves == \A e \in Entries : reloads[e] <= options[e]

(* The flag frontend_registered says how often the card was registered,    *)
(* and it is set when async_setup has returned.                            *)
FlagCountsRegistrations ==
    /\ registered <=> component = "ready"
    /\ registrations = IF registered THEN 1 ELSE 0

(* The options a waiting first refresh will hand to its coordinator.       *)
RefreshingHasAliases ==
    \A e \in Entries : state[e] = "refreshing" => aliases[e] # None

LifecycleInv ==
    /\ TypeOK
    /\ ReloadsAreSaves
    /\ FlagCountsRegistrations
    /\ RefreshingHasAliases
    /\ CoordinatorWhilePlatforms

-----------------------------------------------------------------------------
(* A migrated entry is one a release leaves behind.                        *)
LEMMA MigratedType ==
    ASSUME NEW en \in StoredEntries
    PROVE  /\ Migrated(en) \in StoredEntries
           /\ Migrated(en) # en => Migrated(en).version = 2 /\ Migrated(en).account # None
  BY LifecycleParameters DEF Migrated, ExtractLoginAccount, StoredEntries, Payloads

(* The first state satisfies the invariant.                                *)
LEMMA LifecycleInit == Init => LifecycleInv
<1> SUFFICES ASSUME Init
             PROVE  LifecycleInv
  OBVIOUS
<1>1. TypeOK
  <2>1. registered \in BOOLEAN
    BY DEF Init
  <2>2. /\ options \in [Entries -> Versions]
        /\ reloads \in [Entries -> Versions]
        /\ heard \in [Entries -> Versions]
        /\ restarts \in 0 .. MaxRestarts
    BY LifecycleParameters DEF Init, Versions
  <2>3. /\ state \in [Entries -> States]
        /\ aliases \in [Entries -> Versions \cup {None}]
        /\ coordinator \in [Entries -> Versions \cup {None}]
        /\ listening \in [Entries -> BOOLEAN]
    BY DEF Init, States
  <2> QED
    BY <2>1, <2>2, <2>3 DEF Init, TypeOK
<1>2. FlagCountsRegistrations
  BY DEF Init, FlagCountsRegistrations
<1>3. ReloadsAreSaves /\ RefreshingHasAliases /\ CoordinatorWhilePlatforms
  BY DEF Init, ReloadsAreSaves, RefreshingHasAliases, CoordinatorWhilePlatforms
<1> QED
  BY <1>1, <1>2, <1>3 DEF LifecycleInv

(* The steps of the component and of Home Assistant itself keep it.        *)
LEMMA ComponentKeepsInv ==
    ASSUME LifecycleInv, SetUpComponent \/ ComponentReady \/ RestartHomeAssistant
    PROVE  LifecycleInv'
<1> USE LifecycleParameters DEF LifecycleInv
<1>1. CASE SetUpComponent
  BY <1>1 DEF SetUpComponent, stored, TypeOK, ReloadsAreSaves, FlagCountsRegistrations,
              RefreshingHasAliases, CoordinatorWhilePlatforms
<1>2. CASE ComponentReady
  <2>1. registrations = 0
    BY <1>2 DEF ComponentReady, FlagCountsRegistrations
  <2>2. FlagCountsRegistrations' /\ registrations' = 1
    BY <1>2, <2>1 DEF ComponentReady, RegisterCard, FlagCountsRegistrations
  <2>3. TypeOK'
    BY <1>2, <2>2 DEF ComponentReady, RegisterCard, stored, TypeOK
  <2>4. ReloadsAreSaves' /\ RefreshingHasAliases' /\ CoordinatorWhilePlatforms'
    BY <1>2 DEF ComponentReady, stored, ReloadsAreSaves, RefreshingHasAliases,
                CoordinatorWhilePlatforms
  <2> QED
    BY <2>2, <2>3, <2>4
<1>3. CASE RestartHomeAssistant
  <2>1. FlagCountsRegistrations'
    BY <1>3 DEF RestartHomeAssistant, FlagCountsRegistrations
  <2>2. /\ state' \in [Entries -> States]
        /\ aliases' \in [Entries -> Versions \cup {None}]
        /\ coordinator' \in [Entries -> Versions \cup {None}]
        /\ listening' \in [Entries -> BOOLEAN]
        /\ reloads' \in [Entries -> Versions]
    BY <1>3, LifecycleParameters DEF RestartHomeAssistant, States, Versions
  <2>3. restarts' \in 0 .. MaxRestarts
    BY <1>3 DEF RestartHomeAssistant, TypeOK
  <2>4. registered' \in BOOLEAN
    BY <1>3 DEF RestartHomeAssistant
  <2>5. TypeOK'
    BY <1>3, <2>2, <2>3, <2>4 DEF RestartHomeAssistant, stored, TypeOK
  <2>6. ReloadsAreSaves' /\ RefreshingHasAliases' /\ CoordinatorWhilePlatforms'
    BY <1>3 DEF RestartHomeAssistant, stored, TypeOK, Versions, ReloadsAreSaves,
                RefreshingHasAliases, CoordinatorWhilePlatforms
  <2> QED
    BY <2>1, <2>5, <2>6
<1> QED
  BY <1>1, <1>2, <1>3

(* The setup of an entry keeps it.                                         *)
LEMMA SetUpKeepsInv ==
    ASSUME LifecycleInv, NEW e \in Entries, SetUpEntry(e)
    PROVE  LifecycleInv'
<1> USE LifecycleParameters DEF LifecycleInv, SetUpEntry, SetUpWith, RegisterCard, GoTo
<1>1. entry' \in [Entries -> StoredEntries]
  BY MigratedType DEF TypeOK
<1>2. /\ state' \in [Entries -> States]
      /\ aliases' \in [Entries -> Versions \cup {None}]
  BY DEF TypeOK, States
<1>3. FlagCountsRegistrations'
  BY DEF FlagCountsRegistrations
<1>4. TypeOK'
  BY <1>1, <1>2, <1>3 DEF TypeOK, FlagCountsRegistrations
<1>5. ReloadsAreSaves'
  BY DEF ReloadsAreSaves
<1>6. RefreshingHasAliases'
  BY DEF RefreshingHasAliases, TypeOK, Versions
<1>7. CoordinatorWhilePlatforms'
  BY DEF CoordinatorWhilePlatforms, TypeOK
<1> QED
  BY <1>3, <1>4, <1>5, <1>6, <1>7

(* The steps that move a set-up entry along keep it.                       *)
LEMMA ProgressKeepsInv ==
    ASSUME LifecycleInv, NEW e \in Entries,
           RefreshSucceeds(e) \/ RefreshFails(e) \/ PlatformsReady(e)
             \/ UnloadSucceeds(e) \/ UnloadFails(e)
    PROVE  LifecycleInv'
<1> USE LifecycleParameters
    DEF LifecycleInv, GoTo, frontend, stored, TypeOK, Versions, States, ReloadsAreSaves,
        FlagCountsRegistrations, RefreshingHasAliases, CoordinatorWhilePlatforms
<1>1. CASE RefreshSucceeds(e)
  BY <1>1 DEF RefreshSucceeds
<1>2. CASE RefreshFails(e)
  BY <1>2 DEF RefreshFails
<1>3. CASE PlatformsReady(e)
  BY <1>3 DEF PlatformsReady
<1>4. CASE UnloadSucceeds(e)
  BY <1>4 DEF UnloadSucceeds
<1>5. CASE UnloadFails(e)
  BY <1>5 DEF UnloadFails
<1> QED
  BY <1>1, <1>2, <1>3, <1>4, <1>5

(* Saved options and the reloads they cause keep it.                       *)
LEMMA ReloadKeepsInv ==
    ASSUME LifecycleInv, NEW e \in Entries, SaveOptions(e) \/ Reload(e)
    PROVE  LifecycleInv'
<1> USE LifecycleParameters
    DEF LifecycleInv, GoTo, frontend, stored, TypeOK, Versions, States, ReloadsAreSaves,
        FlagCountsRegistrations, RefreshingHasAliases, CoordinatorWhilePlatforms
<1>1. CASE SaveOptions(e)
  BY <1>1 DEF SaveOptions
<1>2. CASE Reload(e)
  BY <1>2 DEF Reload
<1> QED
  BY <1>1, <1>2

(* The invariant holds: a reload task never outnumbers the saves, so its   *)
(* counter is bounded, and the rest follows from where each entry stands.  *)
THEOREM LifecycleInductive == Spec => []LifecycleInv
<1>1. LifecycleInv /\ [Next]_vars => LifecycleInv'
  <2> SUFFICES ASSUME LifecycleInv, [Next]_vars
               PROVE  LifecycleInv'
    OBVIOUS
  <2>1. CASE SetUpComponent \/ ComponentReady \/ RestartHomeAssistant
    BY <2>1, ComponentKeepsInv
  <2>2. ASSUME NEW e \in Entries, SetUpEntry(e)
        PROVE  LifecycleInv'
    BY <2>2, SetUpKeepsInv
  <2>3. ASSUME NEW e \in Entries,
               RefreshSucceeds(e) \/ RefreshFails(e) \/ PlatformsReady(e)
                 \/ UnloadSucceeds(e) \/ UnloadFails(e)
        PROVE  LifecycleInv'
    BY <2>3, ProgressKeepsInv
  <2>4. ASSUME NEW e \in Entries, SaveOptions(e) \/ Reload(e)
        PROVE  LifecycleInv'
    BY <2>4, ReloadKeepsInv
  <2>5. CASE UNCHANGED vars
    BY <2>5 DEF vars, frontend, stored, LifecycleInv, TypeOK, ReloadsAreSaves,
                FlagCountsRegistrations, RefreshingHasAliases, CoordinatorWhilePlatforms
  <2> QED
    BY <2>1, <2>2, <2>3, <2>4, <2>5 DEF Next
<1> QED
  BY <1>1, LifecycleInit, PTL DEF Spec

(* The entries keep their types.                                           *)
THEOREM LifecycleTypeCorrect == Spec => []TypeOK
  BY LifecycleInductive, PTL DEF LifecycleInv

(* The card is registered at most once in one run of Home Assistant,       *)
(* whatever the order of async_setup and of the entries' setups.           *)
THEOREM FrontendRegisteredOnce == Spec => []FrontendOnce
<1>1. LifecycleInv => FrontendOnce
  BY DEF LifecycleInv, FlagCountsRegistrations, FrontendOnce
<1> QED
  BY <1>1, LifecycleInductive, PTL

(* An entry has a coordinator exactly while its platforms use one.         *)
THEOREM PlatformsHaveCoordinator == Spec => []CoordinatorWhilePlatforms
  BY LifecycleInductive, PTL DEF LifecycleInv

(* A stored entry changes only into one that holds an account: no failed   *)
(* migration touches it, and no setup, reload or restart does.             *)
THEOREM MigrationKeepsOrConverts == Spec => MigrationIsAllOrNothing
<1> DEFINE Converts ==
        \A e \in Entries :
            entry'[e] # entry[e] => entry'[e].version = 2 /\ entry'[e].account # None
<1>1. ASSUME LifecycleInv, [Next]_vars
      PROVE  Converts
  <2>1. ASSUME NEW e \in Entries, SetUpEntry(e)
        PROVE  Converts
    BY <2>1, <1>1, MigratedType DEF SetUpEntry, SetUpWith, LifecycleInv, TypeOK
  <2>2. CASE ~\E e \in Entries : SetUpEntry(e)
    <3>1. UNCHANGED entry
      BY <1>1, <2>2
         DEF Next, vars, stored, SetUpComponent, ComponentReady, RestartHomeAssistant,
             RefreshSucceeds, RefreshFails, PlatformsReady, SaveOptions, Reload,
             UnloadSucceeds, UnloadFails
    <3> QED
      BY <3>1
  <2> QED
    BY <2>1, <2>2
<1>2. LifecycleInv /\ [Next]_vars => [Converts]_vars
  BY <1>1
<1> QED
  BY <1>2, LifecycleInductive, PTL DEF Spec, MigrationIsAllOrNothing

-----------------------------------------------------------------------------
(* The safety half of HeardSavesApply.                                     *)

NotSetUp == {"not_loaded", "retry", "refreshing", "migration_error"}

(* Who listens has been set up, and an entry once set up stays migrated.   *)
ListenersAreSetUp ==
    \A e \in Entries :
        /\ listening[e] => state[e] \notin NotSetUp /\ Migratable(entry[e])
        /\ heard[e] > 0 => Migratable(entry[e])
        /\ heard[e] <= options[e]
        /\ state[e] = "migration_error" => ~Migratable(entry[e])
        /\ state[e] \notin {"not_loaded", "migration_error"} => Migratable(entry[e])

(* A save that was heard and is not in use is on its way: its reload is    *)
(* waiting or has begun, or the setup that runs has parsed it.             *)
HeardSavesArePending ==
    \A e \in Entries :
        heard[e] > 0 =>
            \/ coordinator[e] # None /\ coordinator[e] >= heard[e]
            \/ state[e] = "failed_unload"
            \/ reloads[e] > 0
            \/ state[e] \in {"not_loaded", "retry", "unloading"}
            \/ state[e] = "refreshing" /\ aliases[e] >= heard[e]

(* With no reload waiting, a loaded entry uses every save it heard of.     *)
LoadedUsesHeardSaves ==
    \A e \in Entries :
        state[e] = "loaded" /\ reloads[e] = 0 /\ heard[e] > 0 => coordinator[e] >= heard[e]

HeardInv == ListenersAreSetUp /\ HeardSavesArePending

(* Migrating twice is migrating once.                                      *)
LEMMA MigrationIsFinal ==
    ASSUME NEW en \in StoredEntries
    PROVE  /\ Migratable(en) => Migratable(Migrated(en))
           /\ Migratable(Migrated(en)) => Migratable(en)
  BY LifecycleParameters DEF Migratable, Migrated, ExtractLoginAccount, StoredEntries, Payloads

(* Every step keeps it, whatever saves fall between its awaits.            *)
LEMMA StepKeepsHeardInv ==
    ASSUME LifecycleInv, HeardInv, [Next]_vars
    PROVE  HeardInv'
<1> USE LifecycleParameters DEF LifecycleInv, GoTo, frontend, stored, TypeOK, Versions, States, NotSetUp
<1>1. CASE SetUpComponent \/ ComponentReady
  BY <1>1 DEF SetUpComponent, ComponentReady, HeardInv, ListenersAreSetUp, HeardSavesArePending
<1>2. CASE RestartHomeAssistant
  BY <1>2 DEF RestartHomeAssistant, HeardInv, ListenersAreSetUp, HeardSavesArePending
<1>3. ASSUME NEW e \in Entries, SetUpEntry(e)
      PROVE  HeardInv'
  <2> DEFINE Once(x) == /\ listening[x] => state[x] \notin NotSetUp /\ Migratable(entry[x])
                        /\ heard[x] > 0 => Migratable(entry[x])
                        /\ heard[x] <= options[x]
                        /\ state[x] = "migration_error" => ~Migratable(entry[x])
                        /\ state[x] \notin {"not_loaded", "migration_error"} => Migratable(entry[x])
  <2>1. ListenersAreSetUp'
    <3>1. \A x \in Entries : Once(x)
      BY DEF HeardInv, ListenersAreSetUp
    <3>2. entry[e] \in StoredEntries /\ entry'[e] = Migrated(entry[e])
      BY <1>3 DEF SetUpEntry, SetUpWith
    <3>3. Migratable(entry'[e]) <=> Migratable(entry[e])
      BY <3>2, MigrationIsFinal
    <3>4. /\ \A x \in Entries \ {e} : entry'[x] = entry[x] /\ state'[x] = state[x]
          /\ UNCHANGED <<listening, heard, options>>
          /\ ~listening[e]
          /\ state'[e] = IF Migratable(entry[e]) THEN "refreshing" ELSE "migration_error"
      BY <1>3, <3>1 DEF SetUpEntry, SetUpWith
    <3>5. \A x \in Entries \ {e} : Once(x)'
      BY <3>1, <3>4
    <3>6. Once(e)'
      BY <3>1, <3>3, <3>4
    <3> QED
      BY <3>5, <3>6 DEF ListenersAreSetUp
  <2>2. HeardSavesArePending'
    <3>1. heard[e] > 0 => Migratable(entry[e]) /\ options[e] >= heard[e]
      BY DEF HeardInv, ListenersAreSetUp
    <3>2. IF Migratable(entry[e])
          THEN state' = [state EXCEPT ![e] = "refreshing"] /\ aliases' = [aliases EXCEPT ![e] = options[e]]
          ELSE state' = [state EXCEPT ![e] = "migration_error"] /\ aliases' = aliases
      BY <1>3 DEF SetUpEntry, SetUpWith
    <3>3. heard' = heard /\ coordinator' = coordinator /\ reloads' = reloads
      BY <1>3 DEF SetUpEntry, SetUpWith
    <3>4. heard'[e] > 0 => state'[e] = "refreshing" /\ aliases'[e] >= heard'[e]
      BY <3>1, <3>2, <3>3
    <3>5. \A x \in Entries \ {e} : state'[x] = state[x] /\ aliases'[x] = aliases[x]
      BY <3>2
    <3> QED
      BY <3>3, <3>4, <3>5 DEF HeardInv, HeardSavesArePending
  <2> QED
    BY <2>1, <2>2 DEF HeardInv
<1>4. ASSUME NEW e \in Entries, RefreshSucceeds(e)
      PROVE  HeardInv'
  <2>1. ListenersAreSetUp'
    BY <1>4 DEF RefreshSucceeds, HeardInv, ListenersAreSetUp
  <2>2. HeardSavesArePending'
    <3>1. aliases[e] # None /\ coordinator[e] = None
      BY <1>4 DEF RefreshSucceeds, RefreshingHasAliases, CoordinatorWhilePlatforms
    <3>2. coordinator'[e] = aliases[e] /\ UNCHANGED <<aliases, reloads, heard>>
      BY <1>4 DEF RefreshSucceeds
    <3>3. heard[e] > 0 => reloads[e] > 0 \/ aliases[e] >= heard[e]
      BY <1>4, <3>1 DEF RefreshSucceeds, HeardInv, HeardSavesArePending
    <3>4. \A x \in Entries \ {e} : state'[x] = state[x] /\ coordinator'[x] = coordinator[x]
      BY <1>4 DEF RefreshSucceeds
    <3> QED
      BY <3>1, <3>2, <3>3, <3>4 DEF HeardInv, HeardSavesArePending
  <2> QED
    BY <2>1, <2>2 DEF HeardInv
<1>5. ASSUME NEW e \in Entries, RefreshFails(e) \/ PlatformsReady(e)
      PROVE  HeardInv'
  BY <1>5 DEF RefreshFails, PlatformsReady, HeardInv, ListenersAreSetUp, HeardSavesArePending
<1>6. ASSUME NEW e \in Entries, UnloadSucceeds(e) \/ UnloadFails(e)
      PROVE  HeardInv'
  BY <1>6 DEF UnloadSucceeds, UnloadFails, HeardInv, ListenersAreSetUp, HeardSavesArePending
<1>7. ASSUME NEW e \in Entries, SaveOptions(e)
      PROVE  HeardInv'
  BY <1>7 DEF SaveOptions, HeardInv, ListenersAreSetUp, HeardSavesArePending
<1>8. ASSUME NEW e \in Entries, Reload(e)
      PROVE  HeardInv'
  BY <1>8 DEF Reload, HeardInv, ListenersAreSetUp, HeardSavesArePending
<1>9. CASE UNCHANGED vars
  BY <1>9 DEF vars, HeardInv, ListenersAreSetUp, HeardSavesArePending
<1> QED
  BY <1>1, <1>2, <1>3, <1>4, <1>5, <1>6, <1>7, <1>8, <1>9 DEF Next

(* No save that was heard is forgotten, whatever reloads, failing          *)
(* refreshes, restarts and further saves come in between.                  *)
THEOREM HeardSavesAreNotLost == Spec => [](HeardInv /\ LoadedUsesHeardSaves)
<1>1. Init => HeardInv
  BY LifecycleParameters DEF Init, HeardInv, ListenersAreSetUp, HeardSavesArePending, NotSetUp
<1>2. LifecycleInv /\ HeardInv /\ [Next]_vars => HeardInv'
  BY StepKeepsHeardInv
<1>3. HeardInv => LoadedUsesHeardSaves
  BY DEF HeardInv, HeardSavesArePending, LoadedUsesHeardSaves
<1> QED
  BY <1>1, <1>2, <1>3, LifecycleInductive, PTL DEF Spec

=============================================================================
