--------------------------- MODULE PreferenceSelect ---------------------------
(***************************************************************************)
(* One dashboard preference (select.py): its entity in every config entry, *)
(* the entity ids the registry holds for them, the renaming an upgrade     *)
(* needs, and the option RestoreEntity brings back.                        *)
(*                                                                         *)
(* The registry and RestoreEntity are Home Assistant's: the registry gives *)
(* an entity it does not know the id it suggests, or a generated one when  *)
(* that is taken, and RestoreEntity keeps states by entity id.             *)
(***************************************************************************)
EXTENDS Python, Integers, FiniteSets

CONSTANTS
    Entries,
    Target,      \* the documented id, of SELECT_ENTITY_IDS
    Options,     \* self.options
    Default,
    OldOptions,  \* states an earlier release may have left behind
    MaxChanges   \* bound: selections and restarts

ASSUME SelectParameters == Default \in Options /\ MaxChanges \in Nat

VARIABLES
    registry,  \* registry[e]: the id registered for the entry's preference
    option,    \* option[e]: current option, None when not loaded
    last,      \* last[id]: RestoreEntity's last state, in memory
    disk,      \* the same as last written to disk
    chosen,    \* history: the option the entity had when it was last loaded
    changes

selectVars == <<registry, option, last, disk, chosen, changes>>

Legacy(e) == <<"legacy", e>>
Generated(e) == <<"generated", e>>
Ids == {Target} \cup {Legacy(e) : e \in Entries} \cup {Generated(e) : e \in Entries}

(* The ids are different texts, and the registry generates none that is    *)
(* documented.                                                             *)
ASSUME SelectIds ==
    /\ Target # None
    /\ \A e \in Entries : Legacy(e) \notin {None, Target} /\ Generated(e) \notin {None, Target}

-----------------------------------------------------------------------------
Taken == {registry[e] : e \in Entries} \ {None}

(* mutated: a registered id is renamed even when the target is taken       *)
RenamedAnyway(e) == IF registry[e] = None THEN None ELSE Target

(* mutated: the registry entry is left as the earlier release made it      *)
NotRenamed(e) == registry[e]

(* async_setup_entry: the id after the renaming                            *)
Renamed(e) ==
    IF registry[e] # None /\ Target \notin Taken THEN Target ELSE registry[e]

(* The id async_add_entities registers for it                              *)
Registered(e) ==
    IF Renamed(e) # None THEN Renamed(e)
    ELSE IF Target \notin Taken THEN Target
    ELSE Generated(e)

(* async_added_to_hass                                                     *)
Restored(id) == IF last[id] \in Options THEN last[id] ELSE Default

(* The state machine's view: a loaded entity's option, else what is kept   *)
Snapshot ==
    [id \in Ids |->
        IF \E e \in Entries : option[e] # None /\ registry[e] = id
        THEN option[CHOOSE e \in Entries : option[e] # None /\ registry[e] = id]
        ELSE last[id]]

-----------------------------------------------------------------------------
SelectInit ==
    /\ registry \in [Entries -> {None} \cup {Legacy(e) : e \in Entries}]
    /\ \A e \in Entries : registry[e] \in {None, Legacy(e)}
    /\ option = [e \in Entries |-> None]
    /\ \E old \in Options \cup OldOptions :
          last = [id \in Ids |->
                    IF \E e \in Entries : registry[e] = id THEN old ELSE None]
    /\ disk = last
    /\ chosen = [e \in Entries |-> IF registry[e] = None THEN None ELSE last[registry[e]]]
    /\ changes = 0

SetUpEntry(e) ==
    /\ option[e] = None
    /\ registry' = [registry EXCEPT ![e] = Registered(e)]
    /\ option' = [option EXCEPT ![e] = Restored(Registered(e))]
    /\ UNCHANGED <<last, disk, chosen, changes>>

SelectOption(e, o) ==
    /\ option[e] # None
    /\ changes < MaxChanges /\ changes' = changes + 1
    /\ option' = [option EXCEPT ![e] = o]
    /\ UNCHANGED <<registry, last, disk, chosen>>

UnloadEntry(e) ==
    /\ option[e] # None
    /\ last' = Snapshot
    /\ chosen' = [chosen EXCEPT ![e] = option[e]]
    /\ option' = [option EXCEPT ![e] = None]
    /\ UNCHANGED <<registry, disk, changes>>

(* The user deletes an entry that is not loaded: its registry entry goes,  *)
(* what RestoreEntity keeps under its id stays.                            *)
RemoveEntry(e) ==
    /\ option[e] = None /\ registry[e] # None
    /\ registry' = [registry EXCEPT ![e] = None]
    /\ chosen' = [chosen EXCEPT ![e] = None]
    /\ UNCHANGED <<option, last, disk, changes>>

DumpStates ==
    /\ disk' = Snapshot
    /\ UNCHANGED <<registry, option, last, chosen, changes>>

(* What a crash loses is what was selected after the last dump.            *)
RestartHomeAssistant ==
    /\ changes < MaxChanges /\ changes' = changes + 1
    /\ last' = disk
    /\ option' = [e \in Entries |-> None]
    /\ chosen' = [e \in Entries |->
                    IF registry[e] = None THEN None ELSE disk[registry[e]]]
    /\ UNCHANGED <<registry, disk>>

SelectNext ==
    \/ \E e \in Entries :
          \/ SetUpEntry(e) \/ UnloadEntry(e) \/ RemoveEntry(e)
          \/ \E o \in Options : SelectOption(e, o)
    \/ DumpStates
    \/ RestartHomeAssistant

SelectSpec == SelectInit /\ [][SelectNext]_selectVars

-----------------------------------------------------------------------------
(* Whatever the order the entries are set up, removed and added again in,  *)
(* no two of them hold one entity id (select.py:39).                       *)
IdsAreDistinct ==
    \A a, b \in Entries : registry[a] = registry[b] /\ registry[a] # None => a = b

(* While an entry is loaded, the documented id that dashboards use exists  *)
(* (select.py:31), unless it left with the removal of another entry.       *)
DocumentedIdAppears ==
    [][\A e \in Entries :
          option[e] = None /\ option'[e] # None =>
              \E x \in Entries : registry'[x] = Target]_selectVars

(* select.py:97 "Restore the last selected option": setting an entry up    *)
(* again brings back the option it had.                                    *)
SetUpRestoresOption ==
    [][\A e \in Entries :
          option[e] = None /\ option'[e] # None /\ chosen[e] \in Options =>
              option'[e] = chosen[e]]_selectVars

=============================================================================
