--------------------------- MODULE TransferCounter ---------------------------
(***************************************************************************)
(* The locally accumulated transfer sensors of sensor.py                   *)
(* (TendaMW6ClientTransferSensor, TendaMW6AggregateTransferSensor), driven *)
(* by the coordinator's polls and kept across restarts by Home Assistant's *)
(* RestoreEntity.                                                          *)
(*                                                                         *)
(* A meter is what three sensors of one direction measure together: one    *)
(* client, or the whole mesh.  Its sensors differ only in their period:    *)
(* lifetime ("total"), local day, local month.                             *)
(*                                                                         *)
(* The coordinator calls every listener of one poll in one event-loop      *)
(* callback, so a poll is one step for all the sensors.  Home Assistant    *)
(* itself (DataUpdateCoordinator, RestoreEntity, the state machine) is     *)
(* modelled from how the integration uses it.                              *)
(***************************************************************************)
EXTENDS Integers

CONSTANTS
    NoValue,        \* Python's None
    Meters,         \* the clients' meters and the mesh's meter
    ClientMeters,   \* the meters that belong to one client
    HostLists,      \* the host lists a successful poll may return
    RateOf(_, _),   \* the valid KiB/s a host list holds for a meter, or None
    PresentIn(_, _),\* whether the meter's sensors have a subject in the list
    DayOf(_),       \* local calendar: the date of an instant
    MonthOf(_),     \* local calendar: the year and month of an instant
    MaxGap,         \* maximum_sample_gap_s
    MaxRate,        \* the largest rate of HostLists
    Second,         \* clock units in a second, so parts of a byte in a byte
    LegacyBytes,    \* lifetime parts a release <= 1.0.0 may have left behind
    MaxTime,        \* bound: the clock stops here
    MaxBacks,       \* bound: how often the wall clock may be set back
    MaxLoads        \* bound: how often the entry is set up

Periods == {"total", "day", "month"}
Times == 0 .. MaxTime

(* What the prover and TLC may rely on about the parameters.               *)
ParameterAssumption ==
    /\ NoValue \notin Int /\ NoValue \notin BOOLEAN
    /\ NoValue \notin HostLists
    /\ ClientMeters \subseteq Meters
    /\ MaxGap \in Nat
    /\ MaxRate \in Nat
    /\ Second \in Nat \ {0}
    /\ LegacyBytes \in Nat
    /\ MaxLoads \in Nat
    /\ MaxTime \in Nat
    /\ MaxBacks \in Nat
    /\ \A list \in HostLists, m \in Meters :
          /\ RateOf(list, m) \in (0 .. MaxRate) \cup {NoValue}
          /\ PresentIn(list, m) \in BOOLEAN

(* A date names its month, and an instant between two instants of one day  *)
(* (or month) is of that day (or month).                                   *)
CalendarAssumption ==
    /\ \A t \in Times : DayOf(t) # NoValue /\ MonthOf(t) # NoValue
    /\ \A s, t \in Times : DayOf(s) = DayOf(t) => MonthOf(s) = MonthOf(t)
    /\ \A s, u, t \in Times :
          s <= u /\ u <= t =>
            /\ DayOf(s) = DayOf(t) => DayOf(u) = DayOf(s)
            /\ MonthOf(s) = MonthOf(t) => MonthOf(u) = MonthOf(s)

ASSUME TransferParameters == ParameterAssumption
ASSUME TransferCalendar == CalendarAssumption

VARIABLES
    now,        \* the wall clock, in the unit of MaxGap
    backs,      \* how often it was set back
    loads,      \* how often the entry was set up
    up,         \* the config entry is loaded
    data,       \* coordinator.data; NoValue while not loaded
    ok,         \* coordinator.last_update_success
    added,      \* the meters whose sensors were added since the entry loaded
    ctr,        \* ctr[m][p]: the fields of the sensor object
    mem,        \* RestoreEntity's states of removed entities, in memory
    disk,       \* the same as last written to disk
    spent,      \* history: spent[p][k] is the time the clock ran in period k
    sampledAt   \* history: last successful poll with a valid rate, per meter

vars == <<now, backs, loads, up, data, ok, added, ctr, mem, disk, spent, sampledAt>>
external == <<mem, disk>>
history == <<spent, sampledAt>>

-----------------------------------------------------------------------------
(* The sensor's own computations.                                          *)

(* mutated: the two calendar periods are exchanged                         *)
SwappedPeriodKey(p, t) ==
    CASE p = "day"   -> MonthOf(t)
      [] p = "month" -> DayOf(t)
      [] OTHER       -> NoValue

CurrentPeriodKey(p, t) ==
    CASE p = "day"   -> DayOf(t)
      [] p = "month" -> MonthOf(t)
      [] OTHER       -> NoValue

Keys == {CurrentPeriodKey(p, t) : p \in Periods, t \in Times} \cup {NoValue}

(* estimate_transfer_bytes.  The code adds up floats: KiB/s times seconds. *)
(* A total is held here in parts of a byte, Second of them to a byte, so   *)
(* that the sum of any spans is exact; what rounds is total_bytes below.   *)
EstimateTransferBytes(rate, elapsed) ==
    IF rate = NoValue \/ elapsed <= 0 THEN 0 ELSE rate * 1024 * elapsed

(* __init__                                                                *)
NewCounter ==
    [total |-> 0, key |-> NoValue, lastAt |-> NoValue, lastRate |-> NoValue,
     valid |-> FALSE]

(* mutated: the reset keeps the last sample                                *)
ResetTotalOnly(s, p, t) ==
    LET k == CurrentPeriodKey(p, t) IN
    IF k = NoValue \/ s.key = k THEN s
    ELSE [s EXCEPT !.total = 0, !.key = k, !.valid = FALSE]

(* _reset_period_if_needed                                                 *)
ResetPeriodIfNeeded(s, p, t) ==
    LET k == CurrentPeriodKey(p, t) IN
    IF k = NoValue \/ s.key = k THEN s ELSE [NewCounter EXCEPT !.key = k]

(* mutated: the length of the span, whichever way the clock moved          *)
CreditAbsoluteSpan(s, t) ==
    LET span == IF t < s.lastAt THEN s.lastAt - t ELSE t - s.lastAt IN
    IF s.lastAt # NoValue /\ s.lastRate # NoValue /\ span <= MaxGap
    THEN s.lastRate * 1024 * span
    ELSE 0

(* The bytes one sample adds: the previous rate held over the span since   *)
(* the previous sample, when that span is not longer than the gap.         *)
Credit(s, t) ==
    IF /\ s.lastAt # NoValue
       /\ s.lastRate # NoValue
       /\ 0 < t - s.lastAt
       /\ t - s.lastAt <= MaxGap
    THEN EstimateTransferBytes(s.lastRate, t - s.lastAt)
    ELSE 0

(* mutated: an invalid sample starts the counter over                      *)
SampleOrRestart(s, t, rate) ==
    IF rate = NoValue THEN [NewCounter EXCEPT !.key = s.key]
    ELSE [s EXCEPT !.total = @ + Credit(s, t),
                   !.lastAt = t, !.lastRate = rate, !.valid = TRUE]

(* _handle_coordinator_update, after the reset                             *)
TakeSample(s, t, rate) ==
    IF rate = NoValue
    THEN [s EXCEPT !.lastAt = NoValue, !.lastRate = NoValue]
    ELSE [s EXCEPT !.total = @ + Credit(s, t),
                   !.lastAt = t, !.lastRate = rate, !.valid = TRUE]

HandleCoordinatorUpdate(s, p, t, rate) ==
    TakeSample(ResetPeriodIfNeeded(s, p, t), t, rate)

-----------------------------------------------------------------------------
(* What Home Assistant keeps of an entity.  An unavailable entity is       *)
(* written without a numeric state and without its extra attributes; a     *)
(* release <= 1.0.0 wrote the number and no attribute.                     *)

UnavailableState ==
    [state |-> NoValue, bytes |-> NoValue, key |-> NoValue, valid |-> NoValue]

LegacyState == [UnavailableState EXCEPT !.state = LegacyBytes]

(* Python's round: the nearest whole number of bytes, the even one of two. *)
Round(parts) ==
    LET low  == parts \div Second
        rest == parts % Second
    IN IF 2 * rest < Second \/ (2 * rest = Second /\ low % 2 = 0)
       THEN low
       ELSE low + 1

(* The most that rounding adds to a total or takes from it.                *)
HalfByte == Second \div 2

(* native_value (the float, read back only where no total_bytes is kept)   *)
(* and extra_state_attributes, whose total_bytes is rounded.               *)
AvailableState(s) ==
    [state |-> s.total, bytes |-> Round(s.total) * Second, key |-> s.key,
     valid |-> s.valid]

(* mutated: the number is read from the state without a ValueError handler *)
RestoredUnparsed(st) ==
    [NewCounter EXCEPT
        !.total = IF st.bytes # NoValue THEN st.bytes ELSE st.state,
        !.key   = st.key,
        !.valid = st.valid = TRUE]

(* mutated: has_valid_sample is taken from the attribute alone             *)
RestoredAttributeOnly(st) ==
    [NewCounter EXCEPT
        !.total = IF st.bytes # NoValue THEN st.bytes
                  ELSE IF st.state # NoValue THEN st.state
                  ELSE 0,
        !.key   = st.key,
        !.valid = st.valid = TRUE]

(* mutated: the bytes are restored only together with a period key         *)
RestoredWithKeyOnly(st) ==
    LET total == IF st.key # NoValue /\ st.bytes # NoValue THEN st.bytes ELSE 0
    IN [NewCounter EXCEPT
          !.total = total,
          !.key   = st.key,
          !.valid = IF st.valid # NoValue THEN st.valid ELSE total > 0]

(* async_added_to_hass up to the reset: the fields read from last_state    *)
RestoredCounter(st) ==
    LET total == IF st.bytes # NoValue THEN st.bytes
                 ELSE IF st.state # NoValue THEN st.state
                 ELSE 0
    IN [NewCounter EXCEPT
          !.total = total,
          !.key   = st.key,
          !.valid = IF st.valid # NoValue THEN st.valid ELSE total > 0]

(* async_added_to_hass; only the client's sensor looks at the current rate *)
AddedToHass(m, p, list) ==
    LET s == ResetPeriodIfNeeded(RestoredCounter(mem[m][p]), p, now) IN
    IF m \in ClientMeters /\ RateOf(list, m) # NoValue
    THEN [s EXCEPT !.valid = TRUE]
    ELSE s

(* available; for a client also that the list still holds it               *)
Available(m, p) ==
    /\ m \in added
    /\ ok
    /\ PresentIn(data, m)
    /\ ctr[m][p].valid

(* The state the state machine holds for an entity, or RestoreEntity for   *)
(* one that is not loaded.                                                 *)
Snapshot ==
    [m \in Meters |-> [p \in Periods |->
        IF m \notin added THEN mem[m][p]
        ELSE IF Available(m, p) THEN AvailableState(ctr[m][p])
        ELSE UnavailableState]]

-----------------------------------------------------------------------------
Init ==
    /\ now = 0
    /\ backs = 0
    /\ loads = 0
    /\ up = FALSE
    /\ data = NoValue
    /\ ok = FALSE
    /\ added = {}
    /\ ctr = [m \in Meters |-> [p \in Periods |-> NewCounter]]
    /\ \E old \in SUBSET ClientMeters :
          mem = [m \in Meters |-> [p \in Periods |->
                    IF m \in old /\ p = "total" THEN LegacyState
                    ELSE UnavailableState]]
    /\ disk = mem
    /\ spent = [p \in Periods |-> [k \in Keys |-> 0]]
    /\ sampledAt = [m \in Meters |-> NoValue]

(* The wall clock runs, or is set back.                                    *)
Tick ==
    /\ now < MaxTime
    /\ now' = now + 1
    /\ spent' = [p \in Periods |->
                    [spent[p] EXCEPT ![CurrentPeriodKey(p, now)] = @ + 1]]
    /\ UNCHANGED <<backs, loads, up, data, ok, added, ctr, mem, disk, sampledAt>>

SetClockBack(t) ==
    /\ backs < MaxBacks
    /\ t < now
    /\ now' = t
    /\ backs' = backs + 1
    /\ UNCHANGED <<loads, up, data, ok, added, ctr, mem, disk, history>>

Sampled(list) ==
    sampledAt' = [m \in Meters |->
                    IF RateOf(list, m) # NoValue THEN now ELSE sampledAt[m]]

(* async_setup_entry once its first refresh succeeded: the mesh's sensors  *)
(* and those of every listed client are added and restored.                *)
SetUpEntry(list) ==
    /\ ~up
    /\ loads < MaxLoads
    /\ loads' = loads + 1
    /\ up' = TRUE
    /\ data' = list
    /\ ok' = TRUE
    /\ added' = {m \in Meters : PresentIn(list, m)}
    /\ ctr' = [m \in Meters |-> [p \in Periods |->
                  IF PresentIn(list, m) THEN AddedToHass(m, p, list)
                  ELSE NewCounter]]
    /\ Sampled(list)
    /\ UNCHANGED <<now, backs, mem, disk, spent>>

(* A poll succeeds: add_new_clients adds the sensors of clients seen for   *)
(* the first time, every sensor already added handles the update.          *)
PollSucceeds(list) ==
    /\ up
    /\ data' = list
    /\ ok' = TRUE
    /\ added' = added \cup {m \in Meters : PresentIn(list, m)}
    /\ ctr' = [m \in Meters |-> [p \in Periods |->
                  IF m \in added
                  THEN HandleCoordinatorUpdate(ctr[m][p], p, now, RateOf(list, m))
                  ELSE IF PresentIn(list, m) THEN AddedToHass(m, p, list)
                  ELSE ctr[m][p]]]
    /\ Sampled(list)
    /\ UNCHANGED <<now, backs, loads, up, mem, disk, spent>>

(* A poll fails (UpdateFailed): the coordinator keeps the old data and     *)
(* calls the listeners only when the previous poll had succeeded.          *)
PollFails ==
    /\ up
    /\ ok' = FALSE
    /\ ctr' = [m \in Meters |-> [p \in Periods |->
                  IF ok /\ m \in added
                  THEN HandleCoordinatorUpdate(ctr[m][p], p, now, RateOf(data, m))
                  ELSE ctr[m][p]]]
    /\ UNCHANGED <<now, backs, loads, up, data, added, mem, disk, history>>

NotLoaded ==
    /\ up' = FALSE
    /\ data' = NoValue
    /\ ok' = FALSE
    /\ added' = {}
    /\ ctr' = [m \in Meters |-> [p \in Periods |-> NewCounter]]

(* async_unload_entry: RestoreEntity keeps each removed entity's state.    *)
UnloadEntry ==
    /\ up
    /\ NotLoaded
    /\ mem' = Snapshot
    /\ UNCHANGED <<now, backs, loads, disk, history>>

(* Home Assistant writes the restore states, periodically and on shutdown. *)
DumpStates ==
    /\ disk' = Snapshot
    /\ UNCHANGED <<now, backs, loads, up, data, ok, added, ctr, mem, history>>

(* Home Assistant starts again, from what is on disk.  A clean shutdown is *)
(* DumpStates followed by this.                                            *)
RestartHomeAssistant ==
    /\ NotLoaded
    /\ mem' = disk
    /\ UNCHANGED <<now, backs, loads, disk, history>>

Next ==
    \/ Tick
    \/ \E t \in Times : SetClockBack(t)
    \/ \E list \in HostLists : SetUpEntry(list)
    \/ \E list \in HostLists : PollSucceeds(list)
    \/ PollFails
    \/ UnloadEntry
    \/ DumpStates
    \/ RestartHomeAssistant

Spec == Init /\ [][Next]_vars

-----------------------------------------------------------------------------
CounterStates ==
    [total : Nat, key : Keys, lastAt : Times \cup {NoValue},
     lastRate : (0 .. MaxRate) \cup {NoValue}, valid : BOOLEAN]

StoredStates ==
    [state : Nat \cup {NoValue}, bytes : Nat \cup {NoValue}, key : Keys,
     valid : BOOLEAN \cup {NoValue}]

(* The type invariant of the sensors, of Home Assistant's stores and of    *)
(* the history variables.                                                  *)
TypeOK ==
    /\ now \in Times
    /\ backs \in 0 .. MaxBacks
    /\ loads \in 0 .. MaxLoads
    /\ up \in BOOLEAN
    /\ data \in HostLists \cup {NoValue}
    /\ up <=> data # NoValue
    /\ ok \in BOOLEAN
    /\ added \in SUBSET Meters
    /\ ~up => added = {} /\ ~ok
    /\ ctr \in [Meters -> [Periods -> CounterStates]]
    /\ mem \in [Meters -> [Periods -> StoredStates]]
    /\ disk \in [Meters -> [Periods -> StoredStates]]
    /\ spent \in [Periods -> [Keys -> Nat]]
    /\ sampledAt \in [Meters -> Times \cup {NoValue}]

(* The three sensors of one meter are restored, reset and credited         *)
(* separately, yet today's transfer never exceeds this month's, nor this   *)
(* month's the lifetime transfer (sensor.py _reset_period_if_needed,       *)
(* _handle_coordinator_update, async_added_to_hass).                       *)
PeriodsNested ==
    \A m \in Meters :
        /\ ctr[m]["day"].total <= ctr[m]["month"].total
        /\ ctr[m]["month"].total <= ctr[m]["total"].total

(* No sensor holds more than the largest rate could have moved in the time *)
(* that really passed in its period: no span is credited twice, none that  *)
(* reaches across local midnight is credited to the new day, and a restart *)
(* brings back nothing of an older period.  The rounding of total_bytes    *)
(* may add half a byte each time the sensors are restored, and no more.    *)
WithinPeriodTime ==
    \A m \in Meters, p \in Periods :
        ctr[m][p].total <= (IF p = "total" THEN LegacyBytes ELSE 0)
                             + loads * HalfByte
                             + MaxRate * 1024 * spent[p][ctr[m][p].key]

(* A sensor that holds bytes is validated, so `available` never hides      *)
(* accumulated bytes while the poll succeeds and the client is listed.     *)
BytesAreValidated ==
    \A m \in Meters, p \in Periods :
        ctr[m][p].total > 0 => ctr[m][p].valid

(* The lifetime bytes of a meter: what its sensor holds or, while it is    *)
(* not added, what it is restored from.                                    *)
Lifetime(m) ==
    IF m \notin added THEN RestoredCounter(mem[m]["total"]).total
    ELSE ctr[m]["total"].total

(* SensorStateClass.TOTAL_INCREASING: a lifetime counter never decreases   *)
(* while its entity lives, and a day or month counter only when its period *)
(* key changes.                                                            *)
TotalsIncrease ==
    [][\A m \in added \cap added', p \in Periods :
          \/ ctr'[m][p].total >= ctr[m][p].total
          \/ p # "total" /\ ctr'[m][p].key # ctr[m][p].key]_vars

(* Reloading the entry costs a lifetime counter at most the half byte that *)
(* total_bytes is rounded by, as long as its sensor was available when it  *)
(* was removed.                                                            *)
ReloadKeepsLifetime ==
    [][\A m \in Meters :
          \/ Lifetime(m)' + HalfByte >= Lifetime(m)
          \/ RestartHomeAssistant
          \/ m \in added /\ ~Available(m, "total")]_vars

-----------------------------------------------------------------------------
(* What the comments of the code promise and the code does not keep.       *)

(* sensor.py:655 "Do not turn a delayed or missed poll into an invented    *)
(* transfer span": bytes are credited only over a span that starts at a    *)
(* poll that succeeded no longer than MaxGap ago.                          *)
NoInventedSpan ==
    [][\A m \in added \cap added' :
          ctr'[m]["total"].total > ctr[m]["total"].total
            => now - sampledAt[m] <= MaxGap]_vars

(* sensor.py:591 "Restore locally accumulated data after a Home Assistant  *)
(* restart": what is kept of a removed entity brings its bytes back, to    *)
(* the half byte that total_bytes is rounded by.                           *)
RemovalKeepsBytes ==
    [][UnloadEntry => \A m \in added :
          RestoredCounter(mem'[m]["total"]).total + HalfByte
            >= ctr[m]["total"].total]_vars

=============================================================================
