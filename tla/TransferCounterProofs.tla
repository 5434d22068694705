------------------------ MODULE TransferCounterProofs ------------------------
(***************************************************************************)
(* Proofs about TransferCounter, for every set of meters, every host list, *)
(* every calendar and every gap.                                           *)
(***************************************************************************)
EXTENDS TransferCounter, TLAPS

-----------------------------------------------------------------------------
(* Typing of the sensor's own computations.                                *)

(* Multiplying by a number keeps the order.                                *)
LEMMA Multiply ==
    ASSUME NEW r \in Nat, NEW a \in Int, NEW b \in Int, a <= b
    PROVE  r * a <= r * b /\ r * a \in Int /\ r * b \in Int
<1>1. b - a \in Nat
  OBVIOUS
<1>2. r * (b - a) >= 0
  BY <1>1
<1>3. r * (b - a) = r * b - r * a
  OBVIOUS
<1>4. r * a \in Int /\ r * b \in Int
  OBVIOUS
<1> DEFINE x == r * a
           y == r * b
           z == r * (b - a)
<1>5. z >= 0 /\ z = y - x /\ x \in Int /\ y \in Int
  BY <1>2, <1>3, <1>4
<1> HIDE DEF x, y, z
<1>6. x <= y
  BY <1>5
<1> QED
  BY <1>4, <1>6 DEF x, y

(* A rate of a host list is a rate or None.                                *)
LEMMA RateType ==
    ASSUME NEW list \in HostLists, NEW m \in Meters
    PROVE  /\ RateOf(list, m) \in (0 .. MaxRate) \cup {NoValue}
           /\ PresentIn(list, m) \in BOOLEAN
  BY TransferParameters DEF ParameterAssumption

(* A period key of an instant is a key.                                    *)
LEMMA KeyType ==
    ASSUME NEW p \in Periods, NEW t \in Times
    PROVE  CurrentPeriodKey(p, t) \in Keys
  BY DEF Keys

(* None is a key: the lifetime counter's.                                  *)
LEMMA NoKeyType == NoValue \in Keys
<1> DEFINE K == {CurrentPeriodKey(p, t) : p \in Periods, t \in Times}
<1>1. Keys = K \cup {NoValue}
  BY DEF Keys
<1> HIDE DEF K
<1> QED
  BY <1>1

(* What a sample adds is a number of bytes.                                *)
LEMMA CreditType ==
    ASSUME NEW s \in CounterStates, NEW t \in Times
    PROVE  Credit(s, t) \in Nat
<1>1. CASE Credit(s, t) = 0
  BY <1>1
<1>2. CASE Credit(s, t) # 0
  <2>1. /\ s.lastAt # NoValue /\ s.lastRate # NoValue /\ 0 < t - s.lastAt
        /\ Credit(s, t) = EstimateTransferBytes(s.lastRate, t - s.lastAt)
    BY <1>2 DEF Credit
  <2>2. s.lastAt \in Nat /\ s.lastRate \in Nat /\ t \in Nat
    BY <2>1, TransferParameters DEF CounterStates, Times, ParameterAssumption
  <2>3. Credit(s, t) = s.lastRate * 1024 * (t - s.lastAt)
    BY <2>1, <2>2 DEF EstimateTransferBytes
  <2>4. t - s.lastAt \in Nat /\ s.lastRate * 1024 \in Nat
    BY <2>1, <2>2
  <2>5. \A a, b \in Nat : a * b \in Nat
    OBVIOUS
  <2> QED
    BY <2>3, <2>4, <2>5
<1> QED
  BY <1>1, <1>2

(* A new sensor is a sensor.                                               *)
LEMMA NewCounterType == NewCounter \in CounterStates
  BY NoKeyType DEF NewCounter, CounterStates

(* Resetting keeps the type.                                               *)
LEMMA ResetType ==
    ASSUME NEW s \in CounterStates, NEW p \in Periods, NEW t \in Times
    PROVE  ResetPeriodIfNeeded(s, p, t) \in CounterStates
  BY KeyType DEF ResetPeriodIfNeeded, CounterStates, NewCounter

(* Taking a sample keeps the type.                                         *)
LEMMA SampleType ==
    ASSUME NEW s \in CounterStates, NEW t \in Times,
           NEW rate \in (0 .. MaxRate) \cup {NoValue}
    PROVE  TakeSample(s, t, rate) \in CounterStates
<1> DEFINE c == Credit(s, t)
<1>1. c \in Nat
  BY CreditType
<1>2. s.total + c \in Nat
  BY <1>1 DEF CounterStates
<1> HIDE DEF c
<1>3. TakeSample(s, t, rate) =
        IF rate = NoValue
        THEN [s EXCEPT !.lastAt = NoValue, !.lastRate = NoValue]
        ELSE [s EXCEPT !.total = s.total + c,
                       !.lastAt = t, !.lastRate = rate, !.valid = TRUE]
  BY DEF TakeSample, c
<1> QED
  BY <1>2, <1>3 DEF CounterStates

(* Handling an update keeps the type.                                      *)
LEMMA UpdateType ==
    ASSUME NEW s \in CounterStates, NEW p \in Periods, NEW t \in Times,
           NEW rate \in (0 .. MaxRate) \cup {NoValue}
    PROVE  HandleCoordinatorUpdate(s, p, t, rate) \in CounterStates
  BY ResetType, SampleType DEF HandleCoordinatorUpdate

(* The total as total_bytes keeps it.                                      *)
Whole(parts) == Round(parts) * Second

(* Rounding moves a total by half a byte at most, and keeps no bytes none. *)
LEMMA RoundFacts ==
    ASSUME NEW x \in Nat
    PROVE  /\ HalfByte \in Nat
           /\ Round(x) \in Nat /\ Whole(x) \in Nat
           /\ Whole(x) <= x + HalfByte
           /\ x <= Whole(x) + HalfByte
           /\ x = 0 => Whole(x) = 0
<1> DEFINE low == x \div Second
           rest == x % Second
           p == low * Second
<1>1. Second \in Nat /\ Second > 0
  BY TransferParameters DEF ParameterAssumption
<1>2. /\ low \in Nat /\ rest \in Nat /\ rest < Second /\ x = Second * low + rest
      /\ HalfByte \in Nat /\ 2 * HalfByte <= Second /\ Second <= 2 * HalfByte + 1
      /\ x = 0 => rest = 0 /\ low = 0
  BY <1>1 DEF HalfByte
<1>a. Round(x) = IF 2 * rest < Second \/ (2 * rest = Second /\ low % 2 = 0)
                 THEN low ELSE low + 1
  BY DEF Round
<1> HIDE DEF low, rest
<1>3. \/ Round(x) = low /\ 2 * rest <= Second
      \/ Round(x) = low + 1 /\ 2 * rest >= Second
  BY <1>1, <1>2, <1>a
<1>4. x = 0 => Round(x) = low
  BY <1>1, <1>2, <1>a
<1>5. /\ p \in Nat /\ Second * low = p /\ (low + 1) * Second = p + Second
      /\ low = 0 => p = 0
  BY <1>1, <1>2
<1> HIDE DEF p
<1>6. CASE Round(x) = low /\ 2 * rest <= Second
  <2>1. Whole(x) = p /\ x = p + rest
    BY <1>2, <1>5, <1>6 DEF Whole, p
  <2> QED
    BY <2>1, <1>1, <1>2, <1>5, <1>6
<1>7. CASE Round(x) = low + 1 /\ 2 * rest >= Second
  <2>1. Whole(x) = p + Second /\ x = p + rest
    BY <1>2, <1>5, <1>7 DEF Whole
  <2>2. low + 1 # low
    BY <1>2
  <2> QED
    BY <2>1, <2>2, <1>1, <1>2, <1>4, <1>5, <1>7
<1> QED
  BY <1>3, <1>6, <1>7

(* Rounding keeps the order of two totals.                                 *)
LEMMA RoundMonotone ==
    ASSUME NEW x \in Nat, NEW y \in Nat, x <= y
    PROVE  Whole(x) <= Whole(y)
<1> DEFINE lx == x \div Second
           ly == y \div Second
           rx == x % Second
           ry == y % Second
<1>1. Second \in Nat /\ Second > 0
  BY TransferParameters DEF ParameterAssumption
<1>2. /\ lx \in Nat /\ rx \in Nat /\ rx < Second /\ x = Second * lx + rx
      /\ ly \in Nat /\ ry \in Nat /\ ry < Second /\ y = Second * ly + ry
  BY <1>1
<1>3. /\ Round(x) = IF 2 * rx < Second \/ (2 * rx = Second /\ lx % 2 = 0)
                    THEN lx ELSE lx + 1
      /\ Round(y) = IF 2 * ry < Second \/ (2 * ry = Second /\ ly % 2 = 0)
                    THEN ly ELSE ly + 1
  BY DEF Round
<1> HIDE DEF lx, ly, rx, ry
<1>4. lx <= ly
  <2> SUFFICES ASSUME ly + 1 <= lx PROVE FALSE
    BY <1>2
  <2>1. Second * (ly + 1) <= Second * lx
    BY <1>1, <1>2, Multiply
  <2>2. Second * (ly + 1) = Second * ly + Second
    BY <1>1, <1>2
  <2> DEFINE px == Second * lx
             py == Second * ly
  <2>3. px \in Nat /\ py \in Nat /\ x = px + rx /\ y = py + ry /\ py + Second <= px
    BY <1>1, <1>2, <2>1, <2>2
  <2> HIDE DEF px, py
  <2> QED
    BY <1>1, <1>2, <2>3
<1>5. Round(x) \in Nat /\ Round(y) \in Nat
  BY RoundFacts
<1>6. Round(x) <= Round(y)
  <2>1. CASE lx = ly
    <3>1. rx <= ry
      <4> DEFINE px == Second * lx
      <4>1. px \in Nat /\ x = px + rx /\ y = px + ry
        BY <1>1, <1>2, <2>1
      <4> HIDE DEF px
      <4> QED
        BY <4>1, <1>2
    <3> QED
      BY <1>1, <1>2, <1>3, <2>1, <3>1
  <2>2. CASE lx + 1 <= ly
    BY <1>2, <1>3, <2>2
  <2> QED
    BY <1>2, <1>4, <2>1, <2>2
<1>7. Second * Round(x) <= Second * Round(y)
  BY <1>1, <1>5, <1>6, Multiply
<1>8. Second * Round(x) = Whole(x) /\ Second * Round(y) = Whole(y)
  BY <1>1, <1>5 DEF Whole
<1> QED
  BY <1>7, <1>8

(* The state Home Assistant writes of a sensor is a stored state.          *)
LEMMA StoredType ==
    /\ UnavailableState \in StoredStates
    /\ LegacyState \in StoredStates
    /\ \A s \in CounterStates : AvailableState(s) \in StoredStates
<1>1. UnavailableState \in StoredStates
  BY NoKeyType DEF UnavailableState, StoredStates
<1>2. LegacyState \in StoredStates
  BY NoKeyType, TransferParameters
     DEF LegacyState, UnavailableState, StoredStates, ParameterAssumption
<1>3. ASSUME NEW s \in CounterStates
      PROVE  AvailableState(s) \in StoredStates
  <2>1. s.total \in Nat /\ Whole(s.total) \in Nat
    BY RoundFacts DEF CounterStates
  <2>2. AvailableState(s) = [state |-> s.total, bytes |-> Whole(s.total),
                             key |-> s.key, valid |-> s.valid]
    BY DEF AvailableState, Whole
  <2> QED
    BY <2>1, <2>2 DEF StoredStates, CounterStates
<1> QED
  BY <1>1, <1>2, <1>3

(* What is restored from a stored state is a sensor.                       *)
LEMMA RestoredType ==
    ASSUME NEW st \in StoredStates
    PROVE  RestoredCounter(st) \in CounterStates
<1> DEFINE total == IF st.bytes # NoValue THEN st.bytes
                    ELSE IF st.state # NoValue THEN st.state ELSE 0
           valid == IF st.valid # NoValue THEN st.valid ELSE total > 0
<1>1. total \in Nat /\ st.key \in Keys
  BY DEF StoredStates
<1>2. valid \in BOOLEAN
  <2>1. CASE st.valid # NoValue
    <3>1. st.valid \in BOOLEAN
      BY <2>1 DEF StoredStates
    <3> QED
      BY <2>1, <3>1
  <2>2. CASE st.valid = NoValue
    <3>1. valid = (total > 0)
      BY <2>2
    <3>2. (total > 0) \in BOOLEAN
      OBVIOUS
    <3> QED
      BY <3>1, <3>2
  <2> QED
    BY <2>1, <2>2
<1> HIDE DEF total, valid
<1>3. RestoredCounter(st) =
        [NewCounter EXCEPT !.total = total, !.key = st.key, !.valid = valid]
  BY DEF RestoredCounter, total, valid
<1> QED
  BY <1>1, <1>2, <1>3, NewCounterType DEF CounterStates

(* A sensor just added to Home Assistant is a sensor.                      *)
LEMMA AddedType ==
    ASSUME TypeOK, NEW m \in Meters, NEW p \in Periods, NEW list \in HostLists
    PROVE  AddedToHass(m, p, list) \in CounterStates
<1> DEFINE s == ResetPeriodIfNeeded(RestoredCounter(mem[m][p]), p, now)
<1>1. s \in CounterStates
  BY RestoredType, ResetType DEF TypeOK
<1>2. [s EXCEPT !.valid = TRUE] \in CounterStates
  BY <1>1 DEF CounterStates
<1> QED
  BY <1>1, <1>2 DEF AddedToHass

(* What Home Assistant would write is a store.                             *)
LEMMA SnapshotType ==
    ASSUME TypeOK
    PROVE  Snapshot \in [Meters -> [Periods -> StoredStates]]
  BY StoredType DEF TypeOK, Snapshot

-----------------------------------------------------------------------------
(* The type invariant holds in every reachable state.                      *)
THEOREM TypeCorrect == Spec => []TypeOK
<1>1. Init => TypeOK
  <2> SUFFICES ASSUME Init PROVE TypeOK
    OBVIOUS
  <2>1. mem \in [Meters -> [Periods -> StoredStates]]
    BY StoredType DEF Init
  <2>3. spent \in [Periods -> [Keys -> Nat]]
    BY DEF Init
  <2>4. 0 \in Times /\ 0 \in 0 .. MaxBacks /\ 0 \in 0 .. MaxLoads
    BY TransferParameters DEF Times, ParameterAssumption
  <2>2. ctr \in [Meters -> [Periods -> CounterStates]]
    BY NewCounterType DEF Init
  <2> QED
    BY <2>1, <2>2, <2>3, <2>4 DEF Init, TypeOK
<1>2. TypeOK /\ [Next]_vars => TypeOK'
  <2> SUFFICES ASSUME TypeOK, [Next]_vars PROVE TypeOK'
    OBVIOUS
  <2> USE DEF external, history
  <2>1. CASE Tick
    <3>1. now + 1 \in Times
      BY <2>1, TransferParameters DEF Tick, TypeOK, Times, ParameterAssumption
    <3>2. spent' \in [Periods -> [Keys -> Nat]]
      <4>1. \A p \in Periods :
              [spent[p] EXCEPT ![CurrentPeriodKey(p, now)] = @ + 1] \in [Keys -> Nat]
        BY KeyType DEF TypeOK
      <4> QED
        BY <4>1, <2>1 DEF Tick
    <3> QED
      BY <2>1, <3>1, <3>2 DEF Tick, TypeOK
  <2>2. CASE \E t \in Times : SetClockBack(t)
    BY <2>2, TransferParameters DEF SetClockBack, TypeOK, ParameterAssumption
  <2>3. CASE \E list \in HostLists : SetUpEntry(list)
    <3>1. PICK list \in HostLists : SetUpEntry(list)
      BY <2>3
    <3>2. ctr' \in [Meters -> [Periods -> CounterStates]]
      BY <3>1, AddedType, NewCounterType DEF SetUpEntry
    <3>3. sampledAt' \in [Meters -> Times \cup {NoValue}]
      BY <3>1 DEF SetUpEntry, Sampled, TypeOK
    <3> QED
      BY <3>1, <3>2, <3>3, TransferParameters
         DEF SetUpEntry, TypeOK, ParameterAssumption
  <2>4. CASE \E list \in HostLists : PollSucceeds(list)
    <3>1. PICK list \in HostLists : PollSucceeds(list)
      BY <2>4
    <3>2. ctr' \in [Meters -> [Periods -> CounterStates]]
      <4>1. \A m \in Meters, p \in Periods :
              HandleCoordinatorUpdate(ctr[m][p], p, now, RateOf(list, m))
                \in CounterStates
        BY UpdateType, RateType DEF TypeOK
      <4> QED
        BY <4>1, <3>1, AddedType DEF PollSucceeds, TypeOK
    <3>3. sampledAt' \in [Meters -> Times \cup {NoValue}]
      BY <3>1 DEF PollSucceeds, Sampled, TypeOK
    <3> QED
      BY <3>1, <3>2, <3>3, TransferParameters
         DEF PollSucceeds, TypeOK, ParameterAssumption
  <2>5. CASE PollFails
    <3>1. ctr' \in [Meters -> [Periods -> CounterStates]]
      <4>1. data \in HostLists
        BY <2>5 DEF PollFails, TypeOK
      <4>2. \A m \in Meters, p \in Periods :
              HandleCoordinatorUpdate(ctr[m][p], p, now, RateOf(data, m))
                \in CounterStates
        BY <4>1, UpdateType, RateType DEF TypeOK
      <4> QED
        BY <4>2, <2>5 DEF PollFails, TypeOK
    <3> QED
      BY <2>5, <3>1 DEF PollFails, TypeOK
  <2>6. CASE UnloadEntry
    BY <2>6, SnapshotType, NewCounterType DEF UnloadEntry, NotLoaded, TypeOK
  <2>7. CASE DumpStates
    BY <2>7, SnapshotType DEF DumpStates, TypeOK
  <2>8. CASE RestartHomeAssistant
    BY <2>8, NewCounterType DEF RestartHomeAssistant, NotLoaded, TypeOK
  <2>9. CASE UNCHANGED vars
    BY <2>9 DEF vars, TypeOK
  <2> QED
    BY <2>1, <2>2, <2>3, <2>4, <2>5, <2>6, <2>7, <2>8, <2>9 DEF Next
<1> QED
  BY <1>1, <1>2, PTL DEF Spec

-----------------------------------------------------------------------------
(* Today <= this month <= lifetime.                                        *)
(*                                                                         *)
(* The three sensors of a meter never talk to each other.  What keeps them *)
(* ordered is that they run in lockstep: a sensor that is not reset holds  *)
(* the same previous sample as the narrower one, and a wider period is     *)
(* reset only when the narrower one is.  Ordered is that relation between  *)
(* two sensors; for the stores it is asked of what they restore to.        *)

PeriodPairs == {<<"day", "month">>, <<"month", "total">>}

MustReset(s, p, t) ==
    CurrentPeriodKey(p, t) # NoValue /\ s.key # CurrentPeriodKey(p, t)

Ordered(lo, hi, a, b) ==
    /\ a.total <= b.total
    /\ a.total > 0 => a.valid
    /\ b.total > 0 => b.valid
    /\ a.valid => b.valid
    /\ a.lastAt # NoValue => b.lastAt = a.lastAt /\ b.lastRate = a.lastRate
    /\ \A t \in Times : MustReset(b, hi, t) => MustReset(a, lo, t)

OrderedStores(store) ==
    \A m \in Meters : \A pair \in PeriodPairs :
        Ordered(pair[1], pair[2], RestoredCounter(store[m][pair[1]]),
                                  RestoredCounter(store[m][pair[2]]))

NestedInv ==
    /\ \A m \in Meters : \A pair \in PeriodPairs :
          Ordered(pair[1], pair[2], ctr[m][pair[1]], ctr[m][pair[2]])
    /\ OrderedStores(mem)
    /\ OrderedStores(disk)

(* A day or a month always has a key, and one day's month is one month.    *)
LEMMA PairKeys ==
    ASSUME NEW pair \in PeriodPairs, NEW s \in Times, NEW t \in Times
    PROVE  /\ pair[1] \in Periods /\ pair[2] \in Periods
           /\ CurrentPeriodKey(pair[1], t) # NoValue
           /\ CurrentPeriodKey(pair[1], s) = CurrentPeriodKey(pair[1], t)
                => CurrentPeriodKey(pair[2], s) = CurrentPeriodKey(pair[2], t)
<1>1. CASE pair = <<"day", "month">>
  BY <1>1, TransferCalendar DEF CurrentPeriodKey, CalendarAssumption, Periods
<1>2. CASE pair = <<"month", "total">>
  BY <1>2, TransferCalendar DEF CurrentPeriodKey, CalendarAssumption, Periods
<1> QED
  BY <1>1, <1>2 DEF PeriodPairs

(* A pair is a pair of periods.                                            *)
LEMMA PairIsPeriods ==
    ASSUME NEW pair \in PeriodPairs
    PROVE  pair[1] \in Periods /\ pair[2] \in Periods
  BY DEF PeriodPairs, Periods

(* New sensors are ordered.                                                *)
LEMMA NewOrdered ==
    ASSUME NEW pair \in PeriodPairs
    PROVE  Ordered(pair[1], pair[2], NewCounter, NewCounter)
<1>1. \A t \in Times : MustReset(NewCounter, pair[1], t)
  BY PairKeys DEF MustReset, NewCounter
<1>2. /\ NewCounter.total = 0 /\ NewCounter.valid = FALSE
      /\ NewCounter.lastAt = NoValue
  BY DEF NewCounter
<1>3. 0 <= 0 /\ ~(0 > 0)
  OBVIOUS
<1> QED
  BY <1>1, <1>2, <1>3, Zenon DEF Ordered

(* Resetting both sensors of a pair keeps them ordered.                    *)
LEMMA ResetOrdered ==
    ASSUME NEW pair \in PeriodPairs, NEW t \in Times,
           NEW a \in CounterStates, NEW b \in CounterStates,
           Ordered(pair[1], pair[2], a, b)
    PROVE  Ordered(pair[1], pair[2], ResetPeriodIfNeeded(a, pair[1], t),
                                     ResetPeriodIfNeeded(b, pair[2], t))
<1> DEFINE ka == CurrentPeriodKey(pair[1], t)
           kb == CurrentPeriodKey(pair[2], t)
           ra == ResetPeriodIfNeeded(a, pair[1], t)
           rb == ResetPeriodIfNeeded(b, pair[2], t)
<1> SUFFICES Ordered(pair[1], pair[2], ra, rb)
  OBVIOUS
<1>1. ra = IF MustReset(a, pair[1], t) THEN [NewCounter EXCEPT !.key = ka] ELSE a
  BY DEF ResetPeriodIfNeeded, MustReset
<1>2. rb = IF MustReset(b, pair[2], t) THEN [NewCounter EXCEPT !.key = kb] ELSE b
  BY DEF ResetPeriodIfNeeded, MustReset
<1>3. MustReset(b, pair[2], t) => MustReset(a, pair[1], t)
  BY DEF Ordered
<1>4. ra.key = ka /\ (kb # NoValue => rb.key = kb)
  BY <1>1, <1>2, PairKeys DEF MustReset, NewCounter
<1>5. \A u \in Times : MustReset(rb, pair[2], u) => MustReset(ra, pair[1], u)
  <2> SUFFICES ASSUME NEW u \in Times, MustReset(rb, pair[2], u)
               PROVE  MustReset(ra, pair[1], u)
    OBVIOUS
  <2>1. CurrentPeriodKey(pair[2], u) # NoValue /\ rb.key # CurrentPeriodKey(pair[2], u)
    BY DEF MustReset
  <2>2. CASE kb = NoValue
    <3>1. pair[2] = "total"
      BY <2>2, TransferCalendar
         DEF PeriodPairs, CurrentPeriodKey, CalendarAssumption
    <3> QED
      BY <2>1, <3>1 DEF CurrentPeriodKey
  <2>3. CASE kb # NoValue
    <3>1. kb # CurrentPeriodKey(pair[2], u)
      BY <1>4, <2>1, <2>3
    <3>2. ka # CurrentPeriodKey(pair[1], u)
      BY <3>1, PairKeys
    <3> QED
      BY <1>4, <3>2, PairKeys DEF MustReset
  <2> QED
    BY <2>2, <2>3
<1>6. a.total \in Nat /\ b.total \in Nat
  BY DEF CounterStates
<1>7. CASE ~MustReset(a, pair[1], t)
  BY <1>1, <1>2, <1>3, <1>7
<1>8. CASE MustReset(a, pair[1], t)
  <2>1. ra.total = 0 /\ ra.valid = FALSE /\ ra.lastAt = NoValue
    BY <1>1, <1>8 DEF NewCounter
  <2>2. rb = b \/ (rb.total = 0 /\ rb.valid = FALSE)
    BY <1>2 DEF NewCounter
  <2>3. rb.total > 0 => rb.valid
    <3>1. ~(0 > 0)
      OBVIOUS
    <3>2. b.total > 0 => b.valid
      BY DEF Ordered
    <3> QED
      BY <2>2, <3>1, <3>2, Zenon
  <2>4. ra.total <= rb.total /\ ~(ra.total > 0)
    BY <2>1, <2>2, <1>6
  <2> HIDE DEF ra, rb
  <2> QED
    BY <1>5, <2>1, <2>3, <2>4, Zenon DEF Ordered
<1> QED
  BY <1>7, <1>8

(* A poll's sample keeps them ordered.                                     *)
LEMMA SampleOrdered ==
    ASSUME NEW pair \in PeriodPairs, NEW t \in Times,
           NEW a \in CounterStates, NEW b \in CounterStates,
           NEW rate \in (0 .. MaxRate) \cup {NoValue},
           Ordered(pair[1], pair[2], a, b)
    PROVE  Ordered(pair[1], pair[2], TakeSample(a, t, rate), TakeSample(b, t, rate))
<1> DEFINE ca == Credit(a, t)
           cb == Credit(b, t)
           sa == TakeSample(a, t, rate)
           sb == TakeSample(b, t, rate)
<1> SUFFICES Ordered(pair[1], pair[2], sa, sb)
  OBVIOUS
<1>1. ca \in Nat /\ cb \in Nat /\ a.total \in Nat /\ b.total \in Nat
  BY CreditType DEF CounterStates
<1>2. ca <= cb
  <2>1. CASE a.lastAt = NoValue
    <3>1. ca = 0
      BY <2>1 DEF Credit
    <3> QED
      BY <3>1, <1>1
  <2>2. CASE a.lastAt # NoValue
    <3>1. b.lastAt = a.lastAt /\ b.lastRate = a.lastRate
      BY <2>2 DEF Ordered
    <3>2. ca = cb
      BY <3>1 DEF Credit
    <3> QED
      BY <3>2, <1>1
  <2> QED
    BY <2>1, <2>2
<1>3. sa.key = a.key /\ sb.key = b.key
  BY DEF TakeSample, CounterStates
<1>4. \A u \in Times : MustReset(sb, pair[2], u) => MustReset(sa, pair[1], u)
  BY <1>3 DEF Ordered, MustReset
<1>5. CASE rate = NoValue
  <2>1. /\ sa = [a EXCEPT !.lastAt = NoValue, !.lastRate = NoValue]
        /\ sb = [b EXCEPT !.lastAt = NoValue, !.lastRate = NoValue]
    BY <1>5 DEF TakeSample
  <2>2. /\ sa.total = a.total /\ sb.total = b.total
        /\ sa.valid = a.valid /\ sb.valid = b.valid
        /\ sa.lastAt = NoValue
    BY <2>1 DEF CounterStates
  <2> QED
    BY <1>4, <2>2 DEF Ordered
<1>6. CASE rate # NoValue
  <2>1. /\ sa.total = a.total + ca /\ sb.total = b.total + cb
        /\ sa.valid = TRUE /\ sb.valid = TRUE
        /\ sa.lastAt = t /\ sb.lastAt = t
        /\ sa.lastRate = rate /\ sb.lastRate = rate
    BY <1>6 DEF TakeSample, CounterStates
  <2>2. a.total <= b.total
    BY DEF Ordered
  <2>3. a.total + ca <= b.total + cb
    BY <2>2, <1>1, <1>2
  <2> HIDE DEF ca, cb, sa, sb
  <2>4. sa.total <= sb.total
    BY <2>1, <2>3
  <2>5. sa.lastAt # NoValue => sb.lastAt = sa.lastAt /\ sb.lastRate = sa.lastRate
    BY <2>1
  <2>6. sa.valid /\ sb.valid
    BY <2>1, Zenon
  <2> QED
    BY <1>4, <2>4, <2>5, <2>6, Zenon DEF Ordered
<1> QED
  BY <1>5, <1>6

(* So handling one update keeps a pair ordered.                            *)
LEMMA UpdateOrdered ==
    ASSUME NEW pair \in PeriodPairs, NEW t \in Times,
           NEW a \in CounterStates, NEW b \in CounterStates,
           NEW rate \in (0 .. MaxRate) \cup {NoValue},
           Ordered(pair[1], pair[2], a, b)
    PROVE  Ordered(pair[1], pair[2],
                   HandleCoordinatorUpdate(a, pair[1], t, rate),
                   HandleCoordinatorUpdate(b, pair[2], t, rate))
<1>1. pair[1] \in Periods /\ pair[2] \in Periods
  BY PairKeys
<1>2. /\ ResetPeriodIfNeeded(a, pair[1], t) \in CounterStates
      /\ ResetPeriodIfNeeded(b, pair[2], t) \in CounterStates
  BY <1>1, ResetType
<1> QED
  BY <1>2, ResetOrdered, SampleOrdered DEF HandleCoordinatorUpdate

(* An entity removed while unavailable restores to a new sensor, one       *)
(* removed while available to the rounded total, the key and the validity  *)
(* it had.                                                                 *)
LEMMA RestoreFacts ==
    /\ RestoredCounter(UnavailableState) = NewCounter
    /\ \A s \in CounterStates :
          RestoredCounter(AvailableState(s)) =
            [NewCounter EXCEPT !.total = Whole(s.total), !.key = s.key, !.valid = s.valid]
<1>1. RestoredCounter(UnavailableState) = NewCounter
  <2>1. (0 > 0) = FALSE
    OBVIOUS
  <2>2. RestoredCounter(UnavailableState) =
          [NewCounter EXCEPT !.total = 0, !.key = NoValue, !.valid = 0 > 0]
    BY DEF RestoredCounter, UnavailableState
  <2>3. RestoredCounter(UnavailableState) =
          [NewCounter EXCEPT !.total = 0, !.key = NoValue, !.valid = FALSE]
    BY <2>1, <2>2, Zenon
  <2> QED
    BY <2>3 DEF NewCounter
<1>2. ASSUME NEW s \in CounterStates
      PROVE  RestoredCounter(AvailableState(s)) =
               [NewCounter EXCEPT !.total = Whole(s.total), !.key = s.key, !.valid = s.valid]
  <2>1. Whole(s.total) # NoValue /\ s.valid # NoValue
    BY RoundFacts, TransferParameters DEF CounterStates, ParameterAssumption
  <2> QED
    BY <2>1 DEF RestoredCounter, AvailableState, Whole
<1> QED
  BY <1>1, <1>2

(* The sensors of a meter are restored in order.                           *)
LEMMA AddedOrdered ==
    ASSUME TypeOK, NestedInv, NEW m \in Meters, NEW pair \in PeriodPairs,
           NEW list \in HostLists
    PROVE  Ordered(pair[1], pair[2], AddedToHass(m, pair[1], list),
                                     AddedToHass(m, pair[2], list))
<1> DEFINE ra == RestoredCounter(mem[m][pair[1]])
           rb == RestoredCounter(mem[m][pair[2]])
           a == ResetPeriodIfNeeded(ra, pair[1], now)
           b == ResetPeriodIfNeeded(rb, pair[2], now)
           va == [a EXCEPT !.valid = TRUE]
           vb == [b EXCEPT !.valid = TRUE]
<1>1. pair[1] \in Periods /\ pair[2] \in Periods /\ now \in Times
  BY PairKeys DEF TypeOK
<1>2. ra \in CounterStates /\ rb \in CounterStates
  BY <1>1, RestoredType DEF TypeOK
<1>3. Ordered(pair[1], pair[2], a, b)
  <2>1. Ordered(pair[1], pair[2], ra, rb)
    BY DEF NestedInv, OrderedStores
  <2> QED
    BY <2>1, <1>1, <1>2, ResetOrdered
<1>4. a \in CounterStates /\ b \in CounterStates
  BY <1>1, <1>2, ResetType
<1>5. Ordered(pair[1], pair[2], va, vb)
  <2>1. /\ va.total = a.total /\ vb.total = b.total
        /\ va.lastAt = a.lastAt /\ vb.lastAt = b.lastAt
        /\ va.lastRate = a.lastRate /\ vb.lastRate = b.lastRate
        /\ va.key = a.key /\ vb.key = b.key
        /\ va.valid = TRUE /\ vb.valid = TRUE
    BY <1>4 DEF CounterStates
  <2> HIDE DEF va, vb, a, b
  <2>2. \A t \in Times : MustReset(vb, pair[2], t) => MustReset(va, pair[1], t)
    BY <1>3, <2>1 DEF Ordered, MustReset
  <2>3. /\ va.total <= vb.total
        /\ va.lastAt # NoValue => vb.lastAt = va.lastAt /\ vb.lastRate = va.lastRate
    BY <1>3, <2>1 DEF Ordered
  <2>4. va.valid /\ vb.valid
    BY <2>1, Zenon
  <2> QED
    BY <2>2, <2>3, <2>4, Zenon DEF Ordered
<1>6. CASE m \in ClientMeters /\ RateOf(list, m) # NoValue
  <2>1. AddedToHass(m, pair[1], list) = va /\ AddedToHass(m, pair[2], list) = vb
    BY <1>6 DEF AddedToHass
  <2> QED
    BY <2>1, <1>5
<1>7. CASE ~(m \in ClientMeters /\ RateOf(list, m) # NoValue)
  <2>1. AddedToHass(m, pair[1], list) = a /\ AddedToHass(m, pair[2], list) = b
    BY <1>7 DEF AddedToHass
  <2> QED
    BY <2>1, <1>3
<1> QED
  BY <1>6, <1>7

(* What Home Assistant keeps of a meter's sensors is in order: a narrower  *)
(* sensor is available only when the wider one is.                         *)
LEMMA SnapshotOrdered ==
    ASSUME TypeOK, NestedInv
    PROVE  OrderedStores(Snapshot)
<1> SUFFICES ASSUME NEW m \in Meters, NEW pair \in PeriodPairs
             PROVE  Ordered(pair[1], pair[2],
                            RestoredCounter(Snapshot[m][pair[1]]),
                            RestoredCounter(Snapshot[m][pair[2]]))
  BY DEF OrderedStores
<1> DEFINE a == ctr[m][pair[1]]
           b == ctr[m][pair[2]]
           ra == RestoredCounter(AvailableState(a))
           rb == RestoredCounter(AvailableState(b))
<1>1. pair[1] \in Periods /\ pair[2] \in Periods
  BY PairKeys DEF TypeOK
<1>2. a \in CounterStates /\ b \in CounterStates
  BY <1>1 DEF TypeOK
<1>3. Ordered(pair[1], pair[2], a, b)
  BY DEF NestedInv
<1>4. /\ ra = [NewCounter EXCEPT !.total = Whole(a.total), !.key = a.key, !.valid = a.valid]
      /\ rb = [NewCounter EXCEPT !.total = Whole(b.total), !.key = b.key, !.valid = b.valid]
  BY <1>2, RestoreFacts
<1>5. /\ ra.total = Whole(a.total) /\ ra.key = a.key /\ ra.valid = a.valid
      /\ rb.total = Whole(b.total) /\ rb.key = b.key /\ rb.valid = b.valid
      /\ ra.lastAt = NoValue
  BY <1>4 DEF NewCounter
<1>11. /\ a.total \in Nat /\ b.total \in Nat
       /\ Whole(a.total) \in Nat /\ Whole(b.total) \in Nat
       /\ a.total = 0 => Whole(a.total) = 0
       /\ b.total = 0 => Whole(b.total) = 0
  BY <1>2, RoundFacts DEF CounterStates
<1>12. /\ a.total <= b.total
       /\ a.total > 0 => a.valid
       /\ b.total > 0 => b.valid
       /\ a.valid => b.valid
  BY <1>3, Zenon DEF Ordered
<1>13. Whole(a.total) <= Whole(b.total)
  BY <1>11, <1>12, RoundMonotone
<1>14. /\ ra.total > 0 => a.total > 0
       /\ rb.total > 0 => b.total > 0
  BY <1>5, <1>11
<1>15. /\ ra.total > 0 => ra.valid
       /\ rb.total > 0 => rb.valid
       /\ ra.valid => rb.valid
  BY <1>5, <1>12, <1>14, Zenon
<1> HIDE DEF ra, rb
<1>6. CASE m \notin added
  <2>1. Snapshot[m][pair[1]] = mem[m][pair[1]] /\ Snapshot[m][pair[2]] = mem[m][pair[2]]
    BY <1>1, <1>6 DEF Snapshot
  <2> QED
    BY <2>1 DEF NestedInv, OrderedStores
<1>7. CASE m \in added /\ Available(m, pair[1]) /\ Available(m, pair[2])
  <2>1. /\ Snapshot[m][pair[1]] = AvailableState(a)
        /\ Snapshot[m][pair[2]] = AvailableState(b)
    BY <1>1, <1>7 DEF Snapshot
  <2>2. Ordered(pair[1], pair[2], ra, rb)
    <3>1. \A t \in Times : MustReset(rb, pair[2], t) => MustReset(ra, pair[1], t)
      BY <1>3, <1>5 DEF Ordered, MustReset
    <3>2. ra.total <= rb.total
      BY <1>5, <1>13
    <3> QED
      BY <1>5, <1>15, <3>1, <3>2, Zenon DEF Ordered
  <2> QED
    BY <2>1, <2>2 DEF ra, rb
<1>8. CASE m \in added /\ ~Available(m, pair[1]) /\ Available(m, pair[2])
  <2>1. /\ Snapshot[m][pair[1]] = UnavailableState
        /\ Snapshot[m][pair[2]] = AvailableState(b)
    BY <1>1, <1>8 DEF Snapshot
  <2>2. Ordered(pair[1], pair[2], NewCounter, rb)
    <3>1. /\ NewCounter.total = 0 /\ NewCounter.valid = FALSE
          /\ NewCounter.lastAt = NoValue /\ NewCounter.key = NoValue
      BY DEF NewCounter
    <3>2. \A t \in Times : MustReset(NewCounter, pair[1], t)
      BY <3>1, PairKeys DEF MustReset
    <3>3. NewCounter.total <= rb.total /\ ~(NewCounter.total > 0)
      BY <3>1, <1>5, <1>11
    <3> QED
      BY <3>1, <3>2, <3>3, <1>15, Zenon DEF Ordered
  <2> QED
    BY <2>1, <2>2, RestoreFacts DEF rb
<1>9. CASE m \in added /\ ~Available(m, pair[1]) /\ ~Available(m, pair[2])
  <2>1. /\ Snapshot[m][pair[1]] = UnavailableState
        /\ Snapshot[m][pair[2]] = UnavailableState
    BY <1>1, <1>9 DEF Snapshot
  <2> QED
    BY <2>1, RestoreFacts, NewOrdered
<1>10. Available(m, pair[1]) => Available(m, pair[2])
  BY <1>3, Zenon DEF Ordered, Available
<1> QED
  BY <1>6, <1>7, <1>8, <1>9, <1>10

(* The stores of Init restore to ordered sensors, with or without a legacy *)
(* lifetime state.                                                         *)
LEMMA InitialStoreOrdered ==
    ASSUME Init
    PROVE  OrderedStores(mem)
<1> SUFFICES ASSUME NEW m \in Meters, NEW pair \in PeriodPairs
             PROVE  Ordered(pair[1], pair[2], RestoredCounter(mem[m][pair[1]]),
                                              RestoredCounter(mem[m][pair[2]]))
  BY DEF OrderedStores
<1>1. /\ mem[m][pair[1]] = UnavailableState
      /\ mem[m][pair[2]] \in {UnavailableState, LegacyState}
      /\ mem[m][pair[2]] = LegacyState => pair[2] = "total" \/ LegacyState = UnavailableState
  BY DEF Init, PeriodPairs, Periods
<1>2. CASE mem[m][pair[2]] = UnavailableState
  BY <1>1, <1>2, RestoreFacts, NewOrdered
<1>3. CASE mem[m][pair[2]] = LegacyState /\ pair[2] = "total"
  <2> DEFINE l == RestoredCounter(LegacyState)
  <2>1. LegacyBytes \in Nat /\ LegacyBytes # NoValue
    BY TransferParameters DEF ParameterAssumption
  <2>2. l = [NewCounter EXCEPT !.total = LegacyBytes, !.key = NoValue,
                               !.valid = LegacyBytes > 0]
    BY <2>1 DEF RestoredCounter, LegacyState, UnavailableState
  <2>3. /\ NewCounter.total = 0 /\ NewCounter.valid = FALSE
        /\ NewCounter.lastAt = NoValue /\ ~(NewCounter.total > 0)
    BY DEF NewCounter
  <2>4. l.total = LegacyBytes /\ l.valid = (LegacyBytes > 0)
    BY <2>2 DEF NewCounter
  <2> HIDE DEF l
  <2>5. l.total > 0 => l.valid
    BY <2>4, Zenon
  <2>6. NewCounter.total <= l.total
    BY <2>1, <2>3, <2>4
  <2>7. \A t \in Times : ~MustReset(l, pair[2], t)
    BY <1>3 DEF MustReset, CurrentPeriodKey
  <2>8. Ordered(pair[1], pair[2], NewCounter, l)
    BY <2>3, <2>5, <2>6, <2>7, Zenon DEF Ordered
  <2> QED
    BY <1>1, <1>3, <2>8, RestoreFacts DEF l
<1> QED
  BY <1>1, <1>2, <1>3

-----------------------------------------------------------------------------
(* The order is inductive.                                                 *)
THEOREM NestedInductive == Spec => []NestedInv
<1>1. Init => NestedInv
  <2> SUFFICES ASSUME Init PROVE NestedInv
    OBVIOUS
  <2>1. \A m \in Meters, p \in Periods : ctr[m][p] = NewCounter
    BY DEF Init
  <2>2. disk = mem
    BY DEF Init
  <2>3. ASSUME NEW m \in Meters, NEW pair \in PeriodPairs
        PROVE  Ordered(pair[1], pair[2], ctr[m][pair[1]], ctr[m][pair[2]])
    <3>1. ctr[m][pair[1]] = NewCounter /\ ctr[m][pair[2]] = NewCounter
      BY <2>1, PairIsPeriods
    <3> QED
      BY <3>1, NewOrdered
  <2> QED
    BY <2>2, <2>3, InitialStoreOrdered DEF NestedInv, OrderedStores
<1>2. TypeOK /\ NestedInv /\ [Next]_vars => NestedInv'
  <2> SUFFICES ASSUME TypeOK, NestedInv, [Next]_vars PROVE NestedInv'
    OBVIOUS
  <2> USE DEF external, history
  <2>0. ASSUME \A m \in Meters, p \in Periods : ctr'[m][p] = NewCounter
        PROVE  \A m \in Meters, pair \in PeriodPairs :
                 Ordered(pair[1], pair[2], ctr'[m][pair[1]], ctr'[m][pair[2]])
    <3> TAKE m \in Meters, pair \in PeriodPairs
    <3>1. ctr'[m][pair[1]] = NewCounter /\ ctr'[m][pair[2]] = NewCounter
      BY <2>0, PairIsPeriods
    <3> QED
      BY <3>1, NewOrdered
  <2>1. CASE UNCHANGED <<ctr, mem, disk>>
    BY <2>1 DEF NestedInv, OrderedStores
  <2>2. CASE \E list \in HostLists : SetUpEntry(list)
    <3>1. PICK list \in HostLists : SetUpEntry(list)
      BY <2>2
    <3>2. ASSUME NEW m \in Meters, NEW pair \in PeriodPairs
          PROVE  Ordered(pair[1], pair[2], ctr'[m][pair[1]], ctr'[m][pair[2]])
      <4>1. pair[1] \in Periods /\ pair[2] \in Periods
        BY PairKeys DEF TypeOK
      <4>2. CASE PresentIn(list, m)
        BY <3>1, <4>1, <4>2, AddedOrdered DEF SetUpEntry
      <4>3. CASE ~PresentIn(list, m)
        BY <3>1, <4>1, <4>3, NewOrdered DEF SetUpEntry
      <4> QED
        BY <4>2, <4>3
    <3>3. UNCHANGED <<mem, disk>>
      BY <3>1 DEF SetUpEntry
    <3> QED
      BY <3>2, <3>3 DEF NestedInv, OrderedStores
  <2>3. CASE \E list \in HostLists : PollSucceeds(list)
    <3>1. PICK list \in HostLists : PollSucceeds(list)
      BY <2>3
    <3>2. ASSUME NEW m \in Meters, NEW pair \in PeriodPairs
          PROVE  Ordered(pair[1], pair[2], ctr'[m][pair[1]], ctr'[m][pair[2]])
      <4>1. pair[1] \in Periods /\ pair[2] \in Periods /\ now \in Times
        BY PairKeys DEF TypeOK
      <4>2. /\ ctr[m][pair[1]] \in CounterStates /\ ctr[m][pair[2]] \in CounterStates
            /\ Ordered(pair[1], pair[2], ctr[m][pair[1]], ctr[m][pair[2]])
        BY <4>1 DEF TypeOK, NestedInv
      <4>3. CASE m \in added
        BY <3>1, <4>1, <4>2, <4>3, UpdateOrdered, RateType DEF PollSucceeds
      <4>4. CASE m \notin added /\ PresentIn(list, m)
        BY <3>1, <4>1, <4>4, AddedOrdered DEF PollSucceeds
      <4>5. CASE m \notin added /\ ~PresentIn(list, m)
        BY <3>1, <4>1, <4>2, <4>5 DEF PollSucceeds
      <4> QED
        BY <4>3, <4>4, <4>5
    <3>3. UNCHANGED <<mem, disk>>
      BY <3>1 DEF PollSucceeds
    <3> QED
      BY <3>2, <3>3 DEF NestedInv, OrderedStores
  <2>4. CASE PollFails
    <3>1. data \in HostLists
      BY <2>4 DEF PollFails, TypeOK
    <3>2. ASSUME NEW m \in Meters, NEW pair \in PeriodPairs
          PROVE  Ordered(pair[1], pair[2], ctr'[m][pair[1]], ctr'[m][pair[2]])
      <4>1. pair[1] \in Periods /\ pair[2] \in Periods /\ now \in Times
        BY PairKeys DEF TypeOK
      <4>2. /\ ctr[m][pair[1]] \in CounterStates /\ ctr[m][pair[2]] \in CounterStates
            /\ Ordered(pair[1], pair[2], ctr[m][pair[1]], ctr[m][pair[2]])
        BY <4>1 DEF TypeOK, NestedInv
      <4>3. CASE ok /\ m \in added
        BY <2>4, <3>1, <4>1, <4>2, <4>3, UpdateOrdered, RateType DEF PollFails
      <4>4. CASE ~(ok /\ m \in added)
        BY <2>4, <4>1, <4>2, <4>4 DEF PollFails
      <4> QED
        BY <4>3, <4>4
    <3>3. UNCHANGED <<mem, disk>>
      BY <2>4 DEF PollFails
    <3> QED
      BY <3>2, <3>3 DEF NestedInv, OrderedStores
  <2>5. CASE UnloadEntry
    <3>1. /\ \A m \in Meters, p \in Periods : ctr'[m][p] = NewCounter
          /\ mem' = Snapshot /\ disk' = disk
      BY <2>5 DEF UnloadEntry, NotLoaded
    <3> QED
      BY <2>0, <3>1, SnapshotOrdered DEF NestedInv, OrderedStores
  <2>6. CASE DumpStates
    <3>1. ctr' = ctr /\ mem' = mem /\ disk' = Snapshot
      BY <2>6 DEF DumpStates
    <3> QED
      BY <3>1, SnapshotOrdered DEF NestedInv, OrderedStores
  <2>7. CASE RestartHomeAssistant
    <3>1. /\ \A m \in Meters, p \in Periods : ctr'[m][p] = NewCounter
          /\ mem' = disk /\ disk' = disk
      BY <2>7 DEF RestartHomeAssistant, NotLoaded
    <3> QED
      BY <2>0, <3>1 DEF NestedInv, OrderedStores
  <2>8. CASE Tick
    BY <2>1, <2>8 DEF Tick
  <2>9. CASE \E t \in Times : SetClockBack(t)
    BY <2>1, <2>9 DEF SetClockBack
  <2>10. CASE UNCHANGED vars
    BY <2>1, <2>10 DEF vars
  <2> QED
    BY <2>2, <2>3, <2>4, <2>5, <2>6, <2>7, <2>8, <2>9, <2>10 DEF Next
<1> QED
  BY <1>1, <1>2, TypeCorrect, PTL DEF Spec

(* Today's transfer never exceeds this month's, nor this month's the       *)
(* lifetime transfer, in every reachable state.                            *)
THEOREM NestedCorrect == Spec => []PeriodsNested
<1>1. NestedInv => PeriodsNested
  <2>1. <<"day", "month">> \in PeriodPairs /\ <<"month", "total">> \in PeriodPairs
    BY DEF PeriodPairs
  <2> QED
    BY <2>1 DEF NestedInv, PeriodsNested, Ordered
<1> QED
  BY <1>1, NestedInductive, PTL

(* A sensor that holds bytes is validated, in every reachable state.       *)
THEOREM BytesValidated == Spec => []BytesAreValidated
<1>1. NestedInv => BytesAreValidated
  <2>1. <<"day", "month">> \in PeriodPairs /\ <<"month", "total">> \in PeriodPairs
    BY DEF PeriodPairs
  <2> SUFFICES ASSUME NestedInv, NEW m \in Meters, NEW p \in Periods,
                      ctr[m][p].total > 0
               PROVE  ctr[m][p].valid
    BY DEF BytesAreValidated
  <2>2. /\ Ordered("day", "month", ctr[m]["day"], ctr[m]["month"])
        /\ Ordered("month", "total", ctr[m]["month"], ctr[m]["total"])
    BY <2>1 DEF NestedInv
  <2>3. p = "day" \/ p = "month" \/ p = "total"
    BY DEF Periods
  <2> QED
    BY <2>2, <2>3, Zenon DEF Ordered
<1> QED
  BY <1>1, NestedInductive, PTL

-----------------------------------------------------------------------------
(* One update credits a sensor or, with a new period key, resets it.       *)
LEMMA UpdateIncreases ==
    ASSUME NEW s \in CounterStates, NEW p \in Periods, NEW t \in Times,
           NEW rate \in (0 .. MaxRate) \cup {NoValue}
    PROVE  LET u == HandleCoordinatorUpdate(s, p, t, rate)
           IN  u.total >= s.total \/ (p # "total" /\ u.key # s.key)
<1> DEFINE r == ResetPeriodIfNeeded(s, p, t)
           u == TakeSample(r, t, rate)
<1>1. u = HandleCoordinatorUpdate(s, p, t, rate)
  BY DEF HandleCoordinatorUpdate
<1>2. r \in CounterStates /\ s.total \in Nat /\ r.total \in Nat
  BY ResetType DEF CounterStates
<1>3. r = s \/ (p # "total" /\ r.key # s.key)
  BY DEF ResetPeriodIfNeeded, CurrentPeriodKey, NewCounter
<1>4. u.key = r.key /\ u.total >= r.total
  <2> DEFINE c == Credit(r, t)
  <2>1. c \in Nat
    BY <1>2, CreditType
  <2>2. r.total + c >= r.total /\ r.total >= r.total
    BY <1>2, <2>1
  <2> HIDE DEF c, r
  <2>3. u = IF rate = NoValue
            THEN [r EXCEPT !.lastAt = NoValue, !.lastRate = NoValue]
            ELSE [r EXCEPT !.total = r.total + c,
                           !.lastAt = t, !.lastRate = rate, !.valid = TRUE]
    BY DEF TakeSample, c
  <2> QED
    BY <1>2, <2>2, <2>3 DEF CounterStates
<1> HIDE DEF r, u
<1> QED
  BY <1>1, <1>3, <1>4

(* A lifetime counter never decreases while its entity lives, and a day or *)
(* month counter only when its period key changes: polls are the only      *)
(* steps that touch the counters of an entity that stays.                  *)
THEOREM TotalsNeverDecrease == Spec => TotalsIncrease
<1> DEFINE Kept(m, p) == \/ ctr'[m][p].total >= ctr[m][p].total
                         \/ p # "total" /\ ctr'[m][p].key # ctr[m][p].key
           Step == \A m \in added \cap added', p \in Periods : Kept(m, p)
<1>1. TypeOK /\ [Next]_vars => [Step]_vars
  <2> SUFFICES ASSUME TypeOK, Next,
                      NEW m \in added \cap added', NEW p \in Periods
               PROVE  Kept(m, p)
    OBVIOUS
  <2>1. m \in Meters /\ ctr[m][p] \in CounterStates /\ now \in Times
    BY DEF TypeOK
  <2>2. ctr[m][p].total >= ctr[m][p].total
    BY <2>1 DEF CounterStates
  <2>3. CASE UNCHANGED ctr
    BY <2>2, <2>3
  <2>4. CASE \E list \in HostLists : SetUpEntry(list)
    BY <2>4 DEF SetUpEntry, TypeOK
  <2>5. CASE \E list \in HostLists : PollSucceeds(list)
    <3>1. PICK list \in HostLists : PollSucceeds(list)
      BY <2>5
    <3>2. ctr'[m][p] = HandleCoordinatorUpdate(ctr[m][p], p, now, RateOf(list, m))
      BY <3>1, <2>1 DEF PollSucceeds
    <3> QED
      BY <3>2, <2>1, RateType, UpdateIncreases
  <2>6. CASE PollFails
    <3>1. data \in HostLists
      BY <2>6 DEF PollFails, TypeOK
    <3>2. CASE ok
      <4>1. ctr'[m][p] = HandleCoordinatorUpdate(ctr[m][p], p, now, RateOf(data, m))
        BY <2>6, <3>2, <2>1 DEF PollFails
      <4> QED
        BY <4>1, <3>1, <2>1, RateType, UpdateIncreases
    <3>3. CASE ~ok
      BY <2>1, <2>2, <2>6, <3>3 DEF PollFails
    <3> QED
      BY <3>2, <3>3
  <2>7. CASE UnloadEntry \/ RestartHomeAssistant
    BY <2>7 DEF UnloadEntry, RestartHomeAssistant, NotLoaded
  <2>8. CASE Tick \/ DumpStates \/ \E t \in Times : SetClockBack(t)
    BY <2>3, <2>8 DEF Tick, DumpStates, SetClockBack
  <2> QED
    BY <2>4, <2>5, <2>6, <2>7, <2>8 DEF Next
<1> QED
  BY <1>1, TypeCorrect, PTL DEF Spec, TotalsIncrease

-----------------------------------------------------------------------------
(* No more bytes than the time of the period allows.                       *)
(*                                                                         *)
(* What a sensor may still be credited is bounded too: for every instant   *)
(* of its period from its last sample up to now, the bytes up to that      *)
(* instant at the largest rate fit into the time the clock has already     *)
(* run.  Asking it of now alone would not be inductive, since the clock    *)
(* may leave the period and be set back into it.  What rounding may have   *)
(* added is half a byte for every time the bytes were written and restored *)
(* since the first set-up: as much as Carried in the sensors and in what   *)
(* they are restored from, and half a byte more in what is written now.    *)

Carried == (IF up THEN loads - 1 ELSE loads) * HalfByte
Written == loads * HalfByte

Allowed(p, k, sp, g) ==
    (IF p = "total" THEN LegacyBytes ELSE 0) + g + MaxRate * 1024 * sp[p][k]

Afforded(s, p, n, sp, g) ==
    /\ p = "total" => s.key = NoValue
    /\ s.total <= Allowed(p, s.key, sp, g)
    /\ s.lastAt # NoValue =>
          /\ CurrentPeriodKey(p, s.lastAt) = s.key
          /\ \A t \in Times :
                s.lastAt <= t /\ t <= n /\ CurrentPeriodKey(p, t) = s.key =>
                    s.total + MaxRate * 1024 * (t - s.lastAt) <= Allowed(p, s.key, sp, g)

AffordedStore(store, n, sp, g) ==
    \A m \in Meters, p \in Periods : Afforded(RestoredCounter(store[m][p]), p, n, sp, g)

TimeInv ==
    /\ up => loads > 0
    /\ \A m \in Meters, p \in Periods : Afforded(ctr[m][p], p, now, spent, Carried)
    /\ AffordedStore(mem, now, spent, Carried)
    /\ AffordedStore(disk, now, spent, Written)

Clocks == [Periods -> [Keys -> Nat]]

(* The bounds are numbers, and more time allows more bytes.                *)
LEMMA AllowedType ==
    ASSUME NEW p \in Periods, NEW k \in Keys, NEW sp \in Clocks,
           NEW g \in Nat
    PROVE  /\ MaxRate * 1024 \in Nat
           /\ Allowed(p, k, sp, g) \in Nat
<1>1. MaxRate * 1024 \in Nat /\ LegacyBytes \in Nat /\ sp[p][k] \in Nat
  BY TransferParameters DEF ParameterAssumption, Clocks
<1>2. \A a, b \in Nat : a * b \in Nat
  OBVIOUS
<1>3. MaxRate * 1024 * sp[p][k] \in Nat
  BY <1>1, <1>2
<1> QED
  BY <1>1, <1>3 DEF Allowed

(* The grace for rounding is a number, and while the entry is loaded half  *)
(* a byte more is written than was carried.                                *)
LEMMA GraceType ==
    ASSUME TypeOK, up => loads > 0
    PROVE  /\ HalfByte \in Nat /\ Carried \in Nat /\ Written \in Nat
           /\ up => Written = Carried + HalfByte
           /\ ~up => Written = Carried
<1>1. HalfByte \in Nat
  BY RoundFacts
<1>2. loads \in Nat
  BY TransferParameters DEF TypeOK, ParameterAssumption
<1>3. CASE up
  <2>1. loads - 1 \in Nat
    BY <1>2, <1>3
  <2>2. (loads - 1) * HalfByte \in Nat /\ loads * HalfByte \in Nat
    BY <1>1, <1>2, <2>1
  <2>3. loads * HalfByte = (loads - 1) * HalfByte + HalfByte
    BY <1>1, <1>2
  <2> QED
    BY <1>1, <1>3, <2>2, <2>3 DEF Carried, Written
<1>4. CASE ~up
  <2>1. loads * HalfByte \in Nat
    BY <1>1, <1>2
  <2> QED
    BY <1>1, <1>4, <2>1 DEF Carried, Written
<1> QED
  BY <1>3, <1>4

(* More grace allows no less.                                              *)
LEMMA GraceAffords ==
    ASSUME NEW s \in CounterStates, NEW p \in Periods, NEW n \in Times,
           NEW sp \in Clocks,
           NEW g \in Nat, NEW g2 \in Nat, g <= g2,
           Afforded(s, p, n, sp, g)
    PROVE  Afforded(s, p, n, sp, g2)
<1> DEFINE a == Allowed(p, s.key, sp, g)
           b == Allowed(p, s.key, sp, g2)
           x == MaxRate * 1024 * sp[p][s.key]
<1>0. s.key \in Keys /\ s.total \in Nat /\ s.lastAt \in Times \cup {NoValue}
  BY DEF CounterStates
<1>1. LegacyBytes \in Nat /\ a \in Nat /\ b \in Nat /\ MaxRate * 1024 \in Nat
  BY <1>0, AllowedType, TransferParameters DEF ParameterAssumption
<1>2. x \in Nat
  <2>1. sp[p][s.key] \in Nat
    BY <1>0 DEF Clocks
  <2>2. \A i, j \in Nat : i * j \in Nat
    OBVIOUS
  <2> QED
    BY <1>1, <2>1, <2>2
<1>3. /\ a = (IF p = "total" THEN LegacyBytes ELSE 0) + g + x
      /\ b = (IF p = "total" THEN LegacyBytes ELSE 0) + g2 + x
  BY DEF Allowed
<1> HIDE DEF x
<1>4. a <= b
  BY <1>1, <1>2, <1>3
<1> HIDE DEF a, b
<1>5. s.total <= b
  <2>1. s.total <= a
    BY DEF Afforded, a
  <2> QED
    BY <2>1, <1>0, <1>1, <1>4
<1>6. ASSUME s.lastAt # NoValue, NEW t \in Times,
             s.lastAt <= t, t <= n, CurrentPeriodKey(p, t) = s.key
      PROVE  s.total + MaxRate * 1024 * (t - s.lastAt) <= b
  <2> DEFINE y == MaxRate * 1024 * (t - s.lastAt)
  <2>1. s.total + y <= a
    BY <1>6 DEF Afforded, a
  <2>2. t - s.lastAt \in Int
    BY <1>0, <1>6 DEF Times
  <2>3. \A i, j \in Int : i * j \in Int
    OBVIOUS
  <2>4. y \in Int
    BY <1>1, <2>2, <2>3
  <2> HIDE DEF y
  <2>5. s.total + y <= b
    BY <2>1, <2>4, <1>0, <1>1, <1>4
  <2> QED
    BY <2>5 DEF y
<1> QED
  BY <1>5, <1>6 DEF Afforded, b

(* While the clock runs one unit of a period, the period's bound grows by  *)
(* what the largest rate moves in it, and no bound shrinks.                *)
LEMMA TickAllows ==
    ASSUME NEW p \in Periods, NEW k \in Keys, NEW n \in Times, NEW sp \in Clocks,
           NEW g \in Nat,
           NEW sp2, sp2 = [q \in Periods |-> [sp[q] EXCEPT ![CurrentPeriodKey(q, n)] = @ + 1]]
    PROVE  /\ Allowed(p, k, sp2, g) \in Nat
           /\ Allowed(p, k, sp, g) <= Allowed(p, k, sp2, g)
           /\ CurrentPeriodKey(p, n) = k =>
                 Allowed(p, k, sp2, g) = Allowed(p, k, sp, g) + MaxRate * 1024
<1> DEFINE r == MaxRate * 1024
           base == (IF p = "total" THEN LegacyBytes ELSE 0) + g
           x == sp[p][k]
           y == sp2[p][k]
<1>1. r \in Nat /\ base \in Nat /\ x \in Nat
  BY TransferParameters DEF ParameterAssumption, Clocks
<1>2. y = IF CurrentPeriodKey(p, n) = k THEN x + 1 ELSE x
  BY KeyType DEF Clocks
<1>3. Allowed(p, k, sp, g) = base + r * x /\ Allowed(p, k, sp2, g) = base + r * y
  BY DEF Allowed
<1> HIDE DEF r, base, x, y
<1>4. r * (x + 1) = r * x + r
  BY <1>1
<1>5. r * x \in Nat
  BY <1>1
<1> DEFINE rx == r * x
<1>6. /\ CurrentPeriodKey(p, n) = k => r * y = rx + r
      /\ CurrentPeriodKey(p, n) # k => r * y = rx
  BY <1>2, <1>4
<1> HIDE DEF rx
<1>7. rx \in Nat /\ Allowed(p, k, sp, g) = base + rx
  BY <1>3, <1>5 DEF rx
<1>8. CASE CurrentPeriodKey(p, n) = k
  <2>1. Allowed(p, k, sp2, g) = base + (rx + r)
    BY <1>3, <1>6, <1>8
  <2> QED BY <2>1, <1>1, <1>7, <1>8 DEF r
<1>9. CASE CurrentPeriodKey(p, n) # k
  <2>1. Allowed(p, k, sp2, g) = base + rx
    BY <1>3, <1>6, <1>9
  <2> QED BY <2>1, <1>1, <1>7, <1>9
<1> QED
  BY <1>8, <1>9

(* An instant between two instants of one period is of that period.        *)
LEMMA Between ==
    ASSUME NEW p \in Periods, NEW s \in Times, NEW u \in Times, NEW t \in Times,
           s <= u, u <= t, CurrentPeriodKey(p, s) = CurrentPeriodKey(p, t)
    PROVE  CurrentPeriodKey(p, u) = CurrentPeriodKey(p, s)
<1>1. CASE p = "day"
  BY <1>1, TransferCalendar DEF CurrentPeriodKey, CalendarAssumption
<1>2. CASE p = "month"
  BY <1>2, TransferCalendar DEF CurrentPeriodKey, CalendarAssumption
<1>3. CASE p = "total"
  BY <1>3 DEF CurrentPeriodKey
<1> QED
  BY <1>1, <1>2, <1>3 DEF Periods

(* The clock runs.                                                         *)
LEMMA TickAffords ==
    ASSUME NEW s \in CounterStates, NEW p \in Periods, NEW n \in Times, NEW sp \in Clocks,
           NEW g \in Nat,
           n + 1 \in Times, Afforded(s, p, n, sp, g),
           NEW sp2, sp2 = [q \in Periods |-> [sp[q] EXCEPT ![CurrentPeriodKey(q, n)] = @ + 1]]
    PROVE  Afforded(s, p, n + 1, sp2, g)
<1> DEFINE r == MaxRate * 1024
           old == Allowed(p, s.key, sp, g)
           new == Allowed(p, s.key, sp2, g)
<1>0. s.key \in Keys /\ s.total \in Nat /\ s.lastAt \in Times \cup {NoValue}
  BY DEF CounterStates
<1>1. /\ r \in Nat /\ old \in Nat /\ new \in Nat /\ old <= new
      /\ CurrentPeriodKey(p, n) = s.key => new = old + r
  BY <1>0, AllowedType, TickAllows
<1>2. s.total <= old
  BY DEF Afforded
<1>3. ASSUME s.lastAt # NoValue, NEW t \in Times,
             s.lastAt <= t, t <= n + 1, CurrentPeriodKey(p, t) = s.key
      PROVE  s.total + r * (t - s.lastAt) <= new
  <2>0. s.lastAt \in Nat /\ t \in Nat /\ n \in Nat /\ s.lastAt \in Times
    BY <1>0, <1>3 DEF Times
  <2>1. CASE t <= n
    <3>1. s.total + r * (t - s.lastAt) <= old
      BY <1>3, <2>1 DEF Afforded
    <3>2. r * (t - s.lastAt) \in Int
      BY <1>1, <2>0
    <3> DEFINE x == r * (t - s.lastAt)
    <3> HIDE DEF x, r, old, new
    <3> QED BY <3>1, <3>2, <1>0, <1>1 DEF x
  <2>2. CASE t = n + 1 /\ s.lastAt <= n
    <3>1. CurrentPeriodKey(p, s.lastAt) = s.key
      BY <1>3 DEF Afforded
    <3>2. CurrentPeriodKey(p, n) = s.key
      <4>1. n <= t
        BY <2>0, <2>2
      <4> QED BY <4>1, <3>1, <1>3, <2>0, <2>2, Between
    <3>3. s.total + r * (n - s.lastAt) <= old
      <4>1. n <= n
        BY <2>0
      <4> QED BY <4>1, <1>3, <2>2, <3>2 DEF Afforded
    <3>4. r * (t - s.lastAt) = r * (n - s.lastAt) + r
      <4> HIDE DEF r, old, new
      <4>1. \A i, j \in Nat : (i + 1) - j = (i - j) + 1
        OBVIOUS
      <4>3. t - s.lastAt = (n - s.lastAt) + 1
        BY <4>1, <2>0, <2>2
      <4>2. \A x \in Int : r * (x + 1) = r * x + r
        BY <1>1
      <4> QED BY <4>3, <4>2, <2>0
    <3>5. r * (n - s.lastAt) \in Int
      BY <1>1, <2>0
    <3> DEFINE x == r * (n - s.lastAt)
               y == r * (t - s.lastAt)
    <3> HIDE DEF x, y, r, old, new
    <3>6. s.total + x <= old /\ y = x + r /\ new = old + r /\ x \in Int
      BY <3>2, <3>3, <3>4, <3>5, <1>1 DEF x, y
    <3>7. s.total + y <= new
      BY <3>6, <1>0, <1>1
    <3> QED BY <3>7 DEF y
  <2>3. CASE t = n + 1 /\ s.lastAt = n + 1
    <3>1. r * (t - s.lastAt) = 0
      <4> HIDE DEF r
      <4>1. t - s.lastAt = 0
        BY <2>0, <2>3
      <4>2. r * 0 = 0
        BY <1>1
      <4> QED BY <4>1, <4>2
    <3> DEFINE x == r * (t - s.lastAt)
    <3>2. x = 0
      BY <3>1
    <3> HIDE DEF x, r, old, new
    <3> QED BY <3>2, <1>0, <1>1, <1>2 DEF x
  <2> QED BY <1>3, <2>0, <2>1, <2>2, <2>3
<1>4. s.total <= new
  <2> HIDE DEF old, new
  <2> QED BY <1>0, <1>1, <1>2
<1> QED
  BY <1>3, <1>4 DEF Afforded

(* The clock is set back, or nothing happens.                              *)
LEMMA BackAffords ==
    ASSUME NEW s \in CounterStates, NEW p \in Periods, NEW n \in Times, NEW sp, NEW g,
           NEW n2 \in Times, n2 <= n, Afforded(s, p, n, sp, g)
    PROVE  Afforded(s, p, n2, sp, g)
<1>1. \A t \in Times : t <= n2 => t <= n
  BY DEF Times
<1> QED
  BY <1>1 DEF Afforded

(* Whatever was restored: a number of bytes allowed, and no sample.        *)
LEMMA BareAffords ==
    ASSUME NEW s \in CounterStates, NEW p \in Periods, NEW n \in Times, NEW sp \in Clocks,
           NEW g \in Nat,
           s.lastAt = NoValue, p = "total" => s.key = NoValue,
           s.total <= Allowed(p, s.key, sp, g)
    PROVE  Afforded(s, p, n, sp, g)
  BY DEF Afforded

(* A new sensor holds nothing.                                             *)
LEMMA NewAffords ==
    ASSUME NEW p \in Periods, NEW n \in Times, NEW sp \in Clocks,
           NEW g \in Nat, NEW k \in Keys,
           p = "total" => k = NoValue
    PROVE  Afforded([NewCounter EXCEPT !.key = k], p, n, sp, g)
<1> DEFINE s == [NewCounter EXCEPT !.key = k]
<1>1. s.total = 0 /\ s.lastAt = NoValue /\ s.key = k /\ s \in CounterStates
  BY NewCounterType DEF NewCounter, CounterStates
<1>2. Allowed(p, k, sp, g) \in Nat
  BY AllowedType
<1> HIDE DEF s
<1>3. s.total <= Allowed(p, s.key, sp, g)
  BY <1>1, <1>2
<1>4. Afforded(s, p, n, sp, g)
  BY <1>1, <1>3, BareAffords
<1> QED
  BY <1>4 DEF s

(* So does one whose period was not yet determined.                        *)
LEMMA KeylessAffords ==
    ASSUME NEW p \in Periods, NEW n \in Times, NEW sp \in Clocks,
           NEW g \in Nat
    PROVE  Afforded(NewCounter, p, n, sp, g)
<1>1. NewCounter.total = 0 /\ NewCounter.lastAt = NoValue /\ NewCounter.key = NoValue
  BY DEF NewCounter
<1>2. Allowed(p, NoValue, sp, g) \in Nat
  BY AllowedType, NoKeyType
<1>3. NewCounter.total <= Allowed(p, NewCounter.key, sp, g)
  BY <1>1, <1>2
<1> QED
  BY <1>1, <1>3, NewCounterType, BareAffords

(* After a reset the sensor is of the current period.                      *)
LEMMA ResetAffords ==
    ASSUME NEW s \in CounterStates, NEW p \in Periods, NEW n \in Times, NEW sp \in Clocks,
           NEW g \in Nat,
           Afforded(s, p, n, sp, g)
    PROVE  /\ Afforded(ResetPeriodIfNeeded(s, p, n), p, n, sp, g)
           /\ ResetPeriodIfNeeded(s, p, n).key = CurrentPeriodKey(p, n)
<1> DEFINE k == CurrentPeriodKey(p, n)
<1>1. k \in Keys /\ (p = "total" => k = NoValue)
  BY KeyType DEF CurrentPeriodKey
<1>2. k = NoValue => p = "total"
  BY TransferCalendar DEF CurrentPeriodKey, CalendarAssumption, Periods
<1>3. CASE k = NoValue \/ s.key = k
  <2>1. ResetPeriodIfNeeded(s, p, n) = s
    BY <1>3 DEF ResetPeriodIfNeeded
  <2>2. s.key = k
    BY <1>1, <1>2, <1>3 DEF Afforded
  <2> QED BY <2>1, <2>2
<1>4. CASE ~(k = NoValue \/ s.key = k)
  <2>1. ResetPeriodIfNeeded(s, p, n) = [NewCounter EXCEPT !.key = k]
    BY <1>4 DEF ResetPeriodIfNeeded
  <2>2. [NewCounter EXCEPT !.key = k].key = k
    BY DEF NewCounter
  <2>3. Afforded([NewCounter EXCEPT !.key = k], p, n, sp, g)
    BY <1>1, NewAffords
  <2> QED BY <2>1, <2>2, <2>3
<1> QED
  BY <1>3, <1>4

(* A sample is credited what its span allows.                              *)
LEMMA CreditAffords ==
    ASSUME NEW s \in CounterStates, NEW p \in Periods, NEW n \in Times, NEW sp \in Clocks,
           NEW g \in Nat,
           Afforded(s, p, n, sp, g), s.key = CurrentPeriodKey(p, n)
    PROVE  s.total + Credit(s, n) <= Allowed(p, s.key, sp, g)
<1>0. /\ Allowed(p, s.key, sp, g) \in Nat /\ s.total \in Nat /\ Credit(s, n) \in Nat
      /\ s.total <= Allowed(p, s.key, sp, g)
  BY AllowedType, CreditType DEF CounterStates, Afforded
<1>1. CASE Credit(s, n) = 0
  <2> DEFINE c == Credit(s, n)
             a == Allowed(p, s.key, sp, g)
  <2>1. c = 0 /\ s.total \in Nat /\ s.total <= a
    BY <1>0, <1>1
  <2> HIDE DEF c, a
  <2>2. s.total + c <= a
    BY <2>1
  <2> QED BY <2>2 DEF c, a
<1>2. CASE Credit(s, n) # 0
  <2>1. /\ s.lastAt # NoValue /\ s.lastRate # NoValue /\ 0 < n - s.lastAt
        /\ Credit(s, n) = EstimateTransferBytes(s.lastRate, n - s.lastAt)
    BY <1>2 DEF Credit
  <2>2. s.lastAt \in Nat /\ s.lastRate \in 0 .. MaxRate /\ n \in Nat /\ MaxRate \in Nat
    BY <2>1, TransferParameters DEF CounterStates, Times, ParameterAssumption
  <2> DEFINE d == n - s.lastAt
  <2>3. d \in Nat /\ s.lastAt <= n
    BY <2>1, <2>2
  <2>4. Credit(s, n) = s.lastRate * 1024 * d
    BY <2>1, <2>2 DEF EstimateTransferBytes
  <2>5. s.total + MaxRate * 1024 * d <= Allowed(p, s.key, sp, g)
    BY <2>1, <2>3, <1>0 DEF Afforded, Times
  <2> HIDE DEF d
  <2>6. s.lastRate * 1024 * d <= MaxRate * 1024 * d
    <3> DEFINE x == s.lastRate * 1024
               y == MaxRate * 1024
    <3>1. x \in Int /\ y \in Int /\ x <= y
      BY <2>2
    <3> HIDE DEF x, y
    <3>2. d * x <= d * y
      BY <3>1, <2>3, Multiply
    <3>3. d * x = x * d /\ d * y = y * d
      BY <3>1, <2>3
    <3>4. x * d <= y * d
      BY <3>2, <3>3
    <3> QED BY <3>4 DEF x, y
  <2>7. MaxRate * 1024 * d \in Int
    BY <2>2, <2>3
  <2> DEFINE c == Credit(s, n)
             a == Allowed(p, s.key, sp, g)
             z == MaxRate * 1024 * d
  <2>8. c <= z /\ s.total + z <= a /\ z \in Int /\ c \in Nat /\ s.total \in Nat /\ a \in Nat
    BY <2>4, <2>5, <2>6, <2>7, <1>0
  <2> HIDE DEF c, a, z
  <2>9. s.total + c <= a
    BY <2>8
  <2> QED BY <2>9 DEF c, a
<1> QED
  BY <1>1, <1>2

(* Taking a sample in the sensor's own period.                             *)
LEMMA SampleAffords ==
    ASSUME NEW s \in CounterStates, NEW p \in Periods, NEW n \in Times, NEW sp \in Clocks,
           NEW g \in Nat,
           NEW rate \in (0 .. MaxRate) \cup {NoValue},
           Afforded(s, p, n, sp, g), s.key = CurrentPeriodKey(p, n)
    PROVE  Afforded(TakeSample(s, n, rate), p, n, sp, g)
<1> DEFINE u == TakeSample(s, n, rate)
           c == Credit(s, n)
           a == Allowed(p, s.key, sp, g)
<1>0. u \in CounterStates
  BY SampleType
<1>1. c \in Nat /\ a \in Nat /\ s.total \in Nat
  BY CreditType, AllowedType DEF CounterStates
<1>2. s.total + c <= a
  BY CreditAffords
<1>3. CASE rate = NoValue
  <2>1. u = [s EXCEPT !.lastAt = NoValue, !.lastRate = NoValue]
    BY <1>3 DEF TakeSample
  <2>2. u.lastAt = NoValue /\ u.key = s.key /\ u.total = s.total
    BY <2>1 DEF CounterStates
  <2>3. p = "total" => s.key = NoValue
    BY DEF Afforded
  <2>4. s.total <= a
    BY DEF Afforded
  <2> HIDE DEF u
  <2> QED BY <1>0, <2>2, <2>3, <2>4, BareAffords DEF u
<1>4. CASE rate # NoValue
  <2>1. u.total = s.total + c /\ u.key = s.key /\ u.lastAt = n
    <3> HIDE DEF c
    <3>1. u = [s EXCEPT !.total = s.total + c,
                        !.lastAt = n, !.lastRate = rate, !.valid = TRUE]
      BY <1>4 DEF TakeSample, c
    <3> QED BY <3>1 DEF CounterStates
  <2>2. p = "total" => u.key = NoValue
    BY <2>1 DEF Afforded
  <2>3. u.total <= Allowed(p, u.key, sp, g)
    BY <1>2, <2>1
  <2>4. ASSUME NEW t \in Times, u.lastAt <= t, t <= n
        PROVE  u.total + MaxRate * 1024 * (t - u.lastAt) <= Allowed(p, u.key, sp, g)
    <3>1. t - u.lastAt = 0
      BY <2>1, <2>4 DEF Times
    <3>2. MaxRate * 1024 * 0 = 0 /\ MaxRate * 1024 \in Nat
      BY TransferParameters DEF ParameterAssumption
    <3>3. MaxRate * 1024 * (t - u.lastAt) = 0
      BY <3>1, <3>2
    <3>4. u.total \in Nat
      BY <1>0 DEF CounterStates
    <3>5. u.total + 0 = u.total
      BY <3>4
    <3> HIDE DEF u
    <3> QED BY <2>3, <3>3, <3>5
  <2>5. CurrentPeriodKey(p, u.lastAt) = u.key
    BY <2>1
  <2> HIDE DEF u
  <2>6. Afforded(u, p, n, sp, g)
    BY <2>2, <2>3, <2>4, <2>5 DEF Afforded
  <2> QED BY <2>6 DEF u
<1> QED
  BY <1>3, <1>4

(* Handling an update: a reset, and then a sample in the current period.   *)
LEMMA UpdateAffords ==
    ASSUME NEW s \in CounterStates, NEW p \in Periods, NEW n \in Times, NEW sp \in Clocks,
           NEW g \in Nat,
           NEW rate \in (0 .. MaxRate) \cup {NoValue}, Afforded(s, p, n, sp, g)
    PROVE  Afforded(HandleCoordinatorUpdate(s, p, n, rate), p, n, sp, g)
<1> DEFINE r == ResetPeriodIfNeeded(s, p, n)
<1>1. r \in CounterStates /\ Afforded(r, p, n, sp, g) /\ r.key = CurrentPeriodKey(p, n)
  BY ResetType, ResetAffords
<1> HIDE DEF r
<1>2. Afforded(TakeSample(r, n, rate), p, n, sp, g)
  BY <1>1, SampleAffords
<1> QED
  BY <1>2 DEF HandleCoordinatorUpdate, r

(* An added sensor is what was restored of it, reset.                      *)
LEMMA AddedAffords ==
    ASSUME TypeOK, TimeInv, NEW m \in Meters, NEW p \in Periods, NEW list \in HostLists
    PROVE  Afforded(AddedToHass(m, p, list), p, now, spent, Carried)
<1> DEFINE s == ResetPeriodIfNeeded(RestoredCounter(mem[m][p]), p, now)
<1>0. now \in Times /\ spent \in Clocks /\ Carried \in Nat
  BY GraceType DEF TypeOK, Clocks, TimeInv
<1>1. RestoredCounter(mem[m][p]) \in CounterStates
  BY RestoredType DEF TypeOK
<1>2. Afforded(RestoredCounter(mem[m][p]), p, now, spent, Carried)
  BY DEF TimeInv, AffordedStore
<1>3. s \in CounterStates /\ Afforded(s, p, now, spent, Carried)
  BY <1>0, <1>1, <1>2, ResetType, ResetAffords
<1> HIDE DEF s
<1> DEFINE v == [s EXCEPT !.valid = TRUE]
<1>4. v.total = s.total /\ v.key = s.key /\ v.lastAt = s.lastAt
  BY <1>3 DEF CounterStates
<1> HIDE DEF v
<1>5. Afforded(v, p, now, spent, Carried)
  BY <1>3, <1>4 DEF Afforded
<1>6. AddedToHass(m, p, list) = s \/ AddedToHass(m, p, list) = v
  BY DEF AddedToHass, s, v
<1> QED
  BY <1>3, <1>5, <1>6

(* A stored sensor is restored with its rounded bytes and its key, or as a *)
(* new one.                                                                *)
LEMMA SnapshotAffords ==
    ASSUME TypeOK, TimeInv
    PROVE  AffordedStore(Snapshot, now, spent, Written)
<1> SUFFICES ASSUME NEW m \in Meters, NEW p \in Periods
             PROVE  Afforded(RestoredCounter(Snapshot[m][p]), p, now, spent, Written)
  BY DEF AffordedStore
<1>0. /\ now \in Times /\ spent \in Clocks /\ Carried \in Nat /\ Written \in Nat
      /\ HalfByte \in Nat /\ Carried <= Written
  BY GraceType DEF TypeOK, Clocks, TimeInv
<1>1. CASE m \notin added
  <2>1. Snapshot[m][p] = mem[m][p]
    BY <1>1 DEF Snapshot
  <2>2. /\ RestoredCounter(mem[m][p]) \in CounterStates
        /\ Afforded(RestoredCounter(mem[m][p]), p, now, spent, Carried)
    BY RestoredType DEF TypeOK, TimeInv, AffordedStore
  <2> QED BY <1>0, <2>1, <2>2, GraceAffords
<1>2. CASE m \in added /\ Available(m, p)
  <2> DEFINE s == ctr[m][p]
             u == [NewCounter EXCEPT !.total = Whole(s.total), !.key = s.key,
                                     !.valid = s.valid]
             a == Allowed(p, s.key, spent, Carried)
             b == Allowed(p, s.key, spent, Written)
  <2>1. s \in CounterStates /\ Afforded(s, p, now, spent, Carried)
    BY DEF TypeOK, TimeInv
  <2>2. Snapshot[m][p] = AvailableState(s)
    BY <1>2 DEF Snapshot
  <2> HIDE DEF s
  <2>3. RestoredCounter(Snapshot[m][p]) = u
    BY <2>1, <2>2, RestoreFacts
  <2>a. /\ s.total \in Nat /\ s.key \in Keys /\ Whole(s.total) \in Nat
        /\ Whole(s.total) <= s.total + HalfByte
    BY <2>1, RoundFacts DEF CounterStates
  <2>4. /\ u \in CounterStates /\ u.total = Whole(s.total) /\ u.key = s.key
        /\ u.lastAt = NoValue
    BY <2>1, <2>a, NewCounterType DEF CounterStates, NewCounter
  <2> HIDE DEF u
  <2>b. b = a + HalfByte /\ a \in Nat
    <3> DEFINE x == MaxRate * 1024 * spent[p][s.key]
    <3>1. Written = Carried + HalfByte
      BY <1>2, GraceType DEF TypeOK, TimeInv
    <3>2. x \in Nat /\ LegacyBytes \in Nat
      <4>1. spent[p][s.key] \in Nat /\ MaxRate * 1024 \in Nat /\ LegacyBytes \in Nat
        BY <1>0, <2>a, TransferParameters DEF Clocks, ParameterAssumption
      <4>2. \A i, j \in Nat : i * j \in Nat
        OBVIOUS
      <4> QED BY <4>1, <4>2
    <3>3. /\ a = (IF p = "total" THEN LegacyBytes ELSE 0) + Carried + x
          /\ b = (IF p = "total" THEN LegacyBytes ELSE 0) + Written + x
      BY DEF Allowed
    <3> HIDE DEF x, a, b
    <3> QED BY <1>0, <3>1, <3>2, <3>3
  <2>c. s.total <= a /\ (p = "total" => s.key = NoValue)
    BY <2>1 DEF Afforded
  <2>d. u.total <= b
    <3> HIDE DEF a, b
    <3> QED BY <1>0, <2>4, <2>a, <2>b, <2>c
  <2>5. (p = "total" => u.key = NoValue) /\ u.total <= Allowed(p, u.key, spent, Written)
    BY <2>4, <2>c, <2>d
  <2> HIDE DEF a, b
  <2>6. Afforded(u, p, now, spent, Written)
    BY <1>0, <2>4, <2>5, BareAffords
  <2> QED BY <2>3, <2>6
<1>3. CASE m \in added /\ ~Available(m, p)
  <2>1. Snapshot[m][p] = UnavailableState
    BY <1>3 DEF Snapshot
  <2>2. Afforded(NewCounter, p, now, spent, Written)
    BY <1>0, KeylessAffords
  <2> QED BY <2>1, <2>2, RestoreFacts
<1> QED
  BY <1>1, <1>2, <1>3

(* What every sensor may hold and may still be credited is bounded by the  *)
(* time the clock has run in its period.                                   *)
THEOREM TimeInductive == Spec => []TimeInv
<1>1. Init => TimeInv
  <2> SUFFICES ASSUME Init PROVE TimeInv
    OBVIOUS
  <2>1. now \in Times /\ spent \in Clocks
    BY TransferParameters DEF Init, Times, Clocks, ParameterAssumption
  <2>a. Carried = 0 /\ Written = 0
    BY RoundFacts DEF Init, Carried, Written
  <2>2. \A p \in Periods : Afforded(NewCounter, p, now, spent, Carried)
    BY <2>1, <2>a, KeylessAffords
  <2>3. AffordedStore(mem, now, spent, Carried)
    <3> SUFFICES ASSUME NEW m \in Meters, NEW p \in Periods
                 PROVE  Afforded(RestoredCounter(mem[m][p]), p, now, spent, Carried)
      BY DEF AffordedStore
    <3>1. \/ mem[m][p] = UnavailableState
          \/ mem[m][p] = LegacyState /\ p = "total"
      BY DEF Init
    <3>2. CASE mem[m][p] = UnavailableState
      BY <2>2, <3>2, RestoreFacts
    <3>3. CASE mem[m][p] = LegacyState /\ p = "total"
      <4> DEFINE l == RestoredCounter(LegacyState)
      <4>1. LegacyBytes \in Nat /\ LegacyBytes # NoValue /\ MaxRate \in Nat
        BY TransferParameters DEF ParameterAssumption
      <4>2. l.total = LegacyBytes /\ l.key = NoValue /\ l.lastAt = NoValue
        BY <4>1 DEF RestoredCounter, LegacyState, UnavailableState, NewCounter
      <4>3. l \in CounterStates
        BY StoredType, RestoredType
      <4> HIDE DEF l
      <4>4. spent[p][NoValue] = 0
        BY NoKeyType DEF Init
      <4>5. Allowed(p, l.key, spent, Carried) = LegacyBytes
        <5>1. MaxRate * 1024 * 0 = 0
          BY <4>1
        <5>2. Allowed(p, l.key, spent, Carried) = LegacyBytes + 0 + MaxRate * 1024 * 0
          BY <2>a, <3>3, <4>2, <4>4 DEF Allowed
        <5> QED BY <5>1, <5>2, <4>1
      <4>6. Afforded(l, p, now, spent, Carried)
        <5>1. l.total <= Allowed(p, l.key, spent, Carried)
          BY <4>1, <4>2, <4>5
        <5> QED BY <2>1, <2>a, <4>2, <4>3, <5>1, BareAffords
      <4> QED BY <3>3, <4>6 DEF l
    <3> QED BY <3>1, <3>2, <3>3
  <2> QED
    BY <2>a, <2>2, <2>3 DEF Init, TimeInv
<1>2. TypeOK /\ TimeInv /\ [Next]_vars => TimeInv'
  <2> SUFFICES ASSUME TypeOK, TimeInv, [Next]_vars PROVE TimeInv'
    OBVIOUS
  <2> USE DEF external, history
  <2>0. /\ now \in Times /\ spent \in Clocks /\ (up => loads > 0)
        /\ \A m \in Meters, p \in Periods :
              /\ ctr[m][p] \in CounterStates /\ Afforded(ctr[m][p], p, now, spent, Carried)
              /\ RestoredCounter(mem[m][p]) \in CounterStates
              /\ Afforded(RestoredCounter(mem[m][p]), p, now, spent, Carried)
              /\ RestoredCounter(disk[m][p]) \in CounterStates
              /\ Afforded(RestoredCounter(disk[m][p]), p, now, spent, Written)
    BY RestoredType DEF TypeOK, Clocks, TimeInv, AffordedStore
  <2>a. \A p \in Periods, g \in Nat : Afforded(NewCounter, p, now, spent, g)
    BY <2>0, KeylessAffords
  <2>b. Carried \in Nat /\ Written \in Nat
    BY <2>0, GraceType
  <2>c. (UNCHANGED <<up, loads>>) => Carried' = Carried /\ Written' = Written
    BY DEF Carried, Written
  <2>1. CASE Tick
    <3>1. /\ now' = now + 1 /\ UNCHANGED <<ctr, mem, disk>> /\ UNCHANGED <<up, loads>>
          /\ spent' = [p \in Periods |->
                          [spent[p] EXCEPT ![CurrentPeriodKey(p, now)] = @ + 1]]
      BY <2>1 DEF Tick
    <3>2. now + 1 \in Times
      BY <2>1, <2>0, TransferParameters DEF Tick, Times, ParameterAssumption
    <3>3. \A m \in Meters, p \in Periods :
             /\ Afforded(ctr[m][p], p, now + 1, spent', Carried)
             /\ Afforded(RestoredCounter(mem[m][p]), p, now + 1, spent', Carried)
             /\ Afforded(RestoredCounter(disk[m][p]), p, now + 1, spent', Written)
      BY <2>0, <2>b, <3>1, <3>2, TickAffords
    <3> QED BY <2>0, <2>c, <3>1, <3>3 DEF TimeInv, AffordedStore
  <2>2. CASE \E t \in Times : SetClockBack(t)
    <3>1. PICK t \in Times : SetClockBack(t)
      BY <2>2
    <3>2. /\ now' = t /\ t <= now /\ UNCHANGED <<ctr, mem, disk, spent>>
          /\ UNCHANGED <<up, loads>>
      BY <3>1, <2>0 DEF SetClockBack, Times
    <3>3. \A m \in Meters, p \in Periods :
             /\ Afforded(ctr[m][p], p, t, spent, Carried)
             /\ Afforded(RestoredCounter(mem[m][p]), p, t, spent, Carried)
             /\ Afforded(RestoredCounter(disk[m][p]), p, t, spent, Written)
      BY <2>0, <3>2, BackAffords
    <3> QED BY <2>0, <2>c, <3>2, <3>3 DEF TimeInv, AffordedStore
  <2>3. CASE \E list \in HostLists : SetUpEntry(list)
    <3>1. PICK list \in HostLists : SetUpEntry(list)
      BY <2>3
    <3>2. \A m \in Meters, p \in Periods : Afforded(ctr'[m][p], p, now, spent, Carried)
      BY <3>1, <2>a, <2>b, AddedAffords DEF SetUpEntry
    <3>3. loads \in Nat
      BY TransferParameters DEF TypeOK, ParameterAssumption
    <3>4. /\ ~up /\ up' = TRUE /\ loads' = loads + 1 /\ UNCHANGED <<now, mem, disk, spent>>
      BY <3>1 DEF SetUpEntry
    <3>5. Carried' = Carried
      <4>1. (loads + 1) - 1 = loads
        BY <3>3
      <4> QED BY <3>4, <4>1 DEF Carried
    <3>6. Written \in Nat /\ Written' = Written + HalfByte /\ HalfByte \in Nat
      <4>1. HalfByte \in Nat
        BY RoundFacts
      <4>2. (loads + 1) * HalfByte = loads * HalfByte + HalfByte
        BY <3>3, <4>1
      <4> QED BY <2>b, <3>4, <4>1, <4>2 DEF Written, HalfByte
    <3>7. Written' \in Nat /\ Written <= Written'
      BY <3>6
    <3>8. \A m \in Meters, p \in Periods :
             Afforded(RestoredCounter(disk[m][p]), p, now, spent, Written')
      BY <2>0, <2>b, <3>7, GraceAffords
    <3>9. loads' > 0
      BY <3>3, <3>4
    <3> QED BY <2>0, <3>2, <3>4, <3>5, <3>8, <3>9 DEF TimeInv, AffordedStore
  <2>4. CASE \E list \in HostLists : PollSucceeds(list)
    <3>1. PICK list \in HostLists : PollSucceeds(list)
      BY <2>4
    <3>2. ASSUME NEW m \in Meters, NEW p \in Periods
          PROVE  Afforded(ctr'[m][p], p, now, spent, Carried)
      <4>1. CASE m \in added
        <5>1. ctr'[m][p] = HandleCoordinatorUpdate(ctr[m][p], p, now, RateOf(list, m))
          BY <3>1, <4>1 DEF PollSucceeds
        <5> QED BY <5>1, <2>0, <2>b, RateType, UpdateAffords
      <4>2. CASE m \notin added
        BY <3>1, <4>2, <2>0, AddedAffords DEF PollSucceeds
      <4> QED BY <4>1, <4>2
    <3>3. UNCHANGED <<now, up, loads, mem, disk, spent>>
      BY <3>1 DEF PollSucceeds
    <3> QED BY <2>0, <2>c, <3>2, <3>3 DEF TimeInv, AffordedStore
  <2>5. CASE PollFails
    <3>1. data \in HostLists
      BY <2>5 DEF PollFails, TypeOK
    <3>2. ASSUME NEW m \in Meters, NEW p \in Periods
          PROVE  Afforded(ctr'[m][p], p, now, spent, Carried)
      <4>1. CASE ok /\ m \in added
        <5>1. ctr'[m][p] = HandleCoordinatorUpdate(ctr[m][p], p, now, RateOf(data, m))
          BY <2>5, <4>1 DEF PollFails
        <5> QED BY <5>1, <3>1, <2>0, <2>b, RateType, UpdateAffords
      <4>2. CASE ~(ok /\ m \in added)
        BY <2>5, <4>2, <2>0 DEF PollFails
      <4> QED BY <4>1, <4>2
    <3>3. UNCHANGED <<now, up, loads, mem, disk, spent>>
      BY <2>5 DEF PollFails
    <3> QED BY <2>0, <2>c, <3>2, <3>3 DEF TimeInv, AffordedStore
  <2>d. ASSUME ~up', UNCHANGED <<now, loads, disk, spent>>,
               \A m \in Meters, p \in Periods : ctr'[m][p] = NewCounter,
               AffordedStore(mem', now, spent, Written)
        PROVE  TimeInv'
    <3>1. Carried' = Written /\ Written' = Written
      BY <2>d DEF Carried, Written
    <3> QED BY <2>0, <2>a, <2>b, <2>d, <3>1 DEF TimeInv, AffordedStore
  <2>6. CASE UnloadEntry
    BY <2>6, <2>d, SnapshotAffords DEF UnloadEntry, NotLoaded
  <2>7. CASE DumpStates
    <3>1. UNCHANGED <<now, up, loads, ctr, mem, spent>> /\ disk' = Snapshot
      BY <2>7 DEF DumpStates
    <3> QED BY <2>0, <2>c, <3>1, SnapshotAffords DEF TimeInv, AffordedStore
  <2>8. CASE RestartHomeAssistant
    BY <2>0, <2>8, <2>d DEF RestartHomeAssistant, NotLoaded, AffordedStore
  <2>9. CASE UNCHANGED vars
    BY <2>0, <2>9, <2>c DEF vars, TimeInv, AffordedStore
  <2> QED
    BY <2>1, <2>2, <2>3, <2>4, <2>5, <2>6, <2>7, <2>8, <2>9 DEF Next
<1> QED
  BY <1>1, <1>2, TypeCorrect, PTL DEF Spec

(* No sensor holds more than the largest rate moves in the time that       *)
(* really passed in its period (WithinPeriodTime), whatever is restarted,  *)
(* missed or set back, but for half a byte of rounding per set-up.         *)
THEOREM BytesFitTheirTime == Spec => []WithinPeriodTime
<1>1. TypeOK /\ TimeInv => WithinPeriodTime
  <2> SUFFICES ASSUME TypeOK, TimeInv, NEW m \in Meters, NEW p \in Periods
               PROVE  ctr[m][p].total <= Allowed(p, ctr[m][p].key, spent, Written)
    BY DEF WithinPeriodTime, Allowed, Written
  <2>1. /\ spent \in Clocks /\ now \in Times /\ ctr[m][p] \in CounterStates
        /\ Afforded(ctr[m][p], p, now, spent, Carried)
    BY DEF TypeOK, TimeInv, Clocks
  <2>2. Carried \in Nat /\ Written \in Nat /\ Carried <= Written
    BY GraceType DEF TimeInv
  <2>3. Afforded(ctr[m][p], p, now, spent, Written)
    BY <2>1, <2>2, GraceAffords
  <2> QED
    BY <2>3 DEF Afforded
<1> QED
  BY <1>1, TypeCorrect, TimeInductive, PTL

-----------------------------------------------------------------------------
(* What a reload costs.                                                    *)

(* A sensor that is added brings back the lifetime bytes stored for it.    *)
LEMMA AddedRecovers ==
    ASSUME TypeOK, NEW m \in Meters, NEW list \in HostLists
    PROVE  AddedToHass(m, "total", list).total = RestoredCounter(mem[m]["total"]).total
<1> DEFINE s == RestoredCounter(mem[m]["total"])
<1>1. "total" \in Periods
  BY DEF Periods
<1>2. s \in CounterStates
  BY <1>1, RestoredType DEF TypeOK
<1> HIDE DEF s
<1>3. ResetPeriodIfNeeded(s, "total", now) = s
  BY DEF ResetPeriodIfNeeded, CurrentPeriodKey
<1>4. [s EXCEPT !.valid = TRUE].total = s.total
  BY <1>2 DEF CounterStates
<1> QED
  BY <1>3, <1>4 DEF AddedToHass, s

(* Reloading the entry costs a lifetime counter at most half a byte as     *)
(* long as its sensor was available when it was removed                    *)
(* (ReloadKeepsLifetime).                                                  *)
THEOREM ReloadsKeepLifetime == Spec => ReloadKeepsLifetime
<1> DEFINE Kept(m) == \/ Lifetime(m)' + HalfByte >= Lifetime(m)
                      \/ RestartHomeAssistant
                      \/ m \in added /\ ~Available(m, "total")
           Step == \A m \in Meters : Kept(m)
<1>1. TypeOK /\ [Next]_vars => [Step]_vars
  <2> SUFFICES ASSUME TypeOK, Next, NEW m \in Meters
               PROVE  Kept(m)
    OBVIOUS
  <2>0. "total" \in Periods
    BY DEF Periods
  <2>1. /\ ctr[m]["total"] \in CounterStates /\ ctr[m]["total"].total \in Nat
        /\ RestoredCounter(mem[m]["total"]).total \in Nat /\ now \in Times
    BY <2>0, RestoredType DEF TypeOK, CounterStates
  <2>2. Lifetime(m) \in Nat /\ HalfByte \in Nat
    BY <2>1, RoundFacts DEF Lifetime
  <2>3. CASE UNCHANGED <<added, ctr, mem>>
    <3>1. Lifetime(m)' = Lifetime(m)
      BY <2>3 DEF Lifetime
    <3> QED BY <2>2, <3>1
  <2>4. CASE \E list \in HostLists : SetUpEntry(list)
    <3>1. PICK list \in HostLists : SetUpEntry(list)
      BY <2>4
    <3>2. m \notin added
      BY <3>1 DEF SetUpEntry, TypeOK
    <3>3. CASE PresentIn(list, m)
      <4>1. m \in added' /\ ctr'[m]["total"] = AddedToHass(m, "total", list)
        BY <3>1, <3>3, <2>0 DEF SetUpEntry
      <4>2. Lifetime(m)' = Lifetime(m)
        BY <3>2, <4>1, AddedRecovers DEF Lifetime
      <4> QED BY <2>2, <4>2
    <3>4. CASE ~PresentIn(list, m)
      <4>1. m \notin added' /\ mem' = mem
        BY <3>1, <3>4 DEF SetUpEntry, external
      <4>2. Lifetime(m)' = Lifetime(m)
        BY <3>2, <4>1 DEF Lifetime
      <4> QED BY <2>2, <4>2
    <3> QED BY <3>3, <3>4
  <2>5. CASE \E list \in HostLists : PollSucceeds(list)
    <3>1. PICK list \in HostLists : PollSucceeds(list)
      BY <2>5
    <3>2. CASE m \in added
      <4>1. /\ m \in added'
            /\ ctr'[m]["total"] = HandleCoordinatorUpdate(ctr[m]["total"], "total", now, RateOf(list, m))
        BY <3>1, <3>2, <2>0 DEF PollSucceeds
      <4>2. ctr'[m]["total"].total >= ctr[m]["total"].total
        BY <4>1, <2>0, <2>1, RateType, UpdateIncreases
      <4>a. ctr'[m]["total"] \in CounterStates
        BY <4>1, <2>0, <2>1, RateType, UpdateType
      <4>3. ctr'[m]["total"].total \in Nat
        BY <4>a DEF CounterStates
      <4> QED BY <2>1, <2>2, <3>2, <4>1, <4>2, <4>3 DEF Lifetime
    <3>3. CASE m \notin added /\ PresentIn(list, m)
      <4>1. m \in added' /\ ctr'[m]["total"] = AddedToHass(m, "total", list)
        BY <3>1, <3>3, <2>0 DEF PollSucceeds
      <4>2. Lifetime(m)' = Lifetime(m)
        BY <3>3, <4>1, AddedRecovers DEF Lifetime
      <4> QED BY <2>2, <4>2
    <3>4. CASE m \notin added /\ ~PresentIn(list, m)
      <4>1. m \notin added' /\ mem' = mem
        BY <3>1, <3>4 DEF PollSucceeds
      <4>2. Lifetime(m)' = Lifetime(m)
        BY <3>4, <4>1 DEF Lifetime
      <4> QED BY <2>2, <4>2
    <3> QED BY <3>2, <3>3, <3>4
  <2>6. CASE PollFails
    <3>1. data \in HostLists /\ added' = added /\ mem' = mem
      BY <2>6 DEF PollFails, TypeOK
    <3>2. CASE ok /\ m \in added
      <4>1. ctr'[m]["total"] = HandleCoordinatorUpdate(ctr[m]["total"], "total", now, RateOf(data, m))
        BY <2>6, <3>2, <2>0 DEF PollFails
      <4>2. ctr'[m]["total"].total >= ctr[m]["total"].total
        BY <3>1, <4>1, <2>0, <2>1, RateType, UpdateIncreases
      <4>3. ctr'[m]["total"].total \in Nat
        BY <3>1, <4>1, <2>0, <2>1, RateType, UpdateType DEF CounterStates
      <4> QED BY <2>1, <2>2, <3>1, <3>2, <4>2, <4>3 DEF Lifetime
    <3>3. CASE ~(ok /\ m \in added)
      <4>1. ctr'[m]["total"] = ctr[m]["total"]
        BY <2>6, <3>3, <2>0 DEF PollFails, TypeOK
      <4>2. Lifetime(m)' = Lifetime(m)
        BY <3>1, <4>1 DEF Lifetime
      <4> QED BY <2>2, <4>2
    <3> QED BY <3>2, <3>3
  <2>7. CASE UnloadEntry
    <3>1. m \notin added' /\ mem'[m]["total"] = Snapshot[m]["total"]
      BY <2>7 DEF UnloadEntry, NotLoaded
    <3>2. CASE m \notin added
      <4>1. Snapshot[m]["total"] = mem[m]["total"]
        BY <3>2, <2>0 DEF Snapshot
      <4>2. Lifetime(m)' = Lifetime(m)
        BY <3>1, <3>2, <4>1 DEF Lifetime
      <4> QED BY <2>2, <4>2
    <3>3. CASE m \in added /\ Available(m, "total")
      <4> DEFINE s == ctr[m]["total"]
                 u == [NewCounter EXCEPT !.total = Whole(s.total), !.key = s.key,
                                         !.valid = s.valid]
      <4>1. Snapshot[m]["total"] = AvailableState(s)
        BY <3>3, <2>0 DEF Snapshot
      <4>2. s \in CounterStates
        BY <2>1
      <4> HIDE DEF s
      <4>3. RestoredCounter(AvailableState(s)) = u /\ u.total = Whole(s.total)
        BY <4>2, RestoreFacts DEF NewCounter
      <4> HIDE DEF u
      <4>4. Lifetime(m)' = Whole(s.total) /\ Lifetime(m) = s.total
        BY <3>1, <3>3, <4>1, <4>3 DEF Lifetime, s
      <4>5. s.total <= Whole(s.total) + HalfByte
        BY <4>2, RoundFacts DEF CounterStates
      <4> QED BY <4>4, <4>5
    <3> QED BY <3>2, <3>3
  <2>8. CASE RestartHomeAssistant
    BY <2>8
  <2>9. CASE Tick \/ DumpStates \/ \E t \in Times : SetClockBack(t)
    BY <2>3, <2>9 DEF Tick, DumpStates, SetClockBack
  <2> QED
    BY <2>4, <2>5, <2>6, <2>7, <2>8, <2>9 DEF Next
<1> QED
  BY <1>1, TypeCorrect, PTL DEF Spec, ReloadKeepsLifetime

=============================================================================
