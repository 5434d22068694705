# Tenda MW6 for Home Assistant: verification project

The integration polls a Tenda MW6 mesh over a private TCP protocol, shows every
client of the mesh as Home Assistant entities, adds up local transfer counters
from the instantaneous rates the firmware reports, and ships a Lovelace card
and a set of diagnostic tools. This directory holds TLA+ models of its parts,
TLC configurations that check them on small instances, and TLAPS proofs.

`PROJECT.json` lists the components, the runs, the mutants, the source lines
every definition stands for, the findings, the hazards and the theorems.

## 1. The system

Paths below are under `src/custom_components/tenda_mw6/` unless they start with
`tools/`.

| Component | State it keeps | Operations | Modules |
| --- | --- | --- | --- |
| Transfer counters (`sensor.py`) | per sensor: bytes, period key, time and rate of the last sample, `has_valid_sample` | restore, reset on a new day or month, credit a sample, availability | `TransferCounter` |
| Host list summaries and instantaneous sensors (`api.py`, `sensor.py`, `binary_sensor.py`) | none: functions of the last list | summaries, health, mesh and client rates, connectivity | `HostList` |
| Router session (`api.py`) | one socket and the bytes read so far | three requests and answers, validation of frames, login | `RouterSession`, `HostPoll` |
| Wire decoding (`api.py`, and again in `tools/mw6_probe.py`, `tools/mw6_hostinfo.py`) | none | varints, length-delimited fields, signed fields, records | `ProtoWire` |
| Coordinator (`coordinator.py`) | last list, whether the last poll succeeded, aliases | poll every 10 s in an executor thread, call the listeners | part of every module that polls |
| Entry lifecycle (`__init__.py`) | stored entry and options, `hass.data`, update listener, frontend flag | register the card, migrate, set up, reload, unload | `EntryLifecycle` |
| Entity discovery (`sensor.py`, `binary_sensor.py`) | `known_macs` of each platform | add entities for new MACs on every poll | `EntityDiscovery` |
| Device names (`config_flow.py`, `__init__.py`, `coordinator.py`) | stored map, parsed aliases, open form | render, edit, parse, store, look up | `DeviceNames` |
| Config flow (`config_flow.py`) | open flows, entries | validate against the router, create an entry | `ConfigFlow` |
| Preference selectors (`select.py`) | current option, entity registry | rename on upgrade, restore, select | `PreferenceSelect` |
| Lovelace card (`tenda-mw6-card.js`) | config, settings, last states, signature, observer | draw, change a setting, sort, follow the width | `CardSort`, `DeviceCard` |
| Diagnoses (`tools/mw6_probe.py`) | samples and observations of one run | read lists until the deadline, classify | `ProbeSelection`, `ProbeInventory`, `ProbeRates` |
| `cmdsrv` client (`tools/mw6_cmd_client.py`) | counters of one observation of a RESP stream over LZ4 frames | monitor `device_list` until a deadline, classify, compress and decompress blocks | `CmdMonitor`, `CmdBlock` |
| Capture tools (`tools/mw6_auth_extract.py`, `tools/mw6_hostinfo.py` and others) | LOGIN requests by transaction id | find the accepted account in a capture, decode a host list | `AuthCapture`, `ProtoWire` |
| Field probes | one-shot reads | send, print | none: I/O |

How the parts interact:

- The coordinator calls `api.get_clients` in an executor thread; the result, or
  an error, comes back to the event loop. On a success it replaces the list and
  calls every listener in one callback. On a failure it keeps the list and calls
  the listeners only when the poll before had succeeded.
- Listeners are the entities (`_handle_coordinator_update`) and one
  `add_new_clients` per platform, each with a `known_macs` of its own.
- Saving the options writes the entry, and the update listener reloads it: the
  platforms are unloaded, the coordinator is dropped, everything is built again,
  and what the entities knew comes back only through `RestoreEntity`.
- The card sees nothing but Home Assistant's states, and redraws only when a
  signature of them changes.

What is hard in it: a failed poll that looks like a successful one to a listener;
options saved while the first refresh is awaited; polls that end between two
platforms' setups or after a reload; a byte stream in pieces, read against a
deadline; payloads cut in the middle of a field; restores from an
older day, an older release or from nothing; forms older than the list they edit;
a cached view; verdicts drawn from many lists while clients roam.

## 2. Modules, properties and runs

Every run is a `.cfg` of the same name. "Violation" runs check one sentence the
repository says of the program and show that the code does something else.

### Transfer counters: `TransferCounter`

A *meter* is the three sensors (lifetime, local day, local month) of one client
or of the mesh in one direction. `ctr[m][p]` holds the fields of one sensor.
`HandleCoordinatorUpdate` is the listener (reset, then credit), `AddedToHass` is
`async_added_to_hass`, `Snapshot` is what the state machine holds of each entity,
`mem` and `disk` are what `RestoreEntity` holds in memory and on disk.
`PollSucceeds` and `PollFails` are one step for all the meters, because the
coordinator calls its listeners in one callback. `spent` and `sampledAt` are
history variables: clock units that passed in each period, and the moment of the last
successful poll that held a valid rate. `loads` counts how often the entry was set up.

A total is held in parts of a byte, `Second` of them, because a rate in KiB/s runs for
some units of the clock. `total_bytes` is rounded (`Round`, Python's), so every restore may
add or take half a byte: `WithinPeriodTime` allows one half byte for every load and
`ReloadKeepsLifetime` one for a reload. The sums themselves are exact: the error of the
floats, which below 2^53 bytes is far smaller, is left out.

What a host list holds for a meter (`RateOf`, `PresentIn`) and the calendar
(`DayOf`, `MonthOf`) are parameters, so the module stands for a client's meter and
for the mesh's. `MCTransferMeter` gives a rate directly.

| Run | Checks | Shows |
| --- | --- | --- |
| `transfer_meter` | `TypeOK`, `PeriodsNested`, `WithinPeriodTime`, `BytesAreValidated`, `TotalsIncrease`, `ReloadKeepsLifetime` | one client through polls, failed polls, day and month changes, reloads, dumps, crashes and a state of release 1.0.0 |
| `transfer_clock` | `WithinPeriodTime` | the mesh's meter when the wall clock is set back, also across midnight |
| `transfer_missed_poll` | `NoInventedSpan` violated | the first failed poll makes the old rate a new sample |
| `transfer_removal` | `RemovalKeepsBytes` violated | a sensor removed while unavailable starts from zero |

Bounds: the clock is scaled. A second has three units (`Second`), so totals end in thirds
of a byte and are rounded both up and down; `MaxGap` is two units, so spans below, at
and above the limit occur. The entry is set up twice (`MaxLoads`), which takes one reload or restart. The clock runs to 5 with days of 2 and months of 4, so a
run crosses two midnights and one end of a month; in `transfer_clock` it runs to 3
with days of 1 and months of 2, and goes back once. Two rates and "none" tell a
changed, a repeated and a missing sample apart.

### Host lists and entity discovery: `HostList`, `EntityDiscovery`, composed in `MCEntities`

`HostList` is pure: each operator is one function or property of the code over one
list. `EntityDiscovery` is the two platforms of one entry, each with `known_macs`,
its listener and its setup at a moment of its own, against polls that start and end
at any time, also after the reload of the load they belong to. `MCEntities` puts the
entities of the second on the lists of the first. Checked there:

- every listed client has its entities on every ready platform
  (`EveryClientHasEntities`) and has them once (`AddedOnce`);
- what different files compute of one list agrees: the mesh's rate is the sum of
  what the clients' sensors show (`MeshRateIsSumOfClients`); the health sensors, the
  rate and connectivity sensors and the signal sensor contradict each other on no
  list (`HealthMatchesSensors`); as many connectivity sensors are on as the
  inventory counts online, of as many as it counts active
  (`OnSensorsMatchInventory`).

Two loads of the entry, so a poll can outlive a reload; lists of up to two records
over two MACs, one of them spelt in two ways, and an empty one, with the online flag
missing, zero, one or another number and rates missing, zero or not.

### Card: `CardSort`, `DeviceCard`, in `MCCard`

`CardSort` is the comparator of `_sortedDevices`; on every sequence of up to three
devices it is antisymmetric and transitive (`ComparatorIsConsistent`), without which
a sort has no defined result. Three devices are what transitivity speaks of.

The addresses compared are two IPv4 values and two texts that are none, which
`localeCompare` decides; texts and names are ranks of that collation.

`DeviceCard` is the element through its life in a page. It redraws only when the
signature of the relevant states changes, and the signature is computed here as the code
does it, by two joins: it lists neither the MAC nor the config entry of a state, and
a text may hold a separator. `ShownIsCurrent`: what is on the screen is a drawing,
by the latest configuration, settings and width class, of states that have the signature of
the latest ones; and every cell of it has the latest value, name, IP and bytes if no text
holds a separator. With no relevant state it claims nothing, since there the code
goes wrong (section 4). `LayoutFitsWidth`: the layout fits the width once the browser has
reported it. Two entities in six worlds: none; one and its cell changed; a change of
MAC and entry alone, which the signature misses; and two states that differ and read alike,
because a name or an IP holds "|". Two configurations (one config entry, or all), one
sort to choose, and the settings of another card with the same key.

The run `dashboard` (`MCDashboard`) checks the entities and the card. The card reads
Home Assistant's states and not the coordinator, so a behaviour moves one of the
two; its first state says which. States that hold a sequence of devices have no
successor, so the run does not check for deadlock.

### Reading against a clock: `RouterSession` refines `HostPoll`; `CmdMonitor`

`get_clients` opens a connection, sends STA, login and host list requests, and
reads one frame for each with `_recv_exact`. The stream is a sequence of cells;
the network delivers and `recv` returns any non-empty piece of what is there. The
router answers late or not at all, sends foreign frames unasked, refuses, sends
short or garbled payloads, and closes at any moment. Checked: the reader stays
aligned with the frames (`Aligned`), the list is asked for only after an accepted
login (`HostsAskedAfterLogin`), a returned list is one whole payload
(`WholeAnswer`), and all of it implements `HostPoll` (`ImplementsPoll`): a poll
always ends, with clients only if the account was accepted, with
`TendaMW6AuthError` only if it was not.

`CmdMonitor` is `monitor_device_list` of the `cmdsrv` client, with the monotonic
clock. Its hazard is that `settimeout(remaining)` holds for each `recv` of a frame
and not for the frame. A frame arrives in pieces and is what becomes of it: a
subscription reply, a publication of the wanted or of another kind, another answer,
one that `parse_resp` cannot read, one that `recv_frame` cannot. Checked: what the summary says
of its window is true of every frame that was whole longer before the deadline than the
program worked in all (`MeaningFitsWindow`): the deadline is looked at before the socket, so the
time spent on decoding and printing is lost to the window;
at most one frame too many is counted (`OneLateFrame`); and the monitor ends
whatever the router does (`MonitorEnds`).

The run `router_session` (`MCRouterSession`) checks both; they share no state, so a
behaviour is of one of them. The fairness is that of the program's own steps
(`GetClients`, `Monitor`) and, for the monitor, of the clock; nothing is owed by the
router or the network. It is justified because every blocking call has a timeout, so
some step of the program is enabled whatever the other side does. `RouterSession`
has no clock: its timeout is per `recv`, and how long a poll may last is not stated.

Bounds: headers of two cells, which is enough for a read to be cut, payloads of up to
two, one unasked frame in a session. For the monitor three frames in two pieces
each, so one can be cut by the deadline after one that came in time; a window of
three units, of which the program may work for one (`MaxWork`, between any two of its steps).

### Config entry lifecycle: `EntryLifecycle`

The code between two awaits is one step. `state[e]` is where Home Assistant
stands with an entry; `SetUpEntry` runs to the await of the first refresh,
`RefreshSucceeds` or `RefreshFails` is what follows, `PlatformsReady` the end of
the forwarding, `Reload`, `UnloadSucceeds`, `UnloadFails` the reload in its two
halves, `SaveOptions` the options flow with the listener it calls.

- `entry_lifecycle`: with two entries, the card is registered once per start
  (`FrontendOnce`), a coordinator exists as long as platforms use it
  (`CoordinatorWhilePlatforms`), a migration converts all of an entry or nothing
  (`MigrationIsAllOrNothing`) and leaves one of version 2 or of a later release as it is, options saved while the listener is installed end up
  in use (`HeardSavesApply`, liveness).
- `entry_stale_options` (violation): options saved during the first refresh are
  neither parsed nor heard (`LoadedIsCurrent`).

Fairness: the event loop resumes what it suspended (weak fairness of setup,
platform forwarding, reload and unload), and a setup that Home Assistant repeats
for ever meets the router answering some time (strong fairness of
`RefreshSucceeds`). `HeardSavesApply` is stated for entries that do not fail to
unload, since Home Assistant leaves those until a restart. Two entries, two
saves per entry and one restart: a second save can overtake the reload of the first.

### What users do: `ConfigFlow`, `DeviceNames`, `PreferenceSelect`, side by side in `MCUserSide`

The three share no state. The first state of `user_side` says which of them moves,
so one run checks each in full without multiplying their states.

`ConfigFlow` is two flows that may be open at once, each with its validation in a
thread, and entries that are deleted in between. One entry per host
(`OneEntryPerHost`), and none with an account its router did not accept
(`StoredAccountWasAccepted`). How a validation may end is `HostPoll`'s outcomes.
Two routers, one of them also typed with a space.

`DeviceNames` renders, edits, parses and stores the device map, and gives each
client the name it is shown by, while addresses change hands. Saving an untouched
form renames nobody (`UnchangedSaveRenamesNobody`) and forgets no selector
(`UnchangedSaveKeepsAliases`). Six lists over two addresses and two MACs hold an exchange of
addresses, an address listed twice, an absent client and a malformed address; two
saves let a map be rendered from a stored one.

`PreferenceSelect` is one preference in two entries, from an upgrade on: the
registry's ids stay distinct (`IdsAreDistinct`), and once an entry has been
set up the documented id is held by some entry (`DocumentedIdAppears`, an action
property). `preference_rename` (violation): the renaming of an upgraded entity loses
its restored option.

### The tools that read and print: `ProbeSelection`, `ProbeInventory`, `ProbeRates`, `AuthCapture`, `ProtoWire`, `CmdBlock`, in `MCProbe`

They share no state; the first state of `probe` says which of them moves. A run of a
tool ends, so deadlock is not checked.

- *Diagnoses of `mw6_probe.py`.* Both choose their client, fail and stop in the same
  way (`ProbeSelection`). Every verdict of a diagnosis is stated in terms of the lists the
  router gave and not of what the code kept of them: `InventoryVerdictIsTrue`
  and `RateVerdictIsTrue`. Two rounds of lists of up to two records over two
  MACs and two nodes (both symmetric), with clients that move, vanish, repeat
  and have no MAC: a verdict relates a round to another one, so two are the first
  interesting number. `probe_roaming_peer` (violation) is the one verdict whose
  explanation is false of some lists.
- *The account in a capture.* The app numbers its requests anew on every connection
  and first tries an account the router rejects; the readers know a request by its
  transaction id alone, and a frame that is missing, split, or behind another one in its
  segment is skipped (`RequestMissed`, `AnswerMissed`). Still the account they return was
  accepted (`AccountWasAccepted`) if the LOGIN the answer belongs to was seen, whatever else was
  not. Two
  connections that follow each other, any number of times, and three ids with four
  requests, so the ids wrap around. With connections that overlap
  (`MaxOpen = 2`) it does not hold, see section 4.
- *Host list payloads.* Three readers of one format, each with its own checks.
  Every list of up to two of four clients is decoded to what was encoded
  (`EncodedHostsAreDecoded`: the signal at both ends of its range, unknown fields
  of every wire type, absent fields), and of a payload cut at any byte no partial client is made
  (`TruncationIsNoticed`, of the two readers that check lengths). The widths are scaled:
  `Word` (2^64) is 65536, `HalfWord` (2^32) 256, and a varint has up to three groups
  instead of ten; the code treats all widths alike and compares with half of one.
- *LZ4 blocks.* `BlocksAreReadBack`: a block is decompressed to what it stands for,
  and a prefix of it to nothing else. `Nibble` (16) is 4, so a length needs further bytes
  from 3 on and a full byte is 15; the blocks go from 0 to 36 literals and hold matches
  at, below and beyond their offset, which is when a copy overlaps itself.

### What is assumed of Home Assistant, the browser and the router

These are modelled from how the code uses them and marked external in the map:

- A failed poll keeps the coordinator's data and calls the listeners once.
- An unavailable entity's state has neither a number nor attributes.
- `RestoreEntity` keeps states by entity id, in memory for removed entities and on
  disk from time to time; a clean shutdown is a dump followed by a restart.
- New entities are added within the poll that discovered them.
- Entries are set up after `async_setup` returned; setup and unload of one entry
  exclude each other; a setup that raised is tried again.
- A coordinator polls only while it has listeners.
- The frontend calls `setConfig` before it sets `hass`; a `ResizeObserver` reports
  the width of an element when it starts to observe it and on every change.

## 3. Proofs

Eight modules hold theorems, for every value of the constants their assumptions
allow. They state every invariant and every action property of the passing runs, and
the safety halves of two temporal ones (`ImplementsPoll`, `HeardSavesApply`). The properties the theorems
state are those TLC checks on the instance of the component's run.

| Module | Proves of | Theorems that state properties of the runs |
| --- | --- | --- |
| `TransferCounterProofs` | `TransferCounter` | `TypeCorrect`, `NestedCorrect`, `BytesValidated`, `BytesFitTheirTime`, `TotalsNeverDecrease`, `ReloadsKeepLifetime` |
| `RouterSessionProofs` | `RouterSession`, `HostPoll` | `SessionTypeCorrect`, `HeadersAreAligned`, `HostListNeedsLogin`, `ClientsComeFromWholeAnswer`; `SessionRefinesPoll` |
| `EntryLifecycleProofs` | `EntryLifecycle` | `LifecycleTypeCorrect`, `FrontendRegisteredOnce`, `PlatformsHaveCoordinator`, `MigrationKeepsOrConverts`; `HeardSavesAreNotLost` |
| `UserSideProofs` | `ConfigFlow`, `PreferenceSelect`, `DeviceNames` | `HostsAreUnique`, `AccountsWereAccepted`, `PreferenceIdsAreDistinct`, `SetUpYieldsDocumentedId`, `UnchangedSaveKeeps`, `UnchangedSaveRenames` |
| `DashboardProofs` | `EntityDiscovery`, `HostList`, `MCEntities`, `DeviceCard`, `CardSort`, `MCCard` | `EveryListedClientHasEntities`, `EntitiesAreAddedOnce`, `SensorsMatchInventory`, `MeshRateAddsUp`, `HealthAgreesWithSensors`, `ScreenIsCurrent`, `LayoutFollowsWidth`, `ComparatorHolds` |
| `CmdClientProofs` | `CmdMonitor`, `CmdBlock` | `AtMostOneLateFrame`, `SummaryFitsWindow`, `BlocksComeBack` |
| `ProbeProofs` | `ProbeRates`, `ProbeInventory`, `AuthCapture`, `ProtoWire` | `RateVerdictHolds`, `InventoryVerdictHolds`, `ExtractedAccountWasAccepted`, `EncodedHostsComeBack`, `TruncationNoticed` |
| `InductionLemmas` | sums, sorted lists, concatenated sequences | none: lemmas the others use |

### Assumptions

Each is a named `ASSUME` of the module that declares the constants, and TLC evaluates
it in the runs.

- `TransferParameters`, `TransferCalendar`: bounds are natural numbers, a second has at least one
  unit of the clock, `NoValue`
  (Python's `None`) is no number, a list's rates are at most `MaxRate`, two instants
  of one day are of one month, and days and months are intervals of time.
- `SessionParameters`: the fields of a frame, a header of at least one cell, `None` is
  no outcome.
- `LifecycleParameters`, `FlowParameters`, `SelectParameters`, `SelectIds`: `None` is
  none of the values it stands beside, the legacy and generated entity ids of two
  entries are different texts, and the registry generates no documented id.
- `DiscoveryParameters`: host lists are sequences, rates are integers or `None`, and
  `None` is no integer.
- `NamesParameters`: a list is a finite set of clients, in which a MAC belongs to one client unless it is
  blank, an IP equals a MAC only if both are blank, and different clients have
  different integers as their `Rank`; `None` is no list.
- `MonitorParameters`: a frame has at least one piece. `BlockParameters`: `Nibble` is
  at least two, `Invalid` is no output, and a block's matches reach back to bytes that are there.
- `WireParameters`: `Base` is 128; a word holds at least seven bits, is a multiple of half
  a word, which is even, and fits a varint of `MaxDigits` groups; `None` and `Error` are no
  decoded values. Of the clients (`WellFormedHost`): texts are ASCII without a zero, numbers fit a
  word, the signal half of one, and the other fields have numbers above 10 and any of the four wire types.
- `CaptureParameters`: the accepted accounts are accounts, the
  transaction ids an interval. `CaptureInductive` and `ExtractedAccountWasAccepted` also assume
  `MaxOpen <= 1`, connections that follow each other; without it the property is false
  (section 4).
- `CardParameters`: entity ids hold none of the two separators (Home Assistant's are letters,
  digits, `_` and `.`) and are different characters; the entities are finitely many; all other texts are any sequences of
  characters, separators included. The MAC and the entry of a state are independent of its texts.
  `ComparedParameters`: names, transfers, IPv4 values and collation ranks are numbers,
  `None` is none. That `localeCompare` is a total preorder on texts is assumed with the ranks.

### The arguments

*Transfer counters.* `TypeCorrect` follows from one typing lemma per helper.
`PeriodsNested` is not inductive: a month's counter could be reset, or restored from
another dump, while the day's is kept. `NestedInv` says of the counters in memory and of
each restore state, for the pairs day and month, month and lifetime: the bytes of the
shorter period are at most those of the longer; whenever the longer would be reset,
at any instant, so would the shorter; a sample the shorter holds is also the longer's;
and who holds bytes is validated. `ResetOrdered` is where the calendar is used: a new
month is a new day. `TotalsNeverDecrease` needs `TypeOK` and one lemma on an update;
`ReloadsKeepLifetime` that what is stored for an available sensor restores its bytes to within
`HalfByte`, and that rounding is monotone keeps the periods nested.
For `WithinPeriodTime`, `TimeInv` bounds what a sensor may still be credited: for every
instant of its period between its last sample and now, its bytes and the largest rate up to
that instant fit the time that passed by then, and half a byte for each load. Asking it of now alone is not
inductive, since the clock may leave the period and be set back into it.

*Router session.* The argument is about `Unread`, the cells sent and not yet used,
which neither the network nor `recv` changes. `StreamIsFramed`: it is a sequence of
whole frames, cut only at its end and only after a close, and stands at a frame's start, or
at the payload of the header just read. `LoginIsTold`: a login answer in it says what
the router decided, so the third step is reached only when it accepted; this needs
`RequestsFollowSteps`, since an answer is sent only to a request. Alignment, the login
and whole answers follow. `SessionRefinesPoll` is the step simulation:
`GetClients` ends as `HostPoll` may, or stutters, and the decision of the router is taken where the
abstract poll takes it.

*Entry lifecycle.* `LifecycleInv` adds to the properties that there are no more reload
tasks than saves (which types the counter), that the flag counts the registrations, and
that a waiting first refresh has parsed options to hand to the coordinator. The
migration is an action property from `TypeOK`. Of `HeardSavesApply` the safety half is
`HeardSavesAreNotLost`: as long as a save that was heard is not in use, a reload is
waiting, running, or failed to unload. It needs that an entry has a listener only after it was set
up (`ListenersAreSetUp`, `HeardSavesArePending`).

*Flows and selectors.* `OneEntryPerHost` is inductive only with `UniqueIdIsHost`: the
check for a duplicate compares unique ids, the property hosts. It holds for
flows that validate side by side because the check comes after the await, in one step with the
creation. For `IdsAreDistinct`, each entry can hold only ids of its own (`IdsOf`) or
the documented one.

*Device names.* `NamesInv`: the list is one of the router's, the stored map is one the parser accepts,
and as long as the list an untouched form was rendered from is known, the form is what is
rendered for it from the stored map. That has one line for each client with a key, in
the order of their ranks, then one line for each stored key that no listed client has. A key is
looked up in the last line that names it, and a client's name is that of its first
known key; so saving the rendered lines gives every client the name it had. The
lines come from a sort and the aliases from a fold; both are proved by induction on the lines.

*Entity discovery.* `AddsFollowKnown` and `ReadyPlatformsSawData`: what was added is what
is in `known_macs`, and whoever listens has seen the list that is there, since a
platform's setup reads it in the step in which it starts to listen. `SensorsMatchInventory` is about a list
of any length: with one record per MAC, `IndexOf` is a bijection between them, so
that sets of entities and sets of records have one cardinality. `MeshRateAddsUp` sums
over that bijection: a record that is not the first of its MAC is no sensor's, and the rates of the others are what the
sensors show. `HealthAgreesWithSensors` needs no induction: each health sensor
counts records by the field that the sensor beside it shows.

*cmdsrv monitor.* The number of whole frames is a quotient; the division lemmas say
when it grows. `LateFrames` separates the two places of the loop: between two frames none is
late (or the deadline has passed), within one it may be. `CountsMatchFrames` ties each counter the
verdict reads to the frames taken. `WaitingFrames`: while a whole frame is unread no `recv` waits,
so the clock has moved since then by no more than the program worked; when the deadline ends the
loop, a frame left unread was therefore not whole earlier than the deadline less that work.

*LZ4 blocks.* `BlocksComeBack` follows the rounds of the decompressor: before each, it
stands between two steps of the block, with what the steps before it stand for put out,
or it is over. A length is read back by induction on the bytes that extend it, and
a match is copied byte by byte, also from bytes it has just put out. A block that was cut
ends inside of a step, where the reader raises, or between two.

*Host list payloads.* A payload does not change, so what is proved of it is about decoding
alone, and the argument goes up with the encoding. A number's groups are few
enough and are read back to it; a key gives back number and wire type; a field that stands
at a position is read as it was sent, with the position behind it, and one that the buffer cuts is
an error to the readers that check lengths. After each round of the loop over a message
(`ReadSoFar`) the reader stands behind one of its fields, with those before read, or
has raised, and then the message was cut. So a message comes back whole, or as its first
fields. Of a client's fields, known and unknown, the last of a number is its only one,
and a signal of half a word is the same number read from a word and from half of one
(`SignalIsRead`). The first fields of a list are the first clients.

*Induction.* The library's induction theorems take an operator as a parameter and
cannot be instantiated here. `InductionLemmas` states induction over the *set* of the things
that have a property: the least number outside of such a set is found with
`NatLessThanWellFounded`. What a recursive function computes, and that the fold of the
community modules adds up what it is expected to, follow from that, for sums over
finite sets, for sorted lists and for sequences that are flattened.

*Diagnoses and captures.* Each diagnosis keeps a digest of what it read; that the
digest says no more and no less than the history the property speaks of is the
invariant. In a capture, what is remembered under the id of an unanswered LOGIN whose request
was seen is its account: ids wrap, but with one connection at a time, on which the app waits for
the answer to a LOGIN, no other request takes its id before that.

*Card.* `SignatureIsOfHass`: a signature that is not empty is that of the states
on hand. The empty one, which `setConfig` sets, says nothing, and then there is nothing
the property asks for or the card has just been drawn. What equal signatures say is proved of the joins:
with no separator in any text, `join` is injective (`JoinIsInjective`: the places of the
separators are the places where the texts end), so equal signatures are equal sets of cells
(`PlainSignature`, `SameSignatureSameView`). `ObserverIsInPage` carries the layout through any number of
detachments. The comparator is proved column by column: each comparison is
antisymmetric and transitive, and so is one refined by a tie-break.

### What stays with TLC

- `HeardSavesApply`, `MonitorEnds` and the liveness half of `ImplementsPoll`: liveness under
  fairness, which needs `ENABLED`.
- The five properties of the violation runs, which the code does not have.

## 4. Findings

With a run that shows a sentence of the repository violated:

| Run | What the code does |
| --- | --- |
| `transfer_missed_poll` | credits a span no poll succeeded in |
| `transfer_removal` | loses the lifetime bytes of a sensor removed while unavailable |
| `entry_stale_options` | keeps old options that were replaced during the first refresh |
| `preference_rename` | loses the chosen option on upgrade |
| `probe_roaming_peer` | says that a peer was refreshed at a node where every record was offline |

Met while modelling; no run is spent on it, and the modules contain the behaviour
unless the item says otherwise:

- `sensor.py:652`: the listener call of a failed poll, and `async_added_to_hass`
  (`sensor.py:614`), also reset and validate a day's counter with the data of the
  day before, so 0 B can be shown for a period without a valid sample
  (`sensor.py:664` wants to avoid that).
- `binary_sensor.py:82`: a record without an online field is shown as disconnected.
- `binary_sensor.py:66`, `sensor.py:372`: an entity added for a MAC with white space
  around it never finds its record, since only the discovery strips it.
- `config_flow.py:139`: for a client with a malformed address the rendered map is one
  the same form refuses.
- `coordinator.py:53`: a client whose line was removed takes the name another line
  gives the address it got since.
- `tenda-mw6-card.js:189`: a card whose first states hold no device keeps saying that
  it is loading, since the signature of nothing is the initial one; and when the
  configuration is edited and the next states hold no device of it, the rows drawn from the
  states before stay.
- `tenda-mw6-card.js:245`: a state whose MAC or config entry alone changes keeps its old row
  until something else is drawn, and so do two states that read alike because a text
  holds "|" or ";".
- `sensor.py:345`, `sensor.py:680`: `total_bytes` is rounded, so every reload may take or add up
  to half a byte of a counter.
- `tools/mw6_cmd_client.py:251`: a frame that was whole before the deadline, while the one
  before was decoded and printed, stays unread, and the summary may deny it.
- `tools/mw6_probe.py:417`: of a client that was missing from a list it is said that
  its inventory stayed online.
- `tools/mw6_auth_extract.py:95`: with two connections that overlap, or a LOGIN request
  that is missing from the capture or no frame of its own in a segment, the id of an accepted answer leads to a rejected
  account, which is returned.
- `tools/mw6_cmd_client.py:327`: a frame that cannot be decoded, which one that holds two RESP
  replies is, counts neither as a publication nor as a confirmation, and still the
  summary can be `NO_CONFCTL_PUBLICATIONS`. The model says what is
  known of frames that can be decoded.
- `tools/mw6_probe.py:126`: the probe's reader takes what is there of a cut field for all of
  it; the other two readers raise.
- `api.py:316`: only the signal is signed, so a negative rate, which
  `api.py:119` provides for, arrives as a number near 2^64 (`ProtoWire`'s clients have no such rate).
- `tools/mw6_shell_surface.py:50`: a listener that resets the connection while its
  banner is awaited is reported as not open (not modelled).

## 5. Not modelled

- Formatting, wording and logging; the card's markup.
- The IP, access and node sensors and the identity attributes, which copy one field
  of one record each; `last_reported_online_at`, a time stamp shown as an attribute.
- The RESP parser, the frame header and the checksum of the `cmdsrv` client: a frame is what
  becomes of it. Its `ping`, `get` and `subscribe` commands print what comes.
- The watch loop, the WAN decoder and the main program of `mw6_probe.py`; the PCAP reader, the firmware
  extractors, `mw6_shell_surface.py` and the one-shot field probes: I/O and printing.
- `mw6_clients_probe.py` and `mw6_cmd_rate_watch.py` import names that
  `mw6_cmd_client.py` does not define, so they stop at their first line of work.
- The firmware notes under `docs/`, the metadata and the translations.

## 6. Plan

In this order:

1. Proofs: who holds a selector's option after a restart (`SetUpRestoresOption` with the
   upgrade left out).
2. The RESP decoder, where replies nest and a frame may hold more than one.
3. The window of an unload in which a poll adds entities to a platform that has
   gone; two options forms open at once.
