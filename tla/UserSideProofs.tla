---------------------------- MODULE UserSideProofs ----------------------------
(***************************************************************************)
(* Proofs about ConfigFlow, PreferenceSelect and DeviceNames, for any      *)
(* number of flows, hosts, accounts, config entries and changes, and any   *)
(* lists of clients.                                                       *)
(***************************************************************************)
EXTENDS ConfigFlow, PreferenceSelect, DeviceNames, InductionLemmas,
    SequenceTheorems

-----------------------------------------------------------------------------
(* Adding the integration                                                  *)

FlowStates ==
    [step : {"closed", "created", "aborted", "form"}, input : {None},
     error : {None, "invalid_account", "invalid_auth", "cannot_connect"}]
      \cup [step : {"validating"}, input : Inputs, error : {None}]

(* An entry's unique id, which the check for a duplicate looks at, is its  *)
(* host, which OneEntryPerHost speaks of.                                  *)
UniqueIdIsHost == \A en \in entries : en.unique_id = en.host /\ en.host \in Bare

FlowInv ==
    /\ flow \in [Flows -> FlowStates]
    /\ UniqueIdIsHost
    /\ OneEntryPerHost
    /\ StoredAccountWasAccepted

(* A flow that validates holds the input it validates.                     *)
LEMMA ValidatingInput ==
    ASSUME FlowInv, NEW f \in Flows, flow[f].step = "validating"
    PROVE  flow[f].input \in Inputs
  BY DEF FlowInv, FlowStates

(* The states the steps of a flow lead to are states of a flow.            *)
LEMMA StepTypes ==
    /\ Form(None) \in FlowStates
    /\ Form("invalid_account") \in FlowStates
    /\ \A outcome \in Outcomes : Form(ErrorOf(outcome)) \in FlowStates
    /\ \A s \in {"closed", "created", "aborted"} : Ended(s) \in FlowStates
    /\ \A i \in Inputs :
          [step |-> "validating", input |-> i, error |-> None] \in FlowStates
  BY DEF Form, Ended, ErrorOf, FlowStates

(* A poll that returns clients accepted the account it was given.          *)
LEMMA ClientsMeanAccepted ==
    ASSUME NEW i \in Inputs, "clients" \in PossibleOutcomes(i)
    PROVE  i.account = accepts[i.host.bare]
  BY DEF PossibleOutcomes

(* Whatever a validation ends with keeps the invariant: an entry is        *)
(* created only for an account that was accepted and a host that has none. *)
LEMMA ValidationKeepsInv ==
    ASSUME FlowInv, NEW f \in Flows, NEW outcome \in Outcomes, ValidationEnds(f, outcome)
    PROVE  FlowInv'
<1> DEFINE input == flow[f].input
<1>1. input \in Inputs /\ input.host.bare \in Bare
  BY ValidatingInput DEF ValidationEnds, Inputs, Bare
<1>2. flow' \in [Flows -> FlowStates]
  BY StepTypes DEF ValidationEnds, FlowInv, Step
<1>3. accepts' = accepts
  BY DEF ValidationEnds
<1>4. CASE UNCHANGED entries
  BY <1>2, <1>3, <1>4
     DEF FlowInv, UniqueIdIsHost, OneEntryPerHost, StoredAccountWasAccepted
<1>5. CASE outcome = "clients" /\ ~Configured(input)
                /\ entries' = entries \cup {NewEntry(input)}
  <2>1. NewEntry(input).account = accepts[NewEntry(input).host]
    BY <1>1, <1>5, ClientsMeanAccepted DEF ValidationEnds, NewEntry
  <2>2. \A en \in entries : en.host # NewEntry(input).host
    BY <1>5 DEF Configured, NewEntry, FlowInv, UniqueIdIsHost
  <2>3. UniqueIdIsHost'
    BY <1>1, <1>5 DEF NewEntry, FlowInv, UniqueIdIsHost
  <2>4. OneEntryPerHost'
    BY <1>5, <2>2 DEF FlowInv, OneEntryPerHost
  <2>5. StoredAccountWasAccepted'
    BY <1>3, <1>5, <2>1 DEF FlowInv, StoredAccountWasAccepted
  <2> QED
    BY <1>2, <2>3, <2>4, <2>5 DEF FlowInv
<1> QED
  BY <1>4, <1>5 DEF ValidationEnds

(* So do the other steps of a flow.                                        *)
LEMMA FlowStepKeepsInv ==
    ASSUME FlowInv, NEW f \in Flows,
           \/ OpenFlow(f) \/ CloseFlow(f)
           \/ \E i \in Inputs : SubmitInput(f, i)
    PROVE  FlowInv'
<1>1. flow' \in [Flows -> FlowStates]
  BY StepTypes DEF OpenFlow, CloseFlow, SubmitInput, FlowInv, Step
<1>2. UNCHANGED <<entries, accepts>>
  BY DEF OpenFlow, CloseFlow, SubmitInput
<1> QED
  BY <1>1, <1>2 DEF FlowInv, UniqueIdIsHost, OneEntryPerHost, StoredAccountWasAccepted

(* The invariant holds, for any number of flows that validate side by side.*)
THEOREM FlowInductive == FlowSpec => []FlowInv
<1>1. FlowInit => FlowInv
  <2> SUFFICES ASSUME FlowInit
               PROVE  FlowInv
    OBVIOUS
  <2>1. flow \in [Flows -> FlowStates]
    BY StepTypes DEF FlowInit
  <2> QED
    BY <2>1 DEF FlowInit, FlowInv, UniqueIdIsHost, OneEntryPerHost,
                StoredAccountWasAccepted
<1>2. FlowInv /\ [FlowNext]_flowVars => FlowInv'
  <2> SUFFICES ASSUME FlowInv, [FlowNext]_flowVars
               PROVE  FlowInv'
    OBVIOUS
  <2>1. ASSUME NEW f \in Flows, NEW outcome \in Outcomes, ValidationEnds(f, outcome)
        PROVE  FlowInv'
    BY <2>1, ValidationKeepsInv
  <2>2. ASSUME NEW f \in Flows,
               OpenFlow(f) \/ CloseFlow(f) \/ \E i \in Inputs : SubmitInput(f, i)
        PROVE  FlowInv'
    BY <2>2, FlowStepKeepsInv
  <2>3. ASSUME NEW en \in entries, DeleteEntry(en)
        PROVE  FlowInv'
    BY <2>3 DEF DeleteEntry, FlowInv, UniqueIdIsHost, OneEntryPerHost,
                StoredAccountWasAccepted
  <2>4. CASE UNCHANGED flowVars
    BY <2>4 DEF flowVars, FlowInv, UniqueIdIsHost, OneEntryPerHost,
                StoredAccountWasAccepted
  <2> QED
    BY <2>1, <2>2, <2>3, <2>4 DEF FlowNext
<1> QED
  BY <1>1, <1>2, PTL DEF FlowSpec

(* No two entries of one host, however many flows validate at a time.      *)
THEOREM HostsAreUnique == FlowSpec => []OneEntryPerHost
  BY FlowInductive, PTL DEF FlowInv

(* Every entry holds an account its own router accepted.                   *)
THEOREM AccountsWereAccepted == FlowSpec => []StoredAccountWasAccepted
  BY FlowInductive, PTL DEF FlowInv

-----------------------------------------------------------------------------
(* Preferences                                                             *)

(* Each entry holds no id, the documented one, or one that no other entry  *)
(* can hold; and the documented one is held at most once.                  *)
IdsOf(e) == {None, Target, Legacy(e), Generated(e)}

SelectInv ==
    /\ option \in [Entries -> Options \cup {None}]
    /\ registry \in [Entries -> Ids \cup {None}]
    /\ \A e \in Entries : registry[e] \in IdsOf(e)
    /\ IdsAreDistinct

(* Legacy and generated ids tell the entries apart.                        *)
LEMMA IdsOfDiffer ==
    ASSUME NEW a \in Entries, NEW b \in Entries, a # b
    PROVE  IdsOf(a) \cap IdsOf(b) = {None, Target}
  BY SelectIds DEF IdsOf, Legacy, Generated

(* Setting up an entry registers the documented id only if it is free.     *)
LEMMA SetUpKeepsIds ==
    ASSUME SelectInv, NEW e \in Entries, SetUpEntry(e)
    PROVE  SelectInv'
<1>1. /\ Registered(e) \in IdsOf(e) \cap (Ids \cup {None})
      /\ Registered(e) = Target =>
           Target \notin Taken \/ registry[e] = Target
  BY SelectIds DEF SelectInv, Registered, Renamed, IdsOf, Ids
<1>2. Restored(Registered(e)) \in Options
  BY SelectParameters DEF Restored
<1>3. /\ option' \in [Entries -> Options \cup {None}]
      /\ registry' \in [Entries -> Ids \cup {None}]
      /\ \A a \in Entries : registry'[a] \in IdsOf(a)
  BY <1>1, <1>2 DEF SelectInv, SetUpEntry
<1>4. IdsAreDistinct'
  <2> SUFFICES ASSUME NEW a \in Entries, NEW b \in Entries,
                      registry'[a] = registry'[b], registry'[a] # None, a # b
               PROVE  FALSE
    BY DEF IdsAreDistinct
  <2>1. registry'[a] = Target
    BY <1>3, IdsOfDiffer
  <2>2. CASE a # e /\ b # e
    BY <2>2 DEF SetUpEntry, SelectInv, IdsAreDistinct
  <2>3. ASSUME NEW x \in Entries, x # e, registry[x] = Target, Registered(e) = Target
        PROVE  FALSE
    BY <1>1, <2>3, SelectIds DEF SelectInv, IdsAreDistinct, Taken
  <2> QED
    BY <2>1, <2>2, <2>3 DEF SetUpEntry, SelectInv
<1> QED
  BY <1>3, <1>4 DEF SelectInv

(* The invariant holds, whatever the order of setups and removals.         *)
THEOREM SelectInductive == SelectSpec => []SelectInv
<1>1. SelectInit => SelectInv
  <2> SUFFICES ASSUME SelectInit
               PROVE  SelectInv
    OBVIOUS
  <2>1. /\ option \in [Entries -> Options \cup {None}]
        /\ registry \in [Entries -> Ids \cup {None}]
        /\ \A e \in Entries : registry[e] \in {None, Legacy(e)}
    BY DEF SelectInit, Ids
  <2>2. IdsAreDistinct
    BY <2>1 DEF IdsAreDistinct, Legacy
  <2> QED
    BY <2>1, <2>2 DEF SelectInv, IdsOf
<1>2. SelectInv /\ [SelectNext]_selectVars => SelectInv'
  <2> SUFFICES ASSUME SelectInv, [SelectNext]_selectVars
               PROVE  SelectInv'
    OBVIOUS
  <2> USE DEF SelectInv, IdsAreDistinct
  <2>1. ASSUME NEW e \in Entries, SetUpEntry(e)
        PROVE  SelectInv'
    BY <2>1, SetUpKeepsIds
  <2>2. ASSUME NEW e \in Entries, UnloadEntry(e)
        PROVE  SelectInv'
    BY <2>2 DEF UnloadEntry
  <2>3. ASSUME NEW e \in Entries, RemoveEntry(e)
        PROVE  SelectInv'
    BY <2>3 DEF RemoveEntry, IdsOf
  <2>4. ASSUME NEW e \in Entries, NEW o \in Options, SelectOption(e, o)
        PROVE  SelectInv'
    BY <2>4 DEF SelectOption
  <2>5. CASE DumpStates \/ RestartHomeAssistant \/ UNCHANGED selectVars
    BY <2>5 DEF DumpStates, RestartHomeAssistant, selectVars
  <2> QED
    BY <2>1, <2>2, <2>3, <2>4, <2>5 DEF SelectNext
<1> QED
  BY <1>1, <1>2, PTL DEF SelectSpec

(* No two entries hold one entity id.                                      *)
THEOREM PreferenceIdsAreDistinct == SelectSpec => []IdsAreDistinct
  BY SelectInductive, PTL DEF SelectInv

(* Whenever a preference is set up, some entry holds the documented id.    *)
THEOREM SetUpYieldsDocumentedId == SelectSpec => DocumentedIdAppears
<1> DEFINE Appears ==
        \A e \in Entries :
            option[e] = None /\ option'[e] # None =>
                \E x \in Entries : registry'[x] = Target
<1>1. ASSUME SelectInv, [SelectNext]_selectVars
      PROVE  Appears
  <2>1. ASSUME NEW e \in Entries, SetUpEntry(e)
        PROVE  \E x \in Entries : registry'[x] = Target
    <3>1. CASE Target \notin Taken
      BY <1>1, <2>1, <3>1, SelectIds DEF SetUpEntry, Registered, Renamed, SelectInv
    <3>2. ASSUME NEW x \in Entries, registry[x] = Target
          PROVE  registry'[x] = Target
      BY <2>1, <3>2, SelectIds DEF SetUpEntry, Registered, Renamed, SelectInv, Taken
    <3> QED
      BY <3>1, <3>2 DEF Taken
  <2>2. ASSUME NEW e \in Entries, UnloadEntry(e)
        PROVE  \A x \in Entries : option[x] = None => option'[x] = None
    BY <2>2, <1>1 DEF UnloadEntry, SelectInv
  <2>3. ASSUME NEW e \in Entries, NEW o \in Options, SelectOption(e, o)
        PROVE  \A x \in Entries : option[x] = None => option'[x] = None
    BY <2>3, <1>1 DEF SelectOption, SelectInv
  <2>4. CASE RestartHomeAssistant
    BY <2>4 DEF RestartHomeAssistant
  <2>5. CASE (\E e \in Entries : RemoveEntry(e)) \/ DumpStates \/ UNCHANGED selectVars
    BY <2>5 DEF RemoveEntry, DumpStates, selectVars
  <2>6. CASE SelectNext
    BY <2>1, <2>2, <2>3, <2>4, <2>5, <2>6 DEF SelectNext
  <2> QED
    BY <1>1, <2>5, <2>6
<1>2. SelectInv /\ [SelectNext]_selectVars => [Appears]_selectVars
  BY <1>1
<1> QED
  BY <1>2, SelectInductive, PTL DEF SelectSpec, DocumentedIdAppears

-----------------------------------------------------------------------------
(* The names of clients                                                    *)

Clients == UNION HostLists

Texts ==
    {c.ip : c \in Clients} \cup {c.mac : c \in Clients} \cup {c.name : c \in Clients}
      \cup NewNames

DeviceMaps == Seq([keys : Seq(Texts), alias : Texts])

(* What is stored is a map the parser accepts.  As long as basis is there, *)
(* the form is what the stored map was rendered as.                        *)
NamesInv ==
    /\ list \in HostLists
    /\ options \in DeviceMaps /\ ~ Rejected(options)
    /\ form # None => form \in DeviceMaps
    /\ basis # None =>
          basis \in HostLists /\ form = RenderCurrentDeviceMap(basis, options)

(* The lines of a map.                                                     *)
LEMMA LineTypes ==
    ASSUME NEW lines \in DeviceMaps
    PROVE  /\ DOMAIN lines = 1 .. Len(lines) /\ Len(lines) \in Nat
           /\ \A i \in DOMAIN lines : /\ lines[i] \in [keys : Seq(Texts), alias : Texts]
                                     /\ lines[i].keys \in Seq(Texts)
                                     /\ lines[i].alias \in Texts
<1> DEFINE Line == [keys : Seq(Texts), alias : Texts]
<1>1. lines \in Seq(Line)
  BY DEF DeviceMaps
<1> HIDE DEF Line
<1>2. DOMAIN lines = 1 .. Len(lines) /\ Len(lines) \in Nat /\ \A i \in DOMAIN lines : lines[i] \in Line
  BY <1>1
<1> QED
  BY <1>2 DEF Line

(* What is parsed of an accepted map.                                      *)
LEMMA ParseFacts ==
    ASSUME NEW lines \in DeviceMaps, ~ Rejected(lines)
    PROVE  LET map == ParseDeviceAliases(lines) IN
           /\ IsFiniteSet(DOMAIN map)
           /\ \A i \in DOMAIN lines : ToSet(lines[i].keys) \subseteq DOMAIN map
           /\ \A k \in DOMAIN map : \E i \in DOMAIN lines :
                 k \in ToSet(lines[i].keys) /\ map[k] = lines[i].alias
<1> DEFINE named == {ToSet(lines[i].keys) : i \in DOMAIN lines}
           map == ParseDeviceAliases(lines)
<1>1. DOMAIN lines = 1 .. Len(lines) /\ Len(lines) \in Nat
  BY DEF DeviceMaps
<1>2. map = [k \in UNION named |-> lines[Max(Naming(lines, k))].alias]
  BY DEF ParseDeviceAliases
<1>3. IsFiniteSet(UNION named)
  <2>1. IsFiniteSet(DOMAIN lines)
    BY <1>1, FS_Interval
  <2>2. IsFiniteSet(named)
    <3> DEFINE f == [i \in DOMAIN lines |-> ToSet(lines[i].keys)]
    <3>1. named = {f[i] : i \in DOMAIN lines}
      OBVIOUS
    <3> HIDE DEF f, named
    <3> QED
      BY <2>1, <3>1, FiniteValues
  <2>3. ASSUME NEW i \in DOMAIN lines
        PROVE  IsFiniteSet(ToSet(lines[i].keys))
    <3> DEFINE keys == lines[i].keys
    <3>1. keys \in Seq(Texts)
      BY LineTypes
    <3> HIDE DEF keys
    <3>2. DOMAIN keys = 1 .. Len(keys) /\ Len(keys) \in Nat
      BY <3>1
    <3>3. IsFiniteSet(DOMAIN keys)
      BY <3>2, FS_Interval
    <3>4. ToSet(keys) = {keys[j] : j \in DOMAIN keys}
      BY DEF ToSet
    <3>5. IsFiniteSet(ToSet(keys))
      BY <3>3, <3>4, FiniteValues
    <3> QED
      BY <3>5 DEF keys
  <2>4. \A T \in named : IsFiniteSet(T)
    BY <2>3
  <2> HIDE DEF named
  <2> QED
    BY <2>2, <2>4, FS_UNION
<1>4. ASSUME NEW k \in UNION named
      PROVE  \E i \in DOMAIN lines : k \in ToSet(lines[i].keys) /\ map[k] = lines[i].alias
  <2>1. /\ \E i \in DOMAIN lines : k \in ToSet(lines[i].keys)
        /\ Naming(lines, k) # {} /\ Naming(lines, k) \in SUBSET (1 .. Len(lines))
    BY <1>1 DEF Naming
  <2>2. IsFiniteSet(Naming(lines, k))
    <3>1. IsFiniteSet(1 .. Len(lines))
      BY <1>1, FS_Interval
    <3> QED
      BY <2>1, <3>1, FS_Subset
  <2>3. Naming(lines, k) \in SUBSET Int
    BY <2>1
  <2>4. Max(Naming(lines, k)) \in Naming(lines, k)
    BY <2>1, <2>2, <2>3, MaxIsGreatest
  <2> QED
    BY <1>2, <2>4 DEF Naming
<1> QED
  BY <1>2, <1>3, <1>4

(* The clients of a list come out of the sort in some order, all of them.  *)
LEMMA SortedFacts ==
    ASSUME NEW clients \in HostLists, NEW L \in SUBSET clients
    PROVE  /\ Cardinality(L) \in Nat
           /\ SortedClients(L) \in [1 .. Cardinality(L) -> L]
           /\ \A c \in L : \E i \in 1 .. Cardinality(L) : SortedClients(L)[i] = c
<1> DEFINE r == [c \in L |-> Rank(c)]
           s == SortedClients(L)
<1>1. IsFiniteSet(L) /\ Cardinality(L) \in Nat
  BY NamesParameters, FS_Subset, FS_CardinalityType
<1>2. \A c \in L : r[c] = Rank(c) /\ Rank(c) \in Int
  BY NamesParameters
<1>3. \A c, d \in L : r[c] = r[d] => c = d
  BY NamesParameters
<1> HIDE DEF r
<1>4. \E t \in [1 .. Cardinality(L) -> L] :
         \A i, j \in 1 .. Cardinality(L) : i < j => r[t[i]] < r[t[j]]
  BY <1>1, <1>2, <1>3, RankedListExists
<1>5. \E t \in [1 .. Cardinality(L) -> L] :
         \A i, j \in DOMAIN t : i < j => Rank(t[i]) < Rank(t[j])
  <2>1. PICK t \in [1 .. Cardinality(L) -> L] :
           \A i, j \in 1 .. Cardinality(L) : i < j => r[t[i]] < r[t[j]]
    BY <1>4
  <2>2. DOMAIN t = 1 .. Cardinality(L) /\ \A i \in 1 .. Cardinality(L) : r[t[i]] = Rank(t[i])
    BY <1>2
  <2>3. \A i, j \in DOMAIN t : i < j => Rank(t[i]) < Rank(t[j])
    BY <2>1, <2>2
  <2> QED
    BY <2>3
<1>6. /\ s \in [1 .. Cardinality(L) -> L]
      /\ \A i, j \in DOMAIN s : i < j => Rank(s[i]) < Rank(s[j])
  BY <1>5 DEF SortedClients
<1> HIDE DEF s
<1>7. \A i, j \in 1 .. Cardinality(L) : i < j => r[s[i]] < r[s[j]]
  <2>1. DOMAIN s = 1 .. Cardinality(L) /\ \A i \in 1 .. Cardinality(L) : r[s[i]] = Rank(s[i])
    BY <1>2, <1>6
  <2> QED
    BY <1>6, <2>1
<1>8. \A c \in L : \E i \in 1 .. Cardinality(L) : s[i] = c
  BY <1>1, <1>2, <1>6, <1>7, RankedListIsComplete
<1> QED
  BY <1>1, <1>6, <1>8 DEF s

Used(clients) == UNION {ToSet(Keys(c)) : c \in clients}

(* The lines of a rendered map: one for each client that has a selector,   *)
(* and one for each saved selector no listed client has.                   *)
LEMMA RenderedLines ==
    ASSUME NEW clients \in HostLists, clients # {},
           NEW lines \in DeviceMaps, ~ Rejected(lines)
    PROVE  LET map  == ParseDeviceAliases(lines)
               made == RenderCurrentDeviceMap(clients, lines)
               Unused(k) == [keys |-> <<k>>, alias |-> map[k]]
           IN
           /\ \E n \in Nat : made = [i \in 1 .. n |-> made[i]]
           /\ \A i \in DOMAIN made :
                 \/ \E c \in clients : made[i] = ClientLine(c, map)
                 \/ \E k \in DOMAIN map \ Used(clients) : made[i] = Unused(k)
           /\ \A c \in clients : Keys(c) # <<>> =>
                 \E i \in DOMAIN made : made[i] = ClientLine(c, map)
           /\ \A k \in DOMAIN map \ Used(clients) :
                 \E i \in DOMAIN made : made[i] = Unused(k)
<1> DEFINE map  == ParseDeviceAliases(lines)
           made == RenderCurrentDeviceMap(clients, lines)
           Unused(k) == [keys |-> <<k>>, alias |-> map[k]]
           L == {c \in clients : Keys(c) # <<>>}
           R == DOMAIN map \ Used(clients)
           s == SortedClients(L)
           t == SetToSeq(R)
           m == Cardinality(L)
           n == Cardinality(R)
           first == [i \in DOMAIN s |-> ClientLine(s[i], map)]
           second == [i \in DOMAIN t |-> Unused(t[i])]
<1>1. made = first \o second
  BY DEF RenderCurrentDeviceMap, UnusedLines, Used
<1>2. /\ m \in Nat /\ s \in [1 .. m -> L]
      /\ \A c \in L : \E i \in 1 .. m : s[i] = c
  <2>1. L \in SUBSET clients
    OBVIOUS
  <2> HIDE DEF L
  <2> QED
    BY <2>1, SortedFacts
<1>3. /\ n \in Nat /\ t \in [1 .. n -> R]
      /\ \A k \in R : \E i \in 1 .. n : t[i] = k
  <2>1. IsFiniteSet(DOMAIN map)
    BY ParseFacts
  <2>2. IsFiniteSet(R)
    BY <2>1, FS_Subset
  <2> HIDE DEF R
  <2> QED
    BY <2>2, SetToSeqLists
<1> HIDE DEF s, t, m, n, made
<1>4. /\ made = [i \in 1 .. m + n |-> made[i]]
      /\ \A i \in 1 .. m : made[i] = ClientLine(s[i], map)
      /\ \A i \in 1 .. n : made[m + i] = Unused(t[i])
  <2> HIDE DEF map
  <2> DEFINE Lines == {first[i] : i \in 1 .. m} \cup {second[i] : i \in 1 .. n}
  <2>1. first \in [1 .. m -> Lines] /\ second \in [1 .. n -> Lines]
    BY <1>2, <1>3
  <2>2. first \in Seq(Lines) /\ Len(first) = m /\ second \in Seq(Lines) /\ Len(second) = n
    <3> HIDE DEF first, second, Lines
    <3> QED
      BY <1>2, <1>3, <2>1
  <2>3. /\ \A i \in 1 .. m : first[i] = ClientLine(s[i], map)
        /\ \A i \in 1 .. n : second[i] = Unused(t[i])
    BY <1>2, <1>3
  <2> HIDE DEF first, second, Lines, Unused
  <2>4. /\ made \in Seq(Lines) /\ Len(made) = m + n
        /\ \A i \in 1 .. m + n : made[i] = IF i <= m THEN first[i] ELSE second[i - m]
    BY <1>1, <2>2, ConcatProperties
  <2>5. \A i \in 1 .. m : i \in 1 .. m + n /\ i <= m
    BY <1>2, <1>3
  <2>6. \A i \in 1 .. n : m + i \in 1 .. m + n /\ ~ (m + i <= m) /\ (m + i) - m = i
    BY <1>2, <1>3
  <2>7. \A i \in 1 .. n : made[m + i] = second[i]
    BY <2>4, <2>6
  <2> QED
    BY <2>3, <2>4, <2>5, <2>7
<1>5. DOMAIN made = 1 .. m + n /\ m + n \in Nat
  BY <1>2, <1>3, <1>4
<1>6. ASSUME NEW i \in DOMAIN made
      PROVE  \/ \E c \in clients : made[i] = ClientLine(c, map)
             \/ \E k \in R : made[i] = Unused(k)
  <2> HIDE DEF map, Unused
  <2>1. CASE i <= m
    <3>1. i \in 1 .. m
      BY <1>2, <1>3, <1>5, <2>1
    <3> QED
      BY <1>2, <1>4, <3>1
  <2>2. CASE ~ (i <= m)
    <3>1. i - m \in 1 .. n /\ m + (i - m) = i
      BY <1>2, <1>3, <1>5, <2>2
    <3>2. made[i] = Unused(t[i - m]) /\ t[i - m] \in R
      BY <1>3, <1>4, <3>1
    <3> QED
      BY <3>2
  <2> QED
    BY <2>1, <2>2
<1>7. ASSUME NEW c \in L
      PROVE  \E i \in DOMAIN made : made[i] = ClientLine(c, map)
  <2> HIDE DEF map, L
  <2>1. PICK i \in 1 .. m : s[i] = c
    BY <1>2
  <2>2. i \in 1 .. m + n
    BY <1>2, <1>3
  <2> QED
    BY <1>4, <1>5, <2>1, <2>2
<1>8. ASSUME NEW k \in R
      PROVE  \E i \in DOMAIN made : made[i] = Unused(k)
  <2> HIDE DEF map, R, Unused
  <2>1. PICK i \in 1 .. n : t[i] = k
    BY <1>3
  <2>2. m + i \in 1 .. m + n
    BY <1>2, <1>3
  <2> QED
    BY <1>4, <1>5, <2>1, <2>2
<1> QED
  BY <1>4, <1>5, <1>6, <1>7, <1>8 DEF made

(* The selectors of a client: its IP first, neither when it is blank.      *)
LEMMA KeysFacts ==
    ASSUME NEW c \in Clients
    PROVE  /\ Keys(c) \in Seq(Texts)
           /\ ToSet(Keys(c)) = {c.ip, c.mac} \ {Blank}
           /\ Keys(c) # <<>> =>
                 /\ 1 \in DOMAIN Keys(c)
                 /\ Keys(c)[1] = IF c.ip = Blank THEN c.mac ELSE c.ip
           /\ DOMAIN Keys(c) \in SUBSET Nat
           /\ \A i \in DOMAIN Keys(c) : 1 <= i
<1>1. c.ip \in Texts /\ c.mac \in Texts
  BY DEF Texts
<1>2. CASE c.ip = Blank /\ c.mac = Blank
  <2>1. Keys(c) = <<>>
    BY <1>2 DEF Keys, NonBlank
  <2> QED
    BY <1>2, <2>1 DEF ToSet
<1>3. CASE c.ip = Blank /\ c.mac # Blank
  <2>1. Keys(c) = <<c.mac>>
    BY <1>3 DEF Keys, NonBlank
  <2> QED
    BY <1>1, <1>3, <2>1 DEF ToSet
<1>4. CASE c.ip # Blank /\ c.mac = Blank
  <2>1. Keys(c) = <<c.ip>>
    BY <1>4 DEF Keys, NonBlank
  <2> QED
    BY <1>1, <1>4, <2>1 DEF ToSet
<1>5. CASE c.ip # Blank /\ c.mac # Blank
  <2>1. Keys(c) = <<c.ip>> \o <<c.mac>>
    BY <1>5 DEF Keys, NonBlank
  <2>2. /\ Keys(c) \in Seq(Texts) /\ DOMAIN Keys(c) = 1 .. 2
        /\ Keys(c)[1] = c.ip /\ Keys(c)[2] = c.mac
    BY <1>1, <2>1
  <2> QED
    BY <1>5, <2>2 DEF ToSet
<1> QED
  BY <1>2, <1>3, <1>4, <1>5

(* What a parsed map holds are texts.                                      *)
LEMMA AliasTypes ==
    ASSUME NEW lines \in DeviceMaps, ~ Rejected(lines)
    PROVE  LET map == ParseDeviceAliases(lines) IN
           \A k \in DOMAIN map : k \in Texts /\ map[k] \in Texts
<1> DEFINE map == ParseDeviceAliases(lines)
<1> SUFFICES ASSUME NEW k \in DOMAIN map
             PROVE  k \in Texts /\ map[k] \in Texts
  OBVIOUS
<1>1. PICK i \in DOMAIN lines : k \in ToSet(lines[i].keys) /\ map[k] = lines[i].alias
  BY ParseFacts
<1>2. lines[i].keys \in Seq(Texts) /\ lines[i].alias \in Texts
  BY LineTypes
<1>3. ToSet(lines[i].keys) \subseteq Texts
  BY <1>2 DEF ToSet
<1> QED
  BY <1>1, <1>2, <1>3

(* The name of a client is one of its own keys' aliases or the router's.   *)
LEMMA ChosenNameType ==
    ASSUME NEW c \in Clients, NEW lines \in DeviceMaps, ~ Rejected(lines)
    PROVE  ChosenName(c, ParseDeviceAliases(lines)) \in Texts
<1> DEFINE map == ParseDeviceAliases(lines)
<1>1. CASE Hits(c, map) = {}
  BY <1>1 DEF ChosenName, Texts
<1>2. CASE Hits(c, map) # {}
  <2>1. Hits(c, map) \in SUBSET Nat
    BY KeysFacts DEF Hits
  <2>2. Min(Hits(c, map)) \in Hits(c, map)
    BY <1>2, <2>1, MinIsLeast
  <2>3. Keys(c)[Min(Hits(c, map))] \in DOMAIN map
    BY <2>2 DEF Hits
  <2> QED
    BY <1>2, <2>3, AliasTypes DEF ChosenName
<1> QED
  BY <1>1, <1>2

(* A map is rendered as a map again.                                       *)
LEMMA RenderedIsMap ==
    ASSUME NEW clients \in HostLists, NEW lines \in DeviceMaps, ~ Rejected(lines)
    PROVE  RenderCurrentDeviceMap(clients, lines) \in DeviceMaps
<1> DEFINE map  == ParseDeviceAliases(lines)
           made == RenderCurrentDeviceMap(clients, lines)
           Line == [keys : Seq(Texts), alias : Texts]
<1>1. CASE clients = {}
  BY <1>1 DEF RenderCurrentDeviceMap
<1>2. CASE clients # {}
  <2>1. PICK n \in Nat : made = [i \in 1 .. n |-> made[i]]
    BY <1>2, RenderedLines
  <2>2. ASSUME NEW i \in DOMAIN made
        PROVE  made[i] \in Line
    <3>1. \/ \E c \in clients : made[i] = ClientLine(c, map)
          \/ \E k \in DOMAIN map : made[i] = [keys |-> <<k>>, alias |-> map[k]]
      BY <1>2, RenderedLines
    <3>2. ASSUME NEW c \in clients
          PROVE  ClientLine(c, map) \in Line
      <4>1. c \in Clients
        BY DEF Clients
      <4> QED
        BY <4>1, KeysFacts, ChosenNameType DEF ClientLine
    <3>3. ASSUME NEW k \in DOMAIN map
          PROVE  [keys |-> <<k>>, alias |-> map[k]] \in Line
      BY AliasTypes
    <3> QED
      BY <3>1, <3>2, <3>3
  <2> HIDE DEF made, Line
  <2>3. made \in Seq(Line)
    BY <2>1, <2>2
  <2> QED
    BY <2>3 DEF DeviceMaps, made, Line
<1> QED
  BY <1>1, <1>2

(* Whatever happens, a map the parser accepts is stored.                   *)
LEMMA NamesInvHolds == NamesSpec => []NamesInv
<1>1. NamesInit => NamesInv
  BY DEF NamesInit, NamesInv, DeviceMaps, Rejected
<1>2. ASSUME NamesInv, [NamesNext]_namesVars
      PROVE  NamesInv'
  <2>1. CASE UNCHANGED namesVars
    BY <1>2, <2>1 DEF NamesInv, namesVars
  <2>2. ASSUME NEW new \in HostLists, PollSucceeds(new) \/ Reload(new)
        PROVE  NamesInv'
    BY <1>2, <2>2 DEF NamesInv, PollSucceeds, Reload
  <2>3. CASE OpenForm
    BY <1>2, <2>3, RenderedIsMap DEF NamesInv, OpenForm
  <2>4. CASE CloseForm
    BY <1>2, <2>4 DEF NamesInv, CloseForm
  <2>5. ASSUME form # None, NEW i \in DOMAIN form, RemoveLine(i)
        PROVE  NamesInv'
    <3>1. form \in DeviceMaps
      BY <1>2, <2>5 DEF NamesInv
    <3>2. form' \in DeviceMaps
      <4> DEFINE Line == [keys : Seq(Texts), alias : Texts]
                 n == Len(form)
      <4>1. n \in Nat /\ i \in 1 .. n /\ \A j \in 1 .. n : form[j] \in Line
        BY <2>5, <3>1, LineTypes
      <4> HIDE DEF Line, n
      <4>2. SubSeq(form, 1, i - 1) \in Seq(Line)
        <5>1. i - 1 \in Int /\ \A j \in 1 .. i - 1 : form[j] \in Line
          BY <4>1
        <5> QED
          BY <5>1, SubSeqProperties
      <4>3. SubSeq(form, i + 1, n) \in Seq(Line)
        <5>1. i + 1 \in Int /\ n \in Int /\ \A j \in i + 1 .. n : form[j] \in Line
          BY <4>1
        <5> QED
          BY <5>1, SubSeqProperties
      <4>4. form' = SubSeq(form, 1, i - 1) \o SubSeq(form, i + 1, n)
        BY <2>5 DEF RemoveLine, RemoveAt, n
      <4>5. form' \in Seq(Line)
        BY <4>2, <4>3, <4>4
      <4> QED
        BY <4>5 DEF DeviceMaps, Line
    <3> QED
      BY <1>2, <2>5, <3>2 DEF NamesInv, RemoveLine
  <2>6. ASSUME form # None, NEW i \in DOMAIN form, NEW text \in NewNames, EditAlias(i, text)
        PROVE  NamesInv'
    <3>1. form \in DeviceMaps /\ i \in 1 .. Len(form)
      BY <1>2, <2>6, LineTypes DEF NamesInv
    <3>2. form[i] \in [keys : Seq(Texts), alias : Texts]
      BY <3>1, LineTypes
    <3>3. [form[i] EXCEPT !.alias = text] \in [keys : Seq(Texts), alias : Texts]
      BY <3>2 DEF Texts
    <3>4. form' \in DeviceMaps
      BY <2>6, <3>1, <3>3, ExceptSeq DEF EditAlias, DeviceMaps
    <3> QED
      BY <1>2, <2>6, <3>4 DEF NamesInv, EditAlias
  <2>7. CASE SubmitForm
    BY <1>2, <2>7 DEF NamesInv, SubmitForm, StoreForm, namesVars
  <2> QED
    BY <1>2, <2>1, <2>2, <2>3, <2>4, <2>5, <2>6, <2>7 DEF NamesNext
<1> QED
  BY <1>1, <1>2, PTL DEF NamesSpec

(* The stored map changes only when a form is stored; an untouched form is *)
(* a rendered map, of a list that is not empty.                            *)
LEMMA UntouchedForm ==
    ASSUME NamesInv, [NamesNext]_namesVars, options' # options, basis # None
    PROVE  /\ options' = RenderCurrentDeviceMap(basis, options)
           /\ options' \in DeviceMaps /\ ~ Rejected(options')
           /\ basis \in HostLists /\ basis # {}
<1>1. SubmitForm /\ ~ Rejected(form) /\ StoreForm
  BY DEF NamesNext, PollSucceeds, Reload, OpenForm, CloseForm, RemoveLine, EditAlias,
         SubmitForm, namesVars
<1>2. /\ options' = form /\ form # None /\ form \in DeviceMaps
      /\ basis \in HostLists /\ form = RenderCurrentDeviceMap(basis, options)
  BY <1>1 DEF SubmitForm, StoreForm, NamesInv
<1>3. basis # {}
  BY <1>2 DEF RenderCurrentDeviceMap
<1> QED
  BY <1>1, <1>2, <1>3

(* The stored selectors of nobody listed come back with their names, the   *)
(* others with a name at all.                                              *)
LEMMA RenderKeepsAliases ==
    ASSUME NEW clients \in HostLists, clients # {},
           NEW lines \in DeviceMaps, ~ Rejected(lines),
           NEW made \in DeviceMaps, ~ Rejected(made),
           made = RenderCurrentDeviceMap(clients, lines)
    PROVE  LET old == ParseDeviceAliases(lines)
               new == ParseDeviceAliases(made)
           IN \A k \in DOMAIN old :
                 k \in DOMAIN new /\ (k \notin Used(clients) => new[k] = old[k])
<1> DEFINE old == ParseDeviceAliases(lines)
           new == ParseDeviceAliases(made)
<1> SUFFICES ASSUME NEW k \in DOMAIN old
             PROVE  k \in DOMAIN new /\ (k \notin Used(clients) => new[k] = old[k])
  OBVIOUS
<1>1. CASE k \in Used(clients)
  <2>1. PICK c \in clients : k \in ToSet(Keys(c))
    BY <1>1 DEF Used
  <2>2. Keys(c) # <<>>
    BY <2>1 DEF ToSet
  <2>3. PICK i \in DOMAIN made : made[i] = ClientLine(c, old)
    BY <2>2, RenderedLines
  <2>4. k \in ToSet(made[i].keys)
    BY <2>1, <2>3 DEF ClientLine
  <2> QED
    BY <1>1, <2>4, ParseFacts
<1>2. CASE k \notin Used(clients)
  <2>1. PICK i \in DOMAIN made : made[i] = [keys |-> <<k>>, alias |-> old[k]]
    BY <1>2, RenderedLines
  <2>2. k \in ToSet(made[i].keys)
    BY <2>1 DEF ToSet
  <2>3. k \in DOMAIN new
    BY <2>2, ParseFacts
  <2>4. PICK j \in DOMAIN made : k \in ToSet(made[j].keys) /\ new[k] = made[j].alias
    BY <2>3, ParseFacts
  <2>5. ASSUME NEW c \in clients, made[j] = ClientLine(c, old)
        PROVE  FALSE
    BY <1>2, <2>4, <2>5 DEF ClientLine, Used
  <2>6. PICK l \in DOMAIN old : made[j] = [keys |-> <<l>>, alias |-> old[l]]
    BY <2>5, RenderedLines
  <2>7. l = k
    BY <2>4, <2>6 DEF ToSet
  <2> QED
    BY <2>3, <2>4, <2>6, <2>7
<1> QED
  BY <1>1, <1>2

(* A listed client that shares its IP with no other listed client is the   *)
(* only one whose line begins with its first selector.                     *)
LEMMA FirstKeyIsOwn ==
    ASSUME NEW clients \in HostLists, NEW c \in clients, NEW d \in clients,
           \A e \in clients : e # c /\ e.ip = c.ip => c.ip = Blank,
           Keys(c) # <<>>, Keys(c)[1] \in ToSet(Keys(d))
    PROVE  d = c
<1>1. c \in Clients /\ d \in Clients
  BY DEF Clients
<1>2. Keys(c)[1] = (IF c.ip = Blank THEN c.mac ELSE c.ip) /\ 1 \in DOMAIN Keys(c)
  BY <1>1, KeysFacts
<1>3. Keys(c)[1] # Blank /\ (Keys(c)[1] = d.ip \/ Keys(c)[1] = d.mac)
  BY <1>1, KeysFacts
<1>4. /\ c.mac = d.mac => c = d \/ c.mac = Blank
      /\ c.ip = d.mac => c.ip = Blank
      /\ d.ip = c.mac => d.ip = Blank
  BY NamesParameters
<1>5. CASE c.ip = Blank
  <2>1. Keys(c)[1] = c.mac
    BY <1>2, <1>5
  <2> QED
    BY <1>3, <1>4, <2>1
<1>6. CASE c.ip # Blank
  <2>1. Keys(c)[1] = c.ip
    BY <1>2, <1>6
  <2> QED
    BY <1>3, <1>4, <1>6, <2>1
<1> QED
  BY <1>5, <1>6

(* Such a client has, in what is parsed of the rendered map, the name it   *)
(* was rendered with.                                                      *)
LEMMA RenderKeepsNames ==
    ASSUME NEW clients \in HostLists, clients # {},
           NEW lines \in DeviceMaps, ~ Rejected(lines),
           NEW made \in DeviceMaps, ~ Rejected(made),
           made = RenderCurrentDeviceMap(clients, lines),
           NEW c \in clients,
           \A d \in clients : d # c /\ d.ip = c.ip => c.ip = Blank
    PROVE  ChosenName(c, ParseDeviceAliases(made)) = ChosenName(c, ParseDeviceAliases(lines))
<1> DEFINE old == ParseDeviceAliases(lines)
           new == ParseDeviceAliases(made)
           k == Keys(c)[1]
<1>0. c \in Clients
  BY DEF Clients
<1>1. CASE Keys(c) = <<>>
  <2>1. DOMAIN Keys(c) = {}
    BY <1>1
  <2>2. Hits(c, old) = {} /\ Hits(c, new) = {}
    BY <2>1 DEF Hits
  <2> QED
    BY <2>2 DEF ChosenName
<1>2. CASE Keys(c) # <<>>
  <2>1. 1 \in DOMAIN Keys(c) /\ k \in ToSet(Keys(c))
    BY <1>0, <1>2, KeysFacts DEF ToSet
  <2>2. PICK i \in DOMAIN made : made[i] = ClientLine(c, old)
    BY <1>2, RenderedLines
  <2>3. k \in DOMAIN new
    BY <2>1, <2>2, ParseFacts DEF ClientLine
  <2>4. Min(Hits(c, new)) = 1
    <3>1. 1 \in Hits(c, new) /\ Hits(c, new) \in SUBSET Nat /\ \A j \in Hits(c, new) : 1 <= j
      BY <1>0, <2>1, <2>3, KeysFacts DEF Hits
    <3>2. Min(Hits(c, new)) \in Hits(c, new) /\ Min(Hits(c, new)) <= 1
      BY <3>1, MinIsLeast
    <3>3. Min(Hits(c, new)) \in Nat /\ 1 <= Min(Hits(c, new))
      BY <3>1, <3>2
    <3> QED
      BY <3>2, <3>3
  <2>5. ChosenName(c, new) = new[k]
    <3>1. Hits(c, new) # {}
      BY <2>1, <2>3 DEF Hits
    <3> QED
      BY <3>1, <2>4 DEF ChosenName
  <2>6. PICK j \in DOMAIN made : k \in ToSet(made[j].keys) /\ new[k] = made[j].alias
    BY <2>3, ParseFacts
  <2>7. ASSUME NEW l \in DOMAIN old \ Used(clients),
               made[j] = [keys |-> <<l>>, alias |-> old[l]]
        PROVE  FALSE
    <3>1. l = k
      BY <2>6, <2>7 DEF ToSet
    <3> QED
      BY <2>1, <2>7, <3>1 DEF Used
  <2>8. PICK d \in clients : made[j] = ClientLine(d, old)
    BY <2>7, RenderedLines
  <2>9. d = c
    <3>1. k \in ToSet(Keys(d))
      BY <2>6, <2>8 DEF ClientLine
    <3> QED
      BY <1>2, <3>1, FirstKeyIsOwn
  <2> QED
    BY <2>5, <2>6, <2>8, <2>9 DEF ClientLine
<1> QED
  BY <1>1, <1>2

(* Saving the map as it was rendered loses no stored selector, and no name *)
(* of a selector that no listed client has (config_flow.py:141), whatever  *)
(* the lists, the names and the order of edits, polls and reloads.         *)
THEOREM UnchangedSaveKeeps == NamesSpec => UnchangedSaveKeepsAliases
<1>1. ASSUME NamesInv, [NamesNext]_namesVars, options' # options, basis # None
      PROVE  LET old == ParseDeviceAliases(options)
                 new == ParseDeviceAliases(options')
             IN \A k \in DOMAIN old :
                   /\ k \in DOMAIN new
                   /\ (\A c \in basis : k \notin ToSet(Keys(c))) => new[k] = old[k]
  <2>1. options \in DeviceMaps /\ ~ Rejected(options)
    BY <1>1 DEF NamesInv
  <2>2. /\ options' = RenderCurrentDeviceMap(basis, options)
        /\ options' \in DeviceMaps /\ ~ Rejected(options')
        /\ basis \in HostLists /\ basis # {}
    BY <1>1, UntouchedForm
  <2>3. ASSUME NEW k \in DOMAIN ParseDeviceAliases(options)
        PROVE  /\ k \in DOMAIN ParseDeviceAliases(options')
               /\ k \notin Used(basis) =>
                     ParseDeviceAliases(options')[k] = ParseDeviceAliases(options)[k]
    BY <2>1, <2>2, RenderKeepsAliases
  <2> QED
    BY <2>3 DEF Used
<1>2. NamesInv /\ [NamesNext]_namesVars =>
         (options' # options /\ basis # None =>
            LET old == ParseDeviceAliases(options)
                new == ParseDeviceAliases(options')
            IN \A k \in DOMAIN old :
                  /\ k \in DOMAIN new
                  /\ (\A c \in basis : k \notin ToSet(Keys(c))) => new[k] = old[k])
  BY <1>1
<1> QED
  BY <1>2, NamesInvHolds, PTL DEF NamesSpec, UnchangedSaveKeepsAliases

(* Saving the map as it was rendered of the clients that are listed still  *)
(* renames none of them that has an IP of its own (config_flow.py:117,     *)
(* coordinator.py:48).                                                     *)
THEOREM UnchangedSaveRenames == NamesSpec => UnchangedSaveRenamesNobody
<1>1. ASSUME NamesInv, [NamesNext]_namesVars, options' # options, basis = list,
             aliases = ParseDeviceAliases(options),
             NEW c \in list, SharesNoIp(c)
      PROVE  DisplayName(c, ParseDeviceAliases(options')) = Shown(c)
  <2>1. options \in DeviceMaps /\ ~ Rejected(options) /\ basis # None
    BY <1>1, NamesParameters DEF NamesInv
  <2>2. /\ options' = RenderCurrentDeviceMap(list, options)
        /\ options' \in DeviceMaps /\ ~ Rejected(options')
        /\ list \in HostLists /\ list # {}
    BY <1>1, <2>1, UntouchedForm
  <2>3. ChosenName(c, ParseDeviceAliases(options')) = ChosenName(c, aliases)
    BY <1>1, <2>1, <2>2, RenderKeepsNames DEF SharesNoIp
  <2> QED
    BY <2>3 DEF DisplayName, Shown
<1>2. NamesInv /\ [NamesNext]_namesVars =>
         (options' # options /\ basis = list /\ aliases = ParseDeviceAliases(options) =>
            \A c \in list :
                SharesNoIp(c) => DisplayName(c, ParseDeviceAliases(options')) = Shown(c))
  BY <1>1
<1> QED
  BY <1>2, NamesInvHolds, PTL DEF NamesSpec, UnchangedSaveRenamesNobody

=============================================================================
