----------------------------- MODULE DeviceCard -----------------------------
(***************************************************************************)
(* The Lovelace card (class TendaMW6Card of tenda-mw6-card.js) in one      *)
(* browser tab.  The card redraws itself only when the signature of the    *)
(* relevant states changes, when a setting does, or when its width crosses *)
(* the compact limit: what is on the screen is a cached view.              *)
(*                                                                         *)
(* A state of Home Assistant is a record: state and the attributes name,   *)
(* ip, bytes, metric, period and direction are texts, sequences of         *)
(* characters; mac (NoMac: empty) and entry are the client and the config  *)
(* entry it is of.  The comparator of the rows is CardSort's, a view holds *)
(* them as a set.                                                          *)
(* Home Assistant's frontend creates the card, calls setConfig before it   *)
(* hands over states, and attaches and detaches the element; the browser   *)
(* has ResizeObserver and reports the width of an element it observes.     *)
(***************************************************************************)
EXTENDS CardSort, SequencesExt

CONSTANTS Entities,     \* entities that carry tenda_mw6_client
          Records,      \* what a state may say
          Worlds,       \* bound: the states of them Home Assistant may hold
          Characters,   \* what texts are made of; "|" and ";" are two of them
          Bar, Semicolon,
          NoMac,
          Configs,      \* configurations: entry_id (NoEntry: all), sort, order
          SortChoices,  \* bound: those of Sorts that are tried
          NoEntry,
          Absent,       \* Home Assistant has no such state
          NoHass,       \* the hass property was never set
          NoSettings,   \* nothing stored, or stored text that does not parse
          Loading       \* the text "Ładowanie…" is on the screen

Texts == Seq(Characters)

\* An entity_id holds neither separator (Home Assistant's are letters, digits, "_" and
\* "."): here it is one character.  Home Assistant holds finitely many states.
ASSUME CardParameters ==
    /\ Entities \subseteq Characters \ {Bar, Semicolon} /\ IsFiniteSet(Entities)
    /\ Bar \in Characters /\ Semicolon \in Characters /\ Bar # Semicolon
    /\ \A r \in Records : {r.state, r.name, r.ip, r.bytes, r.metric, r.period, r.direction}
                              \subseteq Texts
    /\ Worlds \subseteq [Entities -> Records \cup {Absent}]
    /\ NoHass \notin Worlds

Widths == {"hidden", "narrow", "wide"}       \* 0, below 720 pixels, the rest
Periods == {"total", "day"}                  \* of three; the unit is treated alike
Settings == [sort : SortChoices, order : Orders, period : Periods]

VARIABLES world,        \* Home Assistant's states
          stored,       \* the localStorage item of this card's key
          storageWorks, \* localStorage is enabled
          config, settings, hass, signature, compact,
          handle,       \* _resizeObserver is not null
          shown,        \* what the shadow root displays
          attached,     \* the element is in the page
          width,        \* its width
          observing,    \* an observer observes it ...
          reported      \* ... and last reported this width

cardVars == <<world, stored, storageWorks, config, settings, hass, signature, compact,
          handle, shown, attached, width, observing, reported>>
page == <<attached, width, observing, reported>>

-----------------------------------------------------------------------------
(* _relevantStates *)
Relevant(states, cfg) ==
    IF states = NoHass THEN {}
    ELSE {e \in Entities : /\ states[e] # Absent
                           /\ cfg.entry \in {NoEntry, states[e].entry}}

(* What a state says of its client, and the signature lists.                     *)
Cell(e, r) ==
    << <<e>>, r.state, r.name, r.ip, r.bytes, r.metric, r.period, r.direction >>

(* Array.prototype.join *)
Join(texts, separator) ==
    FlattenSeq([i \in DOMAIN texts |->
                   IF i = Len(texts) THEN texts[i] ELSE texts[i] \o <<separator>>])

\* mutated: the signature leaves the attributes out
SignatureOfState(states, cfg) ==
    Join(SetToSeq({Join(<< <<e>>, states[e].state >>, Bar) : e \in Relevant(states, cfg)}),
         Semicolon)

TextOf(e, r) == Join(Cell(e, r), Bar)

(* _relevantSignature.  The order sort() puts the texts in depends on the texts  *)
(* alone, and no two are alike: SetToSeq stands for it.                          *)
RelevantSignature(states, cfg) ==
    Join(SetToSeq({TextOf(e, states[e]) : e \in Relevant(states, cfg)}), Semicolon)

EmptySignature == <<>>

(* _devices: the states of one entry and MAC make a row, each as a cell of it.   *)
Rows(states, cfg) ==
    LET drawn == {e \in Relevant(states, cfg) : states[e].mac # NoMac}
        key(e) == <<states[e].entry, states[e].mac>>
    IN  {{Cell(e, states[e]) : e \in {x \in drawn : key(x) = key(d)}} : d \in drawn}

(* _html and the compact class set by _render *)
View(states, cfg, s, isCompact) ==
    IF states = NoHass THEN Loading
    ELSE [rows |-> Rows(states, cfg),
          sort |-> s.sort, order |-> EffectiveOrder(s.sort, s.order),
          period |-> s.period, compact |-> isCompact]

Defaults(cfg) == [sort |-> cfg.sort, order |-> cfg.order, period |-> "total"]

(* _loadSettings *)
LoadSettings(cfg) ==
    IF storageWorks /\ stored # NoSettings THEN stored
    ELSE Defaults(cfg)

(* _saveSettings: the whole settings object, over whatever another card stored   *)
SaveSettings(s) == stored' = IF storageWorks THEN s ELSE stored

-----------------------------------------------------------------------------
CardInit ==
    /\ world \in Worlds
    /\ stored \in Settings \cup {NoSettings}
    /\ storageWorks \in BOOLEAN
    /\ config \in Configs
    /\ settings = LoadSettings(config)
    /\ hass = NoHass
    /\ signature = EmptySignature
    /\ compact = FALSE
    /\ handle = FALSE
    /\ shown = Loading
    /\ attached = FALSE
    /\ width \in Widths
    /\ observing = FALSE
    /\ reported = "hidden"

StatesChange ==
    /\ world' \in Worlds \ {world}
    /\ UNCHANGED <<stored, storageWorks, config, settings, hass, signature, compact,
                   handle, shown, page>>

\* setConfig, when the dashboard's configuration is edited.
SetConfig(cfg) ==
    /\ config' = cfg
    /\ settings' = LoadSettings(cfg)
    /\ signature' = EmptySignature
    /\ shown' = View(hass, cfg, LoadSettings(cfg), compact)
    /\ UNCHANGED <<world, stored, storageWorks, hass, compact, handle, page>>

\* set hass
SetHass ==
    LET latest == RelevantSignature(world, config)
    IN  /\ hass' = world
        /\ IF latest = signature
           THEN UNCHANGED <<signature, shown>>
           ELSE /\ signature' = latest
                /\ shown' = View(world, config, settings, compact)
        /\ UNCHANGED <<world, stored, storageWorks, config, settings, compact, handle, page>>

Change(s) ==
    /\ shown # Loading              \* the controls are not drawn while loading
    /\ settings' = s
    /\ SaveSettings(s)
    /\ shown' = View(hass, config, s, compact)
    /\ UNCHANGED <<world, storageWorks, config, hass, signature, compact, handle, page>>

\* _changeSetting
ChooseSort(sort) == Change([settings EXCEPT !.sort = sort, !.order = "auto"])

ChoosePeriod(period) == Change([settings EXCEPT !.period = period])

\* The button with the arrow.
ToggleOrder ==
    Change([settings EXCEPT !.order =
                IF EffectiveOrder(settings.sort, settings.order) = "desc" THEN "asc" ELSE "desc"])

\* A card with the same storage key, in another tab or on another dashboard.
AnotherCardSaves(s) ==
    /\ storageWorks
    /\ stored' = s
    /\ UNCHANGED <<world, storageWorks, config, settings, hass, signature, compact,
                   handle, shown, page>>

(* connectedCallback *)
Connected ==
    /\ ~attached
    /\ attached' = TRUE
    /\ IF handle
       THEN UNCHANGED <<handle, observing, reported>>
       ELSE handle' = TRUE /\ observing' = TRUE /\ reported' = "hidden"
    /\ UNCHANGED <<world, stored, storageWorks, config, settings, hass, signature,
                   compact, shown, width>>

\* mutated: the observer is disconnected and not forgotten
LeaveKeepingHandle ==
    /\ observing' = FALSE
    /\ UNCHANGED handle

(* disconnectedCallback *)
Leave ==
    /\ observing' = FALSE
    /\ handle' = FALSE

Disconnected ==
    /\ attached
    /\ attached' = FALSE
    /\ Leave
    /\ UNCHANGED <<world, stored, storageWorks, config, settings, hass, signature,
                   compact, shown, width, reported>>

LayoutChanges ==
    /\ width' \in Widths \ {width}
    /\ UNCHANGED <<world, stored, storageWorks, config, settings, hass, signature, compact,
                   handle, shown, attached, observing, reported>>

\* The observer's callback.
Observed(isCompact) ==
    /\ compact' = isCompact
    /\ shown' = IF isCompact = compact THEN shown
                ELSE View(hass, config, settings, isCompact)

ObserverReports ==
    /\ attached
    /\ observing
    /\ reported # width
    /\ reported' = width
    /\ Observed(width = "narrow")
    /\ UNCHANGED <<world, stored, storageWorks, config, settings, hass, signature, handle,
                   attached, width, observing>>

\* The tab is loaded again: a new element, and what is left is the storage.
ReloadPage ==
    /\ settings' = LoadSettings(config)
    /\ hass' = NoHass
    /\ signature' = EmptySignature
    /\ compact' = FALSE
    /\ handle' = FALSE
    /\ shown' = Loading
    /\ attached' = FALSE
    /\ observing' = FALSE
    /\ reported' = "hidden"
    /\ UNCHANGED <<world, stored, storageWorks, config, width>>

CardNext ==
    \/ StatesChange
    \/ \E cfg \in Configs : SetConfig(cfg)
    \/ SetHass
    \/ \E sort \in SortChoices : ChooseSort(sort)
    \/ \E period \in Periods : ChoosePeriod(period)
    \/ ToggleOrder
    \/ \E s \in Settings : AnotherCardSaves(s)
    \/ Connected
    \/ Disconnected
    \/ LayoutChanges
    \/ ObserverReports
    \/ ReloadPage

CardSpec == CardInit /\ [][CardNext]_cardVars
-----------------------------------------------------------------------------
Cells(states, cfg) == {Cell(e, states[e]) : e \in Relevant(states, cfg)}

\* No text holds a separator.
IsPlain(states, cfg) ==
    \A e \in Relevant(states, cfg) : \A i \in 1 .. 8 :
        {Bar, Semicolon} \cap Range(Cell(e, states[e])[i]) = {}

\* What is on the screen is what the latest configuration, settings and width class
\* give of states that read as the latest ones do, although most calls of "set hass"
\* draw nothing: states with the latest signature, and with the same value, name, IP
\* and bytes in every cell unless a text holds a separator.  What may be older is the
\* MAC and the entry that put a cell into its row, which the signature does not list
\* (tenda-mw6-card.js:245-258, 263).  With no relevant state nothing is claimed: the
\* empty list has the signature of a new card, and is not drawn over "Loading" or over
\* the rows of an edited configuration (tenda-mw6-card.js:189).
ShownIsCurrent ==
    Relevant(hass, config) # {} =>
        \E w \in Worlds :
            /\ shown = View(w, config, settings, compact)
            /\ RelevantSignature(w, config) = RelevantSignature(hass, config)
            /\ IsPlain(w, config) /\ IsPlain(hass, config) =>
                   Cells(w, config) = Cells(hass, config)

\* Once the browser has reported the width, a visible card is laid out for it,
\* after any number of moves in and out of the page.
LayoutFitsWidth ==
    attached /\ (observing => reported = width) /\ width # "hidden"
        => compact = (width = "narrow")
=============================================================================
