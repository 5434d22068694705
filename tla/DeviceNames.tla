------------------------------ MODULE DeviceNames ------------------------------
(***************************************************************************)
(* The names of clients: the device map the options flow renders, edits    *)
(* and stores (config_flow.py), the aliases parsed from it on every load   *)
(* (__init__.py parse_device_aliases), and the name each client is shown   *)
(* by (coordinator.py client_display_name), while the router hands out     *)
(* IPs, clients come and go, and the form may be older than the list.      *)
(*                                                                         *)
(* A line of the map is [keys, alias]: its selectors in order and the text *)
(* after "=".  Comments, white space and letter case carry no meaning and  *)
(* are left out.  Blank is the empty string.                               *)
(***************************************************************************)
EXTENDS Python, Integers, Sequences, FiniteSets, SequencesExt

CONSTANTS
    Blank,
    HostLists,      \* sets of clients [ip, mac, name] a poll may return
    Rank(_),        \* the position of a client in _client_sort_key's order
    Malformed,      \* the IPs and MACs parse_device_aliases rejects
    NewNames,       \* the texts a user writes after "="
    MaxSaves        \* bound: submitted maps that are stored

(* A MAC is of one client of a list, and an address of one kind is none of *)
(* the other.  Rank puts the clients of a list into one order.             *)
ASSUME NamesParameters ==
    /\ MaxSaves \in Nat /\ None \notin HostLists
    /\ \A list \in HostLists :
          /\ IsFiniteSet(list)
          /\ \A c, d \in list :
                /\ c.mac = d.mac => c = d \/ c.mac = Blank
                /\ c.ip = d.mac => c.ip = Blank
                /\ Rank(c) \in Int /\ (Rank(c) = Rank(d) => c = d)

VARIABLES
    list,     \* coordinator.data
    aliases,  \* coordinator.device_aliases
    options,  \* entry.options: the stored lines
    saves,    \* how often the options were stored
    form,     \* the open form: its lines, None when no form is open
    basis     \* history: the list an untouched form was rendered from, or None

namesVars == <<list, aliases, options, saves, form, basis>>

-----------------------------------------------------------------------------
NonBlank(text) == IF text = Blank THEN <<>> ELSE <<text>>

Keys(c) == NonBlank(c.ip) \o NonBlank(c.mac)

(* parse_device_aliases raises ValueError                                  *)
Rejected(lines) ==
    \E i \in DOMAIN lines :
        lines[i].keys = <<>> \/ ToSet(lines[i].keys) \cap Malformed # {}

(* The lines that name a selector, of which the last one counts            *)
Naming(lines, k) == {i \in DOMAIN lines : k \in ToSet(lines[i].keys)}

(* parse_device_aliases: None for its ValueError                           *)
ParseDeviceAliases(lines) ==
    IF Rejected(lines) THEN None
    ELSE [k \in UNION {ToSet(lines[i].keys) : i \in DOMAIN lines} |->
             lines[Max(Naming(lines, k))].alias]

(* Which keys of a client have an alias; the first one counts.             *)
Hits(c, map) == {i \in DOMAIN Keys(c) : Keys(c)[i] \in DOMAIN map}

ChosenName(c, map) ==
    IF Hits(c, map) = {} THEN c.name ELSE map[Keys(c)[Min(Hits(c, map))]]

(* client_display_name                                                     *)
DisplayName(c, map) ==
    IF ChosenName(c, map) # Blank THEN ChosenName(c, map)
    ELSE IF c.ip # Blank THEN c.ip ELSE c.mac

(* sorted(clients, key=_client_sort_key)                                   *)
SortedClients(clients) ==
    CHOOSE s \in [1 .. Cardinality(clients) -> clients] :
        \A i, j \in DOMAIN s : i < j => Rank(s[i]) < Rank(s[j])

(* mutated: what a line shows is the router's name, whatever was saved     *)
RouterLine(c, map) == [keys |-> Keys(c), alias |-> c.name]

(* One line of _render_current_device_map                                  *)
ClientLine(c, map) == [keys |-> Keys(c), alias |-> ChosenName(c, map)]

(* mutated: the selectors of clients not listed now are left out           *)
NoLines(clients, map) == <<>>

(* The saved selectors of clients that are not listed now                  *)
UnusedLines(clients, map) ==
    LET used == UNION {ToSet(Keys(c)) : c \in clients}
        rest == SetToSeq(DOMAIN map \ used)
    IN [i \in DOMAIN rest |-> [keys |-> <<rest[i]>>, alias |-> map[rest[i]]]]

(* _render_current_device_map                                              *)
RenderCurrentDeviceMap(clients, lines) ==
    LET map    == ParseDeviceAliases(lines)
        listed == SortedClients({c \in clients : Keys(c) # <<>>})
    IN IF Rejected(lines) \/ clients = {} THEN lines
       ELSE [i \in DOMAIN listed |-> ClientLine(listed[i], map)]
              \o UnusedLines(clients, map)

-----------------------------------------------------------------------------
NamesInit ==
    /\ list \in HostLists
    /\ options = <<>> /\ aliases = ParseDeviceAliases(options)
    /\ saves = 0
    /\ form = None /\ basis = None

PollSucceeds(new) ==
    /\ list' = new
    /\ UNCHANGED <<aliases, options, saves, form, basis>>

(* async_step_init without input                                           *)
OpenForm ==
    /\ form = None
    /\ form' = RenderCurrentDeviceMap(list, options)
    /\ basis' = list
    /\ UNCHANGED <<list, aliases, options, saves>>

(* The user changes the text of a line or removes it, or leaves the form.  *)
EditAlias(i, text) ==
    /\ form' = [form EXCEPT ![i].alias = text]
    /\ basis' = None
    /\ UNCHANGED <<list, aliases, options, saves>>

RemoveLine(i) ==
    /\ form' = RemoveAt(form, i)
    /\ basis' = None
    /\ UNCHANGED <<list, aliases, options, saves>>

CloseForm ==
    /\ form # None
    /\ form' = None /\ basis' = None
    /\ UNCHANGED <<list, aliases, options, saves>>

StoreForm ==
    /\ options' = form /\ saves' = saves + 1
    /\ form' = None /\ basis' = None
    /\ UNCHANGED <<list, aliases>>

(* async_step_init with input: a valid map is stored, an invalid one is    *)
(* shown again.                                                            *)
SubmitForm ==
    /\ form # None /\ saves < MaxSaves
    /\ IF Rejected(form) THEN UNCHANGED namesVars ELSE StoreForm

(* The update listener reloads the entry with the stored map; its first    *)
(* refresh reads a new list.                                               *)
Reload(new) ==
    /\ aliases' = ParseDeviceAliases(options)
    /\ list' = new
    /\ UNCHANGED <<options, saves, form, basis>>

NamesNext ==
    \/ \E new \in HostLists : PollSucceeds(new) \/ Reload(new)
    \/ OpenForm \/ CloseForm
    \/ form # None /\ \E i \in DOMAIN form :
          RemoveLine(i) \/ \E text \in NewNames : EditAlias(i, text)
    \/ SubmitForm

NamesSpec == NamesInit /\ [][NamesNext]_namesVars

-----------------------------------------------------------------------------
Shown(c) == DisplayName(c, aliases)

SharesNoIp(c) == \A d \in list : d # c /\ d.ip = c.ip => c.ip = Blank

(* Opening the map and saving it unchanged renames nobody, although every  *)
(* name shown by then becomes an alias of both the client's IP and its     *)
(* MAC (config_flow.py:117, coordinator.py:48), as long as the list is the *)
(* one the map was rendered from, no two of its clients share an IP, and   *)
(* the aliases in use are those of the stored map.                         *)
UnchangedSaveRenamesNobody ==
    [][options' # options /\ basis = list /\ aliases = ParseDeviceAliases(options) =>
          \A c \in list :
              SharesNoIp(c) => DisplayName(c, ParseDeviceAliases(options')) = Shown(c)]_namesVars

(* Saving the map unchanged keeps every selector that was saved, and the   *)
(* name of every selector no client of the rendered list has, also of the  *)
(* clients that are away, and whatever list came in since the map was      *)
(* rendered (config_flow.py:141).                                          *)
UnchangedSaveKeepsAliases ==
    [][options' # options /\ basis # None =>
          LET old == ParseDeviceAliases(options)
              new == ParseDeviceAliases(options')
          IN \A k \in DOMAIN old :
                /\ k \in DOMAIN new
                /\ (\A c \in basis : k \notin ToSet(Keys(c))) => new[k] = old[k]]_namesVars

=============================================================================
