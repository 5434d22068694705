------------------------------- MODULE CardSort -------------------------------
(***************************************************************************)
(* The order of the card's rows (tenda-mw6-card.js _sortedDevices): a      *)
(* comparator handed to Array.prototype.sort.  A device is a record with   *)
(* name, the rank of its name in the collation of localeCompare (numeric,  *)
(* base letters: texts it takes for equal have one rank); ip, with value,  *)
(* what mw6Ipv4Value makes of the text (None: not an IPv4 address), and    *)
(* text, its rank in the same collation; and transfer, the bytes of the    *)
(* chosen period and direction (None: unknown).                            *)
(***************************************************************************)
EXTENDS Python, Integers

Sorts == {"device", "ip", "download", "upload"}
Orders == {"auto", "asc", "desc"}

IsTransfer(sort) == sort \in {"download", "upload"}

(* _effectiveOrder                                                         *)
EffectiveOrder(sort, order) ==
    IF order \in {"asc", "desc"} THEN order
    ELSE IF IsTransfer(sort) THEN "desc" ELSE "asc"

(* localeCompare of two texts, by their ranks                              *)
LocaleCompare(a, b) == CASE a < b -> -1
                         [] a > b -> 1
                         [] OTHER -> 0

(* mw6CompareIp                                                            *)
CompareIp(a, b) ==
    CASE a.value # None /\ b.value # None -> a.value - b.value
      [] a.value # None /\ b.value = None -> -1
      [] a.value = None /\ b.value # None -> 1
      [] OTHER -> LocaleCompare(a.text, b.text)

OrZero(bytes) == IF bytes = None THEN 0 ELSE bytes

CompareTransfer(a, b) == OrZero(a) - OrZero(b)

ByName(l, r) == LocaleCompare(l.name, r.name)

CompareBy(sort, l, r) ==
    LET first == CASE sort = "ip" -> CompareIp(l.ip, r.ip)
                   [] IsTransfer(sort) -> CompareTransfer(l.transfer, r.transfer)
                   [] OTHER -> ByName(l, r)
    IN IF first = 0 THEN ByName(l, r) ELSE first

Signed(n, order) == IF order = "desc" THEN -n ELSE n

(* mutated: only one side of an unknown transfer is looked at              *)
CompareOneSided(sort, order, l, r) ==
    IF IsTransfer(sort) /\ l.transfer = None /\ r.transfer # None THEN 1
    ELSE Signed(CompareBy(sort, l, r), EffectiveOrder(sort, order))

(* The comparator: a device with an unknown transfer comes after one whose *)
(* transfer is known, in either order.                                     *)
Compare(sort, order, l, r) ==
    IF IsTransfer(sort) /\ (l.transfer = None) # (r.transfer = None)
    THEN IF l.transfer = None THEN 1 ELSE -1
    ELSE Signed(CompareBy(sort, l, r), EffectiveOrder(sort, order))

=============================================================================
