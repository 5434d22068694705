------------------------------ MODULE ProtoWire ------------------------------
(***************************************************************************)
(* The three readers of a host list payload: _decode_mesh_hosts of api.py, *)
(* decode_mesh_hosts of tools/mw6_probe.py and decode_host_lists of        *)
(* tools/mw6_hostinfo.py.  A payload is four bytes of status and then a    *)
(* protobuf message, whose field 1 is repeated and holds one client.       *)
(*                                                                         *)
(* A byte is a number below 2 * Base, with Base = 128.  A text is the      *)
(* sequence of its bytes, ASCII or malformed.  The widths are scaled:      *)
(* Word stands for 2^64, HalfWord for 2^32, MaxDigits for the ten groups   *)
(* of seven bits in which 64 bits are sent.                                *)
(***************************************************************************)
EXTENDS Integers, Sequences, SequencesExt, Python

CONSTANTS Error,      \* a reader raised
          Base, MaxDigits, Word, HalfWord,
          Hosts,      \* the clients a list may hold, each with fields that none of
                      \* the readers knows
          MaxListed   \* bound: clients in one list

VARIABLES list, \* what the router put in the list
          cut   \* how many bytes of the payload there are

wireVars == <<list, cut>>

Readers == {"api", "probe", "hostinfo"}

FieldNo == [ip |-> 1, mac |-> 2, access |-> 3, node |-> 4, condition_time |-> 5, online |-> 6,
            uprate |-> 7, downrate |-> 8, signal |-> 9, name |-> 10]

TextFields == {"ip", "mac", "access", "node", "name"}

-----------------------------------------------------------------------------
\* The router, as protobuf-c packs a message: field by field, in the order of their
\* numbers.  Negative numbers fill a word.

\* How many numbers have at most MaxDigits groups of seven bits.
Capacity ==
    LET upTo[k \in 0 .. MaxDigits] == IF k = 0 THEN 1 ELSE Base * upTo[k - 1]
    IN  upTo[MaxDigits]

EncodeVarint(n) ==
    LET groups[k \in 0 .. n] ==
            IF k < Base THEN <<k>> ELSE <<Base + (k % Base)>> \o groups[k \div Base]
    IN  groups[n]

EncodeValue(field) ==
    CASE field.wire = 0 -> EncodeVarint(field.value)
      [] field.wire = 2 -> EncodeVarint(Len(field.value)) \o field.value
      [] OTHER          -> field.value

EncodeField(field) == EncodeVarint(8 * field.no + field.wire) \o EncodeValue(field)

EncodeFields(fields) == FlattenSeq([i \in DOMAIN fields |-> EncodeField(fields[i])])

\* A known field of a client, if it has it.
FieldOf(host, f) ==
    IF host[f] = None THEN <<>>
    ELSE IF f \in TextFields THEN <<[no |-> FieldNo[f], wire |-> 2, value |-> host[f]]>>
    ELSE <<[no |-> FieldNo[f], wire |-> 0, value |-> host[f] % Word]>>

FieldsOf(host) ==
    LET Named(no) == CHOOSE f \in DOMAIN FieldNo : FieldNo[f] = no
    IN  FlattenSeq([no \in 1 .. 10 |-> FieldOf(host, Named(no))]) \o host.unknown

HostFields(clients) ==
    [i \in DOMAIN clients |->
        [no |-> 1, wire |-> 2, value |-> EncodeFields(FieldsOf(clients[i]))]]

EncodeHosts(clients) == <<0, 0, 0, 0>> \o EncodeFields(HostFields(clients))

Bytes == 0 .. 2 * Base - 1

\* What a reader makes of a payload.
Values == Nat \cup Seq(Nat)

Field == [no : Nat, wire : Nat, value : Values]

Records == [DOMAIN FieldNo -> Int \cup Seq(Nat) \cup {None}]

\* The fields there are: a number and what its wire type carries.
Sendable(field) ==
    /\ field = [no |-> field.no, wire |-> field.wire, value |-> field.value]
    /\ field.no \in Nat \ {0} /\ 8 * field.no + 7 < Word
    /\ \/ field.wire = 0 /\ field.value \in 0 .. Word - 1
       \/ field.wire = 1 /\ field.value \in Seq(Bytes) /\ Len(field.value) = 8
       \/ field.wire = 2 /\ field.value \in Seq(Bytes) /\ Len(field.value) < Word
       \/ field.wire = 5 /\ field.value \in Seq(Bytes) /\ Len(field.value) = 4

\* Texts are ASCII and, as strings of C are, without a zero; numbers are not negative
\* but for the signal.
WellFormedHost(host) ==
    /\ \A f \in TextFields :
          host[f] # None => host[f] \in Seq(1 .. Base - 1) /\ Len(host[f]) < Word
    /\ \A f \in DOMAIN FieldNo \ (TextFields \cup {"signal"}) :
          host[f] # None => host[f] \in 0 .. Word - 1
    /\ host.signal # None => host.signal \in -(HalfWord \div 2) .. (HalfWord \div 2) - 1
    /\ Len(host.unknown) \in Nat
    /\ host.unknown = [i \in 1 .. Len(host.unknown) |-> host.unknown[i]]
    /\ \A i \in DOMAIN host.unknown :
          Sendable(host.unknown[i]) /\ host.unknown[i].no > 10
    /\ Len(EncodeFields(FieldsOf(host))) < Word

ASSUME WireParameters ==
    /\ Base = 128 /\ MaxDigits \in Nat \ {0} /\ MaxListed \in Nat
    /\ Word \in Nat /\ Base <= Word /\ Word <= Capacity
    /\ HalfWord \in Nat \ {0} /\ HalfWord % 2 = 0 /\ Word % HalfWord = 0
    /\ None \notin Int \cup Seq(Nat)
    /\ Error \notin [value : Values, next : Nat]
    /\ Error \notin [no : Nat, wire : Nat, value : Values, next : Nat]
    /\ Error \notin Seq(Field) \cup Records
    /\ \A host \in Hosts : WellFormedHost(host)

-----------------------------------------------------------------------------
\* Fields

\* What the varint at a position stands for: seven bits of each byte, the lowest
\* first, up to the first byte below Base.
VarintAt(buf) ==
    LET value[p \in 1 .. Len(buf) + 1] ==
            IF p > Len(buf) THEN 0
            ELSE IF buf[p] < Base THEN buf[p]
            ELSE (buf[p] - Base) + Base * value[p + 1]
    IN  value

\* It has to end soon enough.
ReadVarint(buf, pos) ==
    LET ends == {p \in pos .. Min({pos + MaxDigits - 1, Len(buf)}) : buf[p] < Base}
    IN  IF ends = {} THEN Error
        ELSE [value |-> VarintAt(buf)[pos], next |-> Min(ends) + 1]

\* buf[pos:pos+n], which Python ends with the buffer
Taken(buf, pos, n) ==
    [value |-> SubSeq(buf, pos, Min({pos + n - 1, Len(buf)})), next |-> pos + n]

\* mutated: what is there of a field is taken for all of it
SliceAnything(reader, buf, pos, n) == Taken(buf, pos, n)

\* n bytes from pos.  The probe does not look whether they are there.
Slice(reader, buf, pos, n) ==
    IF pos + n - 1 > Len(buf) /\ reader # "probe" THEN Error ELSE Taken(buf, pos, n)

\* The bytes a length announces.
LengthDelimited(reader, buf, length) ==
    IF length = Error THEN Error ELSE Slice(reader, buf, length.next, length.value)

Body(reader, buf, wire, pos) ==
    CASE wire = 0 -> ReadVarint(buf, pos)
      [] wire = 1 -> Slice(reader, buf, pos, 8)
      [] wire = 2 -> LengthDelimited(reader, buf, ReadVarint(buf, pos))
      [] wire = 5 -> Slice(reader, buf, pos, 4)
      [] OTHER    -> Error

\* One field: its number, wire type and value, and where the next one begins.  The
\* value of a fixed-width field is left as bytes: the readers know no such field.
ReadField(reader, buf, key) ==
    LET wire == key.value % 8
        Holding(body) ==
            IF body = Error THEN Error
            ELSE [no |-> key.value \div 8, wire |-> wire, value |-> body.value,
                  next |-> body.next]
    IN  IF key = Error \/ (reader = "hostinfo" /\ key.value \div 8 = 0) THEN Error
        ELSE Holding(Body(reader, buf, wire, key.next))

\* One round of the loop over the buffer; at its end nothing more happens.
NextField(reader, buf, s) ==
    LET field == ReadField(reader, buf, ReadVarint(buf, s.pos)) IN
    IF s.pos > Len(buf) THEN s
    ELSE IF field = Error THEN [pos |-> Len(buf) + 1, fields |-> Error]
    ELSE [pos    |-> field.next,
          fields |-> Append(s.fields, [no |-> field.no, wire |-> field.wire,
                                       value |-> field.value])]

\* A field has a byte at least, so there are no more rounds than bytes.
FieldRounds(reader, buf) ==
    LET after[n \in 0 .. Len(buf)] ==
            IF n = 0 THEN [pos |-> 1, fields |-> <<>>]
            ELSE NextField(reader, buf, after[n - 1])
    IN  after

ProtobufFields(reader, buf) == FieldRounds(reader, buf)[Len(buf)].fields

-----------------------------------------------------------------------------
\* Records

\* mutated: the largest negative number is missed
SignedBelow(n, width) == IF n > width \div 2 THEN n - width ELSE n

Signed(n, width) == IF n >= width \div 2 THEN n - width ELSE n

\* rstrip("\x00")
Stripped(text) == SubSeq(text, 1, Max({0} \cup {i \in DOMAIN text : text[i] # 0}))

\* hex() writes two digits for each byte; hostinfo replaces what it cannot decode.
AsText(reader, bytes) ==
    LET text ==
            IF \A i \in DOMAIN bytes : bytes[i] < Base THEN bytes
            ELSE IF reader = "hostinfo"
                 THEN [i \in DOMAIN bytes |-> IF bytes[i] < Base THEN bytes[i] ELSE 65533]
                 ELSE FlattenSeq([i \in DOMAIN bytes |-> <<bytes[i] \div 16, bytes[i] % 16>>])
    IN  IF reader = "hostinfo" THEN Stripped(text) ELSE text

\* What is at some places of a sequence, in order.
At(s, places) == FlattenSeq([i \in DOMAIN s |-> IF i \in places THEN <<s[i]>> ELSE <<>>])

\* raw.get(no): the last field of that number counts.
Raw(reader, fields, f) ==
    LET of == {i \in DOMAIN fields : fields[i].no = FieldNo[f] /\ fields[i].wire \in {0, 2}}
        field == fields[Max(of)]
    IN  IF of = {} THEN None
        ELSE IF field.wire = 2 THEN AsText(reader, field.value)
        ELSE IF f # "signal" THEN field.value
        ELSE IF reader = "hostinfo" THEN Signed(field.value % HalfWord, HalfWord)
        ELSE Signed(field.value, Word)

\* An absent text is "", except to hostinfo, and an absent access None to all.
Defaulted(reader, f) ==
    IF reader # "hostinfo" /\ f \in TextFields \ {"access"} THEN <<>> ELSE None

Record(reader, fields) ==
    [f \in DOMAIN FieldNo |->
        IF Raw(reader, fields, f) = None THEN Defaulted(reader, f) ELSE Raw(reader, fields, f)]

\* hostinfo skips a record it cannot read, and one with neither address.
Addressed(client) == client.ip \notin {None, <<>>} \/ client.mac \notin {None, <<>>}

DecodeRecord(reader, fields) == IF fields = Error THEN Error ELSE Record(reader, fields)

DecodeRecords(reader, messages) ==
    LET Kept(records) ==
            IF reader = "hostinfo"
            THEN At(records, {i \in DOMAIN records : records[i] # Error /\ Addressed(records[i])})
            ELSE IF Contains(records, Error) THEN Error ELSE records
    IN  Kept([i \in DOMAIN messages |->
                 DecodeRecord(reader, ProtobufFields(reader, messages[i].value))])

\* The embedded messages at some places.
Messages(fields, places) == At(fields, {i \in places : fields[i].wire = 2})

\* Only hostinfo, when field 1 gives it nothing, takes the records of any other field.
DecodeLists(reader, fields) ==
    LET ones == {i \in DOMAIN fields : fields[i].no = 1}
        Listed(places) == DecodeRecords(reader, Messages(fields, places))
    IN  IF reader = "hostinfo" /\ Listed(ones) = <<>> THEN Listed(DOMAIN fields \ ones)
        ELSE Listed(ones)

\* The clients of a payload, whose status hostinfo is not given.
DecodeHosts(reader, payload) ==
    LET Clients(fields) == IF fields = Error THEN Error ELSE DecodeLists(reader, fields)
    IN  IF Len(payload) < 4 /\ reader # "hostinfo" THEN Error
        ELSE Clients(ProtobufFields(reader, SubSeq(payload, 5, Len(payload))))

\* A payload is there, and is read.
WireInit ==
    /\ list \in SeqOf(Hosts, MaxListed)
    /\ cut \in 0 .. Len(EncodeHosts(list))

WireSpec == WireInit /\ [][UNCHANGED wireVars]_wireVars

-----------------------------------------------------------------------------
Sent == EncodeHosts(list)

\* The client a reader should make of one.
Shown(reader, host) ==
    [f \in DOMAIN FieldNo |-> IF host[f] = None THEN Defaulted(reader, f) ELSE host[f]]

\* The clients a reader should make of a list.
Expected(reader, clients) ==
    LET shown == [i \in DOMAIN clients |-> Shown(reader, clients[i])]
    IN  IF reader = "hostinfo"
        THEN At(shown, {i \in DOMAIN shown : Addressed(shown[i])})
        ELSE shown

\* The signal is signed, and of the three readers two widen it to a word and one
\* cuts it to half of one; fields no reader knows stand between those it does.
\* Each gets back the clients the router listed (api.py:303-333).
EncodedHostsAreDecoded ==
    cut = Len(Sent) => \A reader \in Readers : DecodeHosts(reader, Sent) = Expected(reader, list)

\* Of a list that was cut short, wherever that is, no client is shown with a part
\* of its fields (api.py:272, mw6_hostinfo.py:76): a reader raises, or what it
\* returns is the beginning of the list.
TruncationIsNoticed ==
    \A reader \in {"api", "hostinfo"} :
        LET Noticed(read) == read = Error \/ IsPrefix(read, Expected(reader, list))
        IN  Noticed(DecodeHosts(reader, SubSeq(Sent, 1, cut)))
=============================================================================
