---------------------------- MODULE RouterSession ----------------------------
(***************************************************************************)
(* TendaMW6Api.get_clients (api.py): one TCP connection, three requests,   *)
(* each answered by one frame, read from a byte stream that arrives in     *)
(* pieces of any size, late, cut short or not at all.                      *)
(*                                                                         *)
(* The stream is a sequence of cells.  A frame is HeaderCells cells and    *)
(* then its len payload cells; a cell stands for the bytes a receive       *)
(* cannot tell apart.                                                      *)
(***************************************************************************)
EXTENDS Integers, Sequences, SequencesExt

CONSTANTS
    None,
    Frames,      \* the frames the router may send
    HeaderCells, \* the 16 header bytes
    MaxNotices   \* bound: frames the router sends unasked in one session

ASSUME SessionParameters ==
    /\ HeaderCells \in Nat \ {0}
    /\ MaxNotices \in Nat
    /\ None \notin {"clients", "auth_error", "error", "os_error"}
    /\ \A f \in Frames :
          /\ f.magic \in BOOLEAN
          /\ f.kind \in {"resp", "other"}
          /\ f.what \in {"sta", "login", "hosts", "foreign"}
          /\ f.body \in {"ok", "refused", "short", "garbled"}
          /\ f.len \in Nat

VARIABLES
    pc,        \* where get_clients stands
    step,      \* which of the three requests
    header,    \* the frame whose header was read
    buf,       \* _recv_exact's data
    outcome,   \* what the call returned or raised
    records,   \* the payload the returned clients were decoded from
    requests,  \* router: the requests it was sent
    answered,  \* router: how many of them it has answered
    notices,   \* router: how many frames it sent unasked
    closed,    \* router: it closed the connection
    accepted,  \* router: it accepted the login of this connection
    flight,    \* cells the router sent and the network has not delivered
    inbound    \* cells delivered and not yet received

client == <<pc, step, header, buf, outcome, records>>
router == <<answered, notices, closed, accepted>>
vars == <<client, requests, router, flight, inbound>>

-----------------------------------------------------------------------------
Request == <<"sta", "login", "hosts">>

Cells(f) == [i \in 1 .. HeaderCells + f.len |-> [frame |-> f, pos |-> i]]

PayloadOf(f) == SubSeq(Cells(f), HeaderCells + 1, HeaderCells + f.len)

(* The size of the read in progress: _recv_exact(sock, 16), or the         *)
(* payload length of the header.                                           *)
Size == IF pc = "header" THEN HeaderCells ELSE header.len

Reading == pc \in {"header", "body"}

(* mutated: one receive is taken for the whole read                        *)
AnyReadIsFull == Reading /\ (buf # <<>> \/ Size = 0)

(* _recv_exact returns                                                     *)
ReadIsFull == Reading /\ Len(buf) = Size

Init ==
    /\ pc = "idle" /\ step = 1 /\ header = None /\ buf = <<>>
    /\ outcome = None /\ records = <<>>
    /\ requests = <<>> /\ answered = 0 /\ notices = 0
    /\ closed = FALSE /\ accepted = FALSE
    /\ flight = <<>> /\ inbound = <<>>

-----------------------------------------------------------------------------
(* get_clients                                                             *)

(* Leaving the with block closes the socket.                               *)
End(o) ==
    /\ pc' = "done"
    /\ outcome' = o
    /\ UNCHANGED <<step, header, buf>>

Fail(o) == End(o) /\ UNCHANGED records

BeginPoll ==
    /\ pc = "idle"
    /\ pc' = "connect"
    /\ UNCHANGED <<step, header, buf, outcome, records, requests, router, flight, inbound>>

Connect ==
    /\ pc = "connect"
    /\ pc' = "send"
    /\ UNCHANGED <<step, header, buf, outcome, records, requests, router, flight, inbound>>

ConnectFails ==
    /\ pc = "connect"
    /\ Fail("os_error")
    /\ UNCHANGED <<requests, router, flight, inbound>>

(* sendall(_build_request(...)), then _recv_frame                          *)
SendRequest ==
    /\ pc = "send"
    /\ ~closed
    /\ requests' = Append(requests, Request[step])
    /\ pc' = "header"
    /\ buf' = <<>>
    /\ UNCHANGED <<step, header, outcome, records, router, flight, inbound>>

SendFails ==
    /\ pc = "send"
    /\ closed
    /\ Fail("os_error")
    /\ UNCHANGED <<requests, router, flight, inbound>>

(* sock.recv(size - len(data)) returns between one cell and what is asked  *)
Receive ==
    /\ Reading
    /\ ~ReadIsFull
    /\ inbound # <<>>
    /\ \E n \in 1 .. Len(inbound) :
          /\ n <= Size - Len(buf)
          /\ buf' = buf \o SubSeq(inbound, 1, n)
          /\ inbound' = SubSeq(inbound, n + 1, Len(inbound))
    /\ UNCHANGED <<pc, step, header, outcome, records, requests, router, flight>>

ReceiveEnd ==
    /\ Reading
    /\ ~ReadIsFull
    /\ inbound = <<>> /\ flight = <<>>
    /\ closed
    /\ Fail("error")
    /\ UNCHANGED <<requests, router, flight, inbound>>

(* mutated: the connection is left without a receive timeout               *)
NeverTimesOut == FALSE /\ UNCHANGED vars

ReceiveTimesOut ==
    /\ Reading
    /\ ~ReadIsFull
    /\ inbound = <<>>
    /\ Fail("os_error")
    /\ UNCHANGED <<requests, router, flight, inbound>>

(* _recv_frame: the magic is checked before the payload is read            *)
ReadHeader ==
    /\ pc = "header"
    /\ ReadIsFull
    /\ IF buf[1].pos = 1 /\ buf[1].frame.magic
       THEN /\ pc' = "body"
            /\ header' = buf[1].frame
            /\ buf' = <<>>
            /\ UNCHANGED <<step, outcome, records>>
       ELSE Fail("error")
    /\ UNCHANGED <<requests, router, flight, inbound>>

(* mutated: only the kind of the answer is checked                         *)
ExpectAnyResponse(f) == f.kind = "resp"

(* _expect_response                                                        *)
ExpectResponse(f) == f.kind = "resp" /\ f.what = Request[step]

Proceed ==
    /\ pc' = "send"
    /\ step' = step + 1
    /\ UNCHANGED <<header, buf, outcome, records>>

Return ==
    /\ End("clients")
    /\ records' = buf

(* mutated: the status of the login answer is not looked at                *)
UseAnyAnswer(f) ==
    \/ step = 1 /\ Proceed
    \/ step = 2 /\ f.body = "short" /\ Fail("error")
    \/ step = 2 /\ f.body # "short" /\ Proceed
    \/ step = 3 /\ f.body = "ok" /\ Return
    \/ step = 3 /\ f.body # "ok" /\ Fail("error")

(* mutated: the last answer is followed by another request too             *)
UseEveryAnswer(f) == IF f.body = "ok" THEN Proceed ELSE Fail("error")

(* What get_clients does with the answer it expected: GET_STA's payload is *)
(* ignored, a login's status decides, a host list's too, once it decodes.  *)
UseAnswer(f) ==
    \/ step = 1 /\ Proceed
    \/ step = 2 /\ f.body = "short" /\ Fail("error")
    \/ step = 2 /\ f.body = "refused" /\ Fail("auth_error")
    \/ step = 2 /\ f.body \in {"ok", "garbled"} /\ Proceed
    \/ step = 3 /\ f.body = "ok" /\ Return
    \/ step = 3 /\ f.body # "ok" /\ Fail("error")

ReadBody ==
    /\ pc = "body"
    /\ ReadIsFull
    /\ IF ExpectResponse(header) THEN UseAnswer(header) ELSE Fail("error")
    /\ UNCHANGED <<requests, router, flight, inbound>>

(* The next poll opens a connection of its own.                            *)
NextPoll ==
    /\ pc = "done"
    /\ pc' = "idle" /\ step' = 1 /\ header' = None /\ buf' = <<>>
    /\ outcome' = None /\ records' = <<>>
    /\ requests' = <<>> /\ answered' = 0 /\ notices' = 0
    /\ closed' = FALSE /\ accepted' = FALSE
    /\ flight' = <<>> /\ inbound' = <<>>

-----------------------------------------------------------------------------
(* The router and the network                                              *)

Live == pc \notin {"idle", "connect", "done"}

(* The router answers requests in order.  It may answer with a frame of    *)
(* another command, but sends the answer of a command only when asked.     *)
Answer(f) ==
    /\ Live /\ ~closed
    /\ answered < Len(requests)
    /\ f.kind = "resp"
    /\ f.what \in {requests[answered + 1], "foreign"}
    /\ answered' = answered + 1
    /\ accepted' = (accepted \/ (f.what = "login" /\ f.body \in {"ok", "garbled"}))
    /\ flight' = flight \o Cells(f)
    /\ UNCHANGED <<client, requests, notices, closed, inbound>>

Notify(f) ==
    /\ Live /\ ~closed
    /\ notices < MaxNotices
    /\ f.kind = "other"
    /\ notices' = notices + 1
    /\ flight' = flight \o Cells(f)
    /\ UNCHANGED <<client, requests, answered, closed, accepted, inbound>>

(* A close or a reset; what was in flight may be lost from any cell on.    *)
RouterCloses ==
    /\ Live /\ ~closed
    /\ closed' = TRUE
    /\ \E n \in 0 .. Len(flight) : flight' = SubSeq(flight, 1, n)
    /\ UNCHANGED <<client, requests, answered, notices, accepted, inbound>>

Deliver ==
    /\ Live
    /\ flight # <<>>
    /\ \E n \in 1 .. Len(flight) :
          /\ inbound' = inbound \o SubSeq(flight, 1, n)
          /\ flight' = SubSeq(flight, n + 1, Len(flight))
    /\ UNCHANGED <<client, requests, router>>

-----------------------------------------------------------------------------
GetClients ==
    \/ Connect \/ ConnectFails
    \/ SendRequest \/ SendFails
    \/ Receive \/ ReceiveEnd \/ ReceiveTimesOut
    \/ ReadHeader \/ ReadBody

Next ==
    \/ BeginPoll
    \/ GetClients
    \/ NextPoll
    \/ \E f \in Frames : Answer(f)
    \/ \E f \in Frames : Notify(f)
    \/ RouterCloses
    \/ Deliver

(* Every blocking call of get_clients has a timeout, so its next step      *)
(* always comes; the router and the network owe nothing.                   *)
Spec == Init /\ [][Next]_vars /\ WF_vars(GetClients)

-----------------------------------------------------------------------------
CellSet == UNION {{Cells(f)[i] : i \in DOMAIN Cells(f)} : f \in Frames}

(* The type invariant of the session.                                      *)
TypeOK ==
    /\ pc \in {"idle", "connect", "send", "header", "body", "done"}
    /\ step \in 1 .. 3
    /\ header \in Frames \cup {None}
    /\ buf \in Seq(CellSet)
    /\ outcome \in {None, "clients", "auth_error", "error", "os_error"}
    /\ records \in Seq(CellSet)
    /\ requests \in Seq({"sta", "login", "hosts"})
    /\ answered \in 0 .. 3
    /\ notices \in 0 .. MaxNotices
    /\ closed \in BOOLEAN /\ accepted \in BOOLEAN
    /\ flight \in Seq(CellSet) /\ inbound \in Seq(CellSet)

(* However the stream is cut into pieces, a new frame is read from its     *)
(* first byte: whatever _recv_exact has consumed ends where a frame ends.  *)
Aligned ==
    LET unread == buf \o inbound \o flight IN
    pc = "header" /\ unread # <<>> => unread[1].pos = 1

(* The host list is asked for, with MESH_HOSTS_GET, only on a connection   *)
(* whose login the router has accepted.                                    *)
HostsAskedAfterLogin ==
    Contains(requests, "hosts") => accepted

(* The returned clients are decoded from one whole host-list payload, not  *)
(* from a piece of it or from the bytes of another frame.                  *)
WholeAnswer ==
    outcome = "clients" =>
        \E f \in Frames :
            f.what = "hosts" /\ f.body = "ok" /\ records = PayloadOf(f)

(* The session implements the poll its callers rely on: it ends whatever   *)
(* the router does, and its outcome tells a refused account from a failure *)
(* (config_flow.py:55 and coordinator.py:45 branch on exactly that).       *)
Poll == INSTANCE HostPoll WITH
    phase <- IF pc \in {"idle", "done"} THEN pc ELSE "running",
    granted <- accepted

ImplementsPoll == Poll!Spec

=============================================================================
