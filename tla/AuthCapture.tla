----------------------------- MODULE AuthCapture -----------------------------
(***************************************************************************)
(* How tools/mw6_auth_extract.py and tools/mw6_probe.py find the account   *)
(* in a capture of the official app: they go through the frames of port    *)
(* 9000 in order, remember the payload of every LOGIN request by its       *)
(* transaction id, and stop at the first answer that reports success and   *)
(* has the id of a request.  Neither looks at the app's port, so           *)
(* connections are not told apart.                                         *)
(*                                                                         *)
(* The app numbers the requests of a connection from FirstTid on, as in    *)
(* docs/capture_2026-09-16_device_screen.md, and tries accounts one after  *)
(* another.  The account is None until an answer gives one.                *)
(***************************************************************************)
EXTENDS Integers, FiniteSets, Python

CONSTANTS Accounts,        \* what the app may log in with
          Accepted,        \* the accounts the router accepts
          Connections,
          MaxOpen,         \* connections the app has open at a time
          FirstTid, LastTid, \* the transaction ids, which wrap around
          MaxRequests      \* bound: requests of one connection

ASSUME CaptureParameters ==
    /\ Accepted \subseteq Accounts /\ None \notin Accounts
    /\ FirstTid \in Nat /\ LastTid \in Nat /\ FirstTid <= LastTid
    /\ MaxOpen \in Nat /\ MaxRequests \in Nat

VARIABLES sent,     \* the requests made on each open connection, -1 when not open
          pending,  \* the account of the LOGIN that is not answered yet
          captured, \* whether its request is a frame of its own in the capture
          requests, \* requests, or candidates: the account remembered for each id
          account,  \* what extract_successful_account returns
          matched   \* history: the answer it returned for is to a captured request

captureVars == <<sent, pending, captured, requests, account, matched>>

Tids == FirstTid .. LastTid

TidOf(n) == FirstTid + ((n - 1) % Cardinality(Tids))

Opened == {c \in Connections : sent[c] >= 0}

CaptureInit ==
    /\ sent = [c \in Connections |-> -1]
    /\ pending = [c \in Connections |-> None]
    /\ captured = [c \in Connections |-> FALSE]
    /\ requests = [t \in Tids |-> None]
    /\ account = None /\ matched = FALSE

-----------------------------------------------------------------------------
\* The app and the router

OpenConnection(c) ==
    /\ c \notin Opened /\ Cardinality(Opened) < MaxOpen
    /\ sent' = [sent EXCEPT ![c] = 0]
    /\ UNCHANGED <<pending, captured, requests, account, matched>>

\* A connection ends, also with its LOGIN unanswered.
CloseConnection(c) ==
    /\ c \in Opened
    /\ sent' = [sent EXCEPT ![c] = -1]
    /\ pending' = [pending EXCEPT ![c] = None]
    /\ UNCHANGED <<captured, requests, account, matched>>

\* A request that is not a LOGIN, whose answer no reader of the capture looks at.
OtherRequest(c) ==
    /\ c \in Opened /\ sent[c] < MaxRequests
    /\ sent' = [sent EXCEPT ![c] = @ + 1]
    /\ UNCHANGED <<pending, captured, requests, account, matched>>

-----------------------------------------------------------------------------
\* The readers

\* mutated: what is known of an id is kept
RememberFirst(tid, a) == [requests EXCEPT ![tid] = IF @ = None THEN a ELSE @]

Remember(tid, a) == [requests EXCEPT ![tid] = a]

\* The app logs in with a.
SendLogin(c, a) ==
    /\ c \in Opened /\ sent[c] < MaxRequests /\ pending[c] = None
    /\ sent' = [sent EXCEPT ![c] = @ + 1]
    /\ pending' = [pending EXCEPT ![c] = a]
    /\ UNCHANGED <<account, matched>>

\* Its request is a frame of its own in the capture.
LoginRequest(c, a) ==
    /\ SendLogin(c, a)
    /\ captured' = [captured EXCEPT ![c] = TRUE]
    /\ requests' = IF account = None THEN Remember(TidOf(sent'[c]), a) ELSE requests

\* Its request is missing from the capture, or split, or behind another frame in
\* one segment: parse_frame gives nothing of it.
RequestMissed(c, a) ==
    /\ SendLogin(c, a)
    /\ captured' = [captured EXCEPT ![c] = FALSE]
    /\ UNCHANGED requests

\* The answer: status zero when the router accepts the account.  The app makes no
\* other request until it has come.
LoginAnswer(c) ==
    /\ c \in Opened /\ pending[c] # None
    /\ pending' = [pending EXCEPT ![c] = None]
    /\ IF account = None /\ pending[c] \in Accepted
       THEN account' = requests[TidOf(sent[c])] /\ matched' = captured[c]
       ELSE UNCHANGED <<account, matched>>
    /\ UNCHANGED <<sent, captured, requests>>

\* An answer that the capture has lost, or that is no frame of its own in it.
AnswerMissed(c) ==
    /\ c \in Opened /\ pending[c] # None
    /\ pending' = [pending EXCEPT ![c] = None]
    /\ UNCHANGED <<sent, captured, requests, account, matched>>

CaptureNext ==
    \E c \in Connections :
        \/ OpenConnection(c)
        \/ CloseConnection(c)
        \/ pending[c] = None /\ OtherRequest(c)
        \/ \E a \in Accounts : LoginRequest(c, a) \/ RequestMissed(c, a)
        \/ LoginAnswer(c)
        \/ AnswerMissed(c)

CaptureSpec == CaptureInit /\ [][CaptureNext]_captureVars
-----------------------------------------------------------------------------
\* The account that is extracted is one the router accepted ("Successful MW6 LOGIN
\* found", mw6_auth_extract.py:124) if the LOGIN that was accepted is in the capture
\* as a frame of its own, whatever else of the capture is missing, and although the
\* app begins every session with an account the router rejects, under the same
\* transaction ids.  It is stated for captures whose connections follow each other.
\* Without that frame, or with connections that overlap, the id may lead to a LOGIN
\* that was rejected.
AccountWasAccepted == account # None /\ matched => account \in Accepted
=============================================================================
