------------------------- MODULE RouterSessionProofs -------------------------
(***************************************************************************)
(* Proofs about RouterSession, for any set of frames, any header size and  *)
(* any number of unasked frames.  The argument is about Unread, the cells  *)
(* the router has sent and get_clients has not used: receiving and         *)
(* delivering leave it alone, reading a header or a payload drops its      *)
(* first frame's cells, and the router appends whole frames to it or, once *)
(* and for good, cuts it short.                                            *)
(***************************************************************************)
EXTENDS RouterSession, SequenceTheorems, TLAPS

-----------------------------------------------------------------------------
(* Streams of cells                                                        *)

Unread == (IF Reading THEN buf ELSE <<>>) \o (inbound \o flight)

(* The cells from a frame's first one on are that frame's, as far as the   *)
(* stream goes, and where it ends another begins.                          *)
Framed(s) ==
    \A i \in 1 .. Len(s) : s[i].pos = 1 =>
        /\ \A k \in i .. Len(s) :
              k < i + HeaderCells + s[i].frame.len =>
                  s[k] = [frame |-> s[i].frame, pos |-> k - i + 1]
        /\ i + HeaderCells + s[i].frame.len <= Len(s) =>
              s[i + HeaderCells + s[i].frame.len].pos = 1

(* No frame that begins in the stream is cut off by its end.               *)
Whole(s) ==
    \A i \in 1 .. Len(s) :
        s[i].pos = 1 => i + HeaderCells + s[i].frame.len <= Len(s) + 1

(* The stream goes on with the payload of f, and then with a frame.        *)
GoesOnWith(s, f) ==
    /\ \A k \in 1 .. Len(s) :
          k <= f.len => s[k] = [frame |-> f, pos |-> HeaderCells + k]
    /\ f.len < Len(s) => s[f.len + 1].pos = 1

StartsFrame(s) == s # <<>> => s[1].pos = 1

Suffix(s, n) == SubSeq(s, n + 1, Len(s))

-----------------------------------------------------------------------------
(* The inductive invariant                                                 *)

Connected == pc \in {"send", "header", "body"}

(* The requests are sent in their order, one to a step, and answered only  *)
(* after they were sent.                                                   *)
RequestsFollowSteps ==
    /\ \A i \in 1 .. Len(requests) : requests[i] = Request[i]
    /\ Len(requests) <= step
    /\ answered <= Len(requests)
    /\ pc \in {"idle", "connect"} =>
          step = 1 /\ Len(requests) = 0 /\ inbound = <<>> /\ flight = <<>>
    /\ pc = "send" => Len(requests) = step - 1
    /\ Reading => Len(requests) = step

(* A login answer was sent by a router that was asked for it, and says     *)
(* whether it accepted the login.                                          *)
TellsLogin(f, n, a) ==
    f.kind = "resp" /\ f.what = "login" =>
        n >= 2 /\ (a <=> f.body \in {"ok", "garbled"})

LoginIsTold ==
    /\ answered < 2 => ~accepted
    /\ step = 3 => accepted
    /\ Connected => \A i \in 1 .. Len(Unread) : TellsLogin(Unread[i].frame, answered, accepted)
    /\ pc = "body" => header \in Frames /\ TellsLogin(header, answered, accepted)

(* The stream is framed, whole as long as the connection is, and stands    *)
(* at the beginning of a frame or of the payload of the header just read.  *)
StreamIsFramed ==
    Connected =>
        /\ Framed(Unread)
        /\ ~closed => Whole(Unread)
        /\ pc # "body" => StartsFrame(Unread)
        /\ pc = "body" =>
              /\ header \in Frames
              /\ GoesOnWith(Unread, header)
              /\ ~closed => header.len <= Len(Unread)

OutcomeAtEnd == pc # "done" => outcome = None

SessionInvariant ==
    /\ TypeOK
    /\ RequestsFollowSteps
    /\ LoginIsTold
    /\ StreamIsFramed
    /\ OutcomeAtEnd
    /\ WholeAnswer

-----------------------------------------------------------------------------
(* Cells and streams                                                       *)

(* A frame's cells, one by one.                                            *)
LEMMA CellsOfFrame ==
    ASSUME NEW f \in Frames
    PROVE  /\ f.len \in Nat /\ HeaderCells \in Nat \ {0}
           /\ Cells(f) \in Seq(CellSet)
           /\ Len(Cells(f)) = HeaderCells + f.len
           /\ \A i \in 1 .. HeaderCells + f.len :
                 Cells(f)[i] = [frame |-> f, pos |-> i]
<1>1. f.len \in Nat /\ HeaderCells \in Nat \ {0}
  BY SessionParameters
<1>2. DOMAIN Cells(f) = 1 .. HeaderCells + f.len
  BY <1>1 DEF Cells
<1>3. \A i \in 1 .. HeaderCells + f.len : Cells(f)[i] = [frame |-> f, pos |-> i]
  BY <1>1 DEF Cells
<1>4. \A i \in 1 .. HeaderCells + f.len : Cells(f)[i] \in CellSet
  <2> DEFINE own(g) == {Cells(g)[i] : i \in DOMAIN Cells(g)}
  <2>1. \A i \in DOMAIN Cells(f) : Cells(f)[i] \in own(f)
    OBVIOUS
  <2>2. own(f) \subseteq UNION {own(g) : g \in Frames}
    <3> HIDE DEF own
    <3> QED OBVIOUS
  <2> QED
    BY <1>2, <2>1, <2>2 DEF CellSet
<1>5. Cells(f) \in [1 .. HeaderCells + f.len -> CellSet]
  BY <1>4 DEF Cells
<1>6. HeaderCells + f.len \in Nat
  BY <1>1
<1>7. Cells(f) \in Seq(CellSet)
  BY <1>5, <1>6, SeqDef
<1> QED
  BY <1>1, <1>2, <1>3, <1>6, <1>7, LenProperties

(* What a cell of the stream is.                                           *)
LEMMA CellType ==
    ASSUME NEW c \in CellSet
    PROVE  /\ c.frame \in Frames
           /\ c.pos \in 1 .. HeaderCells + c.frame.len
           /\ c = [frame |-> c.frame, pos |-> c.pos]
           /\ c.frame.len \in Nat
<1>1. PICK f \in Frames : \E i \in DOMAIN Cells(f) : c = Cells(f)[i]
  BY DEF CellSet
<1>2. PICK i \in 1 .. HeaderCells + f.len : c = [frame |-> f, pos |-> i]
  <2>1. /\ DOMAIN Cells(f) = 1 .. HeaderCells + f.len
        /\ \A j \in 1 .. HeaderCells + f.len : Cells(f)[j] = [frame |-> f, pos |-> j]
    BY CellsOfFrame, LenProperties
  <2>2. PICK j \in DOMAIN Cells(f) : c = Cells(f)[j]
    BY <1>1
  <2> QED BY <2>1, <2>2
<1> QED
  BY <1>2, CellsOfFrame

(* The cells before the n-th: framed as before.                            *)
LEMMA PrefixFramed ==
    ASSUME NEW s \in Seq(CellSet), NEW n \in 0 .. Len(s)
    PROVE  LET t == SubSeq(s, 1, n) IN
           /\ t \in Seq(CellSet) /\ Len(t) = n
           /\ \A i \in 1 .. n : t[i] = s[i]
           /\ Framed(s) => Framed(t)
           /\ StartsFrame(s) => StartsFrame(t)
           /\ \A f \in Frames : GoesOnWith(s, f) => GoesOnWith(t, f)
<1> DEFINE t == SubSeq(s, 1, n)
<1>0. Len(s) \in Nat /\ \A i \in 1 .. Len(s) : s[i] \in CellSet
  BY LenProperties, ElementOfSeq
<1>1. t \in Seq(CellSet) /\ Len(t) = n /\ \A i \in 1 .. n : t[i] = s[i]
  BY <1>0, SubSeqProperties
<1> HIDE DEF t
<1>2. ASSUME Framed(s) PROVE Framed(t)
  <2> SUFFICES ASSUME NEW i \in 1 .. Len(t), t[i].pos = 1
               PROVE  /\ \A k \in i .. Len(t) :
                            k < i + HeaderCells + t[i].frame.len =>
                                t[k] = [frame |-> t[i].frame, pos |-> k - i + 1]
                      /\ i + HeaderCells + t[i].frame.len <= Len(t) =>
                            t[i + HeaderCells + t[i].frame.len].pos = 1
    BY DEF Framed
  <2>1. i \in 1 .. Len(s) /\ t[i] = s[i] /\ t[i] \in CellSet
    BY <1>0, <1>1
  <2>2. t[i].frame.len \in Nat /\ HeaderCells \in Nat \ {0}
    BY <2>1, CellType, SessionParameters
  <2>3. ASSUME NEW k \in i .. Len(t), k < i + HeaderCells + t[i].frame.len
        PROVE  t[k] = [frame |-> t[i].frame, pos |-> k - i + 1]
    <3>1. k \in i .. Len(s) /\ k \in 1 .. n
      BY <1>0, <1>1, <2>1
    <3>2. s[k] = [frame |-> s[i].frame, pos |-> k - i + 1]
      BY <3>1, <2>1, <2>3, <1>2 DEF Framed
    <3> QED BY <3>1, <3>2, <2>1, <1>1
  <2>4. ASSUME i + HeaderCells + t[i].frame.len <= Len(t)
        PROVE  t[i + HeaderCells + t[i].frame.len].pos = 1
    <3> DEFINE e == i + HeaderCells + t[i].frame.len
    <3>1. e \in 1 .. n /\ e <= Len(s)
      BY <1>0, <1>1, <2>1, <2>2, <2>4
    <3>2. s[e].pos = 1
      BY <3>1, <2>1, <1>2 DEF Framed
    <3> QED BY <3>1, <3>2, <1>1
  <2> QED
    BY <2>3, <2>4
<1>3. StartsFrame(s) => StartsFrame(t)
  <2>1. t # <<>> => n >= 1
    BY <1>1, EmptySeq
  <2>2. t # <<>> => s # <<>>
    BY <2>1, <1>0, EmptySeq
  <2> QED
    BY <2>1, <2>2, <1>1 DEF StartsFrame
<1>4. \A f \in Frames : GoesOnWith(s, f) => GoesOnWith(t, f)
  <2> SUFFICES ASSUME NEW f \in Frames, GoesOnWith(s, f)
               PROVE  GoesOnWith(t, f)
    OBVIOUS
  <2>0. f.len \in Nat
    BY CellsOfFrame
  <2>1. ASSUME NEW k \in 1 .. Len(t), k <= f.len
        PROVE  t[k] = [frame |-> f, pos |-> HeaderCells + k]
    <3>1. k \in 1 .. Len(s) /\ k \in 1 .. n
      BY <1>0, <1>1
    <3> QED BY <3>1, <2>1, <1>1 DEF GoesOnWith
  <2>2. ASSUME f.len < Len(t)
        PROVE  t[f.len + 1].pos = 1
    <3>1. f.len < Len(s) /\ f.len + 1 \in 1 .. n
      BY <1>0, <1>1, <2>0, <2>2
    <3> QED BY <3>1, <1>1 DEF GoesOnWith
  <2> QED BY <2>1, <2>2 DEF GoesOnWith
<1> QED
  BY <1>1, <1>2, <1>3, <1>4 DEF t

(* The cells after the n-th: framed as before, and as whole as before.     *)
LEMMA SuffixFramed ==
    ASSUME NEW s \in Seq(CellSet), NEW n \in 0 .. Len(s)
    PROVE  /\ Suffix(s, n) \in Seq(CellSet) /\ Len(Suffix(s, n)) = Len(s) - n
           /\ \A i \in 1 .. Len(s) - n : Suffix(s, n)[i] = s[n + i]
           /\ Framed(s) => Framed(Suffix(s, n))
           /\ Whole(s) => Whole(Suffix(s, n))
<1> DEFINE t == Suffix(s, n)
<1>0. Len(s) \in Nat /\ \A i \in 1 .. Len(s) : s[i] \in CellSet
  BY LenProperties, ElementOfSeq
<1>1. /\ t \in Seq(CellSet) /\ Len(t) = Len(s) - n
      /\ \A i \in 1 .. Len(s) - n : t[i] = s[n + i]
  <2>1. /\ t \in Seq(CellSet)
        /\ Len(t) = IF n + 1 <= Len(s) THEN Len(s) - (n + 1) + 1 ELSE 0
        /\ \A i \in 1 .. Len(s) - (n + 1) + 1 : t[i] = s[(n + 1) + i - 1]
    BY <1>0, SubSeqProperties DEF Suffix
  <2> HIDE DEF t
  <2> QED BY <2>1, <1>0
<1> HIDE DEF t
<1>2. ASSUME Framed(s) PROVE Framed(t)
  <2> SUFFICES ASSUME NEW i \in 1 .. Len(t), t[i].pos = 1
               PROVE  /\ \A k \in i .. Len(t) :
                            k < i + HeaderCells + t[i].frame.len =>
                                t[k] = [frame |-> t[i].frame, pos |-> k - i + 1]
                      /\ i + HeaderCells + t[i].frame.len <= Len(t) =>
                            t[i + HeaderCells + t[i].frame.len].pos = 1
    BY DEF Framed
  <2>1. n + i \in 1 .. Len(s) /\ t[i] = s[n + i] /\ t[i] \in CellSet
    BY <1>0, <1>1
  <2>2. t[i].frame.len \in Nat /\ HeaderCells \in Nat \ {0}
    BY <2>1, CellType, SessionParameters
  <2>3. ASSUME NEW k \in i .. Len(t), k < i + HeaderCells + t[i].frame.len
        PROVE  t[k] = [frame |-> t[i].frame, pos |-> k - i + 1]
    <3>1. n + k \in n + i .. Len(s) /\ n + k < (n + i) + HeaderCells + s[n + i].frame.len
      <4> DEFINE l == s[n + i].frame.len
      <4>1. l \in Nat /\ HeaderCells \in Nat /\ k < i + HeaderCells + l
        BY <2>1, <2>2, <2>3
      <4>2. /\ n \in Nat /\ Len(s) \in Nat /\ Len(t) = Len(s) - n
            /\ i \in Int /\ k \in Int /\ i <= k /\ k <= Len(t)
        BY <1>0, <1>1, <2>3
      <4> HIDE DEF l
      <4> QED BY <4>1, <4>2 DEF l
    <3>2. s[n + k] = [frame |-> s[n + i].frame, pos |-> (n + k) - (n + i) + 1]
      BY <3>1, <2>1, <1>2 DEF Framed
    <3>3. (n + k) - (n + i) + 1 = k - i + 1 /\ t[k] = s[n + k]
      BY <1>0, <1>1
    <3> QED BY <3>2, <3>3, <2>1
  <2>4. ASSUME i + HeaderCells + t[i].frame.len <= Len(t)
        PROVE  t[i + HeaderCells + t[i].frame.len].pos = 1
    <3> DEFINE e == i + HeaderCells + t[i].frame.len
    <3>1. e \in 1 .. Len(t) /\ n + e = (n + i) + HeaderCells + s[n + i].frame.len
      BY <1>0, <1>1, <2>1, <2>2, <2>4
    <3>2. n + e <= Len(s)
      BY <1>0, <1>1, <3>1
    <3>3. s[n + e].pos = 1
      BY <3>1, <3>2, <2>1, <1>2 DEF Framed
    <3> QED BY <3>1, <3>3, <1>1
  <2> QED
    BY <2>3, <2>4
<1>3. ASSUME Whole(s) PROVE Whole(t)
  <2> SUFFICES ASSUME NEW i \in 1 .. Len(t), t[i].pos = 1
               PROVE  i + HeaderCells + t[i].frame.len <= Len(t) + 1
    BY DEF Whole
  <2>1. n + i \in 1 .. Len(s) /\ t[i] = s[n + i] /\ t[i] \in CellSet
    BY <1>0, <1>1
  <2>2. t[i].frame.len \in Nat /\ HeaderCells \in Nat \ {0}
    BY <2>1, CellType, SessionParameters
  <2>3. (n + i) + HeaderCells + t[i].frame.len <= Len(s) + 1
    BY <2>1, <1>3 DEF Whole
  <2> QED
    BY <2>2, <2>3, <1>0, <1>1
<1> QED
  BY <1>1, <1>2, <1>3 DEF t

(* A whole stream and a frame's cells are a whole stream.                  *)
LEMMA AppendedFramed ==
    ASSUME NEW s \in Seq(CellSet), NEW f \in Frames, Framed(s), Whole(s)
    PROVE  LET t == s \o Cells(f) IN
           /\ t \in Seq(CellSet) /\ Len(t) = Len(s) + HeaderCells + f.len
           /\ \A i \in 1 .. Len(s) : t[i] = s[i]
           /\ \A i \in 1 .. HeaderCells + f.len : t[Len(s) + i] = [frame |-> f, pos |-> i]
           /\ Framed(t) /\ Whole(t)
           /\ StartsFrame(s) => StartsFrame(t)
           /\ \A h \in Frames :
                 GoesOnWith(s, h) /\ h.len <= Len(s) => GoesOnWith(t, h)
<1> DEFINE t == s \o Cells(f)
<1>0. Len(s) \in Nat /\ \A i \in 1 .. Len(s) : s[i] \in CellSet
  BY LenProperties, ElementOfSeq
<1>a. f.len \in Nat /\ HeaderCells \in Nat \ {0}
  BY CellsOfFrame
<1>1. t \in Seq(CellSet) /\ Len(t) = Len(s) + HeaderCells + f.len
  <2>1. Cells(f) \in Seq(CellSet) /\ Len(Cells(f)) = HeaderCells + f.len
    BY CellsOfFrame
  <2>2. t \in Seq(CellSet) /\ Len(t) = Len(s) + Len(Cells(f))
    BY <2>1, ConcatProperties
  <2> HIDE DEF t
  <2> QED BY <2>1, <2>2, <1>0, <1>a
<1>2. \A i \in 1 .. Len(s) : t[i] = s[i]
  BY <1>0, <1>a, CellsOfFrame, ConcatProperties
<1>3. \A i \in 1 .. HeaderCells + f.len : t[Len(s) + i] = [frame |-> f, pos |-> i]
  <2> SUFFICES ASSUME NEW i \in 1 .. HeaderCells + f.len
               PROVE  t[Len(s) + i] = [frame |-> f, pos |-> i]
    OBVIOUS
  <2>1. /\ Len(s) + i \in 1 .. Len(s) + Len(Cells(f))
        /\ ~(Len(s) + i <= Len(s)) /\ (Len(s) + i) - Len(s) = i
    BY <1>0, <1>a, CellsOfFrame
  <2>2. t[Len(s) + i] = Cells(f)[i]
    BY <2>1, CellsOfFrame, ConcatProperties
  <2> QED BY <2>2, CellsOfFrame
<1> HIDE DEF t
<1>4. ASSUME NEW i \in 1 .. Len(t), t[i].pos = 1
      PROVE  \/ /\ i \in 1 .. Len(s) /\ t[i] = s[i] /\ s[i].pos = 1
                /\ i + HeaderCells + t[i].frame.len <= Len(s) + 1
             \/ i = Len(s) + 1 /\ t[i].frame = f
  <2>1. CASE i <= Len(s)
    BY <2>1, <1>0, <1>2, <1>4 DEF Whole
  <2>2. CASE i > Len(s)
    <3>1. i - Len(s) \in 1 .. HeaderCells + f.len /\ i = Len(s) + (i - Len(s))
      BY <2>2, <1>0, <1>1, <1>a
    <3>2. t[i] = [frame |-> f, pos |-> i - Len(s)]
      BY <3>1, <1>3
    <3>3. i - Len(s) = 1
      BY <3>2, <1>4
    <3> QED BY <3>1, <3>2, <3>3
  <2> QED BY <2>1, <2>2, <1>0
<1>5. Framed(t)
  <2> SUFFICES ASSUME NEW i \in 1 .. Len(t), t[i].pos = 1
               PROVE  /\ \A k \in i .. Len(t) :
                            k < i + HeaderCells + t[i].frame.len =>
                                t[k] = [frame |-> t[i].frame, pos |-> k - i + 1]
                      /\ i + HeaderCells + t[i].frame.len <= Len(t) =>
                            t[i + HeaderCells + t[i].frame.len].pos = 1
    BY DEF Framed
  <2>1. CASE /\ i \in 1 .. Len(s) /\ t[i] = s[i] /\ s[i].pos = 1
             /\ i + HeaderCells + t[i].frame.len <= Len(s) + 1
    <3>1. t[i].frame.len \in Nat
      BY <2>1, <1>0, CellType
    <3>2. ASSUME NEW k \in i .. Len(t), k < i + HeaderCells + t[i].frame.len
          PROVE  t[k] = [frame |-> t[i].frame, pos |-> k - i + 1]
      <4>1. k \in i .. Len(s) /\ k \in 1 .. Len(s)
        BY <3>1, <3>2, <2>1, <1>0, <1>1, <1>a
      <4>2. s[k] = [frame |-> s[i].frame, pos |-> k - i + 1]
        BY <4>1, <2>1, <3>2 DEF Framed
      <4> QED BY <4>1, <4>2, <2>1, <1>2
    <3>3. ASSUME i + HeaderCells + t[i].frame.len <= Len(s)
          PROVE  t[i + HeaderCells + t[i].frame.len].pos = 1
      <4>1. i + HeaderCells + t[i].frame.len \in 1 .. Len(s)
        BY <3>1, <3>3, <1>0, <1>a
      <4>2. s[i + HeaderCells + s[i].frame.len].pos = 1
        BY <3>3, <2>1 DEF Framed
      <4> QED BY <4>1, <4>2, <2>1, <1>2
    <3>4. ASSUME i + HeaderCells + t[i].frame.len = Len(s) + 1
          PROVE  t[i + HeaderCells + t[i].frame.len].pos = 1
      <4>1. t[Len(s) + 1] = [frame |-> f, pos |-> 1]
        BY <1>3, <1>a
      <4> QED BY <4>1, <3>4
    <3>5. \/ i + HeaderCells + t[i].frame.len <= Len(s)
          \/ i + HeaderCells + t[i].frame.len = Len(s) + 1
      <4> DEFINE l == t[i].frame.len
      <4>1. l \in Nat /\ i + HeaderCells + l <= Len(s) + 1
        BY <3>1, <2>1
      <4> HIDE DEF l
      <4>2. i + HeaderCells + l <= Len(s) \/ i + HeaderCells + l = Len(s) + 1
        BY <4>1, <1>0, <1>a
      <4> QED BY <4>2 DEF l
    <3> QED BY <3>2, <3>3, <3>4, <3>5
  <2>2. CASE i = Len(s) + 1 /\ t[i].frame = f
    <3>1. ASSUME NEW k \in i .. Len(t)
          PROVE  t[k] = [frame |-> t[i].frame, pos |-> k - i + 1]
      <4>1. k - Len(s) \in 1 .. HeaderCells + f.len /\ k = Len(s) + (k - Len(s))
        BY <2>2, <1>0, <1>1, <1>a
      <4>2. k - Len(s) = k - i + 1
        BY <2>2, <1>0
      <4> QED BY <4>1, <4>2, <1>3, <2>2
    <3>2. ~(i + HeaderCells + t[i].frame.len <= Len(t))
      BY <2>2, <1>0, <1>1, <1>a
    <3> QED BY <3>1, <3>2
  <2> QED BY <2>1, <2>2, <1>4
<1>6. Whole(t)
  <2> SUFFICES ASSUME NEW i \in 1 .. Len(t), t[i].pos = 1
               PROVE  i + HeaderCells + t[i].frame.len <= Len(t) + 1
    BY DEF Whole
  <2>1. CASE /\ i \in 1 .. Len(s) /\ t[i] = s[i]
             /\ i + HeaderCells + t[i].frame.len <= Len(s) + 1
    <3> DEFINE l == t[i].frame.len
    <3>1. l \in Nat
      BY <2>1, <1>0, CellType
    <3>2. Len(s) \in Nat /\ HeaderCells \in Nat /\ Len(t) \in Nat /\ Len(s) <= Len(t)
      BY <1>0, <1>1, <1>a
    <3>3. i \in Nat /\ i + HeaderCells + l <= Len(s) + 1
      BY <2>1
    <3> HIDE DEF l
    <3> QED BY <3>1, <3>2, <3>3 DEF l
  <2>2. CASE i = Len(s) + 1 /\ t[i].frame = f
    BY <2>2, <1>0, <1>1, <1>a
  <2> QED BY <2>1, <2>2, <1>4
<1>7. StartsFrame(s) => StartsFrame(t)
  <2>1. CASE s = <<>>
    <3>1. Len(s) = 0 /\ t[Len(s) + 1] = [frame |-> f, pos |-> 1]
      BY <2>1, EmptySeq, <1>3, <1>a
    <3> QED BY <3>1 DEF StartsFrame
  <2>2. CASE s # <<>>
    <3>1. 1 \in 1 .. Len(s)
      BY <2>2, EmptySeq
    <3> QED BY <3>1, <2>2, <1>2 DEF StartsFrame
  <2> QED BY <2>1, <2>2
<1>8. ASSUME NEW h \in Frames, GoesOnWith(s, h), h.len <= Len(s)
      PROVE  GoesOnWith(t, h)
  <2>0. h.len \in Nat
    BY CellsOfFrame
  <2>1. ASSUME NEW k \in 1 .. Len(t), k <= h.len
        PROVE  t[k] = [frame |-> h, pos |-> HeaderCells + k]
    <3>1. k \in 1 .. Len(s)
      BY <2>0, <2>1, <1>0, <1>1, <1>8, <1>a
    <3> QED BY <3>1, <2>1, <1>2, <1>8 DEF GoesOnWith
  <2>2. CASE h.len = Len(s)
    <3>1. t[Len(s) + 1] = [frame |-> f, pos |-> 1]
      BY <1>3, <1>a
    <3> QED BY <3>1, <2>1, <2>2 DEF GoesOnWith
  <2>3. CASE h.len < Len(s)
    <3>1. h.len + 1 \in 1 .. Len(s)
      BY <2>0, <2>3, <1>0
    <3> QED BY <3>1, <2>1, <2>3, <1>2, <1>8 DEF GoesOnWith
  <2> QED BY <2>2, <2>3, <2>0, <1>0, <1>8
<1> QED
  BY <1>1, <1>2, <1>3, <1>5, <1>6, <1>7, <1>8 DEF t

(* After the header cells of a frame the stream goes on with its payload;  *)
(* after its payload, a frame starts.                                      *)
LEMMA AfterHeader ==
    ASSUME NEW s \in Seq(CellSet), Framed(s), HeaderCells <= Len(s), s[1].pos = 1
    PROVE  /\ s[1].frame \in Frames
           /\ GoesOnWith(Suffix(s, HeaderCells), s[1].frame)
           /\ Whole(s) => s[1].frame.len <= Len(Suffix(s, HeaderCells))
<1> DEFINE f == s[1].frame
           t == Suffix(s, HeaderCells)
<1>1. HeaderCells \in Nat \ {0} /\ Len(s) \in Nat
  BY SessionParameters, LenProperties
<1>2. 1 \in 1 .. Len(s) /\ s[1] \in CellSet
  BY <1>1, ElementOfSeq
<1>3. f \in Frames /\ f.len \in Nat
  BY <1>2, CellType
<1>4. HeaderCells \in 0 .. Len(s)
  BY <1>1
<1>5. Len(t) = Len(s) - HeaderCells /\ \A i \in 1 .. Len(t) : t[i] = s[HeaderCells + i]
  BY <1>4, SuffixFramed
<1>6. /\ \A k \in 1 .. Len(s) :
             k < 1 + HeaderCells + f.len => s[k] = [frame |-> f, pos |-> k - 1 + 1]
      /\ 1 + HeaderCells + f.len <= Len(s) => s[1 + HeaderCells + f.len].pos = 1
  BY <1>2 DEF Framed
<1> HIDE DEF t, f
<1>7. ASSUME NEW k \in 1 .. Len(t), k <= f.len
      PROVE  t[k] = [frame |-> f, pos |-> HeaderCells + k]
  <2>1. HeaderCells + k \in 1 .. Len(s) /\ HeaderCells + k < 1 + HeaderCells + f.len
    BY <1>1, <1>3, <1>5, <1>7
  <2>2. s[HeaderCells + k] = [frame |-> f, pos |-> (HeaderCells + k) - 1 + 1]
    BY <2>1, <1>6
  <2>3. (HeaderCells + k) - 1 + 1 = HeaderCells + k
    BY <1>1
  <2> QED BY <2>2, <2>3, <1>5
<1>8. ASSUME f.len < Len(t)
      PROVE  t[f.len + 1].pos = 1
  <2>1. /\ f.len + 1 \in 1 .. Len(t) /\ HeaderCells + (f.len + 1) = 1 + HeaderCells + f.len
        /\ 1 + HeaderCells + f.len <= Len(s)
    BY <1>1, <1>3, <1>5, <1>8
  <2> QED BY <2>1, <1>5, <1>6
<1>9. Whole(s) => 1 + HeaderCells + f.len <= Len(s) + 1
  BY <1>2 DEF Whole, f
<1>10. Whole(s) => f.len <= Len(t)
  BY <1>9, <1>1, <1>3, <1>5
<1> QED
  BY <1>3, <1>7, <1>8, <1>10 DEF GoesOnWith, f, t

(* Past the payload of the frame being read, another frame begins.         *)
LEMMA AfterPayload ==
    ASSUME NEW s \in Seq(CellSet), NEW f \in Frames, GoesOnWith(s, f), f.len <= Len(s)
    PROVE  StartsFrame(Suffix(s, f.len))
<1>1. f.len \in Nat /\ Len(s) \in Nat
  BY CellsOfFrame, LenProperties
<1>2. f.len \in 0 .. Len(s)
  BY <1>1
<1>3. /\ Suffix(s, f.len) \in Seq(CellSet) /\ Len(Suffix(s, f.len)) = Len(s) - f.len
      /\ \A i \in 1 .. Len(s) - f.len : Suffix(s, f.len)[i] = s[f.len + i]
  BY <1>2, SuffixFramed
<1>4. Suffix(s, f.len) # <<>> => 1 \in 1 .. Len(s) - f.len
  BY <1>1, <1>3, EmptySeq
<1> QED
  BY <1>1, <1>3, <1>4 DEF GoesOnWith, StartsFrame

-----------------------------------------------------------------------------
(* What each step does to the unread cells                                 *)

(* The unread cells are cells.                                             *)
LEMMA UnreadType ==
    ASSUME TypeOK
    PROVE  /\ Unread \in Seq(CellSet) /\ inbound \o flight \in Seq(CellSet)
           /\ Len(Unread) \in Nat
           /\ \A i \in 1 .. Len(Unread) : Unread[i] \in CellSet
<1>1. inbound \o flight \in Seq(CellSet)
  BY ConcatProperties DEF TypeOK
<1>2. (IF Reading THEN buf ELSE <<>>) \in Seq(CellSet)
  BY EmptySeq DEF TypeOK
<1>3. Unread \in Seq(CellSet)
  BY <1>1, <1>2, ConcatProperties DEF Unread
<1> QED
  BY <1>1, <1>3, LenProperties, ElementOfSeq

(* Concatenating cells, without the set they are taken from.               *)
LEMMA CellConcat ==
    /\ \A r, t \in Seq(CellSet) : r \o t \in Seq(CellSet)
    /\ \A r, t, u \in Seq(CellSet) : (r \o t) \o u = r \o (t \o u)
<1>1. ASSUME NEW r \in Seq(CellSet), NEW t \in Seq(CellSet)
      PROVE  r \o t \in Seq(CellSet)
  BY ConcatProperties
<1>2. ASSUME NEW r \in Seq(CellSet), NEW t \in Seq(CellSet), NEW u \in Seq(CellSet)
      PROVE  (r \o t) \o u = r \o (t \o u)
  BY ConcatAssociative
<1> QED
  BY <1>1, <1>2

(* A sequence is its first n elements and the rest.                        *)
LEMMA SplitSequence ==
    ASSUME NEW S, NEW s \in Seq(S), NEW n \in 0 .. Len(s)
    PROVE  /\ SubSeq(s, 1, n) \in Seq(S) /\ SubSeq(s, n + 1, Len(s)) \in Seq(S)
           /\ SubSeq(s, 1, n) \o SubSeq(s, n + 1, Len(s)) = s
<1>1. Len(s) \in Nat /\ \A i \in 1 .. Len(s) : s[i] \in S
  BY LenProperties, ElementOfSeq
<1>2. SubSeq(s, 1, n) \in Seq(S) /\ SubSeq(s, n + 1, Len(s)) \in Seq(S)
  BY <1>1, SubSeqProperties
<1>3. 1 \in 1 .. Len(s) + 1 /\ n \in 1 - 1 .. Len(s) /\ Len(s) \in n .. Len(s)
  BY <1>1
<1>4. SubSeq(s, 1, n) \o SubSeq(s, n + 1, Len(s)) = SubSeq(s, 1, Len(s))
  BY <1>3, ConcatAdjacentSubSeq
<1> QED
  BY <1>2, <1>4, SubSeqFull

(* The unread cells after the first part: dropping it leaves the second.   *)
LEMMA DropFirst ==
    ASSUME NEW S, NEW s \in Seq(S), NEW t \in Seq(S)
    PROVE  Suffix(s \o t, Len(s)) = t
<1>1. Len(s) \in Nat /\ Len(t) \in Nat
  BY LenProperties
<1>2. s \o t \in Seq(S) /\ Len(s \o t) = Len(s) + Len(t)
  BY ConcatProperties
<1>3. \A i \in 1 .. Len(t) : (s \o t)[Len(s) + i] = t[i]
  <2> SUFFICES ASSUME NEW i \in 1 .. Len(t) PROVE (s \o t)[Len(s) + i] = t[i]
    OBVIOUS
  <2>1. /\ Len(s) + i \in 1 .. Len(s) + Len(t)
        /\ ~(Len(s) + i <= Len(s)) /\ (Len(s) + i) - Len(s) = i
    BY <1>1
  <2> QED BY <2>1, ConcatProperties
<1> DEFINE u == s \o t
<1>4. \A i \in 1 .. Len(u) : u[i] \in S
  BY <1>2, ElementOfSeq
<1> HIDE DEF u
<1>5. u \in Seq(S) /\ Len(u) = Len(s) + Len(t) /\ \A i \in 1 .. Len(t) : u[Len(s) + i] = t[i]
  BY <1>2, <1>3 DEF u
<1>6. /\ Suffix(u, Len(s)) \in Seq(S)
      /\ Len(Suffix(u, Len(s))) =
            IF Len(s) + 1 <= Len(u) THEN Len(u) - (Len(s) + 1) + 1 ELSE 0
      /\ \A i \in 1 .. Len(u) - (Len(s) + 1) + 1 :
            Suffix(u, Len(s))[i] = u[(Len(s) + 1) + i - 1]
  <2>1. \A i \in Len(s) + 1 .. Len(u) : u[i] \in S
    BY <1>1, <1>4, <1>5
  <2> QED BY <2>1, <1>1, <1>5, SubSeqProperties DEF Suffix
<1>7. Len(Suffix(u, Len(s))) = Len(t)
  BY <1>1, <1>5, <1>6
<1>8. \A i \in 1 .. Len(t) : Suffix(u, Len(s))[i] = t[i]
  <2> SUFFICES ASSUME NEW i \in 1 .. Len(t) PROVE Suffix(u, Len(s))[i] = t[i]
    OBVIOUS
  <2>1. i \in 1 .. Len(u) - (Len(s) + 1) + 1 /\ (Len(s) + 1) + i - 1 = Len(s) + i
    BY <1>1, <1>5
  <2> QED BY <2>1, <1>5, <1>6
<1>9. Suffix(u, Len(s)) = t
  BY <1>6, <1>7, <1>8, SeqEqual
<1> QED
  BY <1>9 DEF u

(* Receiving moves cells along and keeps the stream.                       *)
LEMMA ReceiveKeepsUnread ==
    ASSUME TypeOK, Receive
    PROVE  Unread' = Unread /\ buf' \in Seq(CellSet) /\ inbound' \in Seq(CellSet)
<1>1. PICK n \in 1 .. Len(inbound) :
         /\ buf' = buf \o SubSeq(inbound, 1, n)
         /\ inbound' = SubSeq(inbound, n + 1, Len(inbound))
  BY DEF Receive
<1> DEFINE a == SubSeq(inbound, 1, n)
           b == SubSeq(inbound, n + 1, Len(inbound))
<1>2. /\ buf \in Seq(CellSet) /\ inbound \in Seq(CellSet) /\ flight \in Seq(CellSet)
      /\ flight' = flight /\ pc' = pc
  BY DEF TypeOK, Receive
<1>3. n \in 0 .. Len(inbound)
  BY <1>2, LenProperties
<1>4. a \in Seq(CellSet) /\ b \in Seq(CellSet) /\ a \o b = inbound
  BY <1>2, <1>3, SplitSequence
<1> HIDE DEF a, b
<1>5. buf \o a \in Seq(CellSet) /\ b \o flight \in Seq(CellSet)
  BY <1>2, <1>4, ConcatProperties
<1>6. (buf \o a) \o (b \o flight) = buf \o (a \o (b \o flight))
  <2> DEFINE c == b \o flight
  <2>1. buf \in Seq(CellSet) /\ a \in Seq(CellSet) /\ c \in Seq(CellSet)
    BY <1>2, <1>4, <1>5
  <2> HIDE DEF c
  <2>2. (buf \o a) \o c = buf \o (a \o c)
    BY <2>1, CellConcat
  <2> QED BY <2>2 DEF c
<1>7. a \o (b \o flight) = (a \o b) \o flight
  <2>1. a \in Seq(CellSet) /\ b \in Seq(CellSet) /\ flight \in Seq(CellSet)
    BY <1>2, <1>4
  <2> QED BY <2>1, CellConcat
<1>8. buf' = buf \o a /\ inbound' = b
  BY <1>1 DEF a, b
<1>9. Reading /\ Reading'
  BY <1>2 DEF Receive, Reading
<1>10. Unread = buf \o (inbound \o flight) /\ Unread' = buf' \o (inbound' \o flight')
  BY <1>9 DEF Unread
<1> QED
  BY <1>2, <1>4, <1>5, <1>6, <1>7, <1>8, <1>10

(* So does the network's delivering.                                       *)
LEMMA DeliverKeepsUnread ==
    ASSUME TypeOK, Deliver
    PROVE  Unread' = Unread /\ inbound' \in Seq(CellSet) /\ flight' \in Seq(CellSet)
<1>1. PICK n \in 1 .. Len(flight) :
         /\ inbound' = inbound \o SubSeq(flight, 1, n)
         /\ flight' = SubSeq(flight, n + 1, Len(flight))
  BY DEF Deliver
<1> DEFINE a == SubSeq(flight, 1, n)
           b == SubSeq(flight, n + 1, Len(flight))
<1>2. /\ inbound \in Seq(CellSet) /\ flight \in Seq(CellSet)
      /\ buf' = buf /\ pc' = pc
  BY DEF TypeOK, Deliver, client
<1>3. n \in 0 .. Len(flight)
  BY <1>2, LenProperties
<1>4. a \in Seq(CellSet) /\ b \in Seq(CellSet) /\ a \o b = flight
  BY <1>2, <1>3, SplitSequence
<1> HIDE DEF a, b
<1>5. inbound \o a \in Seq(CellSet)
  BY <1>2, <1>4, ConcatProperties
<1>6. (inbound \o a) \o b = inbound \o (a \o b)
  <2>1. inbound \in Seq(CellSet) /\ a \in Seq(CellSet) /\ b \in Seq(CellSet)
    BY <1>2, <1>4
  <2> QED BY <2>1, CellConcat
<1>7. inbound' = inbound \o a /\ flight' = b
  BY <1>1 DEF a, b
<1>8. inbound' \o flight' = inbound \o flight
  BY <1>4, <1>6, <1>7
<1>9. Reading' = Reading
  BY <1>2 DEF Reading
<1>10. Unread' = (IF Reading' THEN buf' ELSE <<>>) \o (inbound' \o flight')
  BY DEF Unread
<1> QED
  BY <1>2, <1>4, <1>5, <1>7, <1>8, <1>9, <1>10 DEF Unread

(* A frame the router sends is appended to the unread cells.               *)
LEMMA SendingAppends ==
    ASSUME TypeOK, NEW f \in Frames, flight' = flight \o Cells(f), UNCHANGED <<client, inbound>>
    PROVE  Unread' = Unread \o Cells(f) /\ flight' \in Seq(CellSet)
<1>1. /\ inbound \in Seq(CellSet) /\ flight \in Seq(CellSet) /\ buf \in Seq(CellSet)
      /\ Cells(f) \in Seq(CellSet)
      /\ buf' = buf /\ pc' = pc /\ inbound' = inbound
  BY CellsOfFrame DEF TypeOK, client
<1> DEFINE d == IF Reading THEN buf ELSE <<>>
<1>2. d \in Seq(CellSet)
  BY <1>1, EmptySeq
<1> HIDE DEF d
<1>3. flight \o Cells(f) \in Seq(CellSet) /\ inbound \o flight \in Seq(CellSet)
  BY <1>1, ConcatProperties
<1>4. inbound \o (flight \o Cells(f)) = (inbound \o flight) \o Cells(f)
  BY <1>1, CellConcat
<1>5. d \o ((inbound \o flight) \o Cells(f)) = (d \o (inbound \o flight)) \o Cells(f)
  <2> DEFINE c == inbound \o flight
  <2>1. d \in Seq(CellSet) /\ c \in Seq(CellSet) /\ Cells(f) \in Seq(CellSet)
    BY <1>1, <1>2, <1>3
  <2> HIDE DEF c
  <2>2. (d \o c) \o Cells(f) = d \o (c \o Cells(f))
    BY <2>1, CellConcat
  <2> QED BY <2>2 DEF c
<1>6. Unread = d \o (inbound \o flight)
  BY DEF Unread, d
<1>7. Unread' = d \o (inbound \o (flight \o Cells(f)))
  BY <1>1 DEF Unread, d, Reading
<1> QED
  BY <1>3, <1>4, <1>5, <1>6, <1>7

(* When the router closes the connection, some first part of the unread    *)
(* cells is left.                                                          *)
LEMMA ClosingCuts ==
    ASSUME TypeOK, RouterCloses
    PROVE  /\ flight' \in Seq(CellSet)
           /\ \E m \in 0 .. Len(Unread) : Unread' = SubSeq(Unread, 1, m)
<1>1. PICK n \in 0 .. Len(flight) : flight' = SubSeq(flight, 1, n)
  BY DEF RouterCloses
<1> DEFINE d == (IF Reading THEN buf ELSE <<>>) \o inbound
           a == SubSeq(flight, 1, n)
           b == SubSeq(flight, n + 1, Len(flight))
<1>2. /\ inbound \in Seq(CellSet) /\ flight \in Seq(CellSet) /\ buf \in Seq(CellSet)
      /\ buf' = buf /\ pc' = pc /\ inbound' = inbound
  BY DEF TypeOK, RouterCloses, client
<1>3. a \in Seq(CellSet) /\ b \in Seq(CellSet) /\ a \o b = flight
  BY <1>2, SplitSequence
<1>4. (IF Reading THEN buf ELSE <<>>) \in Seq(CellSet)
  BY <1>2, EmptySeq
<1>5. d \in Seq(CellSet)
  BY <1>2, <1>4, ConcatProperties
<1>6. Unread = d \o flight
  <2> DEFINE c == IF Reading THEN buf ELSE <<>>
  <2>1. Unread = c \o (inbound \o flight) /\ d = c \o inbound
    BY DEF Unread
  <2>2. c \in Seq(CellSet) /\ inbound \in Seq(CellSet) /\ flight \in Seq(CellSet)
    BY <1>2, <1>4
  <2> HIDE DEF c, d
  <2>3. (c \o inbound) \o flight = c \o (inbound \o flight)
    BY <2>2, CellConcat
  <2> QED BY <2>1, <2>3
<1>7. Unread' = d \o a
  <2>1. Unread' = (IF Reading THEN buf ELSE <<>>) \o (inbound \o a)
    BY <1>1, <1>2 DEF Unread, Reading
  <2> DEFINE c == IF Reading THEN buf ELSE <<>>
  <2>2. c \in Seq(CellSet) /\ a \in Seq(CellSet) /\ inbound \in Seq(CellSet)
    BY <1>2, <1>3, <1>4
  <2>3. Unread' = c \o (inbound \o a) /\ d = c \o inbound
    BY <2>1
  <2> HIDE DEF a, c, d
  <2>4. (c \o inbound) \o a = c \o (inbound \o a)
    BY <2>2, CellConcat
  <2> QED BY <2>3, <2>4
<1> HIDE DEF a, b, d
<1>8. d \o a \in Seq(CellSet) /\ Len(d \o a) \in Nat /\ Len(b) \in Nat
  BY <1>3, <1>5, CellConcat, LenProperties
<1>9. Unread = (d \o a) \o b
  BY <1>3, <1>5, <1>6, CellConcat
<1>10. Len(Unread) = Len(d \o a) + Len(b) /\ Len(d \o a) \in 0 .. Len(Unread)
  <2>1. Len((d \o a) \o b) = Len(d \o a) + Len(b)
    BY <1>3, <1>8, ConcatProperties
  <2> QED BY <2>1, <1>8, <1>9
<1>11. SubSeq(Unread, 1, Len(d \o a)) = d \o a
  <2> DEFINE e == d \o a
             u == Unread
  <2>1. u \in Seq(CellSet) /\ \A i \in 1 .. Len(u) : u[i] \in CellSet
    BY UnreadType
  <2>2. \A i \in 1 .. Len(e) : u[i] = e[i]
    BY <1>3, <1>8, <1>9, ConcatProperties
  <2>3. e \in Seq(CellSet) /\ Len(e) \in Nat /\ Len(e) \in 0 .. Len(u) /\ Len(u) \in Nat
    BY <1>8, <1>10, UnreadType
  <2> HIDE DEF e, u
  <2>4. /\ SubSeq(u, 1, Len(e)) \in Seq(CellSet)
        /\ Len(SubSeq(u, 1, Len(e))) = Len(e)
        /\ \A i \in 1 .. Len(e) : SubSeq(u, 1, Len(e))[i] = u[i]
    BY <2>1, <2>3, SubSeqProperties
  <2>5. SubSeq(u, 1, Len(e)) = e
    BY <2>2, <2>3, <2>4, SeqEqual
  <2> QED BY <2>5 DEF e, u
<1>12. flight' \in Seq(CellSet)
  BY <1>1, <1>3 DEF a
<1> QED
  BY <1>7, <1>10, <1>11, <1>12

(* Used cells are the first ones of the unread cells.                      *)
LEMMA UsingDrops ==
    ASSUME TypeOK, Reading, ReadIsFull
    PROVE  /\ Len(buf) = Size
           /\ Size \in 0 .. Len(Unread)
           /\ Suffix(Unread, Size) = inbound \o flight
           /\ \A i \in 1 .. Size : buf[i] = Unread[i]
<1>1. buf \in Seq(CellSet) /\ inbound \o flight \in Seq(CellSet) /\ Len(buf) = Size
  BY UnreadType DEF TypeOK, ReadIsFull
<1>2. Unread = buf \o (inbound \o flight)
  BY DEF Unread
<1>3. Len(buf) \in Nat /\ Len(inbound \o flight) \in Nat
  BY <1>1, LenProperties
<1>4. Len(Unread) = Len(buf) + Len(inbound \o flight)
  BY <1>1, <1>2, ConcatProperties
<1>5. Suffix(Unread, Size) = inbound \o flight
  BY <1>1, <1>2, DropFirst
<1>6. \A i \in 1 .. Len(buf) : buf[i] = Unread[i]
  <2> SUFFICES ASSUME NEW i \in 1 .. Len(buf) PROVE buf[i] = Unread[i]
    OBVIOUS
  <2>1. i \in 1 .. Len(buf) + Len(inbound \o flight) /\ i <= Len(buf)
    BY <1>3
  <2> QED BY <2>1, <1>1, <1>2, ConcatProperties
<1>7. Len(buf) \in 0 .. Len(Unread)
  BY <1>3, <1>4
<1> QED
  BY <1>1, <1>5, <1>6, <1>7

-----------------------------------------------------------------------------
(* Each step keeps the invariant                                           *)

(* A call that fails is done, and nothing it read or asked changes.        *)
LEMMA FailureKeeps ==
    ASSUME SessionInvariant,
           NEW o \in {"auth_error", "error", "os_error"}, Fail(o),
           UNCHANGED <<requests, router, flight, inbound>>
    PROVE  SessionInvariant'
<1> USE DEF SessionInvariant, Fail, End, router
<1>1. TypeOK'
  BY DEF TypeOK
<1>2. RequestsFollowSteps'
  BY DEF RequestsFollowSteps, Reading
<1>3. LoginIsTold'
  BY DEF LoginIsTold, Connected
<1>4. StreamIsFramed'
  BY DEF StreamIsFramed, Connected
<1>5. OutcomeAtEnd'
  BY DEF OutcomeAtEnd
<1>6. WholeAnswer'
  BY DEF WholeAnswer
<1> QED
  BY <1>1, <1>2, <1>3, <1>4, <1>5, <1>6

(* Beginning a poll moves nothing but the program counter.                 *)
LEMMA BeginKeeps ==
    ASSUME SessionInvariant, BeginPoll
    PROVE  SessionInvariant'
<1> USE DEF SessionInvariant, BeginPoll, router
<1>1. TypeOK'
  BY DEF TypeOK
<1>2. RequestsFollowSteps'
  BY DEF RequestsFollowSteps, Reading
<1>3. LoginIsTold'
  BY DEF LoginIsTold, Connected
<1>4. StreamIsFramed'
  BY DEF StreamIsFramed, Connected
<1>5. OutcomeAtEnd'
  BY DEF OutcomeAtEnd
<1>6. WholeAnswer'
  BY DEF WholeAnswer
<1> QED
  BY <1>1, <1>2, <1>3, <1>4, <1>5, <1>6

(* A new connection has nothing to read.                                   *)
LEMMA ConnectKeeps ==
    ASSUME SessionInvariant, Connect
    PROVE  SessionInvariant'
<1> USE DEF SessionInvariant, Connect, router
<1>0. Unread' = <<>> /\ Len(Unread') = 0
  <2>1. inbound' = <<>> /\ flight' = <<>> /\ ~Reading'
    BY DEF RequestsFollowSteps, Reading
  <2>2. <<>> \o (<<>> \o <<>>) = <<>>
    BY ConcatEmptySeq, EmptySeq
  <2> QED BY <2>1, <2>2, EmptySeq DEF Unread
<1>1. TypeOK'
  BY DEF TypeOK
<1>2. RequestsFollowSteps'
  BY DEF RequestsFollowSteps, Reading
<1>3. LoginIsTold'
  BY <1>0 DEF LoginIsTold, Connected
<1>4. StreamIsFramed'
  <2>1. Framed(Unread') /\ Whole(Unread') /\ StartsFrame(Unread')
    BY <1>0 DEF Framed, Whole, StartsFrame
  <2> QED BY <2>1 DEF StreamIsFramed, Framed, Whole, StartsFrame
<1>5. OutcomeAtEnd'
  BY DEF OutcomeAtEnd
<1>6. WholeAnswer'
  BY DEF WholeAnswer
<1> QED
  BY <1>1, <1>2, <1>3, <1>4, <1>5, <1>6

(* The request sent is the one of the step.                                *)
LEMMA SendKeeps ==
    ASSUME SessionInvariant, SendRequest
    PROVE  SessionInvariant'
<1> USE DEF SessionInvariant, SendRequest, router
<1>0. Unread' = Unread
  BY DEF Unread, Reading
<1>a. /\ step \in 1 .. 3 /\ Request[step] \in {"sta", "login", "hosts"}
      /\ requests \in Seq({"sta", "login", "hosts"}) /\ Len(requests) = step - 1
  BY DEF TypeOK, Request, RequestsFollowSteps
<1>b. /\ requests' \in Seq({"sta", "login", "hosts"})
      /\ Len(requests') = step
      /\ \A i \in 1 .. Len(requests) : requests'[i] = requests[i]
      /\ requests'[step] = Request[step]
  <2>1. step = Len(requests) + 1
    BY <1>a, LenProperties
  <2> QED BY <1>a, <2>1, AppendProperties
<1>1. TypeOK'
  BY <1>b, EmptySeq DEF TypeOK
<1>2. RequestsFollowSteps'
  <2>1. \A i \in 1 .. Len(requests') : requests'[i] = Request[i]
    <3> SUFFICES ASSUME NEW i \in 1 .. Len(requests') PROVE requests'[i] = Request[i]
      OBVIOUS
    <3>1. CASE i = step
      BY <3>1, <1>b
    <3>2. CASE i # step
      <4>1. i \in 1 .. Len(requests)
        BY <3>2, <1>a, <1>b
      <4> QED BY <4>1, <1>b DEF RequestsFollowSteps
    <3> QED BY <3>1, <3>2
  <2>2. answered' <= Len(requests')
    BY <1>a, <1>b DEF RequestsFollowSteps, TypeOK
  <2> QED
    BY <2>1, <2>2, <1>a, <1>b DEF RequestsFollowSteps, Reading
<1>3. LoginIsTold'
  BY <1>0 DEF LoginIsTold, Connected, TellsLogin
<1>4. StreamIsFramed'
  BY <1>0 DEF StreamIsFramed, Connected, Framed, Whole, StartsFrame
<1>5. OutcomeAtEnd'
  BY DEF OutcomeAtEnd
<1>6. WholeAnswer'
  BY DEF WholeAnswer
<1> QED
  BY <1>1, <1>2, <1>3, <1>4, <1>5, <1>6

(* Receiving a piece, of whatever size, leaves the stream where it was.    *)
LEMMA ReceiveKeeps ==
    ASSUME SessionInvariant, Receive
    PROVE  SessionInvariant'
<1> USE DEF SessionInvariant, router
<1>0. Unread' = Unread /\ buf' \in Seq(CellSet) /\ inbound' \in Seq(CellSet)
  BY ReceiveKeepsUnread
<1>a. UNCHANGED <<pc, step, header, outcome, records, requests, router, flight>> /\ Reading
  BY DEF Receive
<1>1. TypeOK'
  BY <1>0, <1>a DEF TypeOK
<1>2. RequestsFollowSteps'
  BY <1>a DEF RequestsFollowSteps, Reading
<1>3. LoginIsTold'
  BY <1>0, <1>a DEF LoginIsTold, Connected, TellsLogin
<1>4. StreamIsFramed'
  BY <1>0, <1>a DEF StreamIsFramed, Connected, Framed, Whole, StartsFrame, GoesOnWith
<1>5. OutcomeAtEnd'
  BY <1>a DEF OutcomeAtEnd
<1>6. WholeAnswer'
  BY <1>a DEF WholeAnswer
<1> QED
  BY <1>1, <1>2, <1>3, <1>4, <1>5, <1>6

(* So does the delivery of a piece.                                        *)
LEMMA DeliverKeeps ==
    ASSUME SessionInvariant, Deliver
    PROVE  SessionInvariant'
<1> USE DEF SessionInvariant, router
<1>0. Unread' = Unread /\ inbound' \in Seq(CellSet) /\ flight' \in Seq(CellSet)
  BY DeliverKeepsUnread
<1>a. UNCHANGED <<client, requests, router>> /\ Live
  BY DEF Deliver
<1>1. TypeOK'
  BY <1>0, <1>a DEF TypeOK, client
<1>2. RequestsFollowSteps'
  BY <1>a DEF RequestsFollowSteps, Reading, client, Live
<1>3. LoginIsTold'
  BY <1>0, <1>a DEF LoginIsTold, Connected, TellsLogin, client
<1>4. StreamIsFramed'
  BY <1>0, <1>a DEF StreamIsFramed, Connected, Framed, Whole, StartsFrame, GoesOnWith, client
<1>5. OutcomeAtEnd'
  BY <1>a DEF OutcomeAtEnd, client
<1>6. WholeAnswer'
  BY <1>a DEF WholeAnswer, client
<1> QED
  BY <1>1, <1>2, <1>3, <1>4, <1>5, <1>6

(* The header of the next frame is what was read of it, and the rest of    *)
(* the stream is its payload and the frames after it.                      *)
LEMMA ReadHeaderKeeps ==
    ASSUME SessionInvariant, ReadHeader
    PROVE  SessionInvariant'
<1> USE DEF SessionInvariant, router
<1>1. CASE buf[1].pos = 1 /\ buf[1].frame.magic
  <2>1. /\ pc = "header" /\ pc' = "body" /\ header' = buf[1].frame /\ buf' = <<>>
        /\ UNCHANGED <<step, outcome, records, requests, router, flight, inbound>>
        /\ Reading /\ ReadIsFull /\ Size = HeaderCells
    BY <1>1 DEF ReadHeader, Reading, Size
  <2>2. /\ HeaderCells \in 0 .. Len(Unread)
        /\ Suffix(Unread, HeaderCells) = inbound \o flight
        /\ \A i \in 1 .. HeaderCells : buf[i] = Unread[i]
    BY <2>1, UsingDrops
  <2>3. HeaderCells \in Nat \ {0} /\ 1 \in 1 .. HeaderCells
    BY SessionParameters
  <2>4. Unread' = Suffix(Unread, HeaderCells)
    <3>1. Reading'
      BY <2>1 DEF Reading
    <3>2. inbound \o flight \in Seq(CellSet)
      BY UnreadType
    <3>3. <<>> \o (inbound \o flight) = inbound \o flight
      BY <3>2, ConcatEmptySeq
    <3> QED BY <2>1, <2>2, <3>1, <3>3 DEF Unread
  <2>5. /\ Unread \in Seq(CellSet) /\ HeaderCells <= Len(Unread) /\ Len(Unread) \in Nat
        /\ buf[1] = Unread[1] /\ Unread[1].pos = 1
    BY <1>1, <2>2, <2>3, UnreadType
  <2>6. Framed(Unread) /\ (~closed => Whole(Unread))
    BY <2>1 DEF StreamIsFramed, Connected
  <2>7. /\ header' \in Frames
        /\ GoesOnWith(Unread', header')
        /\ ~closed => header'.len <= Len(Unread')
    BY <2>1, <2>4, <2>5, <2>6, AfterHeader
  <2>8. /\ Framed(Unread') /\ (~closed => Whole(Unread'))
        /\ Len(Unread') = Len(Unread) - HeaderCells
        /\ \A i \in 1 .. Len(Unread) - HeaderCells : Unread'[i] = Unread[HeaderCells + i]
    BY <2>2, <2>4, <2>5, <2>6, SuffixFramed
  <2>9. TypeOK'
    BY <2>1, <2>7, EmptySeq DEF TypeOK
  <2>10. RequestsFollowSteps'
    BY <2>1 DEF RequestsFollowSteps, Reading
  <2>11. LoginIsTold'
    <3>1. \A i \in 1 .. Len(Unread) : TellsLogin(Unread[i].frame, answered, accepted)
      BY <2>1 DEF LoginIsTold, Connected
    <3>2. \A f : TellsLogin(f, answered, accepted) => TellsLogin(f, answered', accepted')
      BY <2>1 DEF TellsLogin
    <3>3. \A i \in 1 .. Len(Unread') : TellsLogin(Unread'[i].frame, answered, accepted)
      <4> SUFFICES ASSUME NEW i \in 1 .. Len(Unread') PROVE TellsLogin(Unread'[i].frame, answered, accepted)
        OBVIOUS
      <4>1. i \in 1 .. Len(Unread) - HeaderCells /\ HeaderCells + i \in 1 .. Len(Unread)
        BY <2>3, <2>5, <2>8
      <4> QED BY <4>1, <3>1, <2>8
    <3>4. TellsLogin(header', answered, accepted)
      BY <3>1, <2>1, <2>3, <2>5
    <3> QED
      BY <2>1, <2>7, <3>3, <3>4 DEF LoginIsTold, Connected, TellsLogin
  <2>12. StreamIsFramed'
    BY <2>1, <2>7, <2>8 DEF StreamIsFramed, Connected, Framed, Whole, GoesOnWith
  <2>13. OutcomeAtEnd' /\ WholeAnswer'
    BY <2>1 DEF OutcomeAtEnd, WholeAnswer
  <2> QED
    BY <2>9, <2>10, <2>11, <2>12, <2>13
<1>2. CASE ~(buf[1].pos = 1 /\ buf[1].frame.magic)
  <2>1. Fail("error") /\ UNCHANGED <<requests, router, flight, inbound>>
    BY <1>2 DEF ReadHeader
  <2> QED BY <2>1, FailureKeeps
<1> QED
  BY <1>1, <1>2

(* A payload read to its end is the header's whole payload, and the stream *)
(* goes on with a frame.                                                   *)
LEMMA PayloadIsWhole ==
    ASSUME SessionInvariant, pc = "body", ReadIsFull
    PROVE  /\ header \in Frames
           /\ buf = PayloadOf(header)
           /\ header.len \in 0 .. Len(Unread)
           /\ Suffix(Unread, header.len) = inbound \o flight
           /\ StartsFrame(Suffix(Unread, header.len))
<1> USE DEF SessionInvariant
<1>1. header \in Frames /\ GoesOnWith(Unread, header)
  BY DEF StreamIsFramed, Connected
<1>2. Reading /\ Size = header.len
  BY DEF Reading, Size
<1>3. /\ Len(buf) = header.len /\ header.len \in 0 .. Len(Unread)
      /\ Suffix(Unread, header.len) = inbound \o flight
      /\ \A i \in 1 .. header.len : buf[i] = Unread[i]
  BY <1>2, UsingDrops
<1>4. header.len \in Nat /\ HeaderCells \in Nat \ {0}
  BY <1>1, CellsOfFrame
<1>5. /\ Cells(header) \in Seq(CellSet) /\ Len(Cells(header)) = HeaderCells + header.len
      /\ \A i \in 1 .. HeaderCells + header.len :
            Cells(header)[i] = [frame |-> header, pos |-> i]
  BY <1>1, CellsOfFrame
<1>6. /\ PayloadOf(header) \in Seq(CellSet) /\ Len(PayloadOf(header)) = header.len
      /\ \A i \in 1 .. header.len :
            PayloadOf(header)[i] = [frame |-> header, pos |-> HeaderCells + i]
  <2>1. HeaderCells \in 0 .. Len(Cells(header))
    BY <1>4, <1>5
  <2>2. PayloadOf(header) = Suffix(Cells(header), HeaderCells)
    BY <1>5 DEF PayloadOf, Suffix
  <2>3. /\ PayloadOf(header) \in Seq(CellSet)
        /\ Len(PayloadOf(header)) = Len(Cells(header)) - HeaderCells
        /\ \A i \in 1 .. Len(Cells(header)) - HeaderCells :
              PayloadOf(header)[i] = Cells(header)[HeaderCells + i]
    <3> DEFINE c == Cells(header)
    <3>1. c \in Seq(CellSet) /\ HeaderCells \in 0 .. Len(c)
      BY <2>1, <1>5
    <3>2. PayloadOf(header) = Suffix(c, HeaderCells)
      BY <2>2
    <3> HIDE DEF c
    <3>3. /\ Suffix(c, HeaderCells) \in Seq(CellSet)
          /\ Len(Suffix(c, HeaderCells)) = Len(c) - HeaderCells
          /\ \A i \in 1 .. Len(c) - HeaderCells : Suffix(c, HeaderCells)[i] = c[HeaderCells + i]
      BY <3>1, SuffixFramed
    <3> QED BY <3>2, <3>3 DEF c
  <2>4. /\ Len(Cells(header)) - HeaderCells = header.len
        /\ \A i \in 1 .. header.len : HeaderCells + i \in 1 .. HeaderCells + header.len
    BY <1>4, <1>5
  <2> QED BY <2>3, <2>4, <1>5
<1>7. \A i \in 1 .. header.len : buf[i] = PayloadOf(header)[i]
  <2> SUFFICES ASSUME NEW i \in 1 .. header.len PROVE buf[i] = PayloadOf(header)[i]
    OBVIOUS
  <2>1. i \in 1 .. Len(Unread) /\ i <= header.len
    BY <1>3, <1>4
  <2>2. Unread[i] = [frame |-> header, pos |-> HeaderCells + i]
    BY <2>1, <1>1 DEF GoesOnWith
  <2> QED BY <2>2, <1>3, <1>6
<1>8. buf = PayloadOf(header)
  <2>1. buf \in Seq(CellSet)
    BY DEF TypeOK
  <2> QED BY <2>1, <1>3, <1>6, <1>7, SeqEqual
<1>9. StartsFrame(Suffix(Unread, header.len))
  <2>1. Unread \in Seq(CellSet) /\ header.len <= Len(Unread)
    BY <1>3, UnreadType
  <2> QED BY <1>1, <2>1, AfterPayload
<1> QED
  BY <1>1, <1>3, <1>8, <1>9

(* The next step begins with a frame, the last one past the login.         *)
LEMMA ProceedKeeps ==
    ASSUME SessionInvariant, pc = "body", ReadIsFull, Proceed,
           UNCHANGED <<requests, router, flight, inbound>>,
           \/ step = 1
           \/ step = 2 /\ ExpectResponse(header) /\ header.body \in {"ok", "garbled"}
    PROVE  SessionInvariant'
<1> USE DEF SessionInvariant, Proceed, router
<1>1. /\ header.len \in 0 .. Len(Unread)
      /\ Suffix(Unread, header.len) = inbound \o flight
      /\ StartsFrame(Suffix(Unread, header.len))
  BY PayloadIsWhole
<1>2. Unread' = Suffix(Unread, header.len)
  <2>1. inbound \o flight \in Seq(CellSet) /\ ~Reading'
    BY UnreadType DEF Reading
  <2> QED BY <2>1, <1>1, ConcatEmptySeq DEF Unread
<1>3. Unread \in Seq(CellSet) /\ Framed(Unread) /\ (~closed => Whole(Unread)) /\ Len(Unread) \in Nat
  BY UnreadType DEF StreamIsFramed, Connected
<1>4. /\ Framed(Unread') /\ (~closed => Whole(Unread')) /\ StartsFrame(Unread')
      /\ Len(Unread') = Len(Unread) - header.len
      /\ \A i \in 1 .. Len(Unread) - header.len : Unread'[i] = Unread[header.len + i]
  BY <1>1, <1>2, <1>3, SuffixFramed
<1>5. TypeOK'
  BY DEF TypeOK
<1>6. RequestsFollowSteps'
  <2>1. Len(requests) = step /\ step \in 1 .. 2
    BY DEF RequestsFollowSteps, Reading
  <2> QED BY <2>1 DEF RequestsFollowSteps, Reading
<1>7. LoginIsTold'
  <2>1. step' = 3 => accepted'
    <3>1. ASSUME step = 2, ExpectResponse(header), header.body \in {"ok", "garbled"}
          PROVE  accepted
      <4>1. TellsLogin(header, answered, accepted)
        BY DEF LoginIsTold
      <4>2. header.kind = "resp" /\ header.what = "login"
        BY <3>1 DEF ExpectResponse, Request
      <4> QED BY <4>1, <4>2, <3>1 DEF TellsLogin
    <3> QED BY <3>1
  <2>2. \A i \in 1 .. Len(Unread') : TellsLogin(Unread'[i].frame, answered, accepted)
    <3> SUFFICES ASSUME NEW i \in 1 .. Len(Unread') PROVE TellsLogin(Unread'[i].frame, answered, accepted)
      OBVIOUS
    <3>1. i \in 1 .. Len(Unread) - header.len /\ header.len + i \in 1 .. Len(Unread)
      BY <1>1, <1>3, <1>4
    <3> QED BY <3>1, <1>4 DEF LoginIsTold, Connected
  <2> QED
    BY <2>1, <2>2 DEF LoginIsTold, TellsLogin, Connected
<1>8. StreamIsFramed'
  BY <1>4 DEF StreamIsFramed, Connected, Framed, Whole, StartsFrame
<1>9. OutcomeAtEnd' /\ WholeAnswer'
  BY DEF OutcomeAtEnd, WholeAnswer
<1> QED
  BY <1>5, <1>6, <1>7, <1>8, <1>9

(* The answer of each step: a failure, the next step, or the clients.      *)
LEMMA ReadBodyKeeps ==
    ASSUME SessionInvariant, ReadBody
    PROVE  SessionInvariant'
<1>0. /\ pc = "body" /\ ReadIsFull
      /\ UNCHANGED <<requests, router, flight, inbound>>
  BY DEF ReadBody
<1>1. CASE ~ExpectResponse(header) /\ Fail("error")
  BY <1>0, <1>1, FailureKeeps
<1>2. ASSUME ExpectResponse(header), UseAnswer(header)
      PROVE  SessionInvariant'
  <2>1. CASE step = 1 /\ Proceed
    BY <1>0, <2>1, ProceedKeeps
  <2>2. CASE Fail("error")
    BY <1>0, <2>2, FailureKeeps
  <2>3. CASE Fail("auth_error")
    BY <1>0, <2>3, FailureKeeps
  <2>4. CASE step = 2 /\ header.body \in {"ok", "garbled"} /\ Proceed
    BY <1>0, <1>2, <2>4, ProceedKeeps
  <2>5. CASE step = 3 /\ header.body = "ok" /\ Return
    <3> USE DEF SessionInvariant, Return, End, router
    <3>1. header \in Frames /\ buf = PayloadOf(header)
      BY <1>0, PayloadIsWhole
    <3>2. header.what = "hosts"
      BY <1>2, <2>5 DEF ExpectResponse, Request
    <3>3. TypeOK'
      BY <1>0, <2>5 DEF TypeOK
    <3>4. RequestsFollowSteps'
      BY <1>0, <2>5 DEF RequestsFollowSteps, Reading
    <3>5. LoginIsTold'
      BY <1>0, <2>5 DEF LoginIsTold, Connected
    <3>6. StreamIsFramed'
      BY <2>5 DEF StreamIsFramed, Connected
    <3>7. OutcomeAtEnd'
      BY <2>5 DEF OutcomeAtEnd
    <3>8. WholeAnswer'
      BY <2>5, <3>1, <3>2 DEF WholeAnswer
    <3> QED BY <3>3, <3>4, <3>5, <3>6, <3>7, <3>8
  <2> QED
    BY <1>2, <2>1, <2>2, <2>3, <2>4, <2>5 DEF UseAnswer
<1> QED
  BY <1>1, <1>2 DEF ReadBody

(* The next poll begins with a connection of its own.                      *)
LEMMA NextPollKeeps ==
    ASSUME SessionInvariant, NextPoll
    PROVE  SessionInvariant'
<1> USE DEF SessionInvariant, NextPoll
<1>1. TypeOK'
  <2>1. <<>> \in Seq(CellSet) /\ <<>> \in Seq({"sta", "login", "hosts"})
    BY EmptySeq
  <2>2. 0 \in 0 .. MaxNotices /\ 0 \in 0 .. 3 /\ 1 \in 1 .. 3
    BY SessionParameters
  <2> QED BY <2>1, <2>2 DEF TypeOK
<1>2. RequestsFollowSteps'
  BY EmptySeq DEF RequestsFollowSteps, Reading
<1>3. LoginIsTold'
  BY DEF LoginIsTold, Connected
<1>4. StreamIsFramed'
  BY DEF StreamIsFramed, Connected
<1>5. OutcomeAtEnd'
  BY DEF OutcomeAtEnd
<1>6. WholeAnswer'
  BY SessionParameters DEF WholeAnswer
<1> QED
  BY <1>1, <1>2, <1>3, <1>4, <1>5, <1>6

(* A frame more, while the connection is up: the stream stays framed,      *)
(* whole, and where it was.                                                *)
LEMMA SendingKeepsFramed ==
    ASSUME SessionInvariant, NEW f \in Frames, Live, ~closed,
           flight' = flight \o Cells(f), UNCHANGED <<client, closed, inbound>>
    PROVE  /\ StreamIsFramed' /\ flight' \in Seq(CellSet)
           /\ \A i \in 1 .. Len(Unread') :
                 \/ i \in 1 .. Len(Unread) /\ Unread'[i] = Unread[i]
                 \/ Unread'[i].frame = f
<1> USE DEF SessionInvariant
<1>1. Unread' = Unread \o Cells(f) /\ flight' \in Seq(CellSet)
  BY SendingAppends
<1>2. Connected
  BY DEF Live, Connected, TypeOK
<1>3. Unread \in Seq(CellSet) /\ Framed(Unread) /\ Whole(Unread) /\ Len(Unread) \in Nat
  BY <1>2, UnreadType DEF StreamIsFramed
<1>4. /\ Len(Unread') = Len(Unread) + HeaderCells + f.len
      /\ \A i \in 1 .. Len(Unread) : Unread'[i] = Unread[i]
      /\ \A i \in 1 .. HeaderCells + f.len :
            Unread'[Len(Unread) + i] = [frame |-> f, pos |-> i]
      /\ Framed(Unread') /\ Whole(Unread')
      /\ StartsFrame(Unread) => StartsFrame(Unread')
      /\ \A h \in Frames :
            GoesOnWith(Unread, h) /\ h.len <= Len(Unread) => GoesOnWith(Unread', h)
  <2> DEFINE s == Unread
             t == s \o Cells(f)
  <2>1. s \in Seq(CellSet) /\ Framed(s) /\ Whole(s) /\ Unread' = t
    BY <1>1, <1>3
  <2> HIDE DEF s
  <2>2. /\ Len(t) = Len(s) + HeaderCells + f.len
        /\ \A i \in 1 .. Len(s) : t[i] = s[i]
        /\ \A i \in 1 .. HeaderCells + f.len : t[Len(s) + i] = [frame |-> f, pos |-> i]
        /\ Framed(t) /\ Whole(t)
        /\ StartsFrame(s) => StartsFrame(t)
        /\ \A h \in Frames :
              GoesOnWith(s, h) /\ h.len <= Len(s) => GoesOnWith(t, h)
    BY <2>1, AppendedFramed
  <2> HIDE DEF t
  <2> QED BY <2>1, <2>2, Zenon DEF s
<1>5. UNCHANGED <<pc, header, closed>>
  BY DEF client
<1>6. f.len \in Nat /\ HeaderCells \in Nat \ {0}
  BY CellsOfFrame
<1>7. StreamIsFramed'
  <2>1. pc' # "body" => StartsFrame(Unread')
    BY <1>2, <1>4, <1>5 DEF StreamIsFramed
  <2>2. ASSUME pc' = "body"
        PROVE  header' \in Frames /\ GoesOnWith(Unread', header') /\ header'.len <= Len(Unread')
    <3>1. header \in Frames /\ GoesOnWith(Unread, header) /\ header.len <= Len(Unread)
      BY <2>2, <1>2, <1>5 DEF StreamIsFramed
    <3>2. header.len \in Nat
      BY <3>1, CellsOfFrame
    <3> QED BY <3>1, <3>2, <1>3, <1>4, <1>5, <1>6
  <2> QED
    BY <2>1, <2>2, <1>4, <1>5 DEF StreamIsFramed, Framed, Whole, StartsFrame, GoesOnWith
<1>8. ASSUME NEW i \in 1 .. Len(Unread'), ~(i \in 1 .. Len(Unread))
      PROVE  Unread'[i].frame = f
  <2> DEFINE l == Len(Unread)
             m == Len(Unread')
             k == f.len
  <2>1. /\ l \in Nat /\ k \in Nat /\ HeaderCells \in Nat /\ m = l + HeaderCells + k
        /\ i \in 1 .. m /\ ~(i \in 1 .. l)
    BY <1>3, <1>4, <1>6, <1>8
  <2> HIDE DEF l, m, k
  <2>2. i - l \in 1 .. HeaderCells + k /\ i = l + (i - l)
    BY <2>1
  <2>3. Unread'[l + (i - l)] = [frame |-> f, pos |-> i - l]
    BY <2>2, <1>4 DEF l, k
  <2> QED BY <2>2, <2>3
<1> QED
  BY <1>1, <1>4, <1>7, <1>8

(* The one login answer of a session settles its acceptance.               *)
LEMMA AnswerKeeps ==
    ASSUME SessionInvariant, NEW f \in Frames, Answer(f)
    PROVE  SessionInvariant'
<1> USE DEF SessionInvariant
<1>0. /\ UNCHANGED <<pc, step, header, buf, outcome, records, requests, notices, closed, inbound>>
      /\ Live /\ ~closed /\ flight' = flight \o Cells(f) /\ f.kind = "resp"
      /\ answered < Len(requests) /\ answered' = answered + 1
      /\ accepted' = (accepted \/ (f.what = "login" /\ f.body \in {"ok", "garbled"}))
      /\ f.what \in {requests[answered + 1], "foreign"}
  BY DEF Answer, client
<1>1. /\ StreamIsFramed' /\ flight' \in Seq(CellSet)
      /\ \A i \in 1 .. Len(Unread') :
            \/ i \in 1 .. Len(Unread) /\ Unread'[i] = Unread[i]
            \/ Unread'[i].frame = f
  BY <1>0, SendingKeepsFramed DEF client
<1>2. /\ answered \in 0 .. 2 /\ step \in 1 .. 3 /\ Len(requests) \in Nat /\ Len(requests) <= step
      /\ requests[answered + 1] = Request[answered + 1]
  <2>1. /\ Len(requests) \in Nat /\ step \in 1 .. 3 /\ answered \in 0 .. 3
        /\ Len(requests) <= step /\ answered < Len(requests)
    BY <1>0, LenProperties DEF TypeOK, RequestsFollowSteps
  <2>2. answered \in 0 .. 2 /\ answered + 1 \in 1 .. Len(requests)
    BY <2>1
  <2>3. requests[answered + 1] = Request[answered + 1]
    BY <2>2 DEF RequestsFollowSteps
  <2> QED BY <2>1, <2>2, <2>3
<1>3. Connected /\ Connected'
  BY <1>0 DEF Live, Connected, TypeOK
<1>4. f.what = "login" => answered = 1
  BY <1>0, <1>2 DEF Request
<1>5. answered >= 2 => accepted' = accepted
  BY <1>0, <1>4 DEF TypeOK
<1>6. TypeOK'
  <2>1. accepted' \in BOOLEAN
    BY <1>0 DEF TypeOK
  <2>2. answered' \in 0 .. 3
    BY <1>0, <1>2
  <2> QED BY <1>0, <1>1, <2>1, <2>2 DEF TypeOK
<1>7. RequestsFollowSteps'
  BY <1>0, <1>2 DEF RequestsFollowSteps, Reading, Live
<1>8. LoginIsTold'
  <2>1. ASSUME NEW g, TellsLogin(g, answered, accepted)
        PROVE  TellsLogin(g, answered', accepted')
    BY <2>1, <1>0, <1>2, <1>5 DEF TellsLogin
  <2>2. TellsLogin(f, answered', accepted')
    <3>1. ASSUME f.what = "login"
          PROVE  answered' >= 2 /\ (accepted' <=> f.body \in {"ok", "garbled"})
      <4>1. answered = 1 /\ ~accepted
        BY <3>1, <1>4 DEF LoginIsTold
      <4>2. answered' >= 2
        BY <4>1, <1>0
      <4> QED BY <3>1, <4>1, <4>2, <1>0
    <3> QED BY <3>1 DEF TellsLogin
  <2>3. answered' < 2 => ~accepted'
    <3>1. answered' < 2 => answered = 0
      BY <1>0, <1>2
    <3>2. answered = 0 => ~accepted /\ f.what # "login"
      BY <1>4 DEF LoginIsTold
    <3> QED BY <3>1, <3>2, <1>0
  <2>4. \A i \in 1 .. Len(Unread') : TellsLogin(Unread'[i].frame, answered', accepted')
    <3> SUFFICES ASSUME NEW i \in 1 .. Len(Unread') PROVE TellsLogin(Unread'[i].frame, answered', accepted')
      OBVIOUS
    <3>1. CASE i \in 1 .. Len(Unread) /\ Unread'[i] = Unread[i]
      BY <3>1, <2>1, <1>3 DEF LoginIsTold
    <3>2. CASE Unread'[i].frame = f
      BY <3>2, <2>2
    <3> QED BY <3>1, <3>2, <1>1
  <2>5. pc' = "body" => header' \in Frames /\ TellsLogin(header', answered', accepted')
    BY <2>1, <1>0 DEF LoginIsTold
  <2>6. (step = 3 => accepted)'
    BY <1>0 DEF LoginIsTold
  <2> QED
    BY <2>3, <2>4, <2>5, <2>6 DEF LoginIsTold
<1>9. OutcomeAtEnd' /\ WholeAnswer'
  BY <1>0 DEF OutcomeAtEnd, WholeAnswer
<1> QED
  BY <1>1, <1>6, <1>7, <1>8, <1>9

(* A frame nobody asked for tells nothing of the login.                    *)
LEMMA NotifyKeeps ==
    ASSUME SessionInvariant, NEW f \in Frames, Notify(f)
    PROVE  SessionInvariant'
<1> USE DEF SessionInvariant
<1>0. /\ UNCHANGED <<pc, step, header, buf, outcome, records, requests, answered, closed, accepted, inbound>>
      /\ Live /\ ~closed /\ flight' = flight \o Cells(f) /\ f.kind = "other"
      /\ notices < MaxNotices /\ notices' = notices + 1
  BY DEF Notify, client
<1>1. /\ StreamIsFramed' /\ flight' \in Seq(CellSet)
      /\ \A i \in 1 .. Len(Unread') :
            \/ i \in 1 .. Len(Unread) /\ Unread'[i] = Unread[i]
            \/ Unread'[i].frame = f
  BY <1>0, SendingKeepsFramed DEF client
<1>2. Connected
  BY <1>0 DEF Live, Connected, TypeOK
<1>3. TypeOK'
  <2>1. notices' \in 0 .. MaxNotices
    BY <1>0, SessionParameters DEF TypeOK
  <2> QED BY <1>0, <1>1, <2>1 DEF TypeOK
<1>4. RequestsFollowSteps'
  BY <1>0 DEF RequestsFollowSteps, Reading, Live
<1>5. LoginIsTold'
  <2>1. \A i \in 1 .. Len(Unread') : TellsLogin(Unread'[i].frame, answered, accepted)
    <3> SUFFICES ASSUME NEW i \in 1 .. Len(Unread') PROVE TellsLogin(Unread'[i].frame, answered, accepted)
      OBVIOUS
    <3>1. CASE i \in 1 .. Len(Unread) /\ Unread'[i] = Unread[i]
      BY <3>1, <1>2 DEF LoginIsTold
    <3>2. CASE Unread'[i].frame = f
      BY <3>2, <1>0 DEF TellsLogin
    <3> QED BY <3>1, <3>2, <1>1
  <2> QED
    BY <2>1, <1>0 DEF LoginIsTold, TellsLogin
<1>6. OutcomeAtEnd' /\ WholeAnswer'
  BY <1>0 DEF OutcomeAtEnd, WholeAnswer
<1> QED
  BY <1>1, <1>3, <1>4, <1>5, <1>6

(* A closed connection may cut the stream, and only at its end.            *)
LEMMA CloseKeeps ==
    ASSUME SessionInvariant, RouterCloses
    PROVE  SessionInvariant'
<1> USE DEF SessionInvariant
<1>0. /\ UNCHANGED <<pc, step, header, buf, outcome, records, requests, answered, notices, accepted, inbound>>
      /\ Live /\ closed' = TRUE
  BY DEF RouterCloses, client
<1>1. flight' \in Seq(CellSet) /\ \E m \in 0 .. Len(Unread) : Unread' = SubSeq(Unread, 1, m)
  BY ClosingCuts
<1>2. Connected
  BY <1>0 DEF Live, Connected, TypeOK
<1>3. Unread \in Seq(CellSet) /\ Framed(Unread) /\ Len(Unread) \in Nat
  BY <1>2, UnreadType DEF StreamIsFramed
<1>4. /\ Len(Unread') \in 0 .. Len(Unread)
      /\ \A i \in 1 .. Len(Unread') : Unread'[i] = Unread[i]
      /\ Framed(Unread')
      /\ StartsFrame(Unread) => StartsFrame(Unread')
      /\ \A f \in Frames : GoesOnWith(Unread, f) => GoesOnWith(Unread', f)
  BY <1>1, <1>3, PrefixFramed
<1>5. TypeOK'
  BY <1>0, <1>1 DEF TypeOK
<1>6. RequestsFollowSteps'
  BY <1>0 DEF RequestsFollowSteps, Reading, Live
<1>7. LoginIsTold'
  <2>1. \A i \in 1 .. Len(Unread') : TellsLogin(Unread'[i].frame, answered, accepted)
    <3> SUFFICES ASSUME NEW i \in 1 .. Len(Unread') PROVE TellsLogin(Unread'[i].frame, answered, accepted)
      OBVIOUS
    <3>1. i \in 1 .. Len(Unread) /\ Unread'[i] = Unread[i]
      BY <1>3, <1>4
    <3> QED BY <3>1, <1>2 DEF LoginIsTold
  <2> QED
    BY <2>1, <1>0 DEF LoginIsTold, TellsLogin
<1>8. StreamIsFramed'
  BY <1>0, <1>2, <1>4 DEF StreamIsFramed, Framed, StartsFrame, GoesOnWith
<1>9. OutcomeAtEnd' /\ WholeAnswer'
  BY <1>0 DEF OutcomeAtEnd, WholeAnswer
<1> QED
  BY <1>5, <1>6, <1>7, <1>8, <1>9

-----------------------------------------------------------------------------
(* The session                                                             *)

(* No poll has begun.                                                      *)
LEMMA InitInvariant ==
    ASSUME Init
    PROVE  SessionInvariant
<1> USE DEF Init
<1>1. TypeOK
  <2>1. <<>> \in Seq(CellSet) /\ <<>> \in Seq({"sta", "login", "hosts"})
    BY EmptySeq
  <2>2. 0 \in 0 .. MaxNotices /\ 0 \in 0 .. 3 /\ 1 \in 1 .. 3
    BY SessionParameters
  <2> QED BY <2>1, <2>2 DEF TypeOK
<1>2. RequestsFollowSteps
  BY EmptySeq DEF RequestsFollowSteps, Reading
<1>3. LoginIsTold
  BY DEF LoginIsTold, Connected
<1>4. StreamIsFramed
  BY DEF StreamIsFramed, Connected
<1>5. OutcomeAtEnd /\ WholeAnswer
  BY SessionParameters DEF OutcomeAtEnd, WholeAnswer
<1> QED
  BY <1>1, <1>2, <1>3, <1>4, <1>5 DEF SessionInvariant

(* A step of another program changes nothing here.                         *)
LEMMA StutterKeeps ==
    ASSUME SessionInvariant, UNCHANGED vars
    PROVE  SessionInvariant'
<1> USE DEF SessionInvariant, vars, client, router
<1>0. Unread' = Unread
  BY DEF Unread, Reading
<1>1. TypeOK'
  BY DEF TypeOK
<1>2. RequestsFollowSteps'
  BY DEF RequestsFollowSteps, Reading
<1>3. LoginIsTold'
  BY <1>0 DEF LoginIsTold, Connected, TellsLogin
<1>4. StreamIsFramed'
  BY <1>0 DEF StreamIsFramed, Connected, Framed, Whole, StartsFrame, GoesOnWith
<1>5. OutcomeAtEnd' /\ WholeAnswer'
  BY DEF OutcomeAtEnd, WholeAnswer
<1> QED
  BY <1>1, <1>2, <1>3, <1>4, <1>5

(* One case to an action.                                                  *)
LEMMA StepKeeps ==
    ASSUME SessionInvariant, Next
    PROVE  SessionInvariant'
<1>1. CASE BeginPoll
  BY <1>1, BeginKeeps
<1>2. CASE Connect
  BY <1>2, ConnectKeeps
<1>3. CASE ConnectFails
  BY <1>3, FailureKeeps DEF ConnectFails
<1>4. CASE SendRequest
  BY <1>4, SendKeeps
<1>5. CASE SendFails
  BY <1>5, FailureKeeps DEF SendFails
<1>6. CASE Receive
  BY <1>6, ReceiveKeeps
<1>7. CASE ReceiveEnd
  BY <1>7, FailureKeeps DEF ReceiveEnd
<1>8. CASE ReceiveTimesOut
  BY <1>8, FailureKeeps DEF ReceiveTimesOut
<1>9. CASE ReadHeader
  BY <1>9, ReadHeaderKeeps
<1>10. CASE ReadBody
  BY <1>10, ReadBodyKeeps
<1>11. CASE NextPoll
  BY <1>11, NextPollKeeps
<1>12. ASSUME NEW f \in Frames, Answer(f) PROVE SessionInvariant'
  BY <1>12, AnswerKeeps
<1>13. ASSUME NEW f \in Frames, Notify(f) PROVE SessionInvariant'
  BY <1>13, NotifyKeeps
<1>14. CASE RouterCloses
  BY <1>14, CloseKeeps
<1>15. CASE Deliver
  BY <1>15, DeliverKeeps
<1> QED
  BY <1>1, <1>2, <1>3, <1>4, <1>5, <1>6, <1>7, <1>8, <1>9, <1>10, <1>11, <1>12,
     <1>13, <1>14, <1>15 DEF Next, GetClients

(* The inductive invariant holds in every state of every session.          *)
THEOREM SessionInductive == Spec => []SessionInvariant
<1>1. Init => SessionInvariant
  BY InitInvariant
<1>2. SessionInvariant /\ [Next]_vars => SessionInvariant'
  BY StepKeeps, StutterKeeps
<1> QED
  BY <1>1, <1>2, PTL DEF Spec

(* get_clients, the router and the network keep the types of the session.  *)
THEOREM SessionTypeCorrect == Spec => []TypeOK
<1>1. SessionInvariant => TypeOK
  BY DEF SessionInvariant
<1> QED
  BY <1>1, SessionInductive, PTL

(* However recv cuts the stream, _recv_frame reads every header from a     *)
(* frame's first byte (Aligned).                                           *)
THEOREM HeadersAreAligned == Spec => []Aligned
<1>1. SessionInvariant => Aligned
  <2> SUFFICES ASSUME SessionInvariant, pc = "header"
               PROVE  buf \o inbound \o flight # <<>> =>
                          (buf \o inbound \o flight)[1].pos = 1
    BY DEF Aligned
  <2>1. StartsFrame(Unread)
    BY DEF SessionInvariant, StreamIsFramed, Connected
  <2>2. Unread = buf \o inbound \o flight
    <3>1. buf \in Seq(CellSet) /\ inbound \in Seq(CellSet) /\ flight \in Seq(CellSet)
      BY DEF SessionInvariant, TypeOK
    <3>2. (buf \o inbound) \o flight = buf \o (inbound \o flight)
      BY <3>1, CellConcat
    <3> QED BY <3>2 DEF Unread, Reading
  <2> QED BY <2>1, <2>2 DEF StartsFrame
<1> QED
  BY <1>1, SessionInductive, PTL

(* get_clients asks for the host list only where the router has accepted   *)
(* the login (HostsAskedAfterLogin).                                       *)
THEOREM HostListNeedsLogin == Spec => []HostsAskedAfterLogin
<1>1. SessionInvariant => HostsAskedAfterLogin
  <2> SUFFICES ASSUME SessionInvariant, NEW i \in 1 .. Len(requests), requests[i] = "hosts"
               PROVE  accepted
    BY DEF HostsAskedAfterLogin, Contains
  <2>1. Request[i] = "hosts" /\ Len(requests) <= step /\ step \in 1 .. 3
    BY DEF SessionInvariant, RequestsFollowSteps, TypeOK
  <2>2. Len(requests) \in Nat
    BY LenProperties DEF SessionInvariant, TypeOK
  <2>3. i \in 1 .. 3
    BY <2>1, <2>2
  <2>4. i = 3
    BY <2>1, <2>3 DEF Request
  <2>5. step = 3
    BY <2>1, <2>2, <2>4
  <2> QED BY <2>5 DEF SessionInvariant, LoginIsTold
<1> QED
  BY <1>1, SessionInductive, PTL

(* The clients get_clients returns are decoded from one whole host-list    *)
(* payload (WholeAnswer).                                                  *)
THEOREM ClientsComeFromWholeAnswer == Spec => []WholeAnswer
<1>1. SessionInvariant => WholeAnswer
  BY DEF SessionInvariant
<1> QED
  BY <1>1, SessionInductive, PTL

-----------------------------------------------------------------------------
(* The session implements HostPoll, step by step.                          *)

(* Only an answer changes whether the login is accepted, and an answer     *)
(* never takes an accepted login back.                                     *)
LEMMA AnswerSimulates ==
    ASSUME SessionInvariant, NEW f \in Frames, Answer(f)
    PROVE  [Poll!Next]_Poll!vars
<1>1. /\ pc' = pc /\ outcome' = outcome /\ pc \notin {"idle", "done"}
      /\ accepted' = (accepted \/ (f.what = "login" /\ f.body \in {"ok", "garbled"}))
  BY DEF Answer, client, Live
<1>2. accepted \in BOOLEAN
  BY DEF SessionInvariant, TypeOK
<1>3. accepted' = accepted \/ accepted' = TRUE
  BY <1>1, <1>2
<1>4. CASE accepted' = accepted
  BY <1>1, <1>4 DEF Poll!vars
<1>5. CASE accepted' = TRUE
  <2>1. Poll!Grant
    BY <1>1, <1>5 DEF Poll!Grant
  <2> QED BY <2>1 DEF Poll!Next
<1> QED
  BY <1>3, <1>4, <1>5

(* A failure is an outcome the poll may have; a refusal is one only where  *)
(* the login was not accepted.                                             *)
LEMMA FailureSimulates ==
    ASSUME NEW o \in {"auth_error", "error", "os_error"}, Fail(o), UNCHANGED router,
           pc \notin {"idle", "done"}, o = "auth_error" => ~accepted
    PROVE  [Poll!Next]_Poll!vars
<1>1. Poll!Finish(o)
  BY DEF Poll!Finish, Fail, End, router
<1>2. o \in Poll!Outcomes
  BY DEF Poll!Outcomes
<1> QED
  BY <1>1, <1>2 DEF Poll!Next

(* An answer ends the poll as it may end, or is not seen by it.            *)
LEMMA ReadBodySimulates ==
    ASSUME SessionInvariant, ReadBody
    PROVE  [Poll!Next]_Poll!vars
<1>0. pc = "body" /\ UNCHANGED router /\ UNCHANGED <<closed, accepted>>
  BY DEF ReadBody, router
<1>1. CASE Fail("error")
  BY <1>0, <1>1, FailureSimulates
<1>2. ASSUME ExpectResponse(header), UseAnswer(header)
      PROVE  [Poll!Next]_Poll!vars
  <2>1. CASE Proceed
    BY <1>0, <2>1 DEF Proceed, Poll!vars
  <2>2. CASE step = 2 /\ header.body = "refused" /\ Fail("auth_error")
    <3>1. TellsLogin(header, answered, accepted)
      BY <1>0 DEF SessionInvariant, LoginIsTold
    <3>2. header.kind = "resp" /\ header.what = "login"
      BY <1>2, <2>2 DEF ExpectResponse, Request
    <3>3. ~accepted
      BY <3>1, <3>2, <2>2 DEF TellsLogin
    <3> QED BY <1>0, <2>2, <3>3, FailureSimulates
  <2>3. CASE step = 3 /\ Return
    <3>1. accepted
      BY <2>3 DEF SessionInvariant, LoginIsTold
    <3>2. Poll!Finish("clients")
      BY <1>0, <2>3, <3>1 DEF Poll!Finish, Return, End
    <3> QED BY <3>2 DEF Poll!Next, Poll!Outcomes
  <2> QED
    BY <1>1, <1>2, <2>1, <2>2, <2>3 DEF UseAnswer
<1> QED
  BY <1>1, <1>2 DEF ReadBody

(* Every step is a step of the poll or one it does not see.                *)
LEMMA StepSimulates ==
    ASSUME SessionInvariant, [Next]_vars
    PROVE  [Poll!Next]_Poll!vars
<1>1. CASE BeginPoll
  <2>1. Poll!Start
    BY <1>1 DEF BeginPoll, Poll!Start, router
  <2> QED BY <2>1 DEF Poll!Next
<1>2. CASE Connect
  BY <1>2 DEF Connect, Poll!vars, router
<1>3. CASE ConnectFails
  BY <1>3, FailureSimulates DEF ConnectFails
<1>4. CASE SendRequest
  BY <1>4 DEF SendRequest, Poll!vars, router
<1>5. CASE SendFails
  BY <1>5, FailureSimulates DEF SendFails
<1>6. CASE Receive
  BY <1>6 DEF Receive, Poll!vars, router
<1>7. CASE ReceiveEnd
  BY <1>7, FailureSimulates DEF ReceiveEnd, Reading
<1>8. CASE ReceiveTimesOut
  BY <1>8, FailureSimulates DEF ReceiveTimesOut, Reading
<1>9. CASE ReadHeader
  <2>1. CASE Fail("error")
    BY <1>9, <2>1, FailureSimulates DEF ReadHeader
  <2>2. CASE pc' = "body" /\ UNCHANGED outcome
    BY <1>9, <2>2 DEF ReadHeader, Poll!vars, router
  <2> QED BY <1>9, <2>1, <2>2 DEF ReadHeader
<1>10. CASE ReadBody
  BY <1>10, ReadBodySimulates
<1>11. CASE NextPoll
  <2>1. Poll!Again
    BY <1>11 DEF NextPoll, Poll!Again
  <2> QED BY <2>1 DEF Poll!Next
<1>12. ASSUME NEW f \in Frames, Answer(f) PROVE [Poll!Next]_Poll!vars
  BY <1>12, AnswerSimulates
<1>13. ASSUME NEW f \in Frames, Notify(f) PROVE [Poll!Next]_Poll!vars
  BY <1>13 DEF Notify, client, Poll!vars
<1>14. CASE RouterCloses
  BY <1>14 DEF RouterCloses, client, Poll!vars
<1>15. CASE Deliver
  BY <1>15 DEF Deliver, client, router, Poll!vars
<1>16. CASE UNCHANGED vars
  BY <1>16 DEF vars, client, router, Poll!vars
<1> QED
  BY <1>1, <1>2, <1>3, <1>4, <1>5, <1>6, <1>7, <1>8, <1>9, <1>10, <1>11, <1>12,
     <1>13, <1>14, <1>15, <1>16 DEF Next, GetClients

(* The safety half of ImplementsPoll: every session is a behaviour of the  *)
(* poll its callers rely on, with clients only where the router accepted   *)
(* the login and a refusal only where it did not.                          *)
THEOREM SessionRefinesPoll == Spec => Poll!Init /\ [][Poll!Next]_Poll!vars
<1>1. Init => Poll!Init
  BY DEF Init, Poll!Init
<1>2. SessionInvariant /\ [Next]_vars => [Poll!Next]_Poll!vars
  BY StepSimulates
<1> QED
  BY <1>1, <1>2, SessionInductive, PTL DEF Spec

=============================================================================
