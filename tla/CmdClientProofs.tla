---------------------------- MODULE CmdClientProofs ----------------------------
(***************************************************************************)
(* Proofs about the cmdsrv client.                                         *)
(*                                                                         *)
(* The monitor, for any duration, any number of pieces to a frame and any  *)
(* stream.  A frame is counted when its last piece is taken, so the        *)
(* argument runs on whole frames, pieces divided by Pieces; the provers    *)
(* know little of a division by a parameter, hence the lemmas.             *)
(*                                                                         *)
(* The LZ4 reader, for any well-formed block, wherever it is cut short,    *)
(* and for any width of half a token.  Between two rounds of its loop the  *)
(* reader stands between two steps of the block, with what those before    *)
(* stand for put out, or it is past the end.                               *)
(***************************************************************************)
EXTENDS CmdMonitor, CmdBlock, InductionLemmas, SequenceTheorems

-----------------------------------------------------------------------------
(* Division by a parameter.                                                *)

(* The ranges of quotient and remainder.                                   *)
LEMMA DivisionBy ==
    ASSUME NEW x \in Nat, NEW p \in Nat \ {0}
    PROVE  /\ x \div p \in Nat
           /\ x % p \in 0 .. p - 1
           /\ x = p * (x \div p) + (x % p)
  BY Division

(* Quotient and remainder are unique.                                      *)
LEMMA Quotient ==
    ASSUME NEW p \in Nat \ {0}, NEW q \in Int, NEW r \in 0 .. p - 1,
           NEW s \in Int, NEW t \in 0 .. p - 1, p * q + r = p * s + t
    PROVE  q = s /\ r = t
<1>1. p * (q - s) = t - r
  OBVIOUS
<1>2. CASE q - s >= 1
  <2>1. p * (q - s) >= p
    BY <1>2
  <2> QED BY <2>1, <1>1
<1>3. CASE s - q >= 1
  <2>1. p * (s - q) >= p
    BY <1>3
  <2>2. p * (s - q) = r - t
    OBVIOUS
  <2> QED BY <2>1, <2>2
<1>4. CASE q = s
  BY <1>4
<1> QED
  BY <1>2, <1>3, <1>4

(* One more piece completes a frame or does not.                           *)
LEMMA DivisionStep ==
    ASSUME NEW x \in Nat, NEW p \in Nat \ {0}
    PROVE  IF (x + 1) % p = 0 THEN (x + 1) \div p = x \div p + 1
                              ELSE (x + 1) \div p = x \div p
<1> DEFINE q == x \div p
           r == x % p
<1>1. q \in Nat /\ r \in 0 .. p - 1 /\ x = p * q + r
  BY DivisionBy
<1>2. /\ (x + 1) \div p \in Nat /\ (x + 1) % p \in 0 .. p - 1
      /\ x + 1 = p * ((x + 1) \div p) + ((x + 1) % p)
  <2>1. x + 1 \in Nat
    OBVIOUS
  <2> QED
    BY <2>1, DivisionBy, Zenon
<1> HIDE DEF q, r
<1>3. CASE r + 1 = p
  <2>1. x + 1 = p * (q + 1) + 0
    BY <1>1, <1>3
  <2> QED
    BY <1>1, <1>2, <2>1, Quotient DEF q
<1>4. CASE r + 1 < p
  <2>1. x + 1 = p * q + (r + 1)
    BY <1>1, <1>4
  <2> QED
    BY <1>1, <1>2, <1>4, <2>1, Quotient DEF q
<1> QED
  BY <1>1, <1>3, <1>4

(* More pieces are no fewer frames.                                        *)
LEMMA DivisionMonotone ==
    ASSUME NEW x \in Nat, NEW y \in Nat, x <= y, NEW p \in Nat \ {0}
    PROVE  x \div p <= y \div p
<1>1. /\ x \div p \in Nat /\ x % p \in 0 .. p - 1 /\ x = p * (x \div p) + (x % p)
      /\ y \div p \in Nat /\ y % p \in 0 .. p - 1 /\ y = p * (y \div p) + (y % p)
  BY DivisionBy
<1>2. ASSUME y \div p + 1 <= x \div p
      PROVE  FALSE
  <2>1. p * (x \div p) >= p * (y \div p + 1)
    BY <1>1, <1>2
  <2> QED
    BY <2>1, <1>1
<1> QED
  BY <1>1, <1>2
-----------------------------------------------------------------------------
(* The whole frames among the first n pieces.                              *)
Whole(n) == n \div Pieces

(* How whole frames grow with the pieces.                                  *)
LEMMA WholeFrames ==
    /\ Whole(0) = 0
    /\ \A n \in Nat : Whole(n) \in Nat
    /\ \A n \in Nat : Whole(n + 1) = Whole(n) + (IF (n + 1) % Pieces = 0 THEN 1 ELSE 0)
    /\ \A m, n \in Nat : m <= n => Whole(m) <= Whole(n)
<1>1. Pieces \in Nat \ {0}
  BY MonitorParameters
<1>2. Whole(0) = 0
  <2>1. Pieces * 0 + 0 = Pieces * (0 \div Pieces) + (0 % Pieces)
    BY <1>1, DivisionBy
  <2> QED
    BY <1>1, <2>1, DivisionBy, Quotient DEF Whole
<1>3. \A n \in Nat : Whole(n) \in Nat
  BY <1>1, DivisionBy DEF Whole
<1>4. \A n \in Nat : Whole(n + 1) = Whole(n) + (IF (n + 1) % Pieces = 0 THEN 1 ELSE 0)
  <2> SUFFICES ASSUME NEW n \in Nat
               PROVE  Whole(n + 1) = Whole(n) + (IF (n + 1) % Pieces = 0 THEN 1 ELSE 0)
    OBVIOUS
  <2>1. IF (n + 1) % Pieces = 0 THEN Whole(n + 1) = Whole(n) + 1 ELSE Whole(n + 1) = Whole(n)
    BY <1>1, DivisionStep DEF Whole
  <2> QED
    BY <2>1, <1>3
<1>5. \A m, n \in Nat : m <= n => Whole(m) <= Whole(n)
  BY <1>1, DivisionMonotone DEF Whole
<1> QED
  BY <1>2, <1>3, <1>4, <1>5

-----------------------------------------------------------------------------
(* The inductive invariant.                                                *)

Counters ==
    [ack : BOOLEAN, pubsub : Nat, device_list : Nat, other : Nat, undecodable : Nat]

(* The pieces that arrived are those of the frames of the stream, the last *)
(* of which may be incomplete.                                             *)
MonitorTypes ==
    /\ now \in Nat /\ arrived \in Nat /\ taken \in Nat /\ worked \in Nat
    /\ taken <= arrived
    /\ stage \in {"off", "loop", "recv", "ended"}
    /\ stream \in Seq(FrameKinds)
    /\ Len(stream) = Whole(arrived) + (IF arrived % Pieces = 0 THEN 0 ELSE 1)
    /\ counts \in Counters

(* Every whole frame has its instant, and while one is left unread, time   *)
(* passes only by the program's own work.                                  *)
WaitingFrames ==
    /\ wholeAt \in Seq(Nat) /\ Len(wholeAt) = Whole(arrived)
    /\ \A i \in DOMAIN wholeAt :
          /\ wholeAt[i] <= now
          /\ i > Whole(taken) => now <= wholeAt[i] + worked

(* A frame is begun only before the deadline.                              *)
LateFrames ==
    /\ \A i \in 1 .. Whole(taken) - 1 : wholeAt[i] < Duration
    /\ stage = "recv" => \A i \in 1 .. Whole(taken) : wholeAt[i] < Duration

FramesTaken == {stream[i] : i \in 1 .. Whole(taken)}

(* The counters that classify are those of the frames taken.               *)
CountsMatchFrames ==
    /\ counts.ack <=> "ack" \in FramesTaken
    /\ counts.device_list > 0 <=> "device_list" \in FramesTaken
    /\ counts.pubsub > 0 <=> Publications \cap FramesTaken # {}

MeaningPrinted ==
    meaning # "none" =>
        /\ stage = "ended" /\ meaning = Classification
        /\ KindsOnTime \subseteq FramesTaken

MonitorInv ==
    MonitorTypes /\ WaitingFrames /\ LateFrames /\ CountsMatchFrames /\ MeaningPrinted

-----------------------------------------------------------------------------
(* A piece that arrives changes neither what was taken nor the counters.   *)
LEMMA ArrivalKeepsInv ==
    ASSUME MonitorInv, NEW kind \in FrameKinds, PieceArrives(kind)
    PROVE  MonitorInv'
<1>1. /\ Whole(arrived) \in Nat /\ Whole(taken) \in Nat /\ Whole(arrived') \in Nat
      /\ arrived' = arrived + 1 /\ arrived' \in Nat
      /\ Whole(arrived') = Whole(arrived) + (IF arrived' % Pieces = 0 THEN 1 ELSE 0)
      /\ Whole(taken) <= Whole(arrived)
  <2>1. /\ arrived \in Nat /\ taken \in Nat /\ taken <= arrived
        /\ arrived' = arrived + 1 /\ arrived' \in Nat
    BY DEF PieceArrives, MonitorInv, MonitorTypes
  <2> QED
    BY <2>1, WholeFrames
<1>2. /\ stream' \in Seq(FrameKinds)
      /\ Len(stream') = Len(stream) + (IF arrived % Pieces = 0 THEN 1 ELSE 0)
      /\ \A i \in 1 .. Len(stream) : stream'[i] = stream[i]
      /\ Len(stream) \in Nat
  <2>1. CASE arrived % Pieces = 0
    <3>1. stream' = Append(stream, kind) /\ stream \in Seq(FrameKinds)
      BY <2>1 DEF PieceArrives, MonitorInv, MonitorTypes
    <3> QED
      BY <2>1, <3>1
  <2>2. CASE arrived % Pieces # 0
    <3>1. stream' = stream /\ stream \in Seq(FrameKinds)
      BY <2>2 DEF PieceArrives, MonitorInv, MonitorTypes
    <3> QED
      BY <2>2, <3>1
  <2> QED
    BY <2>1, <2>2
<1>3. Len(stream') = Whole(arrived') + (IF arrived' % Pieces = 0 THEN 0 ELSE 1)
  BY <1>1, <1>2 DEF MonitorInv, MonitorTypes
<1>4. MonitorTypes'
  <2>1. UNCHANGED <<now, taken, stage, counts, worked>>
    BY DEF PieceArrives
  <2> QED
    BY <1>1, <1>2, <1>3, <2>1 DEF MonitorInv, MonitorTypes
<1>8. /\ UNCHANGED <<now, taken, stage, worked>>
      /\ now \in Nat /\ worked \in Nat
      /\ wholeAt \in Seq(Nat) /\ Len(wholeAt) = Whole(arrived)
      /\ \A i \in 1 .. Len(wholeAt) : /\ wholeAt[i] \in Nat /\ wholeAt[i] <= now
                                      /\ i > Whole(taken) => now <= wholeAt[i] + worked
  <2>1. UNCHANGED <<now, taken, stage, worked>>
    BY DEF PieceArrives
  <2>2. /\ now \in Nat /\ worked \in Nat
        /\ wholeAt \in Seq(Nat) /\ Len(wholeAt) = Whole(arrived)
    BY DEF MonitorInv, MonitorTypes, WaitingFrames
  <2>3. DOMAIN wholeAt = 1 .. Len(wholeAt) /\ \A i \in 1 .. Len(wholeAt) : wholeAt[i] \in Nat
    BY <2>2
  <2>4. \A i \in DOMAIN wholeAt : /\ wholeAt[i] <= now
                                  /\ i > Whole(taken) => now <= wholeAt[i] + worked
    BY DEF MonitorInv, WaitingFrames
  <2> QED
    BY <2>1, <2>2, <2>3, <2>4
<1>9. /\ wholeAt' \in Seq(Nat) /\ Len(wholeAt') = Whole(arrived')
      /\ \A i \in 1 .. Len(wholeAt) : wholeAt'[i] = wholeAt[i]
      /\ \A i \in 1 .. Len(wholeAt') : i \in 1 .. Len(wholeAt) \/ wholeAt'[i] = now
  <2>1. CASE arrived' % Pieces = 0
    <3>1. wholeAt' = Append(wholeAt, now)
      BY <2>1 DEF PieceArrives
    <3> QED
      BY <1>1, <1>8, <2>1, <3>1
  <2>2. CASE arrived' % Pieces # 0
    <3>1. wholeAt' = wholeAt
      BY <2>2 DEF PieceArrives
    <3> QED
      BY <1>1, <1>8, <2>2, <3>1
  <2> QED
    BY <2>1, <2>2
<1>5. WaitingFrames' /\ LateFrames'
  <2>1. Whole(taken') = Whole(taken)
    BY <1>8 DEF Whole
  <2>2. ASSUME NEW i \in 1 .. Len(wholeAt')
        PROVE  /\ wholeAt'[i] <= now
               /\ i > Whole(taken) => now <= wholeAt'[i] + worked
    <3>1. CASE i \in 1 .. Len(wholeAt)
      <4>1. wholeAt'[i] = wholeAt[i]
        BY <1>9, <3>1
      <4>2. /\ wholeAt[i] <= now
            /\ i > Whole(taken) => now <= wholeAt[i] + worked
        BY <1>8, <3>1
      <4> QED
        BY <4>1, <4>2
    <3>2. CASE wholeAt'[i] = now
      BY <1>8, <3>2
    <3> QED
      BY <1>9, <3>1, <3>2
  <2>3. DOMAIN wholeAt' = 1 .. Len(wholeAt')
    BY <1>9
  <2>4. WaitingFrames'
    BY <1>8, <1>9, <2>1, <2>2, <2>3 DEF WaitingFrames
  <2>5. ASSUME NEW i \in 1 .. Whole(taken)
        PROVE  wholeAt'[i] = wholeAt[i]
    <3>1. i \in 1 .. Len(wholeAt)
      BY <1>1, <1>8
    <3> QED
      BY <1>9, <3>1
  <2>6. \A i \in 1 .. Whole(taken) - 1 : i \in 1 .. Whole(taken)
    BY <1>1
  <2>7. LateFrames'
    BY <1>8, <2>1, <2>5, <2>6 DEF MonitorInv, LateFrames
  <2> QED
    BY <2>4, <2>7
<1>6. FramesTaken' = FramesTaken
  <2>1. Whole(taken) <= Len(stream) /\ taken' = taken
    BY <1>1 DEF PieceArrives, MonitorInv, MonitorTypes
  <2>2. ASSUME NEW i \in 1 .. Whole(taken)
        PROVE  stream'[i] = stream[i]
    <3>1. i \in 1 .. Len(stream)
      BY <1>1, <1>2, <2>1
    <3> QED
      BY <1>2, <3>1
  <2>3. FramesTaken' = {stream'[i] : i \in 1 .. Whole(taken)}
    BY <2>1 DEF FramesTaken, Whole
  <2>4. {stream'[i] : i \in 1 .. Whole(taken)} = {stream[i] : i \in 1 .. Whole(taken)}
    BY <2>2, Zenon
  <2> QED
    BY <2>3, <2>4 DEF FramesTaken
<1>7. CountsMatchFrames' /\ MeaningPrinted'
  <2>1. meaning = "none" /\ meaning' = meaning
    BY DEF PieceArrives, MonitorInv, MeaningPrinted, Running
  <2>2. CountsMatchFrames'
    BY <1>6 DEF PieceArrives, MonitorInv, CountsMatchFrames
  <2> QED
    BY <2>1, <2>2 DEF MeaningPrinted
<1> QED
  BY <1>4, <1>5, <1>7 DEF MonitorInv

(* What a frame adds to each counter.                                      *)
LEMMA CountedFields ==
    ASSUME counts \in Counters, NEW kind
    PROVE  /\ Counted(kind) \in Counters
           /\ Counted(kind).ack = (counts.ack \/ kind = "ack")
           /\ Counted(kind).pubsub = counts.pubsub + (IF kind \in Publications THEN 1 ELSE 0)
           /\ Counted(kind).device_list
                = counts.device_list + (IF kind = "device_list" THEN 1 ELSE 0)
<1>1. DOMAIN Counted(kind) = {"ack", "pubsub", "device_list", "other", "undecodable"}
  BY DEF Counted, Counters
<1>2. Counted(kind).ack = (counts.ack \/ kind = "ack")
  BY DEF Counted, Counters
<1>3. Counted(kind).pubsub = counts.pubsub + (IF kind \in Publications THEN 1 ELSE 0)
  BY DEF Counted, Counters
<1>4. Counted(kind).device_list = counts.device_list + (IF kind = "device_list" THEN 1 ELSE 0)
  BY DEF Counted, Counters
<1>5. Counted(kind).ack \in BOOLEAN
  BY DEF Counted, Counters
<1>6. /\ Counted(kind).pubsub \in Nat /\ Counted(kind).device_list \in Nat
      /\ Counted(kind).other \in Nat /\ Counted(kind).undecodable \in Nat
  BY DEF Counted, Counters
<1>7. Counted(kind) = [f \in DOMAIN counts |-> Counted(kind)[f]]
  BY DEF Counted
<1>8. Counted(kind) \in Counters
  BY <1>1, <1>5, <1>6, <1>7 DEF Counters
<1> QED
  BY <1>2, <1>3, <1>4, <1>8

(* Taking a piece counts the frame it completes.                           *)
LEMMA TakingKeepsInv ==
    ASSUME MonitorInv, TakePiece
    PROVE  MonitorInv'
<1>1. /\ taken' = taken + 1 /\ taken' \in Nat /\ taken' <= arrived
      /\ Whole(taken) \in Nat /\ Whole(arrived) \in Nat /\ Whole(taken') \in Nat
      /\ Whole(taken') = Whole(taken) + (IF taken' % Pieces = 0 THEN 1 ELSE 0)
      /\ Whole(taken') <= Whole(arrived)
      /\ Len(stream) \in Nat /\ Whole(arrived) <= Len(stream)
  <2>1. /\ arrived \in Nat /\ taken \in Nat /\ Len(stream) \in Nat
        /\ taken' = taken + 1 /\ taken' \in Nat /\ taken' <= arrived
    BY DEF TakePiece, MonitorInv, MonitorTypes
  <2>2. /\ Whole(taken) \in Nat /\ Whole(arrived) \in Nat /\ Whole(taken') \in Nat
        /\ Whole(taken') = Whole(taken) + (IF taken' % Pieces = 0 THEN 1 ELSE 0)
        /\ Whole(taken') <= Whole(arrived)
    BY <2>1, WholeFrames
  <2>3. Whole(arrived) <= Len(stream)
    BY <2>2 DEF MonitorInv, MonitorTypes
  <2> QED
    BY <2>1, <2>2, <2>3
<1>2. /\ UNCHANGED <<now, stream, arrived, wholeAt, worked>>
      /\ meaning' = meaning /\ meaning = "none"
  BY DEF TakePiece, HandleFrame, routerVars, MonitorInv, MeaningPrinted
<1>5. WaitingFrames'
  <2>1. \A i \in DOMAIN wholeAt : i > Whole(taken') => i > Whole(taken)
    <3>1. \A i \in DOMAIN wholeAt : i \in Int
      BY DEF MonitorInv, WaitingFrames
    <3> QED
      BY <1>1, <3>1
  <2>2. Whole(arrived)' = Whole(arrived) /\ Whole(taken)' = Whole(taken')
    BY <1>2 DEF Whole
  <2> QED
    BY <1>2, <2>1, <2>2 DEF MonitorInv, WaitingFrames
<1>6. \A i \in 1 .. Whole(taken) : wholeAt[i] < Duration
  BY DEF TakePiece, MonitorInv, LateFrames
<1>7. MeaningPrinted'
  BY <1>2 DEF MeaningPrinted
<1>3. CASE taken' % Pieces = 0
  <2> DEFINE kind == stream[Whole(taken')]
  <2>1. kind \in FrameKinds /\ HandleFrame(kind)
    <3>1. HandleFrame(kind)
      BY <1>3 DEF TakePiece, Whole
    <3>2. Whole(taken') \in 1 .. Len(stream) /\ stream \in Seq(FrameKinds)
      BY <1>1, <1>3 DEF MonitorInv, MonitorTypes
    <3> QED
      BY <3>1, <3>2
  <2>2. FramesTaken' = FramesTaken \cup {kind}
    BY <1>1, <1>2, <1>3 DEF FramesTaken
  <2> HIDE DEF kind
  <2>3. /\ stage' \in {"loop", "ended"}
        /\ counts' \in Counters
    <3>1. counts \in Counters /\ Counted(kind) \in Counters
      BY CountedFields DEF MonitorInv, MonitorTypes
    <3> QED
      BY <2>1, <3>1 DEF HandleFrame
  <2>4. CountsMatchFrames'
    <3>1. CASE kind = "corrupt"
      BY <2>1, <2>2, <3>1
         DEF HandleFrame, MonitorInv, CountsMatchFrames, Publications
    <3>2. CASE kind # "corrupt"
      <4>1. counts' = Counted(kind)
        BY <2>1, <3>2 DEF HandleFrame
      <4>2. /\ counts'.ack <=> counts.ack \/ kind = "ack"
            /\ counts'.device_list > 0 <=> counts.device_list > 0 \/ kind = "device_list"
            /\ counts'.pubsub > 0 <=> counts.pubsub > 0 \/ kind \in Publications
        <5>1. counts \in Counters
          BY DEF MonitorInv, MonitorTypes
        <5>2. /\ counts.device_list \in Nat /\ counts.pubsub \in Nat
          BY <5>1 DEF Counters
        <5>3. /\ counts'.ack = (counts.ack \/ kind = "ack")
              /\ counts'.pubsub = counts.pubsub + (IF kind \in Publications THEN 1 ELSE 0)
              /\ counts'.device_list
                   = counts.device_list + (IF kind = "device_list" THEN 1 ELSE 0)
          BY <4>1, <5>1, CountedFields
        <5>4. counts'.ack <=> counts.ack \/ kind = "ack"
          BY <5>3
        <5>5. counts'.device_list > 0 <=> counts.device_list > 0 \/ kind = "device_list"
          BY <5>2, <5>3
        <5>6. counts'.pubsub > 0 <=> counts.pubsub > 0 \/ kind \in Publications
          BY <5>2, <5>3
        <5> QED
          BY <5>4, <5>5, <5>6
      <4> QED
        BY <2>2, <4>2 DEF MonitorInv, CountsMatchFrames
    <3> QED
      BY <3>1, <3>2
  <2>5. MonitorTypes'
    BY <1>1, <1>2, <2>3 DEF MonitorInv, MonitorTypes
  <2>6. LateFrames'
    <3>1. stage' # "recv"
      BY <2>3
    <3>2. Whole(taken') - 1 = Whole(taken)
      BY <1>1, <1>3
    <3> QED
      BY <1>2, <1>6, <3>1, <3>2 DEF LateFrames, Whole
  <2> QED
    BY <1>5, <1>7, <2>4, <2>5, <2>6 DEF MonitorInv
<1>4. CASE taken' % Pieces # 0
  <2>1. FramesTaken' = FramesTaken
    BY <1>1, <1>2, <1>4 DEF FramesTaken
  <2>2. UNCHANGED <<stage, counts>>
    BY <1>4 DEF TakePiece
  <2>3. LateFrames'
    <3>1. Whole(taken)' = Whole(taken)
      BY <1>1, <1>4 DEF Whole
    <3> QED
      BY <1>2, <2>2, <3>1 DEF MonitorInv, LateFrames
  <2> QED
    BY <1>1, <1>2, <1>4, <1>5, <1>7, <2>1, <2>2, <2>3
       DEF TakePiece, MonitorInv, MonitorTypes, CountsMatchFrames
<1> QED
  BY <1>3, <1>4

(* The invariant holds, whatever the router sends and when.                *)
THEOREM MonitorInductive == MonitorSpec => []MonitorInv
<1>1. MonitorInit => MonitorInv
  <2> SUFFICES ASSUME MonitorInit
               PROVE  MonitorInv
    OBVIOUS
  <2>1. Whole(0) = 0
    BY WholeFrames
  <2>2. 0 % Pieces = 0
    BY MonitorParameters, DivisionBy, <2>1 DEF Whole
  <2>3. MonitorTypes
    <3>1. counts \in Counters
      BY DEF MonitorInit, Counters
    <3>2. stream \in Seq(FrameKinds) /\ Len(stream) = 0
      BY DEF MonitorInit
    <3> QED
      BY <2>1, <2>2, <3>1, <3>2 DEF MonitorInit, MonitorTypes
  <2>4. FramesTaken = {}
    BY <2>1 DEF MonitorInit, FramesTaken
  <2>5. CountsMatchFrames
    BY <2>4 DEF MonitorInit, CountsMatchFrames
  <2>6. WaitingFrames /\ LateFrames /\ MeaningPrinted
    BY <2>1 DEF MonitorInit, WaitingFrames, LateFrames, MeaningPrinted
  <2> QED
    BY <2>3, <2>5, <2>6 DEF MonitorInv
<1>2. MonitorInv /\ [MonitorNext]_monitorVars => MonitorInv'
  <2> SUFFICES ASSUME MonitorInv, [MonitorNext]_monitorVars
               PROVE  MonitorInv'
    OBVIOUS
  <2> USE DEF MonitorInv
  <2>1. /\ now \in Nat /\ worked \in Nat /\ Duration \in Nat
        /\ Whole(taken) \in Nat /\ Whole(arrived) \in Nat /\ Whole(taken) <= Whole(arrived)
        /\ wholeAt \in Seq(Nat) /\ DOMAIN wholeAt = 1 .. Whole(arrived)
    <3>1. /\ now \in Nat /\ worked \in Nat /\ arrived \in Nat /\ taken \in Nat
          /\ taken <= arrived /\ Duration \in Nat
      BY MonitorParameters DEF MonitorTypes
    <3>2. /\ Whole(taken) \in Nat /\ Whole(arrived) \in Nat
          /\ Whole(taken) <= Whole(arrived)
      BY <3>1, WholeFrames
    <3>3. wholeAt \in Seq(Nat) /\ Len(wholeAt) = Whole(arrived)
      BY DEF WaitingFrames
    <3> QED
      BY <3>1, <3>2, <3>3
  <2>a. ASSUME UNCHANGED <<stream, taken, counts>>
        PROVE  FramesTaken' = FramesTaken /\ CountsMatchFrames' /\ Classification' = Classification
    <3>1. FramesTaken' = FramesTaken
      BY <2>a DEF FramesTaken, Whole
    <3> QED
      BY <2>a, <3>1 DEF CountsMatchFrames, Classification
  <2>b. ASSUME UNCHANGED <<now, stream, arrived, wholeAt, taken, counts, meaning, worked>>,
               \/ stage' = stage
               \/ meaning = "none" /\ stage' \in {"loop", "ended"}
        PROVE  MonitorInv'
    <3>1. KindsOnTime' = KindsOnTime
      BY <2>b DEF KindsOnTime
    <3>2. MonitorTypes' /\ WaitingFrames' /\ LateFrames'
      BY <2>b DEF MonitorTypes, WaitingFrames, LateFrames, Whole
    <3> QED
      BY <2>a, <2>b, <3>1, <3>2 DEF MeaningPrinted
  <2>2. ASSUME NEW kind \in FrameKinds, PieceArrives(kind)
        PROVE  MonitorInv'
    BY <2>2, ArrivalKeepsInv
  <2>3. CASE TakePiece
    BY <2>3, TakingKeepsInv
  <2>4. CASE StartMonitor \/ RouterHangsUp \/ ConnectionClosed \/ UNCHANGED monitorVars
    <3>1. UNCHANGED <<now, stream, arrived, wholeAt, taken, counts, meaning, worked>>
      BY <2>4 DEF StartMonitor, RouterHangsUp, ConnectionClosed, monitorVars, routerVars
    <3>2. \/ stage' = stage
          \/ stage \in {"off", "recv"} /\ stage' \in {"loop", "ended"}
      BY <2>4 DEF StartMonitor, RouterHangsUp, ConnectionClosed, monitorVars
    <3>3. stage' = stage \/ (meaning = "none" /\ stage' \in {"loop", "ended"})
      BY <3>2 DEF MeaningPrinted
    <3> QED
      BY <2>b, <3>1, <3>3
  <2>c. ASSUME UNCHANGED <<stream, arrived, wholeAt, taken, counts, meaning, stage>>,
               now' = now + 1, meaning = "none", worked' \in Nat,
               \A i \in DOMAIN wholeAt : i > Whole(taken) => now' <= wholeAt[i] + worked'
        PROVE  MonitorInv'
    <3>1. \A i \in DOMAIN wholeAt : wholeAt[i] <= now'
      <4>1. \A i \in DOMAIN wholeAt : wholeAt[i] \in Nat /\ wholeAt[i] <= now
        BY DEF WaitingFrames
      <4> QED
        BY <2>1, <2>c, <4>1
    <3>2. WaitingFrames'
      BY <2>c, <3>1 DEF WaitingFrames, Whole
    <3>3. MonitorTypes' /\ LateFrames'
      BY <2>1, <2>c DEF MonitorTypes, LateFrames, Whole
    <3> QED
      BY <2>a, <2>c, <3>2, <3>3 DEF MeaningPrinted
  <2>5. CASE TimePasses
    <3>1. /\ UNCHANGED <<stream, arrived, wholeAt, taken, counts, meaning, stage, worked>>
          /\ now' = now + 1 /\ taken = arrived /\ stage = "recv"
      BY <2>5 DEF TimePasses, Blocked, routerVars
    <3>2. \A i \in DOMAIN wholeAt : ~(i > Whole(taken))
      BY <2>1, <3>1
    <3>3. meaning = "none"
      BY <3>1 DEF MeaningPrinted
    <3> QED
      BY <2>1, <2>c, <3>1, <3>2, <3>3
  <2>8. CASE WorkTakesTime
    <3>1. /\ UNCHANGED <<stream, arrived, wholeAt, taken, counts, meaning, stage>>
          /\ now' = now + 1 /\ worked' = worked + 1
      BY <2>8 DEF WorkTakesTime, routerVars
    <3>2. meaning = "none"
      BY <2>8 DEF WorkTakesTime, Running, MeaningPrinted
    <3>3. \A i \in DOMAIN wholeAt : i > Whole(taken) => now' <= wholeAt[i] + worked'
      <4>1. \A i \in DOMAIN wholeAt :
               wholeAt[i] \in Nat /\ (i > Whole(taken) => now <= wholeAt[i] + worked)
        BY DEF WaitingFrames
      <4> QED
        BY <2>1, <3>1, <4>1
    <3> QED
      BY <2>1, <2>c, <3>1, <3>2, <3>3
  <2>6. CASE NextFrame
    <3>1. /\ UNCHANGED <<now, stream, arrived, wholeAt, taken, counts, meaning, worked>>
          /\ stage = "loop" /\ stage' = "recv" /\ now < Duration
      BY <2>1, <2>6 DEF NextFrame, TimeLeft, routerVars
    <3>2. \A i \in 1 .. Whole(taken) : wholeAt[i] < Duration
      <4>1. ASSUME NEW i \in 1 .. Whole(taken)
            PROVE  wholeAt[i] < Duration
        <5>1. i \in DOMAIN wholeAt
          BY <2>1
        <5>2. wholeAt[i] \in Nat /\ wholeAt[i] <= now
          BY <2>1, <5>1 DEF WaitingFrames
        <5> QED
          BY <2>1, <3>1, <5>2
      <4> QED
        BY <4>1
    <3>3. LateFrames'
      BY <3>1, <3>2 DEF LateFrames, Whole
    <3>4. MonitorTypes' /\ WaitingFrames' /\ meaning = "none"
      BY <3>1 DEF MonitorTypes, WaitingFrames, MeaningPrinted, Whole
    <3> QED
      BY <2>a, <3>1, <3>3, <3>4 DEF MeaningPrinted
  <2>7. CASE StopMonitor
    <3>1. /\ UNCHANGED <<now, stream, arrived, wholeAt, taken, counts, worked>>
          /\ stage' = "ended" /\ meaning' = Classification
          /\ now >= Duration \/ taken = arrived
      BY <2>1, <2>7 DEF StopMonitor, Summarize, Blocked, TimeLeft, routerVars
    <3>2. KindsOnTime \subseteq FramesTaken
      <4>1. ASSUME NEW i \in DOMAIN wholeAt, wholeAt[i] + worked < Duration
            PROVE  i \in 1 .. Whole(taken)
        <5>1. wholeAt[i] \in Nat /\ (i > Whole(taken) => now <= wholeAt[i] + worked)
          BY DEF WaitingFrames
        <5> QED
          BY <2>1, <3>1, <4>1, <5>1
      <4> QED
        BY <4>1 DEF KindsOnTime, FramesTaken
    <3>3. KindsOnTime' = KindsOnTime
      BY <3>1 DEF KindsOnTime
    <3>4. MonitorTypes' /\ WaitingFrames' /\ LateFrames'
      BY <3>1 DEF MonitorTypes, WaitingFrames, LateFrames, Whole
    <3> QED
      BY <2>a, <3>1, <3>2, <3>3, <3>4 DEF MeaningPrinted
  <2> QED
    BY <2>2, <2>3, <2>4, <2>5, <2>6, <2>7, <2>8 DEF MonitorNext, Monitor
<1> QED
  BY <1>1, <1>2, PTL DEF MonitorSpec

(* Of the frames that were too late, the counts hold at most one.          *)
THEOREM AtMostOneLateFrame == MonitorSpec => []OneLateFrame
<1>1. MonitorInv => OneLateFrame
  BY DEF MonitorInv, LateFrames, OneLateFrame, Whole
<1> QED
  BY <1>1, MonitorInductive, PTL

(* What the summary says is true of every frame that was whole longer      *)
(* before the deadline than the program worked.                            *)
THEOREM SummaryFitsWindow == MonitorSpec => []MeaningFitsWindow
<1>1. MonitorInv => MeaningFitsWindow
  <2> SUFFICES ASSUME MonitorInv
               PROVE  MeaningFitsWindow
    OBVIOUS
  <2>1. CASE meaning = "none"
    BY <2>1 DEF MeaningFitsWindow
  <2>2. CASE meaning # "none"
    <3>1. meaning = Classification
      BY <2>2 DEF MonitorInv, MeaningPrinted
    <3>2. KindsOnTime \subseteq FramesTaken
      BY <2>2 DEF MonitorInv, MeaningPrinted
    <3>3. /\ meaning = "SUBSCRIPTION_NOT_CONFIRMED" => ~counts.ack
          /\ meaning = "CONFCTL_ACTIVE_NO_DEVICE_LIST" => counts.device_list = 0
          /\ meaning = "NO_CONFCTL_PUBLICATIONS" => ~(counts.device_list > 0) /\ ~(counts.pubsub > 0)
      <4>1. /\ Classification = "SUBSCRIPTION_NOT_CONFIRMED" => ~counts.ack
            /\ Classification = "CONFCTL_ACTIVE_NO_DEVICE_LIST" => counts.device_list = 0
            /\ Classification = "NO_CONFCTL_PUBLICATIONS" =>
                 /\ ~~counts.ack
                 /\ ~(counts.ack /\ counts.device_list > 0)
                 /\ ~(counts.ack /\ counts.device_list = 0 /\ counts.pubsub > 0)
        BY Zenon DEF Classification
      <4>2. counts.device_list \in Nat /\ counts.pubsub \in Nat
        BY DEF MonitorInv, MonitorTypes, Counters
      <4> QED
        BY <3>1, <4>1, <4>2
    <3>4. /\ ~counts.ack => "ack" \notin FramesTaken
          /\ counts.device_list = 0 => "device_list" \notin FramesTaken
          /\ ~(counts.pubsub > 0) => Publications \cap FramesTaken = {}
      BY DEF MonitorInv, MonitorTypes, CountsMatchFrames
    <3> QED
      BY <3>2, <3>3, <3>4 DEF MeaningFitsWindow
  <2> QED
    BY <2>1, <2>2
<1> QED
  BY <1>1, MonitorInductive, PTL

-----------------------------------------------------------------------------
(* The LZ4 reader.                                                         *)

(* A byte has at least two values, and a half of a token fewer than that.  *)
LEMMA BlockNumbers ==
    /\ Full \in Nat \ {0} /\ Full < Nibble /\ Nibble \in Nat
    /\ Byte \in Nat /\ Byte - 1 \in Nat \ {0}
<1>1. Nibble \in Nat /\ Nibble >= 2
  BY BlockParameters
<1>2. Nibble * Nibble \in Nat /\ Nibble * Nibble >= 2
  BY <1>1
<1> QED
  BY <1>1, <1>2 DEF Full, Byte

(* What a length is written as: its half of the token, and full bytes up   *)
(* to one that is not.                                                     *)
LEMMA RestFacts ==
    ASSUME NEW n \in Nat
    PROVE  /\ Half(n) \in Nat /\ Half(n) < Nibble
           /\ Rest(n) \in Seq(Nat)
           /\ n < Full => Half(n) = n /\ Rest(n) = <<>>
           /\ n >= Full =>
                 /\ Half(n) = Full
                 /\ \E q \in Nat, r \in Nat :
                       /\ r < Byte - 1 /\ n = Full + q * (Byte - 1) + r
                       /\ Len(Rest(n)) = q + 1 /\ Rest(n)[q + 1] = r
                       /\ \A i \in 1 .. q : Rest(n)[i] = Byte - 1
<1>1. CASE n < Full
  BY <1>1, BlockNumbers DEF Half, Rest
<1>2. CASE n >= Full
  <2> DEFINE d == Byte - 1
             m == n - Full
             q == m \div d
             r == m % d
             fulls == [i \in 1 .. q |-> d]
  <2>0. d \in Nat /\ d > 0 /\ m \in Nat
    BY <1>2, BlockNumbers
  <2>1. q \in Nat /\ r \in Nat /\ r < d /\ m = d * q + r
    <3> HIDE DEF d, m
    <3> QED
      BY <2>0, Division
  <2>2. Rest(n) = fulls \o <<r>> /\ Half(n) = Full
    BY <1>2, BlockNumbers DEF Rest, Half, Extension
  <2> HIDE DEF q, r, d
  <2>3. fulls \in Seq(Nat) /\ Len(fulls) = q /\ \A i \in 1 .. q : fulls[i] = d
    BY <2>0, <2>1
  <2> HIDE DEF fulls
  <2>4. /\ Rest(n) \in Seq(Nat) /\ Len(Rest(n)) = q + 1 /\ Rest(n)[q + 1] = r
        /\ \A i \in 1 .. q : Rest(n)[i] = d
    BY <2>1, <2>2, <2>3
  <2>5. n = Full + q * d + r
    BY <2>0, <2>1, BlockNumbers
  <2>6. \E a \in Nat, b \in Nat :
           /\ b < Byte - 1 /\ n = Full + a * (Byte - 1) + b
           /\ Len(Rest(n)) = a + 1 /\ Rest(n)[a + 1] = b
           /\ \A i \in 1 .. a : Rest(n)[i] = Byte - 1
    BY <2>1, <2>4, <2>5 DEF d
  <2>7. ~ (n < Full) /\ Full \in Nat /\ Full < Nibble
    BY <1>2, BlockNumbers
  <2> QED
    BY <2>2, <2>4, <2>6, <2>7
<1> QED
  BY <1>1, <1>2, BlockNumbers

(* A length comes back, and one that is cut short does not.                *)
LEMMA LengthIsRead ==
    ASSUME NEW src \in Seq(Nat), NEW pos \in Nat \ {0}, pos - 1 <= Len(src),
           NEW n \in Nat, Holds(src, pos, Rest(n))
    PROVE  LET after == pos + Len(Rest(n)) IN
           /\ after - 1 <= Len(src) =>
                 ReadLength(src, pos, Half(n)) = [value |-> n, next |-> after]
           /\ after - 1 > Len(src) => ReadLength(src, pos, Half(n)) = Invalid
<1>1. CASE n < Full
  <2>1. Half(n) = n /\ Len(Rest(n)) = 0
    BY <1>1, RestFacts
  <2>2. ReadLength(src, pos, n) = [value |-> n, next |-> pos]
    BY <1>1 DEF ReadLength
  <2> QED
    BY <2>1, <2>2
<1>2. CASE n >= Full
  <2>1. PICK q \in Nat, r \in Nat :
           /\ r < Byte - 1 /\ n = Full + q * (Byte - 1) + r
           /\ Len(Rest(n)) = q + 1 /\ Rest(n)[q + 1] = r
           /\ \A i \in 1 .. q : Rest(n)[i] = Byte - 1
    BY <1>2, RestFacts
  <2> DEFINE ends == {p \in pos .. Len(src) : src[p] # Byte - 1}
             last == Min(ends)
  <2>0. Half(n) = Full /\ ~ (Full < Full)
    BY <1>2, RestFacts, BlockNumbers
  <2>2. /\ Half(n) = Full
        /\ ReadLength(src, pos, Full) =
              IF ends = {} THEN Invalid
              ELSE [value |-> Full + (last - pos) * (Byte - 1) + src[last], next |-> last + 1]
    BY <2>0 DEF ReadLength
  <2>3. ASSUME NEW i \in 1 .. q, pos + i - 1 <= Len(src)
        PROVE  src[pos + i - 1] = Byte - 1
    <3>1. i \in 1 .. Len(Rest(n))
      BY <2>1
    <3> QED
      BY <2>1, <2>3, <3>1 DEF Holds
  <2>4. ASSUME NEW p \in pos .. Len(src), p < pos + q
        PROVE  src[p] = Byte - 1
    <3>1. p - pos + 1 \in 1 .. q /\ pos + (p - pos + 1) - 1 = p /\ p <= Len(src)
      BY <2>1, <2>4
    <3> QED
      BY <2>3, <3>1
  <2>5. CASE pos + q <= Len(src)
    <3>1. src[pos + q] = r
      <4>1. q + 1 \in 1 .. Len(Rest(n)) /\ pos + (q + 1) - 1 = pos + q
        BY <2>1
      <4>2. pos + (q + 1) - 1 <= Len(src)
        BY <2>5, <4>1
      <4>3. src[pos + (q + 1) - 1] = Rest(n)[q + 1]
        BY <4>1, <4>2 DEF Holds
      <4>4. Rest(n)[q + 1] = r
        BY <2>1
      <4> QED
        BY <4>1, <4>3, <4>4
    <3>2. pos + q \in ends /\ ends \in SUBSET Nat /\ ends # {}
      <4>1. r # Byte - 1
        BY <2>1, BlockNumbers
      <4>2. pos + q \in pos .. Len(src)
        BY <2>5
      <4>3. src[pos + q] # Byte - 1
        BY <3>1, <4>1
      <4>4. pos + q \in ends
        BY <4>2, <4>3
      <4>5. \A p \in ends : p \in Nat
        OBVIOUS
      <4> HIDE DEF ends
      <4> QED
        BY <4>4, <4>5
    <3>3. \A p \in ends : pos + q <= p
      BY <2>1, <2>4
    <3>4. last \in ends /\ last <= pos + q
      <4> HIDE DEF ends
      <4> QED
        BY <3>2, MinIsLeast
    <3>5. last = pos + q
      <4>1. last \in Nat /\ pos + q \in Nat /\ pos + q <= last
        BY <3>2, <3>3, <3>4
      <4> HIDE DEF last
      <4> QED
        BY <3>4, <4>1
    <3> HIDE DEF last, ends
    <3>6. ReadLength(src, pos, Half(n)) =
             [value |-> Full + q * (Byte - 1) + r, next |-> pos + q + 1]
      <4>1. (pos + q) - pos = q
        BY <2>1
      <4>2. ends # {} /\ last = pos + q /\ src[last] = r
        BY <3>1, <3>2, <3>5
      <4>3. ReadLength(src, pos, Full) =
               [value |-> Full + (last - pos) * (Byte - 1) + src[last], next |-> last + 1]
        BY <2>2, <4>2
      <4> QED
        BY <2>2, <4>1, <4>2, <4>3
    <3>7. pos + Len(Rest(n)) = pos + q + 1 /\ ~ (pos + Len(Rest(n)) - 1 > Len(src))
      <4>1. Len(Rest(n)) = q + 1
        BY <2>1
      <4> QED
        BY <2>5, <4>1
    <3> QED
      BY <2>1, <3>6, <3>7
  <2>6. CASE pos + q > Len(src)
    <3>1. ends = {}
      BY <2>1, <2>4, <2>6
    <3>2. pos + Len(Rest(n)) - 1 > Len(src) /\ ~ (pos + Len(Rest(n)) - 1 <= Len(src))
      BY <2>1, <2>6
    <3> QED
      BY <2>2, <3>1, <3>2
  <2> QED
    BY <2>1, <2>5, <2>6
<1> QED
  BY <1>1, <1>2, BlockNumbers

(* What is copied byte by byte repeats the last bytes that were there.     *)
LEMMA CopyRepeats ==
    ASSUME NEW before \in Seq(Nat), NEW offset \in 1 .. Len(before), NEW n \in Nat
    PROVE  CopyMatch(before, offset, n) =
              before \o [k \in 1 .. n |->
                            before[Len(before) - offset + 1 + ((k - 1) % offset)]]
<1> DEFINE L == Len(before)
           Wanted(k) == before[L - offset + 1 + ((k - 1) % offset)]
           Copying(g) == g = [k \in 0 .. n |->
               IF k = 0 THEN before ELSE CopyByte(g[k - 1], offset)]
           g == CHOOSE h : Copying(h)
<1>0. L \in Nat /\ offset \in 1 .. L
  OBVIOUS
<1>1. \E h : Copying(h)
  <2> DEFINE S == {o \in Seq(Nat) : Len(o) >= offset}
             f == [k \in 1 .. n |-> [o \in S |-> CopyByte(o, offset)]]
  <2>1. before \in S
    OBVIOUS
  <2>2. ASSUME NEW o \in S
        PROVE  CopyByte(o, offset) \in S
    <3>1. Len(o) - offset + 1 \in 1 .. Len(o)
      OBVIOUS
    <3>2. o[Len(o) - offset + 1] \in Nat
      BY <3>1
    <3> QED
      BY <3>2 DEF CopyByte
  <2>3. f \in [1 .. n -> [S -> S]]
    BY <2>2
  <2>4. \A k \in 1 .. n, o \in S : f[k][o] = CopyByte(o, offset)
    OBVIOUS
  <2> HIDE DEF f, S
  <2>5. PICK h : Iterates(n, S, before, f, h)
    BY <2>1, <2>3, IterationExists
  <2>6. h \in [0 .. n -> S] /\ h[0] = before /\ \A k \in 1 .. n : h[k] = f[k][h[k - 1]]
    BY <2>5 DEF Iterates
  <2>7. ASSUME NEW k \in 0 .. n
        PROVE  h[k] = IF k = 0 THEN before ELSE CopyByte(h[k - 1], offset)
    <3>1. k # 0 => k \in 1 .. n /\ k - 1 \in 0 .. n
      OBVIOUS
    <3> QED
      BY <2>4, <2>6, <3>1
  <2>8. Copying(h)
    BY <2>6, <2>7
  <2> QED
    BY <2>8
<1>2. Copying(g)
  <2> HIDE DEF Copying
  <2> QED
    BY <1>1
<1>3. CopyMatch(before, offset, n) = g[n]
  BY DEF CopyMatch
<1> HIDE DEF g
<1>4. /\ g[0] = before
      /\ \A k \in 1 .. n : g[k] = Append(g[k - 1], g[k - 1][Len(g[k - 1]) - offset + 1])
  <2>1. \A k \in 0 .. n : g[k] = IF k = 0 THEN before ELSE CopyByte(g[k - 1], offset)
    BY <1>2
  <2>2. 0 \in 0 .. n /\ \A k \in 1 .. n : k \in 0 .. n /\ k # 0
    OBVIOUS
  <2> QED
    BY <2>1, <2>2 DEF CopyByte
<1> HIDE DEF L
<1> DEFINE Repeated(k) ==
              /\ g[k] \in Seq(Nat) /\ Len(g[k]) = L + k
              /\ \A i \in 1 .. L : g[k][i] = before[i]
              /\ \A j \in 1 .. k : g[k][L + j] = Wanted(j)
           T == {k \in 0 .. n : Repeated(k)}
<1>5. 0 \in T
  BY <1>0, <1>4 DEF L
<1>6. ASSUME NEW k \in 0 .. n - 1, k \in T
      PROVE  k + 1 \in T
  <2> DEFINE o == g[k]
             p == Len(o) - offset + 1
  <2>1. k + 1 \in 1 .. n /\ (k + 1) - 1 = k /\ k \in Nat
    OBVIOUS
  <2>2. /\ o \in Seq(Nat) /\ Len(o) = L + k
        /\ \A i \in 1 .. L : o[i] = before[i]
        /\ \A j \in 1 .. k : o[L + j] = Wanted(j)
    BY <1>6
  <2>3. g[k + 1] = Append(o, o[p])
    BY <1>4, <2>1
  <2> HIDE DEF o, Wanted
  <2>4. p \in 1 .. Len(o) /\ p = L + k - offset + 1
    BY <1>0, <2>2
  <2>5. o[p] = Wanted(k + 1)
    <3>1. CASE k < offset
      <4>1. p \in 1 .. L
        BY <1>0, <2>4, <3>1
      <4>2. ((k + 1) - 1) % offset = k
        BY <1>0, <3>1
      <4>2a. L - offset + 1 + k = p
        BY <1>0, <2>1, <2>4
      <4>3. Wanted(k + 1) = before[p]
        BY <4>2, <4>2a DEF Wanted
      <4> QED
        BY <2>2, <4>1, <4>3
    <3>2. CASE ~ (k < offset)
      <4>1. k - offset + 1 \in 1 .. k /\ p = L + (k - offset + 1)
        BY <1>0, <2>4, <3>2
      <4>2. o[p] = Wanted(k - offset + 1)
        BY <2>2, <4>1
      <4>3. (k - offset) % offset = k % offset
        BY <1>0, <3>2, RestOfLess
      <4>4. (k - offset + 1) - 1 = k - offset /\ (k + 1) - 1 = k
        BY <1>0
      <4> QED
        BY <4>2, <4>3, <4>4 DEF Wanted
    <3> QED
      BY <3>1, <3>2
  <2>6. o[p] \in Nat
    BY <2>2, <2>4
  <2> HIDE DEF p
  <2>7. g[k + 1] \in Seq(Nat) /\ Len(g[k + 1]) = L + (k + 1)
    <3>1. Append(o, o[p]) \in Seq(Nat) /\ Len(Append(o, o[p])) = Len(o) + 1
      BY <2>2, <2>6
    <3> QED
      BY <1>0, <2>2, <2>3, <3>1
  <2>8. \A i \in 1 .. L : g[k + 1][i] = before[i]
    <3>1. \A i \in 1 .. L : i \in 1 .. Len(o)
      BY <1>0, <2>2
    <3> QED
      BY <2>2, <2>3, <2>6, <3>1
  <2>9. ASSUME NEW j \in 1 .. k + 1
        PROVE  g[k + 1][L + j] = Wanted(j)
    <3>1. CASE j = k + 1
      <4>0. Len(o) + 1 = L + j
        BY <1>0, <2>1, <2>2, <3>1
      <4>0a. Append(o, o[p])[Len(o) + 1] = o[p]
        BY <2>2, <2>6, AppendProperties
      <4>1. g[k + 1][Len(o) + 1] = o[p] /\ Len(o) + 1 = L + j
        BY <2>3, <4>0, <4>0a
      <4> QED
        BY <2>5, <3>1, <4>1
    <3>2. CASE j # k + 1
      <4>0. Len(o) = L + k
        BY <2>2
      <4>1. j \in 1 .. k /\ L + j \in 1 .. Len(o)
        BY <1>0, <2>1, <3>2, <4>0
      <4>2. g[k + 1][L + j] = o[L + j]
        BY <2>2, <2>3, <2>6, <4>1
      <4> QED
        BY <2>2, <4>1, <4>2
    <3> QED
      BY <3>1, <3>2
  <2> QED
    BY <2>7, <2>8, <2>9
<1>7. \A k \in 0 .. n : k \in T
  <2> HIDE DEF T
  <2> QED
    BY <1>5, <1>6, UpToInduction
<1>8. Repeated(n)
  <2>1. n \in T
    <3> HIDE DEF T
    <3> QED
      BY <1>7
  <2> HIDE DEF Repeated
  <2> QED
    BY <2>1
<1> DEFINE more == [k \in 1 .. n |-> Wanted(k)]
<1>9. more \in Seq(Nat) /\ Len(more) = n /\ \A k \in 1 .. n : more[k] = Wanted(k)
  <2>1. ASSUME NEW k \in 1 .. n
        PROVE  Wanted(k) \in Nat
    <3> HIDE DEF Wanted
    <3>1. L + k \in 1 .. L + n
      BY <1>0
    <3>2. g[n][L + k] = Wanted(k)
      BY <1>8
    <3> QED
      BY <1>8, <3>1, <3>2
  <2> HIDE DEF Wanted
  <2> QED
    BY <2>1
<1>10. g[n] = before \o more
  <2> HIDE DEF more, Wanted
  <2>1. /\ before \o more \in Seq(Nat) /\ Len(before \o more) = L + n
        /\ \A i \in 1 .. L + n : (before \o more)[i] = IF i <= L THEN before[i] ELSE more[i - L]
    BY <1>9, ConcatProperties DEF L
  <2>2. ASSUME NEW i \in 1 .. L + n
        PROVE  g[n][i] = (before \o more)[i]
    <3>1. CASE i <= L
      <4>1. i \in 1 .. L
        BY <1>0, <3>1
      <4>2. g[n][i] = before[i] /\ (before \o more)[i] = before[i]
        BY <1>8, <2>1, <3>1, <4>1
      <4> QED
        BY <4>2
    <3>2. CASE ~ (i <= L)
      <4>1. i - L \in 1 .. n /\ L + (i - L) = i
        BY <1>0, <3>2
      <4>2. g[n][L + (i - L)] = Wanted(i - L)
        BY <1>8, <4>1
      <4> QED
        BY <1>9, <2>1, <3>2, <4>1, <4>2
    <3> QED
      BY <3>1, <3>2
  <2> QED
    BY <1>8, <2>1, <2>2, SeqEqual
<1> QED
  BY <1>3, <1>10 DEF L

(* The three recursive functions are what their definitions say.           *)
LEMMA OutputsFacts ==
    ASSUME NEW steps, Len(steps) \in Nat
    PROVE  /\ Outputs(steps)[0] = <<>>
           /\ \A n \in 1 .. Len(steps) :
                 Outputs(steps)[n] = Grown(Outputs(steps)[n - 1], steps[n])
<1> DEFINE N == Len(steps)
           Gives(m, g) == g = [n \in 0 .. m |->
               IF n = 0 THEN <<>> ELSE Grown(g[n - 1], steps[n])]
           T == {m \in 0 .. N : \E g : Gives(m, g)}
<1>1. 0 \in T
  <2> DEFINE h == [n \in 0 .. 0 |-> <<>>]
  <2>1. \A n \in 0 .. 0 : n = 0
    OBVIOUS
  <2>2. Gives(0, h)
    BY <2>1
  <2>3. \E g : Gives(0, g)
    BY <2>2
  <2> QED
    BY <2>3
<1>2. ASSUME NEW m \in 0 .. N - 1, m \in T
      PROVE  m + 1 \in T
  <2>1. PICK g : Gives(m, g)
    BY <1>2
  <2> DEFINE h == [n \in 0 .. m + 1 |-> IF n <= m THEN g[n] ELSE Grown(g[m], steps[m + 1])]
  <2>2. m \in Nat /\ m + 1 \in 0 .. N
    OBVIOUS
  <2>3. \A n \in 0 .. m : g[n] = IF n = 0 THEN <<>> ELSE Grown(g[n - 1], steps[n])
    BY <2>1
  <2>4. ASSUME NEW n \in 0 .. m + 1
        PROVE  h[n] = IF n = 0 THEN <<>> ELSE Grown(h[n - 1], steps[n])
    <3>1. CASE n = m + 1
      <4>1. h[n] = Grown(g[m], steps[m + 1]) /\ h[n - 1] = g[m] /\ n # 0
        BY <2>2, <3>1
      <4> QED
        BY <3>1, <4>1
    <3>2. CASE n # m + 1
      <4>1. n \in 0 .. m /\ h[n] = g[n] /\ (n # 0 => n - 1 \in 0 .. m + 1 /\ h[n - 1] = g[n - 1])
        BY <2>2, <3>2
      <4> QED
        BY <2>3, <4>1
    <3> QED
      BY <3>1, <3>2
  <2>5. h = [n \in 0 .. m + 1 |-> h[n]]
    OBVIOUS
  <2> HIDE DEF h
  <2>6. Gives(m + 1, h)
    BY <2>4, <2>5
  <2> HIDE DEF Gives
  <2> QED
    BY <2>2, <2>6
<1>3. N \in T
  <2> HIDE DEF T
  <2>1. \A n \in 0 .. N : n \in T
    BY <1>1, <1>2, UpToInduction
  <2> QED
    BY <2>1
<1>4. Outputs(steps) = CHOOSE g : Gives(N, g)
  BY DEF Outputs
<1> DEFINE out == Outputs(steps)
<1>5. Gives(N, out)
  <2> HIDE DEF Gives
  <2> QED
    BY <1>3, <1>4
<1> HIDE DEF out
<1>6. \A n \in 0 .. N : out[n] = IF n = 0 THEN <<>> ELSE Grown(out[n - 1], steps[n])
  BY <1>5
<1>7. 0 \in 0 .. N /\ \A n \in 1 .. N : n \in 0 .. N /\ n # 0
  OBVIOUS
<1> QED
  BY <1>6, <1>7 DEF out

WithStep(bytes, s) == bytes \o EncodeStep(s)

(* The bytes of the first steps, step by step.                             *)
LEMMA EncodeStepsFacts ==
    ASSUME NEW steps, Len(steps) \in Nat
    PROVE  /\ EncodeSteps(steps)[0] = <<>>
           /\ \A n \in 1 .. Len(steps) :
                 EncodeSteps(steps)[n] = EncodeSteps(steps)[n - 1] \o EncodeStep(steps[n])
<1> DEFINE N == Len(steps)
           Gives(m, g) == g = [n \in 0 .. m |->
               IF n = 0 THEN <<>> ELSE WithStep(g[n - 1], steps[n])]
           T == {m \in 0 .. N : \E g : Gives(m, g)}
<1>1. 0 \in T
  <2> DEFINE h == [n \in 0 .. 0 |-> <<>>]
  <2>1. \A n \in 0 .. 0 : n = 0
    OBVIOUS
  <2>2. Gives(0, h)
    BY <2>1
  <2>3. \E g : Gives(0, g)
    BY <2>2
  <2> QED
    BY <2>3
<1>2. ASSUME NEW m \in 0 .. N - 1, m \in T
      PROVE  m + 1 \in T
  <2>1. PICK g : Gives(m, g)
    BY <1>2
  <2> DEFINE h == [n \in 0 .. m + 1 |-> IF n <= m THEN g[n] ELSE WithStep(g[m], steps[m + 1])]
  <2>2. m \in Nat /\ m + 1 \in 0 .. N
    OBVIOUS
  <2>3. \A n \in 0 .. m : g[n] = IF n = 0 THEN <<>> ELSE WithStep(g[n - 1], steps[n])
    BY <2>1
  <2>4. ASSUME NEW n \in 0 .. m + 1
        PROVE  h[n] = IF n = 0 THEN <<>> ELSE WithStep(h[n - 1], steps[n])
    <3>1. CASE n = m + 1
      <4>1. h[n] = WithStep(g[m], steps[m + 1]) /\ h[n - 1] = g[m] /\ n # 0
        BY <2>2, <3>1
      <4> QED
        BY <3>1, <4>1
    <3>2. CASE n # m + 1
      <4>1. n \in 0 .. m /\ h[n] = g[n] /\ (n # 0 => n - 1 \in 0 .. m + 1 /\ h[n - 1] = g[n - 1])
        BY <2>2, <3>2
      <4> QED
        BY <2>3, <4>1
    <3> QED
      BY <3>1, <3>2
  <2>5. h = [n \in 0 .. m + 1 |-> h[n]]
    OBVIOUS
  <2> HIDE DEF h
  <2>6. Gives(m + 1, h)
    BY <2>4, <2>5
  <2> HIDE DEF Gives
  <2> QED
    BY <2>2, <2>6
<1>3. N \in T
  <2> HIDE DEF T
  <2>1. \A n \in 0 .. N : n \in T
    BY <1>1, <1>2, UpToInduction
  <2> QED
    BY <2>1
<1>4. EncodeSteps(steps) = CHOOSE g : Gives(N, g)
  BY DEF EncodeSteps, WithStep
<1> DEFINE bytes == EncodeSteps(steps)
<1>5. Gives(N, bytes)
  <2> HIDE DEF Gives
  <2> QED
    BY <1>3, <1>4
<1> HIDE DEF bytes
<1>6. \A n \in 0 .. N : bytes[n] = IF n = 0 THEN <<>> ELSE WithStep(bytes[n - 1], steps[n])
  BY <1>5
<1>7. 0 \in 0 .. N /\ \A n \in 1 .. N : n \in 0 .. N /\ n # 0
  OBVIOUS
<1> QED
  BY <1>6, <1>7 DEF bytes, WithStep

(* The rounds of the loop, one after the other.                            *)
LEMMA RoundsFacts ==
    ASSUME NEW src, Len(src) \in Nat
    PROVE  /\ Rounds(src)[0] = [pos |-> 1, out |-> <<>>]
           /\ \A n \in 1 .. Len(src) :
                 Rounds(src)[n] = Round(src, Rounds(src)[n - 1])
<1> DEFINE N == Len(src)
           Gives(m, g) == g = [n \in 0 .. m |->
               IF n = 0 THEN [pos |-> 1, out |-> <<>>] ELSE Round(src, g[n - 1])]
           T == {m \in 0 .. N : \E g : Gives(m, g)}
<1>1. 0 \in T
  <2> DEFINE h == [n \in 0 .. 0 |-> [pos |-> 1, out |-> <<>>]]
  <2>1. \A n \in 0 .. 0 : n = 0
    OBVIOUS
  <2>2. Gives(0, h)
    BY <2>1
  <2>3. \E g : Gives(0, g)
    BY <2>2
  <2> QED
    BY <2>3
<1>2. ASSUME NEW m \in 0 .. N - 1, m \in T
      PROVE  m + 1 \in T
  <2>1. PICK g : Gives(m, g)
    BY <1>2
  <2> DEFINE h == [n \in 0 .. m + 1 |-> IF n <= m THEN g[n] ELSE Round(src, g[m])]
  <2>2. m \in Nat /\ m + 1 \in 0 .. N
    OBVIOUS
  <2>3. \A n \in 0 .. m : g[n] = IF n = 0 THEN [pos |-> 1, out |-> <<>>] ELSE Round(src, g[n - 1])
    BY <2>1
  <2>4. ASSUME NEW n \in 0 .. m + 1
        PROVE  h[n] = IF n = 0 THEN [pos |-> 1, out |-> <<>>] ELSE Round(src, h[n - 1])
    <3>1. CASE n = m + 1
      <4>1. h[n] = Round(src, g[m]) /\ h[n - 1] = g[m] /\ n # 0
        BY <2>2, <3>1
      <4> QED
        BY <3>1, <4>1
    <3>2. CASE n # m + 1
      <4>1. n \in 0 .. m /\ h[n] = g[n] /\ (n # 0 => n - 1 \in 0 .. m + 1 /\ h[n - 1] = g[n - 1])
        BY <2>2, <3>2
      <4> QED
        BY <2>3, <4>1
    <3> QED
      BY <3>1, <3>2
  <2>5. h = [n \in 0 .. m + 1 |-> h[n]]
    OBVIOUS
  <2> HIDE DEF h
  <2>6. Gives(m + 1, h)
    BY <2>4, <2>5
  <2> HIDE DEF Gives
  <2> QED
    BY <2>2, <2>6
<1>3. N \in T
  <2> HIDE DEF T
  <2>1. \A n \in 0 .. N : n \in T
    BY <1>1, <1>2, UpToInduction
  <2> QED
    BY <2>1
<1>4. Rounds(src) = CHOOSE g : Gives(N, g)
  BY DEF Rounds
<1> DEFINE after == Rounds(src)
<1>5. Gives(N, after)
  <2> HIDE DEF Gives
  <2> QED
    BY <1>3, <1>4
<1> HIDE DEF after
<1>6. \A n \in 0 .. N : after[n] = IF n = 0 THEN [pos |-> 1, out |-> <<>>] ELSE Round(src, after[n - 1])
  BY <1>5
<1>7. 0 \in 0 .. N /\ \A n \in 1 .. N : n \in 0 .. N /\ n # 0
  OBVIOUS
<1> QED
  BY <1>6, <1>7 DEF after


StepType == [literals : Seq(0 .. Byte - 1), offset : 1 .. Byte * Byte - 1, match : Nat]

(* The bytes of a step, one part after the other.                          *)
LEMMA EncodeStepFacts ==
    ASSUME NEW s \in StepType
    PROVE  LET e == EncodeStep(s)
               l == Len(s.literals)
               first == Rest(l)
               second == Rest(s.match - 4)
               p == 1 + Len(first)
               q == p + l + 2
           IN s.match >= 4 =>
              /\ e \in Seq(Nat) /\ Len(e) = q + Len(second) /\ Len(e) > 0
              /\ e[1] = Nibble * Half(l) + Half(s.match - 4)
              /\ \A i \in 1 .. Len(first) : e[1 + i] = first[i]
              /\ \A i \in 1 .. l : e[p + i] = s.literals[i]
              /\ e[p + l + 1] = s.offset % Byte /\ e[p + l + 2] = s.offset \div Byte
              /\ \A i \in 1 .. Len(second) : e[q + i] = second[i]
<1> DEFINE l == Len(s.literals)
           first == Rest(l)
           second == Rest(s.match - 4)
           token == Nibble * Half(l) + Half(s.match - 4)
           lits == s.literals
           low == s.offset % Byte
           high == s.offset \div Byte
<1> SUFFICES ASSUME s.match >= 4
             PROVE  LET e == EncodeStep(s)
                        p == 1 + Len(first)
                        q == p + l + 2
                    IN
                    /\ e \in Seq(Nat) /\ Len(e) = q + Len(second) /\ Len(e) > 0
                    /\ e[1] = token
                    /\ \A i \in 1 .. Len(first) : e[1 + i] = first[i]
                    /\ \A i \in 1 .. l : e[p + i] = lits[i]
                    /\ e[p + l + 1] = low /\ e[p + l + 2] = high
                    /\ \A i \in 1 .. Len(second) : e[q + i] = second[i]
  OBVIOUS
<1>1. lits \in Seq(Nat) /\ l \in Nat /\ s.match - 4 \in Nat
  <2>1. lits \in Seq(0 .. Byte - 1) /\ 0 .. Byte - 1 \subseteq Nat /\ s.match \in Nat
    BY BlockNumbers DEF StepType
  <2>2. lits \in Seq(Nat)
    BY <2>1, SeqMonotonic
  <2> QED
    BY <2>1, <2>2
<1>2. first \in Seq(Nat) /\ second \in Seq(Nat) /\ token \in Nat
  <2>1. Half(l) \in Nat /\ Half(s.match - 4) \in Nat
    BY <1>1, RestFacts
  <2>2. Nibble * Half(l) \in Nat
    BY <2>1, BlockNumbers
  <2>3. first \in Seq(Nat) /\ second \in Seq(Nat)
    BY <1>1, RestFacts
  <2> QED
    BY <2>1, <2>2, <2>3
<1>3. low \in Nat /\ high \in Nat
  <2>1. s.offset \in Nat
    BY DEF StepType
  <2> QED
    BY <2>1, BlockNumbers, Division
<1>4. EncodeStep(s) = <<token>> \o first \o lits \o <<low, high>> \o second
  BY DEF EncodeStep
<1>5. l = Len(lits)
  OBVIOUS
<1> HIDE DEF l, first, second, token, lits, low, high
<1> DEFINE a == <<token>> \o first
           b == a \o lits
           c == b \o <<low, high>>
           e == c \o second
<1>a. a = <<token>> \o first
  OBVIOUS
<1>b. b = a \o lits
  OBVIOUS
<1>c. c = b \o <<low, high>>
  OBVIOUS
<1>e. e = c \o second
  OBVIOUS
<1> HIDE DEF a, b, c, e
<1>6. /\ a \in Seq(Nat) /\ Len(a) = 1 + Len(first) /\ a[1] = token
      /\ \A i \in 1 .. Len(first) : a[1 + i] = first[i]
  BY <1>2, <1>a
<1>7. /\ b \in Seq(Nat) /\ Len(b) = Len(a) + l /\ \A i \in 1 .. Len(a) : b[i] = a[i]
      /\ \A i \in 1 .. l : b[Len(a) + i] = lits[i]
  <2>1. a \in Seq(Nat) /\ lits \in Seq(Nat)
    BY <1>1, <1>6
  <2> QED
    BY <1>b, <1>5, <2>1, ConcatFacts
<1>8. /\ c \in Seq(Nat) /\ Len(c) = Len(b) + 2 /\ \A i \in 1 .. Len(b) : c[i] = b[i]
      /\ c[Len(b) + 1] = low /\ c[Len(b) + 2] = high
  <2>1. b \in Seq(Nat)
    BY <1>7
  <2> QED
    BY <1>3, <1>c, <2>1
<1>9. /\ e \in Seq(Nat) /\ Len(e) = Len(c) + Len(second) /\ \A i \in 1 .. Len(c) : e[i] = c[i]
      /\ \A i \in 1 .. Len(second) : e[Len(c) + i] = second[i]
  <2>1. c \in Seq(Nat) /\ second \in Seq(Nat)
    BY <1>2, <1>8
  <2> QED
    BY <1>e, <2>1, ConcatFacts
<1>10. Len(first) \in Nat /\ Len(second) \in Nat
  BY <1>2
<1>11. /\ Len(a) = 1 + Len(first) /\ Len(b) = 1 + Len(first) + l
       /\ Len(c) = 1 + Len(first) + l + 2
  BY <1>1, <1>6, <1>7, <1>8, <1>10
<1>12. e[1] = token
  <2>1. 1 \in 1 .. Len(a) /\ 1 \in 1 .. Len(b) /\ 1 \in 1 .. Len(c)
    BY <1>1, <1>10, <1>11
  <2> QED
    BY <2>1, <1>6, <1>7, <1>8, <1>9
<1>13. ASSUME NEW i \in 1 .. Len(first)
       PROVE  e[1 + i] = first[i]
  <2>1. 1 + i \in 1 .. Len(a) /\ 1 + i \in 1 .. Len(b) /\ 1 + i \in 1 .. Len(c)
    BY <1>1, <1>10, <1>11
  <2>2. e[1 + i] = c[1 + i] /\ c[1 + i] = b[1 + i] /\ b[1 + i] = a[1 + i]
    BY <2>1, <1>7, <1>8, <1>9
  <2> QED
    BY <2>2, <1>6
<1>14. ASSUME NEW i \in 1 .. l
       PROVE  e[1 + Len(first) + i] = lits[i]
  <2>1. 1 + Len(first) + i = Len(a) + i /\ Len(a) + i \in 1 .. Len(b) /\ Len(a) + i \in 1 .. Len(c)
    BY <1>1, <1>10, <1>11
  <2> QED
    BY <2>1, <1>7, <1>8, <1>9
<1>15. e[1 + Len(first) + l + 1] = low /\ e[1 + Len(first) + l + 2] = high
  <2>1. Len(b) + 1 \in 1 .. Len(c) /\ Len(b) + 2 \in 1 .. Len(c)
    BY <1>1, <1>10, <1>11
  <2>2. e[Len(b) + 1] = low /\ e[Len(b) + 2] = high
    BY <2>1, <1>8, <1>9
  <2> QED
    BY <2>2, <1>11
<1>16. Len(e) = 1 + Len(first) + l + 2 + Len(second) /\ Len(e) > 0
  BY <1>1, <1>9, <1>10, <1>11
<1>17. \A i \in 1 .. Len(second) : e[1 + Len(first) + l + 2 + i] = second[i]
  BY <1>9, <1>11
<1>18. EncodeStep(s) = e
  BY <1>4 DEF a, b, c, e
<1> QED
  BY <1>9, <1>12, <1>13, <1>14, <1>15, <1>16, <1>17, <1>18

(* The bytes of literals alone.                                            *)
LEMMA LiteralsFacts ==
    ASSUME NEW data \in Seq(Nat)
    PROVE  LET e == Lz4Literals(data)
               first == Rest(Len(data))
           IN /\ e \in Seq(Nat) /\ Len(e) = 1 + Len(first) + Len(data) /\ Len(e) > 0
              /\ e[1] = Nibble * Half(Len(data))
              /\ \A i \in 1 .. Len(first) : e[1 + i] = first[i]
              /\ \A i \in 1 .. Len(data) : e[1 + Len(first) + i] = data[i]
<1> DEFINE l == Len(data)
           first == Rest(l)
           token == Nibble * Half(l)
           a == <<token>> \o first
           e == a \o data
<1>1. l \in Nat /\ first \in Seq(Nat) /\ token \in Nat
  <2>1. l \in Nat /\ Half(l) \in Nat /\ first \in Seq(Nat)
    BY RestFacts
  <2> QED
    BY <2>1, BlockNumbers
<1>2. Lz4Literals(data) = e
  BY DEF Lz4Literals
<1> HIDE DEF l, first, token
<1>2a. a = <<token>> \o first /\ e = a \o data
  OBVIOUS
<1> HIDE DEF a, e
<1>3. /\ a \in Seq(Nat) /\ Len(a) = 1 + Len(first) /\ a[1] = token
      /\ \A i \in 1 .. Len(first) : a[1 + i] = first[i]
  BY <1>1, <1>2a
<1>4. /\ e \in Seq(Nat) /\ Len(e) = Len(a) + Len(data) /\ \A i \in 1 .. Len(a) : e[i] = a[i]
      /\ \A i \in 1 .. Len(data) : e[Len(a) + i] = data[i]
  BY <1>2a, <1>3, ConcatFacts
<1>5. Len(first) \in Nat /\ Len(data) \in Nat
  BY <1>1
<1>6. e[1] = token /\ \A i \in 1 .. Len(first) : e[1 + i] = first[i]
  <2>1. 1 \in 1 .. Len(a) /\ \A i \in 1 .. Len(first) : 1 + i \in 1 .. Len(a)
    BY <1>3, <1>5
  <2> QED
    BY <2>1, <1>3, <1>4
<1>7. Len(e) = 1 + Len(first) + Len(data) /\ Len(e) > 0
  BY <1>3, <1>4, <1>5
<1>8. \A i \in 1 .. Len(data) : e[1 + Len(first) + i] = data[i]
  BY <1>3, <1>4
<1> QED
  BY <1>2, <1>4, <1>6, <1>7, <1>8 DEF token, first, l

(* Literals come back, and of literals that are cut short only some do.    *)
LEMMA LiteralsAreRead ==
    ASSUME NEW src \in Seq(Nat), NEW pos \in Nat \ {0}, pos <= Len(src),
           NEW data \in Seq(Nat), Holds(src, pos + 1, Rest(Len(data))),
           Holds(src, pos + 1 + Len(Rest(Len(data))), data)
    PROVE  LET from  == pos + 1 + Len(Rest(Len(data)))
               end   == from + Len(data)
               read  == ReadLength(src, pos + 1, Half(Len(data)))
               kept == SubSeq(src, from, Min({end - 1, Len(src)}))
           IN /\ from \in Nat
              /\ from - 1 > Len(src) => read = Invalid
              /\ from - 1 <= Len(src) =>
                    /\ read = [value |-> Len(data), next |-> from] /\ read # Invalid
                    /\ kept \in Seq(Nat)
                    /\ end - 1 <= Len(src) => kept = data
                    /\ end - 1 > Len(src) => Len(kept) < Len(data)
<1> DEFINE l == Len(data)
           from == pos + 1 + Len(Rest(l))
           end == from + l
           m == Min({end - 1, Len(src)})
           read == ReadLength(src, pos + 1, Half(l))
           kept == SubSeq(src, from, m)
<1>1. l \in Nat /\ Len(Rest(l)) \in Nat /\ Len(src) \in Nat
  <2>1. l \in Nat
    OBVIOUS
  <2>2. Rest(l) \in Seq(Nat)
    BY <2>1, RestFacts
  <2> QED
    BY <2>1, <2>2
<1>2. from \in Nat /\ from >= 2 /\ end \in Nat /\ end - 1 \in Nat
  BY <1>1
<1>3. /\ from - 1 <= Len(src) => read = [value |-> l, next |-> from]
      /\ from - 1 > Len(src) => read = Invalid
  <2>1. pos + 1 \in Nat \ {0} /\ (pos + 1) - 1 <= Len(src)
    OBVIOUS
  <2>2. Holds(src, pos + 1, Rest(l))
    OBVIOUS
  <2> HIDE DEF l
  <2> QED
    BY <1>1, <2>1, <2>2, LengthIsRead
<1>4. [value |-> l, next |-> from] # Invalid
  <2>1. [value |-> l, next |-> from] \in [value : Nat, next : Nat]
    BY <1>1, <1>2
  <2> QED
    BY <2>1, BlockParameters
<1>5. Holds(src, from, data)
  OBVIOUS
<1> HIDE DEF read, from, end
<1>6. m \in Nat /\ m <= Len(src) /\ (end - 1 <= Len(src) => m = end - 1)
        /\ (end - 1 > Len(src) => m = Len(src))
  <2> DEFINE two == {end - 1, Len(src)}
  <2>1. two \in SUBSET Nat /\ two # {}
    BY <1>1, <1>2
  <2>2. Min(two) \in two /\ \A x \in two : Min(two) <= x
    <3> HIDE DEF two
    <3> QED
      BY <2>1, MinIsLeast
  <2>3. m = Min(two)
    OBVIOUS
  <2> HIDE DEF m
  <2>4. (m = end - 1 \/ m = Len(src)) /\ m <= end - 1 /\ m <= Len(src)
    BY <2>2, <2>3
  <2>5. end - 1 \in Nat /\ Len(src) \in Nat
    BY <1>1, <1>2
  <2> HIDE DEF two
  <2> QED
    BY <2>4, <2>5
<1>7. kept = SubSeq(src, from, m)
  OBVIOUS
<1> HIDE DEF m, kept
<1>8. /\ kept \in Seq(Nat)
      /\ Len(kept) = IF from <= m THEN m - from + 1 ELSE 0
      /\ \A i \in 1 .. m - from + 1 : kept[i] = src[from + i - 1]
  <2>1. \A i \in from .. m : src[i] \in Nat
    BY <1>1, <1>2, <1>6
  <2>2. from \in Int /\ m \in Int
    BY <1>2, <1>6
  <2> QED
    BY <1>7, <2>1, <2>2, SubSeqProperties
<1>9. ASSUME end - 1 <= Len(src)
      PROVE  kept = data
  <2>1. m = from + l - 1
    BY <1>1, <1>2, <1>6, <1>9 DEF end
  <2>2. Len(kept) = l /\ m - from + 1 = l
    BY <1>1, <1>2, <1>8, <2>1
  <2>3. ASSUME NEW i \in 1 .. l
        PROVE  kept[i] = data[i]
    <3>1. from + i - 1 <= Len(src)
      BY <1>1, <1>2, <1>6, <2>1
    <3>2. src[from + i - 1] = data[i]
      BY <1>5, <3>1 DEF Holds, l
    <3> QED
      BY <1>8, <2>2, <3>2
  <2> QED
    BY <1>8, <2>2, <2>3, SeqEqual DEF l
<1>10. ASSUME from - 1 <= Len(src), end - 1 > Len(src)
       PROVE  Len(kept) < l
  <2>1. m = Len(src) /\ Len(src) < from + l - 1 /\ l > 0
    BY <1>1, <1>2, <1>6, <1>10 DEF end
  <2> QED
    BY <1>1, <1>2, <1>8, <1>10, <2>1
<1> QED
  BY <1>2, <1>3, <1>4, <1>8, <1>9, <1>10 DEF l, from, end, m, read, kept

(* A step with l literals is at pos.                                       *)
StepBegins(src, pos, l) ==
    src[pos] \div Nibble = Half(l) /\ Holds(src, pos + 1, Rest(l))

(* The four places at which the literals may end exclude each other ...    *)
LEMMA Apart ==
    ASSUME NEW a \in Nat, NEW b \in Nat
    PROVE  /\ a - 1 = b => ~ (a = b) /\ ~ (a < b) /\ ~ (a - 1 > b)
           /\ a - 1 > b => ~ (a = b) /\ ~ (a < b) /\ ~ (a - 1 = b)
           /\ a = b => ~ (a > b) /\ ~ (a - 1 > b) /\ ~ (a < b) /\ ~ (a - 1 = b)
           /\ a < b => ~ (a > b) /\ ~ (a = b) /\ a - 1 <= b /\ ~ (a - 1 > b) /\ ~ (a - 1 = b)
  OBVIOUS

(* ... and there is no fifth.                                              *)
LEMMA Compared ==
    ASSUME NEW a \in Nat, NEW b \in Nat
    PROVE  a - 1 = b \/ a - 1 > b \/ a = b \/ a < b
  OBVIOUS

(* What a round does after the literals, by how much of them there is.     *)
AfterLiterals(src, pos, out, data, end, after) ==
    /\ end - 1 = Len(src) => after.pos > Len(src) /\ after.out = out \o data
    /\ end - 1 > Len(src) =>
         /\ after.pos > Len(src)
         /\ \/ after.out = Invalid
            \/ after.out \in Seq(Nat) /\ Len(after.out) < Len(out) + Len(data)
    /\ end = Len(src) => after = [pos |-> Len(src) + 1, out |-> Invalid]
    /\ end < Len(src) =>
         LET offset == src[end] + Byte * src[end + 1]
             match  == ReadLength(src, end + 2, src[pos] % Nibble)
         IN  after = IF offset \notin 1 .. Len(out \o data) \/ match = Invalid
                     THEN [pos |-> Len(src) + 1, out |-> Invalid]
                     ELSE [pos |-> match.next,
                           out |-> CopyMatch(out \o data, offset, match.value + 4)]

(* That is what it does.                                                   *)
LEMMA RoundOfLiterals ==
    ASSUME NEW src \in Seq(Nat), NEW pos \in Nat \ {0}, pos <= Len(src),
           NEW out \in Seq(Nat), NEW data \in Seq(Nat),
           NEW l, l = Len(data), NEW from, from = pos + 1 + Len(Rest(l)),
           NEW end, end = from + l,
           StepBegins(src, pos, l), Holds(src, from, data),
           NEW after, after = Round(src, [pos |-> pos, out |-> out])
    PROVE  AfterLiterals(src, pos, out, data, end, after)
<1>1. /\ l \in Nat /\ Len(Rest(l)) \in Nat /\ Len(src) \in Nat
      /\ from \in Nat /\ end \in Nat /\ from >= 2 /\ end >= from
  <2>1. l \in Nat
    OBVIOUS
  <2>2. Rest(l) \in Seq(Nat)
    BY <2>1, RestFacts
  <2>3. Len(Rest(l)) \in Nat /\ Len(src) \in Nat
    BY <2>2
  <2> QED
    BY <2>1, <2>3
<1> DEFINE literals == ReadLength(src, pos + 1, src[pos] \div Nibble)
           kept == SubSeq(src, from, Min({end - 1, Len(src)}))
<1>2. /\ from - 1 > Len(src) => literals = Invalid
      /\ from - 1 <= Len(src) =>
            /\ literals = [value |-> l, next |-> from] /\ literals # Invalid
            /\ kept \in Seq(Nat)
            /\ end - 1 <= Len(src) => kept = data
            /\ end - 1 > Len(src) => Len(kept) < l
  <2>1. literals = ReadLength(src, pos + 1, Half(l))
    BY DEF StepBegins
  <2>2. LET f == pos + 1 + Len(Rest(Len(data)))
            d == f + Len(data)
            r == ReadLength(src, pos + 1, Half(Len(data)))
            t == SubSeq(src, f, Min({d - 1, Len(src)}))
        IN  /\ f - 1 > Len(src) => r = Invalid
            /\ f - 1 <= Len(src) =>
                  /\ r = [value |-> Len(data), next |-> f] /\ r # Invalid
                  /\ t \in Seq(Nat)
                  /\ d - 1 <= Len(src) => t = data
                  /\ d - 1 > Len(src) => Len(t) < Len(data)
    <3>1. /\ Holds(src, pos + 1, Rest(Len(data)))
          /\ Holds(src, pos + 1 + Len(Rest(Len(data))), data)
      BY DEF StepBegins
    <3> QED
      BY <3>1, LiteralsAreRead
  <2> HIDE DEF literals
  <2> QED
    BY <2>1, <2>2
<1>3. after =
        IF literals = Invalid THEN [pos |-> Len(src) + 1, out |-> Invalid]
        ELSE LET e == literals.next + literals.value
                 copied == out \o SubSeq(src, literals.next, Min({e - 1, Len(src)}))
                 offset == src[e] + Byte * src[e + 1]
                 match == ReadLength(src, e + 2, src[pos] % Nibble)
             IN IF e > Len(src) THEN [pos |-> Len(src) + 1, out |-> copied]
                ELSE IF e = Len(src) \/ offset \notin 1 .. Len(copied) \/ match = Invalid
                THEN [pos |-> Len(src) + 1, out |-> Invalid]
                ELSE [pos |-> match.next,
                      out |-> CopyMatch(copied, offset, match.value + 4)]
  <2> DEFINE s == [pos |-> pos, out |-> out]
  <2>1. s.pos = pos /\ s.out = out /\ ~ (s.pos > Len(src)) /\ after = Round(src, s)
    BY <1>1
  <2> HIDE DEF s
  <2> QED
    BY <2>1, Zenon DEF Round
<1> HIDE DEF literals
<1> DEFINE Stop(x) == [pos |-> Len(src) + 1, out |-> x]
<1>4. ASSUME NEW x
      PROVE  Stop(x).pos > Len(src) /\ Stop(x).out = x
  BY <1>1
<1>5. CASE from - 1 > Len(src)
  <2>1. after = Stop(Invalid)
    BY <1>2, <1>3, <1>5
  <2> HIDE DEF Stop
  <2>2. after.pos > Len(src) /\ after.out = Invalid
    BY <1>4, <2>1
  <2>3. ~ (end = Len(src)) /\ ~ (end < Len(src)) /\ ~ (end - 1 = Len(src))
    BY <1>1, <1>5
  <2> QED
    BY <2>2, <2>3 DEF AfterLiterals
<1>6. CASE from - 1 <= Len(src)
  <2>1. literals # Invalid /\ literals.next = from /\ literals.value = l
    BY <1>2, <1>6
  <2>2. /\ kept \in Seq(Nat)
        /\ end - 1 <= Len(src) => kept = data
        /\ end - 1 > Len(src) => Len(kept) < l
    BY <1>2, <1>6
  <2>3. after =
          LET copied == out \o kept
              offset == src[end] + Byte * src[end + 1]
              match == ReadLength(src, end + 2, src[pos] % Nibble)
          IN IF end > Len(src) THEN [pos |-> Len(src) + 1, out |-> copied]
             ELSE IF end = Len(src) \/ offset \notin 1 .. Len(copied) \/ match = Invalid
             THEN [pos |-> Len(src) + 1, out |-> Invalid]
             ELSE [pos |-> match.next,
                   out |-> CopyMatch(copied, offset, match.value + 4)]
    BY <1>3, <2>1
  <2> HIDE DEF kept
  <2>4. CASE end - 1 = Len(src)
    <3>1. end > Len(src) /\ end - 1 <= Len(src)
      BY <1>1, <2>4
    <3>2. after = Stop(out \o data)
      BY <2>2, <2>3, <3>1
    <3> HIDE DEF Stop
    <3>3. after.pos > Len(src) /\ after.out = out \o data
      BY <1>4, <3>2
    <3>4. ~ (end = Len(src)) /\ ~ (end < Len(src)) /\ ~ (end - 1 > Len(src))
      BY <1>1, <2>4, Apart
    <3> QED
      BY <3>3, <3>4 DEF AfterLiterals
  <2>5. CASE end - 1 > Len(src)
    <3>1. end > Len(src)
      BY <1>1, <2>5
    <3>2. after = Stop(out \o kept)
      BY <2>3, <3>1
    <3> HIDE DEF Stop
    <3>3. after.pos > Len(src) /\ after.out = out \o kept
      BY <1>4, <3>2
    <3>4. out \o kept \in Seq(Nat) /\ Len(out \o kept) = Len(out) + Len(kept)
      BY <2>2
    <3>5. Len(kept) < l /\ Len(kept) \in Nat /\ Len(out) \in Nat
      BY <2>2, <2>5
    <3>6. Len(out \o kept) < Len(out) + Len(data)
      BY <1>1, <3>4, <3>5
    <3>7. ~ (end = Len(src)) /\ ~ (end < Len(src)) /\ ~ (end - 1 = Len(src))
      BY <1>1, <2>5, Apart
    <3> QED
      BY <3>3, <3>4, <3>6, <3>7 DEF AfterLiterals
  <2>6. CASE end = Len(src)
    <3>0. ~ (end > Len(src))
      BY <1>1, <2>6, Apart
    <3>1. after = [pos |-> Len(src) + 1, out |-> Invalid]
      BY <2>3, <2>6, <3>0
    <3>2. ~ (end - 1 > Len(src)) /\ ~ (end < Len(src)) /\ ~ (end - 1 = Len(src))
      BY <1>1, <2>6, Apart
    <3> QED
      BY <3>1, <3>2 DEF AfterLiterals
  <2>7. CASE end < Len(src)
    <3>1. ~ (end > Len(src)) /\ ~ (end = Len(src)) /\ end - 1 <= Len(src)
      BY <1>1, <2>7, Apart
    <3>2. ~ (end - 1 > Len(src)) /\ ~ (end - 1 = Len(src))
      BY <1>1, <2>7, Apart
    <3> QED
      BY <2>2, <2>3, <3>1, <3>2 DEF AfterLiterals
  <2>8. end - 1 = Len(src) \/ end - 1 > Len(src) \/ end = Len(src) \/ end < Len(src)
    BY <1>1, Compared
  <2> QED
    BY <2>4, <2>5, <2>6, <2>7, <2>8
<1>7. from - 1 <= Len(src) \/ from - 1 > Len(src)
  BY <1>1
<1> QED
  BY <1>5, <1>6, <1>7

(* A step is kept as a whole, and one that is cut short ends the loop.    *)
LEMMA RoundOfStep ==
    ASSUME NEW src \in Seq(Nat), NEW pos \in Nat \ {0}, pos <= Len(src),
           NEW out \in Seq(Nat), NEW step \in StepType, step.match >= 4,
           step.offset <= Len(out \o step.literals),
           Holds(src, pos, EncodeStep(step))
    PROVE  LET after == Round(src, [pos |-> pos, out |-> out])
               next  == pos + Len(EncodeStep(step))
           IN /\ next - 1 <= Len(src) => after = [pos |-> next, out |-> Grown(out, step)]
              /\ next - 1 > Len(src) =>
                    /\ after.pos > Len(src)
                    /\ \/ after.out = Invalid
                       \/ /\ after.out \in Seq(Nat)
                          /\ Len(after.out) <= Len(out) + Len(step.literals)
<1> DEFINE e == EncodeStep(step)
           data == step.literals
           l == Len(data)
           first == Len(Rest(l))
           n == step.match - 4
           rest == Rest(n)
           from == pos + 1 + first
           end == from + l
           after == Round(src, [pos |-> pos, out |-> out])
           next == pos + Len(e)
<1>1. /\ data \in Seq(Nat) /\ l \in Nat /\ first \in Nat /\ n \in Nat
      /\ rest \in Seq(Nat) /\ Len(rest) \in Nat /\ Rest(l) \in Seq(Nat) /\ Len(src) \in Nat
  <2>1. data \in Seq(0 .. Byte - 1) /\ 0 .. Byte - 1 \subseteq Nat /\ step.match \in Nat
    BY BlockNumbers DEF StepType
  <2>2. data \in Seq(Nat)
    BY <2>1, SeqMonotonic
  <2>3. l \in Nat /\ n \in Nat
    BY <2>1, <2>2
  <2>4. Rest(l) \in Seq(Nat) /\ rest \in Seq(Nat)
    <3> HIDE DEF l, n
    <3> QED
      BY <2>3, RestFacts
  <2> QED
    BY <2>2, <2>3, <2>4
<1>2. /\ e \in Seq(Nat) /\ Len(e) = 1 + first + l + 2 + Len(rest)
  BY EncodeStepFacts
<1>2n. Len(e) = 1 + first + l + 2 + Len(rest)
  BY <1>2
<1>2a. e[1] = Nibble * Half(l) + Half(n)
  BY EncodeStepFacts
<1>2b. /\ \A i \in 1 .. first : e[1 + i] = Rest(l)[i]
       /\ \A i \in 1 .. l : e[1 + first + i] = data[i]
       /\ \A i \in 1 .. Len(rest) : e[1 + first + l + 2 + i] = rest[i]
  BY EncodeStepFacts
<1>2c. /\ e[1 + first + l + 1] = step.offset % Byte
       /\ e[1 + first + l + 2] = step.offset \div Byte
  BY EncodeStepFacts
<1>3. Holds(src, pos, e)
  OBVIOUS
<1>4. /\ l = Len(data) /\ first = Len(Rest(l)) /\ rest = Rest(n)
      /\ from = pos + 1 + first /\ end = from + l /\ next = pos + Len(e)
      /\ after = Round(src, [pos |-> pos, out |-> out])
  OBVIOUS
<1>4n. /\ l \in Nat /\ first \in Nat /\ n \in Nat /\ Len(rest) \in Nat /\ Len(src) \in Nat
       /\ from = pos + 1 + first /\ end = from + l /\ next = pos + Len(e)
  BY <1>1
<1>5. step.match = n + 4 /\ step.match \in Nat
  BY DEF StepType
<1>6. step.offset \in 1 .. Len(out \o data) /\ out \o data \in Seq(Nat)
  BY <1>1 DEF StepType
<1> HIDE DEF e, data, n, rest, l, first, from, end, next, after
<1>7. next = end + 2 + Len(rest) /\ end \in Nat /\ from \in Nat /\ from >= 2 /\ end >= from
  BY <1>2n, <1>4n
<1>8. src[pos] = Nibble * Half(l) + Half(n)
  <2>1. 1 \in 1 .. Len(e) /\ pos + 1 - 1 = pos
    BY <1>1, <1>2
  <2> QED
    BY <1>2a, <1>3, <2>1 DEF Holds
<1>9. src[pos] \div Nibble = Half(l) /\ src[pos] % Nibble = Half(n)
  <2>1. Half(l) \in Nat /\ Half(n) \in Nat /\ Half(n) < Nibble
    BY <1>1, RestFacts
  <2>2. Nibble \in Nat /\ Nibble > 0
    BY BlockNumbers
  <2>3. /\ (Nibble * Half(l) + Half(n)) \div Nibble = Half(l)
        /\ (Nibble * Half(l) + Half(n)) % Nibble = Half(n)
    BY <2>1, <2>2, DivisionIsUnique
  <2> QED
    BY <1>8, <2>3
<1>10. Holds(src, pos + 1, Rest(l)) /\ Holds(src, from, data) /\ Holds(src, end + 2, rest)
  <2>1. /\ 1 + Len(Rest(l)) <= Len(e) /\ (1 + first) + l <= Len(e)
        /\ (1 + first + l + 2) + Len(rest) <= Len(e)
    <3>1. Len(Rest(l)) = first
      BY <1>4
    <3> QED
      BY <1>2n, <1>4n, <3>1
  <2>2. Holds(src, pos + 1, Rest(l))
    BY <1>1, <1>2, <1>2b, <1>3, <1>4, <2>1, HoldsPart
  <2>3. Holds(src, pos + (1 + first), data)
    <3>1. 1 + first \in Nat
      BY <1>1
    <3> QED
      BY <1>1, <1>2, <1>2b, <1>3, <1>4, <2>1, <3>1, HoldsPart
  <2>4. Holds(src, pos + (1 + first + l + 2), rest)
    <3>1. 1 + first + l + 2 \in Nat
      BY <1>1
    <3> QED
      BY <1>1, <1>2, <1>2b, <1>3, <2>1, <3>1, HoldsPart
  <2>5. pos + (1 + first) = from /\ pos + (1 + first + l + 2) = end + 2
    BY <1>1, <1>4
  <2> QED
    BY <2>2, <2>3, <2>4, <2>5
<1>11. StepBegins(src, pos, l)
  BY <1>9, <1>10 DEF StepBegins
<1>12. AfterLiterals(src, pos, out, data, end, after)
  <2>1. from = pos + 1 + Len(Rest(l))
    BY <1>4
  <2>2. data \in Seq(Nat) /\ l = Len(data) /\ end = from + l
    BY <1>1, <1>4
  <2>3. after = Round(src, [pos |-> pos, out |-> out])
    BY <1>4
  <2> QED
    BY <1>10, <1>11, <2>1, <2>2, <2>3, RoundOfLiterals
<1> DEFINE read == ReadLength(src, end + 2, src[pos] % Nibble)
<1>13. ASSUME end < Len(src)
       PROVE  /\ after = IF read = Invalid THEN [pos |-> Len(src) + 1, out |-> Invalid]
                         ELSE [pos |-> read.next,
                               out |-> CopyMatch(out \o data, step.offset, read.value + 4)]
              /\ next - 1 <= Len(src) => read = [value |-> n, next |-> next]
              /\ next - 1 > Len(src) => read = Invalid
  <2>1. src[end] + Byte * src[end + 1] = step.offset
    <3>1. step.offset \in Nat /\ Byte \in Nat /\ Byte > 0
      BY BlockNumbers DEF StepType
    <3>2. /\ 1 + first + l + 1 \in 1 .. Len(e) /\ pos + (1 + first + l + 1) - 1 = end
          /\ 1 + first + l + 2 \in 1 .. Len(e) /\ pos + (1 + first + l + 2) - 1 = end + 1
          /\ end <= Len(src) /\ end + 1 <= Len(src)
      BY <1>2n, <1>4n, <1>13
    <3>3. src[end] = step.offset % Byte /\ src[end + 1] = step.offset \div Byte
      BY <1>2c, <1>3, <3>2 DEF Holds
    <3> DEFINE low == step.offset % Byte
               high == step.offset \div Byte
    <3>4. high \in Nat /\ low \in 0 .. Byte - 1 /\ step.offset = Byte * high + low
      BY <3>1, Division, Zenon
    <3> HIDE DEF low, high
    <3>5. Byte * high \in Nat /\ low \in Nat
      BY <3>1, <3>4
    <3>6. low + Byte * high = Byte * high + low
      BY <3>5
    <3> QED
      BY <3>3, <3>4, <3>6 DEF low, high
  <2>2. after = IF read = Invalid THEN [pos |-> Len(src) + 1, out |-> Invalid]
                ELSE [pos |-> read.next,
                      out |-> CopyMatch(out \o data, step.offset, read.value + 4)]
    BY <1>6, <1>12, <1>13, <2>1 DEF AfterLiterals
  <2>3. /\ next - 1 <= Len(src) => read = [value |-> n, next |-> next]
        /\ next - 1 > Len(src) => read = Invalid
    <3>1. end + 2 \in Nat \ {0} /\ (end + 2) - 1 <= Len(src) /\ end + 2 + Len(rest) = next
      BY <1>4n, <1>7, <1>13
    <3>2. read = ReadLength(src, end + 2, Half(n))
      BY <1>9
    <3>3. Holds(src, end + 2, Rest(n)) /\ rest = Rest(n)
      BY <1>4, <1>10
    <3> HIDE DEF read
    <3>4. LET q == end + 2 + Len(Rest(n)) IN
          /\ q - 1 <= Len(src) => read = [value |-> n, next |-> q]
          /\ q - 1 > Len(src) => read = Invalid
      <4> DEFINE p == end + 2
      <4>1. /\ p \in Nat \ {0} /\ p - 1 <= Len(src) /\ n \in Nat
            /\ Holds(src, p, Rest(n)) /\ read = ReadLength(src, p, Half(n))
        BY <1>4n, <3>1, <3>2, <3>3
      <4> HIDE DEF p
      <4>2. LET q == p + Len(Rest(n)) IN
            /\ q - 1 <= Len(src) => read = [value |-> n, next |-> q]
            /\ q - 1 > Len(src) => read = Invalid
        BY <4>1, LengthIsRead
      <4> QED
        BY <4>2 DEF p
    <3> QED
      BY <3>1, <3>3, <3>4
  <2> QED
    BY <2>2, <2>3
<1> HIDE DEF read
<1> DEFINE Ended == /\ after.pos > Len(src)
                    /\ \/ after.out = Invalid
                       \/ after.out \in Seq(Nat) /\ Len(after.out) <= Len(out) + l
<1>14. ASSUME next - 1 > Len(src)
       PROVE  Ended
  <2>1. ASSUME after = [pos |-> Len(src) + 1, out |-> Invalid]
        PROVE  Ended
    BY <1>4n, <2>1
  <2>2. CASE end - 1 > Len(src)
    <3>1. /\ after.pos > Len(src)
          /\ \/ after.out = Invalid
             \/ after.out \in Seq(Nat) /\ Len(after.out) < Len(out) + Len(data)
      BY <1>12, <2>2 DEF AfterLiterals
    <3>2. Len(data) = l
      BY <1>4
    <3>3. \A o \in Seq(Nat) : Len(o) \in Nat /\ (Len(o) < Len(out) + l => Len(o) <= Len(out) + l)
      BY <1>4n
    <3> QED
      BY <3>1, <3>2, <3>3
  <2>3. CASE end - 1 = Len(src)
    <3>1. after.pos > Len(src) /\ after.out = out \o data
      BY <1>12, <2>3 DEF AfterLiterals
    <3>2. out \o data \in Seq(Nat) /\ Len(out \o data) = Len(out) + Len(data) /\ Len(data) = l
      BY <1>1, <1>4
    <3>3. Len(out \o data) <= Len(out) + l
      BY <1>4n, <3>2
    <3> QED
      BY <3>1, <3>2, <3>3
  <2>4. CASE end = Len(src)
    BY <1>12, <2>1, <2>4 DEF AfterLiterals
  <2>5. CASE end < Len(src)
    <3>1. after = [pos |-> Len(src) + 1, out |-> Invalid]
      BY <1>13, <1>14, <2>5
    <3> QED
      BY <2>1, <3>1
  <2>6. end - 1 = Len(src) \/ end - 1 > Len(src) \/ end = Len(src) \/ end < Len(src)
    BY <1>4n, <1>7, Compared
  <2> QED
    BY <2>2, <2>3, <2>4, <2>5, <2>6
<1>15. ASSUME next - 1 <= Len(src)
       PROVE  after = [pos |-> next, out |-> Grown(out, step)]
  <2>1. end < Len(src)
    BY <1>4n, <1>7, <1>15
  <2>2. read = [value |-> n, next |-> next]
    BY <1>13, <1>15, <2>1
  <2>3. [value |-> n, next |-> next] \in [value : Nat, next : Nat]
    BY <1>4n, <1>7
  <2>4. read # Invalid /\ read.next = next /\ read.value = n
    BY <2>2, <2>3, BlockParameters
  <2>5. after = [pos |-> next, out |-> CopyMatch(out \o data, step.offset, step.match)]
    BY <1>5, <1>13, <2>1, <2>4
  <2> DEFINE grown == out \o data
  <2>6. CopyMatch(grown, step.offset, step.match) =
          grown \o [k \in 1 .. step.match |->
                       grown[Len(grown) - step.offset + 1 + ((k - 1) % step.offset)]]
    <3>1. grown \in Seq(Nat) /\ step.offset \in 1 .. Len(grown) /\ step.match \in Nat
      BY <1>5, <1>6
    <3> HIDE DEF grown
    <3> QED
      BY <3>1, CopyRepeats
  <2>7. CopyMatch(out \o data, step.offset, step.match) = Grown(out, step)
    BY <2>6 DEF Grown, data
  <2> QED
    BY <2>5, <2>7
<1>16. (next - 1 <= Len(src) \/ next - 1 > Len(src)) /\ ~ (next - 1 <= Len(src) /\ next - 1 > Len(src))
  BY <1>1, <1>7
<1> QED
  BY <1>14, <1>15, <1>16 DEF after, next, e, l, data

(* The last literals end the loop, and when they are cut short they are    *)
(* not kept for more.                                                     *)
LEMMA RoundOfLast ==
    ASSUME NEW src \in Seq(Nat), NEW pos \in Nat \ {0}, pos <= Len(src),
           NEW out \in Seq(Nat), NEW data \in Seq(Nat),
           Holds(src, pos, Lz4Literals(data)),
           Len(src) <= pos + Len(Lz4Literals(data)) - 1
    PROVE  LET after == Round(src, [pos |-> pos, out |-> out])
               next  == pos + Len(Lz4Literals(data))
           IN /\ after.pos > Len(src)
              /\ next - 1 = Len(src) => after.out = out \o data
              /\ next - 1 # Len(src) =>
                    \/ after.out = Invalid
                    \/ /\ after.out \in Seq(Nat)
                       /\ Len(after.out) < Len(out) + Len(data)
<1> DEFINE e == Lz4Literals(data)
           l == Len(data)
           first == Len(Rest(l))
           from == pos + 1 + first
           end == from + l
           after == Round(src, [pos |-> pos, out |-> out])
<1>1. /\ e \in Seq(Nat) /\ Len(e) = 1 + first + l
  BY LiteralsFacts
<1>2. e[1] = Nibble * Half(l)
  BY LiteralsFacts
<1>3. /\ \A i \in 1 .. first : e[1 + i] = Rest(l)[i]
      /\ \A i \in 1 .. l : e[1 + first + i] = data[i]
  BY LiteralsFacts
<1>4. Holds(src, pos, e) /\ Len(src) <= pos + Len(e) - 1
  OBVIOUS
<1>5. l \in Nat /\ Len(src) \in Nat
  OBVIOUS
<1>6. /\ l = Len(data) /\ first = Len(Rest(l)) /\ from = pos + 1 + first /\ end = from + l
      /\ after = Round(src, [pos |-> pos, out |-> out])
  OBVIOUS
<1> HIDE DEF e, l, first, from, end, after
<1>7. Rest(l) \in Seq(Nat) /\ Half(l) \in Nat /\ first \in Nat
  BY <1>5, <1>6, RestFacts
<1>7a. first \in Nat
  BY <1>7
<1>8. Len(e) = 1 + first + l
  BY <1>1
<1>9. end = pos + Len(e) /\ end \in Nat /\ from \in Nat
  BY <1>5, <1>6, <1>7a, <1>8
<1>10. src[pos] = Nibble * Half(l) + 0
  <2>1. 1 \in 1 .. Len(e) /\ pos + 1 - 1 = pos
    BY <1>5, <1>7a, <1>8
  <2>2. src[pos] = Nibble * Half(l)
    BY <1>2, <1>4, <2>1 DEF Holds
  <2>3. Nibble * Half(l) \in Nat
    BY <1>7, BlockNumbers
  <2> QED
    BY <2>2, <2>3
<1>11. src[pos] \div Nibble = Half(l)
  <2>1. 0 \in Nat /\ Nibble \in Nat /\ Nibble > 0 /\ 0 < Nibble
    BY BlockNumbers
  <2>2. (Nibble * Half(l) + 0) \div Nibble = Half(l)
    BY <1>7, <2>1, DivisionIsUnique
  <2> QED
    BY <1>10, <2>2
<1>12. Holds(src, pos + 1, Rest(l)) /\ Holds(src, from, data)
  <2>0. Len(Rest(l)) = first /\ Len(data) = l
    BY <1>6
  <2>1. 1 + Len(Rest(l)) <= Len(e) /\ (1 + first) + Len(data) <= Len(e) /\ 1 + first \in Nat
    BY <1>5, <1>7a, <1>8, <2>0
  <2>2. Holds(src, pos + 1, Rest(l))
    BY <1>1, <1>3, <1>4, <1>7, <2>0, <2>1, HoldsPart
  <2>3. Holds(src, pos + (1 + first), data)
    BY <1>1, <1>3, <1>4, <2>0, <2>1, HoldsPart
  <2>4. pos + (1 + first) = from
    BY <1>6, <1>7a
  <2> QED
    BY <2>2, <2>3, <2>4
<1>13. AfterLiterals(src, pos, out, data, end, after)
  <2>1. from = pos + 1 + Len(Rest(l)) /\ StepBegins(src, pos, l)
    BY <1>6, <1>11, <1>12 DEF StepBegins
  <2>2. l = Len(data) /\ end = from + l /\ after = Round(src, [pos |-> pos, out |-> out])
    BY <1>6
  <2> QED
    BY <1>12, <2>1, <2>2, RoundOfLiterals
<1>14. end - 1 = Len(src) \/ end - 1 > Len(src)
  <2>1. Len(src) <= end - 1
    BY <1>4, <1>9
  <2>2. ~ (end = Len(src)) /\ ~ (end < Len(src))
    BY <1>5, <1>9, <2>1
  <2> QED
    BY <1>5, <1>9, <2>2, Compared
<1>15. pos + Len(e) = end
  BY <1>9
<1>16. /\ after.pos > Len(src)
       /\ end - 1 = Len(src) => after.out = out \o data
       /\ end - 1 # Len(src) =>
             \/ after.out = Invalid
             \/ after.out \in Seq(Nat) /\ Len(after.out) < Len(out) + Len(data)
  BY <1>13, <1>14 DEF AfterLiterals
<1> QED
  BY <1>15, <1>16 DEF after, e

(* A step puts out its literals and its match.                             *)
LEMMA GrownFacts ==
    ASSUME NEW out \in Seq(Nat), NEW step \in StepType,
           step.offset <= Len(out \o step.literals)
    PROVE  /\ Grown(out, step) \in Seq(Nat)
           /\ Len(Grown(out, step)) = Len(out) + Len(step.literals) + step.match
<1> DEFINE data == step.literals
           before == out \o data
           offset == step.offset
           n == step.match
           more == [k \in 1 .. n |-> before[Len(before) - offset + 1 + ((k - 1) % offset)]]
<1>1. data \in Seq(Nat) /\ n \in Nat /\ offset \in Nat /\ offset > 0
  <2>1. data \in Seq(0 .. Byte - 1) /\ 0 .. Byte - 1 \subseteq Nat
    BY BlockNumbers DEF StepType
  <2>2. data \in Seq(Nat)
    BY <2>1, SeqMonotonic
  <2>3. n \in Nat /\ offset \in Nat /\ offset > 0
    BY DEF StepType
  <2> QED
    BY <2>2, <2>3
<1>2. before \in Seq(Nat) /\ Len(before) = Len(out) + Len(data) /\ offset <= Len(before)
  BY <1>1
<1>3. Grown(out, step) = before \o more
  BY DEF Grown
<1> HIDE DEF before, offset, n
<1>4. more \in Seq(Nat) /\ Len(more) = n
  <2>1. ASSUME NEW k \in 1 .. n
        PROVE  before[Len(before) - offset + 1 + ((k - 1) % offset)] \in Nat
    <3>1. k - 1 \in Nat
      BY <1>1
    <3>2. (k - 1) % offset \in 0 .. offset - 1
      BY <1>1, <3>1, Division
    <3> DEFINE r == (k - 1) % offset
    <3>3. r \in 0 .. offset - 1
      BY <3>2
    <3> HIDE DEF r
    <3>4. Len(before) - offset + 1 + r \in 1 .. Len(before)
      BY <1>1, <1>2, <3>3
    <3>5. before[Len(before) - offset + 1 + r] \in Nat
      BY <1>2, <3>4
    <3> QED
      BY <3>5 DEF r
  <2> QED
    BY <1>1, <2>1
<1> HIDE DEF more
<1>5. before \o more \in Seq(Nat) /\ Len(before \o more) = Len(before) + n
  BY <1>1, <1>2, <1>4, ConcatProperties
<1> QED
  BY <1>2, <1>3, <1>5 DEF n, data

(* A step's literals are bytes, and its lengths are numbers.               *)
LEMMA StepFacts ==
    ASSUME NEW s \in StepType
    PROVE  /\ s.literals \in Seq(Nat) /\ Len(s.literals) \in Nat
           /\ s.match \in Nat /\ s.offset \in Nat /\ s.offset > 0
<1>1. s.literals \in Seq(0 .. Byte - 1) /\ 0 .. Byte - 1 \subseteq Nat
  BY BlockNumbers DEF StepType
<1>2. s.literals \in Seq(Nat)
  BY <1>1, SeqMonotonic
<1>3. s.match \in Nat /\ s.offset \in Nat /\ s.offset > 0
  BY DEF StepType
<1> QED
  BY <1>2, <1>3

(* What a well-formed block stands for grows with every step.              *)
LEMMA OutputsGrow ==
    ASSUME NEW b, WellFormed(b)
    PROVE  LET N   == Len(b.steps)
               out == Outputs(b.steps)
           IN /\ N \in Nat /\ b.last \in Seq(Nat) /\ Expand(b) \in Seq(Nat)
              /\ Expand(b) = out[N] \o b.last
              /\ Len(Expand(b)) = Len(out[N]) + Len(b.last)
              /\ out[0] = <<>>
              /\ \A n \in 0 .. N : /\ out[n] \in Seq(Nat)
                                   /\ Len(out[n]) <= Len(Expand(b))
                                   /\ n < N => Len(out[n]) < Len(Expand(b))
              /\ \A n \in 1 .. N :
                    /\ b.steps[n] \in StepType /\ b.steps[n].match >= 4
                    /\ b.steps[n].offset <= Len(out[n - 1] \o b.steps[n].literals)
                    /\ out[n] = Grown(out[n - 1], b.steps[n])
                    /\ Len(out[n - 1]) + Len(b.steps[n].literals) < Len(Expand(b))
<1> DEFINE steps == b.steps
           N == Len(steps)
           out == Outputs(steps)
<1>1. /\ steps \in Seq(StepType) /\ b.last \in Seq(0 .. Byte - 1)
      /\ \A n \in DOMAIN steps :
            /\ steps[n].match >= 4
            /\ steps[n].offset <= Len(out[n - 1] \o steps[n].literals)
  BY DEF WellFormed, StepType
<1>2. N \in Nat /\ DOMAIN steps = 1 .. N
  BY <1>1
<1>3. out[0] = <<>> /\ \A n \in 1 .. N : out[n] = Grown(out[n - 1], steps[n])
  BY <1>2, OutputsFacts
<1>4. b.last \in Seq(Nat)
  <2>1. 0 .. Byte - 1 \subseteq Nat
    BY BlockNumbers
  <2> QED
    BY <1>1, <2>1, SeqMonotonic
<1>5. Expand(b) = out[N] \o b.last
  BY DEF Expand
<1> HIDE DEF out, N, steps
<1>6. \A n \in 1 .. N : /\ steps[n] \in StepType /\ steps[n].match >= 4
                        /\ steps[n].offset <= Len(out[n - 1] \o steps[n].literals)
  BY <1>1, <1>2, ElementOfSeq DEF N
<1> DEFINE Grows(k) == /\ out[k] \in Seq(Nat)
                       /\ \A n \in 0 .. k : Len(out[n]) \in Nat /\ Len(out[n]) <= Len(out[k])
           T == {k \in 0 .. N : Grows(k)}
<1>7. 0 \in T
  <2>1. out[0] \in Seq(Nat) /\ Len(out[0]) \in Nat
    BY <1>3
  <2>2. \A n \in 0 .. 0 : n = 0
    OBVIOUS
  <2> QED
    BY <1>2, <2>1, <2>2
<1>7a. ASSUME NEW n \in 1 .. N, out[n - 1] \in Seq(Nat)
       PROVE  /\ out[n] \in Seq(Nat)
              /\ Len(out[n]) = Len(out[n - 1]) + Len(steps[n].literals) + steps[n].match
              /\ Len(out[n]) \in Nat /\ Len(out[n - 1]) \in Nat
              /\ Len(out[n - 1]) + Len(steps[n].literals) \in Nat
              /\ Len(out[n - 1]) + Len(steps[n].literals) < Len(out[n])
              /\ Len(out[n - 1]) < Len(out[n])
  <2> DEFINE s == steps[n]
             before == out[n - 1]
  <2>1. /\ s \in StepType /\ s.match >= 4 /\ s.offset <= Len(before \o s.literals)
        /\ before \in Seq(Nat) /\ out[n] = Grown(before, s)
    BY <1>3, <1>6, <1>7a
  <2> HIDE DEF s, before
  <2>2. Grown(before, s) \in Seq(Nat) /\ Len(Grown(before, s)) = Len(before) + Len(s.literals) + s.match
    BY <2>1, GrownFacts
  <2>3. Len(before) \in Nat /\ Len(s.literals) \in Nat /\ s.match \in Nat
    BY <2>1, StepFacts
  <2>4. /\ Len(before) + Len(s.literals) < Len(out[n]) /\ Len(before) < Len(out[n])
        /\ Len(before) + Len(s.literals) \in Nat
    BY <2>1, <2>2, <2>3
  <2>5. /\ out[n] \in Seq(Nat) /\ Len(out[n]) \in Nat
        /\ Len(out[n]) = Len(before) + Len(s.literals) + s.match
    BY <2>1, <2>2
  <2> QED
    BY <2>3, <2>4, <2>5 DEF s, before
<1>8. ASSUME NEW k \in 0 .. N - 1, k \in T
      PROVE  k + 1 \in T
  <2>1. k + 1 \in 1 .. N /\ k + 1 \in 0 .. N /\ k \in Nat /\ (k + 1) - 1 = k
    BY <1>2
  <2>2. /\ out[k] \in Seq(Nat)
        /\ \A n \in 0 .. k : Len(out[n]) \in Nat /\ Len(out[n]) <= Len(out[k])
    BY <1>8
  <2>3. /\ out[k + 1] \in Seq(Nat) /\ Len(out[k + 1]) \in Nat /\ Len(out[k]) \in Nat
        /\ Len(out[k]) < Len(out[k + 1])
    BY <1>7a, <2>1, <2>2
  <2>4. ASSUME NEW n \in 0 .. k + 1
        PROVE  Len(out[n]) \in Nat /\ Len(out[n]) <= Len(out[k + 1])
    <3>1. CASE n = k + 1
      BY <2>3, <3>1
    <3>2. CASE n # k + 1
      <4>1. n \in 0 .. k
        BY <2>1, <3>2
      <4>2. Len(out[n]) \in Nat /\ Len(out[n]) <= Len(out[k])
        BY <2>2, <4>1
      <4> QED
        BY <2>3, <4>2
    <3> QED
      BY <3>1, <3>2
  <2> QED
    BY <2>1, <2>3, <2>4
<1>9. ASSUME NEW k \in 0 .. N
      PROVE  Grows(k)
  <2>1. k \in T
    <3> HIDE DEF T
    <3> QED
      BY <1>2, <1>7, <1>8, UpToInduction
  <2> QED
    BY <2>1
<1>10. \A k \in 0 .. N : out[k] \in Seq(Nat) /\ Len(out[k]) \in Nat
  BY <1>9
<1>11. \A k \in 0 .. N : Len(out[k]) <= Len(out[N])
  BY <1>2, <1>9
<1> HIDE DEF Grows, T
<1>12. N \in 0 .. N /\ \A n \in 1 .. N : n \in 0 .. N /\ n - 1 \in 0 .. N
  BY <1>2
<1>13. /\ Expand(b) \in Seq(Nat) /\ Len(Expand(b)) = Len(out[N]) + Len(b.last)
       /\ Len(b.last) \in Nat
  BY <1>4, <1>5, <1>10, <1>12
<1>14. Len(out[N]) <= Len(Expand(b)) /\ Len(Expand(b)) \in Nat
  <2>1. Len(out[N]) \in Nat
    BY <1>10, <1>12
  <2>2. Len(Expand(b)) = Len(out[N]) + Len(b.last) /\ Len(b.last) \in Nat
    BY <1>13
  <2> DEFINE x == Len(out[N])
             y == Len(b.last)
             z == Len(Expand(b))
  <2>3. x \in Nat /\ y \in Nat /\ z = x + y
    BY <2>1, <2>2
  <2> HIDE DEF x, y, z
  <2>4. x <= z /\ z \in Nat
    BY <2>3
  <2> QED
    BY <2>4 DEF x, z
<1>15. ASSUME NEW n \in 0 .. N
       PROVE  /\ out[n] \in Seq(Nat)
              /\ Len(out[n]) <= Len(Expand(b))
              /\ n < N => Len(out[n]) < Len(Expand(b))
  <2>1. Len(out[n]) <= Len(out[N]) /\ Len(out[n]) \in Nat /\ Len(out[N]) \in Nat
    BY <1>10, <1>11, <1>12
  <2>2. ASSUME n < N
        PROVE  Len(out[n]) < Len(Expand(b))
    <3>1. n + 1 \in 1 .. N /\ n + 1 \in 0 .. N /\ (n + 1) - 1 = n
      BY <1>2, <2>2
    <3>2. Len(out[n]) < Len(out[n + 1]) /\ Len(out[n + 1]) \in Nat
      BY <1>7a, <1>10, <3>1
    <3>3. Len(out[n + 1]) <= Len(out[N])
      BY <1>11, <3>1
    <3> QED
      BY <1>14, <2>1, <3>2, <3>3
  <2> QED
    BY <1>10, <1>14, <2>1, <2>2
<1>16. ASSUME NEW n \in 1 .. N
       PROVE  Len(out[n - 1]) + Len(steps[n].literals) < Len(Expand(b))
  <2>1. /\ Len(out[n - 1]) + Len(steps[n].literals) < Len(out[n])
        /\ Len(out[n]) \in Nat /\ Len(out[n - 1]) + Len(steps[n].literals) \in Nat
    BY <1>7a, <1>10, <1>12
  <2>2. Len(out[n]) <= Len(Expand(b))
    BY <1>12, <1>15
  <2> DEFINE x == Len(out[n - 1]) + Len(steps[n].literals)
             y == Len(out[n])
             z == Len(Expand(b))
  <2>3. x \in Nat
    BY <2>1
  <2>3a. y \in Nat /\ z \in Nat /\ x < y /\ y <= z
    BY <1>14, <2>1, <2>2
  <2> HIDE DEF x, y, z
  <2>4. x < z
    BY <2>3, <2>3a
  <2> QED
    BY <2>4 DEF x, z
<1> QED
  BY <1>2, <1>3, <1>4, <1>5, <1>6, <1>13, <1>15, <1>16 DEF out, N, steps

(* Bytes that come first.                                                  *)
StartsWith(c, a) ==
    /\ a \in Seq(Nat) /\ c \in Seq(Nat) /\ Len(a) \in Nat /\ Len(a) <= Len(c)
    /\ \A i \in 1 .. Len(a) : c[i] = a[i]

(* A sequence starts with itself.                                          *)
LEMMA StartsWithItself ==
    ASSUME NEW a \in Seq(Nat)
    PROVE  StartsWith(a, a)
<1>1. Len(a) \in Nat
  OBVIOUS
<1> QED
  BY <1>1 DEF StartsWith

(* What starts with a sequence still does when it grows.                   *)
LEMMA StartsWithMore ==
    ASSUME NEW a, NEW c, StartsWith(c, a), NEW d \in Seq(Nat), NEW e, e = c \o d
    PROVE  StartsWith(e, a) /\ e \in Seq(Nat) /\ Len(e) = Len(c) + Len(d)
<1>1. c \in Seq(Nat) /\ Len(a) \in Nat /\ Len(a) <= Len(c)
  BY DEF StartsWith
<1>2. Len(c) \in Nat /\ Len(d) \in Nat
  BY <1>1
<1>3. /\ e \in Seq(Nat) /\ Len(e) = Len(c) + Len(d)
      /\ \A i \in 1 .. Len(c) : e[i] = c[i]
  BY <1>1, ConcatFacts
<1>4. Len(a) <= Len(e) /\ \A i \in 1 .. Len(a) : i \in 1 .. Len(c)
  BY <1>1, <1>2, <1>3
<1> QED
  BY <1>3, <1>4 DEF StartsWith

(* Where the parts of an encoded block are.                                *)
LEMMA PartsOfBlock ==
    ASSUME NEW b, WellFormed(b)
    PROVE  LET N     == Len(b.steps)
               enc   == EncodeSteps(b.steps)
               whole == EncodeBlock(b)
           IN /\ whole \in Seq(Nat) /\ enc[0] = <<>>
              /\ Len(whole) = Len(enc[N]) + Len(Lz4Literals(b.last))
              /\ \A k \in 0 .. N : /\ Len(enc[k]) \in Nat /\ k <= Len(enc[k])
                                   /\ Len(enc[k]) < Len(whole)
              /\ \A n \in 1 .. N :
                    Len(enc[n]) = Len(enc[n - 1]) + Len(EncodeStep(b.steps[n]))
              /\ \A src \in Seq(Nat) : Holds(src, 1, whole) =>
                    /\ \A n \in 1 .. N :
                          Holds(src, 1 + Len(enc[n - 1]), EncodeStep(b.steps[n]))
                    /\ Holds(src, 1 + Len(enc[N]), Lz4Literals(b.last))
<1> DEFINE steps == b.steps
           N == Len(steps)
           enc == EncodeSteps(steps)
           whole == EncodeBlock(b)
           last == Lz4Literals(b.last)
           Step(n) == EncodeStep(steps[n])
<1>1. N \in Nat /\ \A n \in 1 .. N : steps[n] \in StepType /\ steps[n].match >= 4
  BY OutputsGrow
<1>2. enc[0] = <<>> /\ \A n \in 1 .. N : enc[n] = enc[n - 1] \o Step(n)
  BY <1>1, EncodeStepsFacts
<1>3. last \in Seq(Nat) /\ Len(last) \in Nat /\ Len(last) > 0
  <2>1. b.last \in Seq(Nat)
    BY OutputsGrow
  <2>2. last \in Seq(Nat) /\ Len(last) > 0
    BY <2>1, LiteralsFacts
  <2> QED
    BY <2>2
<1>4. whole = enc[N] \o last
  BY DEF EncodeBlock
<1>5. \A n \in 1 .. N : Step(n) \in Seq(Nat) /\ Len(Step(n)) \in Nat /\ Len(Step(n)) > 0
  <2> SUFFICES ASSUME NEW n \in 1 .. N
               PROVE  Step(n) \in Seq(Nat) /\ Len(Step(n)) \in Nat /\ Len(Step(n)) > 0
    OBVIOUS
  <2>1. Step(n) \in Seq(Nat) /\ Len(Step(n)) > 0
    BY <1>1, EncodeStepFacts
  <2> QED
    BY <2>1
<1> HIDE DEF steps, N, enc, whole, last, Step
<1> DEFINE G(k) == k <= Len(enc[k]) /\ \A n \in 0 .. k : StartsWith(enc[k], enc[n])
           T == {k \in 0 .. N : G(k)}
<1>6. 0 \in T
  <2>1. enc[0] \in Seq(Nat) /\ 0 <= Len(enc[0]) /\ \A n \in 0 .. 0 : n = 0
    BY <1>2
  <2>2. StartsWith(enc[0], enc[0])
    BY <2>1, StartsWithItself
  <2> QED
    BY <1>1, <2>1, <2>2
<1>7. ASSUME NEW k \in 0 .. N - 1, k \in T
      PROVE  k + 1 \in T
  <2>1. k + 1 \in 1 .. N /\ k + 1 \in 0 .. N /\ k \in Nat /\ (k + 1) - 1 = k /\ k \in 0 .. k
    BY <1>1
  <2>2. k <= Len(enc[k]) /\ \A n \in 0 .. k : StartsWith(enc[k], enc[n])
    BY <1>7
  <2>3. enc[k + 1] = enc[k] \o Step(k + 1) /\ Step(k + 1) \in Seq(Nat)
    BY <1>2, <1>5, <2>1
  <2>4. \A n \in 0 .. k : StartsWith(enc[k + 1], enc[n])
    BY <2>2, <2>3, StartsWithMore
  <2>5a. StartsWith(enc[k], enc[k])
    BY <2>1, <2>2
  <2>5. enc[k + 1] \in Seq(Nat) /\ Len(enc[k + 1]) = Len(enc[k]) + Len(Step(k + 1))
    <3>1. enc[k] \in Seq(Nat)
      BY <2>5a DEF StartsWith
    <3> QED
      BY <2>3, <3>1, ConcatFacts
  <2>6. StartsWith(enc[k + 1], enc[k + 1])
    BY <2>5, StartsWithItself
  <2>7. k + 1 <= Len(enc[k + 1])
    <3>1. Len(enc[k]) \in Nat /\ Len(Step(k + 1)) \in Nat /\ Len(Step(k + 1)) > 0
      BY <1>5, <2>1, <2>5a DEF StartsWith
    <3> DEFINE x == Len(enc[k])
               y == Len(Step(k + 1))
               z == Len(enc[k + 1])
    <3>2. x \in Nat /\ y \in Nat /\ y > 0 /\ z = x + y /\ k <= x
      BY <2>2, <2>5, <3>1
    <3> HIDE DEF x, y, z
    <3>3. k + 1 <= z
      BY <2>1, <3>2
    <3> QED
      BY <3>3 DEF z
  <2>8. \A n \in 0 .. k + 1 : n \in 0 .. k \/ n = k + 1
    BY <2>1
  <2> QED
    BY <2>1, <2>4, <2>6, <2>7, <2>8
<1>8. ASSUME NEW k \in 0 .. N
      PROVE  G(k)
  <2>1. k \in T
    <3> HIDE DEF T
    <3> QED
      BY <1>1, <1>6, <1>7, UpToInduction
  <2> QED
    BY <2>1
<1>9. N \in 0 .. N /\ \A n \in 1 .. N : n \in 0 .. N /\ n - 1 \in 0 .. N /\ n - 1 \in 0 .. n
  BY <1>1
<1>10. \A k \in 0 .. N : StartsWith(enc[N], enc[k])
  BY <1>8, <1>9
<1>11. \A k \in 0 .. N : /\ StartsWith(whole, enc[k]) /\ whole \in Seq(Nat)
                         /\ Len(whole) = Len(enc[N]) + Len(last)
  <2> SUFFICES ASSUME NEW k \in 0 .. N
               PROVE  /\ StartsWith(whole, enc[k]) /\ whole \in Seq(Nat)
                      /\ Len(whole) = Len(enc[N]) + Len(last)
    OBVIOUS
  <2>1. StartsWith(enc[N], enc[k])
    BY <1>10
  <2> QED
    BY <1>3, <1>4, <2>1, StartsWithMore
<1>12. whole \in Seq(Nat) /\ Len(whole) = Len(enc[N]) + Len(last)
  BY <1>9, <1>11
<1>13. ASSUME NEW k \in 0 .. N
       PROVE  Len(enc[k]) \in Nat /\ k <= Len(enc[k]) /\ Len(enc[k]) < Len(whole)
  <2>1. k <= Len(enc[k])
    BY <1>8
  <2>2. Len(enc[k]) \in Nat /\ Len(enc[k]) <= Len(enc[N])
    BY <1>10 DEF StartsWith
  <2>3. Len(enc[N]) \in Nat
    BY <1>9, <1>10 DEF StartsWith
  <2> DEFINE x == Len(enc[k])
             y == Len(enc[N])
             z == Len(last)
             w == Len(whole)
  <2>4. x \in Nat /\ y \in Nat /\ z \in Nat /\ z > 0 /\ x <= y /\ w = y + z
    BY <1>3, <1>12, <2>2, <2>3
  <2> HIDE DEF x, y, z, w
  <2>5. x < w
    BY <2>4
  <2> QED
    BY <2>1, <2>2, <2>5 DEF x, w
<1>14. ASSUME NEW n \in 1 .. N
       PROVE  /\ Len(enc[n]) = Len(enc[n - 1]) + Len(Step(n))
              /\ enc[n - 1] \in Seq(Nat)
              /\ \A i \in 1 .. Len(Step(n)) : enc[n][Len(enc[n - 1]) + i] = Step(n)[i]
  <2>1. enc[n - 1] \in Seq(Nat)
    BY <1>9, <1>10 DEF StartsWith
  <2>2. Step(n) \in Seq(Nat) /\ enc[n] = enc[n - 1] \o Step(n)
    BY <1>2, <1>5
  <2> QED
    BY <2>1, <2>2, ConcatFacts
<1>15. ASSUME NEW src \in Seq(Nat), Holds(src, 1, whole), NEW n \in 1 .. N
       PROVE  Holds(src, 1 + Len(enc[n - 1]), Step(n))
  <2> DEFINE before == Len(enc[n - 1])
             part == Step(n)
             x == Len(enc[n])
  <2>1. /\ before \in Nat /\ part \in Seq(Nat) /\ Len(part) \in Nat
        /\ x = before + Len(part) /\ x < Len(whole)
        /\ \A i \in 1 .. Len(part) : enc[n][before + i] = part[i]
    BY <1>5, <1>9, <1>13, <1>14
  <2>2. \A i \in 1 .. x : whole[i] = enc[n][i]
    BY <1>9, <1>11 DEF StartsWith
  <2> HIDE DEF before, part, x
  <2>3. \A i \in 1 .. Len(part) : before + i \in 1 .. x
    BY <2>1
  <2>4. \A i \in 1 .. Len(part) : whole[before + i] = part[i]
    BY <2>1, <2>2, <2>3
  <2>5. Len(whole) \in Nat /\ x \in Nat
    BY <1>12, <2>1
  <2>6. before + Len(part) <= Len(whole)
    BY <2>1, <2>5
  <2>7. Holds(src, 1 + before, part)
    <3>1. 1 \in Nat \ {0} /\ whole \in Seq(Nat)
      BY <1>12
    <3> QED
      BY <1>15, <2>1, <2>4, <2>6, <3>1, HoldsPart
  <2> QED
    BY <2>7 DEF before, part
<1>16. ASSUME NEW src \in Seq(Nat), Holds(src, 1, whole)
       PROVE  Holds(src, 1 + Len(enc[N]), last)
  <2> DEFINE before == Len(enc[N])
  <2>1. enc[N] \in Seq(Nat) /\ before \in Nat
    BY <1>9, <1>10 DEF StartsWith
  <2>2. \A i \in 1 .. Len(last) : whole[before + i] = last[i]
    BY <1>3, <1>4, <2>1, ConcatFacts
  <2>3. before + Len(last) = Len(whole) /\ Len(whole) \in Nat
    BY <1>12
  <2> HIDE DEF before
  <2>4. before + Len(last) <= Len(whole)
    BY <2>3
  <2>5. Holds(src, 1 + before, last)
    <3>1. 1 \in Nat \ {0} /\ whole \in Seq(Nat) /\ last \in Seq(Nat)
      BY <1>3, <1>12
    <3> QED
      BY <1>16, <2>1, <2>2, <2>4, <3>1, HoldsPart
  <2> QED
    BY <2>5 DEF before
<1> QED
  BY <1>2, <1>12, <1>13, <1>14, <1>15, <1>16 DEF steps, N, enc, whole, last, Step

(* What the loop has put out once it is past the end.                      *)
Over(src, s, wanted, all) ==
    /\ s.pos > Len(src)
    /\ \/ s.out = Invalid
       \/ s.out \in Seq(Nat) /\ (Len(s.out) < Len(wanted) \/ s.out = wanted)
    /\ Len(src) = all => s.out = wanted

(* After the loop is over a round changes nothing.                         *)
LEMMA OverStays ==
    ASSUME NEW src, NEW s, NEW wanted, NEW all, Over(src, s, wanted, all)
    PROVE  Over(src, Round(src, s), wanted, all)
<1>1. Round(src, s) = s
  BY DEF Over, Round
<1> QED
  BY <1>1

(* The invariant of the loop: it is between two steps of the block with    *)
(* what they stand for put out, or it is over.                             *)
LEMMA LoopReadsBlock ==
    ASSUME NEW b, WellFormed(b), NEW src \in Seq(Nat),
           Holds(src, 1, EncodeBlock(b)), Len(src) <= Len(EncodeBlock(b))
    PROVE  Over(src, Rounds(src)[Len(src)], Expand(b), Len(EncodeBlock(b)))
<1> DEFINE N == Len(b.steps)
           out == Outputs(b.steps)
           enc == EncodeSteps(b.steps)
           wanted == Expand(b)
           all == Len(EncodeBlock(b))
           last == Lz4Literals(b.last)
           M == Len(src)
           r == Rounds(src)
           Step(n) == b.steps[n]
<1>1. /\ N \in Nat /\ b.last \in Seq(Nat) /\ wanted \in Seq(Nat)
      /\ wanted = out[N] \o b.last
      /\ Len(wanted) = Len(out[N]) + Len(b.last)
      /\ out[0] = <<>>
      /\ \A n \in 0 .. N : /\ out[n] \in Seq(Nat)
                           /\ Len(out[n]) <= Len(wanted)
                           /\ n < N => Len(out[n]) < Len(wanted)
  BY OutputsGrow
<1>2. \A n \in 1 .. N :
         /\ Step(n) \in StepType /\ Step(n).match >= 4
         /\ Step(n).offset <= Len(out[n - 1] \o Step(n).literals)
         /\ out[n] = Grown(out[n - 1], Step(n))
         /\ Len(out[n - 1]) + Len(Step(n).literals) < Len(wanted)
  BY OutputsGrow
<1>3. /\ enc[0] = <<>> /\ all = Len(enc[N]) + Len(last)
      /\ \A k \in 0 .. N : Len(enc[k]) \in Nat /\ k <= Len(enc[k]) /\ Len(enc[k]) < all
      /\ \A n \in 1 .. N : Len(enc[n]) = Len(enc[n - 1]) + Len(EncodeStep(Step(n)))
  BY PartsOfBlock
<1>4. all \in Nat
  BY PartsOfBlock
<1>5. /\ \A n \in 1 .. N : Holds(src, 1 + Len(enc[n - 1]), EncodeStep(Step(n)))
      /\ Holds(src, 1 + Len(enc[N]), last)
  BY PartsOfBlock
<1>6. M \in Nat /\ M = Len(src) /\ M <= all
  OBVIOUS
<1>7. r[0] = [pos |-> 1, out |-> <<>>] /\ \A k \in 1 .. M : r[k] = Round(src, r[k - 1])
  BY <1>6, RoundsFacts
<1>8. last = Lz4Literals(b.last) /\ Len(last) \in Nat
  <2>1. last \in Seq(Nat)
    BY <1>1, LiteralsFacts
  <2> QED
    BY <2>1
<1> HIDE DEF N, out, enc, wanted, all, last, M, r, Step
<1> DEFINE Between(k) == /\ k <= N /\ Len(enc[k]) <= M
                         /\ r[k] = [pos |-> 1 + Len(enc[k]), out |-> out[k]]
           Ended(k) == Over(src, r[k], wanted, all)
           T == {k \in 0 .. M : Between(k) \/ Ended(k)}
<1>9. 0 \in T
  <2>1. Len(enc[0]) = 0
    BY <1>3
  <2> QED
    BY <1>1, <1>3, <1>6, <1>7, <2>1
(* Between two steps at the end of the source.                             *)
<1>10. ASSUME NEW k \in 0 .. N, Len(enc[k]) = M
       PROVE  Over(src, [pos |-> 1 + Len(enc[k]), out |-> out[k]], wanted, all)
  <2>1. out[k] \in Seq(Nat) /\ (Len(out[k]) < Len(wanted) \/ out[k] = wanted)
    <3>1. CASE k < N
      BY <1>1, <3>1
    <3>2. CASE k = N
      <4>1. CASE b.last = <<>>
        <5>1. out[N] \in Seq(Nat)
          BY <1>1, <3>2
        <5>2. wanted = out[N]
          BY <1>1, <4>1, <5>1
        <5> QED
          BY <3>2, <5>1, <5>2
      <4>2. CASE b.last # <<>>
        <5>1. Len(b.last) > 0 /\ Len(b.last) \in Nat
          BY <1>1, <4>2
        <5>2. out[N] \in Seq(Nat) /\ Len(out[N]) \in Nat
          BY <1>1, <3>2
        <5> DEFINE x == Len(out[N])
                   y == Len(b.last)
                   z == Len(wanted)
        <5>3. z = x + y /\ x \in Nat /\ y \in Nat /\ y > 0
          BY <1>1, <5>1, <5>2
        <5> HIDE DEF x, y, z
        <5>4. x < z
          BY <5>3
        <5> QED
          BY <3>2, <5>2, <5>4 DEF x, z
      <4> QED
        BY <4>1, <4>2
    <3>3. k < N \/ k = N
      BY <1>1
    <3> QED
      BY <3>1, <3>2, <3>3
  <2>2. 1 + Len(enc[k]) > Len(src) /\ ~ (Len(src) = all)
    BY <1>3, <1>4, <1>6, <1>10
  <2> QED
    BY <2>1, <2>2 DEF Over
<1>11. ASSUME NEW k \in 0 .. N, Len(enc[k]) < M, k < N
       PROVE  LET after == Round(src, [pos |-> 1 + Len(enc[k]), out |-> out[k]]) IN
              \/ /\ Len(enc[k + 1]) <= M
                 /\ after = [pos |-> 1 + Len(enc[k + 1]), out |-> out[k + 1]]
              \/ Over(src, after, wanted, all)
  <2> DEFINE pos == 1 + Len(enc[k])
             after == Round(src, [pos |-> pos, out |-> out[k]])
             step == Step(k + 1)
             next == pos + Len(EncodeStep(step))
  <2>1. k + 1 \in 1 .. N /\ k + 1 \in 0 .. N /\ (k + 1) - 1 = k
    BY <1>1, <1>11
  <2>2. pos \in Nat \ {0} /\ pos <= Len(src)
    BY <1>3, <1>6, <1>11
  <2>3. out[k] \in Seq(Nat)
    BY <1>1
  <2>4. /\ step \in StepType /\ step.match >= 4
        /\ step.offset <= Len(out[k] \o step.literals)
        /\ out[k + 1] = Grown(out[k], step)
        /\ Len(out[k]) + Len(step.literals) < Len(wanted)
    BY <1>2, <2>1
  <2>5. Holds(src, pos, EncodeStep(step))
    BY <1>5, <2>1
  <2>6. Len(enc[k + 1]) = Len(enc[k]) + Len(EncodeStep(step))
    BY <1>3, <2>1
  <2>7. Len(enc[k]) \in Nat /\ Len(enc[k + 1]) \in Nat /\ Len(enc[k + 1]) < all
    BY <1>3, <2>1
  <2>8. Len(EncodeStep(step)) \in Nat
    <3>1. EncodeStep(step) \in Seq(Nat)
      BY <2>4, EncodeStepFacts
    <3> QED
      BY <3>1
  <2>9. next = 1 + Len(enc[k + 1]) /\ next - 1 = Len(enc[k + 1])
    <3> DEFINE x == Len(enc[k])
               y == Len(EncodeStep(step))
               z == Len(enc[k + 1])
    <3>1. x \in Nat /\ y \in Nat /\ z = x + y /\ next = 1 + x + y
      BY <2>6, <2>7, <2>8
    <3> HIDE DEF x, y, z, next
    <3>2. next = 1 + z /\ next - 1 = z
      BY <3>1
    <3> QED
      BY <3>2 DEF z
  <2>10. /\ next - 1 <= Len(src) => after = [pos |-> next, out |-> Grown(out[k], step)]
         /\ next - 1 > Len(src) =>
               /\ after.pos > Len(src)
               /\ \/ after.out = Invalid
                  \/ /\ after.out \in Seq(Nat)
                     /\ Len(after.out) <= Len(out[k]) + Len(step.literals)
    <3> HIDE DEF pos, step
    <3> QED
      BY <2>2, <2>3, <2>4, <2>5, RoundOfStep
  <2> HIDE DEF after, next, step
  <2>11. CASE Len(enc[k + 1]) <= M
    <3>1. after = [pos |-> next, out |-> out[k + 1]]
      BY <1>6, <2>4, <2>9, <2>10, <2>11
    <3> QED
      BY <2>9, <2>11, <3>1 DEF after
  <2>12. CASE Len(enc[k + 1]) > M
    <3>1. /\ after.pos > Len(src)
          /\ \/ after.out = Invalid
             \/ /\ after.out \in Seq(Nat)
                /\ Len(after.out) <= Len(out[k]) + Len(step.literals)
      BY <1>6, <2>9, <2>10, <2>12
    <3>2. ASSUME after.out \in Seq(Nat),
                 Len(after.out) <= Len(out[k]) + Len(step.literals)
          PROVE  Len(after.out) < Len(wanted)
      <4> DEFINE x == Len(after.out)
                 y == Len(out[k])
                 l == Len(step.literals)
                 z == Len(wanted)
      <4>1. x \in Nat /\ y \in Nat /\ z \in Nat
        <5>1. wanted \in Seq(Nat)
          BY <1>1
        <5>2. \A q \in Seq(Nat) : Len(q) \in Nat
          OBVIOUS
        <5> QED
          BY <2>3, <3>2, <5>1, <5>2
      <4>2. l \in Nat
        BY <2>4, StepFacts
      <4>3. x <= y + l /\ y + l < z
        BY <2>4, <3>2
      <4> HIDE DEF x, y, z, l
      <4>4. x < z
        BY <4>1, <4>2, <4>3
      <4> QED
        BY <4>4 DEF x, z
    <3>3. ~ (Len(src) = all)
      BY <1>4, <1>6, <2>7, <2>12
    <3>4. Over(src, after, wanted, all)
      BY <3>1, <3>2, <3>3 DEF Over
    <3> QED
      BY <3>4 DEF after
  <2>13. Len(enc[k + 1]) <= M \/ Len(enc[k + 1]) > M
    BY <1>6, <2>7
  <2> QED
    BY <2>11, <2>12, <2>13
<1>12. ASSUME Len(enc[N]) < M
       PROVE  Over(src, Round(src, [pos |-> 1 + Len(enc[N]), out |-> out[N]]), wanted, all)
  <2> DEFINE pos == 1 + Len(enc[N])
             after == Round(src, [pos |-> pos, out |-> out[N]])
             next == pos + Len(last)
  <2>1. N \in 0 .. N
    BY <1>1
  <2>2. Len(enc[N]) \in Nat
    BY <1>3, <2>1
  <2>3. pos \in Nat \ {0} /\ pos <= Len(src)
    BY <1>6, <1>12, <2>2
  <2>4. next - 1 = all /\ all = pos + Len(last) - 1
    <3> DEFINE x == Len(enc[N])
               y == Len(last)
    <3>1. x \in Nat /\ y \in Nat /\ all = x + y /\ next = 1 + x + y /\ pos = 1 + x
      BY <1>3, <1>8, <2>2
    <3> HIDE DEF x, y, next, pos
    <3>2. next - 1 = all /\ all = pos + y - 1
      BY <3>1
    <3> QED
      BY <3>2 DEF y
  <2>5. Len(src) <= pos + Len(last) - 1
    BY <1>6, <2>4
  <2>6. out[N] \in Seq(Nat) /\ Holds(src, pos, last)
    BY <1>1, <1>5, <2>1
  <2>7. /\ after.pos > Len(src)
        /\ next - 1 = Len(src) => after.out = out[N] \o b.last
        /\ next - 1 # Len(src) =>
              \/ after.out = Invalid
              \/ /\ after.out \in Seq(Nat)
                 /\ Len(after.out) < Len(out[N]) + Len(b.last)
    <3>1. b.last \in Seq(Nat) /\ last = Lz4Literals(b.last)
      BY <1>1, <1>8
    <3> DEFINE o == out[N]
               d == b.last
    <3>2. /\ o \in Seq(Nat) /\ d \in Seq(Nat) /\ Holds(src, pos, Lz4Literals(d))
          /\ Len(src) <= pos + Len(Lz4Literals(d)) - 1
      BY <2>5, <2>6, <3>1
    <3>3. next = pos + Len(Lz4Literals(d)) /\ after = Round(src, [pos |-> pos, out |-> o])
      BY <3>1
    <3> HIDE DEF pos, o, d, after, next
    <3>4. /\ after.pos > Len(src)
          /\ next - 1 = Len(src) => after.out = o \o d
          /\ next - 1 # Len(src) =>
                \/ after.out = Invalid
                \/ after.out \in Seq(Nat) /\ Len(after.out) < Len(o) + Len(d)
      <4> DEFINE w == Round(src, [pos |-> pos, out |-> o])
                 v == pos + Len(Lz4Literals(d))
      <4>1. /\ w.pos > Len(src)
            /\ v - 1 = Len(src) => w.out = o \o d
            /\ v - 1 # Len(src) =>
                  \/ w.out = Invalid
                  \/ w.out \in Seq(Nat) /\ Len(w.out) < Len(o) + Len(d)
        BY <2>3, <3>2, RoundOfLast
      <4> HIDE DEF w, v
      <4>2. w = after /\ v = next
        BY <3>3 DEF w, v
      <4> QED
        BY <4>1, <4>2
    <3> QED
      BY <3>4 DEF o, d
  <2> HIDE DEF after, next
  <2>8. CASE Len(src) = all
    <3>1. after.out = wanted
      BY <1>1, <2>4, <2>7, <2>8
    <3>2. after.pos > Len(src) /\ wanted \in Seq(Nat)
      BY <1>1, <2>7
    <3>3. Over(src, after, wanted, all)
      BY <3>1, <3>2 DEF Over
    <3> QED
      BY <3>3 DEF after
  <2>9. CASE Len(src) # all
    <3>1. \/ after.out = Invalid
          \/ after.out \in Seq(Nat) /\ Len(after.out) < Len(wanted)
      BY <1>1, <2>4, <2>7, <2>9
    <3>2. Over(src, after, wanted, all)
      BY <2>7, <2>9, <3>1 DEF Over
    <3> QED
      BY <3>2 DEF after
  <2> QED
    BY <2>8, <2>9
<1>13. ASSUME NEW k \in 0 .. M - 1, k \in T
       PROVE  k + 1 \in T
  <2>1. k + 1 \in 1 .. M /\ k + 1 \in 0 .. M /\ (k + 1) - 1 = k /\ k \in Nat
    BY <1>6
  <2>2. r[k + 1] = Round(src, r[k])
    BY <1>7, <2>1
  <2>3. CASE Ended(k)
    <3>1. Ended(k + 1)
      BY <2>2, <2>3, OverStays
    <3> QED
      BY <2>1, <3>1
  <2>4. CASE Between(k)
    <3> DEFINE state == [pos |-> 1 + Len(enc[k]), out |-> out[k]]
    <3>1. k \in 0 .. N /\ Len(enc[k]) <= M /\ r[k] = state
      BY <1>1, <2>1, <2>4
    <3>2. Len(enc[k]) \in Nat
      BY <1>3, <3>1
    <3>3. CASE Len(enc[k]) = M
      <4>1. Over(src, state, wanted, all)
        BY <1>10, <3>1, <3>3
      <4> HIDE DEF state
      <4>2. Ended(k + 1)
        BY <2>2, <3>1, <4>1, OverStays
      <4> QED
        BY <2>1, <4>2
    <3>4. CASE Len(enc[k]) < M /\ k < N
      <4>1. k + 1 <= N
        BY <1>1, <2>1, <3>4
      <4>2. \/ /\ Len(enc[k + 1]) <= M
               /\ Round(src, state) = [pos |-> 1 + Len(enc[k + 1]), out |-> out[k + 1]]
            \/ Over(src, Round(src, state), wanted, all)
        BY <1>11, <3>1, <3>4
      <4> HIDE DEF state
      <4>3. Between(k + 1) \/ Ended(k + 1)
        BY <2>2, <3>1, <4>1, <4>2
      <4> QED
        BY <2>1, <4>3
    <3>5. CASE Len(enc[k]) < M /\ k = N
      <4>1. Over(src, Round(src, state), wanted, all)
        BY <1>12, <3>5
      <4> HIDE DEF state
      <4>2. Ended(k + 1)
        BY <2>2, <3>1, <4>1
      <4> QED
        BY <2>1, <4>2
    <3>6. Len(enc[k]) = M \/ Len(enc[k]) < M
      BY <1>6, <3>1, <3>2
    <3>7. k < N \/ k = N
      BY <1>1, <3>1
    <3> QED
      BY <3>3, <3>4, <3>5, <3>6, <3>7
  <2> QED
    BY <1>13, <2>3, <2>4
<1>14. M \in T
  <2> HIDE DEF T
  <2>1. \A k \in 0 .. M : k \in T
    BY <1>6, <1>9, <1>13, UpToInduction
  <2> QED
    BY <1>6, <2>1
<1>15. Ended(M)
  <2>1. CASE Between(M)
    <3>1. M \in 0 .. N /\ Len(enc[M]) <= M /\ r[M] = [pos |-> 1 + Len(enc[M]), out |-> out[M]]
      BY <1>1, <1>6, <2>1
    <3>2. Len(enc[M]) \in Nat /\ M <= Len(enc[M])
      BY <1>3, <3>1
    <3>3. Len(enc[M]) = M
      BY <1>6, <3>1, <3>2
    <3> QED
      BY <1>10, <3>1, <3>3
  <2> QED
    BY <1>14, <2>1
<1> QED
  BY <1>15 DEF r, wanted, all, M

(* What is read of the first n bytes of a block.                           *)
LEMMA PrefixIsRead ==
    ASSUME NEW b, WellFormed(b), NEW n \in 0 .. Len(EncodeBlock(b))
    PROVE  LET read == Lz4Decompress(SubSeq(EncodeBlock(b), 1, n), Len(Expand(b)))
           IN /\ read \in {Invalid, Expand(b)}
              /\ n = Len(EncodeBlock(b)) => read = Expand(b)
<1> DEFINE whole == EncodeBlock(b)
           wanted == Expand(b)
           src == SubSeq(whole, 1, n)
           out == Rounds(src)[Len(src)].out
           read == Lz4Decompress(src, Len(wanted))
<1>1. whole \in Seq(Nat) /\ wanted \in Seq(Nat) /\ n \in 0 .. Len(whole)
  BY PartsOfBlock, OutputsGrow
<1> HIDE DEF whole, wanted
<1>2. /\ src \in Seq(Nat) /\ Len(src) = n
      /\ \A i \in 1 .. n : src[i] = whole[i]
  <2>1. \A i \in 1 .. n : whole[i] \in Nat
    BY <1>1
  <2>2. /\ src \in Seq(Nat) /\ Len(src) = IF 1 <= n THEN n - 1 + 1 ELSE 0
        /\ \A i \in 1 .. n - 1 + 1 : src[i] = whole[1 + i - 1]
    BY <1>1, <2>1, SubSeqProperties
  <2>3. n \in Nat /\ n - 1 + 1 = n /\ \A i \in 1 .. n : 1 + i - 1 = i
    BY <1>1
  <2> HIDE DEF src
  <2> QED
    BY <2>2, <2>3
<1> HIDE DEF src
<1>3. Holds(src, 1, whole)
  <2> SUFFICES ASSUME NEW i \in 1 .. Len(whole), 1 + i - 1 <= Len(src)
               PROVE  src[1 + i - 1] = whole[i]
    BY DEF Holds
  <2>1. 1 + i - 1 = i /\ i \in 1 .. n
    BY <1>1, <1>2
  <2> QED
    BY <1>2, <2>1
<1>4. Len(src) <= Len(whole)
  BY <1>1, <1>2
<1>5. Over(src, Rounds(src)[Len(src)], wanted, Len(whole))
  BY <1>2, <1>3, <1>4, LoopReadsBlock DEF whole, wanted
<1>6. /\ out = Invalid \/ (out \in Seq(Nat) /\ (Len(out) < Len(wanted) \/ out = wanted))
      /\ Len(src) = Len(whole) => out = wanted
  BY <1>5 DEF Over
<1>7. read = IF out = Invalid \/ Len(out) # Len(wanted) THEN Invalid ELSE out
  BY DEF Lz4Decompress
<1> HIDE DEF out, read
<1>8. wanted # Invalid
  BY <1>1, BlockParameters
<1>9. ASSUME out \in Seq(Nat), Len(out) < Len(wanted)
      PROVE  Len(out) # Len(wanted)
  <2>1. Len(out) \in Nat /\ Len(wanted) \in Nat
    BY <1>1, <1>9
  <2> QED
    BY <1>9, <2>1
<1>10. read \in {Invalid, wanted}
  BY <1>6, <1>7, <1>9
<1>11. ASSUME n = Len(whole)
       PROVE  read = wanted
  BY <1>2, <1>6, <1>7, <1>8, <1>11
<1> QED
  BY <1>10, <1>11 DEF read, src, whole, wanted

(* A well-formed block is read back whole, and a prefix of it as nothing   *)
(* else.                                                                   *)
LEMMA BlockIsReadBack ==
    ASSUME WellFormed(block)
    PROVE  BlocksAreReadBack
<1> DEFINE src == EncodeBlock(block)
           Read(n) == Lz4Decompress(SubSeq(src, 1, n), Len(Expand(block)))
<1>1. Len(src) \in Nat
  BY PartsOfBlock
<1>2. ASSUME NEW n \in 0 .. Len(src)
      PROVE  /\ Read(n) \in {Invalid, Expand(block)}
             /\ n = Len(src) => Read(n) = Expand(block)
  BY PrefixIsRead
<1> HIDE DEF src, Read
<1>3. Len(src) \in 0 .. Len(src) /\ \A n \in 0 .. Len(src) - 1 : n \in 0 .. Len(src)
  BY <1>1
<1>4. Read(Len(src)) = Expand(block)
  BY <1>2, <1>3
<1>5. \A n \in 0 .. Len(src) - 1 : Read(n) \in {Invalid, Expand(block)}
  BY <1>2, <1>3
<1> QED
  BY <1>4, <1>5 DEF BlocksAreReadBack, Read, src

(* Every block the router may send comes back as what it stands for, and   *)
(* one that was cut short is refused or is that too                        *)
(* (mw6_cmd_client.py:89-124).                                             *)
THEOREM BlocksComeBack == BlockSpec => []BlocksAreReadBack
<1>1. BlockInit => WellFormed(block)
  BY BlockParameters DEF BlockInit
<1>2. WellFormed(block) /\ [UNCHANGED block]_block => WellFormed(block)'
  BY DEF WellFormed
<1>3. WellFormed(block) => BlocksAreReadBack
  BY BlockIsReadBack
<1> QED
  BY <1>1, <1>2, <1>3, PTL DEF BlockSpec

=============================================================================
