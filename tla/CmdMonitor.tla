----------------------------- MODULE CmdMonitor -----------------------------
(***************************************************************************)
(* monitor_device_list of tools/mw6_cmd_client.py: for Duration it counts  *)
(* what cmdsrv publishes on one Redis channel, then says what the counts   *)
(* mean.  A frame arrives in pieces, each of which one recv returns; the   *)
(* timeout of every recv of a frame is the time that remained when the     *)
(* reading of that frame began.                                            *)
(*                                                                         *)
(* A frame is what becomes of it: "ack" (a subscribe or psubscribe reply), *)
(* "device_list" and "other" (publications), "noise" (any other answer),   *)
(* "undecodable" (parse_resp raises), "corrupt" (recv_frame raises).       *)
(* Time passes while a recv waits, and while the program itself works:     *)
(* checks a frame, parses it, prints a line.                               *)
(***************************************************************************)
EXTENDS Integers, Sequences

CONSTANTS Duration,   \* args.duration
          Pieces,     \* bound: pieces of one frame
          MaxFrames,  \* bound: frames the router sends
          MaxWork     \* bound: how long the program works in all

ASSUME MonitorParameters ==
    Duration \in Nat /\ Pieces \in Nat \ {0} /\ MaxFrames \in Nat /\ MaxWork \in Nat

VARIABLES now,        \* the monotonic clock, zero when the monitor starts
          stream,     \* the frames that have begun to arrive
          arrived,    \* how many pieces of them have arrived
          hungUp,     \* the router closed the connection
          taken,      \* how many pieces recv has returned
          stage,      \* "off", "loop", "recv" (inside recv_frame) or "ended"
          remaining,  \* the timeout in force
          waited,     \* how long the current recv has been waiting
          counts,     \* the counters of the summary
          meaning,    \* the classification printed, or "none"
          wholeAt,    \* history: when each frame had arrived to its last piece
          worked      \* history: how long the program has worked

monitorVars == <<now, stream, arrived, hungUp, taken, stage, remaining, waited, counts,
                 meaning, wholeAt, worked>>
routerVars == <<stream, arrived, hungUp, wholeAt>>

Publications == {"device_list", "other"}
FrameKinds == Publications \cup {"ack", "noise", "undecodable", "corrupt"}

MonitorInit ==
    /\ now = 0
    /\ stream = <<>> /\ arrived = 0 /\ hungUp = FALSE
    /\ taken = 0
    /\ stage = "off" /\ remaining = 0 /\ waited = 0
    /\ counts = [ack |-> FALSE, pubsub |-> 0, device_list |-> 0, other |-> 0,
                 undecodable |-> 0]
    /\ meaning = "none"
    /\ wholeAt = <<>> /\ worked = 0

-----------------------------------------------------------------------------
Running == stage \in {"loop", "recv"}

\* The channel: a new frame begins to arrive, or a piece of the last one follows.
PieceArrives(kind) ==
    /\ Running /\ ~hungUp
    /\ IF arrived % Pieces = 0
       THEN Len(stream) < MaxFrames /\ stream' = Append(stream, kind)
       ELSE kind = stream[Len(stream)] /\ UNCHANGED stream
    /\ arrived' = arrived + 1
    /\ wholeAt' = IF arrived' % Pieces = 0 THEN Append(wholeAt, now) ELSE wholeAt
    /\ UNCHANGED <<now, hungUp, taken, stage, remaining, waited, counts, meaning, worked>>

RouterHangsUp ==
    /\ Running /\ ~hungUp
    /\ hungUp' = TRUE
    /\ UNCHANGED <<now, stream, arrived, taken, stage, remaining, waited, counts, meaning,
                   wholeAt, worked>>

Blocked == stage = "recv" /\ taken = arrived /\ ~hungUp

Expired == waited >= remaining

\* A recv waits.
TimePasses ==
    /\ Blocked
    /\ ~Expired
    /\ now' = now + 1
    /\ waited' = waited + 1
    /\ UNCHANGED <<routerVars, taken, stage, remaining, counts, meaning, worked>>

\* The program is busy between two of its steps.
WorkTakesTime ==
    /\ Running
    /\ worked < MaxWork
    /\ now' = now + 1
    /\ worked' = worked + 1
    /\ UNCHANGED <<routerVars, taken, stage, remaining, waited, counts, meaning>>

-----------------------------------------------------------------------------
Classification ==
    CASE ~counts.ack -> "SUBSCRIPTION_NOT_CONFIRMED"
      [] counts.ack /\ counts.device_list > 0 -> "DEVICE_LIST_PUBLISHED_LOCALLY"
      [] counts.ack /\ counts.device_list = 0 /\ counts.pubsub > 0
           -> "CONFCTL_ACTIVE_NO_DEVICE_LIST"
      [] OTHER -> "NO_CONFCTL_PUBLICATIONS"

Summarize ==
    /\ stage' = "ended"
    /\ meaning' = Classification
    /\ UNCHANGED <<now, routerVars, taken, remaining, waited, counts, worked>>

\* mutated: the remaining time is computed once, before the loop
DurationLeft == Duration

TimeLeft == Duration - now

\* main, subscribed, calls the monitor; its deadline is Duration away.
StartMonitor ==
    /\ stage = "off"
    /\ stage' = "loop"
    /\ UNCHANGED <<now, routerVars, taken, remaining, waited, counts, meaning, worked>>

\* The top of the loop.
NextFrame ==
    /\ stage = "loop"
    /\ TimeLeft > 0
    /\ stage' = "recv"
    /\ remaining' = TimeLeft
    /\ waited' = 0
    /\ UNCHANGED <<now, routerVars, taken, counts, meaning, worked>>

Counted(kind) ==
    [counts EXCEPT
        !.ack = @ \/ kind = "ack",
        !.pubsub = @ + (IF kind \in Publications THEN 1 ELSE 0),
        !.device_list = @ + (IF kind = "device_list" THEN 1 ELSE 0),
        !.other = @ + (IF kind \in {"other", "noise"} THEN 1 ELSE 0),
        !.undecodable = @ + (IF kind = "undecodable" THEN 1 ELSE 0)]

\* mutated: a frame that cannot be decoded ends the loop
StopAtUndecodable(kind) ==
    /\ stage' = IF kind \in {"corrupt", "undecodable"} THEN "ended" ELSE "loop"
    /\ counts' = Counted(kind)
    /\ meaning' = IF kind = "undecodable" THEN Classification ELSE meaning

\* A whole frame.  What recv_frame raises leaves the monitor without a summary.
HandleFrame(kind) ==
    /\ stage' = IF kind = "corrupt" THEN "ended" ELSE "loop"
    /\ counts' = IF kind = "corrupt" THEN counts ELSE Counted(kind)
    /\ UNCHANGED meaning

\* recv returns a piece; recv_exact asks for the next one until the frame is whole.
TakePiece ==
    /\ stage = "recv" /\ taken < arrived
    /\ taken' = taken + 1
    /\ waited' = 0
    /\ IF taken' % Pieces = 0
       THEN HandleFrame(stream[taken' \div Pieces])
       ELSE UNCHANGED <<stage, counts, meaning>>
    /\ UNCHANGED <<now, routerVars, remaining, worked>>

\* mutated: the end of the stream is no error, and recv is called again
ReadNothing == stage = "recv" /\ taken = arrived /\ hungUp /\ UNCHANGED monitorVars

\* recv_exact raises EOFError, which nobody catches.
ConnectionClosed ==
    /\ stage = "recv" /\ taken = arrived /\ hungUp
    /\ stage' = "ended"
    /\ UNCHANGED <<now, routerVars, taken, remaining, waited, counts, meaning, worked>>

\* The loop ends at its top, or when a recv times out.
StopMonitor ==
    /\ (stage = "loop" /\ TimeLeft <= 0) \/ (Blocked /\ Expired)
    /\ Summarize

Monitor == NextFrame \/ TakePiece \/ ConnectionClosed \/ StopMonitor

MonitorNext ==
    \/ StartMonitor
    \/ \E kind \in FrameKinds : PieceArrives(kind)
    \/ RouterHangsUp
    \/ TimePasses
    \/ WorkTakesTime
    \/ Monitor

\* The program runs, and so does the clock; the router owes nothing.
MonitorFairness == WF_monitorVars(Monitor) /\ WF_monitorVars(TimePasses)

MonitorSpec == MonitorInit /\ [][MonitorNext]_monitorVars /\ MonitorFairness
-----------------------------------------------------------------------------
\* The frames that were whole longer before the deadline than the program has
\* worked.
KindsOnTime == {stream[i] : i \in {j \in DOMAIN wholeAt : wholeAt[j] + worked < Duration}}

\* What the summary says of the observation window (mw6_cmd_client.py:308-332) is
\* true of every frame that was whole so long before it closed: none of those is
\* left unread behind a slow frame, in a piece cut off by the timeout, or behind a
\* frame that could not be decoded.  The time the program works is lost to it: the
\* deadline is looked at before the socket is, so a frame whole just before the
\* deadline may stay unread.
MeaningFitsWindow ==
    /\ meaning = "SUBSCRIPTION_NOT_CONFIRMED" => "ack" \notin KindsOnTime
    /\ meaning = "CONFCTL_ACTIVE_NO_DEVICE_LIST" => "device_list" \notin KindsOnTime
    /\ meaning = "NO_CONFCTL_PUBLICATIONS" => Publications \cap KindsOnTime = {}

\* A frame in pieces outlasts the deadline, since each recv of it may wait for the
\* whole remaining time (mw6_cmd_client.py:254); of what arrived too late, the
\* counts never hold more than one frame, the last.
OneLateFrame == \A i \in 1 .. (taken \div Pieces) - 1 : wholeAt[i] < Duration

\* Nothing the router does, silence in the middle of a frame included, keeps the
\* monitor from ending.
MonitorEnds == Running ~> stage = "ended"
=============================================================================
