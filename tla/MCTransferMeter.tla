--------------------------- MODULE MCTransferMeter ---------------------------
(***************************************************************************)
(* TransferCounter for one meter.  The code's 30 s gap is two clock units, *)
(* of which a second has three, so that a credited span is seldom a whole  *)
(* number of bytes and rounds up or down; a day has one or two units and a *)
(* month two days, so every poll can fall on either side of each boundary. *)
(***************************************************************************)
EXTENDS TransferCounter

CONSTANTS Rates, DayLength, MonthLength

(* A host list as the meter's sensors see it: whether it lists the client *)
(* and the valid rate it holds, if any.                                    *)
MCHostLists ==
    [listed : {TRUE}, rate : Rates \cup {NoValue}]
      \cup {[listed |-> FALSE, rate |-> NoValue]}
MCRateOf(list, m) == list.rate
MCPresentIn(list, m) == m \in ClientMeters => list.listed

MCDayOf(t) == t \div DayLength
MCMonthOf(t) == t \div MonthLength

=============================================================================
