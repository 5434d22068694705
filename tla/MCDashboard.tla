----------------------------- MODULE MCDashboard -----------------------------
(***************************************************************************)
(* What a dashboard is made of: the entities of MCEntities and the card of *)
(* MCCard.  The card sees Home Assistant's states and not the coordinator, *)
(* so the two share no state and a behaviour is of one of them.            *)
(***************************************************************************)
EXTENDS MCEntities, MCCard

VARIABLE part  \* "entities" or "card"

MCInit ==
    \/ part = "entities" /\ Init /\ CardAtRest /\ NothingCompared
    \/ part = "card" /\ Init /\ PageInit

MCNext ==
    /\ \/ part = "entities" /\ Next /\ UNCHANGED pageVars
       \/ part = "card" /\ PageNext /\ UNCHANGED vars
    /\ UNCHANGED part

MCSpec == MCInit /\ [][MCNext]_<<part, vars, pageVars>>

=============================================================================
