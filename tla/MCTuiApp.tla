------------------------------ MODULE MCTuiApp ------------------------------
(***************************************************************************)
(* The terminal front end for TLC: the turn task (TuiApp) and the side     *)
(* questions (SideQuestions).  They share nothing but the screen, so a     *)
(* behaviour moves one of them.                                            *)
(***************************************************************************)
EXTENDS TuiApp, SideQuestions

VARIABLE part

MCInit == part \in {"turn", "btw"} /\ Init /\ BtwInit

MCNext ==
    /\ UNCHANGED part
    /\ \/ part = "turn" /\ Next /\ UNCHANGED btwVars
       \/ part = "btw" /\ BtwNext /\ UNCHANGED vars

MCSpec == MCInit /\ [][MCNext]_<<part, vars, btwVars>> /\ Fairness /\ BtwFairness

\* What no task works on any more holds nothing back: an idle screen is settled
\* (_finalize_turn, request_approval), and no side question that is out of sight
\* keeps its place, which would leave /btw refused (_cancel_trimmed_btw_tasks).
ScreenIsSettled == IdleScreenIsSettled /\ SlotsBelongToShown

=============================================================================
