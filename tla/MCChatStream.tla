------------------------------ MODULE MCChatStream ------------------------------
(***************************************************************************)
(* ChatStream with three calls and two agents.  The first agent may ask    *)
(* for every call, so that its lane may hold all three; the second has the *)
(* last call only, and untagged requests never name the first, for calls   *)
(* are interchangeable.                                                    *)
(***************************************************************************)
EXTENDS ChatStream

CONSTANTS c1, c2, c3, main, sub

MCCallsOf == [g \in Agents |-> IF g = main THEN Calls ELSE {c3}]
================================================================================
