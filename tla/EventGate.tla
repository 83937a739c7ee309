----------------------------- MODULE EventGate -----------------------------
(***************************************************************************)
(* The gate of the terminal's TurnState (copper_presentation.py,           *)
(* TurnState.apply): which events of a turn's stream it lets through.  An  *)
(* event of another turn opens that turn; within a turn a newer resume     *)
(* attempt starts the sequence numbers over, an older one is refused, and  *)
(* so is a sequence number that is not higher than the last.               *)
(***************************************************************************)
EXTENDS Integers, Sequences

CONSTANT NoTurn       \* an event without turn_id

\* The other fields an event may lack.
NoSequence == 0
NoAttempt == -1

FreshState == [turn |-> NoTurn, attempt |-> NoAttempt, last |-> NoSequence]

NewTurn(st, e) == e.turn # NoTurn /\ e.turn # st.turn
OlderAttempt(st, e) ==
    ~NewTurn(st, e) /\ e.attempt # NoAttempt /\ st.attempt # NoAttempt /\ e.attempt < st.attempt
NewerAttempt(st, e) ==
    ~NewTurn(st, e) /\ e.attempt # NoAttempt
        /\ (st.attempt = NoAttempt \/ e.attempt > st.attempt)

Entered(st, e) ==
    IF NewTurn(st, e) THEN [turn |-> e.turn, attempt |-> e.attempt, last |-> NoSequence]
    ELSE IF NewerAttempt(st, e) THEN [st EXCEPT !.attempt = e.attempt, !.last = NoSequence]
    ELSE st

Accepts(st, e) ==
    LET s == Entered(st, e) IN
    /\ ~OlderAttempt(st, e)
    /\ (e.seq # NoSequence /\ s.last # NoSequence) => e.seq > s.last

Applied(st, e) ==
    IF OlderAttempt(st, e) THEN st
    ELSE IF Accepts(st, e) /\ e.seq # NoSequence THEN [Entered(st, e) EXCEPT !.last = e.seq]
    ELSE Entered(st, e)

============================================================================
