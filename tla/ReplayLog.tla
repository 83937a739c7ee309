----------------------------- MODULE ReplayLog -----------------------------
(***************************************************************************)
(* copper_events, the replay log of a thread: checkpoint_events.py stores  *)
(* it in a compact form, copper_app.py replays it through TurnState when a *)
(* chat is reopened.  The events of a turn are recorded as they stream,    *)
(* stored by events_update when the turn ends, and rewritten once more by  *)
(* compact-db.  An older CLI stored every frame as it came.                *)
(*                                                                         *)
(* An event keeps what the gate reads (turn, sequence, resume attempt) and *)
(* its text as the sequence of chunks it carries; a chunk is the place at  *)
(* which it was recorded.                                                  *)
(***************************************************************************)
EXTENDS EventGate, SequencesExt

CONSTANTS
    Turns,        \* turn ids
    Sequences1,   \* sequence numbers of frames (positive)
    Attempts,     \* resume attempts
    MaxEvents     \* bound: frames recorded in all

ASSUME LogAssumption ==
    /\ NoTurn \notin Turns
    /\ Sequences1 \subseteq Nat \ {0} /\ Attempts \subseteq Nat
    /\ MaxEvents \in Nat

VARIABLES
    raw,      \* every event of the finished turns, as recorded
    new,      \* the events of the running turn
    stored,   \* copper_events in the newest checkpoint
    compacted \* history: this CLI has written or rewritten the log

logVars == <<raw, new, stored, compacted>>

(***************************************************************************)
(* compact_events.                                                         *)
(***************************************************************************)

\* _join: the first chunk's event, with both texts and the last sequence.
Join(first, second) ==
    [first EXCEPT !.text = @ \o second.text,
                  !.seq = IF second.seq # NoSequence THEN second.seq ELSE @]

\* MUTANT: chunks of one turn join whatever resume attempt they belong to.
CanJoin_AnyAttempt(acc, e) ==
    /\ e.type = "reasoning" /\ Accepts(acc.state, e) /\ acc.joinable
    /\ Last(acc.out).turn = e.turn

\* A chunk joins the event before it only if both were accepted as reasoning
\* of one turn and attempt.
CanJoin(acc, e) ==
    /\ e.type = "reasoning" /\ Accepts(acc.state, e) /\ acc.joinable
    /\ Last(acc.out).turn = e.turn /\ Last(acc.out).attempt = e.attempt

CompactStep(acc, e) ==
    IF e.type = "text" THEN acc
    ELSE [state |-> Applied(acc.state, e),
          out |-> IF CanJoin(acc, e) THEN Front(acc.out) \o <<Join(Last(acc.out), e)>>
                  ELSE Append(acc.out, e),
          joinable |-> Accepts(acc.state, e) /\ e.type = "reasoning"]

Compact(events) ==
    FoldLeft(CompactStep, [state |-> FreshState, out |-> <<>>, joinable |-> FALSE], events).out

\* events_update and the channel that applies it: the compact tail appended,
\* or the whole log overwritten when what is stored is not its prefix.
Updated(log, events) ==
    LET full == Compact(log \o events) IN
    IF IsPrefix(log, full)
    THEN log \o SubSeq(full, Len(log) + 1, Len(full))
    ELSE full

(***************************************************************************)
(* What a reopened chat shows: _hydrate passes every stored event but text *)
(* and tool frames to _custom_event, which drops what the gate refuses.    *)
(***************************************************************************)

RenderStep(acc, e) ==
    IF e.type = "text" THEN acc
    ELSE [state |-> Applied(acc.state, e),
          shown |-> IF Accepts(acc.state, e)
                    THEN acc.shown \o [i \in 1..Len(e.text) |-> <<e.type, e.text[i]>>]
                    ELSE acc.shown]

Replay(events) == FoldLeft(RenderStep, [state |-> FreshState, shown |-> <<>>], events)

LogInit == raw = <<>> /\ new = <<>> /\ stored = <<>> /\ compacted = FALSE

Event(type, t, s, a) ==
    [type |-> type, turn |-> t, seq |-> s, attempt |-> a, text |-> <<Len(raw) + Len(new) + 1>>]

\* A frame of the running turn; replayed and stale frames are recorded too.
Record(type, t, s, a) ==
    /\ Len(raw) + Len(new) < MaxEvents
    /\ new' = Append(new, Event(type, t, s, a))
    /\ UNCHANGED <<raw, stored, compacted>>

\* The node's result is stored.
StoreTurn ==
    /\ new # <<>>
    /\ stored' = Updated(stored, new)
    /\ raw' = raw \o new /\ new' = <<>> /\ compacted' = TRUE

\* The same turn of a CLI from before the compact form.
StoreTurnRaw ==
    /\ new # <<>> /\ ~compacted
    /\ stored' = stored \o new
    /\ raw' = raw \o new /\ new' = <<>> /\ UNCHANGED compacted

\* compact-db rewrites the rows it keeps.
RewriteLog ==
    /\ stored # <<>> /\ new = <<>>
    /\ stored' = Compact(stored) /\ compacted' = TRUE
    /\ UNCHANGED <<raw, new>>

LogNext ==
    \/ \E t \in Turns \cup {NoTurn}, s \in Sequences1 \cup {NoSequence},
          a \in Attempts \cup {NoAttempt} :
          Record("reasoning", t, s, a) \/ Record("status", t, s, a)
    \/ Record("text", NoTurn, NoSequence, NoAttempt)
    \/ StoreTurn \/ StoreTurnRaw \/ RewriteLog

LogSpec == LogInit /\ [][LogNext]_logVars

\* A chat reopened from the compact log shows the same chunks in the same
\* order as from the raw one, and leaves the same gate behind for the frames
\* that follow, however its turns were stored and rewritten.  Nor does the log
\* depend on how it was cut into turns: storing turn by turn, after a legacy log or
\* across a rewrite, yields the compact form of the whole, so that the next turn
\* finds it a prefix and appends.
ReplayIsUnchanged ==
    /\ Replay(stored) = Replay(raw)
    /\ compacted => stored = Compact(raw)

============================================================================
