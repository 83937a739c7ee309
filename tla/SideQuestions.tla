--------------------------- MODULE SideQuestions ---------------------------
(***************************************************************************)
(* /btw: short questions asked beside the running turn (copper_btw.py and  *)
(* the btw handlers of copper_app.py).  Each has a task with a socket of   *)
(* its own; the history shows a bounded number of questions.               *)
(***************************************************************************)
EXTENDS Naturals, Sequences, FiniteSets, SequencesExt

CONSTANTS
    MaxShown,      \* MAX_SIDE_QUESTIONS
    MaxInFlight,   \* MAX_IN_FLIGHT
    MaxDenials,    \* MAX_TOOL_DENIALS
    MaxAsked       \* bound: questions asked in all

ASSUME BtwAssumption ==
    /\ MaxShown \in Nat \ {0} /\ MaxInFlight \in Nat \ {0}
    /\ MaxDenials \in Nat \ {0} /\ MaxAsked \in Nat

Questions == 1..MaxAsked

VARIABLES
    asked,    \* the last id drawn from _ids
    entries,  \* SideQuestionLog.entries, ids
    status,   \* the status of each question
    slots,    \* self._btw_tasks
    step,     \* the task of each question
    denied,   \* tool requests each refused
    text,     \* questions with some answer text
    stopped   \* questions that cancelled their own stream

btwVars == <<asked, entries, status, slots, step, denied, text, stopped>>

Shown == ToSet(entries)

BtwInit ==
    /\ asked = 0 /\ entries = <<>>
    /\ status = [q \in Questions |-> "pending"]
    /\ slots = {} /\ step = [q \in Questions |-> "none"]
    /\ denied = [q \in Questions |-> 0] /\ text = {} /\ stopped = {}

\* Tasks of questions pushed out of the history.
Trimmed(shown) == slots \ shown

\* SideQuestionLog.add: the newest MaxShown entries stay.
Added(q) ==
    LET all == Append(entries, q) IN
    IF Len(all) > MaxShown THEN Tail(all) ELSE all

\* task.cancel(): the task ends at its await without an answer.
CancelledTasks(S) == [q \in Questions |-> IF q \in S THEN "cancelled" ELSE step[q]]

Ask ==
    LET q == asked + 1 IN
    /\ q \in Questions /\ Cardinality(slots) < MaxInFlight
    /\ asked' = q /\ entries' = Added(q)
    /\ slots' = slots \cup {q}
    /\ step' = [CancelledTasks(Trimmed(ToSet(Added(q)))) EXCEPT ![q] = "history"]
    /\ UNCHANGED <<status, denied, text, stopped>>

\* _btw_history: the thread's messages, or none if they cannot be read.
ReadHistory(q) ==
    /\ step[q] = "history"
    /\ step' = [step EXCEPT ![q] = "stream"]
    /\ UNCHANGED <<asked, entries, status, slots, denied, text, stopped>>

\* A text frame; the one that exceeds MAX_ANSWER_CHARS stops the stream.
Text(q, last) ==
    /\ step[q] = "stream"
    /\ text' = text \cup {q}
    /\ stopped' = IF last THEN stopped \cup {q} ELSE stopped
    /\ UNCHANGED <<asked, entries, status, slots, step, denied>>

\* A tool request: refused, and after MaxDenials the stream is stopped.
Deny(q) ==
    /\ step[q] = "stream" /\ denied[q] < MaxDenials
    /\ denied' = [denied EXCEPT ![q] = @ + 1]
    /\ stopped' = IF denied'[q] = MaxDenials THEN stopped \cup {q} ELSE stopped
    /\ UNCHANGED <<asked, entries, status, slots, step, text>>

\* SideQuestionLog.resolve, and the done callback of the task.
Resolved(q, how) ==
    /\ status' = [status EXCEPT ![q] = IF q \in Shown THEN how ELSE @]
    /\ step' = [step EXCEPT ![q] = "over"]
    /\ slots' = slots \ {q}
    /\ UNCHANGED <<asked, entries, denied, text, stopped>>

Answer(q) == IF q \in text \/ denied[q] > 0 THEN "done" ELSE "error"

\* MUTANT: the timeout is passed on, and only SideQuestionError is handled.
Ends_TimeoutEscapes(q, why) ==
    /\ step[q] = "stream"
    /\ IF why = "timeout"
       THEN /\ step' = [step EXCEPT ![q] = "over"] /\ slots' = slots \ {q}
            /\ UNCHANGED <<asked, entries, status, denied, text, stopped>>
       ELSE Resolved(q, Answer(q))

\* The stream ends, fails, or exceeds SIDE_QUESTION_TIMEOUT.
Ends(q, why) ==
    /\ step[q] = "stream"
    /\ Resolved(q, CASE why = "final" -> Answer(q)
                     [] why = "timeout" -> IF q \in text THEN "done" ELSE "error"
                     [] why = "protocol" -> IF q \in stopped THEN Answer(q) ELSE "error"
                     [] why = "network" -> "error")

\* A cancelled task unwinds; nothing resolves its entry.
CancelEnds(q) ==
    /\ step[q] = "cancelled"
    /\ step' = [step EXCEPT ![q] = "over"]
    /\ slots' = slots \ {q}
    /\ UNCHANGED <<asked, entries, status, denied, text, stopped>>

\* "x", /clear, another workspace or chat: every task is cancelled and forgotten.
ClearQuestions ==
    /\ entries # <<>>
    /\ entries' = <<>>
    /\ step' = CancelledTasks(slots)
    /\ slots' = {}
    /\ UNCHANGED <<asked, status, denied, text, stopped>>

BtwNext ==
    \/ Ask \/ ClearQuestions
    \/ \E q \in Questions :
        \/ ReadHistory(q) \/ Deny(q) \/ CancelEnds(q)
        \/ \E last \in BOOLEAN : Text(q, last)
        \/ \E why \in {"final", "timeout", "protocol", "network"} : Ends(q, why)

\* The thread can be read, the timeout fires, a cancelled await raises.
BtwFairness ==
    \A q \in Questions : WF_btwVars(ReadHistory(q)) /\ WF_btwVars(Ends(q, "timeout"))
                         /\ WF_btwVars(CancelEnds(q))

BtwSpec == BtwInit /\ [][BtwNext]_btwVars /\ BtwFairness

\* A task that takes up one of the few places belongs to a question the user
\* sees, or is being cancelled: no hidden question keeps /btw refused.
SlotsBelongToShown == \A q \in slots : q \in Shown \/ step[q] = "cancelled"

\* Every question that stays in the history gets an answer or an error, and its
\* place is free again.
EveryQuestionIsAnswered ==
    \A q \in Questions :
        q \in Shown ~> (q \notin slots /\ (q \in Shown => status[q] # "pending"))

============================================================================
