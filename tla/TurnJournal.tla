---------------------------- MODULE TurnJournal ----------------------------
(***************************************************************************)
(* The journal of one logical chat turn (turn_journal.py, TurnJournal):    *)
(* the bounded list of tool calls with their outcomes, the resume attempt  *)
(* the server sees, and the status that is written to disk.                *)
(*                                                                         *)
(* Tool call ids are abstract.  Results, arguments, streamed text and the  *)
(* uuids of the turn chain are left out: what a resume depends on is which *)
(* calls are listed, in which order and with which status.                 *)
(***************************************************************************)
EXTENDS Integers, Sequences

CONSTANTS
  Tools,          \* tool_call_ids the hosted agent may use in this turn
  MaxToolEvents   \* MAX_TOOL_EVENTS: the journal keeps the newest this many

ASSUME MaxToolEventsAssumption == MaxToolEvents \in Nat \ {0}

----------------------------------------------------------------------------
(* Tool events *)

Outcomes      == {"completed", "failed"}
EventStatuses == Outcomes \cup {"pending", "interrupted"}
ToolEvent     == [id : Tools, status : EventStatuses]

Recorded(evs, t) == \E i \in DOMAIN evs : evs[i].id = t

\* del self.tool_events[:-MAX_TOOL_EVENTS]
Newest(evs) ==
  IF Len(evs) <= MaxToolEvents
    THEN evs
    ELSE SubSeq(evs, Len(evs) - MaxToolEvents + 1, Len(evs))

RecordToolRequest(evs, t) ==
  IF Recorded(evs, t)
    THEN evs
    ELSE Newest(Append(evs, [id |-> t, status |-> "pending"]))

\* A result whose request was evicted from the list is recorded anew.
RecordToolResult(evs, t, outcome) ==
  LET listed == RecordToolRequest(evs, t)
  IN  [i \in DOMAIN listed |->
         IF listed[i].id = t THEN [listed[i] EXCEPT !.status = outcome]
                             ELSE listed[i]]

\* MUTANT: every event is marked, not only the pending ones.
SettlePending_All(evs) ==
  [i \in DOMAIN evs |-> [evs[i] EXCEPT !.status = "interrupted"]]

SettlePending(evs) ==
  [i \in DOMAIN evs |->
     IF evs[i].status = "pending" THEN [evs[i] EXCEPT !.status = "interrupted"]
                                  ELSE evs[i]]

----------------------------------------------------------------------------
(* The journal record *)

Journal == [status  : {"none", "running", "unfinished"},
            mine    : BOOLEAN,           \* its root_turn_id is this turn's
            attempt : Nat,               \* request.resume.attempt
            events  : Seq(ToolEvent)]

\* No file on disk.
NoJournal == [status |-> "none", mine |-> FALSE, attempt |-> 0, events |-> <<>>]

NewJournal == [status |-> "running", mine |-> TRUE, attempt |-> 0, events |-> <<>>]

BeginResume(j) == [j EXCEPT !.attempt = @ + 1, !.status = "running"]

\* Every outcome in a journal is one the client really saw.
OnlySeenOutcomes(j, seen) ==
  \A i \in DOMAIN j.events :
    j.events[i].status \in Outcomes => j.events[i].status = seen[j.events[i].id]

\* Every outcome the client saw is in the journal.
AllSeenOutcomes(j, seen) ==
  \A t \in Tools : seen[t] \in Outcomes =>
    \E i \in DOMAIN j.events : j.events[i] = [id |-> t, status |-> seen[t]]

=============================================================================
