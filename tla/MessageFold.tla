---------------------------- MODULE MessageFold ----------------------------
(***************************************************************************)
(* The message count of a thread rebuilt from the writes of its "messages" *)
(* channel (sessions.py): one add_messages pass over the appended messages *)
(* where that is exact, else a fold of one write at a time.                *)
(*                                                                         *)
(* A write is a list of operations or an Overwrite with a list; an         *)
(* operation adds a message by id, removes one id, or removes all.         *)
(***************************************************************************)
EXTENDS Integers, Sequences, SequencesExt

CONSTANTS
    MsgIds,       \* message ids
    Internal,     \* the ids of messages hidden from the user
    MaxWrites,    \* bound: writes of a thread
    MaxOps        \* bound: operations of a write

ASSUME FoldAssumption == Internal \subseteq MsgIds /\ MaxWrites \in Nat /\ MaxOps \in Nat

VARIABLE deltas   \* the writes, oldest first

Ops == [op : {"add", "remove"}, id : MsgIds] \cup {[op |-> "clear"]}

(***************************************************************************)
(* add_messages (langgraph) on ids: everything up to the last clear goes;  *)
(* otherwise an id already there is replaced in place, a new one appended, *)
(* a removal of an absent id is an error.                                  *)
(***************************************************************************)

IdsOf(msgs) == {msgs[i] : i \in DOMAIN msgs}
RemovesAbsent(left, right) ==
    \E i \in DOMAIN right : right[i].op = "remove"
        /\ right[i].id \notin IdsOf(left)
        /\ ~\E j \in 1..(i - 1) : right[j].op = "add" /\ right[j].id = right[i].id
Clears(right) == {i \in DOMAIN right : right[i].op = "clear"}
LastClear(right) == CHOOSE i \in Clears(right) : \A j \in Clears(right) : j <= i

Rejected(left, right) == Clears(right) = {} /\ RemovesAbsent(left, right)

\* The ids a batch removes for good: not added again after their removal.
Removed(right) ==
    {right[i].id : i \in {k \in DOMAIN right : right[k].op = "remove"
        /\ ~\E j \in (k + 1)..Len(right) : right[j].op = "add" /\ right[j].id = right[k].id}}

AddStep(msgs, o) == IF o.op = "add" /\ o.id \notin IdsOf(msgs) THEN Append(msgs, o.id) ELSE msgs

\* A message that is not removed for good stays.
KeepStep(acc, id) == IF id \in acc.gone THEN acc ELSE [acc EXCEPT !.kept = Append(@, id)]

AddMessages(left, right) ==
    IF Clears(right) # {}
    THEN LET tail == SubSeq(right, LastClear(right) + 1, Len(right)) IN
         [i \in DOMAIN tail |-> tail[i].id]
    ELSE LET merged == FoldLeft(AddStep, left, right) IN
         FoldLeft(KeepStep, [kept |-> <<>>, gone |-> Removed(right)], merged).kept

VisibleCount(msgs) == Len(SelectSeq(msgs, LAMBDA m : m \notin Internal))

(***************************************************************************)
(* The two counts.                                                         *)
(***************************************************************************)

AsAdds(ids) == [i \in DOMAIN ids |-> [op |-> "add", id |-> ids[i]]]

\* _incremental_message_count: a write the reducer rejects is skipped.
IncrementalStep(msgs, d) ==
    IF d.overwrite THEN d.value
    ELSE IF Rejected(msgs, d.ops) THEN msgs
    ELSE AddMessages(msgs, d.ops)

IncrementalCount(ds) == VisibleCount(FoldLeft(IncrementalStep, <<>>, ds))

\* The buffer of _count_messages_from_deltas: appends, reset by a clear or an
\* Overwrite; a removal of one id stops it (exact).
BufferOp(buffer, o) ==
    IF buffer.exact \/ o.op = "remove" THEN [buffer EXCEPT !.exact = TRUE]
    ELSE IF o.op = "clear" THEN [buffer EXCEPT !.ids = <<>>]
    ELSE [buffer EXCEPT !.ids = Append(@, o.id)]

BufferStep(buffer, d) ==
    IF buffer.exact THEN buffer
    ELSE IF d.overwrite THEN [buffer EXCEPT !.ids = d.value]
    ELSE FoldLeft(BufferOp, buffer, d.ops)

MessageCount(ds) ==
    LET buffer == FoldLeft(BufferStep, [ids |-> <<>>, exact |-> FALSE], ds) IN
    IF buffer.exact THEN IncrementalCount(ds)
    ELSE VisibleCount(AddMessages(<<>>, AsAdds(buffer.ids)))

FoldInit == deltas = <<>>

\* No write lists an id twice: the node and the reducers build them from
\* distinct messages.
NoRepeat(ops) ==
    \A i, j \in DOMAIN ops :
        (i # j /\ ops[i].op = "add" /\ ops[j].op = "add") => ops[i].id # ops[j].id

WriteMessages ==
    /\ Len(deltas) < MaxWrites
    /\ \E n \in 1..MaxOps : \E ops \in [1..n -> Ops] :
        /\ NoRepeat(ops)
        /\ deltas' = Append(deltas, [overwrite |-> FALSE, ops |-> ops, value |-> <<>>])

OverwriteMessages ==
    /\ Len(deltas) < MaxWrites
    /\ \E n \in 0..MaxOps : \E ids \in [1..n -> MsgIds] :
        /\ IsInjective(ids)
        /\ deltas' = Append(deltas, [overwrite |-> TRUE, ops |-> <<>>, value |-> ids])

FoldNext == WriteMessages \/ OverwriteMessages

FoldSpec == FoldInit /\ [][FoldNext]_deltas

\* The docstring's claim: the one-pass count equals the sequential fold of the
\* same writes, whatever appends, clears, overwrites and deletes they hold.
FoldsAgree == MessageCount(deltas) = IncrementalCount(deltas)

============================================================================
