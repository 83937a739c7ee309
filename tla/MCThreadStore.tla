--------------------------- MODULE MCThreadStore ---------------------------
(***************************************************************************)
(* Small instances of what is kept of a thread, for TLC: the database      *)
(* under several processes (SessionStore), the event log its rows hold     *)
(* (ReplayLog), the message count read back from its writes (MessageFold)  *)
(* and the chat the hosted model is told of (ChatContext).  They share no  *)
(* state here, so a behaviour moves one of them.                           *)
(***************************************************************************)
EXTENDS SessionStore, ReplayLog, MessageFold, ChatContext, TLC

VARIABLE part

MCInit ==
    /\ part \in {"store", "log", "fold", "context"}
    /\ Init /\ LogInit /\ FoldInit /\ ContextInit

MCNext ==
    /\ UNCHANGED part
    /\ \/ part = "store" /\ Next /\ UNCHANGED <<logVars, deltas, contextVars>>
       \/ part = "log" /\ LogNext /\ UNCHANGED <<vars, deltas, contextVars>>
       \/ part = "fold" /\ FoldNext /\ UNCHANGED <<vars, logVars, contextVars>>
       \/ part = "context" /\ ContextNext /\ UNCHANGED <<vars, logVars, deltas>>

MCSpec == MCInit /\ [][MCNext]_<<part, vars, logVars, deltas, contextVars>>

\* Every third checkpoint is larger than the budget of a prune.
SizeOfId(i) == IF i % 3 = 0 THEN Budget + 1 ELSE 1

\* The bound on what is explored together: a maintenance command and the list
\* run beside at most one writer, and nothing is claimed of a torn thread.
Focus ==
    /\ torn = {}
    /\ (cmd # NoCmd \/ list # NoList \/ \E t \in Threads : cache[t] # <<0, 0>>)
          => Cardinality({p \in Procs : proc[p].open}) <= 1

Symmetry == Permutations(Procs) \cup Permutations(Turns)

\* What is read back is what was written: a chat replayed from its compact log is
\* the chat as it streamed (compact_events), the count of messages folded from the
\* stored writes is the count of the messages, and the one the list remembers is
\* that of the checkpoint it shows (sessions.py).
ReadsBackWhatWasWritten == ReplayIsUnchanged /\ FoldsAgree /\ ListIsFresh

===========================================================================
