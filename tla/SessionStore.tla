--------------------------- MODULE SessionStore ---------------------------
(***************************************************************************)
(* The sessions database of sessions.py as several processes use it at     *)
(* once: chat runtimes that write the checkpoints of their turns and prune *)
(* the thread after each (_prune_thread), the commands "threads delete"    *)
(* and "threads compact-db", and a thread list with its message-count      *)
(* cache.                                                                  *)
(*                                                                         *)
(* A checkpoint is its id: ids are time-ordered, so they are drawn from    *)
(* one clock.  An id is drawn when the checkpoint is built and the row is  *)
(* committed later, so another process may commit a larger id in between.  *)
(* What a row stores is a function of the turns before it; the model names *)
(* that content by the id itself.                                          *)
(***************************************************************************)
EXTENDS Integers, FiniteSets, FiniteSetsExt

CONSTANTS
    Posix,        \* FALSE on win32, where both session locks are no-ops
    Procs,        \* chat runtimes (TUI, ACP or MCP processes)
    Threads,      \* thread ids
    Keep,         \* KEEP_CHECKPOINTS
    Budget,       \* PRUNE_BYTES_PER_TURN
    SizeOf(_),    \* length(checkpoint) of each id
    MaxId,        \* bound: ids the clock hands out
    NoThread

ASSUME KeepAssumption == Keep \in Nat \ {0}
ASSUME BudgetAssumption == Budget \in Nat /\ MaxId \in Nat
ASSUME PosixAssumption == Posix \in BOOLEAN
ASSUME NoThreadAssumption == NoThread \notin Threads
ASSUME SizeAssumption == \A i \in 1..MaxId : SizeOf(i) \in Nat

Ids == 1..MaxId

VARIABLES
    clock,     \* the last id drawn
    rows,      \* committed checkpoints of each thread (root namespace)
    writes,    \* ids whose "messages" write is stored
    journal,   \* threads with an unfinished-turn sidecar
    proc,      \* the chat runtimes
    cmd,       \* the maintenance command that is running, if any
    list,      \* the thread list being loaded
    cache,     \* _message_count_cache: freshness and count of each thread's last row shown
    made,      \* history: every id committed since the thread was last empty
    torn       \* history: threads deleted while a turn of theirs was running

vars == <<clock, rows, writes, journal, proc, cmd, list, cache, made, torn>>
tables == <<rows, writes, journal, made, torn>>
listing == <<list, cache>>

(***************************************************************************)
(* Retention arithmetic, on the set of ids a SELECT returned.              *)
(***************************************************************************)

Oldest(S) == {i \in S : \A j \in S : i <= j}
Newest(S, n) == {i \in S : Cardinality({j \in S : j > i}) < n}

\* MUTANT: the slice starts one row later at the end.
Middle_OneMore(S) == S \ (Oldest(S) \cup Newest(S, Keep - 1))

\* rows[1:-keep]
Middle(S) == S \ (Oldest(S) \cup Newest(S, Keep))

\* The victims of one turn's prune: the oldest of the middle rows while the
\* byte budget lasts, but always at least one.
PruneVictims(S) ==
    IF Cardinality(S) <= Keep + 1 THEN {}
    ELSE {i \in Middle(S) :
            \/ i \in Oldest(Middle(S))
            \/ MapThenSumSet(SizeOf, {j \in Middle(S) : j <= i}) <= Budget}

\* The victims of compact-db: every middle row.
CompactVictims(S) == IF Cardinality(S) <= Keep + 1 THEN {} ELSE Middle(S)

\* DELETE ... WHERE checkpoint_id > low AND checkpoint_id <= high
InRange(S, low, high) == {i \in S : i > low /\ i <= high}

\* What the prune's range delete takes from table S when its SELECT saw seen.
PruneDelete(S, seen) == S \ InRange(S, Min(seen), Max(PruneVictims(seen)))

\* compact-db's range ends before the oldest of the newest kept rows.
CompactDelete(S, seen) == S \ InRange(S, Min(seen), Min(Newest(seen, Keep)) - 1)

\* The message the thread list shows as its prompt comes from the earliest
\* stored "messages" write.
InitialPrompt(t) == IF writes[t] = {} THEN 0 ELSE Min(writes[t])

(***************************************************************************)
(* The session lock.                                                       *)
(***************************************************************************)

SharedHeld == Posix /\ \E p \in Procs : proc[p].open
ExclusiveHeld == Posix /\ cmd.step \in {"compactRead", "compactDelete"}

Idle(p) == [open |-> TRUE, thread |-> NoThread, step |-> "idle", k |-> 0, id |-> 0, seen |-> {}]
Closed == [open |-> FALSE, thread |-> NoThread, step |-> "idle", k |-> 0, id |-> 0, seen |-> {}]
NoCmd == [step |-> "none", thread |-> NoThread, todo |-> {}, seen |-> {}]
NoList == [step |-> "idle", thread |-> NoThread, row |-> 0]

Init ==
    /\ clock = 0
    /\ rows = [t \in Threads |-> {}]
    /\ writes = [t \in Threads |-> {}]
    /\ journal = {}
    /\ proc = [p \in Procs |-> Closed]
    /\ cmd = NoCmd
    /\ list = NoList
    /\ cache = [t \in Threads |-> <<0, 0>>]
    /\ made = [t \in Threads |-> {}]
    /\ torn = {}

(***************************************************************************)
(* Chat runtimes.                                                          *)
(***************************************************************************)

\* create_copper_graph enters sessions_open: the shared lock blocks while
\* compact-db holds the exclusive one.
OpenRuntime(p) ==
    /\ ~proc[p].open
    /\ ~ExclusiveHeld
    /\ proc' = [proc EXCEPT ![p] = Idle(p)]
    /\ UNCHANGED <<clock, cmd>> /\ UNCHANGED tables /\ UNCHANGED listing

\* A turn of thread t: three checkpoints, k of which are committed.
StartTurn(p, t) ==
    /\ proc[p].open /\ proc[p].step = "idle"
    /\ proc' = [proc EXCEPT ![p].thread = t, ![p].step = "id", ![p].k = 1]
    /\ UNCHANGED <<clock, cmd>> /\ UNCHANGED tables /\ UNCHANGED listing

DrawId(p) ==
    /\ proc[p].step = "id"
    /\ clock < MaxId
    /\ clock' = clock + 1
    /\ proc' = [proc EXCEPT ![p].id = clock + 1, ![p].step = "put"]
    /\ UNCHANGED <<cmd>> /\ UNCHANGED tables /\ UNCHANGED listing

\* The saver commits the checkpoint row.  The first has its input's writes to
\* follow, the second runs the node, the third ends the turn.
PutCheckpoint(p) ==
    LET t == proc[p].thread IN
    /\ proc[p].step = "put"
    /\ rows' = [rows EXCEPT ![t] = @ \cup {proc[p].id}]
    /\ made' = [made EXCEPT ![t] = @ \cup {proc[p].id}]
    /\ proc' = [proc EXCEPT ![p].step = CASE proc[p].k = 1 -> "write"
                                          [] proc[p].k = 2 -> "node"
                                          [] OTHER -> "prune"]
    /\ UNCHANGED <<clock, writes, journal, torn, cmd>> /\ UNCHANGED listing

\* The messages of the input, or of the node, stored under their checkpoint.
PutWrites(p) ==
    LET t == proc[p].thread IN
    /\ proc[p].step = "write"
    /\ writes' = [writes EXCEPT ![t] = @ \cup {proc[p].id}]
    /\ proc' = [proc EXCEPT ![p].step = "id", ![p].k = @ + 1, ![p].id = 0]
    /\ UNCHANGED <<clock, rows, journal, made, torn, cmd>> /\ UNCHANGED listing

\* The node saves its journal while the turn runs, and deletes it at the end.
NodeSaves(p) ==
    /\ proc[p].step = "node" /\ proc[p].thread \notin journal
    /\ journal' = journal \cup {proc[p].thread}
    /\ UNCHANGED <<clock, rows, writes, made, torn, proc, cmd>> /\ UNCHANGED listing

NodeEnds(p) ==
    /\ proc[p].step = "node"
    /\ journal' = journal \ {proc[p].thread}
    /\ proc' = [proc EXCEPT ![p].step = "write"]
    /\ UNCHANGED <<clock, rows, writes, made, torn, cmd>> /\ UNCHANGED listing

\* _prune_thread's SELECT.
PruneReads(p) ==
    LET seen == rows[proc[p].thread] IN
    /\ proc[p].step = "prune"
    /\ proc' = [proc EXCEPT ![p] = IF PruneVictims(seen) = {} THEN Idle(p)
                                   ELSE [@ EXCEPT !.step = "delete", !.seen = seen]]
    /\ UNCHANGED <<clock, cmd>> /\ UNCHANGED tables /\ UNCHANGED listing

\* Its two DELETEs and the commit: one transaction.
PruneCommits(p) ==
    LET t == proc[p].thread IN
    /\ proc[p].step = "delete"
    /\ rows' = [rows EXCEPT ![t] = PruneDelete(@, proc[p].seen)]
    /\ writes' = [writes EXCEPT ![t] = PruneDelete(@, proc[p].seen)]
    /\ proc' = [proc EXCEPT ![p] = Idle(p)]
    /\ UNCHANGED <<clock, journal, made, torn, cmd>> /\ UNCHANGED listing

\* A turn that fails or is cancelled leaves without pruning, and a failed
\* prune never fails the turn.
AbandonTurn(p) ==
    /\ proc[p].open /\ proc[p].step # "idle"
    /\ proc' = [proc EXCEPT ![p] = Idle(p)]
    /\ UNCHANGED <<clock, cmd>> /\ UNCHANGED tables /\ UNCHANGED listing

\* The runtime is closed, or its process killed at any step.
CloseRuntime(p) ==
    /\ proc[p].open
    /\ proc' = [proc EXCEPT ![p] = Closed]
    /\ UNCHANGED <<clock, cmd>> /\ UNCHANGED tables /\ UNCHANGED listing

(***************************************************************************)
(* Maintenance commands.                                                   *)
(***************************************************************************)

\* delete_thread takes no lock: rows and writes in one commit.
DeleteRows(t) ==
    /\ cmd.step = "none"
    /\ rows' = [rows EXCEPT ![t] = {}]
    /\ writes' = [writes EXCEPT ![t] = {}]
    /\ made' = [made EXCEPT ![t] = {}]
    /\ cmd' = [NoCmd EXCEPT !.step = "deleteJournal", !.thread = t]
    /\ torn' = IF \E p \in Procs : proc[p].thread = t THEN torn \cup {t} ELSE torn
    /\ UNCHANGED <<clock, journal, proc>> /\ UNCHANGED listing

DeleteJournal ==
    /\ cmd.step = "deleteJournal"
    /\ journal' = journal \ {cmd.thread}
    /\ cmd' = NoCmd
    /\ UNCHANGED <<clock, rows, writes, made, torn, proc>> /\ UNCHANGED listing

\* exclusive_sessions: refused while any runtime is open.
CompactStarts ==
    /\ cmd.step = "none"
    /\ ~SharedHeld
    /\ cmd' = [NoCmd EXCEPT !.step = "compactRead", !.todo = {t \in Threads : rows[t] # {}}]
    /\ UNCHANGED <<clock, proc>> /\ UNCHANGED tables /\ UNCHANGED listing

CompactReads(t) ==
    /\ cmd.step = "compactRead" /\ t \in cmd.todo
    /\ cmd' = [cmd EXCEPT !.thread = t, !.seen = rows[t], !.step = "compactDelete"]
    /\ UNCHANGED <<clock, proc>> /\ UNCHANGED tables /\ UNCHANGED listing

\* One commit per thread; the rewrite of the event logs left in the rows is
\* the subject of ReplayLog.
CompactCommits ==
    LET t == cmd.thread IN
    /\ cmd.step = "compactDelete"
    /\ IF CompactVictims(cmd.seen) = {} THEN UNCHANGED <<rows, writes>>
       ELSE /\ rows' = [rows EXCEPT ![t] = CompactDelete(@, cmd.seen)]
            /\ writes' = [writes EXCEPT ![t] = CompactDelete(@, cmd.seen)]
    /\ cmd' = [cmd EXCEPT !.todo = @ \ {t}, !.thread = NoThread, !.seen = {},
                          !.step = "compactRead"]
    /\ UNCHANGED <<clock, journal, made, torn, proc>> /\ UNCHANGED listing

\* compact-db is done (VACUUM changes no row), or any command is killed.
CommandEnds ==
    /\ cmd.step # "none"
    /\ cmd' = NoCmd
    /\ UNCHANGED <<clock, proc>> /\ UNCHANGED tables /\ UNCHANGED listing

(***************************************************************************)
(* list_threads with include_message_count: the rows first, then, after an *)
(* await, the counts, from the cache when its freshness token still fits.  *)
(***************************************************************************)

LatestId(t) == IF rows[t] = {} THEN 0 ELSE Max(rows[t])

ListRows(t) ==
    /\ list.step = "idle" /\ rows[t] # {}
    /\ list' = [step |-> "count", thread |-> t, row |-> LatestId(t)]
    /\ UNCHANGED <<clock, proc, cmd, cache>> /\ UNCHANGED tables

\* Phases 1 to 4 of _populate_checkpoint_fields for the one row.
ListCounts ==
    LET t == list.thread
        hit == cache[t][1] = list.row
        count == IF hit THEN cache[t][2] ELSE LatestId(t) IN
    /\ list.step = "count"
    /\ cache' = [cache EXCEPT ![t] = <<list.row, count>>]
    /\ list' = NoList
    /\ UNCHANGED <<clock, proc, cmd>> /\ UNCHANGED tables

Next ==
    \/ \E p \in Procs :
        \/ OpenRuntime(p) \/ DrawId(p) \/ PutCheckpoint(p) \/ PutWrites(p)
        \/ NodeSaves(p) \/ NodeEnds(p) \/ PruneReads(p) \/ PruneCommits(p)
        \/ AbandonTurn(p) \/ CloseRuntime(p)
        \/ \E t \in Threads : StartTurn(p, t)
    \/ \E t \in Threads : DeleteRows(t) \/ CompactReads(t) \/ ListRows(t)
    \/ DeleteJournal \/ CompactStarts \/ CompactCommits \/ CommandEnds
    \/ ListCounts

Spec == Init /\ [][Next]_vars

(***************************************************************************)
(* Properties.                                                             *)
(***************************************************************************)

TypeOK ==
    /\ clock \in 0..MaxId
    /\ rows \in [Threads -> SUBSET Ids]
    /\ writes \in [Threads -> SUBSET Ids]
    /\ made \in [Threads -> SUBSET Ids]
    /\ torn \in SUBSET Threads
    /\ journal \in SUBSET Threads
    /\ proc \in [Procs -> [open : BOOLEAN, thread : Threads \cup {NoThread},
                           step : {"idle", "id", "put", "write", "node", "prune", "delete"},
                           k : 0..3, id : 0..MaxId, seen : SUBSET Ids]]
    /\ cmd \in [step : {"none", "deleteJournal", "compactRead", "compactDelete"},
                thread : Threads \cup {NoThread}, todo : SUBSET Threads, seen : SUBSET Ids]
    /\ list \in [step : {"idle", "count"}, thread : Threads \cup {NoThread}, row : 0..MaxId]
    /\ cache \in [Threads -> (0..MaxId) \X (0..MaxId)]

\* Whatever processes prune, compact or commit late, and whether or not the
\* lock works, a thread that exists keeps the newest Keep checkpoints anyone
\* committed and its first one: what reopening a chat and its prompt need.
RetentionKeepsNewest ==
    \A t \in Threads \ torn : rows[t] # {} =>
        Oldest(made[t]) \cup Newest(made[t], Keep) \subseteq rows[t]

\* Once the thread's first checkpoint has its input's write, the prompt the
\* list derives (the earliest stored "messages" write) stays that of the first
\* turn until the chat is deleted (a turn running across its own chat's
\* deletion may leave a write without its row behind: such threads are torn).
PromptStays ==
    \A t \in Threads :
        (t \notin torn /\ rows[t] # {} /\ Oldest(rows[t]) \subseteq writes[t] /\ rows'[t] # {})
            => InitialPrompt(t)' = InitialPrompt(t)

\* No step takes from a thread what reopening it and listing it by its prompt
\* need, whatever prunes, compacts or deletes (_prune, compact_db).
RetentionIsSound == [][RetentionKeepsNewest' /\ PromptStays]_vars

\* A row the cache answers for (its checkpoint is still the newest of the
\* thread) shows the count of that checkpoint, not one kept from another turn
\* (nothing is claimed of a torn thread).
ListIsFresh ==
    \A t \in Threads \ torn :
        (rows[t] # {} /\ cache[t][1] = LatestId(t)) => cache[t][2] = cache[t][1]

===========================================================================
