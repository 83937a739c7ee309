---------------------------- MODULE TuiAppProofs ----------------------------
(***************************************************************************)
(* Theorems about the terminal front end: TuiApp for any set of chats and  *)
(* any number of tasks, SideQuestions for any history length, any number   *)
(* of places and any number of questions.                                  *)
(***************************************************************************)
EXTENDS MCTuiApp, SequenceTheorems, WellFoundedInduction, TLAPS

USE ChatsAssumption, TasksAssumption, BtwAssumption

----------------------------------------------------------------------------
(* Tasks *)

TaskRecords ==
    [kind : {"none", "turn", "compact"},
     at : {"unused", "new", "stream", "closing", "handler", "done"},
     cancel : BOOLEAN, chat : Chats \cup {NoChat}]

\* The number of the next task is one that was not used yet.
LEMMA NextIsFree == Free # {} => NextTask \in Free
<1> SUFFICES ASSUME Free # {} PROVE NextTask \in Free
  OBVIOUS
<1> DEFINE Less == {p \in Nat \X Nat : p[1] < p[2]}
<1>1. IsWellFoundedOn(Less, Nat)
  BY NatLessThanWellFounded DEF OpToRel
<1>2. Free \subseteq Nat
  BY DEF Free, TaskIds
<1>3. \A x, y \in Nat : <<x, y>> \notin Less => y <= x
  OBVIOUS
<1> HIDE DEF Less
<1>4. PICK i \in Free : \A j \in Free : <<j, i>> \notin Less
  BY <1>1, <1>2, WFMin
<1>5. \A j \in Free : i <= j
  BY <1>2, <1>3, <1>4
<1>6. QED
  BY <1>5 DEF NextTask

\* create_task turns one unused task into a new one and tracks it.
LEMMA Creation ==
  ASSUME TypeOK, NEW kind \in {"turn", "compact"}, Created(kind)
  PROVE  /\ NextTask \in TaskIds /\ tasks[NextTask].at = "unused"
         /\ tracked' = NextTask
         /\ tasks' \in [TaskIds -> TaskRecords]
         /\ tasks'[NextTask].at = "new" /\ tasks'[NextTask].kind = kind
         /\ \A j \in TaskIds \ {NextTask} : tasks'[j] = tasks[j]
<1> DEFINE t == [Unused EXCEPT !.kind = kind, !.at = "new"]
<1>1. t \in TaskRecords /\ t.at = "new" /\ t.kind = kind
  BY DEF Unused, TaskRecords
<1> HIDE DEF t
<1>2. NextTask \in TaskIds /\ tasks[NextTask].at = "unused"
  BY NextIsFree DEF Created, Free
<1>3. tracked' = NextTask /\ tasks' = [tasks EXCEPT ![NextTask] = t]
  BY DEF Created, t
<1>4. tasks \in [TaskIds -> TaskRecords]
  BY DEF TypeOK, TaskRecords
<1>5. QED
  BY <1>1, <1>2, <1>3, <1>4

\* What a step may do to one task.
Moved(i, kind, where) ==
    /\ tasks' \in [TaskIds -> TaskRecords]
    /\ tasks'[i].at = where /\ tasks'[i].kind = kind
    /\ \A j \in TaskIds \ {i} : tasks'[j] = tasks[j]

\* A cancel moves no task.
Stay ==
    /\ tasks' \in [TaskIds -> TaskRecords]
    /\ \A j \in TaskIds : tasks'[j].at = tasks[j].at /\ tasks'[j].kind = tasks[j].kind

LEMMA Cancelling ==
  ASSUME TypeOK, NEW i \in TaskIds, Cancel(i)
  PROVE  Stay
<1> DEFINE t == [tasks[i] EXCEPT !.cancel = Live(i)]
<1>1. tasks \in [TaskIds -> TaskRecords]
  BY DEF TypeOK, TaskRecords
<1>2. Live(i) \in BOOLEAN
  BY DEF Live
<1>3. t \in TaskRecords /\ t.at = tasks[i].at /\ t.kind = tasks[i].kind
  BY <1>1, <1>2 DEF TaskRecords
<1> HIDE DEF t
<1>4. tasks' = [tasks EXCEPT ![i] = t]
  BY DEF Cancel, t
<1>5. QED
  BY <1>1, <1>3, <1>4 DEF Stay

LEMMA Unmoved ==
  ASSUME TypeOK, tasks' = tasks
  PROVE  Stay
BY DEF TypeOK, Stay, TaskRecords

LEMMA Ending ==
  ASSUME TypeOK, NEW i \in TaskIds, Done(i)
  PROVE  Moved(i, "none", "done")
<1> DEFINE t == [Unused EXCEPT !.at = "done"]
<1>1. t \in TaskRecords /\ t.at = "done" /\ t.kind = "none"
  BY DEF Unused, TaskRecords
<1> HIDE DEF t
<1>2. tasks' = [tasks EXCEPT ![i] = t] /\ tasks \in [TaskIds -> TaskRecords]
  BY DEF Done, t, TypeOK, TaskRecords
<1>3. QED
  BY <1>1, <1>2 DEF Moved

LEMMA Advancing ==
  ASSUME TypeOK, NEW i \in TaskIds,
         NEW where \in {"closing", "handler"}, At(i, where)
  PROVE  Moved(i, tasks[i].kind, where)
<1> DEFINE t == [tasks[i] EXCEPT !.at = where, !.cancel = FALSE]
<1>1. tasks \in [TaskIds -> TaskRecords]
  BY DEF TypeOK, TaskRecords
<1>2. t \in TaskRecords /\ t.at = where /\ t.kind = tasks[i].kind
  BY <1>1 DEF TaskRecords
<1> HIDE DEF t
<1>3. tasks' = [tasks EXCEPT ![i] = t]
  BY DEF At, t
<1>4. QED
  BY <1>1, <1>2, <1>3 DEF Moved

LEMMA Starting ==
  ASSUME TypeOK, NEW i \in TaskIds, Starts(i)
  PROVE  Moved(i, tasks[i].kind, "stream")
<1> DEFINE t == [tasks[i] EXCEPT !.at = "stream", !.chat = chat]
<1>1. tasks \in [TaskIds -> TaskRecords] /\ chat \in Chats
  BY DEF TypeOK, TaskRecords
<1>2. t \in TaskRecords /\ t.at = "stream" /\ t.kind = tasks[i].kind
  BY <1>1 DEF TaskRecords
<1> HIDE DEF t
<1>3. tasks' = [tasks EXCEPT ![i] = t]
  BY DEF Starts, t
<1>4. QED
  BY <1>1, <1>2, <1>3 DEF Moved

----------------------------------------------------------------------------
(* Type correctness *)

TasksTyped == tasks \in [TaskIds -> TaskRecords]

\* The rest of the type invariant, in parts.
InputsTyped ==
    /\ tracked \in TaskIds \cup {NoTask} /\ compactor \in TaskIds \cup {NoTask}
    /\ worker \in {"idle", "submit", "compact"} /\ initial \in {"none", "due", "mount"}
    /\ ctrlC \in {"idle", "asked", "broker", "crashed"}
    /\ chat \in Chats

ScreenTyped ==
    /\ loading \in BOOLEAN /\ menu \in BOOLEAN
    /\ call \in {"none", "waiting", "running"}
    /\ tool \in {"none", "approval", "running", "settled"}
    /\ phase \in {"idle", "running", "completed", "failed", "cancelled"}

FlagsTyped ==
    cancelRequested \in BOOLEAN /\ cut \in BOOLEAN /\ strayed \in BOOLEAN /\ raced \in BOOLEAN

LEMMA TypeParts == TypeOK <=> TasksTyped /\ InputsTyped /\ ScreenTyped /\ FlagsTyped
BY DEF TypeOK, TasksTyped, InputsTyped, ScreenTyped, FlagsTyped, TaskRecords

LEMMA InitTyped == Init => TypeOK
<1> SUFFICES ASSUME Init PROVE TypeOK
  OBVIOUS
<1>1. Unused \in TaskRecords
  BY DEF Unused, TaskRecords
<1>2. TasksTyped
  BY <1>1 DEF Init, TasksTyped
<1>3. InputsTyped /\ ScreenTyped /\ FlagsTyped
  BY DEF Init, InputsTyped, ScreenTyped, FlagsTyped
<1>4. QED
  BY <1>2, <1>3, TypeParts

LEMMA TasksStayTyped == TypeOK /\ [Next]_vars => TasksTyped'
<1> SUFFICES ASSUME TypeOK, [Next]_vars PROVE TasksTyped'
  OBVIOUS
<1> USE DEF TasksTyped
<1>0. tasks \in [TaskIds -> TaskRecords] /\ compactor \in TaskIds \cup {NoTask}
      /\ tracked \in TaskIds \cup {NoTask}
  BY TypeParts DEF InputsTyped
<1>1. ASSUME NEW what \in {"submit", "compact"}, Submit(what)
      PROVE  TasksTyped'
  BY <1>0, <1>1, Cancelling DEF Submit, Stay
<1>2. CASE SubmitCreates \/ InitialCreates \/ CompactCreates
  BY <1>2, Creation DEF SubmitCreates, InitialCreates, CompactCreates
<1>3. CASE InitialStarts \/ CompactRefused \/ CompactorEnds \/ ToolDecided \/ CtrlC \/ CtrlCEnds
           \/ UNCHANGED vars
  BY <1>0, <1>3 DEF InitialStarts, CompactRefused, CompactorEnds, ToolDecided, CtrlC, CtrlCEnds, vars
<1>4. CASE CtrlCCancels
  BY <1>0, <1>4, Cancelling DEF CtrlCCancels, Stay
<1>5. ASSUME NEW i \in TaskIds, TaskStep(i)
      PROVE  TasksTyped'
  <2>1. CASE Starts(i)
    BY <2>1, Starting DEF Moved
  <2>2. CASE NeverStarts(i) \/ Finalizes(i) \/ FinalizeCut(i) \/ CompactionEnds(i)
    BY <2>2, Ending DEF Moved, NeverStarts, Finalizes, FinalizeCut, CompactionEnds
  <2>3. CASE StreamEnds(i) \/ StreamRaises(i)
    BY <2>3, Advancing DEF Moved, StreamEnds, StreamRaises
  <2>4. CASE ToolResult(i) \/ Reconnects(i)
    BY <1>0, <2>4 DEF ToolResult, Reconnects
  <2>5. QED
    BY <1>5, <2>1, <2>2, <2>3, <2>4 DEF TaskStep
<1>6. ASSUME NEW i \in TaskIds, NEW approval \in BOOLEAN, ToolRequested(i, approval)
      PROVE  TasksTyped'
  BY <1>0, <1>6 DEF ToolRequested
<1>7. ASSUME NEW c \in Chats, ResetTranscript(c)
      PROVE  TasksTyped'
  BY <1>0, <1>7 DEF ResetTranscript
<1>8. QED
  BY <1>1, <1>2, <1>3, <1>4, <1>5, <1>6, <1>7 DEF Next

LEMMA InputsStayTyped == TypeOK /\ [Next]_vars => InputsTyped'
<1> SUFFICES ASSUME TypeOK, [Next]_vars PROVE InputsTyped'
  OBVIOUS
<1>0. InputsTyped
  BY TypeParts
<1> USE DEF InputsTyped, inputs
<1>1. ASSUME NEW what \in {"submit", "compact"}, Submit(what)
      PROVE  InputsTyped'
  BY <1>0, <1>1 DEF Submit
<1>2. CASE SubmitCreates \/ InitialCreates \/ CompactCreates
  <2>1. tracked' \in TaskIds /\ NextTask \in TaskIds
    BY <1>2, Creation DEF SubmitCreates, InitialCreates, CompactCreates
  <2>2. QED
    BY <1>0, <1>2, <2>1 DEF SubmitCreates, InitialCreates, CompactCreates
<1>3. CASE InitialStarts \/ CompactRefused \/ CompactorEnds \/ ToolDecided
  BY <1>0, <1>3 DEF InitialStarts, CompactRefused, CompactorEnds, ToolDecided
<1>4. CASE CtrlC \/ CtrlCCancels \/ CtrlCEnds \/ UNCHANGED vars
  BY <1>0, <1>4 DEF CtrlC, CtrlCCancels, CtrlCEnds, vars
<1>5. ASSUME NEW i \in TaskIds, TaskStep(i)
      PROVE  InputsTyped'
  <2>1. CASE NeverStarts(i) \/ Starts(i) \/ ToolResult(i) \/ Reconnects(i)
    BY <1>0, <2>1 DEF NeverStarts, Starts, ToolResult, Reconnects
  <2>2. CASE StreamEnds(i) \/ StreamRaises(i)
    BY <1>0, <2>2 DEF StreamEnds, StreamRaises
  <2>3. CASE Finalizes(i) \/ FinalizeCut(i) \/ CompactionEnds(i)
    BY <1>0, <2>3 DEF Finalizes, FinalizeCut, CompactionEnds
  <2>4. QED
    BY <1>5, <2>1, <2>2, <2>3 DEF TaskStep
<1>6. ASSUME NEW i \in TaskIds, NEW approval \in BOOLEAN, ToolRequested(i, approval)
      PROVE  InputsTyped'
  BY <1>0, <1>6 DEF ToolRequested
<1>7. ASSUME NEW c \in Chats, ResetTranscript(c)
      PROVE  InputsTyped'
  BY <1>0, <1>7 DEF ResetTranscript
<1>8. QED
  BY <1>1, <1>2, <1>3, <1>4, <1>5, <1>6, <1>7 DEF Next

LEMMA ScreenStaysTyped == TypeOK /\ [Next]_vars => ScreenTyped'
<1> SUFFICES ASSUME TypeOK, [Next]_vars PROVE ScreenTyped'
  OBVIOUS
<1>0. ScreenTyped
  BY TypeParts
<1> USE DEF ScreenTyped, screen
<1>1. ASSUME UNCHANGED screen
      PROVE  ScreenTyped'
  BY <1>0, <1>1
<1>2. ASSUME NEW what \in {"submit", "compact"}, Submit(what)
      PROVE  ScreenTyped'
  BY <1>1, <1>2 DEF Submit
<1>3. CASE SubmitCreates \/ InitialStarts \/ InitialCreates \/ CompactCreates \/ CompactRefused
           \/ CompactorEnds \/ CtrlC \/ CtrlCCancels \/ CtrlCEnds \/ UNCHANGED vars
  BY <1>1, <1>3 DEF SubmitCreates, InitialStarts, InitialCreates, CompactCreates, CompactRefused,
       CompactorEnds, CtrlC, CtrlCCancels, CtrlCEnds, vars
<1>4. CASE ToolDecided
  BY <1>0, <1>4 DEF ToolDecided
<1>5. ASSUME NEW i \in TaskIds, TaskStep(i)
      PROVE  ScreenTyped'
  <2>1. CASE NeverStarts(i) \/ Reconnects(i)
    BY <1>1, <2>1 DEF NeverStarts, Reconnects
  <2>2. CASE Starts(i)
    BY <1>0, <2>2 DEF Starts
  <2>3. CASE ToolResult(i)
    BY <1>0, <2>3 DEF ToolResult
  <2>4. CASE StreamEnds(i)
    BY <1>0, <2>4 DEF StreamEnds
  <2>5. CASE StreamRaises(i)
    BY <1>0, <2>5 DEF StreamRaises
  <2>6. CASE Finalizes(i) \/ FinalizeCut(i) \/ CompactionEnds(i)
    BY <1>0, <2>6 DEF Finalizes, FinalizeCut, CompactionEnds, Settled
  <2>7. QED
    BY <1>5, <2>1, <2>2, <2>3, <2>4, <2>5, <2>6 DEF TaskStep
<1>6. ASSUME NEW i \in TaskIds, NEW approval \in BOOLEAN, ToolRequested(i, approval)
      PROVE  ScreenTyped'
  BY <1>0, <1>6 DEF ToolRequested
<1>7. ASSUME NEW c \in Chats, ResetTranscript(c)
      PROVE  ScreenTyped'
  BY <1>0, <1>7 DEF ResetTranscript
<1>8. QED
  BY <1>2, <1>3, <1>4, <1>5, <1>6, <1>7 DEF Next

LEMMA FlagsStayTyped == TypeOK /\ [Next]_vars => FlagsTyped'
<1> SUFFICES ASSUME TypeOK, [Next]_vars PROVE FlagsTyped'
  OBVIOUS
<1>0. FlagsTyped
  BY TypeParts
<1> USE DEF FlagsTyped, history, inputs
<1>1. ASSUME UNCHANGED <<cancelRequested, cut, strayed, raced>>
      PROVE  FlagsTyped'
  BY <1>0, <1>1
<1>2. ASSUME NEW what \in {"submit", "compact"}, Submit(what)
      PROVE  FlagsTyped'
  BY <1>0, <1>2 DEF Submit
<1>3. CASE InitialStarts
  BY <1>0, <1>3 DEF InitialStarts
<1>4. CASE SubmitCreates \/ InitialCreates \/ CompactCreates \/ CompactRefused
           \/ CompactorEnds \/ CtrlCCancels \/ CtrlCEnds \/ ToolDecided \/ UNCHANGED vars
  BY <1>1, <1>4 DEF SubmitCreates, InitialCreates, CompactCreates, CompactRefused,
       CompactorEnds, CtrlCCancels, CtrlCEnds, ToolDecided, vars
<1>5. CASE CtrlC
  BY <1>0, <1>5 DEF CtrlC
<1>6. ASSUME NEW i \in TaskIds, TaskStep(i)
      PROVE  FlagsTyped'
  <2>1. CASE NeverStarts(i) \/ ToolResult(i) \/ StreamEnds(i) \/ StreamRaises(i)
             \/ Finalizes(i) \/ CompactionEnds(i)
    BY <1>1, <2>1 DEF NeverStarts, ToolResult, StreamEnds, StreamRaises, Finalizes, CompactionEnds
  <2>2. CASE Starts(i)
    BY <1>0, <2>2 DEF Starts
  <2>3. CASE Reconnects(i)
    BY <1>0, <2>3 DEF Reconnects
  <2>4. CASE FinalizeCut(i)
    BY <1>0, <2>4 DEF FinalizeCut
  <2>5. QED
    BY <1>6, <2>1, <2>2, <2>3, <2>4 DEF TaskStep
<1>7. ASSUME NEW i \in TaskIds, NEW approval \in BOOLEAN, ToolRequested(i, approval)
      PROVE  FlagsTyped'
  BY <1>1, <1>7 DEF ToolRequested
<1>8. ASSUME NEW c \in Chats, ResetTranscript(c)
      PROVE  FlagsTyped'
  BY <1>1, <1>8 DEF ResetTranscript
<1>9. QED
  BY <1>2, <1>3, <1>4, <1>5, <1>6, <1>7, <1>8 DEF Next

LEMMA NextTyped == TypeOK /\ [Next]_vars => TypeOK'
BY TypeParts, TasksStayTyped, InputsStayTyped, ScreenStaysTyped, FlagsStayTyped, PTL

\* The state of the front end is well typed in every reachable state.
THEOREM TypeCorrect == Spec => []TypeOK
BY InitTyped, NextTyped, PTL DEF Spec

----------------------------------------------------------------------------
(* One task at a time *)

Idle == \A i \in TaskIds : ~Live(i)

\* A submission past its check of the running task means that there is none; a
\* /compact handler waits for the tracked task.
Tracked ==
    /\ \A i \in TaskIds : Live(i) => tracked = i
    /\ worker # "idle" \/ initial = "mount" => Idle
    /\ worker = "idle" \/ initial # "mount"
    /\ compactor # NoTask => tracked = compactor

\* Only a turn closes, a task at work is a turn or a compaction, and a /compact
\* handler never waits for a turn.
Kinds ==
    /\ \A i \in TaskIds :
        /\ tasks[i].at \in {"closing", "handler"} => tasks[i].kind = "turn"
        /\ tasks[i].at \in {"new", "stream"} => tasks[i].kind # "none"
    /\ compactor # NoTask => tasks[compactor].kind # "turn"

LEMMA Alone ==
  ASSUME TypeOK, Tracked, NEW i \in TaskIds, Live(i)
  PROVE  /\ tracked = i /\ worker = "idle" /\ initial # "mount"
         /\ \A j \in TaskIds \ {i} : ~Live(j)
BY DEF Tracked, Idle

LEMMA KindsMove ==
  ASSUME TypeOK, Kinds, NEW i \in TaskIds, NEW kind, NEW where, Moved(i, kind, where),
         where \in {"closing", "handler"} => kind = "turn",
         where \in {"new", "stream"} => kind # "none",
         compactor' = compactor, compactor = i => kind # "turn"
  PROVE  Kinds'
<1>1. /\ tasks'[i].at = where /\ tasks'[i].kind = kind
      /\ \A j \in TaskIds \ {i} : tasks'[j] = tasks[j]
  BY DEF Moved
<1>2. ASSUME NEW j \in TaskIds
      PROVE  /\ tasks'[j].at \in {"closing", "handler"} => tasks'[j].kind = "turn"
             /\ tasks'[j].at \in {"new", "stream"} => tasks'[j].kind # "none"
  BY <1>1 DEF Kinds
<1>3. compactor # NoTask => tasks'[compactor].kind # "turn"
  BY <1>1, TypeParts DEF Kinds, InputsTyped
<1>4. QED
  BY <1>2, <1>3 DEF Kinds

LEMMA KindsStay ==
  ASSUME TypeOK, Kinds, Stay, compactor' = compactor
  PROVE  Kinds'
<1>1. compactor \in TaskIds \cup {NoTask}
  BY TypeParts DEF InputsTyped
<1>2. QED
  BY <1>1 DEF Kinds, Stay

\* The task that moved goes on being the tracked one.
LEMMA TrackedMoves ==
  ASSUME TypeOK, Tracked, NEW i \in TaskIds, Live(i), NEW kind, NEW where,
         Moved(i, kind, where), UNCHANGED <<tracked, worker, compactor, initial>>
  PROVE  Tracked'
<1>1. \A j \in TaskIds : Live(j)' => tracked = j
  BY Alone DEF Moved, Live
<1>2. worker = "idle" /\ initial # "mount"
  BY Alone
<1>3. QED
  BY <1>1, <1>2 DEF Tracked

\* The end of a turn forgets the task.
LEMMA TrackedEnds ==
  ASSUME TypeOK, Tracked, Kinds, NEW i \in TaskIds, Live(i),
         tasks[i].kind = "turn" \/ compactor # i,
         Moved(i, "none", "done"), tracked' = NoTask, UNCHANGED <<worker, compactor, initial>>
  PROVE  Tracked'
<1>1. \A j \in TaskIds : ~Live(j)'
  BY Alone DEF Moved, Live
<1>2. tracked = i /\ worker = "idle" /\ initial # "mount"
  BY Alone
<1>3. compactor = NoTask
  BY <1>2 DEF Tracked, Kinds
<1>4. QED
  BY <1>1, <1>2, <1>3 DEF Tracked

LEMMA TrackedStays ==
  ASSUME TypeOK, Tracked, Stay, UNCHANGED <<tracked, worker, compactor, initial>>
  PROVE  Tracked'
<1>1. \A j \in TaskIds : Live(j)' <=> Live(j)
  BY DEF Stay, Live
<1>2. QED
  BY <1>1 DEF Tracked, Idle

LEMMA CreationKeeps ==
  ASSUME TypeOK, Tracked, Kinds, worker # "idle" \/ initial = "mount",
         NEW kind \in {"turn", "compact"}, Created(kind),
         worker' = "idle", initial' # "mount",
         \/ compactor = NoTask /\ compactor' = NextTask /\ kind = "compact"
         \/ ~Awaiting /\ compactor' = compactor
  PROVE  Tracked' /\ Kinds'
<1>1. /\ NextTask \in TaskIds /\ tasks[NextTask].at = "unused" /\ tracked' = NextTask
      /\ tasks'[NextTask].at = "new" /\ tasks'[NextTask].kind = kind
      /\ \A j \in TaskIds \ {NextTask} : tasks'[j] = tasks[j]
  BY Creation
<1>2. Idle
  BY DEF Tracked
<1>3. compactor \in TaskIds \cup {NoTask}
  BY TypeParts DEF InputsTyped
<1>4. compactor = NoTask
  BY <1>2, <1>3 DEF Idle, Awaiting
<1>5. compactor' \in {NoTask, NextTask} /\ (compactor' = NextTask => kind = "compact")
  BY <1>1, <1>4 DEF TaskIds, NoTask
<1>6. Tracked'
  BY <1>1, <1>2, <1>5 DEF Tracked, Idle, Live
<1>7. Kinds'
  <2>1. ASSUME NEW j \in TaskIds
        PROVE  /\ tasks'[j].at \in {"closing", "handler"} => tasks'[j].kind = "turn"
               /\ tasks'[j].at \in {"new", "stream"} => tasks'[j].kind # "none"
    BY <1>1 DEF Kinds
  <2>2. compactor' # NoTask => tasks'[compactor'].kind # "turn"
    BY <1>1, <1>5
  <2>3. QED
    BY <2>1, <2>2 DEF Kinds
<1>8. QED
  BY <1>6, <1>7

LEMMA OneTaskKept ==
  ASSUME TypeOK, Tracked, Kinds, ~raced, ~raced', [Next]_vars
  PROVE  Tracked' /\ Kinds'
<1> USE DEF inputs
<1>0. tracked \in TaskIds \cup {NoTask} /\ compactor \in TaskIds \cup {NoTask}
  BY TypeParts DEF InputsTyped
<1>1. ASSUME NEW what \in {"submit", "compact"}, Submit(what)
      PROVE  Tracked' /\ Kinds'
  <2>1. Stay /\ UNCHANGED <<tracked, compactor, initial>>
    BY <1>0, <1>1, Cancelling, Unmoved DEF Submit
  <2>2. worker' \in {"idle", what} /\ (worker' # "idle" => ~Running /\ initial # "mount")
    BY <1>1 DEF Submit
  <2>3. ~Running => Idle
    BY DEF Tracked, Running, Idle, TaskIds, NoTask
  <2>4. \A j \in TaskIds : Live(j)' <=> Live(j)
    BY <2>1 DEF Stay, Live
  <2>5. Tracked'
    BY <2>1, <2>2, <2>3, <2>4 DEF Tracked, Idle
  <2>6. QED
    BY <2>1, <2>5, KindsStay
<1>2. CASE SubmitCreates
  <2>1. /\ worker = "submit" /\ worker' = "idle" /\ initial' = initial /\ compactor' = compactor
        /\ ~Awaiting /\ Created("turn")
    BY <1>2 DEF SubmitCreates
  <2>2. initial # "mount"
    BY <2>1 DEF Tracked
  <2>3. QED
    BY <2>1, <2>2, CreationKeeps
<1>3. CASE InitialCreates
  <2>1. /\ initial = "mount" /\ worker' = worker /\ initial' = "none" /\ compactor' = compactor
        /\ ~Awaiting /\ Created("turn")
    BY <1>3 DEF InitialCreates
  <2>2. worker = "idle"
    BY <2>1 DEF Tracked
  <2>3. QED
    BY <2>1, <2>2, CreationKeeps
<1>4. CASE CompactCreates
  <2>1. /\ worker = "compact" /\ worker' = "idle" /\ initial' = initial
        /\ compactor = NoTask /\ compactor' = NextTask /\ Created("compact")
    BY <1>4 DEF CompactCreates
  <2>2. initial # "mount"
    BY <2>1 DEF Tracked
  <2>3. QED
    BY <2>1, <2>2, CreationKeeps
<1>5. CASE InitialStarts
  <2>1. Stay /\ UNCHANGED <<tracked, compactor, worker>>
    BY <1>5, Unmoved DEF InitialStarts
  <2>2. initial' \in {"none", "mount"} /\ (initial' = "mount" => ~Running /\ worker = "idle")
        /\ initial = "due"
    BY <1>5 DEF InitialStarts
  <2>3. ~Running => Idle
    BY DEF Tracked, Running, Idle, TaskIds, NoTask
  <2>4. \A j \in TaskIds : Live(j)' <=> Live(j)
    BY <2>1 DEF Stay, Live
  <2>5. Tracked'
    BY <2>1, <2>2, <2>3, <2>4 DEF Tracked, Idle
  <2>6. QED
    BY <2>1, <2>5, KindsStay
<1>6. CASE CompactRefused
  <2>1. tasks' = tasks /\ UNCHANGED <<tracked, compactor, initial>> /\ worker' = "idle"
    BY <1>6 DEF CompactRefused
  <2>2. Tracked'
    BY <2>1 DEF Tracked, Idle, Live
  <2>3. QED
    BY <2>1, <2>2, Unmoved, KindsStay
<1>7. CASE CompactorEnds
  <2>1. /\ tasks' = tasks /\ UNCHANGED <<worker, initial>>
        /\ tracked' = NoTask /\ compactor' = NoTask /\ compactor # NoTask /\ ~Live(compactor)
    BY <1>7 DEF CompactorEnds, Awaiting
  <2>2. Idle
    BY <2>1 DEF Tracked, Idle
  <2>3. Idle' /\ \A j \in TaskIds : ~Live(j)'
    BY <2>1, <2>2 DEF Idle, Live
  <2>4. Tracked'
    BY <2>1, <2>3 DEF Tracked
  <2>5. Kinds'
    BY <2>1 DEF Kinds
  <2>6. QED
    BY <2>4, <2>5
<1>8. ASSUME tasks' = tasks \/ Stay, UNCHANGED <<tracked, worker, compactor, initial>>
      PROVE  Tracked' /\ Kinds'
  BY <1>8, Unmoved, TrackedStays, KindsStay
<1>9. CASE ToolDecided \/ CtrlC \/ CtrlCEnds \/ UNCHANGED vars
  BY <1>8, <1>9 DEF ToolDecided, CtrlC, CtrlCEnds, vars
<1>10. CASE CtrlCCancels
  BY <1>0, <1>8, <1>10, Cancelling DEF CtrlCCancels
<1>11. ASSUME NEW i \in TaskIds, TaskStep(i)
       PROVE  Tracked' /\ Kinds'
  <2>1. CASE ToolResult(i) \/ Reconnects(i)
    BY <1>8, <2>1 DEF ToolResult, Reconnects
  <2>2. CASE Starts(i) \/ StreamEnds(i) \/ StreamRaises(i)
    <3>1. PICK where \in {"stream", "closing", "handler"} :
              /\ Moved(i, tasks[i].kind, where)
              /\ where # "stream" => tasks[i].kind = "turn"
      BY <2>2, Starting, Advancing DEF StreamEnds, StreamRaises
    <3>2. Live(i) /\ UNCHANGED <<tracked, worker, compactor, initial>>
      BY <2>2 DEF Starts, StreamEnds, StreamRaises, Live
    <3>3. tasks[i].kind # "none" /\ (compactor = i => tasks[i].kind # "turn")
      <4>1. tasks[i].at \in {"new", "stream", "closing", "handler"}
        BY <2>2 DEF Starts, StreamEnds, StreamRaises
      <4>2. QED
        BY <4>1 DEF Kinds, TaskIds, NoTask
    <3>4. Tracked'
      BY <3>1, <3>2, TrackedMoves
    <3>5. Kinds'
      BY <3>1, <3>2, <3>3, KindsMove
    <3>6. QED
      BY <3>4, <3>5
  <2>3. CASE NeverStarts(i) \/ CompactionEnds(i)
    <3>1. Moved(i, "none", "done") /\ Live(i) /\ UNCHANGED <<tracked, worker, compactor, initial>>
      BY <2>3, Ending DEF NeverStarts, CompactionEnds, Live
    <3>2. QED
      BY <3>1, TrackedMoves, KindsMove
  <2>4. CASE Finalizes(i) \/ FinalizeCut(i)
    <3>1. /\ Moved(i, "none", "done") /\ Live(i) /\ tasks[i].at \in {"closing", "handler"}
          /\ tracked' = NoTask /\ UNCHANGED <<worker, compactor, initial>>
      BY <2>4, Ending DEF Finalizes, FinalizeCut, Live
    <3>2. tasks[i].kind = "turn"
      BY <3>1 DEF Kinds
    <3>3. QED
      BY <3>1, <3>2, TrackedEnds, KindsMove
  <2>5. QED
    BY <1>11, <2>1, <2>2, <2>3, <2>4 DEF TaskStep
<1>12. ASSUME NEW i \in TaskIds, NEW approval \in BOOLEAN, ToolRequested(i, approval)
       PROVE  Tracked' /\ Kinds'
  BY <1>8, <1>12 DEF ToolRequested
<1>13. ASSUME NEW c \in Chats, ResetTranscript(c)
       PROVE  Tracked' /\ Kinds'
  BY <1>8, <1>13 DEF ResetTranscript
<1>14. QED
  BY <1>1, <1>2, <1>3, <1>4, <1>5, <1>6, <1>7, <1>9, <1>10, <1>11, <1>12, <1>13 DEF Next

\* No second task gets past the check of the first.
OneTask == ~raced => Tracked /\ Kinds

LEMMA OneTaskInit == Init => OneTask
BY DEF Init, OneTask, Tracked, Kinds, Idle, Live, Unused

LEMMA RacedStays == [Next]_vars /\ raced => raced'
BY DEF Next, Submit, InitialStarts, SubmitCreates, InitialCreates, CompactCreates, CompactRefused,
   CompactorEnds, TaskStep, NeverStarts, Starts, ToolResult, Reconnects, StreamEnds, StreamRaises,
   Finalizes, FinalizeCut, CompactionEnds, ToolRequested, ToolDecided, CtrlC, CtrlCCancels,
   CtrlCEnds, ResetTranscript, inputs, vars

LEMMA OneTaskNext == TypeOK /\ OneTask /\ [Next]_vars => OneTask'
<1> SUFFICES ASSUME TypeOK, OneTask, [Next]_vars, ~raced' PROVE Tracked' /\ Kinds'
  BY DEF OneTask
<1>1. ~raced
  BY RacedStays
<1>2. QED
  BY <1>1, OneTaskKept DEF OneTask

\* Whatever runs is what Ctrl+C would cancel, except after a submission that
\* raced the command line's message: the checks of _submit and action_cancel.
THEOREM LiveTasksAreTracked == Spec => []LiveTaskIsTracked
<1>1. OneTask => LiveTaskIsTracked
  BY DEF OneTask, Tracked, LiveTaskIsTracked
<1>2. QED
  BY <1>1, InitTyped, NextTyped, OneTaskInit, OneTaskNext, PTL DEF Spec

----------------------------------------------------------------------------
(* The screen *)

Streaming(i) == tasks[i].kind = "turn" /\ tasks[i].at = "stream"
Closing(i) == tasks[i].at \in {"closing", "handler"}

\* A menu or a pending call has a turn that waits for it, a busy composer has a
\* task that will free it, and a tool left open after a failure has a turn that is
\* about to settle it.
ScreenFits ==
    /\ menu \/ call # "none" => \E i \in TaskIds : Streaming(i)
    /\ menu => call = "waiting"
    /\ loading => cut \/ \E i \in TaskIds : tasks[i].at = "stream" \/ Closing(i)
    /\ phase \in {"failed", "cancelled"} /\ tool \in {"approval", "running"}
        => cut \/ \E i \in TaskIds : Closing(i)
    /\ (\E i \in TaskIds : Streaming(i)) => phase = "running"

\* Tasks that neither stream nor close leave the screen as it is.
LEMMA FitsApart ==
  ASSUME ScreenFits, UNCHANGED <<loading, call, tool, menu, phase, cut>>,
         \A j \in TaskIds : \/ tasks'[j].at = tasks[j].at /\ tasks'[j].kind = tasks[j].kind
                            \/ {tasks'[j].at, tasks[j].at} \subseteq {"unused", "new", "done"}
  PROVE  ScreenFits'
<1>1. ASSUME NEW j \in TaskIds
      PROVE  /\ Streaming(j)' <=> Streaming(j)
             /\ Closing(j)' <=> Closing(j)
             /\ tasks'[j].at = "stream" <=> tasks[j].at = "stream"
  BY DEF Streaming, Closing
<1>2. QED
  BY <1>1 DEF ScreenFits

\* What the others do while task i is at work: nothing.
LEMMA FitsAlone ==
  ASSUME TypeOK, Tracked, NEW i \in TaskIds, Live(i), NEW kind, NEW where, Moved(i, kind, where)
  PROVE  \A j \in TaskIds \ {i} : /\ ~Streaming(j) /\ ~Closing(j) /\ tasks[j].at # "stream"
                                  /\ ~Streaming(j)' /\ ~Closing(j)' /\ tasks'[j].at # "stream"
<1> SUFFICES ASSUME NEW j \in TaskIds \ {i}
             PROVE  /\ ~Streaming(j) /\ ~Closing(j) /\ tasks[j].at # "stream"
                    /\ ~Streaming(j)' /\ ~Closing(j)' /\ tasks'[j].at # "stream"
  OBVIOUS
<1>1. tasks[j].at \in {"unused", "done"} /\ tasks'[j] = tasks[j]
  BY Alone DEF Moved, Live
<1>2. QED
  BY <1>1 DEF Streaming, Closing

LEMMA FitsStep ==
  ASSUME TypeOK, Tracked, Kinds, ScreenFits, NEW i \in TaskIds, TaskStep(i)
  PROVE  ScreenFits'
<1> USE DEF history, screen
<1>1. CASE NeverStarts(i)
  <2>1. Moved(i, "none", "done") /\ tasks[i].at = "new"
    BY <1>1, Ending DEF NeverStarts
  <2>2. UNCHANGED <<loading, call, tool, menu, phase, cut>>
    BY <1>1 DEF NeverStarts
  <2>3. QED
    BY <2>1, <2>2, FitsApart DEF Moved
<1>2. CASE Starts(i)
  <2>1. Moved(i, tasks[i].kind, "stream") /\ Live(i) /\ tasks[i].at = "new"
    BY <1>2, Starting DEF Starts, Live
  <2>2. \A j \in TaskIds : ~Streaming(j) /\ ~Closing(j)
    BY <2>1, FitsAlone DEF Streaming, Closing
  <2>3. ~menu /\ call = "none" /\ ~menu' /\ call' = "none" /\ tasks'[i].at = "stream"
    BY <1>2, <2>1, <2>2 DEF ScreenFits, Starts, Moved
  <2>4. CASE tasks[i].kind = "turn"
    <3>1. phase' = "running"
      BY <1>2, <2>4 DEF Starts
    <3>2. QED
      BY <2>3, <3>1 DEF ScreenFits
  <2>5. CASE tasks[i].kind # "turn"
    <3>1. UNCHANGED <<phase, tool, cut>>
      BY <1>2, <2>5 DEF Starts
    <3>2. ~Streaming(i)'
      BY <2>1, <2>5 DEF Streaming, Moved
    <3>3. \A j \in TaskIds : ~Streaming(j)'
      BY <2>1, <3>2, FitsAlone
    <3>4. phase \in {"failed", "cancelled"} /\ tool \in {"approval", "running"} => cut
      BY <2>2 DEF ScreenFits
    <3>5. QED
      BY <2>3, <3>1, <3>3, <3>4 DEF ScreenFits
  <2>6. QED
    BY <2>4, <2>5
<1>3. CASE Reconnects(i)
  <2>1. tasks' = tasks /\ UNCHANGED <<loading, call, tool, menu, phase, cut>>
    BY <1>3 DEF Reconnects
  <2>2. QED
    BY <2>1, FitsApart
<1>4. CASE ToolResult(i)
  <2>1. /\ tasks' = tasks /\ UNCHANGED <<loading, menu, phase, cut>>
        /\ Streaming(i) /\ call = "running"
    BY <1>4 DEF ToolResult, Streaming
  <2>2. phase' = "running" /\ ~menu /\ ~menu'
    BY <2>1 DEF ScreenFits
  <2>3. ASSUME NEW j \in TaskIds
        PROVE  (Streaming(j)' <=> Streaming(j)) /\ (Closing(j)' <=> Closing(j))
    BY <2>1 DEF Streaming, Closing
  <2>4. QED
    BY <2>1, <2>2, <2>3 DEF ScreenFits
<1>5. CASE StreamEnds(i)
  <2>1. Moved(i, tasks[i].kind, "closing") /\ Live(i) /\ call = "none" /\ call' = "none" /\ menu' = menu
    BY <1>5, Advancing DEF StreamEnds, Live
  <2>2. ~menu /\ ~menu'
    BY <2>1 DEF ScreenFits
  <2>3. Closing(i)' /\ \A j \in TaskIds : ~Streaming(j)'
    BY <2>1, FitsAlone DEF Moved, Closing, Streaming
  <2>4. QED
    BY <2>1, <2>2, <2>3 DEF ScreenFits
<1>6. CASE StreamRaises(i)
  <2>1. Moved(i, tasks[i].kind, "handler") /\ Live(i) /\ call' = "none" /\ ~menu'
    BY <1>6, Advancing DEF StreamRaises, Live
  <2>2. Closing(i)' /\ \A j \in TaskIds : ~Streaming(j)'
    BY <2>1, FitsAlone DEF Moved, Closing, Streaming
  <2>3. QED
    BY <2>1, <2>2 DEF ScreenFits
<1>7. CASE Finalizes(i) \/ FinalizeCut(i)
  <2>1. Moved(i, "none", "done") /\ Live(i) /\ ~Streaming(i) /\ UNCHANGED <<menu, call, phase>>
    BY <1>7, Ending DEF Finalizes, FinalizeCut, Live, Streaming
  <2>2. \A j \in TaskIds : ~Streaming(j)
    BY <2>1, FitsAlone
  <2>3. \A j \in TaskIds : ~Streaming(j)'
    BY <2>1, FitsAlone DEF Moved, Streaming
  <2>4. ~menu /\ call = "none"
    BY <2>2 DEF ScreenFits
  <2>5. \/ cut'
        \/ ~loading' /\ (phase' \in {"failed", "cancelled"} => tool' \notin {"approval", "running"})
    BY <1>7, <2>1 DEF Finalizes, FinalizeCut, Settled
  <2>6. QED
    BY <2>1, <2>3, <2>4, <2>5 DEF ScreenFits
<1>8. CASE CompactionEnds(i)
  <2>1. /\ Moved(i, "none", "done") /\ Live(i) /\ ~Streaming(i) /\ ~Closing(i)
        /\ UNCHANGED <<menu, call, phase, tool, cut>> /\ ~loading'
    BY <1>8, Ending DEF CompactionEnds, Live, Streaming, Closing
  <2>2. \A j \in TaskIds : ~Streaming(j) /\ ~Closing(j)
    BY <2>1, FitsAlone
  <2>3. \A j \in TaskIds : ~Streaming(j)'
    BY <2>1, FitsAlone DEF Moved, Streaming
  <2>4. QED
    BY <2>1, <2>2, <2>3 DEF ScreenFits
<1>9. QED
  BY <1>1, <1>2, <1>3, <1>4, <1>5, <1>6, <1>7, <1>8 DEF TaskStep

LEMMA FitsKept ==
  ASSUME TypeOK, Tracked, Kinds, ScreenFits, [Next]_vars
  PROVE  ScreenFits'
<1> USE DEF history, screen
<1>1. ASSUME Stay, UNCHANGED <<loading, call, tool, menu, phase, cut>>
      PROVE  ScreenFits'
  BY <1>1, FitsApart DEF Stay
<1>2. ASSUME NEW what \in {"submit", "compact"}, Submit(what)
      PROVE  ScreenFits'
  <2>1. Stay
    BY <1>2, Cancelling, Unmoved, TypeParts DEF Submit, InputsTyped
  <2>2. QED
    BY <1>1, <1>2, <2>1 DEF Submit
<1>3. CASE SubmitCreates \/ InitialCreates \/ CompactCreates
  <2>1. \A j \in TaskIds : \/ tasks'[j] = tasks[j]
                           \/ tasks[j].at = "unused" /\ tasks'[j].at = "new"
    BY <1>3, Creation DEF SubmitCreates, InitialCreates, CompactCreates
  <2>2. UNCHANGED <<loading, call, tool, menu, phase, cut>>
    BY <1>3 DEF SubmitCreates, InitialCreates, CompactCreates
  <2>3. QED
    BY <2>1, <2>2, FitsApart
<1>4. CASE InitialStarts \/ CompactRefused \/ CompactorEnds \/ CtrlC \/ CtrlCEnds \/ UNCHANGED vars
  BY <1>1, <1>4, Unmoved DEF InitialStarts, CompactRefused, CompactorEnds, CtrlC, CtrlCEnds, vars
<1>5. CASE CtrlCCancels
  <2>1. Stay
    BY <1>5, Cancelling, Unmoved, TypeParts DEF CtrlCCancels, InputsTyped
  <2>2. QED
    BY <1>1, <1>5, <2>1 DEF CtrlCCancels
<1>6. ASSUME tasks' = tasks
      PROVE  \A j \in TaskIds : (Streaming(j)' <=> Streaming(j)) /\ (Closing(j)' <=> Closing(j))
  BY <1>6 DEF Streaming, Closing
<1>7. CASE ToolDecided
  <2>1. tasks' = tasks /\ menu /\ ~menu' /\ UNCHANGED <<loading, phase, cut>>
    BY <1>7 DEF ToolDecided
  <2>2. phase = "running" /\ \E j \in TaskIds : Streaming(j)
    BY <2>1 DEF ScreenFits
  <2>3. QED
    BY <1>6, <2>1, <2>2 DEF ScreenFits
<1>8. ASSUME NEW i \in TaskIds, NEW approval \in BOOLEAN, ToolRequested(i, approval)
      PROVE  ScreenFits'
  <2>1. /\ tasks' = tasks /\ UNCHANGED <<loading, phase, cut>> /\ Streaming(i)
        /\ menu' = approval /\ (approval => call' = "waiting")
    BY <1>8 DEF ToolRequested, Streaming
  <2>2. phase' = "running"
    BY <2>1 DEF ScreenFits
  <2>3. QED
    BY <1>6, <2>1, <2>2 DEF ScreenFits
<1>9. ASSUME NEW c \in Chats, ResetTranscript(c)
      PROVE  ScreenFits'
  <2>1. tasks' = tasks /\ UNCHANGED <<loading, call, phase, cut>> /\ tool' = "none" /\ ~menu'
    BY <1>9 DEF ResetTranscript
  <2>2. QED
    BY <1>6, <2>1 DEF ScreenFits
<1>10. QED
  BY <1>2, <1>3, <1>4, <1>5, <1>7, <1>8, <1>9, FitsStep DEF Next

ScreenInv == ~raced => ScreenFits

LEMMA ScreenInit == Init => ScreenInv
BY DEF Init, ScreenInv, ScreenFits, Streaming, Unused

LEMMA ScreenNext == TypeOK /\ OneTask /\ ScreenInv /\ [Next]_vars => ScreenInv'
<1> SUFFICES ASSUME TypeOK, OneTask, ScreenInv, [Next]_vars, ~raced' PROVE ScreenFits'
  BY DEF ScreenInv
<1>1. ~raced
  BY RacedStays
<1>2. QED
  BY <1>1, FitsKept DEF OneTask, ScreenInv

LEMMA ScreenIdles == ScreenInv => IdleScreenIsSettled
<1> SUFFICES ASSUME ScreenInv, ~raced, ~cut, \A i \in TaskIds : ~Live(i)
             PROVE  /\ ~loading /\ ~menu
                    /\ phase \in {"failed", "cancelled"} => tool \notin {"approval", "running"}
  BY DEF IdleScreenIsSettled
<1>1. \A i \in TaskIds : tasks[i].at \in {"unused", "done"}
  BY DEF Live
<1>2. \A i \in TaskIds : ~Streaming(i) /\ ~Closing(i) /\ tasks[i].at # "stream"
  BY <1>1 DEF Streaming, Closing
<1>3. QED
  BY <1>2 DEF ScreenInv, ScreenFits

----------------------------------------------------------------------------
(* Side questions *)

\* Adding a question to the history shows it, and hides at most others.
LEMMA AddingShows ==
  ASSUME NEW q \in Questions, entries \in Seq(Questions)
  PROVE  /\ Added(q) \in Seq(Questions)
         /\ q \in ToSet(Added(q)) /\ ToSet(Added(q)) \subseteq Shown \cup {q}
<1> DEFINE all == Append(entries, q)
<1>1. /\ all \in Seq(Questions) /\ Len(all) = Len(entries) + 1 /\ all[Len(all)] = q
      /\ \A k \in 1..Len(entries) : all[k] = entries[k]
  OBVIOUS
<1>2. \A k \in 1..Len(all) : all[k] \in Shown \cup {q}
  <2> SUFFICES ASSUME NEW k \in 1..Len(all) PROVE all[k] \in Shown \cup {q}
    OBVIOUS
  <2>1. CASE k = Len(all)
    BY <1>1, <2>1
  <2>2. CASE k # Len(all)
    <3>1. k \in 1..Len(entries) /\ Len(entries) \in Nat
      BY <1>1, <2>2
    <3>2. k \in DOMAIN entries /\ all[k] = entries[k]
      BY <1>1, <3>1
    <3>3. QED
      BY <3>2 DEF Shown, ToSet
  <2>3. QED
    BY <2>1, <2>2
<1>3. Added(q) = IF Len(all) > MaxShown THEN Tail(all) ELSE all
  BY DEF Added
<1> HIDE DEF all
<1>4. CASE Len(all) > MaxShown
  <2>1. all # <<>> /\ Len(all) \in Nat /\ Len(all) >= 2
    BY <1>1, <1>4
  <2>2. /\ Tail(all) \in Seq(Questions) /\ Len(Tail(all)) = Len(all) - 1
        /\ \A k \in 1..(Len(all) - 1) : Tail(all)[k] = all[k + 1]
    BY <1>1, <2>1
  <2>3. DOMAIN Tail(all) = 1..(Len(all) - 1)
    BY <2>2
  <2>4. ASSUME NEW k \in DOMAIN Tail(all)
        PROVE  Tail(all)[k] \in Shown \cup {q}
    <3>1. k + 1 \in 1..Len(all) /\ Tail(all)[k] = all[k + 1]
      BY <2>1, <2>2, <2>3
    <3>2. QED
      BY <1>2, <3>1
  <2>5. Len(all) - 1 \in DOMAIN Tail(all) /\ Tail(all)[Len(all) - 1] = q
    BY <1>1, <2>1, <2>2, <2>3
  <2>6. QED
    BY <1>3, <1>4, <2>2, <2>4, <2>5 DEF ToSet
<1>5. CASE ~(Len(all) > MaxShown)
  <2>1. DOMAIN all = 1..Len(all) /\ Len(all) \in DOMAIN all
    BY <1>1
  <2>2. QED
    BY <1>1, <1>2, <1>3, <1>5, <2>1 DEF ToSet
<1>6. QED
  BY <1>4, <1>5

\* Ids are drawn once; whatever has a place runs, shown or being cancelled.
BtwInv ==
    /\ asked \in Nat /\ entries \in Seq(Questions)
    /\ step \in [Questions -> {"none", "history", "stream", "cancelled", "over"}]
    /\ slots \subseteq Questions /\ \A q \in slots : q <= asked
    /\ \A q \in slots : step[q] \in {"history", "stream", "cancelled"}
    /\ SlotsBelongToShown

LEMMA AskKeeps ==
  ASSUME BtwInv, Ask
  PROVE  BtwInv'
<1> DEFINE q == asked + 1
           hidden == Trimmed(ToSet(Added(q)))
           before == CancelledTasks(hidden)
<1>1. /\ q \in Questions /\ asked' = q /\ entries' = Added(q) /\ slots' = slots \cup {q}
      /\ step' = [before EXCEPT ![q] = "history"]
  BY DEF Ask
<1>2. /\ Added(q) \in Seq(Questions)
      /\ q \in ToSet(Added(q)) /\ ToSet(Added(q)) \subseteq Shown \cup {q}
  BY <1>1, AddingShows DEF BtwInv
<1>3. hidden = {p \in slots : p \notin ToSet(Added(q))}
  BY DEF Trimmed
<1>4. \A p \in Questions : before[p] = IF p \in hidden THEN "cancelled" ELSE step[p]
  BY DEF CancelledTasks
<1>5. before \in [Questions -> {"none", "history", "stream", "cancelled", "over"}]
  BY DEF CancelledTasks, BtwInv
<1> HIDE DEF before, hidden
<1>6. /\ step' \in [Questions -> {"none", "history", "stream", "cancelled", "over"}]
      /\ step'[q] = "history" /\ \A p \in Questions \ {q} : step'[p] = before[p]
  BY <1>1, <1>5
<1>7. asked \in Nat /\ q \in Nat /\ asked < q
  BY DEF BtwInv
<1> HIDE DEF q
<1>8. ASSUME NEW p \in slots'
      PROVE  /\ p \in Questions /\ p <= asked'
             /\ step'[p] \in {"history", "stream", "cancelled"}
             /\ p \in Shown' \/ step'[p] = "cancelled"
  <2>1. CASE p = q
    BY <1>1, <1>2, <1>6, <1>7, <2>1 DEF Shown
  <2>2. CASE p # q
    <3>1. p \in slots /\ p \in Questions /\ p <= asked /\ p \in Nat
      BY <1>1, <2>2 DEF BtwInv, Questions
    <3>2. step[p] \in {"history", "stream", "cancelled"} /\ step'[p] = before[p]
      BY <1>6, <2>2, <3>1 DEF BtwInv
    <3>3. CASE p \in hidden
      BY <1>1, <1>4, <1>7, <3>1, <3>2, <3>3
    <3>4. CASE p \notin hidden
      BY <1>1, <1>3, <1>4, <1>7, <3>1, <3>2, <3>4 DEF Shown
    <3>5. QED
      BY <3>3, <3>4
  <2>3. QED
    BY <2>1, <2>2
<1>9. QED
  BY <1>1, <1>2, <1>6, <1>7, <1>8 DEF BtwInv, SlotsBelongToShown

LEMMA BtwNextKeeps ==
  ASSUME BtwInv, [BtwNext]_btwVars
  PROVE  BtwInv'
<1>1. ASSUME NEW q \in Questions, step[q] \in {"history", "stream"},
             step' = [step EXCEPT ![q] = "stream"] \/ step' = step, UNCHANGED <<asked, entries, slots>>
      PROVE  BtwInv'
  BY <1>1 DEF BtwInv, SlotsBelongToShown, Shown
<1>2. ASSUME NEW q \in Questions, step' = [step EXCEPT ![q] = "over"], slots' = slots \ {q},
             UNCHANGED <<asked, entries>>
      PROVE  BtwInv'
  BY <1>2 DEF BtwInv, SlotsBelongToShown, Shown
<1>3. ASSUME NEW q \in Questions, ReadHistory(q) \/ Deny(q) \/ \E last \in BOOLEAN : Text(q, last)
      PROVE  BtwInv'
  BY <1>1, <1>3 DEF ReadHistory, Deny, Text
<1>4. ASSUME NEW q \in Questions,
             CancelEnds(q) \/ \E why \in {"final", "timeout", "protocol", "network"} : Ends(q, why)
      PROVE  BtwInv'
  BY <1>2, <1>4 DEF CancelEnds, Ends, Resolved
<1>5. CASE ClearQuestions
  <2>1. asked' = asked /\ entries' = <<>> /\ slots' = {} /\ step' = CancelledTasks(slots)
    BY <1>5 DEF ClearQuestions
  <2>2. step' \in [Questions -> {"none", "history", "stream", "cancelled", "over"}]
    BY <2>1 DEF CancelledTasks, BtwInv
  <2>3. QED
    BY <2>1, <2>2 DEF BtwInv, SlotsBelongToShown
<1>6. CASE UNCHANGED btwVars
  BY <1>6 DEF BtwInv, SlotsBelongToShown, Shown, btwVars
<1>7. QED
  BY <1>3, <1>4, <1>5, <1>6, AskKeeps DEF BtwNext

LEMMA BtwStarts == BtwInit => BtwInv
BY DEF BtwInit, BtwInv, SlotsBelongToShown

\* No side question that fell out of the history keeps one of the few places of
\* _btw_tasks, whatever the two limits are: the trim of /btw cancels it.
THEOREM PlacesAreVisible == BtwSpec => []SlotsBelongToShown
<1>1. BtwInv => SlotsBelongToShown
  BY DEF BtwInv
<1>2. QED
  BY <1>1, BtwStarts, BtwNextKeeps, PTL DEF BtwSpec

\* With nothing running, nothing on the screen waits: the composer is free, no
\* menu is up, a failed or cancelled turn shows no running tool, and every place
\* a side question takes belongs to one in sight (_finalize_turn, _run_turn,
\* request_approval, _cancel_trimmed_btw_tasks).
THEOREM IdleMeansSettled == MCSpec => []ScreenIsSettled
<1>1. MCInit => TypeOK /\ OneTask /\ ScreenInv /\ BtwInv
  BY InitTyped, OneTaskInit, ScreenInit, BtwStarts DEF MCInit
<1>2. [MCNext]_<<part, vars, btwVars>> => [Next]_vars /\ [BtwNext]_btwVars
  BY DEF MCNext
<1>3. TypeOK /\ OneTask /\ ScreenInv /\ BtwInv /\ [MCNext]_<<part, vars, btwVars>>
      => (TypeOK /\ OneTask /\ ScreenInv /\ BtwInv)'
  BY <1>2, NextTyped, OneTaskNext, ScreenNext, BtwNextKeeps
<1>4. ScreenInv /\ BtwInv => ScreenIsSettled
  BY ScreenIdles DEF ScreenIsSettled, BtwInv
<1>5. QED
  BY <1>1, <1>3, <1>4, PTL DEF MCSpec

=============================================================================
