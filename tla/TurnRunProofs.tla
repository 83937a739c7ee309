--------------------------- MODULE TurnRunProofs ---------------------------
(***************************************************************************)
(* Theorems about TurnRun for every set of tool calls and shells and every *)
(* value of the budgets.                                                   *)
(***************************************************************************)
EXTENDS TurnRun, FiniteSetTheorems, TLAPS

USE BudgetAssumption, MaxToolEventsAssumption

----------------------------------------------------------------------------
(* The journal's operators keep its type *)

LEMMA NewestType ==
  ASSUME NEW evs \in Seq(ToolEvent)
  PROVE  Newest(evs) \in Seq(ToolEvent)
BY DEF Newest

LEMMA RequestType ==
  ASSUME NEW evs \in Seq(ToolEvent), NEW t \in Tools
  PROVE  RecordToolRequest(evs, t) \in Seq(ToolEvent)
<1>1. [id |-> t, status |-> "pending"] \in ToolEvent
  BY DEF ToolEvent, EventStatuses
<1>2. Append(evs, [id |-> t, status |-> "pending"]) \in Seq(ToolEvent)
  BY <1>1
<1>3. QED
  BY <1>2, NewestType DEF RecordToolRequest

LEMMA PointwiseType ==
  ASSUME NEW evs \in Seq(ToolEvent), NEW f,
         f = [i \in DOMAIN evs |-> f[i]],
         \A i \in DOMAIN evs : f[i] \in ToolEvent
  PROVE  f \in Seq(ToolEvent)
<1>1. PICK n \in Nat : evs \in [1..n -> ToolEvent]
  OBVIOUS
<1>2. f \in [1..n -> ToolEvent]
  BY <1>1
<1>3. QED
  BY <1>2

LEMMA ResultType ==
  ASSUME NEW evs \in Seq(ToolEvent), NEW t \in Tools, NEW result \in Outcomes
  PROVE  RecordToolResult(evs, t, result) \in Seq(ToolEvent)
<1> DEFINE listed == RecordToolRequest(evs, t)
<1>1. listed \in Seq(ToolEvent)
  BY RequestType
<1> HIDE DEF listed
<1> DEFINE f == [i \in DOMAIN listed |->
                   IF listed[i].id = t THEN [listed[i] EXCEPT !.status = result]
                                       ELSE listed[i]]
<1>2. ASSUME NEW i \in DOMAIN listed
      PROVE  f[i] \in ToolEvent
  <2>1. listed[i] \in ToolEvent
    BY <1>1
  <2>2. [listed[i] EXCEPT !.status = result] \in ToolEvent
    BY <2>1 DEF ToolEvent, EventStatuses, Outcomes
  <2>3. QED
    BY <2>1, <2>2
<1>3. f \in Seq(ToolEvent)
  BY <1>1, <1>2, PointwiseType
<1>4. QED
  BY <1>3 DEF RecordToolResult, listed

LEMMA SettleType ==
  ASSUME NEW evs \in Seq(ToolEvent)
  PROVE  SettlePending(evs) \in Seq(ToolEvent)
<1>1. ASSUME NEW i \in DOMAIN evs
      PROVE  SettlePending(evs)[i] \in ToolEvent
  <2>1. evs[i] \in ToolEvent
    OBVIOUS
  <2>2. [evs[i] EXCEPT !.status = "interrupted"] \in ToolEvent
    BY <2>1 DEF ToolEvent, EventStatuses, Outcomes
  <2>3. QED
    BY <2>1, <2>2 DEF SettlePending
<1>2. SettlePending(evs) = [i \in DOMAIN evs |-> SettlePending(evs)[i]]
  BY DEF SettlePending
<1>3. QED
  BY <1>1, <1>2, PointwiseType

----------------------------------------------------------------------------
(* Type correctness *)

LEMMA StartType ==
  ASSUME journal \in Journal, NEW resuming \in BOOLEAN, StartAttempt(resuming)
  PROVE  /\ journal' \in Journal /\ disk' \in Journal
         /\ observed' \in BOOLEAN /\ pc' = "streaming"
<1>1. BeginResume(journal) \in Journal
  <2>1. journal.attempt \in Nat /\ journal.attempt + 1 \in Nat
    BY DEF Journal
  <2>2. QED
    BY <2>1, Zenon DEF BeginResume, Journal
<1>2. [journal EXCEPT !.status = "running"] \in Journal
  BY DEF Journal
<1>3. QED
  BY <1>1, <1>2 DEF StartAttempt

LEMMA SettledJournalType ==
  ASSUME NEW j \in Journal, NEW s \in {"none", "running", "unfinished"}
  PROVE  /\ [j EXCEPT !.events = SettlePending(@)] \in Journal
         /\ [j EXCEPT !.events = SettlePending(@), !.status = s] \in Journal
<1>1. SettlePending(j.events) \in Seq(ToolEvent)
  BY SettleType DEF Journal
<1>2. QED
  BY <1>1 DEF Journal

LEMMA NoJournalType == NoJournal \in Journal /\ NewJournal \in Journal
BY DEF NoJournal, NewJournal, Journal

LEMMA AttemptCostType ==
  ASSUME NEW kind, NEW cost \in AttemptCost(kind)
  PROVE  cost \in Nat
BY DEF AttemptCost

LEMMA KillAllType ==
  ASSUME jobs \in [Jobs -> JobStates]
  PROVE  KillAll(jobs) \in [Jobs -> JobStates]
BY DEF KillAll, JobStates

\* The state is well typed in every reachable state of the node's run.
THEOREM TypeCorrect == Spec => []TypeOK
<1>1. Init => TypeOK
  <2> SUFFICES ASSUME Init PROVE TypeOK
    OBVIOUS
  <2>1. LoadedJournals \subseteq Journal
    <3>1. LoadedEvents \subseteq Seq(ToolEvent)
      BY DEF LoadedEvents
    <3>2. QED
      BY <3>1 DEF LoadedJournals, Journal
  <2>2. StaleJournal \in Journal
    BY NoJournalType DEF StaleJournal, Journal
  <2>3. journal \in Journal /\ disk \in Journal
    BY <2>1, <2>2, NoJournalType DEF Init
  <2>4. seen \in [Tools -> Outcomes \cup {"none"}]
    <3>1. ASSUME NEW t \in Tools
          PROVE  SeenIn(journal)[t] \in Outcomes \cup {"none"}
      BY DEF SeenIn
    <3>2. QED
      BY <3>1 DEF Init, SeenIn
  <2>5. QED
    BY <2>3, <2>4 DEF Init, TypeOK, PCs, Awaits, Endings, JobStates
<1>2. TypeOK /\ [Next]_vars => TypeOK'
  <2> SUFFICES ASSUME TypeOK, [Next]_vars PROVE TypeOK'
    OBVIOUS
  <2> USE DEF TypeOK, PCs, Awaits, Endings
  <2>1. CASE BeginTurn
    BY <2>1, StartType DEF BeginTurn, budgets
  <2>2. CASE OtherFrame
    BY <2>2 DEF OtherFrame, budgets
  <2>3. CASE Progress
    BY <2>3 DEF Progress
  <2>4. ASSUME NEW t \in Tools, ToolRequest(t)
        PROVE  TypeOK'
    <3>1. journal' \in Journal
      BY <2>4, RequestType DEF ToolRequest, Journal
    <3>2. QED
      BY <2>4, <3>1 DEF ToolRequest
  <2>5. ASSUME NEW t \in Tools, NEW result \in Outcomes, ToolResult(t, result)
        PROVE  TypeOK'
    <3>1. journal' \in Journal
      BY <2>5, ResultType DEF ToolResult, Journal
    <3>2. QED
      BY <2>5, <3>1 DEF ToolResult
  <2>6. CASE AttemptSucceeds
    BY <2>6 DEF AttemptSucceeds, budgets
  <2>7. ASSUME NEW kind \in Failures, FailCancelled(kind)
        PROVE  TypeOK'
    BY <2>7, SettledJournalType DEF FailCancelled, SettleFailed, budgets
  <2>8. ASSUME NEW kind \in Failures, FailAndResume(kind)
        PROVE  TypeOK'
    <3>1. PICK cost \in AttemptCost(kind), delay \in Backoff, windowOver \in BOOLEAN :
            FailAndResume(kind)!(cost, delay, windowOver)
      BY <2>8 DEF FailAndResume
    <3> DEFINE spent == recovery + cost
               plan  == Plan(kind, spent, windowOver)
    <3>2. spent \in Nat /\ spent + delay \in Nat
      BY AttemptCostType
    <3> HIDE DEF spent, plan
    <3>3. SettleFailed(kind) /\ pc' = "sleeping" /\ reason' = "resume"
      BY <3>1
    <3>4. journal' \in Journal /\ pending' = {} /\ observed' \in BOOLEAN
      BY <3>3, SettledJournalType DEF SettleFailed
    <3>5. recovery' \in Nat
      BY <3>1, <3>2 DEF spent, plan
    <3>6. errorResumes' \in Nat /\ totalResumes' \in Nat /\ busyResumes' \in Nat
      BY <3>1
    <3>7. fresh' \in BOOLEAN /\ manual' = manual /\ outcome' = outcome
      BY <3>1
    <3>8. QED
      BY <3>3, <3>4, <3>5, <3>6, <3>7 DEF SettleFailed
  <2>9. ASSUME NEW kind \in Failures, FailAndStop(kind)
        PROVE  TypeOK'
    <3>1. PICK cost \in AttemptCost(kind), windowOver \in BOOLEAN :
            FailAndStop(kind)!(cost, windowOver)
      BY <2>9 DEF FailAndStop
    <3>2. recovery + cost \in Nat
      BY AttemptCostType
    <3>3. SettleFailed(kind) /\ pc' = "closing" /\ outcome' = "failed"
      BY <3>1
    <3>4. journal' \in Journal /\ pending' = {} /\ observed' \in BOOLEAN
      BY <3>3, SettledJournalType DEF SettleFailed
    <3>5. recovery' \in Nat /\ manual' \in BOOLEAN
      BY <3>1, <3>2
    <3>6. QED
      BY <3>1, <3>3, <3>4, <3>5 DEF SettleFailed
  <2>10. CASE Wake
    BY <2>10 DEF Wake, budgets
  <2>11. CASE Reconnect
    BY <2>11, StartType DEF Reconnect, budgets
  <2>12. CASE StopProbing
    BY <2>12 DEF StopProbing, budgets
  <2>13. CASE GiveUpOffline
    BY <2>13 DEF GiveUpOffline, budgets
  <2>14. CASE FinishCompleted
    BY <2>14, NoJournalType DEF FinishCompleted, budgets
  <2>15. CASE AwaitShells
    BY <2>15 DEF AwaitShells, budgets
  <2>16. CASE DeliverOutput
    <3>1. jobs' \in [Jobs -> JobStates]
      BY <2>16 DEF DeliverOutput, JobStates
    <3>2. QED
      BY <2>16, <3>1, StartType DEF DeliverOutput, budgets
  <2>17. CASE StopAfterShells
    BY <2>17, KillAllType DEF StopAfterShells, budgets
  <2>18. CASE CloseUnfinished
    BY <2>18, KillAllType, SettledJournalType, NoJournalType
       DEF CloseUnfinished, KeptJournal, budgets
  <2>19. CASE RequestCancel
    BY <2>19 DEF RequestCancel, budgets
  <2>20. CASE CancelAllShells
    BY <2>20 DEF CancelAllShells, budgets, JobStates
  <2>21. CASE Interrupt
    BY <2>21, KillAllType, SettledJournalType DEF Interrupt, budgets
  <2>22. CASE InterruptClosing
    BY <2>22 DEF InterruptClosing, budgets, JobStates
  <2>23. ASSUME NEW j \in Jobs, JobStarts(j)
         PROVE  TypeOK'
    BY <2>23 DEF JobStarts, budgets, JobStates
  <2>24. ASSUME NEW j \in Jobs, NEW how \in {"exited", "killed"}, JobExits(j, how)
         PROVE  TypeOK'
    BY <2>24 DEF JobExits, budgets, JobStates
  <2>25. CASE UNCHANGED vars
    BY <2>25 DEF vars, budgets
  <2>26. QED
    BY <2>1, <2>2, <2>3, <2>4, <2>5, <2>6, <2>7, <2>8, <2>9, <2>10, <2>11, <2>12, <2>13,
       <2>14, <2>15, <2>16, <2>17, <2>18, <2>19, <2>20, <2>21, <2>22, <2>23, <2>24, <2>25
       DEF Next, AttemptEnds, ProbeEnds, AfterFinal, Ended
<1>3. QED
  BY <1>1, <1>2, PTL DEF Spec

----------------------------------------------------------------------------
(* The budgets *)

\* What one failed attempt may charge, given that its plan is not "none".
LEMMA PlanWithinBudgets ==
  ASSUME TypeOK, NEW kind, NEW spent \in Nat, NEW windowOver \in BOOLEAN,
         Plan(kind, spent, windowOver) # "none"
  PROVE  /\ totalResumes < MaxTotal
         /\ Plan(kind, spent, windowOver) = "busy" => busyResumes < BusyMax
         /\ Plan(kind, spent, windowOver) \in {"error", "fresh"} => errorResumes < MaxAuto
BY DEF TypeOK, Plan, StartFresh, CanResumeAgain, PlanResume, PlanBusyResume

\* However the failures of a turn follow each other, the automatic resumes stay
\* within MAX_TOTAL_RESUMES, those after errors within MAX_AUTO_RESUMES and a busy
\* streak within PROVIDER_BUSY_MAX_RESUMES.
THEOREM BudgetsHold == Spec => []WithinBudgets
<1>1. Init => WithinBudgets
  BY DEF Init, WithinBudgets
<1>2. TypeOK /\ WithinBudgets /\ [Next]_vars => WithinBudgets'
  <2> SUFFICES ASSUME TypeOK, WithinBudgets, [Next]_vars PROVE WithinBudgets'
    OBVIOUS
  <2>1. CASE UNCHANGED budgets
    BY <2>1 DEF WithinBudgets, budgets
  <2>2. CASE UNCHANGED <<errorResumes, totalResumes, recovery>> /\ busyResumes' = 0
    BY <2>2 DEF WithinBudgets, TypeOK
  <2>3. ASSUME NEW kind \in Failures, FailAndResume(kind)
        PROVE  WithinBudgets'
    <3>1. PICK cost \in AttemptCost(kind), delay \in Backoff, windowOver \in BOOLEAN :
            FailAndResume(kind)!(cost, delay, windowOver)
      BY <2>3 DEF FailAndResume
    <3> DEFINE plan == Plan(kind, recovery + cost, windowOver)
    <3>2. recovery + cost \in Nat
      BY AttemptCostType DEF TypeOK
    <3>3. /\ totalResumes < MaxTotal
          /\ plan = "busy" => busyResumes < BusyMax
          /\ plan \in {"error", "fresh"} => errorResumes < MaxAuto
      BY <3>1, <3>2, PlanWithinBudgets
    <3>4. /\ totalResumes' = totalResumes + 1
          /\ busyResumes' = IF plan = "busy" THEN busyResumes + 1 ELSE busyResumes
          /\ errorResumes' = IF plan \in {"error", "fresh"} THEN errorResumes + 1
                                                            ELSE errorResumes
      BY <3>1
    <3> HIDE DEF plan
    <3>5. QED
      BY <3>3, <3>4 DEF WithinBudgets, TypeOK
  <2>4. ASSUME NEW kind \in Failures, FailAndStop(kind)
        PROVE  WithinBudgets'
    BY <2>4 DEF FailAndStop, WithinBudgets
  <2>5. CASE Progress
    BY <2>2, <2>5 DEF Progress
  <2>6. ASSUME NEW t \in Tools, ToolRequest(t)
        PROVE  WithinBudgets'
    BY <2>2, <2>6 DEF ToolRequest
  <2>7. ASSUME NEW t \in Tools, NEW result \in Outcomes, ToolResult(t, result)
        PROVE  WithinBudgets'
    BY <2>2, <2>7 DEF ToolResult
  <2>8. CASE \/ BeginTurn \/ OtherFrame \/ AttemptSucceeds \/ Wake \/ ProbeEnds
             \/ AfterFinal \/ CloseUnfinished
    BY <2>1, <2>8 DEF BeginTurn, OtherFrame, AttemptSucceeds, Wake, ProbeEnds, Reconnect,
       StopProbing, GiveUpOffline, AfterFinal, FinishCompleted, AwaitShells,
       DeliverOutput, StopAfterShells, CloseUnfinished
  <2>9. CASE \/ RequestCancel \/ CancelAllShells \/ Interrupt \/ InterruptClosing
             \/ \E j \in Jobs : JobStarts(j) \/ \E how \in {"exited", "killed"} : JobExits(j, how)
             \/ \E kind \in Failures : FailCancelled(kind)
    BY <2>1, <2>9 DEF RequestCancel, CancelAllShells, Interrupt, InterruptClosing,
       JobStarts, JobExits, FailCancelled
  <2>10. CASE UNCHANGED vars
    BY <2>1, <2>10 DEF vars
  <2>11. QED
    BY <2>3, <2>4, <2>5, <2>6, <2>7, <2>8, <2>9, <2>10 DEF Next, AttemptEnds, Ended
<1>3. QED
  BY <1>1, <1>2, TypeCorrect, PTL DEF Spec

----------------------------------------------------------------------------
(* The journal on disk: TurnRun implements LogicalTurn *)

\* The inductive strengthening: from the first attempt on, memory and disk hold
\* this turn's journal marked running, and an outcome is set only at the end.
JournalOwned ==
  /\ journal.mine
  /\ pc \notin {"prep", "ended"} =>
       /\ journal.status = "running"
       /\ disk.status = "running" /\ disk.mine
  /\ pc \notin {"closing", "ended"} => outcome = "none"
  /\ pc = "closing" => outcome \in {"cancelled", "failed"}

LEMMA StartOwned ==
  ASSUME journal \in Journal, journal.mine, NEW resuming \in BOOLEAN, StartAttempt(resuming)
  PROVE  /\ journal'.mine /\ journal'.status = "running"
         /\ disk' = journal' /\ pc' = "streaming"
BY DEF StartAttempt, BeginResume, Journal

LEMMA EventsOnly ==
  ASSUME NEW j \in Journal, NEW evs, NEW s
  PROVE  /\ [j EXCEPT !.events = evs].mine = j.mine
         /\ [j EXCEPT !.events = evs].status = j.status
         /\ [j EXCEPT !.events = evs, !.status = s].mine = j.mine
         /\ [j EXCEPT !.events = evs, !.status = s].status = s
BY DEF Journal

LEMMA OwnedInvariant == Spec => []JournalOwned
<1>1. Init => JournalOwned
  <2>1. journal \in LoadedJournals => journal.mine
    BY Zenon DEF LoadedJournals
  <2>2. NewJournal.mine
    BY DEF NewJournal
  <2>3. QED
    BY <2>1, <2>2 DEF Init, JournalOwned
<1>2. TypeOK /\ JournalOwned /\ [Next]_vars => JournalOwned'
  <2> SUFFICES ASSUME TypeOK, JournalOwned, [Next]_vars PROVE JournalOwned'
    OBVIOUS
  <2> USE DEF JournalOwned
  <2>0. journal \in Journal /\ disk \in Journal
    BY DEF TypeOK
  <2>1. CASE BeginTurn
    BY <2>0, <2>1, StartOwned DEF BeginTurn
  <2>2. CASE OtherFrame \/ Progress \/ AttemptSucceeds \/ Wake
    BY <2>2 DEF OtherFrame, Progress, AttemptSucceeds, Wake
  <2>3. ASSUME NEW t \in Tools, ToolRequest(t)
        PROVE  JournalOwned'
    BY <2>0, <2>3, EventsOnly DEF ToolRequest
  <2>4. ASSUME NEW t \in Tools, NEW result \in Outcomes, ToolResult(t, result)
        PROVE  JournalOwned'
    BY <2>0, <2>4, EventsOnly DEF ToolResult
  <2>5. ASSUME NEW kind \in Failures,
               FailCancelled(kind) \/ FailAndResume(kind) \/ FailAndStop(kind)
        PROVE  JournalOwned'
    <3>1. SettleFailed(kind) /\ pc' \in {"sleeping", "closing"}
          /\ (pc' = "sleeping" => outcome' = outcome)
          /\ (pc' = "closing" => outcome' \in {"cancelled", "failed"})
      BY <2>5 DEF FailCancelled, FailAndResume, FailAndStop
    <3>2. pc = "streaming" /\ disk' = disk
          /\ journal' = [journal EXCEPT !.events = SettlePending(journal.events)]
      BY <3>1 DEF SettleFailed
    <3> DEFINE settled == SettlePending(journal.events)
    <3> HIDE DEF settled
    <3>3. /\ [journal EXCEPT !.events = settled].mine = journal.mine
          /\ [journal EXCEPT !.events = settled].status = journal.status
      BY <2>0, EventsOnly
    <3>4. journal' = [journal EXCEPT !.events = settled]
      BY <3>2 DEF settled
    <3>5. journal'.mine = journal.mine /\ journal'.status = journal.status
      BY <3>3, <3>4
    <3>6. QED
      BY <3>1, <3>2, <3>5
  <2>6. CASE Reconnect
    BY <2>0, <2>6, StartOwned DEF Reconnect
  <2>7. CASE DeliverOutput
    BY <2>0, <2>7, StartOwned DEF DeliverOutput, ShellsFinished
  <2>8. CASE StopProbing \/ GiveUpOffline \/ FinishCompleted \/ AwaitShells \/ StopAfterShells
    BY <2>8 DEF StopProbing, GiveUpOffline, FinishCompleted, AwaitShells, StopAfterShells,
       ShellsFinished
  <2>9. CASE CloseUnfinished \/ Interrupt
    <3> DEFINE settled == SettlePending(journal.events)
    <3>1. /\ journal' = [journal EXCEPT !.events = settled, !.status = "unfinished"]
          /\ pc' = "ended"
      BY <2>9 DEF CloseUnfinished, Interrupt
    <3> HIDE DEF settled
    <3>2. [journal EXCEPT !.events = settled, !.status = "unfinished"].mine = journal.mine
      BY <2>0 DEF Journal
    <3>3. journal'.mine
      BY <3>1, <3>2
    <3>4. QED
      BY <3>1, <3>3
  <2>10. CASE RequestCancel \/ CancelAllShells \/ InterruptClosing
    BY <2>10 DEF RequestCancel, CancelAllShells, InterruptClosing
  <2>11. CASE \E j \in Jobs : JobStarts(j) \/ \E how \in {"exited", "killed"} : JobExits(j, how)
    BY <2>11 DEF JobStarts, JobExits
  <2>12. CASE UNCHANGED vars
    BY <2>12 DEF vars
  <2>13. QED
    BY <2>1, <2>2, <2>3, <2>4, <2>5, <2>6, <2>7, <2>8, <2>9, <2>10, <2>11, <2>12
       DEF Next, AttemptEnds, ProbeEnds, AfterFinal, Ended
<1>3. QED
  BY <1>1, <1>2, TypeCorrect, PTL DEF Spec

\* Every step of the node maps to a step of the promise or to a stutter: no kind
\* of failure, cancel or interrupt leaves another journal on disk than LogicalTurn
\* allows.
THEOREM KeepsPromise == Spec => ImplementsLogicalTurn
<1>1. Init => Promise!Init
  <2> SUFFICES ASSUME Init PROVE Promise!Init
    OBVIOUS
  <2>1. ASSUME NEW j \in LoadedJournals
        PROVE  j.mine /\ j.status \in {"running", "unfinished"}
    BY Zenon DEF LoadedJournals
  <2>2. disk \in {NoJournal, StaleJournal} \/ disk \in LoadedJournals
    BY DEF Init
  <2>3. DiskPhase \in Promise!Disks
    <3>1. CASE disk \in {NoJournal, StaleJournal}
      BY <3>1 DEF DiskPhase, NoJournal, StaleJournal, Promise!Disks
    <3>2. CASE disk \in LoadedJournals
      BY <2>1, <3>2 DEF DiskPhase, Promise!Disks
    <3>3. QED
      BY <2>2, <3>1, <3>2
  <2>4. Phase = "live"
    BY DEF Init, Phase
  <2>5. QED
    BY <2>3, <2>4 DEF Promise!Init
<1>2. /\ TypeOK /\ TypeOK' /\ JournalOwned /\ JournalOwned' /\ [Next]_vars
      => [Promise!Next]_(Promise!vars)
  <2> SUFFICES ASSUME TypeOK, TypeOK', JournalOwned, JournalOwned', [Next]_vars
               PROVE  [Promise!Next]_(Promise!vars)
    OBVIOUS
  <2> USE DEF Promise!vars
  <2>0. /\ journal \in Journal /\ disk \in Journal /\ journal.mine
        /\ pc \notin {"prep", "ended"} => disk.mine /\ disk.status = "running"
        /\ pc \notin {"prep", "ended"} => journal.status = "running"
    BY DEF TypeOK, JournalOwned
  \* A step that leaves the turn live: it saves the journal or touches no file.
  <2>1. CASE pc # "ended" /\ pc' # "ended" /\ disk' = disk
    BY <2>1 DEF Phase, DiskPhase
  <2>2. CASE pc # "ended" /\ pc' # "ended" /\ disk'.mine /\ disk'.status = "running"
    BY <2>2 DEF Phase, DiskPhase, Promise!Next, Promise!Save
  <2>3. CASE BeginTurn \/ Reconnect \/ DeliverOutput
    <3>1. pc # "ended" /\ pc' = "streaming"
      BY <2>3 DEF BeginTurn, Reconnect, DeliverOutput, ShellsFinished, StartAttempt
    <3>2. disk'.mine /\ disk'.status = "running"
      BY <3>1 DEF JournalOwned
    <3>3. QED
      BY <2>2, <3>1, <3>2
  <2>4. CASE \E t \in Tools : ToolRequest(t) \/ \E result \in Outcomes : ToolResult(t, result)
    <3>1. pc = "streaming" /\ pc' = "streaming"
      BY <2>4 DEF ToolRequest, ToolResult
    <3>2. disk'.mine /\ disk'.status = "running"
      BY <3>1 DEF JournalOwned
    <3>3. QED
      BY <2>2, <3>1, <3>2
  <2>5. CASE \E kind \in Failures : FailCancelled(kind) \/ FailAndResume(kind) \/ FailAndStop(kind)
    <3>1. pc = "streaming" /\ pc' \in {"sleeping", "closing"} /\ disk' = disk
      BY <2>5 DEF FailCancelled, FailAndResume, FailAndStop, SettleFailed
    <3>2. QED
      BY <2>1, <3>1
  <2>6. CASE \/ OtherFrame \/ Progress \/ AttemptSucceeds \/ Wake \/ StopProbing
             \/ GiveUpOffline \/ AwaitShells \/ StopAfterShells
    BY <2>1, <2>6 DEF OtherFrame, Progress, AttemptSucceeds, Wake, StopProbing,
       GiveUpOffline, AwaitShells, StopAfterShells, ShellsFinished
  <2>7. CASE FinishCompleted
    BY <2>0, <2>7 DEF FinishCompleted, Phase, DiskPhase, NoJournal, Promise!Next,
       Promise!Complete
  <2>8. CASE CloseUnfinished
    <3>1. /\ pc = "closing" /\ pc' = "ended" /\ outcome' = outcome /\ manual' = manual
          /\ outcome \in {"cancelled", "failed"}
          /\ journal'.mine /\ journal'.status = "unfinished"
      BY <2>0, <2>8, EventsOnly DEF CloseUnfinished, JournalOwned
    <3>2. disk' = IF outcome = "cancelled" \/ manual THEN journal' ELSE NoJournal
      BY <2>8 DEF CloseUnfinished, KeptJournal
    <3>3. CASE outcome = "cancelled" \/ manual
      BY <2>0, <3>1, <3>2, <3>3 DEF Phase, DiskPhase, Promise!Next, Promise!Pause
    <3>4. CASE ~(outcome = "cancelled" \/ manual)
      BY <2>0, <3>1, <3>2, <3>4 DEF Phase, DiskPhase, NoJournal, Promise!Next, Promise!Drop
    <3>5. QED
      BY <3>3, <3>4
  <2>9. CASE Interrupt
    <3>1. /\ pc # "ended" /\ pc' = "ended" /\ outcome' = "interrupted"
          /\ disk'.mine /\ disk'.status = "unfinished"
      BY <2>0, <2>9, EventsOnly DEF Interrupt, Awaits
    <3>2. QED
      BY <3>1 DEF Phase, DiskPhase, Promise!Next, Promise!Interrupt
  <2>10. CASE InterruptClosing
    BY <2>0, <2>10 DEF InterruptClosing, Phase, DiskPhase, Promise!Next, Promise!Tear
  <2>11. CASE RequestCancel \/ CancelAllShells
    BY <2>11 DEF RequestCancel, CancelAllShells, Phase, DiskPhase
  <2>12. CASE \E j \in Jobs : JobStarts(j) \/ \E how \in {"exited", "killed"} : JobExits(j, how)
    BY <2>12 DEF JobStarts, JobExits, Phase, DiskPhase
  <2>13. CASE UNCHANGED vars
    BY <2>13 DEF vars, Phase, DiskPhase
  <2>14. QED
    BY <2>3, <2>4, <2>5, <2>6, <2>7, <2>8, <2>9, <2>10, <2>11, <2>12, <2>13
       DEF Next, AttemptEnds, ProbeEnds, AfterFinal, Ended
<1>3. QED
  BY <1>1, <1>2, TypeCorrect, OwnedInvariant, PTL DEF Spec, ImplementsLogicalTurn, Promise!Spec

----------------------------------------------------------------------------
(* What an ended turn leaves behind *)

\* Before the cleanup no shell is forgotten or killed by kill_all.
ShellsKept ==
  pc \notin {"closing", "ended"} => \A j \in Jobs : jobs[j] \notin {"lost", "gone"}

LEMMA SettledEvents ==
  ASSUME NEW evs \in Seq(ToolEvent)
  PROVE  /\ DOMAIN SettlePending(evs) = DOMAIN evs
         /\ \A i \in DOMAIN evs :
              /\ SettlePending(evs)[i].id = evs[i].id
              /\ SettlePending(evs)[i].status # "pending"
              /\ SettlePending(evs)[i].status \in Outcomes \/ evs[i].status \in Outcomes
                   => SettlePending(evs)[i] = evs[i]
<1>1. DOMAIN SettlePending(evs) = DOMAIN evs
  BY DEF SettlePending
<1>2. ASSUME NEW i \in DOMAIN evs
      PROVE  /\ SettlePending(evs)[i].id = evs[i].id
             /\ SettlePending(evs)[i].status # "pending"
             /\ SettlePending(evs)[i].status \in Outcomes \/ evs[i].status \in Outcomes
                  => SettlePending(evs)[i] = evs[i]
  <2>1. SettlePending(evs)[i] = IF evs[i].status = "pending"
                                  THEN [evs[i] EXCEPT !.status = "interrupted"] ELSE evs[i]
    BY DEF SettlePending
  <2>2. evs[i] \in [id : Tools, status : EventStatuses]
    <3>1. evs[i] \in ToolEvent
      OBVIOUS
    <3>2. QED
      BY <3>1 DEF ToolEvent
  <2>3. /\ [evs[i] EXCEPT !.status = "interrupted"].id = evs[i].id
        /\ [evs[i] EXCEPT !.status = "interrupted"].status = "interrupted"
    BY <2>2
  <2>4. QED
    BY <2>1, <2>3 DEF Outcomes
<1>3. QED
  BY <1>1, <1>2

LEMMA EventsSet ==
  ASSUME NEW j \in Journal, NEW evs, NEW s
  PROVE  /\ [j EXCEPT !.events = evs].events = evs
         /\ [j EXCEPT !.events = evs, !.status = s].events = evs
BY DEF Journal

LEMMA ShellsKeptInvariant == Spec => []ShellsKept
<1>1. Init => ShellsKept
  BY DEF Init, ShellsKept
<1>2. TypeOK /\ ShellsKept /\ [Next]_vars => ShellsKept'
  <2> SUFFICES ASSUME TypeOK, ShellsKept, [Next]_vars, pc' \notin {"closing", "ended"},
                      NEW j \in Jobs
               PROVE  jobs'[j] \notin {"lost", "gone"}
    BY DEF ShellsKept
  <2>1. jobs \in [Jobs -> JobStates]
    BY DEF TypeOK
  <2>2. CASE pc \notin {"closing", "ended"} /\ jobs' = jobs
    BY <2>2 DEF ShellsKept
  <2>3. CASE \/ BeginTurn \/ OtherFrame \/ Progress \/ AttemptEnds \/ Wake \/ ProbeEnds
             \/ FinishCompleted \/ AwaitShells \/ CloseUnfinished \/ RequestCancel
             \/ \E t \in Tools : ToolRequest(t) \/ \E result \in Outcomes : ToolResult(t, result)
    <3>1. CASE \/ BeginTurn \/ OtherFrame \/ Progress \/ Wake \/ FinishCompleted
               \/ AwaitShells \/ CloseUnfinished \/ RequestCancel
      BY <2>2, <3>1 DEF BeginTurn, OtherFrame, Progress, Wake, FinishCompleted,
         AwaitShells, CloseUnfinished, RequestCancel
    <3>2. CASE AttemptEnds
      <4>1. pc = "streaming" /\ jobs' = jobs
        BY <3>2 DEF AttemptEnds, AttemptSucceeds, FailCancelled, FailAndResume,
           FailAndStop, SettleFailed
      <4>2. QED
        BY <2>2, <4>1
    <3>3. CASE ProbeEnds
      BY <2>2, <3>3 DEF ProbeEnds, Reconnect, StopProbing, GiveUpOffline
    <3>4. CASE \E t \in Tools : ToolRequest(t) \/ \E result \in Outcomes : ToolResult(t, result)
      BY <2>2, <3>4 DEF ToolRequest, ToolResult
    <3>5. QED
      BY <2>3, <3>1, <3>2, <3>3, <3>4
  <2>4. CASE DeliverOutput
    BY <2>1, <2>4 DEF DeliverOutput, ShellsFinished, ShellsKept
  <2>5. CASE StopAfterShells \/ Interrupt \/ InterruptClosing
    BY <2>5 DEF StopAfterShells, Interrupt, InterruptClosing
  <2>6. CASE CancelAllShells
    BY <2>1, <2>6 DEF CancelAllShells, ShellsKept
  <2>7. CASE \E k \in Jobs : JobStarts(k) \/ \E how \in {"exited", "killed"} : JobExits(k, how)
    BY <2>1, <2>7 DEF JobStarts, JobExits, ShellsKept
  <2>8. CASE UNCHANGED vars
    BY <2>8 DEF vars, ShellsKept
  <2>9. QED
    BY <2>3, <2>4, <2>5, <2>6, <2>7, <2>8 DEF Next, AfterFinal, Ended
<1>3. QED
  BY <1>1, <1>2, TypeCorrect, PTL DEF Spec

\* The files and shells a finished turn leaves are those its ending calls for: the
\* journal of a turn that can go on with no call open in it, none otherwise, and
\* after a completed turn no output of a shell that was not delivered.
THEOREM EndingIsClean == Spec => []EndingLeavesNothingOpen
<1>1. Init => EndingLeavesNothingOpen
  BY DEF Init, EndingLeavesNothingOpen
<1>2. /\ TypeOK /\ JournalOwned /\ ShellsKept /\ EndingLeavesNothingOpen /\ [Next]_vars
      => EndingLeavesNothingOpen'
  <2> SUFFICES ASSUME TypeOK, JournalOwned, ShellsKept, EndingLeavesNothingOpen,
                      [Next]_vars, pc' = "ended"
               PROVE  EndingLeavesNothingOpen'
    BY DEF EndingLeavesNothingOpen
  <2>0. /\ journal \in Journal /\ disk \in Journal /\ journal.events \in Seq(ToolEvent)
        /\ journal.mine /\ jobs \in [Jobs -> JobStates]
    BY DEF TypeOK, JournalOwned, Journal
  <2> DEFINE settled == SettlePending(journal.events)
  <2>1. \A i \in DOMAIN settled : settled[i].status # "pending"
    BY <2>0, SettledEvents
  <2>2. CASE FinishCompleted
    <3>1. disk' = NoJournal /\ outcome' = "completed" /\ jobs' = jobs
      BY <2>2 DEF FinishCompleted
    <3>2. \A j \in Jobs : jobs[j] \in {"none", "delivered"}
      BY <2>0, <2>2 DEF FinishCompleted, Listed, ShellsKept, JobStates
    <3>3. NoJournal.status = "none"
      BY DEF NoJournal
    <3>4. QED
      BY <3>1, <3>2, <3>3 DEF EndingLeavesNothingOpen
  <2>3. CASE CloseUnfinished
    <3>1. /\ journal' = [journal EXCEPT !.events = settled, !.status = "unfinished"]
          /\ outcome' = outcome /\ manual' = manual /\ outcome \in {"cancelled", "failed"}
          /\ disk' = IF outcome = "cancelled" \/ manual THEN journal' ELSE NoJournal
      BY <2>3 DEF CloseUnfinished, JournalOwned, KeptJournal
    <3> HIDE DEF settled
    <3>2. journal'.events = settled /\ journal'.mine
      BY <2>0, <3>1, EventsSet, EventsOnly
    <3>3. NoJournal.status = "none"
      BY DEF NoJournal
    <3>4. QED
      BY <2>1, <3>1, <3>2, <3>3 DEF EndingLeavesNothingOpen
  <2>4. CASE Interrupt
    <3>1. /\ journal' = [journal EXCEPT !.events = settled, !.status = "unfinished"]
          /\ outcome' = "interrupted" /\ disk' = journal'
      BY <2>4 DEF Interrupt
    <3> HIDE DEF settled
    <3>2. journal'.events = settled /\ journal'.mine
      BY <2>0, <3>1, EventsSet, EventsOnly
    <3>3. QED
      BY <2>1, <3>1, <3>2 DEF EndingLeavesNothingOpen
  <2>5. CASE InterruptClosing
    BY <2>5 DEF InterruptClosing, JournalOwned, EndingLeavesNothingOpen
  <2>6. CASE CancelAllShells
    <3>1. /\ pc = "ended" /\ disk' = disk /\ journal' = journal /\ outcome' = outcome
          /\ manual' = manual /\ Running # {}
      BY <2>6 DEF CancelAllShells
    <3>2. outcome # "completed"
      BY <3>1 DEF EndingLeavesNothingOpen, Running
    <3>3. QED
      BY <3>1, <3>2 DEF EndingLeavesNothingOpen
  <2>7. CASE UNCHANGED vars
    BY <2>7 DEF vars, EndingLeavesNothingOpen
  <2>8. CASE \/ BeginTurn \/ OtherFrame \/ Progress \/ AttemptEnds \/ Wake \/ ProbeEnds
             \/ AwaitShells \/ DeliverOutput \/ StopAfterShells \/ RequestCancel
             \/ \E t \in Tools : ToolRequest(t) \/ \E result \in Outcomes : ToolResult(t, result)
             \/ \E j \in Jobs : JobStarts(j) \/ \E how \in {"exited", "killed"} : JobExits(j, how)
    <3>1. pc' # "ended"
      BY <2>8 DEF BeginTurn, OtherFrame, Progress, AttemptEnds, AttemptSucceeds,
         FailCancelled, FailAndResume, FailAndStop, Wake, ProbeEnds, Reconnect, StopProbing,
         GiveUpOffline, AwaitShells, DeliverOutput, StopAfterShells, RequestCancel,
         ToolRequest, ToolResult, JobStarts, JobExits, StartAttempt
    <3>2. QED
      BY <3>1
  <2>9. QED
    BY <2>2, <2>3, <2>4, <2>5, <2>6, <2>7, <2>8 DEF Next, AfterFinal, Ended
<1>3. QED
  BY <1>1, <1>2, TypeCorrect, OwnedInvariant, ShellsKeptInvariant, PTL DEF Spec

----------------------------------------------------------------------------
(* The outcomes on disk *)

DistinctIds(evs) == \A i, k \in DOMAIN evs : evs[i].id = evs[k].id => i = k

\* A turn has no more calls than the journal keeps.
FewCalls == IsFiniteSet(Tools) /\ Cardinality(Tools) <= MaxToolEvents

\* The inductive strengthening: the journal in memory lists each call once, so that
\* none is ever evicted, and holds the outcomes seen, as does the one on disk.
OutcomesJournaled ==
  /\ DistinctIds(journal.events)
  /\ AllSeenOutcomes(journal, seen) /\ OnlySeenOutcomes(journal, seen)
  /\ OutcomesSurviveAKill

\* Distinct calls fit, so a request that is not listed is appended and nothing else.
LEMMA NothingEvicted ==
  ASSUME FewCalls, NEW evs \in Seq(ToolEvent), DistinctIds(evs), NEW t \in Tools
  PROVE  /\ RecordToolRequest(evs, t) =
              IF Recorded(evs, t) THEN evs
                                  ELSE Append(evs, [id |-> t, status |-> "pending"])
         /\ DistinctIds(RecordToolRequest(evs, t))
<1> DEFINE new == Append(evs, [id |-> t, status |-> "pending"])
           ids == [i \in 1..(Len(evs) + 1) |-> new[i].id]
<1>1. CASE Recorded(evs, t)
  BY <1>1 DEF RecordToolRequest
<1>2. CASE ~Recorded(evs, t)
  <2>1. /\ Len(evs) \in Nat /\ DOMAIN evs = 1..Len(evs)
        /\ Len(new) = Len(evs) + 1 /\ DOMAIN new = 1..(Len(evs) + 1)
        /\ new[Len(evs) + 1].id = t
        /\ \A i \in DOMAIN evs : new[i] = evs[i]
    OBVIOUS
  <2>2. ASSUME NEW i \in DOMAIN evs PROVE evs[i].id \in Tools /\ evs[i].id # t
    <3>1. evs[i] \in ToolEvent
      OBVIOUS
    <3>2. QED
      BY <1>2, <3>1 DEF ToolEvent, Recorded
  <2> HIDE DEF new
  <2>3. \A i \in 1..(Len(evs) + 1) : i \in DOMAIN evs \/ i = Len(evs) + 1
    BY <2>1
  <2>4. DistinctIds(new)
    BY <2>1, <2>2, <2>3 DEF DistinctIds
  <2>5. ids \in Injection(1..(Len(evs) + 1), Tools)
    <3>1. ids \in [1..(Len(evs) + 1) -> Tools]
      BY <2>1, <2>2, <2>3
    <3>2. QED
      BY <2>1, <2>4, <3>1 DEF DistinctIds, Injection, IsInjective
  <2> HIDE DEF ids
  <2>6. Cardinality(1..(Len(evs) + 1)) <= Cardinality(Tools)
    BY <2>5, FS_Injection DEF FewCalls
  <2>7. Cardinality(1..(Len(evs) + 1)) = Len(evs) + 1
    BY <2>1, FS_Interval
  <2>8. Len(new) <= MaxToolEvents
    BY <2>1, <2>6, <2>7, FS_CardinalityType DEF FewCalls
  <2>9. RecordToolRequest(evs, t) = new
    BY <1>2, <2>8 DEF RecordToolRequest, Newest, new
  <2>10. QED
    BY <1>2, <2>4, <2>9 DEF new
<1>3. QED
  BY <1>1, <1>2

\* A request leaves every outcome where it was.
LEMMA RequestKeepsOutcomes ==
  ASSUME FewCalls, NEW j \in Journal, DistinctIds(j.events), NEW t \in Tools,
         NEW s \in [Tools -> Outcomes \cup {"none"}],
         AllSeenOutcomes(j, s), OnlySeenOutcomes(j, s)
  PROVE  LET k == [j EXCEPT !.events = RecordToolRequest(j.events, t)]
         IN  /\ k.events = RecordToolRequest(j.events, t)
             /\ DistinctIds(k.events) /\ AllSeenOutcomes(k, s) /\ OnlySeenOutcomes(k, s)
<1> DEFINE evs == j.events
           new == RecordToolRequest(evs, t)
           k   == [j EXCEPT !.events = new]
<1>1. evs \in Seq(ToolEvent)
  BY DEF Journal
<1>2. new = IF Recorded(evs, t) THEN evs ELSE Append(evs, [id |-> t, status |-> "pending"])
  BY <1>1, NothingEvicted
<1>3. DistinctIds(new)
  BY <1>1, NothingEvicted
<1>4. /\ DOMAIN evs \subseteq DOMAIN new
      /\ \A i \in DOMAIN evs : new[i] = evs[i]
      /\ \A i \in DOMAIN new : i \in DOMAIN evs \/ new[i].status = "pending"
  <2>1. CASE Recorded(evs, t)
    BY <1>2, <2>1
  <2>2. CASE ~Recorded(evs, t)
    <3>1. new = Append(evs, [id |-> t, status |-> "pending"])
      BY <1>2, <2>2
    <3> HIDE DEF new, evs
    <3>2. QED
      BY <1>1, <3>1
  <2>3. QED
    BY <2>1, <2>2
<1> HIDE DEF new
<1>5. k.events = new
  BY DEF Journal
<1> HIDE DEF k
<1>6. AllSeenOutcomes(k, s)
  <2> SUFFICES ASSUME NEW u \in Tools, s[u] \in Outcomes
               PROVE  \E i \in DOMAIN new : new[i] = [id |-> u, status |-> s[u]]
    BY <1>5 DEF AllSeenOutcomes
  <2>1. PICK i \in DOMAIN evs : evs[i] = [id |-> u, status |-> s[u]]
    BY DEF AllSeenOutcomes, evs
  <2>2. QED
    BY <1>4, <2>1
<1>7. OnlySeenOutcomes(k, s)
  BY <1>4, <1>5 DEF OnlySeenOutcomes, evs, Outcomes
<1>8. QED
  BY <1>3, <1>5, <1>6, <1>7 DEF k, new, evs

\* A result is recorded where its request is, and nowhere else.
LEMMA ResultKeepsOutcomes ==
  ASSUME FewCalls, NEW j \in Journal, DistinctIds(j.events), NEW t \in Tools,
         NEW result \in Outcomes, NEW s \in [Tools -> Outcomes \cup {"none"}],
         AllSeenOutcomes(j, s), OnlySeenOutcomes(j, s)
  PROVE  LET k == [j EXCEPT !.events = RecordToolResult(j.events, t, result)]
         IN  /\ DistinctIds(k.events)
             /\ AllSeenOutcomes(k, [s EXCEPT ![t] = result])
             /\ OnlySeenOutcomes(k, [s EXCEPT ![t] = result])
<1> DEFINE listed == RecordToolRequest(j.events, t)
           l   == [j EXCEPT !.events = listed]
           new == RecordToolResult(j.events, t, result)
           k   == [j EXCEPT !.events = new]
           s2  == [s EXCEPT ![t] = result]
<1>1. j.events \in Seq(ToolEvent) /\ listed \in Seq(ToolEvent)
  BY RequestType DEF Journal
<1>2. /\ l.events = listed /\ DistinctIds(listed)
      /\ AllSeenOutcomes(l, s) /\ OnlySeenOutcomes(l, s)
  BY RequestKeepsOutcomes
<1>3. PICK m \in DOMAIN listed : listed[m].id = t
  <2>1. listed = IF Recorded(j.events, t) THEN j.events
                 ELSE Append(j.events, [id |-> t, status |-> "pending"])
    BY <1>1, NothingEvicted
  <2>2. CASE Recorded(j.events, t)
    BY <2>1, <2>2 DEF Recorded
  <2>3. CASE ~Recorded(j.events, t)
    <3>1. listed = Append(j.events, [id |-> t, status |-> "pending"])
      BY <2>1, <2>3
    <3> HIDE DEF listed
    <3>2. /\ Len(j.events) + 1 \in DOMAIN listed
          /\ listed[Len(j.events) + 1] = [id |-> t, status |-> "pending"]
      BY <1>1, <3>1
    <3>3. QED
      BY <3>2
  <2>4. QED
    BY <2>2, <2>3
<1>4. new = [i \in DOMAIN listed |->
               IF listed[i].id = t THEN [listed[i] EXCEPT !.status = result] ELSE listed[i]]
  BY DEF RecordToolResult
<1> HIDE DEF listed, new, l
<1>5. ASSUME NEW i \in DOMAIN listed
      PROVE  listed[i] \in [id : Tools, status : EventStatuses]
  <2>1. listed[i] \in ToolEvent
    BY <1>1
  <2>2. QED
    BY <2>1 DEF ToolEvent
<1>6. /\ DOMAIN new = DOMAIN listed
      /\ \A i \in DOMAIN listed :
           new[i] = IF listed[i].id = t THEN [id |-> t, status |-> result] ELSE listed[i]
  <2>1. ASSUME NEW i \in DOMAIN listed, listed[i].id = t
        PROVE  [listed[i] EXCEPT !.status = result] = [id |-> t, status |-> result]
    BY <1>5, <2>1
  <2>2. QED
    BY <1>4, <2>1
<1>7. k.events = new
  BY DEF Journal
<1>8. s2[t] = result /\ \A u \in Tools : u # t => s2[u] = s[u]
  OBVIOUS
<1> HIDE DEF k, s2
<1>9. \A i \in DOMAIN new : new[i].id = listed[i].id
  BY <1>6
<1>10. DistinctIds(new)
  BY <1>2, <1>6, <1>9 DEF DistinctIds
<1>11. AllSeenOutcomes(k, s2)
  <2> SUFFICES ASSUME NEW u \in Tools, s2[u] \in Outcomes
               PROVE  \E i \in DOMAIN new : new[i] = [id |-> u, status |-> s2[u]]
    BY <1>7 DEF AllSeenOutcomes
  <2>1. CASE u = t
    BY <1>3, <1>6, <1>8, <2>1
  <2>2. CASE u # t
    <3>1. PICK i \in DOMAIN listed : listed[i] = [id |-> u, status |-> s[u]]
      BY <1>2, <1>8, <2>2 DEF AllSeenOutcomes
    <3>2. new[i] = listed[i]
      BY <1>6, <2>2, <3>1
    <3>3. QED
      BY <1>6, <1>8, <2>2, <3>1, <3>2
  <2>3. QED
    BY <2>1, <2>2
<1>12. OnlySeenOutcomes(k, s2)
  <2> SUFFICES ASSUME NEW i \in DOMAIN new, new[i].status \in Outcomes
               PROVE  new[i].status = s2[new[i].id]
    BY <1>7 DEF OnlySeenOutcomes
  <2>1. CASE listed[i].id = t
    BY <1>6, <1>8, <2>1
  <2>2. CASE listed[i].id # t
    BY <1>2, <1>5, <1>6, <1>8, <2>2 DEF OnlySeenOutcomes
  <2>3. QED
    BY <2>1, <2>2
<1>13. QED
  BY <1>7, <1>10, <1>11, <1>12 DEF k, new, s2

\* Settling marks no call whose outcome is known.
LEMMA SettleKeepsOutcomes ==
  ASSUME NEW evs \in Seq(ToolEvent), NEW j \in Journal, NEW k \in Journal, NEW s,
         j.events = evs, k.events = SettlePending(evs), DistinctIds(evs),
         AllSeenOutcomes(j, s), OnlySeenOutcomes(j, s)
  PROVE  DistinctIds(k.events) /\ AllSeenOutcomes(k, s) /\ OnlySeenOutcomes(k, s)
<1> DEFINE new == SettlePending(evs)
<1>1. /\ DOMAIN new = DOMAIN evs
      /\ \A i \in DOMAIN evs :
           /\ new[i].id = evs[i].id
           /\ new[i].status \in Outcomes \/ evs[i].status \in Outcomes => new[i] = evs[i]
  BY SettledEvents
<1>2. k.events = new
  OBVIOUS
<1> HIDE DEF new
<1>3. DistinctIds(k.events)
  BY <1>1, <1>2 DEF DistinctIds
<1>4. AllSeenOutcomes(k, s)
  <2> SUFFICES ASSUME NEW u \in Tools, s[u] \in Outcomes
               PROVE  \E i \in DOMAIN new : new[i] = [id |-> u, status |-> s[u]]
    BY <1>2 DEF AllSeenOutcomes
  <2>1. PICK i \in DOMAIN evs : evs[i] = [id |-> u, status |-> s[u]]
    BY DEF AllSeenOutcomes
  <2>2. QED
    BY <1>1, <2>1
<1>5. OnlySeenOutcomes(k, s)
  BY <1>1, <1>2 DEF OnlySeenOutcomes
<1>6. QED
  BY <1>3, <1>4, <1>5

\* A kill finds on disk just the outcomes the client saw, whatever was retried,
\* resumed or cancelled before, for every turn whose calls the journal can hold.
THEOREM OutcomesAreKept ==
  ASSUME FewCalls
  PROVE  Spec => []OutcomesSurviveAKill
<1>1. Init => OutcomesJournaled
  <2> SUFFICES ASSUME Init PROVE OutcomesJournaled
    OBVIOUS
  <2>1. /\ DistinctIds(journal.events)
        /\ AllSeenOutcomes(journal, seen) /\ OnlySeenOutcomes(journal, seen)
    <3>1. CASE journal = NewJournal
      <4>1. journal.events = <<>>
        BY <3>1 DEF NewJournal
      <4>2. ASSUME NEW t \in Tools
            PROVE  seen[t] = "none"
        <5>1. ~\E i \in DOMAIN journal.events :
                 journal.events[i].id = t /\ journal.events[i].status \in Outcomes
          BY <4>1
        <5>2. QED
          BY <5>1 DEF Init, SeenIn
      <4>3. QED
        BY <4>1, <4>2 DEF DistinctIds, AllSeenOutcomes, OnlySeenOutcomes, Outcomes
    <3>2. CASE journal \in LoadedJournals
      <4>1. journal.events \in LoadedEvents
        BY <3>2 DEF LoadedJournals
      <4>2. DistinctIds(journal.events)
        BY <4>1 DEF LoadedEvents, DistinctIds
      <4>3. ASSUME NEW i \in DOMAIN journal.events
            PROVE  journal.events[i] \in [id : Tools, status : EventStatuses]
        BY <4>1 DEF LoadedEvents, ToolEvent
      <4>4. ASSUME NEW i \in DOMAIN journal.events, journal.events[i].status \in Outcomes
            PROVE  seen[journal.events[i].id] = journal.events[i].status
        <5> DEFINE t == journal.events[i].id
        <5>1. t \in Tools
          BY <4>3
        <5>2. \A k \in DOMAIN journal.events : journal.events[k].id = t => k = i
          BY <4>2 DEF DistinctIds
        <5>3. seen[t] = CHOOSE o \in Outcomes :
                \E k \in DOMAIN journal.events : journal.events[k].id = t /\ journal.events[k].status = o
          BY <4>4, <5>1 DEF Init, SeenIn
        <5>4. \A o \in Outcomes :
                (\E k \in DOMAIN journal.events : journal.events[k].id = t /\ journal.events[k].status = o)
                <=> o = journal.events[i].status
          BY <4>4, <5>2
        <5>5. QED
          BY <4>4, <5>3, <5>4
      <4>5. ASSUME NEW t \in Tools, seen[t] \in Outcomes
            PROVE  \E i \in DOMAIN journal.events : journal.events[i] = [id |-> t, status |-> seen[t]]
        <5>1. PICK i \in DOMAIN journal.events :
                journal.events[i].id = t /\ journal.events[i].status \in Outcomes
          BY <4>5 DEF Init, SeenIn, Outcomes
        <5>2. seen[t] = journal.events[i].status
          BY <4>4, <5>1
        <5>3. QED
          BY <4>3, <5>1, <5>2
      <4>6. QED
        BY <4>2, <4>4, <4>5 DEF AllSeenOutcomes, OnlySeenOutcomes
    <3>3. QED
      BY <3>1, <3>2 DEF Init
  <2>2. disk = journal \/ ~disk.mine
    BY DEF Init, NoJournal, StaleJournal
  <2>3. QED
    BY <2>1, <2>2 DEF OutcomesJournaled, OutcomesSurviveAKill
<1>2. TypeOK /\ TypeOK' /\ OutcomesJournaled /\ [Next]_vars => OutcomesJournaled'
  <2> SUFFICES ASSUME TypeOK, TypeOK', OutcomesJournaled, [Next]_vars
               PROVE  OutcomesJournaled'
    OBVIOUS
  <2>0. /\ journal \in Journal /\ disk \in Journal /\ journal.events \in Seq(ToolEvent)
        /\ seen \in [Tools -> Outcomes \cup {"none"}]
        /\ journal' \in Journal /\ disk' \in Journal
    BY DEF TypeOK, Journal
  <2>1. /\ DistinctIds(journal.events)
        /\ AllSeenOutcomes(journal, seen) /\ OnlySeenOutcomes(journal, seen)
        /\ disk.mine => AllSeenOutcomes(disk, seen) /\ OnlySeenOutcomes(disk, seen)
    BY DEF OutcomesJournaled, OutcomesSurviveAKill
  \* The file is rewritten from memory, removed, or left alone.
  <2>2. ASSUME \/ disk' = journal' \/ ~disk'.mine
               \/ disk' = disk /\ seen' = seen,
               DistinctIds(journal'.events),
               AllSeenOutcomes(journal', seen'), OnlySeenOutcomes(journal', seen')
        PROVE  OutcomesJournaled'
    <3>1. disk'.mine => AllSeenOutcomes(disk', seen') /\ OnlySeenOutcomes(disk', seen')
      BY <2>1, <2>2
    <3>2. QED
      BY <2>2, <3>1 DEF OutcomesJournaled, OutcomesSurviveAKill
  \* A step that leaves the events alone.
  <2>3. CASE /\ journal'.events = journal.events /\ seen' = seen
             /\ disk' = journal' \/ ~disk'.mine \/ disk' = disk
    <3>1. /\ DistinctIds(journal'.events)
          /\ AllSeenOutcomes(journal', seen') /\ OnlySeenOutcomes(journal', seen')
      BY <2>1, <2>3 DEF AllSeenOutcomes, OnlySeenOutcomes
    <3>2. QED
      BY <2>2, <2>3, <3>1
  \* A step that settles the open calls.
  <2>4. CASE /\ journal'.events = SettlePending(journal.events) /\ seen' = seen
             /\ disk' = journal' \/ ~disk'.mine \/ disk' = disk
    <3>1. /\ DistinctIds(journal'.events)
          /\ AllSeenOutcomes(journal', seen') /\ OnlySeenOutcomes(journal', seen')
      BY <2>0, <2>1, <2>4, SettleKeepsOutcomes
    <3>2. QED
      BY <2>2, <2>4, <3>1
  <2>5. ASSUME NEW t \in Tools, ToolRequest(t)
        PROVE  OutcomesJournaled'
    <3>1. /\ journal' = [journal EXCEPT !.events = RecordToolRequest(journal.events, t)]
          /\ disk' = journal' /\ seen' = seen
      BY <2>5 DEF ToolRequest
    <3>2. /\ DistinctIds(journal'.events)
          /\ AllSeenOutcomes(journal', seen') /\ OnlySeenOutcomes(journal', seen')
      BY <2>0, <2>1, <3>1, RequestKeepsOutcomes
    <3>3. QED
      BY <2>2, <3>1, <3>2
  <2>6. ASSUME NEW t \in Tools, NEW result \in Outcomes, ToolResult(t, result)
        PROVE  OutcomesJournaled'
    <3>1. /\ journal' = [journal EXCEPT !.events = RecordToolResult(journal.events, t, result)]
          /\ disk' = journal' /\ seen' = [seen EXCEPT ![t] = result]
      BY <2>6 DEF ToolResult
    <3>2. /\ DistinctIds(journal'.events)
          /\ AllSeenOutcomes(journal', seen') /\ OnlySeenOutcomes(journal', seen')
      BY <2>0, <2>1, <3>1, ResultKeepsOutcomes
    <3>3. QED
      BY <2>2, <3>1, <3>2
  <2>7. ASSUME NEW kind \in Failures,
               FailCancelled(kind) \/ FailAndResume(kind) \/ FailAndStop(kind)
        PROVE  OutcomesJournaled'
    <3>1. SettleFailed(kind)
      BY <2>7 DEF FailCancelled, FailAndResume, FailAndStop
    <3>2. /\ journal' = [journal EXCEPT !.events = SettlePending(journal.events)]
          /\ disk' = disk /\ seen' = seen
      BY <2>7, <3>1 DEF SettleFailed, FailCancelled, FailAndResume, FailAndStop
    <3>3. QED
      BY <2>0, <2>4, <3>2, EventsSet
  <2>8. CASE BeginTurn \/ Reconnect \/ DeliverOutput
    <3>1. PICK resuming \in BOOLEAN : StartAttempt(resuming) /\ seen' = seen
      BY <2>8 DEF BeginTurn, Reconnect, DeliverOutput
    <3>2. journal'.events = journal.events /\ disk' = journal'
      BY <2>0, <3>1 DEF StartAttempt, BeginResume, Journal
    <3>3. QED
      BY <2>3, <3>1, <3>2
  <2>9. CASE CloseUnfinished
    <3>1. journal' = [journal EXCEPT !.events = SettlePending(journal.events), !.status = "unfinished"]
          /\ seen' = seen /\ (disk' = journal' \/ disk' = NoJournal)
      BY <2>9 DEF CloseUnfinished, KeptJournal
    <3>2. journal'.events = SettlePending(journal.events)
      BY <2>0, <3>1, EventsSet
    <3>3. ~NoJournal.mine
      BY DEF NoJournal
    <3>4. QED
      BY <2>4, <3>1, <3>2, <3>3
  <2>10. CASE Interrupt
    <3>1. journal' = [journal EXCEPT !.events = SettlePending(journal.events), !.status = "unfinished"]
          /\ seen' = seen /\ disk' = journal'
      BY <2>10 DEF Interrupt
    <3>2. QED
      BY <2>0, <2>4, <3>1, EventsSet
  <2>11. CASE FinishCompleted
    BY <2>3, <2>11 DEF FinishCompleted, NoJournal
  <2>12. CASE \/ OtherFrame \/ Progress \/ AttemptSucceeds \/ Wake \/ StopProbing
              \/ GiveUpOffline \/ AwaitShells \/ StopAfterShells
    BY <2>3, <2>12 DEF OtherFrame, Progress, AttemptSucceeds, Wake, StopProbing,
       GiveUpOffline, AwaitShells, StopAfterShells
  <2>13. CASE RequestCancel \/ CancelAllShells \/ InterruptClosing
    BY <2>3, <2>13 DEF RequestCancel, CancelAllShells, InterruptClosing
  <2>14. CASE \E j \in Jobs : JobStarts(j) \/ \E how \in {"exited", "killed"} : JobExits(j, how)
    BY <2>3, <2>14 DEF JobStarts, JobExits
  <2>15. CASE UNCHANGED vars
    BY <2>3, <2>15 DEF vars
  <2>16. QED
    BY <2>5, <2>6, <2>7, <2>8, <2>9, <2>10, <2>11, <2>12, <2>13, <2>14, <2>15
       DEF Next, AttemptEnds, ProbeEnds, AfterFinal, Ended
<1>3. OutcomesJournaled => OutcomesSurviveAKill
  BY DEF OutcomesJournaled
<1>4. QED
  BY <1>1, <1>2, <1>3, TypeCorrect, PTL DEF Spec

=============================================================================
