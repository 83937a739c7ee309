--------------------------- MODULE ChatStreamProofs ---------------------------
(***************************************************************************)
(* Proofs about ChatStream, for any calls, agents, attempts and requests.  *)
(***************************************************************************)
EXTENDS ChatStream, TLAPS

\* A call that runs has been counted, so that a call that is cancelled or raises
\* can be taken back.
RunsCounted == \A c \in Calls : exec[c] = "running" => ran[c] >= 1

\* The node goes on only when an attempt is left.
AttemptsLeft == phase = "between" => attempt < MaxAttempts

Typed == TypeOK /\ RunsCounted /\ AttemptsLeft

\* Execute keeps the types of what it writes.
LEMMA ExecuteType ==
  ASSUME Typed, NEW a \in Attempts, NEW c \in Calls, Execute(a, c)
  PROVE  /\ exec' \in [Calls -> {"idle", "running", "returned", "raised"}]
         /\ creator' \in [Calls -> 0..MaxAttempts]
         /\ ran' \in [Calls -> Nat]
         /\ task' \in [Attempts -> [Calls -> TaskStates]]
         /\ \A d \in Calls : exec'[d] = "running" => ran'[d] >= 1
<1>1. /\ a \in 0..MaxAttempts
      /\ exec \in [Calls -> {"idle", "running", "returned", "raised"}]
      /\ creator \in [Calls -> 0..MaxAttempts]
      /\ ran \in [Calls -> Nat]
      /\ task \in [Attempts -> [Calls -> TaskStates]]
      /\ \A d \in Calls : exec[d] = "running" => ran[d] >= 1
  BY DEF Attempts, Typed, TypeOK, RunsCounted
<1>2. task' \in [Attempts -> [Calls -> TaskStates]]
  <2>1. PICK t \in TaskStates : task' = [task EXCEPT ![a][c] = t]
    BY DEF Execute, TaskStates
  <2> QED BY <1>1, <2>1
<1>3. CASE c \notin results /\ exec[c] = "idle"
  <2>1. /\ exec' = [exec EXCEPT ![c] = "running"] /\ creator' = [creator EXCEPT ![c] = a]
        /\ ran' = [ran EXCEPT ![c] = @ + 1]
    BY <1>3 DEF Execute
  <2>2. ran' \in [Calls -> Nat] /\ ran'[c] >= 1 /\ \A d \in Calls : d # c => ran'[d] = ran[d]
    BY <1>1, <2>1
  <2> QED BY <1>1, <1>2, <2>1, <2>2
<1>4. CASE ~(c \notin results /\ exec[c] = "idle")
  BY <1>1, <1>2, <1>4 DEF Execute
<1> QED BY <1>3, <1>4

\* Leave keeps the types of what it writes, and starts nothing.
LEMMA LeaveType ==
  ASSUME Typed, NEW a \in Attempts, NEW c \in Calls, Leave(a, c)
  PROVE  /\ exec' \in [Calls -> {"idle", "running", "returned", "raised"}]
         /\ creator' \in [Calls -> 0..MaxAttempts]
         /\ results' \subseteq Calls
         /\ \A d \in Calls : exec'[d] = "running" => exec[d] = "running"
<1>1. 0 \in 0..MaxAttempts
  BY BoundsAssumption
<1> QED BY <1>1 DEF Typed, TypeOK, Leave

\* Abort keeps the types of what it writes: what it takes back was counted.
LEMMA AbortType ==
  ASSUME Typed, NEW gone, Abort(gone)
  PROVE  /\ exec' \in [Calls -> {"idle", "running", "returned", "raised"}]
         /\ creator' \in [Calls -> 0..MaxAttempts]
         /\ ran' \in [Calls -> Nat]
         /\ \A d \in Calls : exec'[d] = "running" => ran'[d] >= 1
<1>1. 0 \in 0..MaxAttempts
  BY BoundsAssumption
<1>2. \A d \in Calls : ran[d] \in Nat /\ (exec[d] = "running" => ran[d] >= 1)
  BY DEF Typed, TypeOK, RunsCounted
<1>3. \A d \in Calls : ran'[d] \in Nat /\ (exec'[d] = "running" => ran'[d] >= 1)
  BY <1>2 DEF Abort
<1> QED BY <1>1, <1>3 DEF Typed, TypeOK, Abort

\* Journal entries keep their types.
LEMMA JournalType ==
  ASSUME Typed, NEW cs \in SUBSET Calls, Requested(cs) \/ Answered(cs) \/ Settle
  PROVE  /\ pending' \subseteq Calls
         /\ journal' \in [Calls -> {"none", "pending", "done", "interrupted"}]
BY DEF Typed, TypeOK, Requested, Answered, Settle

LEMMA InitTyped ==
  Init => Typed
<1> SUFFICES ASSUME Init PROVE Typed
  OBVIOUS
<1>1. 1 \in Attempts /\ 0 \in 0..MaxAttempts
  BY BoundsAssumption DEF Attempts
<1>2. lanes \in [Attempts -> [Agents -> Seq(Calls)]]
  <2>1. <<>> \in Seq(Calls)
    OBVIOUS
  <2> QED BY <2>1 DEF Init
<1>3. task \in [Attempts -> [Calls -> TaskStates]]
  BY DEF Init, TaskStates
<1> QED BY <1>1, <1>2, <1>3 DEF Init, Typed, TypeOK, RunsCounted, AttemptsLeft, Phases

LEMMA StepTyped ==
  Typed /\ [Next]_vars => Typed'
<1> SUFFICES ASSUME Typed, [Next]_vars PROVE Typed'
  OBVIOUS
<1> USE DEF stream, broker, node
<1>0. attempt \in Attempts
  BY DEF Typed, TypeOK
<1>1. ASSUME NEW g \in Agents, NEW c \in Calls, LaneRequest(g, c) PROVE Typed'
  <2>1. pending' \subseteq Calls /\ journal' \in [Calls -> {"none", "pending", "done", "interrupted"}]
    BY <1>1, JournalType DEF LaneRequest
  <2>2. lanes' \in [Attempts -> [Agents -> Seq(Calls)]]
    BY <1>1, <1>0 DEF LaneRequest, Typed, TypeOK
  <2>3. task' \in [Attempts -> [Calls -> TaskStates]]
    BY <1>1, <1>0 DEF LaneRequest, Typed, TypeOK, TaskStates
  <2> QED BY <1>1, <2>1, <2>2, <2>3 DEF LaneRequest, Typed, TypeOK, RunsCounted, AttemptsLeft
<1>2. ASSUME NEW cs \in SUBSET BatchCalls, BatchRequest(cs) PROVE Typed'
  <2>1. cs \in SUBSET Calls
    BY BoundsAssumption
  <2>2. pending' \subseteq Calls /\ journal' \in [Calls -> {"none", "pending", "done", "interrupted"}]
    BY <1>2, <2>1, JournalType DEF BatchRequest
  <2>3. task' \in [Attempts -> [Calls -> TaskStates]]
    BY <1>2, <1>0 DEF BatchRequest, Typed, TypeOK, TaskStates
  <2> QED BY <1>2, <2>2, <2>3 DEF BatchRequest, Typed, TypeOK, RunsCounted, AttemptsLeft, Phases
<1>3. ASSUME NEW a \in Attempts, NEW c \in Calls, LaneStarts(a, c) PROVE Typed'
  BY <1>3, ExecuteType DEF LaneStarts, Typed, TypeOK, RunsCounted, AttemptsLeft
<1>4. ASSUME NEW c \in Calls, BatchStarts(c) PROVE Typed'
  BY <1>4, <1>0, ExecuteType DEF BatchStarts, Typed, TypeOK, RunsCounted, AttemptsLeft
<1>5. ASSUME NEW a \in Attempts, NEW c \in Calls, LaneDelivers(a, c) PROVE Typed'
  <2>1. task' \in [Attempts -> [Calls -> TaskStates]]
    BY <1>5 DEF LaneDelivers, Typed, TypeOK, TaskStates
  <2>2. closed' \in BOOLEAN
    BY <1>5 DEF LaneDelivers, Typed, TypeOK
  <2> QED BY <1>5, <2>1, <2>2, LeaveType DEF LaneDelivers, Typed, TypeOK, RunsCounted, AttemptsLeft
<1>6. ASSUME NEW c \in Calls, BatchDelivers(c) PROVE Typed'
  <2>1. task' \in [Attempts -> [Calls -> TaskStates]]
    BY <1>6, <1>0 DEF BatchDelivers, Typed, TypeOK, TaskStates
  <2>2. closed' \in BOOLEAN /\ phase' \in Phases
    BY <1>6 DEF BatchDelivers, Typed, TypeOK, Phases
  <2>3. pending' \subseteq Calls /\ journal' \in [Calls -> {"none", "pending", "done", "interrupted"}]
    BY <1>6, JournalType DEF BatchDelivers
  <2> QED BY <1>6, <1>0, <2>1, <2>2, <2>3, LeaveType
          DEF BatchDelivers, Typed, TypeOK, RunsCounted, AttemptsLeft
<1>7. ASSUME NEW c \in Calls, TakeLaneEvent(c) PROVE Typed'
  <2>1. task' \in [Attempts -> [Calls -> TaskStates]]
    BY <1>7, <1>0 DEF TakeLaneEvent, Typed, TypeOK, TaskStates
  <2>2. pending' \subseteq Calls /\ journal' \in [Calls -> {"none", "pending", "done", "interrupted"}]
    BY <1>7, JournalType DEF TakeLaneEvent
  <2> QED BY <1>7, <2>1, <2>2 DEF TakeLaneEvent, Typed, TypeOK, RunsCounted, AttemptsLeft, Phases
<1>8. ASSUME NEW c \in Calls, ToolEnds(c) PROVE Typed'
  <2>1. task' \in [Attempts -> [Calls -> TaskStates]]
    BY <1>8 DEF ToolEnds, Typed, TypeOK, TaskStates
  <2>2. /\ exec' \in [Calls -> {"idle", "running", "returned", "raised"}]
        /\ \A d \in Calls : exec'[d] = "running" => exec[d] = "running" /\ d # c
    BY <1>8 DEF ToolEnds, Typed, TypeOK
  <2>3. ran' \in [Calls -> Nat] /\ \A d \in Calls : d # c => ran'[d] = ran[d]
    BY <1>8 DEF ToolEnds, Typed, TypeOK, RunsCounted, AttemptsLeft
  <2> QED BY <1>8, <2>1, <2>2, <2>3 DEF ToolEnds, Typed, TypeOK, RunsCounted, AttemptsLeft
<1>9. CASE Flush
  <2>1. Reported \in SUBSET Calls
    BY DEF Reported
  <2>2. pending' \subseteq Calls /\ journal' \in [Calls -> {"none", "pending", "done", "interrupted"}]
    BY <1>9, <2>1, JournalType DEF Flush
  <2>3. task' \in [Attempts -> [Calls -> TaskStates]]
    BY <1>9, <1>0 DEF Flush, Typed, TypeOK, TaskStates
  <2> QED BY <1>9, <2>2, <2>3 DEF Flush, Typed, TypeOK, RunsCounted, AttemptsLeft, Phases
<1>10. CASE SeeClose \/ FinalFrame \/ AttemptFails
  BY <1>10 DEF SeeClose, FinalFrame, AttemptFails, Typed, TypeOK, RunsCounted, AttemptsLeft, Phases
<1>11. CASE Settled
  <2>1. pending' \subseteq Calls /\ journal' \in [Calls -> {"none", "pending", "done", "interrupted"}]
    BY <1>11, JournalType DEF Settled
  <2> QED BY <1>11, <2>1 DEF Settled, Typed, TypeOK, RunsCounted, AttemptsLeft, Phases
<1>12. CASE NextAttempt
  BY <1>12, BoundsAssumption DEF NextAttempt, Attempts, Typed, TypeOK, RunsCounted, AttemptsLeft, Phases
<1>13. CASE CancelAll
  <2>1. task' \in [Attempts -> [Calls -> TaskStates]]
    BY <1>13 DEF CancelAll, Typed, TypeOK, TaskStates
  <2> QED BY <1>13, <2>1, AbortType DEF CancelAll, Typed, TypeOK, RunsCounted, AttemptsLeft
<1>14. CASE Interrupt
  <2>1. PICK stopped : Abort(stopped)
    BY <1>14 DEF Interrupt
  <2>2. task' \in [Attempts -> [Calls -> TaskStates]]
    BY <1>14 DEF Interrupt, Typed, TypeOK, TaskStates
  <2>3. pending' \subseteq Calls /\ journal' \in [Calls -> {"none", "pending", "done", "interrupted"}]
    BY <1>14, JournalType DEF Interrupt
  <2> QED BY <1>14, <2>1, <2>2, <2>3, AbortType
          DEF Interrupt, Typed, TypeOK, RunsCounted, AttemptsLeft, Phases
<1>15. CASE UNCHANGED vars
  BY <1>15 DEF vars, Typed, TypeOK, RunsCounted, AttemptsLeft
<1> QED
  BY <1>1, <1>2, <1>3, <1>4, <1>5, <1>6, <1>7, <1>8, <1>9, <1>10, <1>11, <1>12, <1>13, <1>14, <1>15
  DEF Next, Consumer, Tasks, Ended

\* The variables of the stream, the lanes and the broker have their types.
THEOREM TypeCorrect == Spec => []TypeOK
<1>1. Typed => TypeOK
  BY DEF Typed
<1> QED BY <1>1, InitTyped, StepTyped, PTL DEF Spec

----------------------------------------------------------------------------
(* The order of a lane *)

\* A task that has left "waiting" has none before it on its lane that goes on.
Chain ==
  \A a \in Attempts, g \in Agents : \A i, k \in DOMAIN lanes[a][g] :
    i < k /\ task[a][lanes[a][g][k]] # "waiting" => TaskOver(a, lanes[a][g][i])

\* Only requested calls are on a lane.
LanesRequested ==
  \A a \in Attempts, g \in Agents : \A i \in DOMAIN lanes[a][g] :
    lanes[a][g][i] \in Calls /\ task[a][lanes[a][g][i]] # "none"

LanesInOrder == Chain /\ LanesRequested

\* A step that starts no task of a lane and ends none that is over keeps the order.
LEMMA OrderKeptByProgress ==
  ASSUME Typed, LanesInOrder, UNCHANGED lanes,
         \A a \in Attempts, c \in Calls :
           /\ TaskOver(a, c) => task'[a][c] \in {"reported", "over", "aborted"}
           /\ InLane(a, c) /\ task'[a][c] # "waiting" => task[a][c] # "waiting"
           /\ InLane(a, c) => task'[a][c] # "none"
  PROVE  LanesInOrder'
<1>1. \A a \in Attempts, g \in Agents : \A i \in DOMAIN lanes[a][g] :
        lanes[a][g][i] \in Calls /\ InLane(a, lanes[a][g][i])
  BY DEF LanesInOrder, LanesRequested, InLane
<1>2. LanesRequested'
  BY <1>1 DEF LanesInOrder, LanesRequested
<1>3. Chain'
  BY <1>1 DEF LanesInOrder, Chain, TaskOver
<1> QED BY <1>2, <1>3 DEF LanesInOrder

LEMMA StepOrder ==
  Typed /\ LanesInOrder /\ [Next]_vars => LanesInOrder'
<1> SUFFICES ASSUME Typed, LanesInOrder, [Next]_vars PROVE LanesInOrder'
  OBVIOUS
<1> USE DEF stream, broker, node
<1>0. /\ attempt \in Attempts
      /\ task \in [Attempts -> [Calls -> TaskStates]]
      /\ lanes \in [Attempts -> [Agents -> Seq(Calls)]]
  BY DEF Typed, TypeOK
<1>1. ASSUME NEW g \in Agents, NEW c \in Calls, LaneRequest(g, c) PROVE LanesInOrder'
  <2>1. /\ task[attempt][c] = "none"
        /\ task' = [task EXCEPT ![attempt][c] = "waiting"]
        /\ lanes' = [lanes EXCEPT ![attempt][g] = Append(@, c)]
    BY <1>1 DEF LaneRequest, New
  <2>2. ASSUME NEW a \in Attempts, NEW h \in Agents, NEW i \in DOMAIN lanes'[a][h]
        PROVE  \/ /\ i \in DOMAIN lanes[a][h] /\ lanes'[a][h][i] = lanes[a][h][i]
                  /\ task'[a][lanes[a][h][i]] = task[a][lanes[a][h][i]]
               \/ /\ lanes'[a][h][i] = c /\ task'[a][c] = "waiting" /\ i = Len(lanes[a][h]) + 1
                  /\ DOMAIN lanes'[a][h] = 1..(Len(lanes[a][h]) + 1)
    <3>1. CASE a = attempt /\ h = g
      <4>1. lanes'[a][h] = Append(lanes[a][h], c) /\ lanes[a][h] \in Seq(Calls)
        BY <1>0, <2>1, <3>1
      <4>2. CASE i \in DOMAIN lanes[a][h]
        <5>1. lanes'[a][h][i] = lanes[a][h][i]
          BY <4>1, <4>2
        <5>2. lanes[a][h][i] \in Calls /\ lanes[a][h][i] # c
          BY <2>1, <3>1, <4>2 DEF LanesInOrder, LanesRequested
        <5> QED BY <1>0, <2>1, <4>2, <5>1, <5>2
      <4>3. CASE i \notin DOMAIN lanes[a][h]
        <5>1. i = Len(lanes[a][h]) + 1 /\ lanes'[a][h][i] = c
          BY <4>1, <4>3
        <5>2. DOMAIN lanes'[a][h] = 1..(Len(lanes[a][h]) + 1)
          BY <4>1
        <5> QED BY <1>0, <2>1, <3>1, <5>1, <5>2
      <4> QED BY <4>2, <4>3
    <3>2. CASE ~(a = attempt /\ h = g)
      <4>1. lanes'[a][h] = lanes[a][h]
        BY <1>0, <2>1, <3>2
      <4>2. lanes[a][h][i] \in Calls /\ task[a][lanes[a][h][i]] # "none"
        BY <4>1 DEF LanesInOrder, LanesRequested
      <4> QED BY <1>0, <2>1, <4>1, <4>2
    <3> QED BY <3>1, <3>2
  <2>3. LanesRequested'
    BY <2>2 DEF LanesInOrder, LanesRequested
  <2>4. ASSUME NEW a \in Attempts, NEW h \in Agents,
               NEW i \in DOMAIN lanes'[a][h], NEW k \in DOMAIN lanes'[a][h],
               i < k, task'[a][lanes'[a][h][k]] # "waiting"
        PROVE  task'[a][lanes'[a][h][i]] \in {"reported", "over", "aborted"}
    <3>1. k \in DOMAIN lanes[a][h] /\ task[a][lanes[a][h][k]] # "waiting"
      BY <2>2, <2>4
    <3>2. lanes[a][h] \in Seq(Calls) /\ k <= Len(lanes[a][h]) /\ i # Len(lanes[a][h]) + 1
      BY <1>0, <2>4, <3>1
    <3>3. /\ i \in DOMAIN lanes[a][h] /\ lanes'[a][h][i] = lanes[a][h][i]
          /\ task'[a][lanes[a][h][i]] = task[a][lanes[a][h][i]]
      BY <2>2, <3>2
    <3> QED BY <2>4, <3>1, <3>3 DEF LanesInOrder, Chain, TaskOver
  <2> QED BY <2>3, <2>4 DEF LanesInOrder, Chain, TaskOver
<1>2. ASSUME NEW cs \in SUBSET BatchCalls, BatchRequest(cs) PROVE LanesInOrder'
  <2>1. \A c \in cs : task[attempt][c] = "none"
    BY <1>2 DEF BatchRequest, New
  <2>2. \A c \in Calls : InLane(attempt, c) => c \notin cs
    BY <1>0, <2>1 DEF LanesInOrder, LanesRequested, InLane
  <2>3. \A a \in Attempts, c \in Calls :
          task'[a][c] = IF a = attempt /\ c \in cs THEN "waiting" ELSE task[a][c]
    BY <1>0, <1>2 DEF BatchRequest
  <2>4. \A a \in Attempts, c \in Calls : InLane(a, c) => task'[a][c] = task[a][c] /\ task[a][c] # "none"
    BY <2>2, <2>3 DEF LanesInOrder, LanesRequested, InLane
  <2>5. \A a \in Attempts, c \in Calls : TaskOver(a, c) => task'[a][c] = task[a][c]
    BY <2>1, <2>3 DEF TaskOver
  <2>6. UNCHANGED lanes
    BY <1>2 DEF BatchRequest
  <2> QED BY <2>4, <2>5, <2>6, OrderKeptByProgress DEF TaskOver
<1>3. ASSUME NEW a \in Attempts, NEW c \in Calls, LaneStarts(a, c) PROVE LanesInOrder'
  <2>1. /\ lanes' = lanes /\ task[a][c] = "waiting"
        /\ \A p \in Previous(a, c) : TaskOver(a, p)
    BY <1>3 DEF LaneStarts
  <2>2. PICK t \in {"running", "answered"} : task' = [task EXCEPT ![a][c] = t]
    BY <1>3 DEF LaneStarts, Execute
  <2>3. \A b \in Attempts, d \in Calls :
          task'[b][d] = IF b = a /\ d = c THEN t ELSE task[b][d]
    BY <1>0, <2>2
  <2>4. ASSUME NEW b \in Attempts, NEW h \in Agents,
               NEW i \in DOMAIN lanes[b][h], NEW k \in DOMAIN lanes[b][h],
               i < k, task'[b][lanes[b][h][k]] # "waiting"
        PROVE  task'[b][lanes[b][h][i]] \in {"reported", "over", "aborted"}
    <3>0. lanes[b][h][i] \in Calls /\ lanes[b][h][k] \in Calls
      BY DEF LanesInOrder, LanesRequested
    <3>1. TaskOver(b, lanes[b][h][i])
      <4>1. CASE b = a /\ lanes[b][h][k] = c
        <5>1. /\ lanes[b][h] \in Seq(Calls) /\ k > 1 /\ k - 1 \in DOMAIN lanes[b][h]
              /\ i \in Nat /\ k \in Nat /\ i <= k - 1
          BY <1>0, <2>4
        <5>2. lanes[b][h][k - 1] \in Previous(a, c)
          BY <3>0, <4>1, <5>1 DEF Previous, LanesInOrder, LanesRequested
        <5>3. TaskOver(a, lanes[b][h][k - 1])
          BY <2>1, <5>2
        <5>4. CASE i = k - 1
          BY <4>1, <5>3, <5>4
        <5>5. CASE i < k - 1
          BY <4>1, <5>1, <5>3, <5>5 DEF LanesInOrder, Chain, TaskOver
        <5> QED BY <5>1, <5>4, <5>5
      <4>2. CASE ~(b = a /\ lanes[b][h][k] = c)
        BY <2>3, <2>4, <3>0, <4>2 DEF LanesInOrder, Chain
      <4> QED BY <4>1, <4>2
    <3>2. ~(b = a /\ lanes[b][h][i] = c)
      BY <2>1, <3>1 DEF TaskOver
    <3> QED BY <2>3, <3>0, <3>1, <3>2 DEF TaskOver
  <2>5. LanesRequested'
    BY <2>1, <2>3 DEF LanesInOrder, LanesRequested
  <2> QED BY <2>1, <2>4, <2>5 DEF LanesInOrder, Chain, TaskOver
<1>4. ASSUME NEW c \in Calls, BatchStarts(c) PROVE LanesInOrder'
  <2>1. /\ lanes' = lanes /\ task[attempt][c] = "waiting" /\ ~InLane(attempt, c)
    BY <1>4 DEF BatchStarts, InBatch
  <2>2. PICK t \in {"running", "answered"} : task' = [task EXCEPT ![attempt][c] = t]
    BY <1>4 DEF BatchStarts, Execute
  <2>3. \A b \in Attempts, d \in Calls :
          task'[b][d] = IF b = attempt /\ d = c THEN t ELSE task[b][d]
    BY <1>0, <2>2
  <2>4. \A b \in Attempts, d \in Calls : InLane(b, d) => task'[b][d] = task[b][d] /\ task[b][d] # "none"
    BY <2>1, <2>3 DEF LanesInOrder, LanesRequested, InLane
  <2>5. \A b \in Attempts, d \in Calls : TaskOver(b, d) => task'[b][d] = task[b][d]
    BY <2>1, <2>3 DEF TaskOver
  <2> QED BY <2>1, <2>4, <2>5, OrderKeptByProgress DEF TaskOver
<1>5. ASSUME UNCHANGED lanes,
             \A a \in Attempts, c \in Calls :
               \/ task'[a][c] = task[a][c]
               \/ task[a][c] = "running" /\ task'[a][c] \in {"answered", "aborted"}
               \/ task[a][c] = "answered" /\ task'[a][c] \in {"reported", "over"}
               \/ task[a][c] = "reported" /\ task'[a][c] = "over"
      PROVE  LanesInOrder'
  <2>1. \A a \in Attempts, c \in Calls : InLane(a, c) => task[a][c] # "none"
    BY DEF LanesInOrder, LanesRequested, InLane
  <2> QED BY <1>5, <2>1, OrderKeptByProgress DEF TaskOver
<1>6. ASSUME NEW a \in Attempts, NEW c \in Calls, LaneDelivers(a, c) PROVE LanesInOrder'
  BY <1>0, <1>5, <1>6 DEF LaneDelivers
<1>7. ASSUME NEW c \in Calls, BatchDelivers(c) PROVE LanesInOrder'
  BY <1>0, <1>5, <1>7 DEF BatchDelivers
<1>8. ASSUME NEW c \in Calls, TakeLaneEvent(c) PROVE LanesInOrder'
  BY <1>0, <1>5, <1>8 DEF TakeLaneEvent
<1>9. ASSUME NEW c \in Calls, ToolEnds(c) PROVE LanesInOrder'
  <2>1. \A a \in Attempts, d \in Calls :
          task'[a][d] = task[a][d] \/ (task[a][d] = "running" /\ task'[a][d] = "answered")
    BY <1>0, <1>9 DEF ToolEnds
  <2>2. UNCHANGED lanes
    BY <1>9 DEF ToolEnds
  <2> QED BY <1>5, <2>1, <2>2
<1>10. CASE Flush
  <2>1. \A a \in Attempts, c \in Calls :
          task'[a][c] = task[a][c] \/ (task[a][c] = "reported" /\ task'[a][c] = "over")
    BY <1>0, <1>10 DEF Flush, Reported
  <2>2. UNCHANGED lanes
    BY <1>10 DEF Flush
  <2> QED BY <1>5, <2>1, <2>2
<1>11. CASE CancelAll
  <2>1. \A a \in Attempts, c \in Calls :
          task'[a][c] = task[a][c] \/ (task[a][c] = "running" /\ task'[a][c] = "aborted")
    BY <1>0, <1>11 DEF CancelAll
  <2>2. UNCHANGED lanes
    BY <1>11 DEF CancelAll
  <2> QED BY <1>5, <2>1, <2>2
<1>12. CASE SeeClose \/ FinalFrame \/ AttemptFails \/ Settled \/ NextAttempt \/ UNCHANGED vars
  BY <1>5, <1>12 DEF SeeClose, FinalFrame, AttemptFails, Settled, NextAttempt, vars
<1>13. CASE Interrupt
  <2> DEFINE stopped == {c \in Awaited : task[attempt][c] = "running"
                           \/ (task[attempt][c] = "answered" /\ creator[c] = attempt)}
             Ends(a, c) == (a = attempt /\ c \in Awaited)
                             \/ (c \in stopped /\ task[a][c] = "running")
  <2>1. /\ lanes' = lanes
        /\ \A a \in Attempts, c \in Calls :
             task'[a][c] = IF Ends(a, c) THEN "aborted" ELSE task[a][c]
    BY <1>13 DEF Interrupt
  <2>2. ASSUME NEW a \in Attempts, NEW g \in Agents,
               NEW i \in DOMAIN lanes[a][g], NEW k \in DOMAIN lanes[a][g],
               i < k, task'[a][lanes[a][g][k]] # "waiting"
        PROVE  task'[a][lanes[a][g][i]] \in {"reported", "over", "aborted"}
    <3>0. lanes[a][g][i] \in Calls /\ lanes[a][g][k] \in Calls
      BY DEF LanesInOrder, LanesRequested
    <3>1. CASE task[a][lanes[a][g][k]] # "waiting"
      BY <2>1, <2>2, <3>0, <3>1 DEF LanesInOrder, Chain, TaskOver
    <3>2. CASE task[a][lanes[a][g][k]] = "waiting"
      <4>1. a = attempt /\ lanes[a][g][k] \in Awaited
        BY <2>1, <2>2, <3>0, <3>2
      <4>2. InLane(attempt, lanes[a][g][k]) /\ InLane(attempt, lanes[a][g][i])
        BY <4>1 DEF InLane
      <4>3. phase \in {"final", "dropped"}
        BY <4>1, <4>2 DEF Awaited, InBatch
      <4>4. lanes[a][g][i] \in Awaited \/ TaskOver(attempt, lanes[a][g][i])
        BY <3>0, <4>2, <4>3 DEF Awaited
      <4> QED BY <2>1, <3>0, <4>1, <4>4 DEF TaskOver
    <3> QED BY <3>1, <3>2
  <2>3. LanesRequested'
    BY <2>1 DEF LanesInOrder, LanesRequested
  <2> QED BY <2>1, <2>2, <2>3 DEF LanesInOrder, Chain, TaskOver
<1> QED
  BY <1>1, <1>2, <1>3, <1>4, <1>6, <1>7, <1>8, <1>9, <1>10, <1>11, <1>12, <1>13
  DEF Next, Consumer, Tasks, Ended

\* The requests of an agent run in order and one at a time, on lanes of any length.
THEOREM OrderKept == Spec => []LanesKeepOrder
<1>1. Init => LanesInOrder
  BY DEF Init, LanesInOrder, Chain, LanesRequested
<1>2. LanesInOrder => LanesKeepOrder
  BY DEF LanesInOrder, Chain, LanesKeepOrder
<1> QED BY <1>1, <1>2, InitTyped, StepTyped, StepOrder, PTL DEF Spec

----------------------------------------------------------------------------
(* Executions *)

\* While the turn runs, a call has been counted once if it has returned or runs, and
\* a call with a result runs no more.
Once ==
  phase # "ended" => \A c \in Calls :
    /\ c \in results => exec[c] = "idle"
    /\ ran[c] = IF c \in results \/ exec[c] \in {"running", "returned"} THEN 1 ELSE 0

LEMMA ExecuteOnce ==
  ASSUME Typed, Once, phase # "ended", NEW a \in Attempts, NEW c \in Calls,
         Execute(a, c), UNCHANGED <<phase, results>>
  PROVE  Once'
BY DEF Typed, TypeOK, Once, Execute

LEMMA LeaveOnce ==
  ASSUME Typed, Once, phase # "ended", NEW a \in Attempts, NEW c \in Calls,
         Leave(a, c), UNCHANGED ran
  PROVE  Once'
<1>1. /\ exec \in [Calls -> {"idle", "running", "returned", "raised"}]
      /\ \A d \in Calls : /\ d \in results => exec[d] = "idle"
                         /\ ran[d] = IF d \in results \/ exec[d] \in {"running", "returned"}
                                       THEN 1 ELSE 0
  BY DEF Typed, TypeOK, Once
<1>2. CASE creator[c] = a /\ exec[c] \in {"returned", "raised"}
  <2>1. /\ exec' = [exec EXCEPT ![c] = "idle"]
        /\ results' = IF exec[c] = "returned" THEN results \cup {c} ELSE results
    BY <1>2 DEF Leave
  <2>2. \A d \in Calls : exec'[d] = IF d = c THEN "idle" ELSE exec[d]
    BY <1>1, <2>1
  <2>3. CASE exec[c] = "returned"
    BY <1>1, <2>1, <2>2, <2>3 DEF Once
  <2>4. CASE exec[c] = "raised"
    BY <1>1, <2>1, <2>2, <2>4 DEF Once
  <2> QED BY <1>2, <2>3, <2>4
<1>3. CASE ~(creator[c] = a /\ exec[c] \in {"returned", "raised"})
  BY <1>1, <1>3 DEF Leave, Once
<1> QED BY <1>2, <1>3

LEMMA StepOnce ==
  Typed /\ Once /\ [Next]_vars => Once'
<1> SUFFICES ASSUME Typed, Once, [Next]_vars PROVE Once'
  OBVIOUS
<1> USE DEF stream, broker, node
<1>1. ASSUME NEW a \in Attempts, NEW c \in Calls, phase # "ended", LaneStarts(a, c) PROVE Once'
  BY <1>1, ExecuteOnce DEF LaneStarts
<1>2. ASSUME NEW c \in Calls, BatchStarts(c) PROVE Once'
  BY <1>2, ExecuteOnce DEF BatchStarts, InBatch, Typed, TypeOK
<1>3. ASSUME NEW a \in Attempts, NEW c \in Calls, phase # "ended", LaneDelivers(a, c) PROVE Once'
  BY <1>3, LeaveOnce DEF LaneDelivers
<1>4. ASSUME NEW c \in Calls, BatchDelivers(c) PROVE Once'
  BY <1>4, LeaveOnce DEF BatchDelivers, InBatch, Typed, TypeOK
<1>5. ASSUME NEW c \in Calls, ToolEnds(c) PROVE Once'
  BY <1>5 DEF ToolEnds, Typed, TypeOK, Once
<1>6. CASE CancelAll
  BY <1>6 DEF CancelAll, Abort, InFlight, Typed, TypeOK, Once
<1>7. CASE Interrupt
  BY <1>7 DEF Interrupt, Once
<1>8. ASSUME phase = "ended" => phase' = "ended", UNCHANGED <<exec, ran, results>> PROVE Once'
  BY <1>8 DEF Once
<1>9. ASSUME NEW g \in Agents, NEW c \in Calls, LaneRequest(g, c) PROVE Once'
  BY <1>8, <1>9 DEF LaneRequest
<1>10. ASSUME NEW cs \in SUBSET BatchCalls, BatchRequest(cs) PROVE Once'
  BY <1>8, <1>10 DEF BatchRequest
<1>11. ASSUME NEW c \in Calls, TakeLaneEvent(c) PROVE Once'
  BY <1>8, <1>11 DEF TakeLaneEvent
<1>12. CASE Flush \/ SeeClose \/ FinalFrame \/ AttemptFails \/ Settled \/ NextAttempt \/ UNCHANGED vars
  BY <1>8, <1>12 DEF Flush, SeeClose, FinalFrame, AttemptFails, Settled, NextAttempt, vars
<1> QED
  BY <1>1, <1>2, <1>3, <1>4, <1>5, <1>6, <1>7, <1>9, <1>10, <1>11, <1>12
  DEF Next, Consumer, Tasks, Ended

\* No call runs twice at once, nor again after it returned, in a running turn.
THEOREM NeverTwice == Spec => []NeverRunsTwice
<1>1. Init => Once
  BY DEF Init, Once
<1>2. Once => NeverRunsTwice
  BY DEF Once, NeverRunsTwice
<1> QED BY <1>1, <1>2, InitTyped, StepTyped, StepOnce, PTL DEF Spec

\* Calls run in the order of their agents, and never again.
THEOREM CallsStayOrderly == Spec => []CallsAreOrderly
<1>1. NeverRunsTwice /\ LanesKeepOrder => CallsAreOrderly
  BY DEF CallsAreOrderly
<1> QED BY <1>1, OrderKept, NeverTwice, PTL

----------------------------------------------------------------------------
(* Settling *)

\* A call that is pending has a task of this attempt that will report it: on a lane,
\* or in the batch that is awaited.
Unreported(c) == task[attempt][c] \in {"waiting", "running", "answered", "reported"}

PendingOpen ==
  ~cancelled =>
    /\ phase \in {"between", "flushed"} => pending = {}
    /\ phase \in {"reading", "batch", "final", "dropped"} =>
         \A c \in pending : Unreported(c) /\ (InLane(attempt, c) \/ InBatch(c))

\* When the last of every lane is over, so are all.
LEMMA LanesOverAll ==
  ASSUME Typed, LanesInOrder, LanesOver, NEW c \in Calls, InLane(attempt, c)
  PROVE  TaskOver(attempt, c)
<1>1. attempt \in Attempts /\ lanes \in [Attempts -> [Agents -> Seq(Calls)]]
  BY DEF Typed, TypeOK
<1>2. PICK g \in Agents : \E i \in DOMAIN lanes[attempt][g] : lanes[attempt][g][i] = c
  BY DEF InLane
<1>3. PICK i \in DOMAIN lanes[attempt][g] : lanes[attempt][g][i] = c
  BY <1>2
<1> DEFINE lane == lanes[attempt][g]
<1>4. lane \in Seq(Calls) /\ lane # <<>> /\ i \in 1..Len(lane) /\ Len(lane) \in DOMAIN lane
  BY <1>1, <1>3
<1>5. TaskOver(attempt, lane[Len(lane)])
  BY <1>4 DEF LanesOver
<1>6. CASE i = Len(lane)
  BY <1>3, <1>5, <1>6
<1>7. CASE i < Len(lane)
  BY <1>1, <1>3, <1>4, <1>5, <1>7 DEF LanesInOrder, Chain, TaskOver
<1> QED BY <1>4, <1>6, <1>7

LEMMA StepPending ==
  Typed /\ LanesInOrder /\ PendingOpen /\ [Next]_vars => PendingOpen'
<1> SUFFICES ASSUME Typed, LanesInOrder, PendingOpen, [Next]_vars, ~cancelled'
             PROVE  PendingOpen'
  BY DEF PendingOpen
<1> USE DEF stream, broker, node
<1>0. /\ attempt \in Attempts
      /\ task \in [Attempts -> [Calls -> TaskStates]]
      /\ lanes \in [Attempts -> [Agents -> Seq(Calls)]]
      /\ pending \subseteq Calls
  BY DEF Typed, TypeOK
<1>1. ASSUME NEW g \in Agents, NEW c \in Calls, LaneRequest(g, c) PROVE PendingOpen'
  <2>1. /\ phase = "reading" /\ phase' = phase /\ attempt' = attempt /\ ~cancelled
        /\ pending' = pending \cup {c} /\ task' = [task EXCEPT ![attempt][c] = "waiting"]
        /\ lanes' = [lanes EXCEPT ![attempt][g] = Append(@, c)]
    BY <1>1 DEF LaneRequest, Requested
  <2>2. \A d \in pending : Unreported(d) /\ InLane(attempt, d)
    BY <2>1 DEF PendingOpen, InBatch
  <2>3. ASSUME NEW d \in pending' PROVE Unreported(d)'
    BY <1>0, <2>1, <2>2 DEF Unreported
  <2>4. ASSUME NEW d \in pending' PROVE InLane(attempt, d)'
    <3>1. lanes[attempt][g] \in Seq(Calls) /\ lanes'[attempt][g] = Append(lanes[attempt][g], c)
      BY <1>0, <2>1
    <3>2. CASE d = c
      <4>1. lanes'[attempt][g][Len(lanes[attempt][g]) + 1] = c
            /\ Len(lanes[attempt][g]) + 1 \in DOMAIN lanes'[attempt][g]
        BY <3>1
      <4> QED BY <2>1, <3>2, <4>1 DEF InLane
    <3>3. CASE d \in pending
      <4>0. PICK h \in Agents : \E i \in DOMAIN lanes[attempt][h] : lanes[attempt][h][i] = d
        BY <2>2, <3>3 DEF InLane
      <4>1. PICK i \in DOMAIN lanes[attempt][h] : lanes[attempt][h][i] = d
        BY <4>0
      <4>2. i \in DOMAIN lanes'[attempt][h] /\ lanes'[attempt][h][i] = d
        <5>1. CASE h = g
          BY <3>1, <4>1, <5>1
        <5>2. CASE h # g
          BY <1>0, <2>1, <4>1, <5>2
        <5> QED BY <5>1, <5>2
      <4> QED BY <2>1, <4>2 DEF InLane
    <3> QED BY <2>1, <3>2, <3>3
  <2> QED BY <2>1, <2>3, <2>4 DEF PendingOpen
<1>2. ASSUME NEW cs \in SUBSET BatchCalls, BatchRequest(cs) PROVE PendingOpen'
  <2>1. /\ phase = "reading" /\ phase' = "batch" /\ attempt' = attempt /\ ~cancelled
        /\ lanes' = lanes /\ pending' = pending \cup cs /\ cs \subseteq Calls
        /\ \A c \in cs : task[attempt][c] = "none"
    BY <1>2, BoundsAssumption DEF BatchRequest, Requested, New
  <2>2. \A c \in Calls : task'[attempt][c] = IF c \in cs THEN "waiting" ELSE task[attempt][c]
    BY <1>0, <1>2 DEF BatchRequest
  <2>3. \A c \in cs : ~InLane(attempt, c)
    BY <1>0, <2>1 DEF LanesInOrder, LanesRequested, InLane
  <2>4. \A c \in pending : Unreported(c) /\ InLane(attempt, c)
    BY <2>1 DEF PendingOpen, InBatch
  <2> QED BY <1>0, <2>1, <2>2, <2>3, <2>4 DEF PendingOpen, Unreported, InLane, InBatch
<1>3. ASSUME UNCHANGED <<phase, attempt, lanes, pending, cancelled>>,
             \A c \in Calls : \/ task'[attempt][c] = task[attempt][c]
                              \/ /\ task[attempt][c] \in {"waiting", "running"}
                                 /\ task'[attempt][c] \in {"running", "answered"}
      PROVE  PendingOpen'
  <2>1. \A c \in Calls : Unreported(c) => Unreported(c)'
    BY <1>3 DEF Unreported
  <2>2. \A c \in Calls : InLane(attempt, c) => InLane(attempt, c)'
    BY <1>3 DEF InLane
  <2>3. \A c \in Calls : InBatch(c) => InBatch(c)'
    BY <1>3 DEF InBatch, InLane
  <2> QED BY <1>0, <1>3, <2>1, <2>2, <2>3 DEF PendingOpen
<1>4. ASSUME NEW a \in Attempts, NEW c \in Calls, LaneStarts(a, c) PROVE PendingOpen'
  <2>1. PICK t \in {"running", "answered"} : task' = [task EXCEPT ![a][c] = t]
    BY <1>4 DEF LaneStarts, Execute
  <2> QED BY <1>0, <1>3, <1>4, <2>1 DEF LaneStarts
<1>5. ASSUME NEW c \in Calls, BatchStarts(c) PROVE PendingOpen'
  <2>1. PICK t \in {"running", "answered"} : task' = [task EXCEPT ![attempt][c] = t]
    BY <1>5 DEF BatchStarts, Execute
  <2> QED BY <1>0, <1>3, <1>5, <2>1 DEF BatchStarts
<1>6. ASSUME NEW c \in Calls, ToolEnds(c) PROVE PendingOpen'
  <2>1. \A d \in Calls : \/ task'[attempt][d] = task[attempt][d]
                         \/ /\ task[attempt][d] = "running" /\ task'[attempt][d] = "answered"
    BY <1>0, <1>6 DEF ToolEnds
  <2>2. UNCHANGED <<phase, attempt, lanes, pending, cancelled>>
    BY <1>6 DEF ToolEnds
  <2> QED BY <1>3, <2>1, <2>2
<1>7. ASSUME NEW a \in Attempts, NEW c \in Calls, LaneDelivers(a, c) PROVE PendingOpen'
  <2>1. /\ UNCHANGED <<phase, attempt, lanes, pending, cancelled>>
        /\ task[a][c] = "answered" /\ InLane(a, c)
        /\ task' = [task EXCEPT ![a][c] = IF Streaming(a) THEN "reported" ELSE "over"]
    BY <1>7 DEF LaneDelivers
  <2>2. CASE phase \in {"reading", "batch", "final", "dropped"}
    <3>1. \A d \in pending : Unreported(d)'
      BY <1>0, <2>1, <2>2 DEF PendingOpen, Unreported, Streaming
    <3>2. \A d \in Calls : InLane(attempt, d) => InLane(attempt, d)'
      BY <2>1 DEF InLane
    <3>3. \A d \in Calls : InBatch(d) => InBatch(d)'
      BY <1>0, <2>1 DEF InBatch, InLane
    <3> QED BY <1>0, <2>1, <2>2, <3>1, <3>2, <3>3 DEF PendingOpen
  <2>3. CASE phase \notin {"reading", "batch", "final", "dropped"}
    BY <2>1, <2>3 DEF PendingOpen
  <2> QED BY <2>2, <2>3
<1>8. ASSUME NEW c \in Calls, BatchDelivers(c) PROVE PendingOpen'
  <2>1. /\ UNCHANGED <<attempt, lanes, cancelled>> /\ pending' = pending \ {c} /\ phase = "batch"
        /\ task' = [task EXCEPT ![attempt][c] = "over"]
        /\ phase' \in {"batch", "dropped", "reading"}
        /\ (\E d \in Calls \ {c} : InBatch(d)) => phase' = "batch"
    BY <1>8 DEF BatchDelivers, Answered, InBatch
  <2>2. ASSUME NEW d \in pending' PROVE Unreported(d)' /\ (InLane(attempt, d)' \/ InBatch(d)')
    <3>1. d \in Calls \ {c} /\ Unreported(d) /\ (InLane(attempt, d) \/ InBatch(d))
      BY <1>0, <2>1 DEF PendingOpen
    <3>2. task'[attempt][d] = task[attempt][d]
      BY <1>0, <2>1, <3>1
    <3> QED BY <2>1, <3>1, <3>2 DEF Unreported, InLane, InBatch
  <2> QED BY <2>1, <2>2 DEF PendingOpen
<1>9. ASSUME NEW c \in Calls, TakeLaneEvent(c) PROVE PendingOpen'
  <2>1. /\ UNCHANGED <<attempt, lanes, cancelled>> /\ pending' = pending \ {c} /\ phase = "reading"
        /\ task' = [task EXCEPT ![attempt][c] = "over"] /\ phase' \in {"reading", "dropped"}
    BY <1>9 DEF TakeLaneEvent, Answered
  <2>2. ASSUME NEW d \in pending' PROVE Unreported(d)' /\ InLane(attempt, d)'
    <3>1. d \in Calls \ {c} /\ Unreported(d) /\ InLane(attempt, d)
      BY <1>0, <2>1 DEF PendingOpen, InBatch
    <3>2. task'[attempt][d] = task[attempt][d]
      BY <1>0, <2>1, <3>1
    <3> QED BY <2>1, <3>1, <3>2 DEF Unreported, InLane
  <2> QED BY <2>1, <2>2 DEF PendingOpen
<1>10. CASE Flush
  <2>1. /\ phase \in {"final", "dropped"} /\ LanesOver /\ pending' = pending \ Reported
        /\ phase' = "flushed" /\ UNCHANGED cancelled
    BY <1>10 DEF Flush, Answered
  <2>2. \A c \in pending : Unreported(c) /\ InLane(attempt, c)
    BY <2>1 DEF PendingOpen, InBatch
  <2>3. pending \subseteq Reported
    BY <1>0, <2>1, <2>2, LanesOverAll DEF Unreported, TaskOver, Reported
  <2> QED BY <2>1, <2>3 DEF PendingOpen
<1>11. CASE SeeClose \/ FinalFrame \/ AttemptFails
  <2>1. /\ UNCHANGED <<attempt, lanes, task, pending, cancelled>> /\ phase = "reading"
        /\ phase' \in {"final", "dropped", "failed"}
    BY <1>11 DEF SeeClose, FinalFrame, AttemptFails
  <2> QED BY <2>1 DEF PendingOpen, Unreported, InLane, InBatch
<1>12. CASE Settled
  BY <1>12 DEF Settled, Settle, PendingOpen
<1>13. CASE NextAttempt
  BY <1>13 DEF NextAttempt, PendingOpen
<1>14. CASE Interrupt
  BY <1>14 DEF Interrupt, PendingOpen
<1>15. CASE UNCHANGED vars
  BY <1>15 DEF vars, PendingOpen, Unreported, InLane, InBatch
<1> QED
  BY <1>1, <1>2, <1>4, <1>5, <1>6, <1>7, <1>8, <1>9, <1>10, <1>11, <1>12, <1>13, <1>14, <1>15
  DEF Next, Consumer, Tasks, Ended, CancelAll

\* An attempt that ended with a final frame or a dropped socket leaves no call
\* pending, with lanes and batches of any length.
THEOREM CallsAreSettled == Spec => []EveryCallIsSettled
<1>1. Init => PendingOpen /\ LanesInOrder
  BY DEF Init, PendingOpen, LanesInOrder, Chain, LanesRequested
<1>2. PendingOpen => EveryCallIsSettled
  BY DEF PendingOpen, EveryCallIsSettled
<1> QED BY <1>1, <1>2, InitTyped, StepTyped, StepOrder, StepPending, PTL DEF Spec

===============================================================================
