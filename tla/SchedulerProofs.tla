-------------------------- MODULE SchedulerProofs --------------------------
(***************************************************************************)
(* Theorems about what is run side by side for the user.                   *)
(*                                                                         *)
(* ValidateRun, for every valid configuration of any checks and stages.  A *)
(* check that runs says something about checks that ran before it, so the  *)
(* invariant has to know the schedule: which selected checks still have no *)
(* result, which have one, and that a check is only opened when everything *)
(* it is ordered after has a result.                                       *)
(*                                                                         *)
(* Review, for any agent checks, numbers of reviews and files.             *)
(*                                                                         *)
(* ToolBatch, for batches of every size, every plan of the members and     *)
(* every number of read slots, and BackgroundShell, for every set of       *)
(* commands and any number of turns.                                       *)
(***************************************************************************)
EXTENDS ValidateRun, Review, ToolBatch, BackgroundShell, FiniteSetTheorems,
        WellFoundedInduction, TLAPS

Active == phase \in {"waves", "builtins", "reviews"}

\* No more reviews are out than the check has.
Counted == \A c \in Checks : reviews[c].queued + reviews[c].running <= Reviews

\* Where the selected checks stand: later stages and remaining checks have no result,
\* earlier stages and earlier waves have one.
Schedule ==
  /\ graph \in Graphs
  /\ \A c \in remaining \cup wave : c \in Selected /\ graph.stage[c] = stage
  /\ remaining \cap wave = {}
  /\ phase = "waves" => wave = {}
  /\ \A c \in Checks : results[c] \in Answers => c \in Selected /\ graph.stage[c] <= stage
  /\ Active => \A c \in Selected :
       /\ c \in remaining \/ graph.stage[c] > stage => results[c] = "none"
       /\ graph.stage[c] <= stage /\ c \notin remaining \cup wave => results[c] # "none"

\* What a running check is ordered after has its result.
Ordered ==
  \A c \in Checks : Ran(c) =>
    \A d \in (graph.requires[c] \cup graph.after[c]) \cap Selected : results[d] # "none"

\* A blocking failure has halted the run, or its gate has not been reached yet.
Halted ==
  Active => \A d \in Selected \cap graph.blocking : Failing(d) =>
    /\ gate = "stage" => halt \/ graph.stage[d] >= stage
    /\ gate = "strict" => halt \/ d \in wave

\* The parts that speak of the results.
Order == Schedule /\ Ordered /\ Halted /\ PrerequisitesHold /\ GateStops

Inv == TypeOK /\ Counted /\ Order
--------------------------------------------------------------------------------

\* The configuration and the selection are fixed when the run starts.
LEMMA OptionsFixed ==
  ASSUME UNCHANGED options
  PROVE  /\ graph' = graph /\ selection' = selection /\ gate' = gate
         /\ Selected' = Selected
BY DEF options, Selected, InTime, Chosen, HardPrerequisites

LEMMA SelectedEnabled == graph \in Graph => Selected \subseteq Checks \cap graph.enabled
BY DEF Selected, InTime, Chosen, Graph

\* The review counters of a check that starts, or has ended, its reviews.
LEMMA FreshReviews ==
  /\ NoReviews \in ReviewState /\ NoReviews.queued + NoReviews.running <= Reviews
  /\ NewReviews \in ReviewState /\ NewReviews.queued + NewReviews.running <= Reviews
BY RunAssumption DEF NoReviews, NewReviews, ReviewState

THEOREM InitInv == Init => Inv
<1> SUFFICES ASSUME Init PROVE Inv
  OBVIOUS
<1> USE DEF Init
<1>1. graph \in Graph /\ graph \in Graphs /\ selection \in Selection
  BY RunAssumption
<1>2. \A c \in Checks : results[c] \in {"none", "--skip", "SKIPPED"}
                        /\ (c \in Selected => results[c] = "none")
  BY DEF Unselected
<1>3. results \in [Checks -> Results]
  BY <1>2 DEF Results
<1>4. remaining \subseteq Selected /\ Selected \subseteq Checks
      /\ \A c \in Checks : c \in remaining <=> c \in Selected /\ graph.stage[c] = 1
  BY <1>1, SelectedEnabled DEF InStage
<1>5. TypeOK
  <2>1. 1 \in 1..(LastStage + 1)
    BY RunAssumption
  <2>2. reviews \in [Checks -> ReviewState]
    BY FreshReviews
  <2> QED
    BY <1>1, <1>3, <1>4, <2>1, <2>2 DEF TypeOK, Phases
<1>6. Counted
  BY FreshReviews DEF Counted
<1>7. \A c \in Checks : ~Ran(c)
  BY <1>2 DEF Ran, UnderReview, Answers
<1>8. Schedule
  <2>1. \A c \in Checks : graph.stage[c] \in 1..LastStage
    BY <1>1 DEF Graph
  <2> QED
    BY <1>1, <1>2, <1>4, <2>1, RunAssumption DEF Schedule, Answers
<1>9. \A c \in Checks : ~Failing(c)
  BY <1>2 DEF Failing
<1> QED
  BY <1>4, <1>5, <1>6, <1>7, <1>8, <1>9
     DEF Inv, Order, Ordered, Halted, PrerequisitesHold, GateStops

--------------------------------------------------------------------------------
(* What a step that opens a wave may do to the results.                     *)

LEMMA OpenWaveResults ==
  ASSUME TypeOK, Schedule, OpenWave
  PROVE  /\ \A c \in Ready : /\ c \in Checks /\ results[c] = "none"
                             /\ Runs(c) => results'[c] \in Answers \cup {"none"}
                             /\ ~Runs(c) => results'[c] = "SKIPPED"
         /\ \A c \in Checks \ Ready : results'[c] = results[c]
         /\ results' \in [Checks -> Results]
         /\ \A c \in Checks : reviews'[c] \in {NewReviews, reviews[c]}
         /\ reviews' \in [Checks -> ReviewState]
         /\ phase' \in {"builtins", "reviews"}
<1>1. PICK quick \in SUBSET Agents, answer \in [Ready -> Answers] : StartChecks(quick, answer)
  BY DEF OpenWave
<1> DEFINE answered == {c \in Ready : Runs(c)} \ (Agents \ quick)
<1>2. \A c \in Ready : c \in Checks /\ results[c] = "none"
  BY DEF Ready, Schedule, Active, TypeOK, OpenWave
<1>3. \A c \in answered : answer[c] \in Answers
  OBVIOUS
<1>4. results' = [c \in Checks |->
         IF c \in answered THEN answer[c]
         ELSE IF c \in Ready /\ ~Runs(c) THEN "SKIPPED" ELSE results[c]]
  BY <1>1 DEF StartChecks
<1>5. reviews' = [c \in Checks |-> IF c \in Agents \ quick THEN NewReviews ELSE reviews[c]]
  BY <1>1 DEF StartChecks
<1>6. answered \subseteq {c \in Ready : Runs(c)}
  OBVIOUS
<1> HIDE DEF answered
<1>7. \A c \in Checks : results'[c] \in Results
  BY <1>3, <1>4 DEF Results, TypeOK
<1>8. \A c \in Checks : reviews'[c] \in {NewReviews, reviews[c]} /\ reviews'[c] \in ReviewState
  BY <1>5, FreshReviews DEF TypeOK
<1>9. phase' \in {"builtins", "reviews"}
  BY DEF OpenWave
<1>10. results' \in [Checks -> Results] /\ reviews' \in [Checks -> ReviewState]
  BY <1>4, <1>5, <1>7, <1>8
<1>11. \A c \in Ready : /\ Runs(c) => results'[c] \in Answers \cup {"none"}
                        /\ ~Runs(c) => results'[c] = "SKIPPED"
  BY <1>2, <1>3, <1>4, <1>6
<1>12. \A c \in Checks \ Ready : results'[c] = results[c]
  BY <1>4, <1>6
<1> QED
  BY <1>2, <1>8, <1>9, <1>10, <1>11, <1>12

\* What the other steps may do to the results.
LEMMA CheckEndsResults ==
  ASSUME TypeOK, NEW k \in Checks, CheckEnds(k)
  PROVE  /\ k \in wave /\ results[k] = "none" /\ phase = "reviews"
         /\ results'[k] \in Answers
         /\ \A c \in Checks \ {k} : results'[c] = results[c]
         /\ results' \in [Checks -> Results]
         /\ reviews' \in [Checks -> ReviewState]
         /\ \A c \in Checks : reviews'[c] \in {NoReviews, reviews[c]}
<1>1. PICK answer \in CanAnswer(k) : results' = [results EXCEPT ![k] = answer]
  BY DEF CheckEnds
<1>2. answer \in Answers
  BY <1>1 DEF CanAnswer
<1> QED
  BY <1>1, <1>2, FreshReviews DEF CheckEnds, TypeOK, Results

--------------------------------------------------------------------------------
(* Types.                                                                   *)

LEMMA TypeStep == TypeOK /\ Counted /\ Schedule /\ [Next]_vars => TypeOK' /\ Counted'
<1> SUFFICES ASSUME TypeOK, Counted, Schedule, [Next]_vars PROVE TypeOK' /\ Counted'
  OBVIOUS
<1> USE DEF TypeOK, Counted
<1>1. CASE OpenWave
  <2>1. Ready \subseteq Checks
    BY DEF Ready
  <2> QED
    BY <1>1, <2>1, OpenWaveResults, FreshReviews DEF OpenWave, options, Phases
<1>2. ASSUME NEW c \in Checks, TakeSlot(c) PROVE TypeOK' /\ Counted'
  <2>1. reviews[c] \in ReviewState /\ reviews[c].queued + reviews[c].running <= Reviews
        /\ reviews[c].queued > 0
    BY <1>2 DEF TakeSlot
  <2>2. reviews' = [reviews EXCEPT ![c] = [reviews[c] EXCEPT !.queued = @ - 1,
                      !.running = IF usage THEN @ ELSE @ + 1, !.failed = @ \/ usage]]
    BY <1>2 DEF TakeSlot
  <2> DEFINE failed == reviews[c].failed \/ usage
             running == IF usage THEN reviews[c].running ELSE reviews[c].running + 1
  <2>6. reviews'[c] = [queued |-> reviews[c].queued - 1, running |-> running,
                       failed |-> failed, limited |-> reviews[c].limited]
    BY <2>1, <2>2 DEF ReviewState
  <2>7. failed \in BOOLEAN
    BY <2>1 DEF ReviewState
  <2>8. /\ reviews[c].queued - 1 \in 0..Reviews /\ running \in 0..Reviews
        /\ reviews[c].queued - 1 + running <= Reviews
    BY <2>1, RunAssumption DEF ReviewState
  <2> HIDE DEF failed, running
  <2>3. /\ reviews'[c] \in ReviewState
        /\ reviews'[c].queued + reviews'[c].running <= Reviews
    BY <2>1, <2>6, <2>7, <2>8 DEF ReviewState
  <2>4. \A k \in Checks \ {c} : reviews'[k] = reviews[k]
    BY <2>2
  <2>5. reviews' \in [Checks -> ReviewState]
    BY <2>2, <2>3, <2>4
  <2> QED
    BY <1>2, <2>3, <2>4, <2>5 DEF TakeSlot, options
<1>3. ASSUME NEW c \in Checks, ReviewEnds(c) PROVE TypeOK' /\ Counted'
  <2>1. PICK failed \in BOOLEAN, limited \in BOOLEAN :
          reviews' = [reviews EXCEPT ![c] = [reviews[c] EXCEPT !.running = @ - 1,
                        !.failed = @ \/ failed, !.limited = @ \/ limited]]
    BY <1>3 DEF ReviewEnds
  <2>2. reviews[c] \in ReviewState /\ reviews[c].queued + reviews[c].running <= Reviews
        /\ reviews[c].running > 0
    BY <1>3 DEF ReviewEnds
  <2> DEFINE anyFailed == reviews[c].failed \/ failed
             anyLimited == reviews[c].limited \/ limited
  <2>6. reviews'[c] = [queued |-> reviews[c].queued, running |-> reviews[c].running - 1,
                       failed |-> anyFailed, limited |-> anyLimited]
    BY <2>1, <2>2 DEF ReviewState
  <2>7. anyFailed \in BOOLEAN /\ anyLimited \in BOOLEAN
    BY <2>2 DEF ReviewState
  <2>8. /\ reviews[c].running - 1 \in 0..Reviews
        /\ reviews[c].queued + (reviews[c].running - 1) <= Reviews
    BY <2>2, RunAssumption DEF ReviewState
  <2> HIDE DEF anyFailed, anyLimited
  <2>3. /\ reviews'[c] \in ReviewState
        /\ reviews'[c].queued + reviews'[c].running <= Reviews
    BY <2>2, <2>6, <2>7, <2>8 DEF ReviewState
  <2>4. \A k \in Checks \ {c} : reviews'[k] = reviews[k]
    BY <2>1
  <2>5. reviews' \in [Checks -> ReviewState]
    BY <2>1, <2>3, <2>4
  <2> QED
    BY <1>3, <2>3, <2>4, <2>5 DEF ReviewEnds, options
<1>4. ASSUME NEW c \in Checks, CheckEnds(c) PROVE TypeOK' /\ Counted'
  <2>1. usage' \in BOOLEAN
    BY <1>4 DEF CheckEnds
  <2> QED
    BY <1>4, <2>1, CheckEndsResults, FreshReviews DEF CheckEnds, options
<1>5. CASE CheckRaises
  BY <1>5 DEF CheckRaises, options, Phases
<1>6. CASE CloseWave
  BY <1>6 DEF CloseWave, options, Phases
<1>7. CASE CloseStage
  <2>1. stage' \in 1..(LastStage + 1) /\ InStage(stage + 1) \subseteq Checks
    BY <1>7, SelectedEnabled, RunAssumption DEF CloseStage, InStage
  <2> QED
    BY <1>7, <2>1 DEF CloseStage, options
<1>8. CASE Finish
  BY <1>8 DEF Finish, options, Phases
<1>9. CASE Interrupt
  <2>1. \A c \in Checks : AfterInterrupt(c) \in Results
    BY DEF AfterInterrupt, Results
  <2> QED
    BY <1>9, <2>1, FreshReviews DEF Interrupt, options, Phases
<1>10. CASE UNCHANGED vars
  BY <1>10 DEF vars, options
<1> QED
  BY <1>1, <1>2, <1>3, <1>4, <1>5, <1>6, <1>7, <1>8, <1>9, <1>10 DEF Next, Step, Over

--------------------------------------------------------------------------------
(* The schedule and what hangs on it, step by step.                         *)

\* A step that only counts reviews, or ends the run, disturbs nothing.
Quiet ==
  /\ UNCHANGED <<options, stage, remaining, wave, halt, results>>
  /\ phase' \in {phase, "ended", "raised"}

LEMMA QuietStep == TypeOK /\ Order /\ Quiet => Order'
<1> SUFFICES ASSUME TypeOK, Order, Quiet PROVE Order'
  OBVIOUS
<1>1. /\ graph' = graph /\ gate' = gate /\ Selected' = Selected
      /\ results' = results /\ wave' = wave /\ remaining' = remaining
      /\ stage' = stage /\ halt' = halt
  BY OptionsFixed DEF Quiet
<1>2. Active' => Active /\ phase' = phase
  BY DEF Active, Quiet
<1>3. phase' = "waves" => phase = "waves"
  BY DEF Quiet
<1>4. \A c \in Checks : (Ran(c)' <=> Ran(c)) /\ (Failing(c)' <=> Failing(c))
  BY <1>1 DEF Ran, UnderReview, Failing
<1>5. Schedule'
  BY <1>1, <1>2, <1>3 DEF Order, Schedule
<1>6. Ordered' /\ PrerequisitesHold'
  BY <1>1, <1>4 DEF Order, Ordered, PrerequisitesHold
<1>7. \A d \in Selected : Failing(d)' <=> Failing(d)
  BY <1>4, SelectedEnabled DEF TypeOK
<1>8. Halted'
  BY <1>1, <1>2, <1>7 DEF Order, Halted
<1>9. GateStops'
  BY <1>1, <1>4, <1>7 DEF Order, GateStops
<1> QED
  BY <1>5, <1>6, <1>8, <1>9 DEF Order

LEMMA OpenWaveStep == TypeOK /\ Order /\ OpenWave => Order'
<1> SUFFICES ASSUME TypeOK, Order, OpenWave PROVE Order'
  OBVIOUS
<1>1. /\ graph' = graph /\ gate' = gate /\ Selected' = Selected
      /\ stage' = stage /\ halt' = halt
      /\ wave' = Ready /\ remaining' = remaining \ Ready /\ wave = {}
      /\ Active /\ Active' /\ phase' # "waves"
  BY OptionsFixed DEF OpenWave, Order, Schedule, Active
<1>2. /\ \A c \in Ready : /\ c \in Checks /\ results[c] = "none"
                          /\ Runs(c) => results'[c] \in Answers \cup {"none"}
                          /\ ~Runs(c) => results'[c] = "SKIPPED"
      /\ \A c \in Checks \ Ready : results'[c] = results[c]
      /\ results' \in [Checks -> Results]
  BY OpenWaveResults DEF Order
<1>3. \A c \in Ready : c \in remaining /\ c \in Selected /\ graph.stage[c] = stage
                       /\ (graph.requires[c] \cup graph.after[c]) \cap remaining = {}
  BY DEF Ready, Waits, Order, Schedule
\* A check opened now runs only if it may; one that ran before is not disturbed.
<1>4. \A c \in Checks : Ran(c)' => (c \in Ready /\ Runs(c)) \/ (c \notin Ready /\ Ran(c))
  BY <1>1, <1>2 DEF Ran, UnderReview, Answers
<1>5. \A c \in Checks : results[c] # "none" => results'[c] = results[c] /\ c \notin Ready
  BY <1>2
<1>6. graph \in Graph /\ Selected \subseteq Checks /\ Valid(graph)
  BY SelectedEnabled, RunAssumption DEF TypeOK, Order, Schedule
<1>7. Schedule'
  <2>1. \A c \in Selected : c \in (remaining \ Ready) \/ graph.stage[c] > stage
                              => results'[c] = "none"
    BY <1>1, <1>2, <1>3, <1>6 DEF Order, Schedule, TypeOK, Graph
  <2>2. \A c \in Selected : graph.stage[c] <= stage /\ c \notin (remaining \ Ready) \cup Ready
                              => results'[c] # "none"
    BY <1>1, <1>5, <1>6 DEF Order, Schedule
  <2>3. \A c \in Checks : results'[c] \in Answers => c \in Selected /\ graph.stage[c] <= stage
    BY <1>2, <1>3, <1>6 DEF Order, Schedule, TypeOK, Graph
  <2> QED
    BY <1>1, <1>3, <2>1, <2>2, <2>3 DEF Order, Schedule
\* What an opened check is ordered after has been opened earlier.
<1>8. \A c \in Ready : \A d \in (graph.requires[c] \cup graph.after[c]) \cap Selected :
        results[d] # "none"
  <2> SUFFICES ASSUME NEW c \in Ready,
                      NEW d \in (graph.requires[c] \cup graph.after[c]) \cap Selected
               PROVE  results[d] # "none"
    OBVIOUS
  <2>1. graph.stage[d] <= stage
    BY <1>2, <1>3, <1>6 DEF Valid
  <2>2. d \notin remaining
    BY <1>3
  <2> QED
    BY <1>1, <2>1, <2>2 DEF Order, Schedule
<1>9. Ordered'
  BY <1>1, <1>4, <1>5, <1>6, <1>8 DEF Order, Ordered
<1>10. PrerequisitesHold'
  <2> SUFFICES ASSUME NEW c \in Checks, Ran(c)', NEW d \in graph.requires[c] \cap graph.enabled
               PROVE  \/ results'[d] \in {"PASS", "WARN", "--skip"}
                      \/ results'[d] = "ERROR" /\ ~graph.errorBlocks
    BY <1>1 DEF PrerequisitesHold
  <2>1. d \in Checks
    BY <1>6 DEF Graph
  <2>2. CASE c \in Ready /\ Runs(c)
    <3>1. results[d] # "none" /\ ~Failing(d) /\ results[d] # "SKIPPED"
      BY <2>2 DEF Runs, Blocked
    <3> QED
      BY <2>1, <3>1, <1>5 DEF TypeOK, Failing, Results, Answers
  <2>3. CASE Ran(c)
    BY <2>1, <2>3, <1>5 DEF Order, PrerequisitesHold
  <2> QED
    BY <1>4, <2>2, <2>3
\* A failing check either failed before, or has just failed in this wave.
<1>11. \A d \in Checks : Failing(d)' => (Failing(d) /\ d \notin Ready) \/ d \in Ready
  BY <1>1, <1>2 DEF Failing
<1>12. Halted'
  BY <1>1, <1>3, <1>6, <1>11 DEF Order, Halted, TypeOK, Graph
<1>13. GateStops'
  <2> SUFFICES ASSUME NEW c \in Checks, NEW d \in graph.blocking,
                      Ran(c)', c \notin graph.ungated, d \in Selected, Failing(d)'
               PROVE  /\ gate = "full" \/ graph.stage[c] <= graph.stage[d]
                      /\ gate = "strict" => d \notin graph.requires[c] \cup graph.after[c]
    BY <1>1 DEF GateStops
  <2>1. CASE c \in Ready /\ Runs(c)
    <3>1. CASE d \in Ready
      BY <1>3, <1>6, <2>1, <3>1 DEF Graph
    <3>2. CASE d \notin Ready
      <4>1. Failing(d)
        BY <1>6, <1>11, <3>2
      <4>2. ~halt
        BY <2>1 DEF Runs
      <4>3. gate = "stage" => graph.stage[d] >= stage
        BY <1>1, <4>1, <4>2 DEF Order, Halted
      <4>4. gate # "strict"
        BY <1>1, <4>1, <4>2 DEF Order, Halted
      <4> QED
        BY <1>3, <1>6, <2>1, <4>3, <4>4 DEF TypeOK, GateModes, Graph
    <3> QED
      BY <3>1, <3>2
  <2>2. CASE c \notin Ready /\ Ran(c)
    <3>1. CASE Failing(d) /\ d \notin Ready
      BY <2>2, <3>1 DEF Order, GateStops
    <3>2. CASE d \in Ready
      <4>1. graph.stage[c] <= stage
        BY <1>1, <2>2 DEF Order, Schedule, Ran, UnderReview
      <4>2. results[d] = "none"
        BY <1>2, <3>2
      <4> QED
        BY <1>3, <2>2, <3>2, <4>1, <4>2 DEF Order, Ordered
    <3> QED
      BY <1>6, <1>11, <3>1, <3>2
  <2> QED
    BY <1>4, <2>1, <2>2
<1> QED
  BY <1>7, <1>9, <1>10, <1>12, <1>13 DEF Order

LEMMA CheckEndsStep ==
  ASSUME TypeOK, Order, NEW k \in Checks, CheckEnds(k)
  PROVE  Order'
<1>1. /\ graph' = graph /\ gate' = gate /\ Selected' = Selected
      /\ stage' = stage /\ halt' = halt /\ wave' = wave /\ remaining' = remaining
      /\ phase' = phase /\ phase = "reviews" /\ Active /\ Active'
  BY OptionsFixed DEF CheckEnds, Active
<1>2. /\ k \in wave /\ results[k] = "none" /\ results'[k] \in Answers
      /\ \A c \in Checks \ {k} : results'[c] = results[c]
  BY CheckEndsResults
<1>3. /\ k \in Selected /\ graph.stage[k] = stage /\ k \notin remaining
      /\ graph \in Graph /\ Selected \subseteq Checks
  BY <1>2, SelectedEnabled DEF Order, Schedule, TypeOK
<1>4. \A c \in Checks : Ran(c)' => Ran(c)
  BY <1>1, <1>2 DEF Ran, UnderReview
<1>5. Schedule'
  <2>1. \A c \in Selected : c \in remaining \/ graph.stage[c] > stage => results'[c] = "none"
    BY <1>1, <1>2, <1>3 DEF Order, Schedule, TypeOK, Graph
  <2>2. \A c \in Selected : graph.stage[c] <= stage /\ c \notin remaining \cup wave
                              => results'[c] # "none"
    BY <1>1, <1>2, <1>3 DEF Order, Schedule
  <2>3. \A c \in Checks : results'[c] \in Answers => c \in Selected /\ graph.stage[c] <= stage
    BY <1>2, <1>3 DEF Order, Schedule, TypeOK, Graph
  <2> QED
    BY <1>1, <2>1, <2>2, <2>3 DEF Order, Schedule
<1>6. Ordered'
  <2>1. "none" \notin Answers
    BY DEF Answers
  <2> QED
    BY <1>1, <1>2, <1>3, <1>4, <2>1 DEF Order, Ordered
<1>7. PrerequisitesHold'
  BY <1>1, <1>2, <1>3, <1>4 DEF Order, PrerequisitesHold, Graph
<1>8. \A d \in Checks : Failing(d)' => Failing(d) \/ d = k
  BY <1>1, <1>2 DEF Failing
<1>9. Halted'
  BY <1>1, <1>2, <1>3, <1>8 DEF Order, Halted, TypeOK, Graph
<1>10. GateStops'
  <2> SUFFICES ASSUME NEW c \in Checks, NEW d \in graph.blocking,
                      Ran(c)', c \notin graph.ungated, d \in Selected, Failing(d)'
               PROVE  /\ gate = "full" \/ graph.stage[c] <= graph.stage[d]
                      /\ gate = "strict" => d \notin graph.requires[c] \cup graph.after[c]
    BY <1>1 DEF GateStops
  <2>1. CASE Failing(d)
    BY <1>4, <2>1 DEF Order, GateStops
  <2>2. CASE d = k
    <3>1. graph.stage[c] <= stage
      BY <1>3, <1>4 DEF Order, Schedule, Ran, UnderReview, TypeOK, Graph
    <3>2. d \notin graph.requires[c] \cup graph.after[c]
      BY <1>2, <1>4, <2>2 DEF Order, Ordered
    <3> QED
      BY <1>3, <2>2, <3>1, <3>2
  <2> QED
    BY <1>3, <1>8, <2>1, <2>2
<1> QED
  BY <1>5, <1>6, <1>7, <1>9, <1>10 DEF Order

LEMMA CloseWaveStep == TypeOK /\ Order /\ CloseWave => Order'
<1> SUFFICES ASSUME TypeOK, Order, CloseWave PROVE Order'
  OBVIOUS
<1>1. /\ graph' = graph /\ gate' = gate /\ Selected' = Selected
      /\ stage' = stage /\ results' = results /\ wave' = {} /\ remaining' = remaining
      /\ Active /\ Active' /\ halt \in BOOLEAN
      /\ halt' = (halt \/ (gate = "strict" /\ BlockingFailures(wave) # {}))
  BY OptionsFixed DEF CloseWave, Active, TypeOK
<1>2. \A c \in wave : results[c] # "none"
  BY DEF CloseWave
<1>3. \A c \in Checks : (Ran(c)' => Ran(c)) /\ (Failing(c)' <=> Failing(c))
  BY <1>1 DEF Ran, UnderReview, Failing
<1>4. Selected \subseteq Checks
  BY SelectedEnabled DEF TypeOK
<1>5. Schedule'
  BY <1>1, <1>2 DEF Order, Schedule
<1>6. Ordered' /\ PrerequisitesHold' /\ GateStops'
  BY <1>1, <1>3, <1>4 DEF Order, Ordered, PrerequisitesHold, GateStops
<1>7. Halted'
  BY <1>1, <1>3, <1>4 DEF Order, Halted, BlockingFailures
<1> QED
  BY <1>5, <1>6, <1>7 DEF Order

LEMMA CloseStageStep == TypeOK /\ Order /\ CloseStage => Order'
<1> SUFFICES ASSUME TypeOK, Order, CloseStage PROVE Order'
  OBVIOUS
<1>1. /\ graph' = graph /\ gate' = gate /\ Selected' = Selected
      /\ stage' = stage + 1 /\ results' = results /\ wave' = wave /\ wave = {}
      /\ remaining = {} /\ remaining' = InStage(stage + 1)
      /\ phase' = phase /\ Active /\ Active' /\ halt \in BOOLEAN /\ stage \in Nat
      /\ halt' = (halt \/ (gate = "stage" /\ BlockingFailures(InStage(stage)) # {}))
  BY OptionsFixed, RunAssumption DEF CloseStage, Active, TypeOK, Order, Schedule
<1>2. graph \in Graph /\ Selected \subseteq Checks
      /\ \A c \in Selected : graph.stage[c] \in Nat
  BY SelectedEnabled, RunAssumption DEF TypeOK, Graph
<1>3. \A c \in Checks : (Ran(c)' <=> Ran(c)) /\ (Failing(c)' <=> Failing(c))
  BY <1>1 DEF Ran, UnderReview, Failing
<1>4. Schedule'
  <2>1. \A c \in remaining' : c \in Selected /\ graph.stage[c] = stage + 1
    BY <1>1 DEF InStage
  <2>2. \A c \in Selected : c \in remaining' \/ graph.stage[c] > stage + 1
                              => results[c] = "none"
    BY <1>1, <1>2, <2>1 DEF Order, Schedule
  <2>3. \A c \in Selected : graph.stage[c] <= stage + 1 /\ c \notin remaining'
                              => results[c] # "none"
    BY <1>1, <1>2 DEF Order, Schedule, InStage
  <2>4. \A c \in Checks : results[c] \in Answers => c \in Selected /\ graph.stage[c] <= stage + 1
    BY <1>1, <1>2 DEF Order, Schedule
  <2> QED
    BY <1>1, <2>1, <2>2, <2>3, <2>4 DEF Order, Schedule
<1>5. Ordered' /\ PrerequisitesHold' /\ GateStops'
  BY <1>1, <1>2, <1>3 DEF Order, Ordered, PrerequisitesHold, GateStops
<1>6. Halted'
  <2> SUFFICES ASSUME NEW d \in Selected \cap graph.blocking, Failing(d)
               PROVE  /\ gate = "stage" => halt' \/ graph.stage[d] >= stage + 1
                      /\ gate = "strict" => halt' \/ d \in wave
    BY <1>1, <1>2, <1>3 DEF Halted
  <2>1. CASE graph.stage[d] = stage
    BY <1>1, <2>1 DEF Order, Halted, BlockingFailures, InStage
  <2>2. CASE graph.stage[d] # stage
    BY <1>1, <1>2, <2>2 DEF Order, Halted
  <2> QED
    BY <2>1, <2>2
<1> QED
  BY <1>4, <1>5, <1>6 DEF Order

LEMMA InterruptStep == TypeOK /\ Order /\ Interrupt => Order'
<1> SUFFICES ASSUME TypeOK, Order, Interrupt PROVE Order'
  OBVIOUS
<1>1. /\ graph' = graph /\ gate' = gate /\ Selected' = Selected
      /\ stage' = stage /\ wave' = wave /\ remaining' = remaining
      /\ phase' = "ended" /\ ~Active'
  BY OptionsFixed DEF Interrupt, Active
<1>2. \A c \in Checks : results[c] # "none" => results'[c] = results[c]
  BY DEF Interrupt, AfterInterrupt
<1>3. \A c \in Checks : results[c] = "none" => results'[c] \in {"none", "SKIPPED"}
  BY DEF Interrupt, AfterInterrupt
<1>4. \A c \in Checks : (Ran(c)' => Ran(c)) /\ (Failing(c)' => Failing(c))
                        /\ (results'[c] \in Answers => results[c] \in Answers)
  BY <1>1, <1>2, <1>3 DEF Ran, UnderReview, Failing, Answers
<1>5. graph \in Graph /\ Selected \subseteq Checks
  BY SelectedEnabled DEF TypeOK
<1>6. Schedule'
  BY <1>1, <1>4 DEF Order, Schedule
<1>7. Ordered'
  BY <1>1, <1>2, <1>4, <1>5 DEF Order, Ordered
<1>8. PrerequisitesHold'
  BY <1>1, <1>2, <1>4, <1>5 DEF Order, PrerequisitesHold, Graph
<1>9. Halted' /\ GateStops'
  BY <1>1, <1>4, <1>5 DEF Order, Halted, GateStops
<1> QED
  BY <1>6, <1>7, <1>8, <1>9 DEF Order

--------------------------------------------------------------------------------

THEOREM NextInv == Inv /\ [Next]_vars => Inv'
<1> SUFFICES ASSUME Inv, [Next]_vars PROVE Inv'
  OBVIOUS
<1>1. TypeOK' /\ Counted'
  BY TypeStep DEF Inv, Order
<1>2. ASSUME Quiet PROVE Inv'
  BY <1>1, <1>2, QuietStep DEF Inv
<1>3. CASE OpenWave
  BY <1>1, <1>3, OpenWaveStep DEF Inv
<1>4. CASE CloseWave
  BY <1>1, <1>4, CloseWaveStep DEF Inv
<1>5. CASE CloseStage
  BY <1>1, <1>5, CloseStageStep DEF Inv
<1>6. CASE Interrupt
  BY <1>1, <1>6, InterruptStep DEF Inv
<1>7. ASSUME NEW c \in Checks, CheckEnds(c) PROVE Inv'
  BY <1>1, <1>7, CheckEndsStep DEF Inv
<1>8. CASE \E c \in Checks : TakeSlot(c) \/ ReviewEnds(c)
  <2>1. Quiet
    BY <1>8 DEF TakeSlot, ReviewEnds, Quiet
  <2> QED
    BY <1>2, <2>1
<1>9. CASE CheckRaises \/ Finish \/ UNCHANGED vars
  <2>1. Quiet
    BY <1>9 DEF CheckRaises, Finish, Quiet, vars
  <2> QED
    BY <1>2, <2>1
<1> QED
  BY <1>3, <1>4, <1>5, <1>6, <1>7, <1>8, <1>9 DEF Next, Step, Over

\* The variables of a run have their types, whatever the configuration.
THEOREM TypeCorrect == Spec => []TypeOK
<1>1. Inv => TypeOK
  BY DEF Inv
<1> QED
  BY <1>1, InitInv, NextInv, PTL DEF Spec

\* No configuration and no interleaving of reviews lets a check run on a failed or
\* missing prerequisite (_blockers, stage_waves), and both gates stop what they
\* promise to stop (_run_stages).
THEOREM FailuresAlwaysStop == Spec => []NothingRunsOnAFailure
<1>1. Inv => NothingRunsOnAFailure
  BY DEF Inv, Order, NothingRunsOnAFailure
<1> QED
  BY <1>1, InitInv, NextInv, PTL DEF Spec

\* A result, once recorded, stays: a step only fills in results that are missing.
THEOREM ResultsStay == Spec => ResultsAreFinal
<1>1. ASSUME Inv, [Next]_vars
      PROVE  \A c \in Checks : results[c] # "none" => results'[c] = results[c]
  <2>1. CASE OpenWave
    BY <1>1, <2>1, OpenWaveResults DEF Inv, Order
  <2>2. ASSUME NEW k \in Checks, CheckEnds(k)
        PROVE  \A c \in Checks : results[c] # "none" => results'[c] = results[c]
    BY <1>1, <2>2, CheckEndsResults DEF Inv
  <2>3. CASE Interrupt
    BY <2>3 DEF Interrupt, AfterInterrupt
  <2>4. CASE UNCHANGED results
    BY <2>4
  <2> QED
    BY <1>1, <2>1, <2>2, <2>3, <2>4
       DEF Next, Step, Over, TakeSlot, ReviewEnds, CheckRaises, CloseWave, CloseStage, Finish, vars
<1>2. Inv /\ [Next]_vars
        => [\A c \in Checks : results[c] # "none" => results'[c] = results[c]]_vars
  BY <1>1
<1> QED
  BY <1>2, InitInv, NextInv, PTL DEF Spec, ResultsAreFinal

--------------------------------------------------------------------------------
(* What exit code 0 says.                                                   *)

\* A run that was not interrupted ends with a result for every selected check, no
\* selected check counts as skipped by --skip, and an advisory check never fails.
Accounted ==
  /\ phase = "ended" /\ ~interrupted => \A c \in Selected : results[c] # "none"
  /\ \A c \in Selected : results[c] # "--skip"
  /\ \A c \in Checks \ graph.blocking : results[c] # "FAIL"

\* A check answers as its class of checks may.
LEMMA AnswersFit ==
  ASSUME TypeOK, Schedule, [Next]_vars, NEW c \in Checks, results'[c] # results[c]
  PROVE  results'[c] \in CanAnswer(c) \cup {"SKIPPED"}
<1>1. CASE OpenWave
  <2>1. PICK quick \in SUBSET Agents, answer \in [Ready -> Answers] : StartChecks(quick, answer)
    BY <1>1 DEF OpenWave
  <2> DEFINE answered == {k \in Ready : Runs(k)} \ (Agents \ quick)
  <2>2. /\ \A k \in Ready : answer[k] \in IF k \in answered THEN CanAnswer(k) ELSE {"PASS"}
        /\ results' = [k \in Checks |->
             IF k \in answered THEN answer[k]
             ELSE IF k \in Ready /\ ~Runs(k) THEN "SKIPPED" ELSE results[k]]
    BY <2>1 DEF StartChecks
  <2>3. answered \subseteq Ready
    OBVIOUS
  <2> HIDE DEF answered
  <2> QED
    BY <2>2, <2>3
<1>2. ASSUME NEW k \in Checks, CheckEnds(k)
      PROVE  results'[c] \in CanAnswer(c) \cup {"SKIPPED"}
  <2>1. PICK answer \in CanAnswer(k) : results' = [results EXCEPT ![k] = answer]
    BY <1>2 DEF CheckEnds
  <2> QED
    BY <2>1 DEF TypeOK
<1>3. CASE Interrupt
  BY <1>3 DEF Interrupt, AfterInterrupt
<1>4. CASE UNCHANGED results
  BY <1>4
<1> QED
  BY <1>1, <1>2, <1>3, <1>4
     DEF Next, Step, Over, TakeSlot, ReviewEnds, CheckRaises, CloseWave, CloseStage, Finish, vars

LEMMA AccountedInit == Init => Accounted
<1> SUFFICES ASSUME Init PROVE Accounted
  OBVIOUS
<1>1. Selected \subseteq Checks
  BY SelectedEnabled, RunAssumption DEF Init
<1>2. \A c \in Checks : results[c] \in {"none", "--skip", "SKIPPED"}
                        /\ (c \in Selected => results[c] = "none")
  BY DEF Init, Unselected
<1> QED
  BY <1>1, <1>2 DEF Accounted, Init

LEMMA AccountedStep == Inv /\ Accounted /\ [Next]_vars => Accounted'
<1> SUFFICES ASSUME Inv, Accounted, [Next]_vars PROVE Accounted'
  OBVIOUS
<1>1. graph' = graph /\ Selected' = Selected
  <2>1. UNCHANGED options
    BY DEF Next, Step, OpenWave, CloseWave, CloseStage, Finish, TakeSlot, ReviewEnds,
       CheckEnds, CheckRaises, Interrupt, Over, vars
  <2> QED
    BY <2>1, OptionsFixed
<1>2. Selected \subseteq Checks
  BY SelectedEnabled DEF Inv, TypeOK
<1>3. ASSUME NEW c \in Checks, results'[c] # results[c]
      PROVE  results'[c] \in CanAnswer(c) \cup {"SKIPPED"}
  BY <1>3, AnswersFit DEF Inv, Order
<1>4. \A c \in Selected : results'[c] # "--skip"
  BY <1>2, <1>3 DEF Accounted, CanAnswer, Answers
<1>5. \A c \in Checks \ graph.blocking : results'[c] # "FAIL"
  BY <1>3 DEF Accounted, CanAnswer, Answers
<1>6. ASSUME phase' = "ended", ~interrupted', NEW c \in Selected
      PROVE  results'[c] # "none"
  <2>1. CASE Finish
    <3>1. stage = LastStage + 1 /\ phase = "waves" /\ results' = results
      BY <2>1 DEF Finish
    <3>2. graph.stage[c] \in 1..LastStage
      BY <1>2 DEF Inv, TypeOK, Graph
    <3>3. c \notin remaining \cup wave
      BY <3>1, <3>2, RunAssumption DEF Inv, Order, Schedule
    <3> QED
      BY <3>1, <3>2, <3>3, RunAssumption DEF Inv, Order, Schedule, Active
  <2>2. CASE Interrupt
    BY <1>6, <2>2 DEF Interrupt
  <2>3. CASE UNCHANGED vars
    BY <1>6, <2>3 DEF Accounted, vars
  <2>4. CASE OpenWave
    BY <1>6, <2>4 DEF OpenWave
  <2>5. CASE CloseWave \/ CloseStage \/ CheckRaises
    BY <1>6, <2>5 DEF CloseWave, CloseStage, CheckRaises
  <2>6. CASE \E k \in Checks : TakeSlot(k) \/ ReviewEnds(k) \/ CheckEnds(k)
    BY <1>6, <2>6 DEF TakeSlot, ReviewEnds, CheckEnds
  <2> QED
    BY <2>1, <2>2, <2>3, <2>4, <2>5, <2>6 DEF Next, Step, Over
<1> QED
  BY <1>1, <1>4, <1>5, <1>6 DEF Accounted

\* Exit code 0 means what a pipeline reads into it: every selected check was run,
\* none that blocks failed or was in error, whatever gates, usage limit, skips and
\* interrupts the run met (exit_code, run).
THEOREM SuccessIsComplete == Spec => []SuccessMeansAllRan
<1>1. Inv /\ Accounted => SuccessMeansAllRan
  <2> SUFFICES ASSUME Inv, Accounted, phase = "ended", ExitCode = 0, NEW c \in Selected
               PROVE  results[c] \in {"PASS", "WARN"}
                      \/ (results[c] = "ERROR" /\ c \notin graph.blocking)
    BY DEF SuccessMeansAllRan
  <2>1. c \in Checks /\ results[c] \in Results
    BY SelectedEnabled DEF Inv, TypeOK
  <2>2. /\ ~interrupted /\ ~Bad(c) /\ results[c] # "SKIPPED"
    BY <2>1 DEF ExitCode
  <2>3. results[c] \notin {"none", "--skip"} /\ (c \notin graph.blocking => results[c] # "FAIL")
    BY <2>1, <2>2 DEF Accounted
  <2> QED
    BY <2>1, <2>2, <2>3 DEF Bad, Results, Answers
<1> QED
  BY <1>1, InitInv, NextInv, AccountedInit, AccountedStep, PTL DEF Spec

----------------------------------------------------------------------------
(* A batch of tool calls *)

USE BatchAssumption

----------------------------------------------------------------------------
(* Type correctness *)

\* The state of a batch is well typed in every reachable state.
THEOREM BatchTypeCorrect == BatchSpec => []BatchTypeOK
<1>1. BatchInit => BatchTypeOK
  BY DEF BatchInit, BatchTypeOK, TaskStates
<1>2. BatchTypeOK /\ [BatchNext]_batchVars => BatchTypeOK'
  <2> SUFFICES ASSUME BatchTypeOK, [BatchNext]_batchVars PROVE BatchTypeOK'
    OBVIOUS
  <2> USE DEF BatchTypeOK, TaskStates
  <2>1. ASSUME NEW i \in Index, Proceed(i) \/ TakeReadSlot(i) \/ HandlerEnds(i) \/ HandlerAborts(i)
        PROVE  BatchTypeOK'
    BY <2>1 DEF Proceed, TakeReadSlot, HandlerEnds, HandlerAborts, Moves
  <2>2. ASSUME NEW i \in Index, Take(i)
        PROVE  BatchTypeOK'
    BY <2>2 DEF Take
  <2>3. CASE Close \/ Gathered \/ CancelAll
    BY <2>3 DEF Close, Gathered, CancelAll
  <2>4. CASE UNCHANGED batchVars
    BY <2>4 DEF batchVars
  <2>5. QED
    BY <2>1, <2>2, <2>3, <2>4 DEF BatchNext, Stopped
<1>3. QED
  BY <1>1, <1>2, PTL DEF BatchSpec

----------------------------------------------------------------------------
(* Order *)

\* A member that comes after an exclusive one has a last exclusive one before it.
LEMMA LastExclusiveExists ==
  ASSUME NEW j \in Index, NEW i \in Exclusives(j)
  PROVE  \E e \in LastExclusive(j) : i <= e
<1> DEFINE Distances == {Members - e : e \in Exclusives(j)}
           Less == {p \in Nat \X Nat : p[1] < p[2]}
<1>1. Distances \subseteq Nat /\ Distances # {}
  BY DEF Exclusives, Earlier, Index
<1>2. IsWellFoundedOn(Less, Nat)
  BY NatLessThanWellFounded DEF OpToRel
<1>3. \A x, y \in Nat : <<x, y>> \notin Less => y <= x
  OBVIOUS
<1> HIDE DEF Distances, Less
<1>4. PICK d \in Distances : \A x \in Distances : <<x, d>> \notin Less
  BY <1>1, <1>2, WFMin
<1>5. \A x \in Distances : d <= x
  BY <1>1, <1>3, <1>4
<1>6. PICK e \in Exclusives(j) : d = Members - e
  BY DEF Distances
<1>7. ASSUME NEW k \in Exclusives(j)
      PROVE  k <= e
  <2>1. Members - k \in Distances
    BY DEF Distances
  <2>2. k \in 1..Members /\ e \in 1..Members
    BY DEF Exclusives, Earlier, Index
  <2>3. QED
    BY <1>5, <1>6, <2>1, <2>2
<1>8. QED
  BY <1>6, <1>7 DEF LastExclusive

\* The inductive strengthening.  While the batch is open, whatever left "waiting"
\* has seen its dependencies finish; conflicts are ordered from the moment a
\* member may take a slot.
DependenciesMet ==
  batch = "open" =>
    \A j \in Index : task[j] # "waiting" => \A d \in Dependencies(j) : Finished(d)

Past(j) == task[j] \in {"queued", "running", "done"}

PastInOrder ==
  \A i, j \in Index : i < j /\ Conflict(i, j) /\ Past(j) => Finished(i)

\* A member that waited for its dependencies has waited for every conflict:
\* those it does not wait for itself, the last exclusive member waited for.
LEMMA ReadyMeansOrdered ==
  ASSUME BatchTypeOK, DependenciesMet, batch = "open",
         NEW j \in Index, \A d \in Dependencies(j) : Finished(d),
         NEW i \in Index, i < j, Conflict(i, j)
  PROVE  Finished(i)
<1>1. CASE i \in Dependencies(j)
  BY <1>1
<1>2. CASE i \notin Dependencies(j)
  <2>1. i \in Earlier(j) /\ plans[j].kind # "exclusive"
    BY <1>2 DEF Dependencies, Earlier
  <2>2. plans[i].kind = "exclusive"
    BY <1>2, <2>1 DEF Dependencies, Conflict, Overlaps
  <2>3. PICK e \in LastExclusive(j) : i <= e
    BY <2>1, <2>2, LastExclusiveExists DEF Exclusives
  <2>4. e \in Index /\ e \in Dependencies(j) /\ plans[e].kind = "exclusive"
    BY <2>1, <2>3 DEF Dependencies, LastExclusive, Exclusives, Earlier
  <2>5. Finished(e)
    BY <2>4
  <2>6. i = e \/ i \in Dependencies(e)
    BY <2>3, <2>4 DEF Dependencies, Earlier, Index
  <2>7. QED
    BY <2>4, <2>5, <2>6 DEF DependenciesMet, Finished
<1>3. QED
  BY <1>1, <1>2

LEMMA OrderInvariant == BatchSpec => [](DependenciesMet /\ PastInOrder)
<1>1. BatchInit => DependenciesMet /\ PastInOrder
  BY DEF BatchInit, DependenciesMet, PastInOrder, Past
<1>2. BatchTypeOK /\ DependenciesMet /\ PastInOrder /\ [BatchNext]_batchVars
      => DependenciesMet' /\ PastInOrder'
  <2> SUFFICES ASSUME BatchTypeOK, DependenciesMet, PastInOrder, [BatchNext]_batchVars
               PROVE  DependenciesMet' /\ PastInOrder'
    OBVIOUS
  <2>0. ASSUME plans' = plans
        PROVE  /\ \A j \in Index : Dependencies(j)' = Dependencies(j)
               /\ \A i, j \in Index : Conflict(i, j)' = Conflict(i, j)
    BY <2>0 DEF Dependencies, Overlaps, LastExclusive, Exclusives, Earlier, Conflict
  <2>1. ASSUME NEW k \in Index, Proceed(k)
        PROVE  DependenciesMet' /\ PastInOrder'
    <3>1. /\ batch = "open" /\ plans' = plans /\ task[k] = "waiting"
          /\ \A d \in Dependencies(k) : Finished(d)
          /\ \A j \in Index : j # k => task'[j] = task[j]
          /\ task'[k] \in {"queued", "running"}
      BY <2>1 DEF Proceed, Unblocked, Moves, BatchTypeOK
    <3>2. \A j \in Index : Finished(j)' = Finished(j)
      BY <3>1 DEF Finished
    <3>3. DependenciesMet'
      BY <2>0, <3>1, <3>2 DEF DependenciesMet, Dependencies, LastExclusive, Exclusives, Earlier
    <3>4. PastInOrder'
      BY <2>0, <3>1, <3>2, ReadyMeansOrdered DEF PastInOrder, Past
    <3>5. QED
      BY <3>3, <3>4
  <2>2. ASSUME NEW k \in Index, TakeReadSlot(k) \/ HandlerEnds(k) \/ HandlerAborts(k)
        PROVE  DependenciesMet' /\ PastInOrder'
    <3>1. /\ batch' = batch /\ plans' = plans /\ task[k] \in {"queued", "running"}
          /\ \A j \in Index : j # k => task'[j] = task[j]
          /\ task'[k] \in {"running", "done", "aborted"}
      BY <2>2 DEF TakeReadSlot, HandlerEnds, HandlerAborts, Moves, BatchTypeOK
    <3>2. \A j \in Index : Finished(j) => Finished(j)'
      BY <3>1 DEF Finished
    <3>3. DependenciesMet'
      BY <2>0, <3>1, <3>2 DEF DependenciesMet, Dependencies, LastExclusive, Exclusives, Earlier
    <3>4. PastInOrder'
      BY <2>0, <3>1, <3>2 DEF PastInOrder, Past
    <3>5. QED
      BY <3>3, <3>4
  <2>3. CASE Close
    <3>1. /\ batch' = "closing" /\ plans' = plans
          /\ \A j \in Index : task'[j] = task[j] \/ task'[j] = "aborted"
          /\ \A j \in Index : Finished(j) => Finished(j)'
      BY <2>3 DEF Close, Finished
    <3>2. DependenciesMet'
      BY <3>1 DEF DependenciesMet
    <3>3. PastInOrder'
      BY <2>0, <3>1 DEF PastInOrder, Past
    <3>4. QED
      BY <3>2, <3>3
  <2>4. CASE (\E k \in Index : Take(k)) \/ Gathered \/ CancelAll \/ UNCHANGED batchVars
    <3>1. plans' = plans /\ task' = task /\ (batch' = "open" => batch = "open")
      BY <2>4 DEF Take, Gathered, CancelAll, batchVars
    <3>2. \A j \in Index : Finished(j)' = Finished(j)
      BY <3>1 DEF Finished
    <3>3. DependenciesMet'
      BY <2>0, <3>1, <3>2 DEF DependenciesMet, Dependencies, LastExclusive, Exclusives, Earlier
    <3>4. PastInOrder'
      BY <2>0, <3>1, <3>2 DEF PastInOrder, Past
    <3>5. QED
      BY <3>3, <3>4
  <2>5. QED
    BY <2>1, <2>2, <2>3, <2>4 DEF BatchNext, Stopped
<1>3. QED
  BY <1>1, <1>2, BatchTypeCorrect, PTL DEF BatchSpec

\* In a batch of any size, no handler starts before every earlier member it
\* conflicts with has ended.
THEOREM OrderHolds == BatchSpec => []ConflictsRunInOrder
<1>1. PastInOrder => ConflictsRunInOrder
  BY DEF PastInOrder, ConflictsRunInOrder, Past, Started
<1>2. QED
  BY <1>1, OrderInvariant, PTL

----------------------------------------------------------------------------
(* Bounds *)

LEMMA ReadingIsFinite == IsFiniteSet(Reading)
<1>1. IsFiniteSet(Index)
  BY FS_Interval DEF Index
<1>2. QED
  BY <1>1, FS_Subset DEF Reading

\* Never more reads in flight than the semaphore has slots, for every batch and
\* every limit, zero included.
THEOREM CapHolds == BatchSpec => []ReadsAreCapped
<1>0. Slots \in Nat \ {0}
  BY DEF Slots
<1>1. BatchInit => ReadsAreCapped
  <2>1. BatchInit => Reading = {}
    BY DEF BatchInit, Reading
  <2>2. QED
    BY <1>0, <2>1, FS_EmptySet DEF ReadsAreCapped
<1>2. BatchTypeOK /\ ReadsAreCapped /\ [BatchNext]_batchVars => ReadsAreCapped'
  <2> SUFFICES ASSUME BatchTypeOK, ReadsAreCapped, [BatchNext]_batchVars PROVE ReadsAreCapped'
    OBVIOUS
  <2>0. Slots' = Slots
    BY DEF Slots
  <2>1. ASSUME Reading' \subseteq Reading
        PROVE  ReadsAreCapped'
    <3>1. Cardinality(Reading') <= Cardinality(Reading) /\ IsFiniteSet(Reading')
      BY <2>1, ReadingIsFinite, FS_Subset
    <3>2. Cardinality(Reading') \in Nat /\ Cardinality(Reading) \in Nat
      BY <3>1, ReadingIsFinite, FS_CardinalityType
    <3>3. QED
      BY <1>0, <2>0, <3>1, <3>2 DEF ReadsAreCapped
  <2>2. ASSUME NEW k \in Index, TakeReadSlot(k)
        PROVE  ReadsAreCapped'
    <3>1. Reading' \subseteq Reading \cup {k} /\ Cardinality(Reading) < Slots
      BY <2>2 DEF TakeReadSlot, Moves, Reading, BatchTypeOK
    <3>2. /\ IsFiniteSet(Reading \cup {k})
          /\ Cardinality(Reading \cup {k}) <= Cardinality(Reading) + 1
      <4>1. Cardinality(Reading) \in Nat
        BY ReadingIsFinite, FS_CardinalityType
      <4>2. /\ IsFiniteSet(Reading \cup {k})
            /\ Cardinality(Reading \cup {k}) =
                 IF k \in Reading THEN Cardinality(Reading) ELSE Cardinality(Reading) + 1
        BY ReadingIsFinite, FS_AddElement
      <4>3. QED
        BY <4>1, <4>2
    <3>3. Cardinality(Reading') <= Cardinality(Reading \cup {k}) /\ IsFiniteSet(Reading')
      BY <3>1, <3>2, FS_Subset
    <3>4. /\ Cardinality(Reading) \in Nat /\ Cardinality(Reading \cup {k}) \in Nat
          /\ Cardinality(Reading') \in Nat
      BY <3>2, <3>3, ReadingIsFinite, FS_CardinalityType
    <3>5. QED
      BY <1>0, <2>0, <3>1, <3>2, <3>3, <3>4 DEF ReadsAreCapped
  <2>3. ASSUME NEW k \in Index, Proceed(k) \/ HandlerEnds(k) \/ HandlerAborts(k)
        PROVE  ReadsAreCapped'
    <3>1. Reading' \subseteq Reading
      BY <2>3 DEF Proceed, HandlerEnds, HandlerAborts, Moves, Reading, BatchTypeOK
    <3>2. QED
      BY <2>1, <3>1
  <2>4. CASE Close
    BY <2>1, <2>4 DEF Close, Reading
  <2>5. CASE (\E k \in Index : Take(k)) \/ Gathered \/ CancelAll \/ UNCHANGED batchVars
    BY <2>1, <2>5 DEF Take, Gathered, CancelAll, batchVars, Reading
  <2>6. QED
    BY <2>2, <2>3, <2>4, <2>5 DEF BatchNext, Stopped
<1>3. QED
  BY <1>1, <1>2, BatchTypeCorrect, PTL DEF BatchSpec

\* When aclose has returned, every member of the batch has ended.
THEOREM CloseAwaitsHandlers == BatchSpec => []NothingRunsAfterClose
<1> DEFINE Settled == batch = "over" => \A i \in Index : Finished(i)
<1>1. BatchInit => Settled
  BY DEF BatchInit
<1>2. Settled /\ [BatchNext]_batchVars => Settled'
  BY DEF BatchNext, Proceed, TakeReadSlot, HandlerEnds, HandlerAborts, Moves, Take, Close, Gathered,
     CancelAll, Stopped, batchVars, Finished
<1>3. Settled => NothingRunsAfterClose
  BY DEF NothingRunsAfterClose, Finished
<1>4. QED
  BY <1>1, <1>2, <1>3, PTL DEF BatchSpec

\* A member waits only for members it conflicts with: the dependencies are exact.
THEOREM WaitsAreNeeded == BatchSpec => []NoNeedlessWait
<1>1. NoNeedlessWait
  <2> SUFFICES ASSUME NEW j \in Index, NEW d \in Dependencies(j)
               PROVE  Conflict(d, j)
    BY DEF NoNeedlessWait
  <2>1. CASE plans[j].kind = "exclusive"
    BY <2>1 DEF Conflict
  <2>2. CASE plans[j].kind # "exclusive" /\ d \in LastExclusive(j)
    BY <2>2 DEF LastExclusive, Exclusives, Earlier, Conflict
  <2>3. CASE plans[j].kind # "exclusive" /\ d \in Earlier(j) /\ Overlaps(plans[d], plans[j])
    BY <2>3 DEF Overlaps, Conflict
  <2>4. QED
    BY <2>1, <2>2, <2>3 DEF Dependencies
<1>2. QED
  BY <1>1, PTL DEF BatchSpec

\* Every handler that ended by itself is in the consumer's queue or was taken from
\* it, never both, however its batch was closed or cancelled.
THEOREM EndsAreReported == BatchSpec => []EveryEndIsReported
<1>1. BatchInit => EveryEndIsReported
  BY DEF BatchInit, EveryEndIsReported
<1>2. BatchTypeOK /\ EveryEndIsReported /\ [BatchNext]_batchVars => EveryEndIsReported'
  <2> SUFFICES ASSUME BatchTypeOK, EveryEndIsReported, [BatchNext]_batchVars PROVE EveryEndIsReported'
    OBVIOUS
  <2> USE DEF BatchTypeOK, EveryEndIsReported, Moves
  <2>1. ASSUME NEW i \in Index, Proceed(i) \/ TakeReadSlot(i) \/ HandlerAborts(i)
        PROVE  EveryEndIsReported'
    <3>1. PICK state \in {"queued", "running", "aborted"} :
            /\ task[i] # "done" /\ task' = [task EXCEPT ![i] = state]
            /\ queue' = queue /\ yielded' = yielded
      BY <2>1 DEF Proceed, Unblocked, TakeReadSlot, HandlerAborts
    <3>2. QED
      BY <3>1
  <2>2. ASSUME NEW i \in Index, HandlerEnds(i)
        PROVE  EveryEndIsReported'
    BY <2>2 DEF HandlerEnds
  <2>3. ASSUME NEW i \in Index, Take(i)
        PROVE  EveryEndIsReported'
    BY <2>3 DEF Take
  <2>4. CASE Close
    BY <2>4 DEF Close
  <2>5. CASE Gathered \/ CancelAll \/ UNCHANGED batchVars
    BY <2>5 DEF Gathered, CancelAll, batchVars
  <2>6. QED
    BY <2>1, <2>2, <2>3, <2>4, <2>5 DEF BatchNext, Stopped
<1>3. QED
  BY <1>1, <1>2, BatchTypeCorrect, PTL DEF BatchSpec

----------------------------------------------------------------------------
(* Background shells *)

\* What the call, the reader and the record of a command say of each other.
CommandOK(c) ==
  /\ call[c] \notin {"none", "queued"} => proc[c] # "none"
  /\ call[c] \in {"stopping", "draining"} => HasExited(c)
  /\ reader[c] = "full" => exceeded[c]
  /\ status[c] = "completed" => done[c] /\ ReaderEnded(c)
  /\ c \in tracked => call[c] = "background"
  /\ c \in killing => status[c] = "killed"

KilledIsDead ==
  \A c \in Commands : call[c] = "cancelled" \/ status[c] = "killed" => HasExited(c)

ShellInv ==
  /\ ShellTypeOK
  /\ \A c \in Commands : CommandOK(c)
  /\ ReportedOutputIsWhole
  /\ KilledIsDead

\* The types a kill is about.
KillTypes ==
  /\ proc \in [Commands -> {"none", "alive", "blocked", "exited", "signalled"}]
  /\ pipe \in [Commands -> {"open", "held", "closed"}]
  /\ status \in [Commands -> {"none", "running", "completed", "killed"}]
  /\ done \in [Commands -> BOOLEAN]
  /\ tracked \subseteq Commands /\ killing \subseteq Commands /\ toKill \subseteq Commands

LEMMA ShellTypes == ShellTypeOK => KillTypes
BY DEF ShellTypeOK, KillTypes

\* A killed process tree is dead, and no other command notices.
LEMMA KillTreesResult ==
  ASSUME ShellTypeOK, NEW cs \in SUBSET Commands, KillTrees(cs)
  PROVE  /\ proc' \in [Commands -> {"none", "alive", "blocked", "exited", "signalled"}]
         /\ pipe' \in [Commands -> {"open", "held", "closed"}]
         /\ \A c \in Commands : proc'[c] = proc[c]
                                \/ (c \in cs /\ proc'[c] = "signalled" /\ proc[c] # "none")
         /\ \A c \in cs : proc[c] # "none" => proc'[c] \in {"exited", "signalled"}
<1>1. KillTypes
  BY ShellTypes
<1>2. \A c \in Commands :
        /\ proc'[c] = IF c \in Killable(cs) THEN "signalled" ELSE proc[c]
        /\ pipe'[c] = IF c \in Killable(cs) THEN "closed" ELSE pipe[c]
  BY DEF KillTrees
<1>3. \A c \in Commands : c \in Killable(cs) <=> c \in cs /\ proc[c] \in {"alive", "blocked"}
  BY DEF Killable
<1>4. \A c \in Commands : proc[c] \in {"none", "alive", "blocked", "exited", "signalled"}
  BY <1>1 DEF KillTypes
<1>5. proc' \in [Commands -> {"none", "alive", "blocked", "exited", "signalled"}]
  BY <1>1 DEF KillTrees, KillTypes
<1>6. pipe' \in [Commands -> {"open", "held", "closed"}]
  BY <1>1 DEF KillTrees, KillTypes
<1>7. ASSUME NEW c \in Commands
      PROVE  /\ proc'[c] = proc[c] \/ (c \in cs /\ proc'[c] = "signalled" /\ proc[c] # "none")
             /\ c \in cs /\ proc[c] # "none" => proc'[c] \in {"exited", "signalled"}
  BY <1>2, <1>3, <1>4
<1>8. QED
  BY <1>5, <1>6, <1>7

\* A step of kill_all marks one running command, which dies, or forgets them all.
LEMMA KillNextResult ==
  ASSUME ShellInv, NEW rest \in SUBSET Commands, NEW tasks \in SUBSET tracked,
         KillNext(rest, tasks)
  PROVE  /\ proc' \in [Commands -> {"none", "alive", "blocked", "exited", "signalled"}]
         /\ pipe' \in [Commands -> {"open", "held", "closed"}]
         /\ status' \in [Commands -> {"none", "running", "completed", "killed"}]
         /\ \A c \in Commands : /\ proc'[c] = proc[c] \/ (proc[c] # "none" /\ proc'[c] = "signalled")
                                /\ \/ status'[c] = status[c]
                                   \/ /\ status[c] = "running" /\ status'[c] = "killed"
                                      /\ proc'[c] \in {"exited", "signalled"}
         /\ tracked' \subseteq tracked /\ killing' \cup toKill' \subseteq Commands
         /\ \A c \in killing' : status'[c] = "killed"
         /\ turn' \in {"idle", "killing"}
<1>0. KillTypes
  BY ShellTypes DEF ShellInv
<1>1. CASE /\ \A c \in rest : status[c] # "running"
           /\ tracked' = {} /\ turn' = "idle" /\ killing' = {} /\ toKill' = {}
           /\ UNCHANGED <<proc, pipe, status>>
  <2>1. /\ proc' = proc /\ pipe' = pipe /\ status' = status
        /\ tracked' = {} /\ killing' = {} /\ toKill' = {} /\ turn' = "idle"
    BY <1>1
  <2>2. QED
    BY <1>0, <2>1 DEF KillTypes
<1>2. CASE \E c \in rest :
             /\ status[c] = "running" /\ status' = [status EXCEPT ![c] = "killed"]
             /\ KillTrees({c})
             /\ tracked' = tasks /\ turn' = "killing" /\ killing' = {c} /\ toKill' = rest \ {c}
  <2>1. PICK k \in rest :
             /\ status[k] = "running" /\ status' = [status EXCEPT ![k] = "killed"]
             /\ KillTrees({k})
             /\ tracked' = tasks /\ turn' = "killing" /\ killing' = {k} /\ toKill' = rest \ {k}
    BY <1>2
  <2>2. k \in Commands /\ call[k] = "background" /\ proc[k] # "none"
    BY <2>1 DEF ShellInv, ShellTypeOK, CommandOK
  <2>3. {k} \in SUBSET Commands
    BY <2>2
  <2>4. /\ proc' \in [Commands -> {"none", "alive", "blocked", "exited", "signalled"}]
        /\ pipe' \in [Commands -> {"open", "held", "closed"}]
        /\ \A c \in Commands : proc'[c] = proc[c]
                               \/ (c \in {k} /\ proc'[c] = "signalled" /\ proc[c] # "none")
        /\ proc'[k] \in {"exited", "signalled"}
    BY <2>1, <2>2, <2>3, KillTreesResult DEF ShellInv
  <2>5. /\ status' \in [Commands -> {"none", "running", "completed", "killed"}]
        /\ status'[k] = "killed" /\ \A c \in Commands \ {k} : status'[c] = status[c]
    BY <1>0, <2>1, <2>2 DEF KillTypes
  <2>6. tracked' \subseteq tracked /\ killing' \cup toKill' \subseteq Commands
    BY <2>1
  <2>7. QED
    BY <2>1, <2>2, <2>4, <2>5, <2>6
<1>3. QED
  BY <1>1, <1>2 DEF KillNext

\* The steps that call kill_all keep the invariant.
LEMMA KillStep ==
  ASSUME ShellInv, NEW rest \in SUBSET Commands, NEW tasks \in SUBSET tracked,
         KillNext(rest, tasks),
         UNCHANGED <<reader, exceeded, call, killOnTimeout, after, userCancelled, turnNo, delivered>>,
         awaited' \subseteq Commands, orphans' \subseteq Commands,
         done' = [c \in Commands |-> done[c] \/ c \in killing] \/ done' = done
  PROVE  ShellInv'
<1>1. /\ proc' \in [Commands -> {"none", "alive", "blocked", "exited", "signalled"}]
      /\ pipe' \in [Commands -> {"open", "held", "closed"}]
      /\ status' \in [Commands -> {"none", "running", "completed", "killed"}]
      /\ \A c \in Commands : /\ proc'[c] = proc[c] \/ (proc[c] # "none" /\ proc'[c] = "signalled")
                             /\ \/ status'[c] = status[c]
                                \/ /\ status[c] = "running" /\ status'[c] = "killed"
                                   /\ proc'[c] \in {"exited", "signalled"}
      /\ tracked' \subseteq tracked /\ killing' \cup toKill' \subseteq Commands
      /\ \A c \in killing' : status'[c] = "killed"
      /\ turn' \in {"idle", "killing"}
  BY KillNextResult
<1>2. /\ done' \in [Commands -> BOOLEAN]
      /\ \A c \in Commands : /\ done[c] => done'[c]
                             /\ done'[c] => done[c] \/ status[c] = "killed"
  <2>1. KillTypes /\ \A c \in Commands : c \in killing => status[c] = "killed"
    BY ShellTypes DEF ShellInv, CommandOK
  <2>2. QED
    BY <2>1 DEF KillTypes
<1>3. ShellTypeOK'
  BY <1>1, <1>2 DEF ShellInv, ShellTypeOK
<1>4. ASSUME NEW c \in Commands
      PROVE  CommandOK(c)'
  BY <1>1, <1>2 DEF ShellInv, CommandOK, HasExited, ReaderEnded
<1>5. ReportedOutputIsWhole'
  BY <1>1, <1>2 DEF ShellInv, ReportedOutputIsWhole
<1>6. KilledIsDead'
  BY <1>1 DEF ShellInv, KilledIsDead, HasExited
<1>7. QED
  BY <1>3, <1>4, <1>5, <1>6 DEF ShellInv

\* The call of a command that is spawned has not begun, so nothing is said of it yet.
LEMMA SpawnStep ==
  ASSUME ShellInv, NEW c \in Commands, call[c] \in {"none", "queued"}, Spawn(c)
  PROVE  ShellInv'
<1> USE DEF Spawn, CallMoves, mgr, turns
<1>1. ShellTypeOK'
  BY DEF ShellInv, ShellTypeOK
<1>2. status[c] = "none" /\ c \notin delivered
  BY DEF ShellInv, ShellTypeOK, ReportedOutputIsWhole
<1>3. ASSUME NEW d \in Commands
      PROVE  CommandOK(d)'
  BY <1>2 DEF ShellInv, ShellTypeOK, CommandOK, HasExited, ReaderEnded
<1>4. ReportedOutputIsWhole' /\ KilledIsDead'
  BY <1>2 DEF ShellInv, ShellTypeOK, ReportedOutputIsWhole, KilledIsDead, HasExited
<1>5. QED
  BY <1>1, <1>3, <1>4 DEF ShellInv

LEMMA ProcessInv ==
  ASSUME ShellInv, NEW c \in Commands, ProcessStep(c)
  PROVE  ShellInv'
<1> USE DEF mgr, turns
<1>1. CASE Flood(c)
  BY <1>1 DEF Flood, ShellInv, ShellTypeOK, CommandOK, HasExited, ReaderEnded,
     ReportedOutputIsWhole, KilledIsDead
<1>2. CASE Block(c)
  BY <1>2 DEF Block, ShellInv, ShellTypeOK, CommandOK, HasExited, ReaderEnded,
     ReportedOutputIsWhole, KilledIsDead
<1>3. ASSUME NEW how \in {"exited", "signalled"}, Exit(c, how)
      PROVE  ShellInv'
  <2>1. pipe' \in [Commands -> {"open", "held", "closed"}]
    BY <1>3 DEF Exit, ShellInv, ShellTypeOK
  <2>2. QED
    BY <1>3, <2>1 DEF Exit, ShellInv, ShellTypeOK, CommandOK, HasExited, ReaderEnded,
       ReportedOutputIsWhole, KilledIsDead
<1>4. CASE ChildEnds(c)
  BY <1>4 DEF ChildEnds, ShellInv, ShellTypeOK, CommandOK, HasExited, ReaderEnded,
     ReportedOutputIsWhole, KilledIsDead
<1>5. CASE ReadEof(c)
  BY <1>5 DEF ReadEof, ShellInv, ShellTypeOK, CommandOK, HasExited, ReaderEnded,
     ReportedOutputIsWhole, KilledIsDead
<1>6. QED
  BY <1>1, <1>2, <1>3, <1>4, <1>5 DEF ProcessStep, Ended

LEMMA CallInv ==
  ASSUME ShellInv, NEW c \in Commands, CallStep(c)
  PROVE  ShellInv'
<1> USE DEF mgr, turns, CallMoves
<1>1. CASE Start(c)
  BY <1>1, SpawnStep DEF Start
<1>2. CASE StartQueued(c)
  BY <1>2, SpawnStep DEF StartQueued, Queued
<1>3. CASE Queue(c)
  <2>1. after' \in [Commands -> Commands]
    BY <1>3 DEF Queue, ShellInv, ShellTypeOK, InCall, Queued
  <2>2. call' = [call EXCEPT ![c] = "queued"] /\ call[c] = "none"
    BY <1>3 DEF Queue
  <2>3. ShellTypeOK'
    BY <1>3, <2>1, <2>2 DEF Queue, os, ShellInv, ShellTypeOK
  <2>4. ASSUME NEW d \in Commands
        PROVE  CommandOK(d)'
    BY <1>3, <2>2 DEF Queue, os, ShellInv, ShellTypeOK, CommandOK, HasExited, ReaderEnded
  <2>5. ReportedOutputIsWhole' /\ KilledIsDead'
    BY <1>3, <2>2 DEF Queue, os, ShellInv, ShellTypeOK, ReportedOutputIsWhole, KilledIsDead,
       HasExited
  <2>6. QED
    BY <2>3, <2>4, <2>5 DEF ShellInv
<1>4. CASE WaitReturns(c)
  BY <1>4 DEF WaitReturns, os, ShellInv, ShellTypeOK, CommandOK, HasExited, ReaderEnded,
     ReportedOutputIsWhole, KilledIsDead
<1>5. CASE Returns(c)
  <2>1. /\ ReaderEnded(c) /\ call[c] \in {"draining", "stopping"}
        /\ call' = [call EXCEPT ![c] = call'[c]]
        /\ call'[c] \in {"failed", "returned"} /\ (call'[c] = "returned" => ~exceeded[c])
    BY <1>5 DEF Returns, ShellInv, ShellTypeOK
  <2>2. UNCHANGED <<os, killOnTimeout, mgr, turns, after>>
    BY <1>5 DEF Returns
  <2>3. ShellTypeOK'
    BY <2>1, <2>2 DEF os, ShellInv, ShellTypeOK
  <2>4. ASSUME NEW d \in Commands
        PROVE  CommandOK(d)'
    BY <2>1, <2>2 DEF os, ShellInv, ShellTypeOK, CommandOK, HasExited, ReaderEnded
  <2>5. ReportedOutputIsWhole'
    BY <2>1, <2>2 DEF os, ShellInv, ShellTypeOK, CommandOK, ReportedOutputIsWhole, ReaderEnded
  <2>6. KilledIsDead'
    BY <2>1, <2>2 DEF os, ShellInv, ShellTypeOK, KilledIsDead, HasExited
  <2>7. QED
    BY <2>3, <2>4, <2>5, <2>6 DEF ShellInv
<1>6. CASE TimesOut(c)
  <2>1. /\ call[c] = "foreground" /\ status[c] = "none" /\ proc[c] # "none"
        /\ c \notin tracked /\ c \notin delivered /\ c \notin killing /\ ~done[c]
    BY <1>6 DEF TimesOut, ShellInv, ShellTypeOK, CommandOK, ReportedOutputIsWhole
  <2>2. CASE KillTrees({c}) /\ CallMoves(c, "stopping")
             /\ UNCHANGED <<reader, exceeded, mgr, killOnTimeout, turns, after>>
    <3>1. /\ proc' \in [Commands -> {"none", "alive", "blocked", "exited", "signalled"}]
          /\ pipe' \in [Commands -> {"open", "held", "closed"}]
          /\ \A d \in Commands : proc'[d] = proc[d]
                                 \/ (d \in {c} /\ proc'[d] = "signalled" /\ proc[d] # "none")
          /\ proc'[c] \in {"exited", "signalled"}
      BY <2>1, <2>2, KillTreesResult DEF ShellInv
    <3>2. call' = [call EXCEPT ![c] = "stopping"]
      BY <2>2
    <3>3. ShellTypeOK'
      <4>1. call' \in [Commands -> {"none", "queued", "foreground", "stopping", "draining",
                                    "background", "returned", "failed", "cancelled"}]
        BY <3>2 DEF ShellInv, ShellTypeOK
      <4>2. \A d \in Commands : (status[d] = "none") = (call'[d] # "background")
        BY <2>1, <3>2 DEF ShellInv, ShellTypeOK
      <4>3. QED
        BY <2>2, <3>1, <4>1, <4>2 DEF ShellInv, ShellTypeOK
    <3>4. ASSUME NEW d \in Commands
          PROVE  CommandOK(d)'
      BY <2>1, <2>2, <3>1, <3>2 DEF ShellInv, ShellTypeOK, CommandOK, HasExited, ReaderEnded
    <3>5. ReportedOutputIsWhole' /\ KilledIsDead'
      BY <2>1, <2>2, <3>1, <3>2 DEF ShellInv, ShellTypeOK, ReportedOutputIsWhole,
         KilledIsDead, HasExited
    <3>6. QED
      BY <3>3, <3>4, <3>5 DEF ShellInv
  <2>3. CASE /\ CallMoves(c, "background") /\ tracked' = tracked \cup {c}
             /\ status' = [status EXCEPT ![c] = "running"]
             /\ UNCHANGED <<os, done, killOnTimeout, turns, after>>
    <3>1. call' = [call EXCEPT ![c] = "background"]
      BY <2>3
    <3>2. ShellTypeOK'
      BY <2>1, <2>3, <3>1 DEF os, ShellInv, ShellTypeOK
    <3>3. ASSUME NEW d \in Commands
          PROVE  CommandOK(d)'
      BY <2>1, <2>3, <3>1 DEF os, ShellInv, ShellTypeOK, CommandOK, HasExited, ReaderEnded
    <3>4. ReportedOutputIsWhole' /\ KilledIsDead'
      BY <2>1, <2>3, <3>1 DEF os, ShellInv, ShellTypeOK, ReportedOutputIsWhole, KilledIsDead,
         HasExited
    <3>5. QED
      BY <3>2, <3>3, <3>4 DEF ShellInv
  <2>4. QED
    BY <1>6, <2>2, <2>3 DEF TimesOut
<1>7. QED
  BY <1>1, <1>2, <1>3, <1>4, <1>5, <1>6 DEF CallStep

\* What the watcher makes of an ended command: killed, or complete and read to the end.
LEMMA WatchInv ==
  ASSUME ShellInv, NEW c \in Commands, Watch(c)
  PROVE  ShellInv'
<1> USE DEF turns
<1>1. /\ call[c] = "background" /\ HasExited(c) /\ ReaderEnded(c)
      /\ status' = [status EXCEPT ![c] = Watched(c)] /\ done' = [done EXCEPT ![c] = TRUE]
      /\ UNCHANGED <<os, call, killOnTimeout, tracked, turns, after>>
  BY DEF Watch
<1>2. /\ status[c] \in {"running", "completed", "killed"}
      /\ Watched(c) \in {"completed", "killed"}
      /\ status[c] \in {"completed", "killed"} => Watched(c) = status[c]
  BY <1>1 DEF Watched, ShellInv, ShellTypeOK
<1>3. ShellTypeOK'
  BY <1>1, <1>2 DEF os, ShellInv, ShellTypeOK
<1>4. ASSUME NEW d \in Commands
      PROVE  CommandOK(d)'
  BY <1>1, <1>2 DEF os, ShellInv, ShellTypeOK, CommandOK, HasExited, ReaderEnded
<1>5. ReportedOutputIsWhole' /\ KilledIsDead'
  BY <1>1, <1>2 DEF os, ShellInv, ShellTypeOK, ReportedOutputIsWhole, KilledIsDead, HasExited
<1>6. QED
  BY <1>3, <1>4, <1>5 DEF ShellInv

\* A cancel kills the commands it finds in their foreground window; a call that was
\* past its window had a dead shell already.
LEMMA CancelInv ==
  ASSUME ShellInv, CancelTurn
  PROVE  ShellInv'
<1>1. /\ KillTrees(Interrupted) /\ Interrupted \in SUBSET Commands
      /\ call' = [c \in Commands |-> IF c \in InCall THEN "cancelled" ELSE call[c]]
      /\ reader' = [c \in Commands |-> IF c \in InCall /\ reader[c] = "reading"
                                         THEN "cancelled" ELSE reader[c]]
      /\ orphans' = Queued /\ awaited' = {} /\ userCancelled' = TRUE /\ turn' = "cancelling"
      /\ UNCHANGED <<exceeded, killOnTimeout, mgr, after, killing, toKill, turnNo, delivered>>
  BY DEF CancelTurn, Interrupted, InCall
<1>2. /\ proc' \in [Commands -> {"none", "alive", "blocked", "exited", "signalled"}]
      /\ pipe' \in [Commands -> {"open", "held", "closed"}]
      /\ \A c \in Commands : proc'[c] = proc[c]
                             \/ (c \in Interrupted /\ proc'[c] = "signalled" /\ proc[c] # "none")
      /\ \A c \in Interrupted : proc[c] # "none" => proc'[c] \in {"exited", "signalled"}
  BY <1>1, KillTreesResult DEF ShellInv
<1>3. ShellTypeOK'
  BY <1>1, <1>2 DEF mgr, Queued, InCall, ShellInv, ShellTypeOK
<1>4. \A c \in Commands :
        /\ c \in InCall => call'[c] = "cancelled" /\ proc'[c] \in {"exited", "signalled"}
        /\ c \notin InCall => call'[c] = call[c]
        /\ reader'[c] = reader[c] \/ (reader[c] = "reading" /\ reader'[c] = "cancelled")
  <2>1. \A c \in InCall : c \in Interrupted \/ HasExited(c)
    BY DEF InCall, Interrupted, ShellInv, CommandOK
  <2>2. \A c \in Interrupted : proc[c] # "none"
    BY DEF InCall, Interrupted, ShellInv, CommandOK
  <2>3. QED
    BY <1>1, <1>2, <2>1, <2>2 DEF InCall, HasExited
<1>5. ASSUME NEW c \in Commands
      PROVE  CommandOK(c)'
  BY <1>1, <1>2, <1>4 DEF mgr, InCall, ShellInv, CommandOK, HasExited, ReaderEnded
<1>6. ReportedOutputIsWhole'
  BY <1>1, <1>4 DEF mgr, ShellInv, ReportedOutputIsWhole
<1>7. KilledIsDead'
  BY <1>1, <1>2, <1>4 DEF mgr, ShellInv, KilledIsDead, HasExited
<1>8. QED
  BY <1>3, <1>5, <1>6, <1>7 DEF ShellInv

\* A continuation carries what drain hands out, and only if nothing in it was killed.
LEMMA DeliverInv ==
  ASSUME ShellInv, Deliver
  PROVE  ShellInv'
<1>1. /\ \A c \in Drained : status[c] # "killed"
      /\ tracked' = tracked \ Drained /\ delivered' = delivered \cup Drained
      /\ turn' = "streaming" /\ awaited' = {}
      /\ UNCHANGED <<os, call, killOnTimeout, status, done, after>>
      /\ UNCHANGED <<killing, toKill, orphans, userCancelled, turnNo>>
  BY DEF Deliver
<1>2. \A c \in Drained : c \in Commands /\ status[c] = "completed" /\ done[c] /\ ReaderEnded(c)
  <2> SUFFICES ASSUME NEW c \in Drained
               PROVE  c \in Commands /\ status[c] = "completed" /\ done[c] /\ ReaderEnded(c)
    OBVIOUS
  <2>1. c \in Commands /\ c \in tracked /\ status[c] # "running" /\ status[c] # "killed"
    BY <1>1 DEF Drained, ShellInv, ShellTypeOK
  <2>2. status[c] \in {"none", "running", "completed", "killed"} /\ call[c] = "background"
    BY <2>1 DEF ShellInv, ShellTypeOK, CommandOK
  <2>3. status[c] = "completed"
    BY <2>1, <2>2 DEF ShellInv, ShellTypeOK
  <2>4. QED
    BY <2>1, <2>3 DEF ShellInv, CommandOK
<1>3. ShellTypeOK'
  BY <1>1, <1>2 DEF os, ShellInv, ShellTypeOK
<1>4. ASSUME NEW c \in Commands
      PROVE  CommandOK(c)'
  BY <1>1 DEF os, ShellInv, CommandOK, HasExited, ReaderEnded
<1>5. ReportedOutputIsWhole'
  BY <1>1, <1>2 DEF os, ShellInv, ReportedOutputIsWhole, CommandOK, ReaderEnded
<1>6. KilledIsDead'
  BY <1>1 DEF os, ShellInv, KilledIsDead, HasExited
<1>7. QED
  BY <1>3, <1>4, <1>5, <1>6 DEF ShellInv

\* A step of the turn alone.
LEMMA TurnMovesInv ==
  ASSUME ShellInv, NewTurn \/ AttemptDrops \/ FinalFrame \/ UNCHANGED shellVars
  PROVE  ShellInv'
<1>1. /\ UNCHANGED <<os, call, killOnTimeout, mgr, after, killing, toKill, delivered>>
  BY DEF NewTurn, AttemptDrops, FinalFrame, shellVars, turns
<1>2. /\ awaited' \subseteq Commands /\ orphans' \subseteq Commands
      /\ userCancelled' \in BOOLEAN /\ turnNo' \in 0..MaxTurns
      /\ turn' \in {"idle", "streaming", "waiting", "cancelling", "killing"}
  <2>1. CASE NewTurn
    <3>1. turnNo' = turnNo + 1 /\ turnNo < MaxTurns /\ turnNo \in 0..MaxTurns
      BY <2>1 DEF NewTurn, ShellInv, ShellTypeOK
    <3>2. turnNo' \in 0..MaxTurns
      BY <3>1, ShellAssumption
    <3>3. QED
      BY <2>1, <3>2 DEF NewTurn, ShellInv, ShellTypeOK
  <2>2. CASE AttemptDrops
    BY <2>2 DEF AttemptDrops, ShellInv, ShellTypeOK, InCall, Queued
  <2>3. CASE FinalFrame
    BY <2>3 DEF FinalFrame, ShellInv, ShellTypeOK
  <2>4. CASE UNCHANGED shellVars
    BY <2>4 DEF shellVars, turns, ShellInv, ShellTypeOK
  <2>5. QED
    BY <2>1, <2>2, <2>3, <2>4
<1>3. ShellTypeOK'
  BY <1>1, <1>2 DEF os, mgr, ShellInv, ShellTypeOK
<1>4. ASSUME NEW c \in Commands
      PROVE  CommandOK(c)'
  BY <1>1 DEF os, mgr, ShellInv, CommandOK, HasExited, ReaderEnded
<1>5. ReportedOutputIsWhole' /\ KilledIsDead'
  BY <1>1 DEF os, mgr, ShellInv, ReportedOutputIsWhole, KilledIsDead, HasExited
<1>6. QED
  BY <1>3, <1>4, <1>5 DEF ShellInv

LEMMA ShellStep == ShellInv /\ [ShellNext]_shellVars => ShellInv'
<1> SUFFICES ASSUME ShellInv, [ShellNext]_shellVars PROVE ShellInv'
  OBVIOUS
<1>0. /\ tracked \subseteq Commands /\ toKill \subseteq Commands /\ orphans \subseteq Commands
      /\ awaited \subseteq Commands
  BY DEF ShellInv, ShellTypeOK
<1>1. ASSUME NEW c \in Commands, ProcessStep(c) \/ CallStep(c) \/ Watch(c)
      PROVE  ShellInv'
  BY <1>1, ProcessInv, CallInv, WatchInv
<1>2. CASE NewTurn \/ AttemptDrops \/ FinalFrame \/ UNCHANGED shellVars
  BY <1>2, TurnMovesInv
<1>3. CASE TurnFails
  <2>1. orphans' \subseteq Commands /\ awaited' \subseteq Commands
    BY <1>0, <1>3 DEF TurnFails, InCall, Queued
  <2>2. QED
    BY <1>0, <1>3, <2>1, KillStep DEF TurnFails
<1>4. CASE StopKilled
  <2>1. orphans' \subseteq Commands /\ awaited' \subseteq Commands
    BY <1>0, <1>4 DEF StopKilled
  <2>2. tracked \ Drained \in SUBSET Commands /\ tracked \ Drained \in SUBSET tracked
    BY <1>0
  <2>3. QED
    BY <1>4, <2>1, <2>2, KillStep DEF StopKilled
<1>5. CASE CallsCancelled
  BY <1>0, <1>5, KillStep DEF CallsCancelled
<1>6. CASE KilledOne
  BY <1>0, <1>6, KillStep DEF KilledOne
<1>7. CASE Deliver
  BY <1>7, DeliverInv
<1>8. CASE CancelTurn
  BY <1>8, CancelInv
<1>9. QED
  BY <1>1, <1>2, <1>3, <1>4, <1>5, <1>6, <1>7, <1>8 DEF ShellNext, TurnStep, NothingLeft

LEMMA ShellInitInv == ShellInit => ShellInv
<1> SUFFICES ASSUME ShellInit PROVE ShellInv
  OBVIOUS
<1>1. ShellTypeOK
  <2>1. turnNo \in 0..MaxTurns
    BY ShellAssumption DEF ShellInit
  <2>2. /\ after \in [Commands -> Commands]
        /\ \A c \in Commands : ((status[c] = "none") = (call[c] # "background")) /\ ~done[c]
    BY DEF ShellInit
  <2>3. QED
    BY <2>1, <2>2 DEF ShellInit, ShellTypeOK
<1>2. QED
  BY <1>1 DEF ShellInit, ShellInv, CommandOK, ReportedOutputIsWhole, KilledIsDead

\* The types of the shells' state, and what a record of the manager means.
THEOREM ShellTypeCorrect == PlainShellSpec => []ShellTypeOK
<1>1. ShellInv => ShellTypeOK
  BY DEF ShellInv
<1>2. QED
  BY <1>1, ShellInitInv, ShellStep, PTL DEF PlainShellSpec

\* A step never takes back that the manager killed a command.
LEMMA KilledStays ==
  ShellInv /\ [ShellNext]_shellVars
    => [\A c \in Commands : status[c] = "killed" => status'[c] = "killed"]_shellVars
<1> SUFFICES ASSUME ShellInv, ShellNext, NEW k \in Commands, status[k] = "killed"
             PROVE  status'[k] = "killed"
  OBVIOUS
<1>0. /\ tracked \subseteq Commands /\ toKill \subseteq Commands
  BY DEF ShellInv, ShellTypeOK
<1>1. CASE status' = status
  BY <1>1
<1>2. ASSUME NEW rest \in SUBSET Commands, NEW tasks \in SUBSET tracked, KillNext(rest, tasks)
      PROVE  status'[k] = "killed"
  BY <1>2, KillNextResult
<1>3. ASSUME NEW c \in Commands, ProcessStep(c)
      PROVE  status'[k] = "killed"
  BY <1>1, <1>3 DEF ProcessStep, Flood, Block, Ended, Exit, ChildEnds, ReadEof, mgr
<1>4. ASSUME NEW c \in Commands, CallStep(c)
      PROVE  status'[k] = "killed"
  <2>1. CASE TimesOut(c)
    <3>1. c # k
      BY <2>1 DEF TimesOut, ShellInv, ShellTypeOK
    <3>2. status' = status \/ status' = [status EXCEPT ![c] = "running"]
      BY <2>1 DEF TimesOut, mgr
    <3>3. QED
      BY <3>1, <3>2 DEF ShellInv, ShellTypeOK
  <2>2. QED
    BY <1>1, <1>4, <2>1
       DEF CallStep, Start, Queue, StartQueued, Spawn, WaitReturns, Returns, mgr
<1>5. ASSUME NEW c \in Commands, Watch(c)
      PROVE  status'[k] = "killed"
  BY <1>5 DEF Watch, Watched, ShellInv, ShellTypeOK
<1>6. CASE TurnFails \/ StopKilled \/ CallsCancelled \/ KilledOne
  <2>1. tracked \ Drained \in SUBSET Commands /\ tracked \ Drained \in SUBSET tracked
    BY <1>0
  <2>2. QED
    BY <1>0, <1>2, <1>6, <2>1 DEF TurnFails, StopKilled, CallsCancelled, KilledOne
<1>7. CASE NewTurn \/ AttemptDrops \/ FinalFrame \/ Deliver \/ CancelTurn \/ NothingLeft
  BY <1>1, <1>7 DEF NewTurn, AttemptDrops, FinalFrame, Deliver, CancelTurn, NothingLeft, mgr,
     shellVars
<1>8. QED
  BY <1>3, <1>4, <1>5, <1>6, <1>7 DEF ShellNext, TurnStep

\* What the agent is told of its commands is true however exits, timeouts, queued
\* calls, cancels and kill_all interleave: whole output or output marked as cut, no
\* running or killed command delivered, and every killed one dead for good.
THEOREM ReportsHold == PlainShellSpec => ReportsAreTrue
<1>1. ShellInv => ReportedOutputIsWhole
  BY DEF ShellInv
<1>2. ShellInv
        => (\A c \in Commands : call[c] = "cancelled" \/ status[c] = "killed" => HasExited(c))
  BY DEF ShellInv, KilledIsDead
<1>3. QED
  BY <1>1, <1>2, ShellInitInv, ShellStep, KilledStays, PTL
     DEF PlainShellSpec, ReportsAreTrue, KillsHold

----------------------------------------------------------------------------
(* The answer of an agent check *)

Casts == INSTANCE Folding WITH Op <- Voted
Rounds == INSTANCE Folding WITH Op <- VotesOfRun

Keep(kept, run) == IF run.failed THEN kept ELSE Append(kept, run)
Picks == INSTANCE Folding WITH Op <- Keep

AnyReview == [failed : BOOLEAN, findings : Seq(Found)]
VoteBoxes == [Locators -> Seq([run : Nat, severity : Severities])]

LEMMA CastsFold == \A votes, ballots : VotesOfRun(votes, ballots) = Casts!Fold(votes, ballots)
BY DEF VotesOfRun, FoldLeft, MapThenFoldSet, Max, Casts!Fold, Casts!Unfolded, Casts!Largest

LEMMA PicksFold == \A runs : Succeeded(runs) = Picks!Fold(<<>>, runs)
BY DEF Succeeded, Keep, FoldLeft, MapThenFoldSet, Max, Picks!Fold, Picks!Unfolded, Picks!Largest

NoVotes == [l \in Locators |-> <<>>]
AllBallots(runs) == [run \in DOMAIN runs |-> Ballots(run, runs[run].findings)]

LEMMA RoundsFold == \A runs : Votes(runs) = Rounds!Fold(NoVotes, AllBallots(runs))
BY DEF Votes, NoVotes, AllBallots, FoldLeft, MapThenFoldSet, Max, Rounds!Fold, Rounds!Unfolded, Rounds!Largest

LEMMA SucceededTyped == ASSUME NEW runs \in Seq(AnyReview) PROVE Succeeded(runs) \in Seq(AnyReview)
<1> DEFINE T == Seq(AnyReview)
<1>1. \A t \in T, e \in AnyReview : Keep(t, e) \in T
  BY DEF Keep
<1>2. Len(runs) \in Nat /\ DOMAIN runs = 1..Len(runs) /\ \A i \in 1..Len(runs) : runs[i] \in AnyReview
  OBVIOUS
<1>3. <<>> \in T
  OBVIOUS
<1> HIDE DEF T
<1>4. Picks!Fold(<<>>, runs) \in T
  BY <1>1, <1>2, <1>3, Picks!FoldType
<1> QED BY <1>4, PicksFold DEF T

\* The reviews that name a locator, of the first n and the first k findings of the next.
Heard(runs, n, k) ==
  [l \in Locators |->
     {r \in DOMAIN runs :
        \/ r <= n /\ \E j \in DOMAIN runs[r].findings : runs[r].findings[j].at = l
        \/ r = n + 1 /\ \E j \in 1..k : runs[r].findings[j].at = l}]

\* Each of these has one vote for it, with something it said of it.
Fair(votes, runs, heard) ==
  /\ votes \in VoteBoxes
  /\ \A l \in Locators :
       /\ \A x, y \in DOMAIN votes[l] : votes[l][x].run = votes[l][y].run => x = y
       /\ \A r : r \in heard[l] <=> \E x \in DOMAIN votes[l] : votes[l][x].run = r
       /\ \A x \in DOMAIN votes[l] :
            [at |-> l, severity |-> votes[l][x].severity] \in Range(runs[votes[l][x].run].findings)

LEMMA VoteIsFair ==
  ASSUME NEW votes, NEW runs, NEW heard \in [Locators -> SUBSET Nat], Fair(votes, runs, heard),
         NEW b \in [run : Nat, at : Locators, severity : Severities],
         [at |-> b.at, severity |-> b.severity] \in Range(runs[b.run].findings)
  PROVE  Fair(Voted(votes, b), runs, [heard EXCEPT ![b.at] = @ \cup {b.run}])
<1> DEFINE at == b.at
           new == [run |-> b.run, severity |-> b.severity]
           longer == Append(votes[at], new)
           more == [heard EXCEPT ![at] = @ \cup {b.run}]
<1>1. at \in Locators /\ b.run \in Nat /\ votes \in VoteBoxes /\ new \in [run : Nat, severity : Severities]
  BY DEF Fair
<1>2. CASE \E i \in DOMAIN votes[at] : votes[at][i].run = b.run
  <2>1. Voted(votes, b) = votes
    BY <1>2 DEF Voted
  <2>2. b.run \in heard[at]
    BY <1>1, <1>2 DEF Fair
  <2>3. more = heard
    BY <1>1, <2>2
  <2> QED BY <2>1, <2>3
<1>3. CASE ~\E i \in DOMAIN votes[at] : votes[at][i].run = b.run
  <2>1. Voted(votes, b) = [votes EXCEPT ![at] = longer]
    BY <1>3 DEF Voted
  <2> DEFINE others == votes[at]
             n == Len(others)
  <2>2. others \in Seq([run : Nat, severity : Severities]) /\ n \in Nat /\ DOMAIN others = 1..n
    <3>1. others \in Seq([run : Nat, severity : Severities])
      BY <1>1 DEF VoteBoxes
    <3> HIDE DEF others
    <3> QED BY <3>1
  <2>3. /\ longer \in Seq([run : Nat, severity : Severities]) /\ DOMAIN longer = 1..(n + 1)
        /\ longer[n + 1] = new /\ \A i \in 1..n : longer[i] = others[i]
    BY <1>1, <2>2
  <2>4. new.run = b.run /\ new.severity = b.severity
    OBVIOUS
  <2> HIDE DEF longer, new, at
  <2>5. [votes EXCEPT ![at] = longer] \in VoteBoxes
    BY <1>1, <2>3 DEF VoteBoxes
  <2> DEFINE counted == [votes EXCEPT ![at] = longer]
  <2>6. counted[at] = longer /\ more[at] = heard[at] \cup {b.run}
    BY <1>1 DEF VoteBoxes
  <2>7. \A l \in Locators \ {at} : counted[l] = votes[l] /\ more[l] = heard[l]
    BY <1>1 DEF VoteBoxes
  <2> HIDE DEF counted, more
  <2>8. \A x, y \in DOMAIN longer : longer[x].run = longer[y].run => x = y
    <3>1. \A x, y \in DOMAIN others : others[x].run = others[y].run => x = y
      BY <1>1 DEF Fair
    <3>2. \A x \in 1..n : longer[x].run # b.run
      BY <1>3, <2>2, <2>3
    <3>3. longer[n + 1].run = b.run /\ \A x \in 1..n : longer[x].run = others[x].run
      BY <2>3, <2>4
    <3>9. \A z : z \in 1..(n + 1) <=> z \in 1..n \/ z = n + 1
      BY <2>2
    <3> SUFFICES ASSUME NEW x \in 1..(n + 1), NEW y \in 1..(n + 1), longer[x].run = longer[y].run PROVE x = y
      BY <2>3
    <3>4. CASE x \in 1..n /\ y \in 1..n
      BY <2>2, <3>1, <3>3, <3>4
    <3>5. CASE x \in 1..n /\ y \notin 1..n
      <4>1. y = n + 1
        BY <3>9, <3>5
      <4> QED BY <4>1, <3>2, <3>3, <3>5
    <3>6. CASE x \notin 1..n /\ y \in 1..n
      <4>1. x = n + 1
        BY <3>9, <3>6
      <4> QED BY <4>1, <3>2, <3>3, <3>6
    <3>7. CASE x \notin 1..n /\ y \notin 1..n
      BY <2>2, <3>7
    <3> QED BY <3>4, <3>5, <3>6, <3>7
  <2>9. \A r : r \in more[at] <=> \E x \in DOMAIN longer : longer[x].run = r
    <3>1. \A r : r \in heard[at] <=> \E x \in DOMAIN others : others[x].run = r
      BY <1>1 DEF Fair
    <3>2. longer[n + 1].run = b.run /\ \A x \in 1..n : longer[x].run = others[x].run
      BY <2>3, <2>4
    <3>3. \A x : x \in 1..(n + 1) <=> x \in 1..n \/ x = n + 1
      BY <2>2
    <3>4. \A r : r \in more[at] <=> r \in heard[at] \/ r = b.run
      BY <2>6
    <3> HIDE DEF others
    <3> SUFFICES ASSUME NEW r PROVE r \in more[at] <=> \E x \in 1..(n + 1) : longer[x].run = r
      BY <2>3
    <3>5. r \in heard[at] <=> \E x \in 1..n : longer[x].run = r
      BY <2>2, <3>1, <3>2
    <3> QED BY <3>2, <3>3, <3>4, <3>5
  <2>10. \A x \in DOMAIN longer :
           [at |-> at, severity |-> longer[x].severity] \in Range(runs[longer[x].run].findings)
    <3>1. \A x \in DOMAIN others :
            [at |-> at, severity |-> others[x].severity] \in Range(runs[others[x].run].findings)
      BY <1>1 DEF Fair
    <3>2. [at |-> at, severity |-> longer[n + 1].severity] \in Range(runs[longer[n + 1].run].findings)
      BY <2>3, <2>4 DEF at
    <3>3. \A x \in DOMAIN longer : x \in DOMAIN others \/ x = n + 1
      BY <2>2, <2>3
    <3> QED BY <2>2, <2>3, <3>1, <3>2, <3>3
  <2>11. Fair(counted, runs, more)
    <3>1. counted \in VoteBoxes
      BY <2>5 DEF counted
    <3>2. ASSUME NEW l \in Locators
          PROVE  /\ \A x, y \in DOMAIN counted[l] : counted[l][x].run = counted[l][y].run => x = y
                 /\ \A r : r \in more[l] <=> \E x \in DOMAIN counted[l] : counted[l][x].run = r
                 /\ \A x \in DOMAIN counted[l] :
                      [at |-> l, severity |-> counted[l][x].severity] \in Range(runs[counted[l][x].run].findings)
      <4>1. CASE l = at
        BY <4>1, <2>6, <2>8, <2>9, <2>10
      <4>2. CASE l # at
        BY <4>2, <2>7 DEF Fair
      <4> QED BY <4>1, <4>2
    <3> QED BY <3>1, <3>2 DEF Fair
  <2> QED BY <2>1, <2>11 DEF counted, more, at
<1> QED BY <1>2, <1>3

\* The findings of a review are counted.
LEMMA RunIsFair ==
  ASSUME NEW runs \in Seq(AnyReview), NEW n \in Nat, n + 1 \in DOMAIN runs,
         NEW votes, Fair(votes, runs, Heard(runs, n, 0))
  PROVE  Fair(VotesOfRun(votes, Ballots(n + 1, runs[n + 1].findings)), runs, Heard(runs, n + 1, 0))
<1> DEFINE fs == runs[n + 1].findings
           ballots == Ballots(n + 1, fs)
           len == Len(fs)
           T == [k \in 0..len |-> {v \in VoteBoxes : Fair(v, runs, Heard(runs, n, k))}]
<1>1. fs \in Seq(Found) /\ len \in Nat /\ DOMAIN fs = 1..len
  <2>1. runs[n + 1] \in AnyReview
    OBVIOUS
  <2>2. fs \in Seq(Found)
    BY <2>1 DEF AnyReview
  <2> HIDE DEF fs
  <2> QED BY <2>2
<1>2. DOMAIN ballots = 1..len
  BY <1>1 DEF Ballots
<1>3. votes \in T[0]
  BY <1>1 DEF Fair
<1>4. ASSUME NEW k \in 0..(len - 1), NEW t \in T[k] PROVE Voted(t, ballots[k + 1]) \in T[k + 1]
  <2> DEFINE b == ballots[k + 1]
             heard == Heard(runs, n, k)
  <2>1. k \in 0..len /\ k \in Nat /\ k + 1 \in 1..len /\ k + 1 \in 0..len
    BY <1>1
  <2>2. Fair(t, runs, heard)
    BY <2>1
  <2>3. fs[k + 1] \in Found
    BY <1>1, <2>1
  <2>4. b = [run |-> n + 1, at |-> fs[k + 1].at, severity |-> fs[k + 1].severity]
    BY <1>1, <2>1 DEF Ballots
  <2>5. b \in [run : Nat, at : Locators, severity : Severities]
    BY <2>3, <2>4 DEF Found
  <2>6. [at |-> b.at, severity |-> b.severity] \in Range(runs[b.run].findings)
    <3>1. [at |-> b.at, severity |-> b.severity] = fs[k + 1]
      BY <2>3, <2>4 DEF Found
    <3> QED BY <3>1, <1>1, <2>1, <2>4 DEF Range
  <2>7. heard \in [Locators -> SUBSET Nat]
    BY DEF Heard
  <2>8. Heard(runs, n, k + 1) = [heard EXCEPT ![b.at] = @ \cup {b.run}]
    <3>1. ASSUME NEW l \in Locators
          PROVE  Heard(runs, n, k + 1)[l] = IF l = fs[k + 1].at THEN heard[l] \cup {n + 1} ELSE heard[l]
      <4>1. \A j : j \in 1..(k + 1) <=> j \in 1..k \/ j = k + 1
        BY <2>1
      <4> QED BY <4>1, <2>1 DEF Heard
    <3>2. b.at \in Locators /\ b.at = fs[k + 1].at /\ b.run = n + 1
      BY <2>4, <2>5
    <3>3. heard = [l \in Locators |-> heard[l]] /\ Heard(runs, n, k + 1) = [l \in Locators |-> Heard(runs, n, k + 1)[l]]
      BY DEF Heard
    <3> HIDE DEF heard, b
    <3> QED BY <3>1, <3>2, <3>3
  <2> HIDE DEF b, heard
  <2>9. Fair(Voted(t, b), runs, [heard EXCEPT ![b.at] = @ \cup {b.run}])
    BY <2>2, <2>5, <2>6, <2>7, VoteIsFair
  <2>10. Fair(Voted(t, b), runs, Heard(runs, n, k + 1))
    BY <2>8, <2>9
  <2>11. Voted(t, b) \in VoteBoxes
    BY <2>10 DEF Fair
  <2>12. Voted(t, b) \in T[k + 1]
    BY <2>1, <2>10, <2>11
  <2> QED BY <2>12 DEF b
<1> HIDE DEF T, ballots
<1>5. Casts!Fold(votes, ballots) \in T[len]
  BY <1>1, <1>2, <1>3, <1>4, Casts!FoldStepwise
<1>6. Fair(Casts!Fold(votes, ballots), runs, Heard(runs, n, len))
  BY <1>1, <1>5 DEF T
<1>7. Heard(runs, n, len) = Heard(runs, n + 1, 0)
  <2>1. ASSUME NEW l \in Locators PROVE Heard(runs, n, len)[l] = Heard(runs, n + 1, 0)[l]
    <3>1. \A r \in DOMAIN runs : r \in Nat /\ (r <= n + 1 <=> r <= n \/ r = n + 1)
      OBVIOUS
    <3>2. \A j : j \notin 1..0
      OBVIOUS
    <3> QED BY <1>1, <3>1, <3>2 DEF Heard
  <2> QED BY <2>1 DEF Heard
<1> QED BY <1>6, <1>7, CastsFold DEF ballots

\* And those of all reviews.
LEMMA VotesAreFair ==
  ASSUME NEW runs \in Seq(AnyReview) PROVE Fair(Votes(runs), runs, Heard(runs, Len(runs), 0))
<1> DEFINE n == Len(runs)
           T == [k \in 0..n |-> {v \in VoteBoxes : Fair(v, runs, Heard(runs, k, 0))}]
           all == AllBallots(runs)
<1>1. n \in Nat /\ DOMAIN runs = 1..n /\ DOMAIN all = 1..n
  BY DEF AllBallots
<1>2. NoVotes \in T[0]
  <2>1. NoVotes \in VoteBoxes
    BY DEF NoVotes, VoteBoxes
  <2>2. \A l \in Locators : Heard(runs, 0, 0)[l] = {}
    BY <1>1 DEF Heard
  <2>3. \A l \in Locators : DOMAIN NoVotes[l] = {}
    BY DEF NoVotes
  <2>4. Fair(NoVotes, runs, Heard(runs, 0, 0))
    BY <2>1, <2>2, <2>3 DEF Fair
  <2> QED BY <1>1, <2>1, <2>4
<1>3. ASSUME NEW k \in 0..(n - 1), NEW t \in T[k] PROVE VotesOfRun(t, all[k + 1]) \in T[k + 1]
  <2>1. k \in 0..n /\ k \in Nat /\ k + 1 \in DOMAIN runs /\ k + 1 \in 0..n
    BY <1>1
  <2>2. Fair(t, runs, Heard(runs, k, 0))
    BY <2>1
  <2>3. all[k + 1] = Ballots(k + 1, runs[k + 1].findings)
    BY <2>1 DEF AllBallots
  <2>4. Fair(VotesOfRun(t, Ballots(k + 1, runs[k + 1].findings)), runs, Heard(runs, k + 1, 0))
    BY <2>1, <2>2, RunIsFair
  <2>5. VotesOfRun(t, Ballots(k + 1, runs[k + 1].findings)) \in VoteBoxes
    BY <2>4 DEF Fair
  <2> HIDE DEF all
  <2> QED BY <2>1, <2>3, <2>4, <2>5
<1> HIDE DEF T, all
<1>4. Rounds!Fold(NoVotes, all) \in T[n]
  BY <1>1, <1>2, <1>3, Rounds!FoldStepwise
<1> QED BY <1>1, <1>4, RoundsFold DEF T, all

LEMMA VotesCount ==
  ASSUME NEW runs \in Seq(AnyReview), NEW l \in Locators
  PROVE  Len(Votes(runs)[l]) = Cardinality(Heard(runs, Len(runs), 0)[l])
<1> DEFINE box == Votes(runs)[l]
           len == Len(box)
           S == Heard(runs, Len(runs), 0)[l]
           f == [x \in 1..len |-> box[x].run]
<1>1. Votes(runs) \in VoteBoxes
  BY VotesAreFair DEF Fair
<1>2. /\ \A x, y \in DOMAIN box : box[x].run = box[y].run => x = y
      /\ \A r : r \in S <=> \E x \in DOMAIN box : box[x].run = r
  BY VotesAreFair DEF Fair
<1>3. box \in Seq([run : Nat, severity : Severities])
  BY <1>1 DEF VoteBoxes
<1> HIDE DEF box, S
<1>4. len \in Nat /\ DOMAIN box = 1..len
  BY <1>3
<1>5. f \in Bijection(1..len, S)
  <2>1. f \in [1..len -> S]
    BY <1>2, <1>4
  <2>2. \A a, b \in DOMAIN f : f[a] = f[b] => a = b
    BY <1>2, <1>4
  <2>3. \A t \in S : \E x \in 1..len : f[x] = t
    BY <1>2, <1>4
  <2> HIDE DEF f
  <2> QED BY <2>1, <2>2, <2>3 DEF Bijection, Injection, Surjection, IsInjective
<1> HIDE DEF f, len
<1>6. ExistsBijection(1..len, S)
  BY <1>5 DEF ExistsBijection
<1>7. Cardinality(S) = len
  BY <1>4, <1>6, FS_CountingElements
<1> QED BY <1>7 DEF len, box, S

\* The reviews that name a locator.
Namers(runs, l) == {r \in DOMAIN runs : \E k \in DOMAIN runs[r].findings : runs[r].findings[k].at = l}

LEMMA HeardIsNamed ==
  ASSUME NEW runs \in Seq(AnyReview), NEW l \in Locators
  PROVE  Heard(runs, Len(runs), 0)[l] = Namers(runs, l)
<1>1. \A r \in DOMAIN runs : r <= Len(runs)
  OBVIOUS
<1>2. \A j : j \notin 1..0
  OBVIOUS
<1> QED BY <1>1, <1>2 DEF Heard, Namers

LEMMA BoxTyped ==
  ASSUME NEW box \in Seq([run : Nat, severity : Severities])
  PROVE  /\ Len(box) \in Nat /\ DOMAIN box = 1..Len(box)
         /\ \A x \in 1..Len(box) : box[x].severity \in Severities
<1> DEFINE S == [run : Nat, severity : Severities]
<1>1. \A v \in S : v.severity \in Severities
  OBVIOUS
<1>2. box \in Seq(S)
  OBVIOUS
<1> HIDE DEF S
<1>3. \A x \in 1..Len(box) : box[x] \in S
  BY <1>2
<1>4. Len(box) \in Nat /\ DOMAIN box = 1..Len(box)
  BY <1>2
<1> QED BY <1>1, <1>3, <1>4

LEMMA ConsensusCounts ==
  ASSUME NEW runs \in Seq(AnyReview), Len(runs) >= 2, NEW l \in Locators
  PROVE  /\ {f \in Consensus(runs) : f.at = l} # {} <=> 2 * Cardinality(Namers(runs, l)) > Len(runs)
         /\ \A f \in Consensus(runs) :
              f.at = l => \E r \in Namers(runs, l) : f \in Range(runs[r].findings)
<1> DEFINE box == Votes(runs)[l]
           needed == (Len(runs) \div 2) + 1
           kept == {k \in Locators : Len(Votes(runs)[k]) >= needed}
<1>1. Consensus(runs) = {[at |-> k, severity |-> Worst(Votes(runs)[k])] : k \in kept}
  <2>1. ~(Len(runs) <= 1)
    OBVIOUS
  <2> QED BY <2>1 DEF Consensus
<1>2. Len(runs) \in Nat /\ needed \in Nat /\ needed >= 1
      /\ \A n \in Nat : n >= needed <=> 2 * n > Len(runs)
  OBVIOUS
<1>3. Len(box) = Cardinality(Namers(runs, l))
  BY VotesCount, HeardIsNamed
<1>4. box \in Seq([run : Nat, severity : Severities])
  <2>1. Votes(runs) \in VoteBoxes
    BY VotesAreFair DEF Fair
  <2> QED BY <2>1 DEF VoteBoxes
<1>5. Len(box) \in Nat /\ DOMAIN box = 1..Len(box) /\ \A x \in 1..Len(box) : box[x].severity \in Severities
  <2> HIDE DEF box
  <2> QED BY <1>4, BoxTyped
<1>6. /\ \A r : r \in Namers(runs, l) <=> \E x \in DOMAIN box : box[x].run = r
      /\ \A x \in DOMAIN box : [at |-> l, severity |-> box[x].severity] \in Range(runs[box[x].run].findings)
  <2>1. Fair(Votes(runs), runs, Heard(runs, Len(runs), 0))
    BY VotesAreFair
  <2>2. Heard(runs, Len(runs), 0)[l] = Namers(runs, l)
    BY HeardIsNamed
  <2> QED BY <2>1, <2>2 DEF Fair
<1>7. l \in kept <=> Len(box) >= needed
  OBVIOUS
<1> HIDE DEF box, needed, kept
<1>8. {f \in Consensus(runs) : f.at = l} # {} <=> l \in kept
  <2>1. ASSUME NEW f \in Consensus(runs), f.at = l PROVE l \in kept
    BY <1>1, <2>1
  <2>2. ASSUME l \in kept PROVE \E f \in Consensus(runs) : f.at = l
    <3> DEFINE f == [at |-> l, severity |-> Worst(Votes(runs)[l])]
    <3>1. f \in Consensus(runs) /\ f.at = l
      BY <1>1, <2>2
    <3> QED BY <3>1
  <2> QED BY <2>1, <2>2
<1>9. ASSUME NEW f \in Consensus(runs), f.at = l PROVE \E r \in Namers(runs, l) : f \in Range(runs[r].findings)
  <2>1. l \in kept /\ f = [at |-> l, severity |-> Worst(box)]
    BY <1>1, <1>9 DEF box
  <2>2. Len(box) >= 1
    BY <1>2, <1>5, <1>7, <2>1
  <2>3. \E x \in DOMAIN box : box[x].severity = Worst(box)
    <3>1. CASE \E i \in DOMAIN box : box[i].severity = "fails"
      BY <3>1 DEF Worst
    <3>2. CASE ~\E i \in DOMAIN box : box[i].severity = "fails"
      <4>1. 1 \in DOMAIN box
        BY <1>5, <2>2
      <4>2. box[1].severity = "warns"
        BY <1>5, <3>2, <4>1 DEF Severities
      <4>3. Worst(box) = "warns"
        BY <3>2 DEF Worst
      <4> QED BY <4>1, <4>2, <4>3
    <3> QED BY <3>1, <3>2
  <2> QED BY <1>6, <2>1, <2>3
<1> QED BY <1>2, <1>3, <1>5, <1>7, <1>8, <1>9

LEMMA ConsensusTyped == ASSUME NEW runs \in Seq(AnyReview) PROVE Consensus(runs) \subseteq Found
<1>1. CASE Len(runs) <= 1
  <2>1. Consensus(runs) = UNION {Range(runs[i].findings) : i \in DOMAIN runs}
    BY <1>1 DEF Consensus
  <2>2. \A i \in DOMAIN runs : Range(runs[i].findings) \subseteq Found
    <3> SUFFICES ASSUME NEW i \in DOMAIN runs PROVE Range(runs[i].findings) \subseteq Found
      OBVIOUS
    <3>1. runs[i] \in AnyReview
      OBVIOUS
    <3>2. runs[i].findings \in Seq(Found)
      BY <3>1 DEF AnyReview
    <3> QED BY <3>2 DEF Range
  <2> QED BY <2>1, <2>2
<1>2. CASE ~(Len(runs) <= 1)
  <2>1. ASSUME NEW f \in Consensus(runs) PROVE f \in Found
    <3>1. PICK l \in Locators : f = [at |-> l, severity |-> Worst(Votes(runs)[l])]
      BY <1>2 DEF Consensus
    <3> QED BY <3>1 DEF Worst, Found, Severities
  <2> QED BY <2>1
<1> QED BY <1>1, <1>2

\* An answer is what was agreed on, with the status that follows from it.
AnswerFits(i, answer) ==
  /\ answer.runs \in Seq(AnyReview)
  /\ answer.findings = Consensus(Succeeded(answer.runs))
  /\ answer.status = "FAIL" => AgentChecks[i] \in Blocking /\ \E f \in answer.findings : Grounded(f)

ReviewInv ==
  /\ ended \in Seq(AnyReview)
  /\ answers \in Seq([runs : Seq(AnyReview), findings : SUBSET Found, status : {"ERROR", "PASS", "FAIL", "WARN"}])
  /\ \A i \in DOMAIN answers : AnswerFits(i, answers[i])

LEMMA ReviewStarts == ReviewInit => ReviewInv
BY DEF ReviewInit, ReviewInv

LEMMA ReviewKept == ReviewInv /\ [ReviewNext]_reviewVars => ReviewInv'
<1> SUFFICES ASSUME ReviewInv, [ReviewNext]_reviewVars PROVE ReviewInv'
  OBVIOUS
<1> USE DEF ReviewInv
<1>1. ASSUME NEW outcome \in AnyReview, EndsWith(outcome) PROVE ReviewInv'
  <2>1. ended' = Append(ended, outcome) /\ answers' = answers
    BY <1>1 DEF EndsWith
  <2>2. ended' \in Seq(AnyReview)
    BY <2>1
  <2> QED BY <2>1, <2>2
<1>2. Failed \in AnyReview
  <2>1. <<>> \in Seq(Found)
    OBVIOUS
  <2> QED BY <2>1 DEF Failed, AnyReview
<1>3. CASE Parses
  <2>1. PICK n \in 0..MaxFound[Current] : \E findings \in [1..n -> Found] : EndsWith(Replied(findings))
    BY <1>3 DEF Parses
  <2>2. PICK findings \in [1..n -> Found] : EndsWith(Replied(findings))
    BY <2>1
  <2>3. n \in Nat
    OBVIOUS
  <2>4. findings \in Seq(Found)
    BY <2>3
  <2>5. Replied(findings) \in AnyReview
    BY <2>4 DEF Replied, AnyReview
  <2> QED BY <1>1, <2>2, <2>5
<1>4. CASE Unparsed
  <2>1. CASE UNCHANGED <<ended, answers>>
    BY <2>1
  <2>2. CASE EndsWith(Failed)
    BY <1>1, <1>2, <2>2
  <2> QED BY <1>4, <2>1, <2>2 DEF Unparsed
<1>5. CASE ReviewTurnFails
  BY <1>1, <1>2, <1>5 DEF ReviewTurnFails
<1>6. CASE Collect
  <2> DEFINE runs == Succeeded(ended)
             findings == Consensus(runs)
             verdict == Status(Current, findings, Len(runs) < Len(ended))
             answer == [runs |-> ended, findings |-> findings, status |-> verdict]
  <2>1. answers' = Append(answers, answer) /\ ended' = <<>>
    BY <1>6 DEF Collect
  <2>2. runs \in Seq(AnyReview)
    BY SucceededTyped
  <2>3. findings \subseteq Found
    BY <2>2, ConsensusTyped
  <2>4. /\ verdict \in {"ERROR", "PASS", "FAIL", "WARN"}
        /\ verdict = "FAIL" => Current \in Blocking /\ \E f \in findings : Grounded(f)
    <3> DEFINE failed == Len(runs) < Len(ended)
               check == Current
    <3> HIDE DEF findings, failed, check
    <3> QED BY DEF Status, failed, check
  <2>5. answer \in [runs : Seq(AnyReview), findings : SUBSET Found, status : {"ERROR", "PASS", "FAIL", "WARN"}]
    <3> HIDE DEF verdict, findings
    <3> QED BY <2>3, <2>4
  <2>6. AnswerFits(Len(answers) + 1, answer)
    <3> HIDE DEF verdict
    <3> QED BY <2>4 DEF AnswerFits, Current
  <2> HIDE DEF answer
  <2>7. /\ answers' \in Seq([runs : Seq(AnyReview), findings : SUBSET Found, status : {"ERROR", "PASS", "FAIL", "WARN"}])
        /\ DOMAIN answers' = 1..(Len(answers) + 1) /\ answers'[Len(answers) + 1] = answer
        /\ \A i \in DOMAIN answers : answers'[i] = answers[i]
    BY <2>1, <2>5
  <2>8. ASSUME NEW i \in DOMAIN answers' PROVE AnswerFits(i, answers'[i])
    <3>1. i \in DOMAIN answers \/ i = Len(answers) + 1
      BY <2>7
    <3> QED BY <2>6, <2>7, <3>1
  <2>9. ended' \in Seq(AnyReview)
    BY <2>1
  <2> QED BY <2>7, <2>8, <2>9
<1>7. CASE UNCHANGED reviewVars
  BY <1>7 DEF reviewVars
<1> QED BY <1>3, <1>4, <1>5, <1>6, <1>7 DEF ReviewNext

LEMMA MajorityFollows == ReviewInv => MajorityDecides
<1> SUFFICES ASSUME ReviewInv, NEW i \in DOMAIN answers, Len(Votable(i)) >= 2, NEW l \in Locators
             PROVE  LET kept == {f \in answers[i].findings : f.at = l} IN
                    /\ kept # {} <=> 2 * Cardinality(Naming(i, l)) > Len(Votable(i))
                    /\ \A f \in kept : \E r \in Naming(i, l) : f \in Range(Votable(i)[r].findings)
  BY DEF MajorityDecides
<1> DEFINE runs == Votable(i)
<1>1. AnswerFits(i, answers[i])
  BY DEF ReviewInv
<1>2. runs \in Seq(AnyReview) /\ answers[i].findings = Consensus(runs)
  BY <1>1, SucceededTyped DEF AnswerFits, Votable
<1>3. Naming(i, l) = Namers(runs, l)
  BY DEF Naming, Namers
<1> HIDE DEF runs
<1>4. Len(runs) >= 2
  BY DEF runs
<1>5. /\ {f \in Consensus(runs) : f.at = l} # {} <=> 2 * Cardinality(Namers(runs, l)) > Len(runs)
      /\ \A f \in Consensus(runs) : f.at = l => \E r \in Namers(runs, l) : f \in Range(runs[r].findings)
  BY <1>2, <1>4, ConsensusCounts
<1> QED BY <1>2, <1>3, <1>5 DEF runs

LEMMA FailuresFollow == ReviewInv => FailuresAreActionable
<1> SUFFICES ASSUME ReviewInv, NEW i \in DOMAIN answers, answers[i].status = "FAIL"
             PROVE  /\ \/ \E act \in NextActions : act.check < i \/ (act.check = i /\ act.at \in Real)
                       \/ \E j \in 1..(i - 1) : Stops(j) /\ answers[j].status = "ERROR"
                    /\ \A act \in NextActions : act.at \in Real \cup {"error"}
  BY DEF FailuresAreActionable
<1> DEFINE failing == {k \in DOMAIN answers : Stops(k)}
           first == CHOOSE k \in failing : \A other \in failing : k <= other
<1>1. DOMAIN answers = 1..Len(answers) /\ Len(answers) \in Nat
  BY DEF ReviewInv
<1>2. i \in failing
  BY DEF ReviewInv, AnswerFits, Stops
<1>3. first \in failing /\ \A other \in failing : first <= other
  <2>1. failing \in SUBSET (0..Len(answers)) /\ failing # {} /\ Len(answers) \in Nat
    BY <1>1, <1>2
  <2> HIDE DEF failing
  <2>2. \E x \in failing : \A y \in failing : x <= y
    BY <2>1, Picks!HasSmallest
  <2> QED BY <2>2
<1> HIDE DEF first
<1>4. first \in 1..i /\ first \in DOMAIN answers /\ Stops(first)
  BY <1>1, <1>2, <1>3
<1>5. NextActions =
        IF answers[first].status = "ERROR" /\ answers[first].findings = {}
        THEN {Action(first, "error")}
        ELSE {Action(first, f.at) : f \in {f \in answers[first].findings : Grounded(f)}}
  BY <1>2, Zenon DEF NextActions, first
<1>6. \A act \in NextActions : act.at \in Real \cup {"error"}
  BY <1>5 DEF Action, Grounded
<1>7. CASE answers[first].status = "ERROR"
  <2>1. first # i
    BY <1>7
  <2>2. first \in 1..(i - 1)
    BY <1>1, <1>4, <2>1
  <2> QED BY <1>4, <1>6, <1>7, <2>2
<1>8. CASE answers[first].status # "ERROR"
  <2>1. answers[first].status = "FAIL"
    BY <1>4, <1>8 DEF Stops
  <2>2. PICK f \in answers[first].findings : Grounded(f)
    BY <1>4, <2>1 DEF ReviewInv, AnswerFits
  <2> DEFINE act == Action(first, f.at)
  <2>3. act \in NextActions
    BY <1>5, <1>8, <2>2
  <2>4. act.check = first /\ act.at \in Real
    BY <2>2 DEF Action, Grounded
  <2>5. first < i \/ first = i
    BY <1>1, <1>4
  <2> HIDE DEF act
  <2> QED BY <1>6, <2>3, <2>4, <2>5
<1> QED BY <1>7, <1>8

----------------------------------------------------------------------------
(* The cache of answers *)

InputSets == {[kind \in InputsOf[c] |-> d[kind]] : c \in Reviewed, d \in [Kinds -> Nat]}
GoodAnswers == [error : {FALSE}, of : [Kinds -> Nat], by : Efforts, before : Nat, after : Nat]

\* An answer under a key: of the files and by the effort that it names.
Under(key, answer) ==
  /\ \A kind \in InputsOf[key.check] : answer.of[kind] = key.inputs[kind]
  /\ answer.by = key.effort /\ answer.before = answer.after

\* The run is about the files as they are, and so is every key it has taken and
\* every answer it has reported.
RunFits(c) ==
  /\ going.checks[c].at \in {"waiting", "reviewing", "done"}
  /\ going.checks[c].at = "reviewing" => going.checks[c].key = KeyOf(c) /\ going.checks[c].before \in Nat
  /\ going.checks[c].at = "done" /\ ~reported[c].error =>
       reported[c] \in GoodAnswers /\ Under(KeyOf(c), reported[c])

CacheInv ==
  /\ design \in [Kinds -> Nat]
  /\ \A e \in cache : e.answer \in GoodAnswers /\ Under(e.key, e.answer)
  /\ DOMAIN reported = Reviewed
  /\ going # NoRun =>
       /\ going.snapshot = design /\ going.effort \in Efforts /\ going.changes \in Nat
       /\ DOMAIN going.checks = Reviewed
       /\ going.at = "running"
       /\ DOMAIN going = {"at", "effort", "reuse", "snapshot", "changes", "checks"}
       /\ \A c \in Reviewed : RunFits(c)

LEMMA CacheStarts == CacheInit => CacheInv
BY DEF CacheInit, CacheInv

LEMMA DoneFits ==
  ASSUME CacheInv, going # NoRun, NEW c \in Reviewed, NEW answer, Done(c, answer), design' = design,
         ~answer.error => answer \in GoodAnswers /\ Under(KeyOf(c), answer),
         \A e \in cache' : e.answer \in GoodAnswers /\ Under(e.key, e.answer)
  PROVE  CacheInv'
<1>1. going' = [going EXCEPT !.checks[c] = [at |-> "done"]] /\ reported' = [reported EXCEPT ![c] = answer]
  BY DEF Done
<1>2. /\ going'.snapshot = going.snapshot /\ going'.effort = going.effort /\ going'.changes = going.changes
      /\ going'.checks = [going.checks EXCEPT ![c] = [at |-> "done"]] /\ going'.at = going.at
      /\ DOMAIN going' = DOMAIN going
  BY <1>1 DEF CacheInv
<1>3. \A d \in Reviewed : KeyOf(d)' = KeyOf(d)
  BY <1>2 DEF KeyOf, InputHashes
<1>4. ASSUME NEW d \in Reviewed PROVE RunFits(d)'
  <2>1. CASE d = c
    <3>1. going'.checks[d] = [at |-> "done"] /\ reported'[d] = answer
      BY <1>1, <1>2, <2>1 DEF CacheInv
    <3>2. KeyOf(d)' = KeyOf(c)
      BY <1>3, <2>1
    <3> QED BY <3>1, <3>2 DEF RunFits, Under
  <2>2. CASE d # c
    <3>1. going'.checks[d] = going.checks[d] /\ reported'[d] = reported[d]
      BY <1>1, <1>2, <2>2 DEF CacheInv
    <3> QED BY <1>3, <3>1 DEF RunFits, CacheInv, Under
  <2> QED BY <2>1, <2>2
<1>5. DOMAIN reported' = Reviewed
  BY <1>1 DEF CacheInv
<1> QED BY <1>2, <1>4, <1>5 DEF CacheInv

LEMMA CacheKept == ASSUME ~Editing, CacheInv, [CacheNext]_cacheVars PROVE CacheInv'
<1> USE ReviewAssumption
<1>1. \A e \in cache : e.answer \in GoodAnswers /\ Under(e.key, e.answer)
  BY DEF CacheInv
<1>2. CASE Edit
  <2>1. going = NoRun /\ going' = NoRun /\ cache' = cache /\ reported' = reported
    BY <1>2 DEF Edit
  <2>2. design' \in [Kinds -> Nat]
    BY <1>2 DEF Edit, CacheInv
  <2> QED BY <2>1, <2>2 DEF CacheInv
<1>3. CASE ValidationStarts
  <2>1. PICK effort \in Efforts, reuse \in BOOLEAN :
          going' = [at |-> "running", effort |-> effort, reuse |-> reuse,
                    snapshot |-> design, changes |-> 0, checks |-> [c \in Reviewed |-> NotYet]]
    BY <1>3 DEF ValidationStarts, CreateSnapshot
  <2>2. design' = design /\ cache' = cache /\ reported' = reported
    BY <1>3 DEF ValidationStarts
  <2>3. /\ going'.snapshot = design /\ going'.effort \in Efforts /\ going'.changes \in Nat /\ going'.at = "running"
        /\ DOMAIN going' = {"at", "effort", "reuse", "snapshot", "changes", "checks"}
        /\ going'.checks = [c \in Reviewed |-> NotYet]
    BY <2>1
  <2>4. \A c \in Reviewed : RunFits(c)'
    BY <2>3 DEF RunFits, NotYet
  <2> QED BY <2>2, <2>3, <2>4 DEF CacheInv
<1>4. CASE ValidationEnds
  BY <1>4 DEF ValidationEnds, CacheInv
<1>5. ASSUME NEW c \in Reviewed, CheckStarts(c) PROVE CacheInv'
  <2> DEFINE key == KeyOf(c)
             hits == {entry \in cache : entry.key = key}
  <2>1. going # NoRun /\ design' = design /\ cache' = cache
    BY <1>5 DEF CheckStarts
  <2>2. CASE going.reuse /\ hits # {}
    <3>1. PICK entry \in hits : Done(c, entry.answer)
      BY <1>5, <2>2 DEF CheckStarts
    <3>2. entry.answer \in GoodAnswers /\ Under(key, entry.answer)
      BY <1>1
    <3> QED BY <1>1, <2>1, <3>1, <3>2, DoneFits
  <2>3. CASE ~(going.reuse /\ hits # {})
    <3> DEFINE state == [at |-> "reviewing", key |-> key, before |-> going.changes]
    <3>1. going' = [going EXCEPT !.checks[c] = state] /\ reported' = reported
      BY <1>5, <2>3 DEF CheckStarts
    <3>2. state.at = "reviewing" /\ state.key = key /\ state.before = going.changes
      OBVIOUS
    <3> HIDE DEF state
    <3>3. /\ going'.snapshot = going.snapshot /\ going'.effort = going.effort /\ going'.changes = going.changes
          /\ going'.checks = [going.checks EXCEPT ![c] = state] /\ going'.at = going.at
          /\ DOMAIN going' = DOMAIN going
      BY <2>1, <3>1 DEF CacheInv
    <3>4. \A d \in Reviewed : KeyOf(d)' = KeyOf(d)
      BY <2>1, <3>3 DEF KeyOf, InputHashes
    <3>5. ASSUME NEW d \in Reviewed PROVE RunFits(d)'
      <4>1. CASE d = c
        <5>1. going'.checks[d] = state
          BY <2>1, <3>3, <4>1 DEF CacheInv
        <5>2. KeyOf(d)' = key
          BY <3>4, <4>1
        <5>3. going.changes \in Nat
          BY <2>1 DEF CacheInv
        <5> HIDE DEF key
        <5> QED BY <3>2, <5>1, <5>2, <5>3 DEF RunFits
      <4>2. CASE d # c
        <5>1. going'.checks[d] = going.checks[d] /\ reported'[d] = reported[d]
          BY <2>1, <3>1, <3>3, <4>2 DEF CacheInv
        <5>2. RunFits(d)
          BY <2>1 DEF CacheInv
        <5> QED BY <3>4, <5>1, <5>2 DEF RunFits, Under
      <4> QED BY <4>1, <4>2
    <3> QED BY <2>1, <3>1, <3>3, <3>5 DEF CacheInv
  <2> QED BY <2>2, <2>3
<1>6. ASSUME NEW c \in Reviewed, NEW request \in Requests, ReviewerAsks(c, request) PROVE CacheInv'
  <2>1. /\ going # NoRun /\ design' = design /\ cache' = cache /\ reported' = reported
        /\ going' = [going EXCEPT !.changes = @ + 1]
    BY <1>6 DEF ReviewerAsks
  <2>2. /\ going'.snapshot = going.snapshot /\ going'.effort = going.effort /\ going'.changes = going.changes + 1
        /\ going'.checks = going.checks /\ going'.at = going.at
        /\ DOMAIN going' = DOMAIN going
    BY <2>1 DEF CacheInv
  <2>3. \A d \in Reviewed : KeyOf(d)' = KeyOf(d)
    BY <2>1, <2>2 DEF KeyOf, InputHashes
  <2>4. \A d \in Reviewed : RunFits(d)'
    BY <2>1, <2>2, <2>3 DEF RunFits, CacheInv, Under
  <2> QED BY <2>1, <2>2, <2>4 DEF CacheInv
<1>7. ASSUME NEW c \in Reviewed, NEW failed \in BOOLEAN, ReviewsEnd(c, failed) PROVE CacheInv'
  <2> DEFINE state == going.checks[c]
             good == [error |-> FALSE, of |-> going.snapshot, by |-> going.effort,
                      before |-> state.before, after |-> going.changes]
             answer == IF failed \/ Changed(state) THEN Error ELSE good
  <2>1. /\ going # NoRun /\ state.at = "reviewing" /\ design' = design
        /\ Done(c, answer) /\ cache' = Stored(state.key, answer)
    BY <1>7 DEF ReviewsEnd
  <2>2. state.key = KeyOf(c) /\ state.before \in Nat
    BY <2>1 DEF CacheInv, RunFits
  <2>3. ASSUME ~answer.error PROVE answer \in GoodAnswers /\ Under(KeyOf(c), answer)
    <3>1. answer = good /\ going.changes = state.before
      BY <2>3 DEF Error, Changed
    <3>2. good \in GoodAnswers
      BY <2>1, <2>2 DEF GoodAnswers, CacheInv
    <3>3. KeyOf(c) = [check |-> c, effort |-> going.effort, inputs |-> [kind \in InputsOf[c] |-> design[kind]]]
      BY DEF KeyOf, InputHashes
    <3>4. good.of = design
      BY <2>1 DEF CacheInv
    <3>5. Under(KeyOf(c), good)
      BY <3>1, <3>3, <3>4 DEF Under
    <3> HIDE DEF answer, good
    <3> QED BY <3>1, <3>2, <3>5
  <2>4. answer = Error \/ ~answer.error
    BY DEF Error
  <2> HIDE DEF answer, state
  <2>5. ASSUME NEW e \in cache' PROVE e.answer \in GoodAnswers /\ Under(e.key, e.answer)
    <3>1. e \in cache \/ (answer # Error /\ e = [key |-> state.key, answer |-> answer])
      BY <2>1 DEF Stored
    <3> QED BY <1>1, <2>2, <2>3, <2>4, <3>1
  <2> QED BY <2>1, <2>3, <2>5, DoneFits
<1>8. CASE UNCHANGED cacheVars
  <2>1. design' = design /\ cache' = cache /\ going' = going /\ reported' = reported
    BY <1>8 DEF cacheVars
  <2>2. \A d \in Reviewed : RunFits(d) => RunFits(d)'
    BY <2>1 DEF RunFits, Under, KeyOf, InputHashes
  <2> QED BY <2>1, <2>2 DEF CacheInv
<1> QED BY <1>2, <1>3, <1>4, <1>5, <1>6, <1>7, <1>8 DEF CacheNext

\* What an agent check comes to is what the majority of its reviews says, fails
\* only for what is in the design, and is reused only where it still holds, for
\* any checks, numbers of reviews and files, and any number of runs of a design
\* that is not edited while one goes on (consensus, ground_findings, next_actions,
\* cache_key, _store_cached).
THEOREM AgentAnswersAreSound == ASSUME ~Editing PROVE ReviewSpec => []AnswersAreSound
<1> DEFINE I == ReviewInv /\ CacheInv
<1>1. ReviewInit /\ CacheInit => I
  BY ReviewStarts, CacheStarts
<1>2. I /\ [\/ ReviewNext /\ UNCHANGED cacheVars
            \/ CacheNext /\ UNCHANGED reviewVars]_<<reviewVars, cacheVars>> => I'
  BY ReviewKept, CacheKept
<1>3. I => AnswersAreSound
  <2> SUFFICES ASSUME ReviewInv, CacheInv PROVE AnswersAreSound
    OBVIOUS
  <2>1. ReportsFitTheDesign
    <3> SUFFICES ASSUME going # NoRun, NEW c \in Reviewed, going.checks[c].at = "done", ~reported[c].error
                 PROVE  /\ \A kind \in InputsOf[c] : reported[c].of[kind] = design[kind]
                        /\ reported[c].by = going.effort
                        /\ reported[c].before = reported[c].after
      BY DEF ReportsFitTheDesign
    <3>1. Under(KeyOf(c), reported[c])
      BY DEF CacheInv, RunFits
    <3> QED BY <3>1 DEF Under, KeyOf, InputHashes
  <2>2. ErrorsAreAskedAgain
    BY DEF ErrorsAreAskedAgain, CacheInv, GoodAnswers
  <2> QED BY <2>1, <2>2, MajorityFollows, FailuresFollow DEF AnswersAreSound
<1> HIDE DEF I
<1> QED BY <1>1, <1>2, <1>3, PTL DEF ReviewSpec

============================================================================
