------------------------------ MODULE ValidateRun ------------------------------
(***************************************************************************)
(* One run of `copper-pilot validate` (validate/runner.py): the selection  *)
(* of checks, the dependency waves inside each stage, the gates, the       *)
(* concurrent reviews of agent checks behind one semaphore, the usage      *)
(* limit that ends them, an interrupt, and the exit code.                  *)
(*                                                                         *)
(* Abstracted: what a check finds is its status; a cached answer is an     *)
(* answer without reviews; a review's repair turns are one review.  A      *)
(* reviewer that changes the snapshot turns the answer of its check, and   *)
(* of the checks reviewed meanwhile, into ERROR: any agent check may end   *)
(* so.  The stages are numbered in the order of the configuration.         *)
(***************************************************************************)
EXTENDS Naturals, FiniteSetsExt

CONSTANTS
  Checks,        \* ids of the checks of the configuration
  LastStage,     \* number of stages
  Reviews,       \* reviews of one agent check: slices times repeat
  Concurrency,   \* RunOptions.concurrency, at least 1
  Graphs,        \* the configurations looked at
  Selections     \* the --only, --until and --skip looked at

GateModes == {"stage", "full", "strict"}

\* CheckSpec and PolicySpec, the flags of a check as the set of checks that have them.
Graph == [stage : [Checks -> 1..LastStage],
          requires : [Checks -> SUBSET Checks], after : [Checks -> SUBSET Checks],
          builtin : SUBSET Checks, blocking : SUBSET Checks, ungated : SUBSET Checks,
          enabled : SUBSET Checks, errorBlocks : BOOLEAN]

Selection == [only : SUBSET Checks, until : 1..LastStage, skip : SUBSET Checks]

\* validate_graph: prerequisites belong to the same or an earlier stage, and no
\* set of checks waits for itself.
Valid(g) ==
  LET deps(c) == g.requires[c] \cup g.after[c]
  IN  /\ \A c \in Checks : \A d \in deps(c) : g.stage[d] <= g.stage[c]
      /\ \A X \in SUBSET Checks \ {{}} : \E c \in X : deps(c) \cap X = {}

ASSUME RunAssumption ==
  /\ LastStage \in Nat /\ Reviews \in Nat \ {0} /\ Concurrency \in Nat \ {0}
  /\ Graphs \subseteq {g \in Graph : Valid(g)}
  /\ Selections \subseteq Selection

\* An answer a check can give; SKIPPED was kept from running, "--skip" is SKIPPED by
\* that flag alone, which blocks nobody and does not make the run incomplete.
Answers == {"PASS", "WARN", "FAIL", "ERROR"}
Results == Answers \cup {"none", "SKIPPED", "--skip"}

\* The reviews of a check: how many wait for the semaphore and how many run, whether
\* one failed, whether one met a usage limit that is not retryable.
ReviewState == [queued : 0..Reviews, running : 0..Reviews,
                failed : BOOLEAN, limited : BOOLEAN]
NoReviews == [queued |-> 0, running |-> 0, failed |-> FALSE, limited |-> FALSE]
NewReviews == [queued |-> Reviews, running |-> 0, failed |-> FALSE, limited |-> FALSE]

Phases == {"waves", "builtins", "reviews", "ended", "raised"}

VARIABLES
  graph, selection, gate,   \* the configuration and the options of the run
  phase,
  stage,        \* the stage being run
  remaining,    \* its selected checks that no wave has taken yet
  wave,         \* the checks of the wave being run
  halt,         \* Runner.halt: a gate has stopped the run
  results,      \* Runner.results
  reviews,      \* _review calls of the checks under review
  usage,        \* Runner.usage_limit is set
  interrupted   \* Runner.interrupted

options == <<graph, selection, gate>>
vars == <<options, phase, stage, remaining, wave, halt, results, reviews, usage,
          interrupted>>

--------------------------------------------------------------------------------
(* selected_checks.                                                        *)

HardPrerequisites(ids) ==
  {c \in Checks : \A X \in SUBSET Checks :
     (ids \subseteq X /\ \A d \in X : graph.requires[d] \subseteq X) => c \in X}

Chosen == IF selection.only = {} THEN graph.enabled
          ELSE HardPrerequisites(selection.only) \cap graph.enabled

InTime == {c \in Chosen : graph.stage[c] <= selection.until}

Selected == InTime \ selection.skip

InStage(s) == {c \in Selected : graph.stage[c] = s}

\* What the run records of the checks it will not run.
Unselected(c) == IF c \in Selected \/ c \notin graph.enabled THEN "none"
                 ELSE IF c \in InTime THEN "--skip" ELSE "SKIPPED"

--------------------------------------------------------------------------------
(* Gates and prerequisites.                                                *)

Failing(c) == results[c] = "FAIL" \/ (results[c] = "ERROR" /\ graph.errorBlocks)

BlockingFailures(checks) == {c \in checks \cap graph.blocking : Failing(c)}

Blocked(c) ==
  \E d \in graph.requires[c] :
    \/ results[d] = "none" /\ d \in graph.enabled
    \/ Failing(d)
    \/ results[d] = "SKIPPED"

\* MUTANT: waves by hard prerequisites alone.
Waits_Requires(c) == graph.requires[c] \cap remaining
\* MUTANT: a dependency outside the selection is waited for too.
Waits_Unselected(c) ==
  {d \in graph.requires[c] \cup graph.after[c] : d \in remaining \/ d \notin Selected}

\* stage_waves: dependencies outside the stage's selection do not count.
Waits(c) == (graph.requires[c] \cup graph.after[c]) \cap remaining
Ready == {c \in remaining : Waits(c) = {}}

\* compute_status: an advisory check never fails, any check may be in error.
CanAnswer(c) == IF c \in graph.blocking THEN Answers ELSE Answers \ {"FAIL"}

--------------------------------------------------------------------------------

Init ==
  /\ graph \in Graphs /\ selection \in Selections /\ gate \in GateModes
  /\ phase = "waves" /\ stage = 1
  /\ remaining = InStage(1) /\ wave = {}
  /\ halt = FALSE /\ usage = FALSE /\ interrupted = FALSE
  /\ results = [c \in Checks |-> Unselected(c)]
  /\ reviews = [c \in Checks |-> NoReviews]

\* A gate lets only ungated checks run; then prerequisites decide, and for an agent
\* check the usage limit.
Runs(c) ==
  /\ halt => c \in graph.ungated
  /\ ~Blocked(c)
  /\ c \in graph.builtin \/ ~usage

\* The agent checks of the wave that are gathered.
Agents == {c \in Ready \ graph.builtin : Runs(c)}

\* The checks of a wave start without a suspension in between: builtins answer on
\* the spot, and so do the "quick" agent checks, those with a cached answer or with
\* nothing to review.
StartChecks(quick, answer) ==
  LET reviewed == Agents \ quick
      answered == {c \in Ready : Runs(c)} \ reviewed
  IN  /\ \A c \in Ready : answer[c] \in IF c \in answered THEN CanAnswer(c) ELSE {"PASS"}
      /\ \A c \in quick : answer[c] # "ERROR"
      /\ results' = [c \in Checks |->
           IF c \in answered THEN answer[c]
           ELSE IF c \in Ready /\ ~Runs(c) THEN "SKIPPED" ELSE results[c]]
      /\ reviews' = [c \in Checks |-> IF c \in reviewed THEN NewReviews ELSE reviews[c]]

OpenWave ==
  /\ phase = "waves" /\ Ready # {}
  /\ \E quick \in SUBSET Agents, answer \in [Ready -> Answers] : StartChecks(quick, answer)
  /\ phase' = IF Agents = {} THEN "builtins" ELSE "reviews"
  /\ wave' = Ready /\ remaining' = remaining \ Ready
  /\ UNCHANGED <<options, stage, halt, usage, interrupted>>

Running == MapThenSumSet(LAMBDA c : reviews[c].running, Checks)

\* _review under the semaphore: with the limit known the review ends at once.
TakeSlot(c) ==
  /\ phase = "reviews" /\ reviews[c].queued > 0 /\ Running < Concurrency
  /\ reviews' = [reviews EXCEPT ![c].queued = @ - 1,
                                ![c].running = IF usage THEN @ ELSE @ + 1,
                                ![c].failed = @ \/ usage]
  /\ UNCHANGED <<options, phase, stage, remaining, wave, halt, results, usage,
                 interrupted>>

\* review_slice returns, with findings, an error or a usage limit, or is timed out.
ReviewEnds(c) ==
  /\ phase = "reviews" /\ reviews[c].running > 0
  /\ \E failed \in BOOLEAN, limited \in BOOLEAN :
       /\ limited => failed
       /\ reviews' = [reviews EXCEPT ![c].running = @ - 1,
                                     ![c].failed = @ \/ failed,
                                     ![c].limited = @ \/ limited]
  /\ UNCHANGED <<options, phase, stage, remaining, wave, halt, results, usage,
                 interrupted>>

\* _run_agent after its gather; the limit becomes known to the run only here.
CheckEnds(c) ==
  /\ phase = "reviews" /\ c \in wave /\ results[c] = "none"
  /\ reviews[c].queued = 0 /\ reviews[c].running = 0
  /\ \E answer \in CanAnswer(c) :
       /\ reviews[c].failed => answer = "ERROR"
       /\ results' = [results EXCEPT ![c] = answer]
  /\ usage' = (usage \/ reviews[c].limited)
  /\ reviews' = [reviews EXCEPT ![c] = NoReviews]
  /\ UNCHANGED <<options, phase, stage, remaining, wave, halt, interrupted>>

\* A check raises (a file cannot be written): the run ends without a report, and
\* the other reviews of the wave are left behind.
CheckRaises ==
  /\ \/ phase = "waves" /\ \E c \in Ready : Runs(c)
     \/ phase = "reviews" /\ \E c \in wave : results[c] = "none"
  /\ phase' = "raised"
  /\ UNCHANGED <<options, stage, remaining, wave, halt, results, reviews, usage,
                 interrupted>>

\* The strict gate looks at every wave, the stage gate at every stage.
CloseWave ==
  /\ phase \in {"builtins", "reviews"}
  /\ \A c \in wave : results[c] # "none"
  /\ phase' = "waves" /\ wave' = {}
  /\ halt' = (halt \/ (gate = "strict" /\ BlockingFailures(wave) # {}))
  /\ UNCHANGED <<options, stage, remaining, results, reviews, usage, interrupted>>

CloseStage ==
  /\ phase = "waves" /\ remaining = {} /\ stage <= LastStage
  /\ stage' = stage + 1 /\ remaining' = InStage(stage + 1)
  /\ halt' = (halt \/ (gate = "stage" /\ BlockingFailures(InStage(stage)) # {}))
  /\ UNCHANGED <<options, phase, wave, results, reviews, usage, interrupted>>

Finish ==
  /\ phase = "waves" /\ stage = LastStage + 1
  /\ phase' = "ended"
  /\ UNCHANGED <<options, stage, remaining, wave, halt, results, reviews, usage,
                 interrupted>>

\* run's except branch.
AfterInterrupt(c) == IF c \in Selected /\ results[c] = "none" THEN "SKIPPED" ELSE results[c]

\* Ctrl-C or SIGTERM: the run can only be cancelled where it awaits its reviews.
Interrupt ==
  /\ phase = "reviews"
  /\ phase' = "ended" /\ interrupted' = TRUE
  /\ results' = [c \in Checks |-> AfterInterrupt(c)]
  /\ reviews' = [c \in Checks |-> NoReviews]
  /\ UNCHANGED <<options, stage, remaining, wave, halt, usage>>

Over == phase \in {"ended", "raised"} /\ UNCHANGED vars

Step == OpenWave \/ CloseWave \/ CloseStage \/ Finish
        \/ \E c \in Checks : TakeSlot(c) \/ ReviewEnds(c) \/ CheckEnds(c)

Next == Step \/ CheckRaises \/ Interrupt \/ Over

Spec == Init /\ [][Next]_vars

\* The runner's own steps happen and reviewer.timeout_s (1800 s) ends every review,
\* so some step happens as long as one can.
FairSpec == Spec /\ WF_vars(Step)

--------------------------------------------------------------------------------
(* exit_code and verdict_for of the results.                               *)

Bad(c) == c \in graph.blocking /\ results[c] \in {"FAIL", "ERROR"}

\* MUTANT: only skipped blocking checks make a run incomplete.
ExitCode_BlockingOnly ==
  IF interrupted THEN 130
  ELSE IF usage THEN 4
  ELSE IF \E c \in Checks : Bad(c) THEN 1
  ELSE IF \E c \in graph.blocking : results[c] = "SKIPPED" THEN 3
  ELSE 0

ExitCode ==
  IF interrupted THEN 130
  ELSE IF usage THEN 4
  ELSE IF \E c \in Checks : Bad(c) THEN 1
  ELSE IF \E c \in Checks : results[c] = "SKIPPED" THEN 3
  ELSE 0

Verdict ==
  IF \E c \in Checks : Bad(c) THEN "FAIL"
  ELSE IF \E c \in Checks : results[c] \in {"SKIPPED", "--skip"} THEN "INCOMPLETE"
  ELSE "PASS"

--------------------------------------------------------------------------------

\* The variables have their types and a check has a review going only while the
\* wave it belongs to is run.
TypeOK ==
  /\ graph \in Graph /\ selection \in Selection /\ gate \in GateModes
  /\ phase \in Phases /\ stage \in 1..(LastStage + 1)
  /\ remaining \subseteq Checks /\ wave \subseteq Checks
  /\ halt \in BOOLEAN /\ usage \in BOOLEAN /\ interrupted \in BOOLEAN
  /\ results \in [Checks -> Results]
  /\ reviews \in [Checks -> ReviewState]

UnderReview(c) == c \in wave /\ results[c] = "none"

Ran(c) == results[c] \in Answers \/ UnderReview(c)

\* "A check whose hard prerequisite is FAIL, ERROR or gate-SKIPPED is SKIPPED": a
\* check that ran, or is running, has an answer it may build on from each enabled
\* prerequisite; only --skip lifts a prerequisite (docs/validate.md, _blockers).
PrerequisitesHold ==
  \A c \in Checks : Ran(c) =>
    \A d \in graph.requires[c] \cap graph.enabled :
      \/ results[d] \in {"PASS", "WARN", "--skip"}
      \/ results[d] = "ERROR" /\ ~graph.errorBlocks

\* The stage gate: after a blocking failure in an earlier stage only ungated checks
\* run; the strict gate: nor do the checks ordered after a failing one of their own
\* stage (_run_stages).
GateStops ==
  \A c \in Checks, d \in graph.blocking :
    Ran(c) /\ c \notin graph.ungated /\ d \in Selected /\ Failing(d) =>
      /\ gate = "full" \/ graph.stage[c] <= graph.stage[d]
      /\ gate = "strict" => d \notin graph.requires[c] \cup graph.after[c]

\* No order of reviews, gate or selection lets a check run on a failure that was to
\* keep it from running (_blockers, _run_stages).
NothingRunsOnAFailure == PrerequisitesHold /\ GateStops

\* A recorded result is never replaced, not by an interrupt that lands while other
\* checks of the wave are still under review (run, _finish_check).
ResultsAreFinal ==
  [][\A c \in Checks : results[c] # "none" => results'[c] = results[c]]_vars

\* Exit code 0: every selected check was run and none that blocks failed; a run
\* that was cut short by a gate, a limit or an interrupt never says 0.
SuccessMeansAllRan ==
  phase = "ended" /\ ExitCode = 0 =>
    \A c \in Selected : results[c] \in {"PASS", "WARN"}
                        \/ (results[c] = "ERROR" /\ c \notin graph.blocking)

\* Whatever fails, the run comes to its end.
RunEnds == <>(phase \in {"ended", "raised"})

\* docs/validate.md on ERROR: "ERROR never counts as passing".
ErrorNeverPasses ==
  phase = "ended" /\ ExitCode = 0 /\ Verdict = "PASS" =>
    \A c \in Selected : results[c] # "ERROR"
================================================================================
