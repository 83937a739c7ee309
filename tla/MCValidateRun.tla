------------------------------ MODULE MCValidateRun ------------------------------
(***************************************************************************)
(* ValidateRun over three checks in at most two stages, and Review over    *)
(* two agent checks.  c1 comes before c2 and c2 before c3 in every         *)
(* dependency, so that the graphs are looked at once up to renaming; every *)
(* dependency may be hard, soft or absent.  The run takes the answers of   *)
(* its checks as they come: a behaviour moves the run, the reviews that    *)
(* lead to an answer, or the cache across runs.                            *)
(***************************************************************************)
EXTENDS ValidateRun, Review

CONSTANTS c1, c2, c3

Earlier(c) == CASE c = c1 -> {} [] c = c2 -> {c1} [] c = c3 -> {c1, c2}

Stagings == {[c \in Checks |-> IF c \in late THEN 2 ELSE 1] : late \in {{}, {c3}, {c2, c3}}}

Dependencies == {f \in [Checks -> SUBSET Checks] : \A c \in Checks : f[c] \subseteq Earlier(c)}

MCGraphs ==
  {[stage |-> s, requires |-> r, after |-> a, builtin |-> {c1},
    blocking |-> {c1, c2} \ advisory, ungated |-> flags.ungated,
    enabled |-> Checks \ flags.off, errorBlocks |-> e] :
     s \in Stagings, r \in Dependencies,
     a \in {[c \in Checks |-> Earlier(c)], [c \in Checks |-> {}]},
     advisory \in {{}, {c2}}, e \in BOOLEAN,
     flags \in {[ungated |-> {}, off |-> {}], [ungated |-> {c3}, off |-> {}],
                [ungated |-> {}, off |-> {c1}]}}

MCSelections ==
  {[only |-> {}, until |-> LastStage, skip |-> {}],
   [only |-> {}, until |-> LastStage, skip |-> {c2}],
   [only |-> {c2}, until |-> LastStage, skip |-> {}],
   [only |-> {}, until |-> 1, skip |-> {c1}]}

VARIABLE part

\* The part that does not move has one initial state.
MCInit ==
  /\ part \in {"run", "review", "cache"}
  /\ Init /\ ReviewInit /\ CacheInit
  /\ part # "run" =>
       /\ graph.stage = [c \in Checks |-> 1] /\ graph.requires = [c \in Checks |-> {}]
       /\ graph.after = graph.requires /\ graph.blocking = {c1, c2} /\ graph.ungated = {}
       /\ graph.enabled = Checks /\ graph.errorBlocks
       /\ selection.until = LastStage /\ selection.only \cup selection.skip = {}
       /\ gate = "stage"

\* Where a part has come to its end.
Rests ==
  /\ part = "review" => Len(answers) = Len(AgentChecks)
  /\ part = "cache" => going = NoRun /\ runCount = MaxRuns
  /\ part # "run" /\ UNCHANGED <<vars, reviewVars, cacheVars>>

MCNext ==
  /\ UNCHANGED part
  /\ \/ part = "run" /\ Next /\ UNCHANGED <<reviewVars, cacheVars>>
     \/ part = "review" /\ ReviewNext /\ UNCHANGED <<vars, cacheVars>>
     \/ part = "cache" /\ CacheNext /\ UNCHANGED <<vars, reviewVars>>
     \/ Rests

MCSpec == MCInit /\ [][MCNext]_<<part, vars, reviewVars, cacheVars>> /\ WF_vars(Step)

\* Two agent checks, the second reviewed by three; one is about the schematic alone.
MCAgents == <<"a1", "a2">>
MCRepeats == [a \in {"a1", "a2"} |-> IF a = "a1" THEN 1 ELSE 3]
MCFound == [a \in {"a1", "a2"} |-> IF a = "a1" THEN 1 ELSE 2]
MCInputs == [a \in {"a1", "a2"} |-> IF a = "a1" THEN {"sch"} ELSE {"sch", "pcb"}]

================================================================================
