----------------------------- MODULE BlobAgents -----------------------------
(***************************************************************************)
(* The agents that turn a call graph into inputs: the orchestrator starts, *)
(* for every context, a BlobGen agent (one payload, improved until it      *)
(* crashes the target), a Generator agent (a script that makes many        *)
(* inputs), and a Mutator agent for the transition of the context.  Each   *)
(* is a LangGraph: one node per superstep, and after Limit supersteps      *)
(* ainvoke raises.  Five agents of a kind run at a time, mutators without  *)
(* limit; the orchestrator gathers them all and merges what they return.   *)
(*                                                                         *)
(* A payload, generator or mutator is the number of the attempt it came    *)
(* from; messages and their order are left out.                            *)
(***************************************************************************)
EXTENDS Naturals, FiniteSets

CONSTANTS
  Contexts,    \* blobgen contexts, one per matching candidate and call graph
  Targeted,    \* contexts with a bug node
  Preselected, \* contexts whose candidate names the sanitizers
  UseSets,     \* what the ORCHESTRATOR_*_USE variables may enable
  MaxIter,     \* BGA_MAX_ITERATION, and those of the other two agents
  Limit,       \* kind -> recursion limit (25, for generators 100)
  Slots        \* the semaphores (5)

Kinds == {"blobgen", "generator", "mutator"}
Agents == Kinds \X Contexts

ASSUME AgentsAssumption ==
  /\ IsFiniteSet(Contexts)
  /\ Targeted \subseteq Contexts /\ Preselected \subseteq Contexts
  /\ UseSets \subseteq SUBSET Kinds
  /\ MaxIter \in Nat \ {0} /\ Slots \in Nat \ {0}
  /\ Limit \in [Kinds -> Nat \ {0}]

VARIABLES
  use,    \* the kinds of agents this process runs
  at,     \* agent -> the node of its graph that comes next
  steps,  \* agent -> supersteps so far
  iter,   \* agent -> iter_cnt
  code,   \* agent -> attempt its current payload or script is from (0: none)
  ran,    \* agent -> attempt the stored run result or coverage is from (0: none)
  found,  \* agent -> attempts with a known crash entered in crashed_blobs
  result, \* agent -> attempts in what the agent returned
  orch    \* run_all_agents: "gather" or "done"

stateVars == <<iter, code, ran, found>>
vars == <<use, at, steps, stateVars, result, orch>>

Ended == {"ended", "raised"}
Nodes == {"preprocess", "select_sanitizer", "plan", "generate", "coverage",
          "interesting", "analyze", "finalize", "snapshot_end"}
MyKind(a) == a[1]
Context(a) == a[2]

Init ==
  /\ use \in UseSets
  /\ at = [a \in Agents |-> IF MyKind(a) \in use THEN "waiting" ELSE "ended"]
  /\ steps = [a \in Agents |-> 0]
  /\ iter = [a \in Agents |-> 0] /\ code = [a \in Agents |-> 0]
  /\ ran = [a \in Agents |-> 0] /\ found = [a \in Agents |-> {}]
  /\ result = [a \in Agents |-> {}] /\ orch = "gather"

(***************************************************************************)
(* Starting, and one superstep                                             *)
(***************************************************************************)
Running(k) == {a \in Agents : MyKind(a) = k /\ at[a] \in Nodes}

HasSlot(a) == MyKind(a) = "mutator" \/ Cardinality(Running(MyKind(a))) < Slots

\* A generator needs a bug node and the sanitizers of a candidate.
Usable(a) ==
  MyKind(a) # "generator" \/ Context(a) \in Targeted \cap Preselected

\* process_context gets the semaphore and invokes the graph, whose first
\* superstep only takes a usage snapshot.
Start(a) ==
  /\ at[a] = "waiting" /\ HasSlot(a)
  /\ at' = [at EXCEPT ![a] = IF Usable(a) THEN "preprocess" ELSE "ended"]
  /\ steps' = [steps EXCEPT ![a] = IF Usable(a) THEN 1 ELSE 0]
  /\ UNCHANGED <<use, stateVars, result, orch>>

\* Mutant: no limit (steps stay where they are).
Superstep_Unlimited(a, node) == at[a] = node /\ UNCHANGED steps

\* Mutant: one superstep more.
Superstep_OneMore(a, node) ==
  /\ at[a] = node /\ steps[a] <= Limit[MyKind(a)]
  /\ steps' = [steps EXCEPT ![a] = @ + 1]

Superstep(a, node) ==
  /\ at[a] = node /\ steps[a] < Limit[MyKind(a)]
  /\ steps' = [steps EXCEPT ![a] = @ + 1]

Goto(a, node) == at' = [at EXCEPT ![a] = node]

\* GraphRecursionError: what the agent has is lost, also after finalize.
LimitReached(a) ==
  /\ at[a] \in Nodes /\ steps[a] = Limit[MyKind(a)]
  /\ Goto(a, "raised")
  /\ result' = [result EXCEPT ![a] = {}]
  /\ UNCHANGED <<use, steps, stateVars, orch>>

\* store_artifact, or a call to the model outside ask_and_repeat_until,
\* raises in a node without a handler, and ainvoke with it.
MayRaise(a) ==
  CASE MyKind(a) = "blobgen" -> {"generate"}
    [] MyKind(a) = "generator" -> {"plan", "generate", "analyze"}
    [] MyKind(a) = "mutator" -> {}

NodeRaises(a) ==
  /\ at[a] \in MayRaise(a) /\ steps[a] < Limit[MyKind(a)]
  /\ Goto(a, "raised")
  /\ UNCHANGED <<use, steps, stateVars, result, orch>>

(***************************************************************************)
(* Where a node leads                                                      *)
(***************************************************************************)
\* Mutant: one attempt too many.
NoneLeft_OffByOne(a, n) == n > MaxIter

NoneLeft(a, n) == n >= MaxIter

\* should_analyze_failure and should_update_interesting_functions, in the
\* state a run has left.
AfterCoverage(a, known, result_of) ==
  IF known \/ result_of = 0 \/ NoneLeft(a, iter[a]) THEN "finalize"
  ELSE IF MyKind(a) = "blobgen" THEN "analyze" ELSE "interesting"

(***************************************************************************)
(* The nodes                                                               *)
(***************************************************************************)
\* should_select_sanitizer; the other two agents plan first.
Preprocess(a) ==
  /\ Superstep(a, "preprocess")
  /\ Goto(a, IF MyKind(a) # "blobgen" THEN "plan"
             ELSE IF Context(a) \in Preselected THEN "generate"
             ELSE "select_sanitizer")
  /\ UNCHANGED <<use, stateVars, result, orch>>

\* Two edges lead on: the static one to generate_payload, and a conditional
\* one which adds finalize to the same superstep when none was selected.
\* That finalize returns nothing as there is no payload yet.
SelectSanitizer(a) ==
  /\ Superstep(a, "select_sanitizer")
  /\ Goto(a, "generate")
  /\ UNCHANGED <<use, stateVars, result, orch>>

\* plan_generator, plan_mutation with should_create_mutator.
Plan(a) ==
  /\ Superstep(a, "plan")
  /\ \/ Goto(a, "generate")
     \/ MyKind(a) = "mutator" /\ Goto(a, "finalize")
  /\ UNCHANGED <<use, stateVars, result, orch>>

\* generate_payload with an accepted answer, and should_collect_coverage.
GeneratePayload(a) ==
  /\ MyKind(a) = "blobgen" /\ Superstep(a, "generate")
  /\ iter' = [iter EXCEPT ![a] = @ + 1]
  /\ code' = [code EXCEPT ![a] = iter[a] + 1]
  /\ Goto(a, "coverage")
  /\ UNCHANGED <<use, ran, found, result, orch>>

\* generate_payload without one: iter_cnt was raised in the node's own copy
\* of the state and is not returned, and the payload before it goes on.
PayloadFails(a) ==
  /\ MyKind(a) = "blobgen" /\ Superstep(a, "generate")
  /\ Goto(a, IF code[a] = 0 THEN "finalize" ELSE "coverage")
  /\ UNCHANGED <<use, stateVars, result, orch>>

\* create_generator: iter_cnt is in the state it returns also on a failure,
\* and the script before it is run again.
CreateGenerator(a) ==
  /\ MyKind(a) = "generator" /\ Superstep(a, "generate")
  /\ iter' = [iter EXCEPT ![a] = @ + 1]
  /\ code' \in {code, [code EXCEPT ![a] = iter[a] + 1]}
  /\ Goto(a, "coverage")
  /\ UNCHANGED <<use, ran, found, result, orch>>

\* create_mutator: a mutator made is entered in mutator_dict at once; then
\* should_analyze_mutator.
CreateMutator(a) ==
  /\ MyKind(a) = "mutator" /\ Superstep(a, "generate")
  /\ iter' = [iter EXCEPT ![a] = @ + 1]
  /\ \/ /\ code' = [code EXCEPT ![a] = iter[a] + 1]
        /\ Goto(a, IF NoneLeft(a, iter'[a]) THEN "finalize" ELSE "analyze")
     \/ UNCHANGED code /\ Goto(a, "finalize")
  /\ UNCHANGED <<use, ran, found, result, orch>>

\* Mutant: a crash is entered, and the loop goes on.
Stops_Never(known) == FALSE

\* status "crashed", or crashed of the payload.
Stops(known) == known

\* collect_coverage of the BlobGen and of the Generator agent: the payload,
\* or the script's inputs, are run, with a known crash or without; crashes
\* of unknown types do not stop the loop.  The inputs of a script may cover
\* nothing.
CollectCoverage(a) ==
  /\ Superstep(a, "coverage") /\ code[a] # 0
  /\ \E known \in BOOLEAN, covered \in {code[a], 0} :
       /\ covered = 0 => MyKind(a) = "generator"
       /\ ran' = [ran EXCEPT ![a] = covered]
       /\ found' = [found EXCEPT ![a] = IF known THEN @ \cup {code[a]} ELSE @]
       /\ Goto(a, AfterCoverage(a, Stops(known), covered))
  /\ UNCHANGED <<use, iter, code, result, orch>>

\* The run raises, or there is no script: the result of an earlier attempt
\* stays in the payload, and with it the way to the analysis open.  The
\* Generator may have entered a crash before.
CoverageFails(a) ==
  /\ Superstep(a, "coverage")
  /\ \E known \in BOOLEAN :
       /\ known => MyKind(a) = "generator" /\ code[a] # 0
       /\ found' = [found EXCEPT ![a] = IF known THEN @ \cup {code[a]} ELSE @]
       /\ Goto(a, AfterCoverage(a, Stops(known), ran[a]))
  /\ UNCHANGED <<use, iter, code, ran, result, orch>>

\* update_interesting_functions, which handles every exception, and
\* should_analyze_coverage.
Interesting(a) ==
  /\ Superstep(a, "interesting")
  /\ Goto(a, "analyze")
  /\ UNCHANGED <<use, stateVars, result, orch>>

\* analyze_failure, analyze_coverage and analyze_mutator, with an answer or
\* without: the BlobGen agent goes on with an explanation, the Mutator agent
\* with feedback that does not say it is done, the Generator in any case.
Analyze(a) ==
  /\ Superstep(a, "analyze")
  /\ \/ Goto(a, "generate")
     \/ MyKind(a) # "generator" /\ Goto(a, "finalize")
  /\ UNCHANGED <<use, stateVars, result, orch>>

\* finalize: the BlobGen agent returns its last payload, the Generator its
\* crashes, the Mutator what it has made (the last one under its key).
Returned(a) ==
  IF MyKind(a) = "generator" THEN found[a]
  ELSE IF code[a] = 0 THEN {} ELSE {code[a]}

Finalize(a) ==
  /\ Superstep(a, "finalize")
  /\ result' = [result EXCEPT ![a] = Returned(a)]
  /\ Goto(a, "snapshot_end")
  /\ UNCHANGED <<use, stateVars, orch>>

\* The last superstep only takes a usage snapshot.
DebugSnapshotEnd(a) ==
  /\ Superstep(a, "snapshot_end")
  /\ Goto(a, "ended")
  /\ UNCHANGED <<use, stateVars, result, orch>>

(***************************************************************************)
(* run_all_agents                                                          *)
(***************************************************************************)
\* gather returns once every task has, with its result or {}.
Gather ==
  /\ orch = "gather" /\ \A a \in Agents : at[a] \in Ended
  /\ orch' = "done"
  /\ UNCHANGED <<use, at, steps, stateVars, result>>

Step(a) ==
  \/ Start(a) \/ LimitReached(a) \/ NodeRaises(a)
  \/ Preprocess(a) \/ SelectSanitizer(a) \/ Plan(a)
  \/ GeneratePayload(a) \/ PayloadFails(a)
  \/ CreateGenerator(a) \/ CreateMutator(a)
  \/ CollectCoverage(a) \/ CoverageFails(a)
  \/ Interesting(a) \/ Analyze(a) \/ Finalize(a) \/ DebugSnapshotEnd(a)

Next == Gather \/ \E a \in Agents : Step(a)

Spec == Init /\ [][Next]_vars

\* Every node returns or raises, and the event loop runs what is ready.
FairSpec ==
  /\ Spec
  /\ WF_vars(Gather)
  /\ \A a \in Agents : WF_vars(Step(a))

(***************************************************************************)
(* Properties                                                              *)
(***************************************************************************)
\* Types of the variables.
TypeOK ==
  /\ use \in SUBSET Kinds
  /\ at \in [Agents -> Nodes \cup Ended \cup {"waiting"}]
  /\ steps \in [Agents -> Nat]
  /\ \A a \in Agents : steps[a] <= Limit[MyKind(a)]
  /\ iter \in [Agents -> Nat]
  /\ code \in [Agents -> Nat] /\ ran \in [Agents -> Nat]
  /\ found \in [Agents -> SUBSET Nat] /\ result \in [Agents -> SUBSET Nat]
  /\ orch \in {"gather", "done"}

\* Over every mix of failing models, failing runs and ways through a graph,
\* an agent makes no more attempts than its maximum, the failed attempts of
\* generators and mutators included; the loop has several exits, and none of
\* them alone keeps the count.
AttemptsBounded == \A a \in Agents : iter[a] <= MaxIter

\* An attempt whose run showed a known crash is among what its agent returns:
\* later attempts, whose payload would replace it, are not made.
KnownCrashReported ==
  \A a \in Agents : at[a] = "ended" => found[a] \subseteq result[a]

\* Both ways in which the loop of attempts can go wrong: it goes on when it
\* has used up its attempts (should_analyze_failure and its kin read iter_cnt,
\* which other nodes raise), or when there already is a crash to return.
LoopSound == AttemptsBounded /\ KnownCrashReported

\* The orchestrator gets every agent's answer and goes on, however long the
\* model gives unusable answers: what is not counted runs into the limit.
AgentsEnd == <>(orch = "done")

=============================================================================
