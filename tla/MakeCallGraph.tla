--------------------------- MODULE MakeCallGraph ---------------------------
(***************************************************************************)
(* The call-graph agents of MLLA (mlla/agents/mcga.py) under the task that *)
(* starts them (call_mcga of mlla/agents/cpua.py).                         *)
(*                                                                         *)
(* One agent analyses one function: it looks the function up in Redis,     *)
(* asks the model for its callees, records the node (not done), starts an  *)
(* agent per callee and a checker that polls Redis until every callee is   *)
(* done and then records the node done with the tree it holds in memory.   *)
(* When its report says the function is vulnerable it also reads every     *)
(* root back from Redis, awaits their entry points and puts the candidate. *)
(* An agent is named by its call path from a root function, because the    *)
(* loop cache it inherits holds exactly the functions of that path.        *)
(*                                                                         *)
(* A tree of FuncInfo nodes is abstracted to its sinks: the functions      *)
(* whose node in it has a report that says is_vulnerable.                  *)
(***************************************************************************)
EXTENDS Naturals, Sequences, FiniteSets, SequencesExt

CONSTANTS
  Fns,          \* functions of the target
  Graphs,       \* call graphs of the target: the callees each analysis reports
  Roots,        \* the functions CPUA hands to MCGA
  Vuln,         \* functions a report may call vulnerable
  MaxExec,      \* MAX_EXECUTIONS
  MaxIdle,      \* consecutive 36 s waits _run_tasks tolerates (10)
  MaxRuns,      \* bound: number of MLLA runs explored
  FlushPeriod,  \* the cache is flushed when this divides the run count (3)
  PriorRuns,    \* runs counted before, which have left nothing in the cache
  FaultRuns     \* the runs in which models fail and MAX_TIMEOUT elapses

ASSUME GraphAssumption ==
  /\ Graphs \subseteq [Fns -> SUBSET Fns]
  /\ Roots \subseteq Fns /\ Vuln \subseteq Fns
  /\ IsFiniteSet(Fns)
  /\ {MaxExec, MaxIdle, PriorRuns} \subseteq Nat
  /\ {MaxRuns, FlushPeriod} \subseteq Nat \ {0}
  /\ FaultRuns \subseteq Nat

VARIABLES
  redis,     \* the mcga:: keys: function -> [done, inRun, tree]
  pc,        \* agent -> where its graph stands
  base,      \* agent -> what its current_fn_info holds by itself
  fresh,     \* agents that work on the very object their parent holds
  linked,    \* agent -> callees whose node a finished task put in place
  cgs,       \* agent -> sinks in the current_cgs it has read and not yet put
  checker,   \* agents whose _wait_for_all_children_done is polling
  count,     \* _execution_count
  queued,    \* there are tasks in the priority queue
  sentinels, \* None entries in the priority queue
  cpua,      \* call_mcga: "run", "gather"; the end of main(): "flush", "done"
  ended,     \* call_mcga_cnt
  idle,      \* wait_cnt
  callees,   \* the member of Graphs the target has
  run,       \* MLLA runs so far (bounded by MaxRuns)
  doneRuns,  \* the <harness>.done file
  torn,      \* a flush has begun that has not come to its end
  put,       \* history: sinks in what this run has put in the queue
  added,     \* history: agents of this run whose node was the first recorded
  posted,    \* history: sentinels each root has posted in this run
  expired    \* history: agents of this run whose wait timed out

sinkVars == <<cgs, put, added>>

cpuaVars == <<cpua, ended, idle, run, doneRuns, callees, torn>>

graphVars == <<redis, pc, base, fresh, linked, checker, count, queued, sentinels,
               posted, expired, sinkVars, cpuaVars>>

(***************************************************************************)
(* Call paths, and the tree an agent holds.                                *)
(***************************************************************************)
CallPaths ==
  {p \in BoundedSeq(Fns, Cardinality(Fns)) :
     p # <<>> /\ p[1] \in Roots /\ IsInjective(p)}

Fn(p) == Last(p)
IsRoot(p) == Len(p) = 1
\* The callees an agent expands: itself left out, at most once each.
ToAnalyze(p) == callees[Fn(p)] \ {Fn(p)}
\* Callees the loop cache answers for, by FuncInfo tag.
Looped(p) == {c \in ToAnalyze(p) : c \in Range(p)}
Kids(p) ==
  {q \in CallPaths : Len(q) = Len(p) + 1 /\ Front(q) = p /\ Fn(q) \in ToAnalyze(p)}

\* The node of callee q[n] hangs in that of q[n - 1]: its agent has worked on
\* the very object, or its task has put the node it returned in the place.
InPlace(q, n) ==
  /\ q[n] \in callees[q[n - 1]]
  /\ SubSeq(q, 1, n) \in fresh \/ q[n] \in linked[SubSeq(q, 1, n - 1)]

\* The agents whose nodes the node of agent p shows when it is dumped.
Shown(p) ==
  {q \in CallPaths : IsPrefix(p, q) /\ \A n \in (Len(p) + 1)..Len(q) : InPlace(q, n)}

\* The copies _set_loop_cache made of the callers p has in place of a callee.
LoopCopies(p) ==
  UNION {base[q] : q \in {a \in CallPaths : IsPrefix(a, p) /\ Fn(a) \in linked[p] \cap Looped(p)}}

Tree(p) == UNION {base[q] \cup LoopCopies(q) : q \in Shown(p)}

(***************************************************************************)
(* Redis.                                                                  *)
(***************************************************************************)
IsDone(f) == f \in DOMAIN redis /\ redis[f].done

\* _record_cg_root_node: a node that is there is replaced only by a done one.
Recorded(f, d, tree) ==
  IF f \in DOMAIN redis /\ ~d
  THEN redis
  ELSE [g \in DOMAIN redis \cup {f} |->
          IF g = f THEN [done |-> d, inRun |-> TRUE, tree |-> tree] ELSE redis[g]]

\* A root that becomes done posts the sentinel CPUA counts.
PostSentinel(p) ==
  /\ sentinels' = sentinels + (IF IsRoot(p) THEN 1 ELSE 0)
  /\ posted' = IF IsRoot(p) THEN [posted EXCEPT ![Fn(p)] = @ + 1] ELSE posted

\* Mutant: the roots as they are stored, without the nodes found since.
Visible_RootsOnly(rd) == UNION {rd[r].tree : r \in Roots \cap DOMAIN rd}

\* get_current_cgs_from_redis: from every root, through the nodes that are
\* not done; the stored tree of a done node is taken as it is.
Reached(rd) ==
  {p \in CallPaths :
     \A n \in 1..Len(p) :
       /\ p[n] \in DOMAIN rd
       /\ n > 1 => ~rd[p[n - 1]].done /\ p[n] \in callees[p[n - 1]]}

Visible(rd) == UNION {rd[Fn(p)].tree : p \in Reached(rd)}

(***************************************************************************)
(* A run starts: in_run is cleared on every key, one agent per root.       *)
(***************************************************************************)
StartPc == [p \in CallPaths |-> IF IsRoot(p) THEN "preprocess" ELSE "none"]
NoNodes == [p \in CallPaths |-> {}]
NoSentinel == [r \in Roots |-> 0]

GraphInit ==
  /\ callees \in Graphs /\ redis = <<>> /\ run = 1 /\ doneRuns = PriorRuns
  /\ pc = StartPc /\ base = NoNodes /\ fresh = {} /\ linked = NoNodes
  /\ checker = {} /\ count = 0 /\ queued = TRUE /\ sentinels = 0
  /\ cpua = "run" /\ ended = 0 /\ idle = 0 /\ torn = FALSE
  /\ cgs = NoNodes /\ put = {} /\ added = {} /\ posted = NoSentinel /\ expired = {}

\* The process is killed, or the next run of the harness begins.
Restart ==
  /\ run < MaxRuns
  /\ run' = run + 1
  /\ redis' = [f \in DOMAIN redis |-> [redis[f] EXCEPT !.inRun = FALSE]]
  /\ pc' = StartPc /\ base' = NoNodes /\ fresh' = {} /\ linked' = NoNodes
  /\ checker' = {} /\ count' = 0 /\ queued' = TRUE /\ sentinels' = 0
  /\ cpua' = "run" /\ ended' = 0 /\ idle' = 0
  /\ cgs' = NoNodes /\ put' = {} /\ added' = {}
  /\ posted' = NoSentinel /\ expired' = {}
  /\ UNCHANGED <<doneRuns, callees, torn>>

(***************************************************************************)
(* One agent.  Nothing of it runs once call_mcga has returned: the main    *)
(* coroutine then blocks the event loop in candidate_queue.join().         *)
(***************************************************************************)
Alive == cpua \in {"run", "gather"}

Faulty == run \in FaultRuns

\* The loop cache has no entry here: LoopCut has taken those callees out, as
\* long as a function resolves to the same body each time.
McgaPreprocess(p) ==
  /\ Alive /\ pc[p] = "preprocess"
  /\ \/ /\ Fn(p) \in DOMAIN redis
        /\ pc' = [pc EXCEPT ![p] = "handle_cache"]
        /\ base' = [base EXCEPT ![p] = redis[Fn(p)].tree]
        /\ UNCHANGED fresh
     \/ /\ Fn(p) \notin DOMAIN redis
        /\ pc' = [pc EXCEPT ![p] = "step1"]
        /\ fresh' = fresh \cup {p}
        /\ UNCHANGED base
  /\ UNCHANGED <<redis, linked, checker, count, queued, sentinels, cpuaVars,
                 sinkVars, posted, expired>>

\* code_understand_step1 with an accepted answer, up to the first await that
\* gives way: the node is recorded, and when the report says vulnerable the
\* roots are read back from Redis.
Step1(p) ==
  /\ Alive /\ pc[p] = "step1"
  /\ \E sink \in SUBSET (Vuln \cap {Fn(p)}) :
       /\ base' = [base EXCEPT ![p] = sink]
       /\ redis' = Recorded(Fn(p), FALSE, sink)
       /\ IF sink = {}
          THEN /\ pc' = [pc EXCEPT ![p] = "analyze_children"]
               /\ UNCHANGED cgs
          ELSE /\ pc' = [pc EXCEPT ![p] = "submit"]
               /\ cgs' = [cgs EXCEPT ![p] = Visible(redis')]
  /\ added' = IF Fn(p) \in DOMAIN redis THEN added ELSE added \cup {p}
  /\ UNCHANGED <<fresh, linked, checker, count, queued, sentinels, cpuaVars,
                 put, posted, expired>>

\* make_new_root_node has answered for every root: the candidate is put.
Submit(p) ==
  /\ Alive /\ pc[p] = "submit"
  /\ put' = put \cup cgs[p]
  /\ cgs' = [cgs EXCEPT ![p] = {}]
  /\ pc' = [pc EXCEPT ![p] = "analyze_children"]
  /\ UNCHANGED <<redis, base, fresh, linked, checker, count, queued, sentinels,
                 cpuaVars, added, posted, expired>>

\* It raises, as it does for an entry point without code: so does the agent's
\* graph, with its node in Redis and nothing put.
SubmitFails(p) ==
  /\ Alive /\ Faulty /\ pc[p] = "submit"
  /\ cgs' = [cgs EXCEPT ![p] = {}]
  /\ pc' = [pc EXCEPT ![p] = "raised"]
  /\ UNCHANGED <<redis, base, fresh, linked, checker, count, queued, sentinels,
                 cpuaVars, put, added, posted, expired>>

\* No function info, an exception of the model, or the recursion limit.
Step1Fails(p) ==
  /\ Alive /\ Faulty /\ pc[p] = "step1"
  /\ pc' = [pc EXCEPT ![p] = "end"]
  /\ UNCHANGED <<redis, base, fresh, linked, checker, count, queued, sentinels,
                 cpuaVars, sinkVars, posted, expired>>

\* Mutant: one execution too many.
CountLeft_OffByOne == count <= MaxExec

\* increment_execution_count
CountLeft == count < MaxExec

\* analyze_children past its limits, and _analyze_children_recursively.
Expand(p, next) ==
  /\ CountLeft
  /\ count' = count + 1
  /\ IF ToAnalyze(p) = {}
     THEN /\ redis' = Recorded(Fn(p), TRUE, Tree(p))
          /\ PostSentinel(p)
          /\ pc' = [pc EXCEPT ![p] = next]
          /\ UNCHANGED <<checker, queued>>
     ELSE /\ checker' = checker \cup {p}
          /\ queued' = TRUE
          /\ pc' = [q \in CallPaths |-> IF q = p THEN next
                                     ELSE IF q \in Kids(p) THEN "preprocess"
                                     ELSE pc[q]]
          /\ UNCHANGED <<redis, sentinels, posted>>

\* The limits: nothing is analysed, recorded or posted; past the time limit
\* the execution is counted all the same.
Refuse(p, next) ==
  /\ Faulty \/ ~CountLeft
  /\ count' = IF CountLeft THEN count + 1 ELSE count
  /\ pc' = [pc EXCEPT ![p] = next]
  /\ UNCHANGED <<redis, checker, queued, sentinels, posted>>

AnalyzeChildren(p) ==
  /\ Alive /\ pc[p] = "analyze_children"
  /\ Expand(p, "return") \/ Refuse(p, "return")
  /\ UNCHANGED <<base, fresh, linked, cpuaVars, sinkVars, expired>>

\* The visitor awaits a task for every vulnerable node before the agent goes on.
OrVisit(sinks, visit, next) == IF sinks = {} THEN next ELSE visit

\* handle_cache reads the key again; what preprocess loaded stays the node.
HandleCache(p) ==
  LET node == redis[Fn(p)]
      next == OrVisit(base[p], "visit", "return")
  IN
  /\ Alive /\ pc[p] = "handle_cache"
  /\ \/ /\ node.done
        /\ pc' = [pc EXCEPT ![p] = OrVisit(base[p], "visit_done", "finalize")]
        /\ UNCHANGED <<redis, checker, count, queued, sentinels, posted>>
     \/ /\ ~node.done /\ node.inRun
        /\ pc' = [pc EXCEPT ![p] = "wait"]
        /\ UNCHANGED <<redis, checker, count, queued, sentinels, posted>>
     \/ /\ ~node.done /\ ~node.inRun
        /\ Expand(p, next) \/ Refuse(p, next)
  /\ UNCHANGED <<base, fresh, linked, cpuaVars, sinkVars, expired>>

\* _check_until_done sees the key done; done of the caller stays False.
WaitDone(p) ==
  /\ Alive /\ pc[p] = "wait" /\ IsDone(Fn(p))
  /\ base' = [base EXCEPT ![p] = redis[Fn(p)].tree]
  /\ pc' = [pc EXCEPT ![p] = OrVisit(base'[p], "visit", "return")]
  /\ UNCHANGED <<redis, fresh, linked, checker, count, queued, sentinels,
                 cpuaVars, sinkVars, posted, expired>>

\* The task of a vulnerable node reads the roots back from Redis.
Visit(p) ==
  /\ Alive
  /\ \/ pc[p] = "visit" /\ pc' = [pc EXCEPT ![p] = "visit_put"]
     \/ pc[p] = "visit_done" /\ pc' = [pc EXCEPT ![p] = "visit_done_put"]
  /\ cgs' = [cgs EXCEPT ![p] = Visible(redis)]
  /\ UNCHANGED <<redis, base, fresh, linked, checker, count, queued, sentinels,
                 cpuaVars, put, added, posted, expired>>

\* It puts the candidate, or raises, which process_node only logs.  There are
\* more vulnerable nodes, or the agent goes on.
VisitPut(p) ==
  /\ Alive
  /\ \/ pc[p] = "visit_put" /\ \E next \in {"visit", "return"} : pc' = [pc EXCEPT ![p] = next]
     \/ /\ pc[p] = "visit_done_put"
        /\ \E next \in {"visit_done", "finalize"} : pc' = [pc EXCEPT ![p] = next]
  /\ put' = put \cup cgs[p] \/ (Faulty /\ put' = put)
  /\ cgs' = [cgs EXCEPT ![p] = {}]
  /\ UNCHANGED <<redis, base, fresh, linked, checker, count, queued, sentinels,
                 cpuaVars, added, posted, expired>>

WaitExpires(p) ==
  /\ Alive /\ Faulty /\ pc[p] = "wait"
  /\ PostSentinel(p)
  /\ expired' = expired \cup {p}
  /\ pc' = [pc EXCEPT ![p] = "return"]
  /\ UNCHANGED <<redis, base, fresh, linked, checker, count, queued, cpuaVars,
                 sinkVars>>

\* finalize with done: the node the agent holds is recorded done.
McgaFinalize(p) ==
  /\ Alive /\ pc[p] = "finalize"
  /\ redis' = Recorded(Fn(p), TRUE, Tree(p))
  /\ PostSentinel(p)
  /\ pc' = [pc EXCEPT ![p] = "return"]
  /\ UNCHANGED <<base, fresh, linked, checker, count, queued, cpuaVars, sinkVars,
                 expired>>

\* The task's callback puts the returned node in the place of the callee.
Return(p) ==
  /\ Alive /\ pc[p] = "return"
  /\ pc' = [pc EXCEPT ![p] = "end"]
  /\ linked' = IF IsRoot(p) THEN linked
               ELSE [linked EXCEPT ![Front(p)] = @ \cup {Fn(p)}]
  /\ UNCHANGED <<redis, base, fresh, checker, count, queued, sentinels,
                 cpuaVars, sinkVars, posted, expired>>

\* The task of a callee the loop cache knows: its cached copy is put in place.
LoopCut(p) ==
  /\ Alive /\ p \in checker
  /\ \E c \in Looped(p) \ linked[p] :
       linked' = [linked EXCEPT ![p] = @ \cup {c}]
  /\ UNCHANGED <<redis, pc, base, fresh, checker, count, queued, sentinels,
                 cpuaVars, sinkVars, posted, expired>>

\* Mutants: a callee need only be known; the poller goes on after its end.
Ready_Known(p) == ToAnalyze(p) \subseteq DOMAIN redis
StopChecker_Keeps(p) == UNCHANGED checker

Ready(p) == \A c \in ToAnalyze(p) : IsDone(c)
StopChecker(p) == checker' = checker \ {p}

\* _check_if_all_children_done_and_record.
ChildrenDone(p) ==
  /\ Alive /\ p \in checker
  /\ Ready(p)
  /\ redis' = Recorded(Fn(p), TRUE, Tree(p))
  /\ PostSentinel(p)
  /\ StopChecker(p)
  /\ UNCHANGED <<pc, base, fresh, linked, count, queued, cpuaVars, sinkVars, expired>>

CheckerExpires(p) ==
  /\ Alive /\ Faulty /\ p \in checker
  /\ PostSentinel(p)
  /\ expired' = expired \cup {p}
  /\ StopChecker(p)
  /\ UNCHANGED <<redis, pc, base, fresh, linked, count, queued, cpuaVars, sinkVars>>

AgentStep(p) ==
  \/ McgaPreprocess(p) \/ Step1(p) \/ Step1Fails(p) \/ Submit(p) \/ SubmitFails(p)
  \/ AnalyzeChildren(p) \/ HandleCache(p) \/ WaitDone(p) \/ WaitExpires(p)
  \/ Visit(p) \/ VisitPut(p) \/ McgaFinalize(p)
  \/ Return(p) \/ LoopCut(p) \/ ChildrenDone(p) \/ CheckerExpires(p)

(***************************************************************************)
(* call_mcga: _run_tasks over the priority queue.  Sentinels have the last *)
(* priority: the loop takes the tasks, pass by pass, before it looks at    *)
(* one, and nothing else depends on which of them are taken.               *)
(***************************************************************************)
TakeTasks ==
  /\ cpua = "run" /\ queued
  /\ queued' = FALSE
  /\ idle' = 0
  /\ UNCHANGED <<redis, pc, base, fresh, linked, checker, count, sentinels,
                 cpua, ended, run, callees, doneRuns, torn, sinkVars, posted,
                 expired>>

TakeSentinel ==
  /\ cpua = "run" /\ ~queued /\ sentinels > 0
  /\ sentinels' = sentinels - 1
  /\ ended' = ended + 1
  /\ idle' = 0
  /\ cpua' = IF ended' = Cardinality(Roots) THEN "gather" ELSE "run"
  /\ UNCHANGED <<redis, pc, base, fresh, linked, checker, count, queued, run, callees,
                 doneRuns, torn, sinkVars, posted, expired>>

\* Mutant: the counter is reset by every pass of the loop.
NextIdle_Reset == 0

NextIdle == idle + 1

\* queue.get() timed out: model calls may take longer than any of the waits.
IdleWait ==
  /\ cpua = "run" /\ ~queued /\ sentinels = 0
  /\ idle' = NextIdle
  /\ cpua' = IF idle' > MaxIdle THEN "gather" ELSE "run"
  /\ UNCHANGED <<redis, pc, base, fresh, linked, checker, count, queued,
                 sentinels, ended, run, callees, doneRuns, torn, sinkVars,
                 posted, expired>>

\* The tasks end, or 30 s pass and they are cancelled, whatever they await;
\* the run is over, and the end of main() counts it.
GatherTasks ==
  /\ cpua = "gather"
  /\ doneRuns' = doneRuns + 1
  /\ IF doneRuns > 0 /\ doneRuns' % FlushPeriod = 0 /\ DOMAIN redis # {}
     THEN cpua' = "flush" /\ torn' = TRUE
     ELSE cpua' = "done" /\ UNCHANGED torn
  /\ UNCHANGED <<redis, pc, base, fresh, linked, checker, count, queued, sentinels,
                 ended, idle, run, callees, sinkVars, posted, expired>>

\* The cache of every third run is deleted key by key.
FlushKey ==
  /\ cpua = "flush"
  /\ \E f \in DOMAIN redis :
       redis' = [g \in DOMAIN redis \ {f} |-> redis[g]]
  /\ torn' = (DOMAIN redis' # {})
  /\ cpua' = IF torn' THEN "flush" ELSE "done"
  /\ UNCHANGED <<pc, base, fresh, linked, checker, count, queued, sentinels,
                 ended, idle, run, callees, doneRuns, sinkVars, posted, expired>>

CpuaStep == TakeTasks \/ TakeSentinel \/ IdleWait \/ GatherTasks \/ FlushKey

GraphNext == Restart \/ CpuaStep \/ \E p \in CallPaths : AgentStep(p)

GraphSpec == GraphInit /\ [][GraphNext]_graphVars

\* Timers fire, so call_mcga goes on; nothing is assumed of the agents.
GraphFairSpec == GraphSpec /\ WF_graphVars(CpuaStep)

(***************************************************************************)
(* Properties                                                              *)
(***************************************************************************)
\* Where the graph of an agent stands.
Places == {"none", "preprocess", "step1", "submit", "handle_cache", "wait", "visit",
           "visit_put", "visit_done", "visit_done_put", "analyze_children",
           "finalize", "return", "end", "raised"}

\* Types of the variables, and the bounds of the counters.
GraphTypes ==
  /\ callees \in Graphs /\ DOMAIN redis \subseteq Fns
  /\ \A f \in DOMAIN redis :
       redis[f] \in [done : BOOLEAN, inRun : BOOLEAN, tree : SUBSET Fns]
  /\ pc \in [CallPaths -> Places]
  /\ base \in [CallPaths -> SUBSET Fns] /\ linked \in [CallPaths -> SUBSET Fns]
  /\ cgs \in [CallPaths -> SUBSET Fns]
  /\ fresh \subseteq CallPaths /\ checker \subseteq CallPaths
  /\ added \subseteq CallPaths /\ expired \subseteq CallPaths
  /\ count \in 0..MaxExec /\ idle \in 0..(MaxIdle + 1) /\ run \in 1..MaxRuns
  /\ doneRuns \in 0..(PriorRuns + run) /\ queued \in BOOLEAN /\ sentinels \in Nat
  /\ ended \in 0..Cardinality(Roots)
  /\ cpua \in {"run", "gather", "flush", "done"} /\ torn \in BOOLEAN
  /\ put \subseteq Fns /\ posted \in [Roots -> Nat]

\* A root posts its sentinel once in a run, whichever of the checker, the
\* cache and the timeouts gets there: _run_tasks counts sentinels, and a
\* second one of a root would make it leave while another root is at work.
OneSentinel == \A r \in Roots : posted[r] <= 1

\* A sentinel is never posted for a root that is still being analysed: the
\* root is done in Redis, or its wait timed out, or the run was flushed.
SentinelMeansSettled ==
  \A r \in Roots :
    posted[r] > 0 => IsDone(r) \/ <<r>> \in expired \/ ~Alive

\* Every sentinel _run_tasks counts stands for one root that is settled, so
\* that the run is not left while a root can still bring results.
SentinelsEarned == OneSentinel /\ SentinelMeansSettled

\* A function done in Redis has every callee done in Redis, over any mix of
\* agents, waits, killed runs and later runs: what a later run takes from the
\* cache is not an analysis that was cut short.  Only a flush that was broken
\* off leaves callers done whose callees are gone.
DoneHasDoneCallees ==
  ~torn => \A f \in DOMAIN redis :
             redis[f].done => \A c \in callees[f] \ {f} : IsDone(c)

\* The sink of a node that enters Redis is in the candidate its agent puts,
\* although reading it back from the roots may lead over callers other agents
\* have made done in between, whose stored trees do not have it.  Lost in this
\* run are only the sinks of agents whose submission raises or is cancelled,
\* and of agents whose record another agent's node has stopped.
NewSinkSubmitted ==
  \A p \in added :
    /\ pc[p] = "submit" => base[p] \subseteq cgs[p]
    /\ pc[p] \in {"analyze_children", "return", "end"} => base[p] \subseteq put

\* call_mcga returns, even when agents wait for each other in a cycle, a root
\* never posts its sentinel, or a model fails.
RunEnds == cpua = "run" ~> cpua = "done"

=============================================================================
