----------------------------- MODULE PathQueue -----------------------------
(***************************************************************************)
(* The second half of an MLLA run (mlla/main.py, path_extractor.py):       *)
(* call-graph agents put candidates in a queue, consumers in a thread of   *)
(* their own take them, keep the paths no one has explored according to    *)
(* two Redis sets, and run the bug-candidate and the blob agents on each.  *)
(* When the call-graph side is over, one None per consumer is queued, and  *)
(* main waits for the queue and for the thread.                            *)
(*                                                                         *)
(* There is one MLLA process per harness; all of them share the Redis sets.*)
(* A candidate is abstracted to the vulnerable paths its call graphs hold. *)
(***************************************************************************)
EXTENDS Naturals, Sequences, FiniteSets

CONSTANTS
  Harnesses,  \* one MLLA process each
  Workers,    \* consumers of a process (num_workers)
  Paths,      \* tags of the paths a call graph may hold
  MaxPuts,    \* bound: candidates put in a run
  MaxRuns,    \* bound: runs of a harness
  Faults      \* whether extraction, copying and the agents may raise

ASSUME QueueAssumption ==
  /\ IsFiniteSet(Workers) /\ Workers # {}
  /\ MaxPuts \in Nat /\ MaxRuns \in Nat /\ Faults \in BOOLEAN

VARIABLES
  main,       \* where main() stands
  queue,      \* candidate_queue
  unfinished, \* its count of items put and not yet task_done
  cons,       \* consumers: "get", "extract", "run", "exit" or "dead"
  item,       \* the paths of the candidate a consumer has taken
  tasks,      \* path -> "bcda" or "bga": the agents a consumer runs
  wip,        \* the Redis set extracted_paths::wip
  done,       \* the Redis set extracted_paths::done
  runs,       \* runs of each harness so far
  puts,       \* candidates put in this run
  starts,     \* history: how often this run handed a path to the agents
  explored,   \* history: paths whose exploration by a harness was recorded
  late        \* history: a candidate was put after the sentinels

queueVars == <<queue, unfinished, puts, late>>
redisVars == <<wip, done, explored>>
consVars == <<cons, item, tasks, starts>>
vars == <<main, runs, queueVars, redisVars, consVars>>

Tag(p) == <<p>>       \* create_tag()
Id(h, p) == <<h, p>>  \* path_id: the harness name before the tag
Candidate(ps) == [stop |-> FALSE, paths |-> ps]
Sentinel == [stop |-> TRUE, paths |-> {}]
NoTasks == [p \in {} |-> "bcda"]

Init ==
  /\ main = [h \in Harnesses |-> "cpua"]
  /\ queue = [h \in Harnesses |-> <<>>]
  /\ unfinished = [h \in Harnesses |-> 0]
  /\ cons = [h \in Harnesses |-> [w \in Workers |-> "get"]]
  /\ item = [h \in Harnesses |-> [w \in Workers |-> {}]]
  /\ tasks = [h \in Harnesses |-> [w \in Workers |-> NoTasks]]
  /\ wip = {} /\ done = {} /\ explored = {}
  /\ runs = [h \in Harnesses |-> 1]
  /\ puts = [h \in Harnesses |-> 0]
  /\ starts = [h \in Harnesses |-> [p \in Paths |-> 0]]
  /\ late = [h \in Harnesses |-> FALSE]

(***************************************************************************)
(* main()                                                                  *)
(***************************************************************************)
\* A call-graph agent puts a candidate.  Its event loop still turns while
\* main leaves gc.init(), after the sentinels were queued.
Put(h) ==
  /\ main[h] \in {"cpua", "closing"} /\ puts[h] < MaxPuts
  /\ \E ps \in SUBSET Paths \ {{}} :
       queue' = [queue EXCEPT ![h] = Append(@, Candidate(ps))]
  /\ unfinished' = [unfinished EXCEPT ![h] = @ + 1]
  /\ puts' = [puts EXCEPT ![h] = @ + 1]
  /\ late' = [late EXCEPT ![h] = @ \/ main[h] = "closing"]
  /\ UNCHANGED <<main, runs, redisVars, consVars>>

\* Mutant: the sentinels overtake the candidates still queued.
AddSentinels_Front(h) ==
  queue' = [queue EXCEPT ![h] = [i \in 1..Cardinality(Workers) |-> Sentinel] \o @]

AddSentinels(h) ==
  queue' = [queue EXCEPT ![h] = @ \o [i \in 1..Cardinality(Workers) |-> Sentinel]]

\* The callback of cpua_future, whether the graph returned or raised.
CpuaEnds(h) ==
  /\ main[h] = "cpua"
  /\ main' = [main EXCEPT ![h] = "closing"]
  /\ AddSentinels(h)
  /\ unfinished' = [unfinished EXCEPT ![h] = @ + Cardinality(Workers)]
  /\ UNCHANGED <<runs, puts, late, redisVars, consVars>>

\* gc.init() is left; from here the event loop of main is blocked.
LeaveInit(h) ==
  /\ main[h] = "closing"
  /\ main' = [main EXCEPT ![h] = "join"]
  /\ UNCHANGED <<runs, queueVars, redisVars, consVars>>

\* candidate_queue.join()
JoinQueue(h) ==
  /\ main[h] = "join" /\ unfinished[h] = 0
  /\ main' = [main EXCEPT ![h] = "thread"]
  /\ UNCHANGED <<runs, queueVars, redisVars, consVars>>

\* thread.join(), and the rest of the finally block.
JoinThread(h) ==
  /\ main[h] = "thread"
  /\ \A w \in Workers : cons[h][w] \in {"exit", "dead"}
  /\ main' = [main EXCEPT ![h] = "done"]
  /\ UNCHANGED <<runs, queueVars, redisVars, consVars>>

\* The process was killed or has ended, and the next run resets the paths in
\* progress, those of the other harnesses included (remove_incomplete_caches).
Rerun(h) ==
  /\ runs[h] < MaxRuns
  /\ runs' = [runs EXCEPT ![h] = @ + 1]
  /\ main' = [main EXCEPT ![h] = "cpua"]
  /\ queue' = [queue EXCEPT ![h] = <<>>]
  /\ unfinished' = [unfinished EXCEPT ![h] = 0]
  /\ cons' = [cons EXCEPT ![h] = [w \in Workers |-> "get"]]
  /\ item' = [item EXCEPT ![h] = [w \in Workers |-> {}]]
  /\ tasks' = [tasks EXCEPT ![h] = [w \in Workers |-> NoTasks]]
  /\ puts' = [puts EXCEPT ![h] = 0]
  /\ starts' = [starts EXCEPT ![h] = [p \in Paths |-> 0]]
  /\ late' = [late EXCEPT ![h] = FALSE]
  /\ wip' = {}
  /\ UNCHANGED <<done, explored>>

(***************************************************************************)
(* One consumer (path_consumer)                                            *)
(***************************************************************************)
Running(h) == main[h] # "done"

TaskDone(h) == unfinished' = [unfinished EXCEPT ![h] = @ - 1]

Get(h, w) ==
  /\ Running(h) /\ cons[h][w] = "get" /\ queue[h] # <<>>
  /\ queue' = [queue EXCEPT ![h] = Tail(@)]
  /\ LET next == Head(queue[h]) IN
       IF next.stop
       THEN /\ TaskDone(h)
            /\ cons' = [cons EXCEPT ![h][w] = "exit"]
            /\ UNCHANGED item
       ELSE /\ item' = [item EXCEPT ![h][w] = next.paths]
            /\ cons' = [cons EXCEPT ![h][w] = "extract"]
            /\ UNCHANGED unfinished
  /\ UNCHANGED <<main, runs, puts, late, redisVars, tasks, starts>>

\* Mutant: only finished paths count as seen.
IsUniqueSink_NoWip(h, p) == Id(h, p) \notin done

\* is_unique_sink: both sets are asked for the path_id.
IsUniqueSink(h, p) == Id(h, p) \notin done \cup wip

Unexplored(h, w) == {p \in item[h][w] : IsUniqueSink(h, p)}

\* extract_unexplored_paths, and one task per path.
Extract(h, w) ==
  /\ Running(h) /\ cons[h][w] = "extract"
  /\ wip' = wip \cup {Id(h, p) : p \in Unexplored(h, w)}
  /\ tasks' = [tasks EXCEPT ![h][w] = [p \in Unexplored(h, w) |-> "bcda"]]
  /\ starts' = [starts EXCEPT ![h] =
                  [p \in Paths |-> @[p] + (IF p \in Unexplored(h, w) THEN 1 ELSE 0)]]
  /\ cons' = [cons EXCEPT ![h][w] = "run"]
  /\ item' = [item EXCEPT ![h][w] = {}]
  /\ UNCHANGED <<main, runs, queueVars, done, explored>>

\* Mutant: the item that could not be extracted is not marked done.
Skip_NoTaskDone(h) == UNCHANGED unfinished

\* Mutant: both the handler and a finally clause mark the item done.
Skip_Twice(h) == unfinished' = [unfinished EXCEPT ![h] = @ - 2]

Skip(h) == TaskDone(h)

\* The extraction raises after some paths were entered: the item is dropped.
ExtractFails(h, w) ==
  /\ Faults /\ Running(h) /\ cons[h][w] = "extract"
  /\ \E ps \in SUBSET Unexplored(h, w) : wip' = wip \cup {Id(h, p) : p \in ps}
  /\ Skip(h)
  /\ cons' = [cons EXCEPT ![h][w] = "get"]
  /\ item' = [item EXCEPT ![h][w] = {}]
  /\ UNCHANGED <<main, runs, queue, puts, late, done, explored, tasks, starts>>

\* deepcopy raises between two tasks: nothing catches it, the consumer is
\* gone with its item, and the tasks made so far run on without it.
CopyFails(h, w) ==
  /\ Faults /\ Running(h) /\ cons[h][w] = "extract"
  /\ wip' = wip \cup {Id(h, p) : p \in Unexplored(h, w)}
  /\ \E ps \in SUBSET Unexplored(h, w) \ {Unexplored(h, w)} :
       /\ tasks' = [tasks EXCEPT ![h][w] = [p \in ps |-> "bcda"]]
       /\ starts' = [starts EXCEPT ![h] =
                       [p \in Paths |-> @[p] + (IF p \in ps THEN 1 ELSE 0)]]
  /\ cons' = [cons EXCEPT ![h][w] = "dead"]
  /\ item' = [item EXCEPT ![h][w] = {}]
  /\ UNCHANGED <<main, runs, queueVars, done, explored>>

Without(h, w, p) ==
  [q \in DOMAIN tasks[h][w] \ {p} |-> tasks[h][w][q]]

\* The bug-candidate agent ends: set_done enters the tag, and with a report
\* the blob agents follow.
BcdaEnds(h, w, p) ==
  /\ Running(h) /\ p \in DOMAIN tasks[h][w] /\ tasks[h][w][p] = "bcda"
  /\ done' = done \cup {Tag(p)}
  /\ explored' = explored \cup {Id(h, p)}
  /\ \/ tasks' = [tasks EXCEPT ![h][w][p] = "bga"]
     \/ tasks' = [tasks EXCEPT ![h][w] = Without(h, w, p)]
  /\ UNCHANGED <<main, runs, queueVars, wip, cons, item, starts>>

\* The blob agents end, or either agent raises.
TaskEnds(h, w, p) ==
  /\ Running(h) /\ p \in DOMAIN tasks[h][w]
  /\ Faults \/ tasks[h][w][p] = "bga"
  /\ tasks' = [tasks EXCEPT ![h][w] = Without(h, w, p)]
  /\ UNCHANGED <<main, runs, queueVars, redisVars, cons, item, starts>>

\* Mutant: the item is marked done as soon as its tasks are made.
AllCompleted_AtOnce(h, w) == TRUE

AllCompleted(h, w) == DOMAIN tasks[h][w] = {}

FinishItem(h, w) ==
  /\ Running(h) /\ cons[h][w] = "run" /\ AllCompleted(h, w)
  /\ TaskDone(h)
  /\ cons' = [cons EXCEPT ![h][w] = "get"]
  /\ UNCHANGED <<main, runs, queue, puts, late, redisVars, item, tasks, starts>>

ConsumerStep(h, w) ==
  \/ Get(h, w) \/ Extract(h, w) \/ ExtractFails(h, w) \/ CopyFails(h, w)
  \/ FinishItem(h, w)
  \/ \E p \in Paths : BcdaEnds(h, w, p) \/ TaskEnds(h, w, p)

MainStep(h) == CpuaEnds(h) \/ LeaveInit(h) \/ JoinQueue(h) \/ JoinThread(h)

Next ==
  \E h \in Harnesses :
    \/ Put(h) \/ Rerun(h) \/ MainStep(h)
    \/ \E w \in Workers : ConsumerStep(h, w)

Spec == Init /\ [][Next]_vars

\* main goes on when it can, consumers are tasks of a running event loop,
\* and every agent returns or raises.
FairSpec ==
  /\ Spec
  /\ \A h \in Harnesses :
       /\ WF_vars(MainStep(h))
       /\ \A w \in Workers : WF_vars(ConsumerStep(h, w))

(***************************************************************************)
(* Properties                                                              *)
(***************************************************************************)
Items == [stop : BOOLEAN, paths : SUBSET Paths]
TaskMaps == UNION {[ps -> {"bcda", "bga"}] : ps \in SUBSET Paths}

\* Types of the variables.
TypeOK ==
  /\ main \in [Harnesses -> {"cpua", "closing", "join", "thread", "done"}]
  /\ queue \in [Harnesses -> Seq(Items)]
  /\ unfinished \in [Harnesses -> Nat]
  /\ cons \in [Harnesses -> [Workers -> {"get", "extract", "run", "exit", "dead"}]]
  /\ item \in [Harnesses -> [Workers -> SUBSET Paths]]
  /\ tasks \in [Harnesses -> [Workers -> TaskMaps]]
  /\ wip \subseteq {Id(h, p) : h \in Harnesses, p \in Paths}
  /\ explored \subseteq {Id(h, p) : h \in Harnesses, p \in Paths}
  /\ done \subseteq {Tag(p) : p \in Paths}
  /\ runs \in [Harnesses -> Nat] /\ puts \in [Harnesses -> Nat]
  /\ starts \in [Harnesses -> [Paths -> Nat]]
  /\ late \in [Harnesses -> BOOLEAN]

\* Consumers that hold an item.
Busy(h) == {w \in Workers : cons[h][w] \in {"extract", "run", "dead"}}

\* The unfinished count is what lies in the queue and what a consumer holds,
\* dead consumers included: task_done is called once per item on every way
\* through path_consumer but the one that kills it.
UnfinishedCount ==
  \A h \in Harnesses : unfinished[h] = Len(queue[h]) + Cardinality(Busy(h))

\* Once candidate_queue.join() has returned, nothing is queued and no agent
\* of the run is at work: what the end of main reports is final.
JoinedMeansIdle ==
  \A h \in Harnesses :
    main[h] \in {"thread", "done"} =>
      /\ queue[h] = <<>>
      /\ \A w \in Workers : DOMAIN tasks[h][w] = {}

\* A consumer leaves only when every candidate put before the end of the
\* call-graph side has been taken.
LeaveAfterCandidates ==
  \A h \in Harnesses :
    (\E w \in Workers : cons[h][w] = "exit") /\ ~late[h] =>
      \A i \in DOMAIN queue[h] : queue[h][i].stop

\* The queue, its count and its sentinels agree: join neither returns early
\* nor do consumers leave candidates behind (path_consumer, main).
QueueSound == UnfinishedCount /\ JoinedMeansIdle /\ LeaveAfterCandidates

\* While the process runs alone on its Redis, candidates that hold a path
\* again and again (every later put repeats the earlier ones) start its
\* agents once.
OncePerRun == \A h \in Harnesses, p \in Paths : starts[h][p] <= 1

\* A path the harness has explored is not handed to the agents again (the
\* docstring of is_unique_sink).
ExploredOnce ==
  [][\A h \in Harnesses, p \in Paths :
       Id(h, p) \in explored => starts'[h][p] <= starts[h][p]]_vars

\* Once main waits for the queue it comes to its end, unless a candidate
\* came after the sentinels, a consumer died, or the run was killed.
MainEnds ==
  \A h \in Harnesses :
    main[h] = "join" ~>
      \/ main[h] \in {"done", "cpua"} \/ late[h]
      \/ \E w \in Workers : cons[h][w] = "dead"

=============================================================================
