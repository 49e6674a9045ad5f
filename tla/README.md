# A model of the multilang fuzzing system

This directory holds TLA+ models of the concurrent parts of this repository, the
TLC runs that check them, and TLAPS proofs about them. It is written beside the
code: every definition that stands for code is listed with its file and lines in
`PROJECT.json` under "map", and what can go wrong, with the property that would
notice, under "hazards".

## 1. The system

The repository is a cyber reasoning system (CRS). Its heart is **uniafl**, a
Rust process with one worker thread per core. A worker goes round its *stages*
for ever; each stage loads inputs into the worker's block of slots in shared
memory, has them run by an *executor* process, and files the results. Beside it
run programs that ask language models: **MLLA**, a Python program of agents that
find call paths to suspicious functions and write inputs for them, and the
**harness reverser**, which writes descriptions of the input format (testlangs).

```
   MLLA:  cpua -> mcga agents ==(candidates)==> consumers: bcda, blob agents
              \_______ Redis: call graphs, paths, code index ______/   |
                                                                       | files
   harness reverser                                                    v
        | files under one lock                          scripts, blobs, reports
        v                                                              |
   input generator process (testlang, dict)                            |
        |  SharedData + 2 semaphores                                   v
   +---------------- uniafl: worker threads, stages ---------------------+
   |  UniState: corpus, observers, crashes, scheduler (RwLocks)          |
   +---------------------------------------------------------------------+
        |  struct Worker, slots, 2 semaphores        |  two pipes
        v                                            v
   executor: patched libFuzzer / jazzer          symbolizer, Java process
```

| component | state it keeps | operations | how it interacts | what is hard |
|---|---|---|---|---|
| Execution channel (`msa/manager/manager.c`, `FuzzerShm.cpp`, the libFuzzer `diff`, `exec_runner.rs`) | control record of a worker (`mode`, `in_loop`, `alloc_input_idx`, `execute_input_idx`, `iter_cnt`), metadata of slots, two semaphores | `set_mode`, `alloc_input`, `let_go`; `WaitShm`, `RunGivenInputs`, `ShareCorpus`, `AddResult`, `EndShm` | shared memory, semaphores, a shell loop that restarts the fuzzer | the executor dies with nearly every finding, in the middle of a batch |
| Input generator service (`input_gen/`, `stage/input_gen.rs`) | `SharedData` of a worker, two semaphores, outputs and remains of the server thread | `run_cmd`, `wait_cmd`, `done_cmd`, `reset`, `check_timeout_loop` | the generator writes the worker's slots | one process for all workers, which hangs or dies and is not restarted |
| UniState (`state.rs`, `corpus.rs`, `coverage.rs`, `sanitizer.rs`, `scheduler.rs`) | seed corpus, PoV corpus, two coverage observers, crash observer, scheduler | `add_if_interesting_seed`, `add_if_interesting_crash`, `try_add_dummy_seeds`, `schedule_seed` | called by every worker thread | check under a read lock, act under a write lock, files written under none |
| Symbolizer (`bin/symbolizer`, `executor.rs`) | `NAME.cov` files, a worker's two pipes, a pool thread, a Java process | one request of two lines, one `DONE` | pipes without numbers; two writers of one file | a time limit that gives up on a thread and does not end it |
| Loading stages, counters (`load.rs`, `seed_share.rs`, `stage.rs`) | directories, `StageCounter` (`on`, `is_first_run`, `remain`) | `load`, `load_and_perform`, `need_run`, `set_interval` | workers race for files with `rename` | a flag read under one lock and taken under another |
| MLLA stage (`mlla.rs`, `bin/run_mlla_*.py`) | known scripts, the agents' output directory, a counter | `load_mlla_result`, `run_mlla`, `generate`, `mutate` | agents write files and announce them; script processes write the slots | two workers may collect from one directory at once |
| Call-graph agents (`mlla/agents/mcga.py`, `cpua.py`) | `mcga::` keys in Redis, a tree in memory, counters, the priority queue | `preprocess`, `handle_cache`, `wait_for_children`, `finalize`, `_run_tasks` | agents start agents; checkers poll Redis; sentinels end the run | agents that wait for each other, timeouts, runs that are killed and continued |
| Path queue (`mlla/main.py`, `path_extractor.py`, `bcda_experimental.py`) | `candidate_queue` and its unfinished count, Redis sets of paths done and in progress | `put`, `path_consumer`, `is_unique_sink`, `set_done`, `join` | an event loop that puts, a thread with consumers that take | `task_done` and sentinels have to fit every way through a consumer |
| Code index (`mlla/codeindexer`) | lock, done flag, hash and candidate sets in Redis | `build_index`, `search_candidates` | processes share one index; a watchdog thread extends the lock | killed builders, a lock that lives a few seconds |
| Blob agents (`blobgen_agent`, `generator_agent`, `mutator_agent`, `orchestrator_agent`) | the state of a LangGraph: `iter_cnt`, payload, run result, crashes | nodes, conditional edges, `run_all_agents` | semaphores; results gathered by the orchestrator | loops with several exits, nodes that fail, a recursion limit |
| Testlang generator, harness reverser (`input_gen/testlang/service`, `reverser/harness-reverser`) | testlangs and their ids, used ids, outputs and diffs, the handle of a run | `check_reverser_run`, `sync_with_reverser`, `evaluate_rerun`; `build_context_msgs`, `prepare_prompt`, the checks of a testlang | files under one file lock | two programs number the same things and do not tell each other |
| fuzzdb (`fuzzdb/src/db.rs`) | bug candidates, PoV infos, coverage cache | `load_bcda_result`, `notify_cpv_found`, `match_*` | scheduler, dict generator | candidates replaced while they are matched |
| Dict generator (`input_gen/dict`) | token files, `running` flag | `get_tokens` | dictgen process | a flag that must come back |
| JVM executor (`base-builder-jvm/*.diff`) | as the execution channel, and `is_fuzzing_end` | the same | the same | survives findings (`keep_going`) |
| Seed sharing (`bin/seed_share.py`) | `stored`, `loaded` | `sync` | directories of other CRSs | copies that fail |
| Start-up, watchdog, testlang and FDP libraries, libCRS, customgen, tracers, joern, lsp, deployment | | | | no protocol of their own, or pure data |

What makes each of the modelled components correct:

* *Execution channel*: a block has one owner; a batch of given inputs is run
  once each, in order, whatever dies; a result belongs to the run of its slot in
  this batch; `let_go` returns.
* *Input generator service*: record and block have one owner; the answer read is
  the answer to the command sent; blobs that do not fit are run later, once,
  under the same parent; callbacks go to the blobs that were kept; `run_cmd`
  returns although the process may hang or die.
* *UniState*: no seed is scheduled twice and no crash submitted twice; no
  coverage is claimed for an input that is thrown away; a seed is weighed with
  its coverage file in place; when the workers are between batches nothing they
  claimed is left half done.
* *Symbolizer*: a `DONE` answers the request it is read for; a coverage file is
  that of this request, or empty; the worker gets an answer.
* *Loading, MLLA stage*: one agents process at a time and as many as configured;
  a file is run once, by one worker; what was announced is used in the end,
  though the agents end at any time.
* *Call-graph agents*: what Redis calls done has its callees done, also for the
  next run; each root posts one sentinel, and not before it is settled; a
  vulnerable function that is first recorded is in the call graphs its agent
  submits; the run ends.
* *Path queue*: `join` returns exactly when all is done; no consumer leaves a
  candidate behind; a path is explored once.
* *Code index*: a reader that finds the index done finds in it what can be
  parsed; the lock of a builder that is gone becomes free.
* *Blob agents*: no more attempts than allowed; a known crash is among what its
  agent returns; the orchestrator gets every answer.
* *Reverser*: its runs never meet; it learns every id that was used; the ids it
  guesses are those uniafl gives.

## 2. Modules

Each component has one module with its state, one action per operation, and its
properties; `MC*` modules give the constants values for TLC, `*_proofs` hold the
theorems. Data is abstracted to what the properties tell apart; names from the
code are kept.

### WorkerExec, BatchSpec

`WorkerExec` is one worker thread and its executor. The client's actions are
`SetMode`, `AllocInput`, `SetIterCnt` (loading), `PostStart` and `WaitEnd` (the
halves of `let_go`) and `ProcessResults`. The executor's program counter `epc`
walks through `Fuzzer::Loop`:

| `epc` | code |
|---|---|
| boot, wait, entering | `InitShm`, `WaitShm` before and after `sem_wait` |
| dispatch, given, iter, mutate | the switch on `get_mode`, `RunGivenInputs`, `consume_iter_cnt`, `MutateAndTestOne`, `RunWithSeed` |
| target, leakcheck | `RunOne`, `TryDetectingAMemoryLeak` |
| share, store, exitshm | `ShareCorpus`, `AddResult`, `ExitShm` |
| leave, post | `EndShm` before and after `in_loop = 0` |
| dying, dead | a death callback still running; the shell loop has it next |

What the process keeps for itself (`pass_wait`, the local indices of
`RunGivenInputs`) is lost when it dies; `struct Worker`, the slots and the
semaphores stay. A run of the target is abstracted to its outcome. `verdict` is a
history variable: what really happened to the input of a slot. `lost` counts
deaths outside any batch end and is bounded by `MaxLost`; a run cannot fail in
the model when neither its failure can be recorded nor `lost` allows one more
(`FailHere`).

`BatchSpec` is the contract: a stage owns the block or the fuzzer is running it;
given inputs are run once each in order; the block comes back only when nothing
is pending. `BatchRefined` states that `WorkerExec` implements it, with
`pending` being `execIdx .. allocIdx - 1` and `done` being `0 .. execIdx - 1`.

### InputGenRpc

The worker thread's side is the chain of commands of `InputGenStage::perform`
(Generate or Mutate, then ExecCB and GetRemain by turns while there are
remains), each command in its four steps (`SetCmd`, `PostStart`, `WaitEnd`,
`ReadResult`). The server's side is `process`: `TakeStart`, `ReadCmd`, the four
commands, `Publish`, `PostEnd`. The process dies as a whole (`Timeout`,
`Crash`); then the `--reset` process walks over the workers (`ResetStatus`,
`ResetResult`, `ResetPost`). Blobs are numbered as they were made; a blob may be
blank, and slots keep their metadata until `alloc_input` clears them. The seed's
slot is the first slot of the block, as in `get_seed_idx`.

Running the loaded blobs is one step, `Execute`: `WorkerExec` has its detail.

### CorpusState

Workers bring batches of inputs and crashes to the shared `UniState`. Locks are
modelled by their holders where the code keeps one across several steps (the
write locks of corpus and observer, and of solutions and crashes); what happens
under one lock at once is one step. `ClaimSeed` and `ClaimPov` are one step for
each input of a batch. What the code does with no lock (`SaveCoverage`,
`UpdateScheduler`, `RunPov`, `SavePov`, `SubmitPov`) are steps that interleave.
Inputs with the same bytes are the same element, since the corpus names them by
their hash; coverage and crash logs are functions of the input. Worker 0 loads
its seeds and then adds the dummy seed; here it starts with the dummy seed, while
the other workers may already have filled the corpus.

### StageCounter, MllaStage

`StageCounter` is the flag that lets one worker at a time run a stage. `cpc` is a
worker as far as the counter knows it: outside, between the two locks of
`need_run` (`saw`), inside the stage (`in`), or between the two locks of
`set_interval` in the first run (`first`). `sleepers` are the threads that
`set_interval` spawns. `FirstAtOnce` is the argument `do_not_wait_if_first_run`:
TRUE for `MllaStage`, FALSE for `SeedShareStage`.

`MllaStage` extends it with the workers and the agents. A worker's `pc` walks
through the code:

| `pc` | code |
|---|---|
| seeds | `run_seed`: the given corpus is listed |
| perform, cmd, poll, end | `MllaStage::perform`: `need_run`, `prepare_mlla_cmd`, the loop until the runner is finished, `set_interval` |
| report, take, apply, drop | `get_bcda_result`, and what `load_mlla_result` does with its answer |
| scripts | `load_mlla_scripts`, under the write lock of `blob_gen` |
| glob, unmark | `get_generated_blobs` |
| claim, run | `load` and `load_and_perform` |
| blobgen | `generate` and `mutate`, then the next round of the stages |

`phase` says where `load_and_perform` returns to. An artefact (blob, script,
report) is a file on `disk`, and `marked` while its `.done` file exists; the
agents `Write` it and then `Announce` it, and stop at any moment. A file counts
as loaded when it was renamed: a script and its JSON description are one file
here, taken in one step, since the write lock keeps other workers out and the
agents are done with it. The scripts of `BadScripts` have a description that does
not parse: `load_script` has removed the `.done` file by then, and gives them up.
A report is one file written once. `executed` is a
history variable. Running a batch is one step, `RunBatch`; `WorkerExec` has its
detail.

### CoverageSymbolizer

A worker of uniafl (`upc`), the Python process it starts and replaces (`mpc`,
its main thread; `tpc`, the pool's thread) and, for one of the three tools, a
Java process. `Tools` tells which: `bin` and `jvm` are `symbolizer.py`,
`runner` is `harness_coverage_runner.py`, whose loop and handlers differ.
A request is its number; `inq` holds the names sent and not yet read, `outq` the
`DONE`s not yet read. `NAME.cov` holds the number of the request whose coverage
it is, or is `Absent`, `Blank` (`{}`), `Half` written, or `Garbled` by two
writers. When main gives up on its thread (`late`), the thread goes on beside the
fallback; leaving the `with` block of the pool (`mpc = "join"`) waits for it.

### MakeCallGraph

Agents are named by their call path from a root function, since the loop cache
an agent inherits holds exactly the functions of its path. `pc` is the node of
an agent's graph, `checker` its `_wait_for_all_children_done`, and `cpua` the
task that starts the roots, counts sentinels and gathers. Redis holds for a
function whether it is done, whether it is being analysed in this run, and its
tree, abstracted to its sinks: the functions whose node in it has a report that
calls them vulnerable. Whether a report does is decided by each analysis anew, so
two agents of one function may disagree. A run may end at any time and is followed
by the next, on the same Redis; every `FlushPeriod` runs the cache is flushed, a
key at a time (`FlushKey`; `torn` while a flush has not come to its end). In the
runs of `FaultRuns` models fail, submissions raise and `MAX_TIMEOUT` elapses; in
the others everything may still be slow.

| `pc` | code |
|---|---|
| preprocess, step1 | `preprocess`; `code_understand_step1` up to its first await that gives way: the node is recorded and, if it is vulnerable, the roots are read back from Redis (no await lies between) into `cgs` |
| submit | `make_new_root_node` is awaited for each root; then `candidate_queue.put` (`Submit`), or it raises and with it the agent's graph (`SubmitFails`, `raised`), or the gathering cancels it where it stands |
| handle_cache, wait | `handle_cache`; `_check_until_done` |
| visit, visit_put; visit_done, visit_done_put | the task of `CachedResultHandlerVisitor` for one vulnerable node: read back, await, put or raise; with `_done`, when the key was found done |
| analyze_children | limits, then an agent per callee and the checker |
| finalize, return, end | `finalize`, the callback that puts the node in its caller's, over |

The node of a callee hangs in its caller's (`InPlace`) when its agent works on the
object the caller made for it, or when its task has put the returned node there;
`Tree` is what all nodes below the agent's show, with the copies that
`_set_loop_cache` made of its callers (`LoopCopies`). `Reached` are the call paths
on which `get_current_cgs_from_redis` walks down from a root. All are sets of call
paths, not recursive definitions, so that they can be proved about. Nothing
depends on which tasks `_run_tasks` takes in a pass before it gets to a sentinel,
so `TakeTasks` takes them all.

### PathQueue

One MLLA process per harness. `main` walks through the end of `main()`: the
call-graph side (`cpua`), leaving `gc.init()` with the sentinels queued
(`closing`), `join`, the wait for the thread. A candidate is the set of
vulnerable paths of its call graphs. A consumer takes an item, extracts the
paths `is_unique_sink` lets through, runs the agents on each (`tasks`) and
records them (`set_done`). The Redis sets `done` and `wip` hold the strings the
code writes: the tag of a path, or harness name and tag. `Faults` allows
extraction, copying and the agents to raise. `starts`, `explored` and `late` are
history variables.

### CodeIndexer

Builders (`build_index`) and readers (`search_candidates`) over the lock, the done
flag, the project's hash and the candidate sets. A file stands for the functions
in it; files of `BadFiles` do not parse. Cleaning, writing and flagging are steps
of their own, since each is a call to Redis; the lock has a time to live that
passes (`Expire`) when its holder's watchdog `dog` is gone or the process sleeps.
`faults`, chosen once per behaviour from `FaultSets`, tells what may happen:
kills, reruns, pauses longer than the lock lives, Redis errors, overwriting.

### BlobAgents

Each agent is the LangGraph of its kind over one context; an action is one
superstep, and after `Limit` supersteps the graph raises. `iter` is `iter_cnt`,
`code` the attempt the payload is from, `ran` the attempt the stored result is
from. Static and conditional edges are `Goto`s; a node with a handler can fail
and go on, one without raises (`NodeRaises`). `finalize` is followed by the superstep
of `_debug_snapshot_end`, so that an agent which finalizes in its last superstep
has no result. `Slots` is the semaphore. The
orchestrator starts every agent and gathers.

### ReverserSync

Workers of the testlang generator (`pc`) and the reverser process (`rpc`).

| `pc` | code |
|---|---|
| poll, lock, pull, write | `check_reverser_run`, then `sync_with_reverser`: `pull_testlang` and `push_used_testlangs` under the file lock |
| synced, check | `rerun_complete` or the next poll, `is_finished` |
| evaluate, critical | `evaluate_rerun`, `run_on_side` |
| mark, work | used ids noted; generation and mutation |
| off, idle, failed | before `new_worker`, between two calls, after `TestLangPool::new` gave up |

| `rpc` | code |
|---|---|
| boot | a process starts and counts the files it finds |
| look, held, coverage | `build_context_msgs`: the wait for used ids, the sleep with the lock held, reading the coverage |
| llm, check, update | the answer of the model, the checks of a testlang, writing it and its diff |
| ended | the side thread is over |

An output is the number of the write that made it; uniafl gives each the next id
when it pulls it, and the reverser names diffs by the id it expects. `slip` is a
history variable: an output was refused, broken off, or left by a process that
died, so the count may differ. That a file cannot be opened is left out.

## 3. Runs

| run | bounds | what it shows |
|---|---|---|
| `exec` | 3 slots, 2 iterations, depth 2, crash and timeout, 1 death without record, kills outside the windows below | `ClientOwnsBlock`, `ResultsMatchRuns`, `BatchRefined`, `LetGoReturns` |
| `rpc_chain` | 1 worker, 2 slots, up to 3 blobs, 2 seeds, generator, mutator and callbacks, 3 reset tokens | `BlobsKept`, `OwnAnswer`, `RunCmdReturns` |
| `corpus` | 2 workers, one with a testlang stage, one batch of 2 inputs each out of 3, one dummy seed | `ClaimedOnce`, `CoverageOwned`, `Settled` |
| `mlla` | 2 workers, 2 runs of the agents, batches of 1 input, 1 seed; the agents write 2 blobs and a script, or a blob, a report and a script that does not load | `OneAgents`, `NothingLost`, `RunsTold`, `AllUsed` |
| `symbolizer` | each of the 3 tools, 3 requests over 2 names, either process dying anywhere | `AnswersMatch`, `SaveReturns` |
| `symbolizer_hang` | the Java tool, 2 requests over 1 name | `UniaflTimesOut` is violated |
| `call_graph` | 2 roots that call each other, or of which one calls the other or a third function, 2 of the 3 may be vulnerable, 2 executions, 1 idle wait, 2 runs with failures in the first, flush when the first ends | `SentinelsEarned`, `DoneHasDoneCallees`, `NewSinkSubmitted`, `RunEnds` |
| `path_queue` | 1 harness, 2 consumers, 2 paths, 2 candidates a run, 2 runs, with faults | `QueueSound`, `OncePerRun`, `MainEnds` |
| `path_again` | the same with 1 candidate and no faults | `ExploredOnce` is violated |
| `index` | 2 builders, 1 reader, 2 files of which one does not parse, 1 wait, 2 starts; kills and reruns, or pauses, or overwriting, or kills and Redis errors | `IndexSound`, `LockFreed` |
| `agents` | 2 contexts, 1 slot, 3 attempts, limits of 25 and 100 supersteps, one kind at a time | `LoopSound`, `AgentsEnd` |
| `reverser` | 2 workers, a first run and one rerun, 2 starts of a process, 2 trials, 2 testlangs | `RerunsApart`, `FileFollows`, `GuessesAgree` |

Every passing run also checks the type invariant of its module, `TypeOK`
(`CorpusTypes` of `CorpusState`, `GraphTypes` of `MakeCallGraph`: the proofs take
these modules together with another, so their specifications have names of their
own, `CorpusSpec` and `GraphSpec`).

**Findings.** `path_again`: `set_done` enters the bare tag of a path in
`extracted_paths::done`, while `is_unique_sink` looks there for harness name and
tag, so no path is ever found explored. Within a run `extracted_paths::wip`
keeps a path from being taken twice (`OncePerRun`); the next run deletes that
set, and hands the path to the agents again. `symbolizer_hang`: the 600 seconds
in `run_symbolizer` are put around an async block whose only step is a blocking
read, so they do not end the wait. When the Java process dies in the middle of a
request, the thread of the pool waits for its marker for ever, the first request
is answered by the fallback, and the next one by nobody. `SaveReturns` of
`symbolizer` is the same statement with this one exception.

**Why the bounds are enough.** Slots of a block matter as first, last and one in
between, hence 3 where order is at stake; a second iteration and a second
mutation give each loop a way round and a way out. Three blobs through two slots
make a chain with a remaining blob. A reset answers the commands a stage still
has to send: the longest such chain takes 3 tokens here (with 2 the run is
violated), while the code posts 100, so what the constant bounds is chains with
more commands than that. One worker is enough for what becomes of the blobs,
since workers share only the process; that the hand-over is clean when the
process of several workers ends is proved for any number (`AnswersAreOwn`), but
that every `run_cmd` returns was checked with one worker only. Three inputs of
which one covers what the others cover together, and two of which crash with the
same log, give every race between two workers: same bytes, same coverage, same
log. Batches of one input make two blobs two rounds of `load_and_perform`, with
another worker claiming files between them; the second run of the agents, which
may begin while the first one's worker collects for the last time, is what two
workers need to meet in the output directory. The third request to the
symbolizer comes after one that was given up on and one that waited behind it,
and a name is used a second time. Two functions make a cycle of agents that wait
for each other, a shared callee, and a root that is another root's callee; the
third, which is no root, is read back only through its caller, which another
agent may have made done; two executions are one less than the agents ask for;
the second run takes what a killed or failing first one, or a flush that was
broken off, has left (777,084 states). Two consumers are
needed to extract one path at the same time, two candidates to leave one behind.
Two builders meet at the lock and in the index; the file that does not parse is
what a reader may miss. In `agents` two contexts and one slot make one agent wait
for the other; three attempts are the first, one from the middle and the last.
The rerun is what a second worker may decide on, and the second start of a
process is what finds outputs of the first.

**Kill windows.** A kill between `sem_wait(StartSem)` and `in_loop = 1`, or between
`in_loop = 0` and `sem_post(EndSem)`, loses the only token of a batch, and the
worker waits for ever; a kill between `alloc_executed_input` and the end of
`AddResult` leaves a counted slot with an old result. The code has no protection
against these, so `exec` excludes them (`KillOutsideWindows`). The safety
properties that do not need the exclusion (`ClientOwnsBlock`, `BatchComplete`,
`BatchRefined`) are proved for every set of kill points. These kills are not what
a target's crash does: the fuzzer's own death callbacks run to their end. They
are the kernel's, or a fault inside the callbacks.

**Deadlock** is checked in `exec` and `mlla`. Elsewhere the system may stop: in
`rpc_chain` a stage finds the generator not ready for ever once it is gone; in
`corpus`, `symbolizer`, `call_graph`, `path_queue` a bound ends the last batch,
request or run; builders, readers and agents end; and without a first testlang
`TestLangPool::new` gives up.

**Fairness**, per module, is what the scheduling of the code gives:

* `WorkerExec`: the executor takes steps and its shell loop restarts it
  (`while true`), a run of the target ends (libFuzzer's own timeout is one of the
  failures), and `sem_wait` returns when there is a token; nothing makes a stage
  start a batch.
* `InputGenRpc`: server threads run; a command that hangs is noticed by
  `check_timeout_loop`, which is the only reason `Timeout` is fair, and only for a
  command that hangs; `cmd; cmd --reset` is one shell command, so the reset
  follows; nothing makes the generator hang or die.
* `MllaStage`: worker threads go round their stages for ever, a sleeping thread
  wakes up, and `timeout 3h` ends the agents; nothing makes the agents write or
  announce anything.
* `CoverageSymbolizer`: worker, main thread, pool thread and Java process take
  their steps while they live, the timer of `future.result` runs out, and runs of
  the target and of the tools end; nothing makes a process die, a thread raise or
  a worker ask.
* `MakeCallGraph`: only `call_mcga` itself, which waits 36 seconds at a time and
  gives up after so many idle waits. The agents need not take a step, so that
  `RunEnds` also covers models that never answer.
* `PathQueue`: the event loop and the consumers' thread run, and agents end or
  raise; nothing makes a call-graph agent put a candidate.
* `CodeIndexer`: processes and readers take steps, and Redis lets a lock expire
  when nobody extends it.
* `BlobAgents`: nodes return or raise, and the event loop runs what is ready.
* `CorpusState` and `ReverserSync` state none: their properties are safety only.
  That a worker gets the file lock in the end would need a fair lock, which
  `flock` does not promise.

## 4. Proofs

All theorems hold for every value of the constants that satisfies the module's
named assumption; the four that need one more (`ResultsAreRuns`, `TokenNotLost`,
`NobodyStranded`, `PathOnce`) state it. Every invariant that a run checks is a theorem, and so is the refinement
`BatchRefined`. TLC has checked each invariant on the instances above; the
strengthenings are what makes them inductive. In each proof module `InitIInv` (or its like) and one lemma
with a step per action carry the induction. Two proof modules are about two
modules each, which do not interact there.

**`WorkerExec_proofs`** (any block size, iteration counts, set of kill points):
`TypeCorrect`, `BlockOwnership` (`ClientOwnsBlock`), `NothingPassedOver`
(`BatchComplete`), `ChannelImplementsBatch` (`BatchRefined`), `ResultsAreRuns`
(`ResultsMatchRuns`). `ClientOwnsBlock` is
not inductive: it does not speak of the states in which the client waits. `IInv`
counts tokens. The start token, the end token and the executor inside a batch
(`Held`: `in_loop` is set, or the executor is between a semaphore and `in_loop`)
are together at most one, and none unless the client is blocked in `let_go`
(`OneToken`). `LoopAgrees` ties the executor's location to `in_loop` and
`pass_wait`; its last conjunct is why a second death callback is harmless: a
process that is dying with `pass_wait` set is still inside the batch of a fuzzer
mode. `ModeAgrees` ties the location to the mode, which cannot change while the
executor works. For the batch, `execute_input_idx`, which outlives the process,
counts the inputs taken up; in the loop over given inputs `limit` and `cur` agree
with the shared indices (`Copies`), every place from which the block is handed
back is reached with `execIdx = allocIdx` (`AllTaken`), and what was taken up was
run (`AllBegun`). The refinement maps each step to a step of `BatchSpec` or to a
stutter, one named step for each action. `ResultsAreRuns` supposes
`KillsOutsideShare`: no kill from outside falls between `ShareCorpus` and
`AddResult`, as in `MCWorkerExec`. The code has no protection there, and without
the hypothesis the statement is false. Deaths the target brings about are not
excepted. A slot taken up holds the result of its run (`Recorded`), but for the
one whose result is on its way (`Open`); a slot not taken up holds none.
`TokenNotLost` is the other half of the count in `OneToken` and the safety part of
`LetGoReturns`: while the client is blocked in `let_go` there is exactly one
token, in a semaphore or with the executor, whatever crashes and restarts. It
supposes `KillsOutsideCrossing`: no kill falls between `sem_wait` and the write of
`in_loop`, or between clearing it and `sem_post`, the windows in which the code
does lose the token.

**`InputGenRpc_proofs`** (any number of workers, slots, blobs and spare tokens):
`TypeCorrect`, `AnswersAreOwn` (`OwnAnswer`), `BlobsAreKept` (`BlobsKept`). While
the process lives, a worker that waits has one token: in `startSem`, with its
server thread, or in `endSem` (`Token`). When the process has died the token may
be gone or left in `endSem`, where it stands for the answer that was given
(`Left`), until `--reset` has put Empty in its place; only then do the spare tokens
come (`Cleared`). For the blobs, a chain's blobs are numbered as they were made,
so what was run, what is loaded and what remains are three spans of numbers in a
row, and slots and sequences are described by them (`SpanIs`). A round takes the
spans from `Between` (or `New`) over `Loaded` and `Marked` to `Between`; which of
these holds follows from the worker's location, the command, and whether the
server thread has done it (`Worked`). The process may die at any point of the
round; what then still counts is that an answer which was given stands for blobs
that are loaded and have not been run (`GivenLoaded`). `NobodyStranded` is the
safety part of `RunCmdReturns`, for any number of workers: one that waits has its
token, or its server thread or `--reset` has still to post it, and a server thread
at work is one that `check_timeout_loop` sees. It supposes at least three spare
tokens for each worker (the code posts 100). Three is what the longest rest of a
chain takes (`Need`: ExecCB, GetRemain, then Mutate after the generator, each
answered with Empty), and TLC finds a stranded worker with two. That no further
chain begins is `Closed`: reset has set the status to BOOTED, and the server
thread that could set it back is gone.

**`MllaStage_proofs`** (any set of workers and files, any number of runs):
`CounterTypeCorrect`, `RunnerExclusive`, `RunsToldRight` of the counter, for both
values of `FirstAtOnce`; `UsesCounter`, that the stage's workers use the counter
as `StageCounter` specifies; `TypeCorrect`, `AgentsExclude` (`OneAgents`),
`AllIsKept` (`NothingLost`). The counter being on, a worker inside the stage and a
sleeping thread are three forms of one token (`OneForm`); `RunBudget` is what each
turn of the token costs, and the flag of the first run is up exactly while
nothing was taken from `remain` (`FirstIsUnpaid`). For the files, a file is on
disk until one rename takes it into one block (`Claimed`), a marker is only that
of an announced file (`Marked`), what a worker has listed is there or was taken
(`Listed`), and a report a worker holds has its file in place (`Held`).

**`CorpusCoverage_proofs`**: `CorpusState` (any workers, inputs, observers, batches
of any size) and `CoverageSymbolizer` (any names and number of requests).
Of the first `CorpusTypeCorrect`, `ClaimsAreExclusive` (`ClaimedOnce`),
`CoverageIsOwned` (`CoverageOwned`), `NothingHalfDone` (`Settled`). An input enters a
worker's list in the step that makes the observer see its coverage, under the
write lock, so another worker finds it seen; until it is weighed it is in one
list, once (`Weighed`). A seed is new in the first pass only: when the second
begins, the first observer has seen the whole batch (`Passed`), so an entry that
is not new has its file, or is on the way to it in somebody's list
(`SeedsTracked`). A crash log is listed in the step that claims it (`Submits`) and
leaves the list when it is submitted (`PovsTracked`).
Of the second `TypeCorrect`, `AnswersAlwaysMatch` (`AnswersMatch`). A request is in
the input pipe, in the main thread or in the output pipe (`Pipes`), so the
thread's file is the worker's (`Current`) and what it holds is of this request
(`Fresh`); a thread that was given up on may still write, but the next request is
not taken before it is over (`ThreadStages`).

**`PathQueue_proofs`** (any number of consumers, paths and runs): `TypeCorrect`,
`QueueIsSound` (`QueueSound`), and under the assumption of one harness `PathOnce`
(`OncePerRun`). Each item put is queued, held by a consumer, or done with
(`Counted`), so that nobody holds anything once `join` returns (`JoinedEmpty`); in
the queue a None is followed by candidates only if one came late (`Ordered`). With
two harnesses `OncePerRun` does not hold: one process's start deletes what the
others have in progress.

**`CodeIndexer_proofs`** (any sets of builders, readers and files): `TypeCorrect`,
`ReadersCanRely` (`IndexReliable`), `QuietIsComplete` (`QuietMeansComplete`), and
`IndexIsSound`, both together. With kills and reruns only, nobody who builds loses
the lock (`Locked`), one builder at a time goes from an index that is not done,
over an empty one, to a complete one (`Stages`), and done is never taken back
under a reader (`ReadersSeeDone`). With pauses and overwriting several build at a
time; each that may still delete something has its own write ahead
(`WriteAhead`).

**`MllaAgents_proofs`**: `MakeCallGraph` (any functions, call graphs with cycles or
without, roots, limits, runs and failures) and `BlobAgents` (any number of
contexts, attempts, supersteps).
Of the first `GraphTypeCorrect`, `SentinelsAreEarned`, `DoneIsComplete`
(`DoneHasDoneCallees`), `NewSinksAreSubmitted`. `DoneHasDoneCallees` needs to know
why an agent may record a node done: it has seen the node done, or all callees
(`Known`, `SafeWrite`). It is stated for a cache with no broken-off flush
(`~torn`); what a run itself analysed anew it has done only with its callees,
whatever a flush left (`FreshComplete`). `NewSinkSubmitted` rests on the order in
which agents are started. Of what other agents can see, an agent's last act is to
start those of its callees (`Order`), so that above a started agent every caller
has a node, and if one of them is done the function itself is (`Chain`: a caller
becomes done only when the next function of the path is). When an agent is the
first to record its node, none above it is therefore done, and reading Redis from
the roots reaches it (`NewNodeVisible`). That reading and the record have no await
between them; the put has, and whatever happens meanwhile, what is put is what was
read (`AgentSinks`). Three ways to lose a sink are not excluded by this, and the
code has them: the submission raises; the gathering cancels it; or another agent
has recorded the same function before, with a report that does not call it
vulnerable, so that this agent's record does nothing. A root that can still post its
sentinel has not posted one (`Quiet`), and a step that posts leaves the root done
or timed out (`AgentPosts`).
Of the second `TypeCorrect` (with the bound on supersteps), `AttemptsAreBounded`,
`CrashIsReported`, and `LoopIsSound` (`LoopSound`), both together. `CrashIsReported`
says that a known crash is among what its agent returns, not that what is returned
crashed: the BlobGen agent that runs out of attempts returns its last payload.
Every way into a node from which another attempt may follow passes one that has found attempts
left (`Loop`); a crash is entered only on the way to `finalize`, while the payload
it belongs to is the one `finalize` returns (`CrashAtEnd`).

**`ReverserSync_proofs`** (any workers, runs, restarts, trials, testlangs):
`TypeCorrect`, `RunsNeverMeet` (`RerunsApart`), `UsedAreTold` (`FileFollows`),
`IdsAreGuessed` (`GuessesAgree`). The handle, the worker that evaluates a rerun and
the time of the last run are three forms of one token (`Token`); a run that has
given its handle back has left no output behind (`NothingLeft`); without a slip at
most one output waits, and its diff has the id uniafl will give it (`Guess`).

**Only model-checked**: all liveness (`LetGoReturns`, `RunCmdReturns`, `AllUsed`,
`SaveReturns`, `RunEnds`, `MainEnds`, `LockFreed`, `AgentsEnd`), since TLAPS does not
reason about `ENABLED` (of the first two the safety part is proved, `TokenNotLost`
and `NobodyStranded`); and that the two violated statements are violated.

## 5. Not modelled

* *Data*: the bytes of inputs, coverage bitmaps, crash logs and their parsing, the
  weights of seeds, what a testlang generates, what a parser finds, what a model
  is asked and answers. Where control depends on it, the model chooses.
* *Errors of I/O on files of the program's own*: a `<harness>.done` file that cannot
  be read, for which `main()` flushes the cache in its handler and counts from 1
  again (`mlla/main.py:813-824`); a `testlang_N.out` that cannot be read, which the
  reverser's `prepare_prompt` logs and skips (`reverser.py:1396-1400`), so that its
  count would be lower than uniafl's; a script that cannot be renamed.
* *Timeouts that are not reported*: with `allow_timeout_bug` off, an input whose run
  timed out is not handed on as a crash (`executor.rs:119-124`). `WorkerExec` ends
  with the results in the slots.
* *Sinks from the cache*: for a node taken from Redis in `handle_cache` the visitor
  reads the roots back as an agent that records does, but no property says that the
  node's sinks are found. When a run was killed between recording a function and
  putting it, and the next run's caller of it is recorded done, with the tree its
  checker holds, before the visitor reads, the candidate does not have the sink.
* *Variants*: the standalone executor that also captures output (it uses the same
  channel), the JVM executor with `is_fuzzing_end` and `keep_going`.
* *Components without a module*: fuzzdb, dict generator and its process, seed
  sharing, libCRS, the start-up and the watchdog, the call-graph parser `cgpa.py`,
  the tools of the agents. The first four have hazards of their own, listed
  below; the others are straight lines of calls, or read and transform data.
* *Code that is not this program's own*: multilspy with its generated protocol
  types, the infrastructure of OSS-Fuzz, grammars and their generators, joern,
  the language servers, Docker files. They make up most of the repository's
  lines, which is why the modules cover a small part of the whole.

`PROJECT.json` lists the hazards the properties are aimed at. The code is exposed
to more; those below are either a second way into the same property, or what the
code does without protection, or in a part without a module.

| where | what can go wrong | covered by, or why not |
|---|---|---|
| `FuzzerShm.cpp:60` | In the fuzzer modes the batch ends while the failing process is still alive, in given-input mode it must not end: the wrong choice gives the block two owners or returns half a batch. | `ClientOwnsBlock` |
| `uniafl/src/input_gen/manager.rs:155` | done_cmd publishes the result and then posts; posted earlier, worker and server thread would both hold record and block. | `OwnAnswer` |
| `uniafl/src/msa/stage/input_gen.rs:126` | is_ready is asked once, then several commands are sent; the process may die between any two of them. | `RunCmdReturns` |
| `uniafl/src/msa/state.rs:298` | A crash is reproduced outside of any lock; meanwhile another worker may have submitted the same log. | `ClaimedOnce`, `Settled` |
| `uniafl/src/msa/state.rs:314` | Whether a crash's coverage is still to be saved is decided by asking the seed corpus under a lock that is dropped before the saving. | `Settled` |
| `uniafl/src/msa/state.rs:253` | The dummy seed is added when the corpus was empty before a long run of the target; by then other workers may have filled it. | `ClaimedOnce`, `CoverageOwned` |
| `FuzzerShm.cpp:103` | Killed between alloc_executed_input and AddResult, the process leaves a slot that is counted and holds an old result. | The code has no protection: ResultsMatchRuns is checked with kills outside this window, which MCWorkerExec names. |
| `FuzzerShm.cpp:101` | A crash found by the fuzzer when the block is full is recorded nowhere, and the process dies inside the batch. | The model takes the step (ShareFails); that the crash is lost is what the code does, so no property is stated against it. |
| `uniafl/src/input_gen/server.rs:364` | Server threads are joined in order: a panic in a later thread is noticed only when the earlier ones end, so its worker waits for the timeout or for ever. | catch_unwind guards generator code, so only a panic in the framework itself gets there; not modelled yet. |
| `uniafl/src/msa/state.rs:247` | In the testlang pass a worker tells the scheduler of a seed another worker added, whose coverage file may not be there yet. | CoverageOwned is stated for the normal corpus only: the code does not order these two, and a seed weighed without its file gets the base weight. |
| `uniafl/src/msa/state.rs:303` | A log is entered in the crash observer before solutions.add; when the same bytes were stored for another log, this one counts as seen and is never submitted. | Needs a target whose crash log varies between runs of the same input; PovLog is a function here. |
| `uniafl/src/msa/state.rs:267` | The continue in the dummy loop skips idx += 1, so later dummies would be stored with the bytes of an earlier one. | uniafl has exactly one dummy seed, so no state of the program shows it. |
| `uniafl/src/msa/stage/stage.rs:96` | is_first_run is read again, under a lock of its own, after the run it is about; it must still mean this run. | `RunsTold` |
| `uniafl/src/msa/stage/load.rs:100` | More files than a batch has slots: the rest has to be offered again, whoever claims part of it meanwhile. | `NothingLost` |
| `uniafl/src/msa/stage/mlla.rs:446` | get_bcda_result hands out one report per look: when the agents announce several just before they end for the last time, all but one stay unread. | The code behaves so: NothingLost says only that such a report still lies there, announced. |
| `uniafl/src/msa/stage/mlla.rs:475` | The report is removed after it was loaded although the agents append to the same file: what they appended in between goes with it, and a file with two appended reports is no single JSON document. | Reports are whole files here; contents appended to a file need a module of their own. |
| `bin/run_mlla_gen.py:41` | A slot is allocated before it is filled: a script ended by its timeout in between leaves a counted slot with size 0 and seed id 0. | Planned module ScriptRun. |
| `uniafl/src/input_gen/dict/dictgen.rs:264` | A running flag lets one worker at a time start dictgen; a panic in between is caught further up and leaves the flag set, after which dictgen never runs again. | Planned module DictGen. |
| `bin/seed_share.py:59` | A seed is entered in stored before it is copied, and the copy's failure is not looked at: a failed copy is never tried again. | Planned module SeedSharing. |
| `mlla/agents/mcga.py:1500` | A checker polls Redis while its own tasks are still bringing the callees' nodes in: another agent's done is enough to record the caller done with half a tree. | The code orders only the flags, which DoneHasDoneCallees covers; that the stored tree may lack a callee's analysis is what it does (Recorded, ChildrenDone), so no property states the tree complete. |
| `mlla/agents/mcga.py:487` | handle_cache reads the key again after preprocess; when it became done in between, the older node is what finalize records done over the newer one. | Taken by HandleCache and Finalize; as with half a tree, the code does not order it. |
| `mlla/agents/mcga.py:674` | The node has to be in Redis before the candidate is put, because the call graphs that are put are read back from there. | `NewSinkSubmitted` |
| `mlla/agents/mcga.py:1802` | A node that is there is replaced only by a done one: the record of a second agent, whose report may differ, does nothing. | `NewSinkSubmitted` speaks of the agent that was first; what the second one found is lost in this run, as the code has no protection. |
| `uniafl/src/msa/stage/mlla.rs:583` | The last collection comes after set_interval, so that another worker's agents may already run and both collect from one output directory with no lock. | `NothingLost` |
| `bin/symbolizer/harness_coverage_runner.py:404` | The handler asks self.bin_symbolizer where no self is defined: the fallback never runs, DONE says the coverage is there, and the process ends with the next end of the with block. | `SaveReturns` |
| `mlla/agents/mcga.py:429` | The loop cache is keyed by name, file and body of the function; when the same function resolves to another body the second time, the recursion is not cut and only the depth and execution limits end it. | Which body a name resolves to is the language server's and the index's answer; a function is one element here and always resolves to itself. |
| `mlla/utils/context.py:408` | init() is an asynccontextmanager that yields without try: when the body raises, the tracer task and the servers are not cleaned up. | The servers are not in a module. |
| `mlla/codeindexer/codeindexer.py:145` | owned() or release() raises in the handler: the watchdog is not stopped and keeps the lock for as long as the process lives. | `LockFreed`. LockFreed says it of processes that have ended; one that lives on and keeps the lock is what the code does. |
| `mlla/codeindexer/codeindexer.py:163` | The cleanup deletes the done flag last: when an index is built again with overwrite, readers see a done flag over an index that is being deleted. | `IndexSound`. IndexSound excepts overwriting: the code does not order these two. Only the tests ask for overwriting. |
| `mlla/codeindexer/codeindexer.py:236` | Redis executes the set of the done flag but its answer is lost: the handler cleans up, and between, readers see a done index being deleted. | IndexSound excepts Redis errors: a cleanup that fails as well leaves the flag over an empty index, and the code has no protection. |
| `mlla/agents/blobgen_agent/nodes/collect_coverage.py:111` | When the run of a payload raises, the result of the earlier attempt stays in the state and is analysed as if it were of the new payload. | Taken by CoverageFails (ran differs from code); it is what the code does. |
| `mlla/agents/blobgen_agent/graph.py:36` | When no sanitizer was selected, a static and a conditional edge both lead on: finalize and generate_payload are executed in the same superstep. | SelectSanitizer says what comes of it: the payload is generated all the same. |
| `mlla/agents/generator_agent/nodes/collect_coverage.py:260` | store_artifact raises before the crash is entered in crashed_blobs (line 276): a crash that was seen is not in what the agent returns. | found holds crashes that were entered; one lost before is what the code does. |
| `mlla/agents/blobgen_agent/nodes/collect_coverage.py:58` | Agents of different contexts update the coverage marks of one shared call graph in place. | Marks are not in BlobAgents, where agents share nothing but the slots. |
| `mlla/agents/orchestrator_agent/modules/call_blobgen_agent.py:118` | Results are merged by the hash of the payload: a context that got the same bytes without a crash overwrites the crash of another. | Payloads are attempts here and never equal; the merge is planned with the contents of payloads. |
| `mlla/agents/orchestrator_agent/modules/call_blobgen_agent.py:68` | max_concurrent is taken as an argument and not used: the semaphore is of 5. | Slots is that semaphore. |
| `bin/main.py:285` | When uniafl ends, _async_run goes on to await the watchdog and the seed sharing, which loop for ever: the run of a harness never returns, nor does what line 967 says is done after it. | A straight line of awaits over commands that never end: nothing to explore. |
| `libs/libCRS/libCRS/crs.py:157` | A PoV is entered in submitted before the command that submits it runs; when that fails or is ended after its 60 seconds, the PoV is never submitted again. | libCRS is not in a module. |
| `bin/seed_share.py:86` | Seeds are copied into the directory uniafl loads from by a plain cp: the loading stage may take a file that is half written. | LoadStage is modelled over directories whose files are whole. |
| `diff:466` | A restarted executor that resumes RUN_FUZZER_WITH_SEED reads the seed from the first slot, which alloc_executed_input may have overwritten. | Input bytes are not in WorkerExec; planned with the contents of slot 0. |
| `mlla/agents/bugcandidate_agent/path_extractor.py:48` | The set of paths in progress is one key for all harnesses: the start of one harness's process deletes what the others have in progress. | Rerun models it; with one harness, as checked, it takes nothing from another. With two, OncePerRun does not hold, and the code has no protection. |
| `mlla/agents/mcga.py:359` | The execution count is shared by all agents of a run; one agent too many escapes the budget of model calls, and one refused must not count as done. | `GraphTypes`, `DoneHasDoneCallees` |
| `mlla/agents/bugcandidate_agent/path_extractor.py:160` | deepcopy or create_task raises outside of any handler: the consumer dies with its item, task_done is never called, and candidate_queue.join() waits for ever. | `MainEnds`. MainEnds excepts this way out by name, as the code has no protection. |
| `mlla/codeindexer/codeindexer.py:236` | The done flag is set although files failed to parse: a function of such a file is not found, ever, while the index counts as done. | `IndexSound` |
| `FuzzerShm.cpp:50` | Killed between clearing in_loop and posting the end token, or between taking the start token and setting in_loop, the process takes the only token with it and the client waits for ever. | The code has no protection: LetGoReturns is checked with kills outside these two windows, which MCWorkerExec names. |
| `fuzzdb/src/db.rs:260` | Arc::get_mut on a clone of a shared Arc returns None, so a bug candidate is reported as deprioritized and left as it was. | Planned module BugCandidates; candidates are not in a module yet. |
| `libs/libCRS/libCRS/submit.py:132` | Whether a crash was submitted is asked and entered in two steps around a call to the VAPI, by processes that share the database: two finders of one crash both submit it. | One harness's workers are kept apart by the crash observer (ClaimedOnce); the database is not in a module. |
| `uniafl/src/input_gen/manager.rs:176` | One worker's hanging command ends the whole process, with the commands of every other worker open. | The run has one worker; with two, OwnAnswer is proved, and that every run_cmd returns is not checked. |
| `uniafl/src/input_gen/testlang/service/reverser.rs:280` | pull_deprioritized_testlangs opens corpus_map_path, a JSON object that never parses as a list of ids; the file the reverser writes its deprioritized testlangs to (reverser.py:1074) is read by nobody. | No state comes of it, so there is nothing to explore; ids stay weighted alike. |
| `reverser/harness-reverser/agents/reverser.py:973` | The lock is held across await asyncio.sleep(3): uniafl, whose progress the wait is for, gets the lock only between two looks. | ReverserSync takes this step (Look, Slept); that the worker gets the lock at last needs a fair lock, which neither side promises. |
| `uniafl/src/input_gen/testlang/service/reverser.rs:98` | run_on_side fails after evaluate_rerun has swapped the time for i64::MAX: there is no further rerun. | RunOnSideFails takes this step; it is what the code does. |
| `reverser/harness-reverser/agents/reverser.py:985` | Outputs that are refused, broken off or left by a process that died shift the ids: the coverage may be given although the latest testlang was not used, and diffs name other testlangs. | The exception slip of GuessesAgree. |

## 6. Plan

1. Proofs: the refinements of item 7, and the safety part of the other liveness
   properties: that no state in which somebody waits is one nobody will end (a
   token, a process or a timer is there).
2. `BugCandidates`: `load_bcda_result`, `notify_cpv_found`, rebalancing, with the
   weights of the scheduler against the candidates they were computed from.
3. `ScriptRun`: the script processes of `MllaStage` that fill a worker's block,
   the slots they leave half filled, and the choice of a script.
4. `SeedSharing`: `SeedShareStage` and `bin/seed_share.py`, which fills the
   directory while it is listed, over the same `StageCounter`; with it the
   submissions of libCRS.
5. `JvmExec`: the channel with `is_fuzzing_end` and `keep_going`, refining the
   same `BatchSpec`.
6. `DictGen`: the single-flight run of dictgen and its token files.
7. An abstract specification of `run_cmd` (a command is answered once, or empty)
   and its refinement by `InputGenRpc`; a composition of `InputGenRpc` and
   `WorkerExec` over one block; `RunCmdReturns` for two workers, for which the
   chain of commands has to be abstracted first.
8. Liveness of `ReverserSync` under a fair file lock, and of the agents of
   `MakeCallGraph` with models that answer.
