----------------------------- MODULE WorkerExec -----------------------------
(***************************************************************************)
(* One uniafl worker thread (the client) and the patched libFuzzer process *)
(* (the executor) that runs its inputs.  They share a block of Cap input   *)
(* slots with a control record, struct Worker, and two POSIX semaphores:   *)
(* the client fills the block, posts "start" and waits for "end"           *)
(* (ExecRunner::let_go).                                                   *)
(*                                                                         *)
(* The executor dies whenever the target crashes, and a shell loop starts  *)
(* it again.  Control record and semaphores outlive it, so what a restarted*)
(* executor does is decided by in_loop and by the indices it finds there.  *)
(*                                                                         *)
(* Slot indices are relative to start_input_idx of the worker's block.     *)
(* Input bytes, coverage and crash logs are abstracted to one outcome for  *)
(* each run of the target.                                                 *)
(***************************************************************************)
EXTENDS Integers, FiniteSets

CONSTANTS
  Cap,          \* slots of the block: end_input_idx - start_input_idx
  MaxIter,      \* largest iteration count a stage asks the fuzzer for
  MutateDepth,  \* executions of one MutateAndTestOne at most
  FailKinds,    \* how a run fails: CRASH, TIMEOUT, OOM
  KillAt,       \* executor locations at which it may be killed from outside
  MaxLost       \* bound on executor deaths that end no batch and keep no result

Modes    == {"RUN_FUZZER", "RUN_FUZZER_WITH_SEED", "EXECUTE_INPUT"}
Locs     == {"boot", "wait", "entering", "dispatch", "given", "iter", "mutate",
             "target", "leakcheck", "share", "store", "exitshm", "leave",
             "post", "dying", "dead"}
Plain    == {"WAIT", "NORMAL", "INTERESTING"}    \* results that are no failure

ASSUME ConstAssumption ==
  /\ Cap \in Nat \ {0} /\ MaxIter \in Nat \ {0} /\ MutateDepth \in Nat \ {0}
  /\ MaxLost \in Nat
  /\ FailKinds \cap (Plain \cup {"none", "begun", "quiet"}) = {}
  /\ KillAt \subseteq Locs \ {"dead"}

VARIABLES
  \* struct Worker and InputMetadata.result, in shared memory
  mode, inLoop, allocIdx, execIdx, iterCnt, result,
  \* the two semaphores of the worker
  startSem, endSem,
  \* the executor: location and process-local data, lost when it dies
  epc, passWait, cur, limit, depth, slot, outcome,
  \* the client thread
  cpc,
  \* history: what really happened to each slot in this batch; deaths so far
  verdict, lost

shm    == <<mode, inLoop, allocIdx, execIdx, iterCnt, result>>
sems   == <<startSem, endSem>>
locals == <<cur, limit, depth, slot, outcome>>
vars   == <<shm, sems, epc, passWait, locals, cpc, verdict, lost>>

Slots == 0 .. Cap - 1

\* Outcomes of a run, and what the history can say of a slot.
Outcomes == FailKinds \cup {"NORMAL"}
Verdicts == Outcomes \cup {"none", "begun", "quiet"}

TypeOK ==
  /\ mode \in Modes /\ inLoop \in BOOLEAN
  /\ allocIdx \in 0 .. Cap /\ execIdx \in 0 .. Cap /\ iterCnt \in 0 .. MaxIter
  /\ result \in [Slots -> Plain \cup FailKinds]
  /\ startSem \in Nat /\ endSem \in Nat
  /\ epc \in Locs /\ passWait \in BOOLEAN
  /\ cur \in 0 .. Cap /\ limit \in 0 .. Cap /\ depth \in 0 .. MutateDepth
  /\ slot \in Slots /\ outcome \in Outcomes
  /\ cpc \in {"idle", "prep", "posted", "collect"}
  /\ verdict \in [Slots -> Verdicts] /\ lost \in 0 .. MaxLost

LocalsReset == cur' = 0 /\ limit' = 0 /\ depth' = 0 /\ slot' = 0 /\ outcome' = "NORMAL"

\* init_cb creates zeroed shared memory (mode 0 is RUN_FUZZER), both
\* semaphores at 0; the executor process has just been spawned.
Init ==
  /\ mode = "RUN_FUZZER" /\ inLoop = FALSE
  /\ allocIdx = 0 /\ execIdx = 0 /\ iterCnt = 0
  /\ result = [i \in Slots |-> "WAIT"]
  /\ startSem = 0 /\ endSem = 0
  /\ epc = "boot" /\ passWait = FALSE
  /\ cur = 0 /\ limit = 0 /\ depth = 0 /\ slot = 0 /\ outcome = "NORMAL"
  /\ cpc = "idle"
  /\ verdict = [i \in Slots |-> "none"] /\ lost = 0

-----------------------------------------------------------------------------
(* The client: a stage of the worker thread. *)

ClientFrame == UNCHANGED <<epc, passWait, locals, lost>>

\* set_mode: every batch starts here, and may start again before it is sent
\* (the stage found no seed, or the input generator had nothing).
SetMode(m) ==
  /\ cpc \in {"idle", "prep"}
  /\ mode' = m /\ iterCnt' = 0 /\ inLoop' = FALSE
  /\ allocIdx' = 0 /\ execIdx' = 0
  /\ cpc' = "prep"
  /\ verdict' = [i \in Slots |-> "none"]
  /\ UNCHANGED <<result, sems>> /\ ClientFrame

\* alloc_input without the comparison with end_input_idx
AllocInput_NoLimit ==
  /\ cpc = "prep" /\ mode = "EXECUTE_INPUT"
  /\ allocIdx' = allocIdx + 1
  /\ UNCHANGED <<mode, inLoop, execIdx, iterCnt, result, sems, cpc, verdict>> /\ ClientFrame

\* alloc_input that leaves the old metadata in the slot
AllocInput_NoMemset ==
  /\ cpc = "prep" /\ mode = "EXECUTE_INPUT"
  /\ allocIdx < Cap
  /\ allocIdx' = allocIdx + 1
  /\ UNCHANGED <<mode, inLoop, execIdx, iterCnt, result, sems, cpc, verdict>> /\ ClientFrame

\* alloc_input: the metadata of the slot is zeroed, so its result is WAIT.
AllocInput ==
  /\ cpc = "prep" /\ mode = "EXECUTE_INPUT"
  /\ allocIdx < Cap
  /\ result' = [result EXCEPT ![allocIdx] = "WAIT"]
  /\ allocIdx' = allocIdx + 1
  /\ UNCHANGED <<mode, inLoop, execIdx, iterCnt, sems, cpc, verdict>> /\ ClientFrame

SetIterCnt(n) ==
  /\ cpc = "prep" /\ mode = "RUN_FUZZER"
  /\ iterCnt' = n
  /\ UNCHANGED <<mode, inLoop, allocIdx, execIdx, result, sems, cpc, verdict>> /\ ClientFrame

\* GivenFuzzerStage asks for iterations.  A batch of given inputs may be empty:
\* MllaStage runs whatever its script left in the block.
Loaded == mode = "RUN_FUZZER" => iterCnt > 0

\* let_go, first half: post_start
PostStart ==
  /\ cpc = "prep" /\ Loaded
  /\ startSem' = startSem + 1
  /\ cpc' = "posted"
  /\ UNCHANGED <<shm, endSem, verdict>> /\ ClientFrame

\* let_go, second half: wait_end
WaitEnd ==
  /\ cpc = "posted" /\ endSem > 0
  /\ endSem' = endSem - 1
  /\ cpc' = "collect"
  /\ UNCHANGED <<shm, startSem, verdict>> /\ ClientFrame

Executed == {i \in Slots : i < execIdx}
OkInputs == {i \in Executed : result[i] \in Plain}

\* process_results: every slot up to execute_input_idx is read; the inputs
\* that reached the corpus are marked in place (set_is_interesting).
ProcessResults ==
  /\ cpc = "collect"
  /\ \E kept \in SUBSET OkInputs :
       result' = [i \in Slots |-> IF i \in kept THEN "INTERESTING" ELSE result[i]]
  /\ cpc' = "idle"
  /\ UNCHANGED <<mode, inLoop, allocIdx, execIdx, iterCnt, sems, verdict>> /\ ClientFrame

Client ==
  \/ \E m \in Modes : SetMode(m)
  \/ AllocInput
  \/ \E n \in 1 .. MaxIter : SetIterCnt(n)
  \/ PostStart
  \/ WaitEnd
  \/ ProcessResults

-----------------------------------------------------------------------------
(* The executor process: Fuzzer::Loop of the patched libFuzzer. *)

ExecFrame == UNCHANGED <<cpc, lost>>

\* InitShm: the process attaches to the block; nothing there is touched.
Boot ==
  /\ epc = "boot" /\ epc' = "wait"
  /\ UNCHANGED <<shm, sems, passWait, locals, verdict>> /\ ExecFrame

\* WaitShm, not in a loop: take a start token ...
WaitStart ==
  /\ epc = "wait" /\ ~inLoop /\ startSem > 0
  /\ startSem' = startSem - 1
  /\ epc' = "entering"
  /\ UNCHANGED <<shm, endSem, passWait, locals, verdict>> /\ ExecFrame

\* ... and remember that in shared memory.
EnterLoop ==
  /\ epc = "entering"
  /\ inLoop' = TRUE
  /\ epc' = "dispatch"
  /\ UNCHANGED <<mode, allocIdx, execIdx, iterCnt, result, sems, passWait, locals, verdict>>
  /\ ExecFrame

\* WaitShm that always waits for a start token
ResumeLoop_Never ==
  /\ FALSE
  /\ UNCHANGED vars

\* WaitShm, in a loop: the predecessor died in the middle of a batch, so the
\* new process goes on with it without a token.
ResumeLoop ==
  /\ epc = "wait" /\ inLoop
  /\ epc' = "dispatch"
  /\ UNCHANGED <<shm, sems, passWait, locals, verdict>> /\ ExecFrame

\* RunGivenInputs that starts over from the first slot
FirstGiven_Zero == 0

\* RunGivenInputs: where the batch is taken up.
FirstGiven == execIdx

\* The switch on get_mode(): RunGivenInputs reads both indices once;
\* RunWithSeed runs the seed first unless the fuzzer's own corpus has it.
Dispatch ==
  /\ epc = "dispatch"
  /\ passWait' = TRUE
  /\ \/ /\ mode = "EXECUTE_INPUT"
        /\ limit' = allocIdx /\ cur' = FirstGiven
        /\ epc' = "given" /\ UNCHANGED depth
     \/ /\ mode = "RUN_FUZZER"
        /\ epc' = "iter" /\ UNCHANGED <<limit, cur, depth>>
     \/ /\ mode = "RUN_FUZZER_WITH_SEED"
        /\ depth' = 0
        /\ epc' \in {"target", "mutate"} /\ UNCHANGED <<limit, cur>>
  /\ UNCHANGED <<shm, sems, slot, outcome, verdict>> /\ ExecFrame

\* The index in shared memory is advanced before the input is run.
NextGiven ==
  /\ epc = "given" /\ cur < limit
  /\ cur' = cur + 1 /\ execIdx' = cur + 1
  /\ verdict' = [verdict EXCEPT ![cur] = "begun"]
  /\ epc' = "target"
  /\ UNCHANGED <<mode, inLoop, allocIdx, iterCnt, result, sems, passWait, limit, depth,
                 slot, outcome>>
  /\ ExecFrame

GivenDone ==
  /\ epc = "given" /\ ~(cur < limit)
  /\ epc' = "leave"
  /\ UNCHANGED <<shm, sems, passWait, locals, verdict>> /\ ExecFrame

\* consume_iter_cnt
ConsumeIter ==
  /\ epc = "iter"
  /\ IF iterCnt > 0
     THEN iterCnt' = iterCnt - 1 /\ epc' = "mutate"
     ELSE UNCHANGED iterCnt /\ epc' = "leave"
  /\ depth' = 0
  /\ UNCHANGED <<mode, inLoop, allocIdx, execIdx, result, sems, passWait, cur, limit, slot,
                 outcome, verdict>>
  /\ ExecFrame

\* MutateAndTestOne: at least one and at most MutateDepth runs.
MutateRun ==
  /\ epc = "mutate" /\ depth < MutateDepth
  /\ depth' = depth + 1 /\ epc' = "target"
  /\ UNCHANGED <<shm, sems, passWait, cur, limit, slot, outcome, verdict>> /\ ExecFrame

MutateDone ==
  /\ epc = "mutate" /\ depth > 0
  /\ epc' = IF mode = "RUN_FUZZER" THEN "iter" ELSE "leave"
  /\ UNCHANGED <<shm, sems, passWait, locals, verdict>> /\ ExecFrame

\* Where the executor goes on after a run that did not kill it.
Resume == IF mode = "EXECUTE_INPUT" THEN "given" ELSE "mutate"

\* What the run of the input just taken up really did.
SetVerdict(v) ==
  verdict' = IF mode = "EXECUTE_INPUT" THEN [verdict EXCEPT ![execIdx - 1] = v] ELSE verdict

\* Bound: a run fails only if its failure can be recorded, or MaxLost allows
\* one more that is not.
FailHere == IF mode = "EXECUTE_INPUT" \/ execIdx < Cap \/ lost < MaxLost
            THEN FailKinds ELSE {}

\* RunOne: nothing new, new features, or a death callback.
RunTarget ==
  /\ epc = "target"
  /\ \/ SetVerdict("quiet") /\ epc' = "leakcheck" /\ UNCHANGED outcome
     \/ \E o \in FailHere \cup {"NORMAL"} :
          SetVerdict(o) /\ outcome' = o /\ epc' = "share"
  /\ UNCHANGED <<shm, sems, passWait, cur, limit, depth, slot>> /\ ExecFrame

\* TryDetectingAMemoryLeak after the run
LeakCheck ==
  /\ epc = "leakcheck"
  /\ \/ epc' = Resume /\ UNCHANGED <<outcome, verdict>>
     \/ \E o \in FailHere : SetVerdict(o) /\ outcome' = o /\ epc' = "share"
  /\ UNCHANGED <<shm, sems, passWait, cur, limit, depth, slot>> /\ ExecFrame

\* The run could not be recorded: a passing input is forgotten, but a crash
\* ends the process outside of any batch end.
ShareFails ==
  /\ UNCHANGED <<execIdx, slot, verdict>>
  /\ \/ outcome = "NORMAL" /\ epc' = "leakcheck" /\ UNCHANGED lost
     \/ outcome \in FailKinds /\ lost < MaxLost /\ lost' = lost + 1 /\ epc' = "dying"

\* ShareCorpus: find the slot of the run.  EXECUTE_INPUT has it already; the
\* fuzzer modes append one (alloc_executed_input), which fails when the block
\* is full or the input is longer than max_input_size.
ShareCorpus ==
  /\ epc = "share"
  /\ \/ /\ mode = "EXECUTE_INPUT"
        /\ slot' = execIdx - 1 /\ epc' = "store"
        /\ UNCHANGED <<execIdx, verdict, lost>>
     \/ /\ mode # "EXECUTE_INPUT" /\ execIdx < Cap
        /\ slot' = execIdx /\ execIdx' = execIdx + 1
        /\ verdict' = [verdict EXCEPT ![execIdx] = outcome]
        /\ epc' = "store" /\ UNCHANGED lost
     \/ mode # "EXECUTE_INPUT" /\ ShareFails
  /\ UNCHANGED <<mode, inLoop, allocIdx, iterCnt, result, sems, passWait, cur, limit, depth,
                 outcome, cpc>>

\* AddResult: coverage, result and crash log of the slot.
StoreResult ==
  /\ epc = "store"
  /\ result' = [result EXCEPT ![slot] = outcome]
  /\ epc' = IF outcome = "NORMAL" THEN "leakcheck" ELSE "exitshm"
  /\ UNCHANGED <<mode, inLoop, allocIdx, execIdx, iterCnt, sems, passWait, locals, verdict>>
  /\ ExecFrame

\* ExitShm that ends the batch in every mode
ExitShm_AlwaysEnds ==
  /\ epc = "exitshm"
  /\ epc' = "leave"
  /\ UNCHANGED <<shm, sems, passWait, locals, verdict>> /\ ExecFrame

\* ExitShm, called from AddResult after a failure: while inputs were given,
\* in_loop stays set and nothing is posted; otherwise the batch ends here.
ExitShm ==
  /\ epc = "exitshm"
  /\ IF mode = "EXECUTE_INPUT" THEN passWait' = FALSE /\ epc' = "dying"
                               ELSE UNCHANGED passWait /\ epc' = "leave"
  /\ UNCHANGED <<shm, sems, locals, verdict>> /\ ExecFrame

\* EndShm(false), first half
LeaveLoop ==
  /\ epc = "leave"
  /\ inLoop' = FALSE
  /\ epc' = "post"
  /\ UNCHANGED <<mode, allocIdx, execIdx, iterCnt, result, sems, passWait, locals, verdict>>
  /\ ExecFrame

\* EndShm that forgets to clear pass_wait
PostEnd_KeepsPassWait ==
  /\ epc = "post"
  /\ endSem' = endSem + 1
  /\ epc' = IF outcome \in FailKinds THEN "dying" ELSE "wait"
  /\ UNCHANGED <<shm, startSem, passWait, locals, verdict>> /\ ExecFrame

\* EndShm(false), second half: the block is given back.  A failing process
\* is still alive here and dies later, while the client already goes on.
PostEnd ==
  /\ epc = "post"
  /\ endSem' = endSem + 1
  /\ passWait' = FALSE
  /\ epc' = IF outcome \in FailKinds THEN "dying" ELSE "wait"
  /\ UNCHANGED <<shm, startSem, locals, verdict>> /\ ExecFrame

\* A dying process may run a second death callback (sanitizer report, then
\* SIGABRT), whose ShareCorpus does nothing once pass_wait is cleared.
Die ==
  /\ epc = "dying"
  /\ \/ passWait /\ lost < MaxLost /\ epc' = "share" /\ UNCHANGED <<passWait, locals>>
     \/ epc' = "dead" /\ passWait' = FALSE /\ LocalsReset
  /\ UNCHANGED <<shm, sems, verdict>> /\ ExecFrame

\* while true; do run_fuzzer ...; done
Restart ==
  /\ epc = "dead" /\ epc' = "boot"
  /\ UNCHANGED <<shm, sems, passWait, locals, verdict>> /\ ExecFrame

\* The process is killed without any callback: the kernel's OOM killer, an
\* _exit in the target, a fault inside the callbacks.
Kill ==
  /\ epc \in KillAt /\ lost < MaxLost
  /\ lost' = lost + 1
  /\ epc' = "dead" /\ passWait' = FALSE /\ LocalsReset
  /\ UNCHANGED <<shm, sems, cpc, verdict>>

Executor ==
  \/ Boot \/ WaitStart \/ EnterLoop \/ ResumeLoop \/ Dispatch
  \/ NextGiven \/ GivenDone \/ ConsumeIter \/ MutateRun \/ MutateDone
  \/ RunTarget \/ LeakCheck \/ ShareCorpus \/ StoreResult
  \/ ExitShm \/ LeaveLoop \/ PostEnd \/ Die \/ Restart

Next == Client \/ Executor \/ Kill

Spec == Init /\ [][Next]_vars

\* The executor keeps running and being restarted by its shell loop, every
\* run of the target ends (libFuzzer's own timeout), and a client blocked in
\* sem_wait is woken.  Nothing forces a stage to start another batch.
Fairness == WF_vars(Executor) /\ WF_vars(WaitEnd)

FairSpec == Spec /\ Fairness

-----------------------------------------------------------------------------
(* Properties. *)

\* Where the executor works on a batch (in_loop set), and where it is on the
\* way into or out of one.
InBatch  == {"dispatch", "given", "iter", "mutate", "target", "leakcheck", "share", "store",
             "exitshm", "leave"}
Crossing == {"entering", "post"}

\* While the client fills the block or reads the results, no executor works on
\* the block, none is about to and none will resume a batch after a restart:
\* the block has one owner, whenever the executor crashed or was killed
\* (let_go, WaitShm, EndShm and the pass_wait flag).
ClientOwnsBlock ==
  cpc # "posted" => /\ startSem = 0 /\ endSem = 0 /\ ~inLoop
                    /\ epc \notin InBatch \cup Crossing

\* When a batch of given inputs comes back, every loaded input was taken up:
\* neither a crash nor a restart ends the batch early (ExitShm, RunGivenInputs).
BatchComplete ==
  cpc = "collect" /\ mode = "EXECUTE_INPUT" =>
    /\ execIdx = allocIdx
    /\ \A i \in Slots : i < allocIdx => verdict[i] # "none"

\* Every result the client reads is that of the run of this very slot in this
\* very batch: a failure is reported with its kind, nothing else is reported as
\* a failure, and a run cut short by a kill counts as no result
\* (alloc_input's memset, AddResult, get_result).
ResultsMatchRuns ==
  cpc = "collect" =>
    \A i \in Executed : /\ verdict[i] # "none"
                       /\ result[i] = IF verdict[i] \in Outcomes THEN verdict[i] ELSE "WAIT"

\* The channel implements BatchSpec: given inputs are run once each and in
\* order, whatever the executor's crashes and restarts, and the block comes
\* back only when all are done.
Batch == INSTANCE BatchSpec WITH
  phase   <- IF cpc = "posted" THEN "running" ELSE "own",
  given   <- mode = "EXECUTE_INPUT",
  pending <- IF mode = "EXECUTE_INPUT" THEN execIdx .. allocIdx - 1 ELSE {},
  done    <- 0 .. execIdx - 1

BatchRefined == Batch!Spec

\* let_go returns: a batch handed over is given back, although every input of
\* it may kill the executor (WaitShm's resumption through in_loop).
LetGoReturns == cpc = "posted" ~> cpc = "collect"
=============================================================================
