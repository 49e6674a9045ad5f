---------------------------- MODULE ReverserSync ----------------------------
(***************************************************************************)
(* The testlang input generator of uniafl and the harness reverser, which  *)
(* meet in files under one file lock (uniafl/src/input_gen/testlang/       *)
(* service, reverser/harness-reverser/agents/reverser.py).                 *)
(*                                                                         *)
(* The reverser is a process on a side thread of uniafl.  It writes        *)
(* testlangs and reads what became of them; uniafl's worker that holds the *)
(* thread's handle pulls the testlangs in, gives each the next id, and     *)
(* writes which ids were used and which gave seeds.  The reverser is not   *)
(* told the ids: it counts along, and names the diff of a testlang by the  *)
(* id it guesses.  The map of seeds to ids is kept as the set of used ids  *)
(* is; only the set is modelled, and any id may have given a seed.         *)
(*                                                                         *)
(* An output is the number of the write that made it.                      *)
(* That a lock, a directory or one of the two files cannot be opened by    *)
(* uniafl (it then goes on without) is left out.                           *)
(***************************************************************************)
EXTENDS Integers, Sequences, FiniteSets

CONSTANTS
  Workers,      \* the workers of the testlang input generator
  First,        \* worker 0, which gets the handle of the first run
  TestlangCores,\* testlang_cores: a rerun waits if there is more than one
  MaxTries,     \* times a failing process is started again (10 in the code)
  MaxTrials,    \* MAX_TRIALS
  MinTrials,    \* NO_WARNINGS_TRIALS: no run ends before
  MaxOutputs,   \* bound: testlangs written in all
  MaxReruns     \* bound: runs after the first

ASSUME ReverserAssumption ==
  /\ First \in Workers
  /\ TestlangCores \in Nat
  /\ {MaxTries, MaxTrials, MinTrials, MaxOutputs} \subseteq Nat \ {0}
  /\ MaxReruns \in Nat

VARIABLES
  \* uniafl
  pc, call, finished, genLast, \* of each worker
  handles,                     \* workers that hold a reverser_handle
  lastRerun,                   \* "max" or a "time"
  named,                       \* named[i + 1]: what testlang_{i}.out is
  used, updated,               \* used_testlangs, and used_testlangs_updated
  \* files
  outputs, usedFile, diffs,
  \* the reverser
  rpc, try, waits, known, trials, valid,
  \* history
  written, reruns, slip

workerVars == <<pc, call, finished, genLast>>
poolVars == <<handles, lastRerun, reruns>>
usedVars == <<used, updated, usedFile>>
thread == <<try, waits>>
graph == <<known, trials, valid>>
texts == <<outputs, diffs, written, slip>>
vars == <<workerVars, poolVars, named, usedVars, texts, rpc, thread, graph>>

NoId == -1
Ids == 0 .. MaxOutputs - 1
Count == Len(named)

UnderLock == {"pull", "write"}
LockFree == rpc # "held" /\ \A w \in Workers : pc[w] \notin UnderLock

Running == {"boot", "look", "held", "coverage", "llm", "check", "update"}

Init ==
  /\ pc = [w \in Workers |-> IF w = First THEN "poll" ELSE "off"]
  /\ call = [w \in Workers |-> "new"]
  /\ finished = [w \in Workers |-> FALSE]
  /\ genLast = [w \in Workers |-> NoId]
  /\ handles = {First} /\ lastRerun = "max" /\ reruns = 0
  /\ named = <<>>
  /\ used = {} /\ usedFile = {} /\ updated = FALSE
  /\ outputs = {} /\ diffs = [i \in Ids |-> 0] /\ written = 0 /\ slip = FALSE
  /\ rpc = "boot" /\ try = 1 /\ waits = FALSE
  /\ known = 0 /\ trials = 0 /\ valid = FALSE

Goto(w, l) == pc' = [pc EXCEPT ![w] = l]

\* A call returns, and with it go its local variables.
Return(w) ==
  /\ Goto(w, "idle")
  /\ call' = [call EXCEPT ![w] = "none"]
  /\ finished' = [finished EXCEPT ![w] = FALSE]

\* A process ends, and with it goes the state of its graph.
Forget == known' = 0 /\ trials' = 0 /\ valid' = FALSE

-----------------------------------------------------------------------------
(* Workers of uniafl *)

\* The rest of a call: generate() has work to do, mutate() changes nothing here.
Proceed(w, c) ==
  IF c = "generate" THEN pc' = [pc EXCEPT ![w] = "work"] /\ call' = [call EXCEPT ![w] = c]
                    ELSE pc' = [pc EXCEPT ![w] = "idle"] /\ call' = [call EXCEPT ![w] = "none"]

\* Mutant: the time is read, not swapped.
EvaluateRerun_Reads(w, c) ==
  /\ UNCHANGED lastRerun
  /\ \/ lastRerun = "max" /\ Proceed(w, c)
     \/ lastRerun = "time" /\ Goto(w, "critical") /\ call' = [call EXCEPT ![w] = c]

\* evaluate_rerun(): the time is swapped for i64::MAX; who gets the time may decide.
EvaluateRerun(w, c) ==
  /\ lastRerun' = "max"
  /\ \/ lastRerun = "max" /\ Proceed(w, c)
     \/ lastRerun = "time" /\ Goto(w, "critical") /\ call' = [call EXCEPT ![w] = c]

\* check_reverser_run() begins: has the worker got a handle?
CheckReverser(w, c) ==
  \/ /\ w \in handles
     /\ Goto(w, "poll") /\ call' = [call EXCEPT ![w] = c]
     /\ UNCHANGED lastRerun
  \/ w \notin handles /\ EvaluateRerun(w, c)

Generate(w) ==
  /\ pc[w] = "idle"
  /\ CheckReverser(w, "generate")
  /\ UNCHANGED <<finished, genLast, handles, reruns, named, usedVars, texts, rpc, thread, graph>>

\* Mutant: the flag is not set.
InsertUsed_NoMark(w) ==
  /\ pc[w] = "idle" /\ genLast[w] # NoId
  /\ genLast' = [genLast EXCEPT ![w] = NoId]
  /\ used' = used \cup {genLast[w]}
  /\ Goto(w, "check")
  /\ UNCHANGED <<call, finished, updated, usedFile, poolVars, named, texts, rpc, thread, graph>>

\* mutate(): the id of the last generate() is entered as used; the set first, its
\* flag after.
InsertUsed(w) ==
  /\ pc[w] = "idle" /\ genLast[w] # NoId
  /\ genLast' = [genLast EXCEPT ![w] = NoId]
  /\ used' = used \cup {genLast[w]}
  /\ Goto(w, IF genLast[w] \in used THEN "check" ELSE "mark")
  /\ UNCHANGED <<call, finished, updated, usedFile, poolVars, named, texts, rpc, thread, graph>>

MarkUsed(w) ==
  /\ pc[w] = "mark"
  /\ updated' = TRUE
  /\ Goto(w, "check")
  /\ UNCHANGED <<call, finished, genLast, used, usedFile, poolVars, named, texts, rpc, thread, graph>>

Mutate(w) ==
  /\ pc[w] = "check" \/ (pc[w] = "idle" /\ genLast[w] = NoId)
  /\ CheckReverser(w, "mutate")
  /\ UNCHANGED <<finished, genLast, handles, reruns, named, usedVars, texts, rpc, thread, graph>>

\* check_reverser_run(): is_finished is asked before the last sync.
Poll(w) ==
  /\ pc[w] = "poll"
  /\ finished' = [finished EXCEPT ![w] = rpc = "ended"]
  /\ Goto(w, "lock")
  /\ UNCHANGED <<call, genLast, poolVars, named, usedVars, texts, rpc, thread, graph>>

\* sync_with_reverser()
Lock(w) ==
  /\ pc[w] = "lock" /\ LockFree
  /\ Goto(w, "pull")
  /\ UNCHANGED <<call, finished, genLast, poolVars, named, usedVars, texts, rpc, thread, graph>>

\* pull_testlang(): outputs come in the order of the directory.
Pull(w) ==
  /\ pc[w] = "pull"
  /\ \E o \in outputs :
       /\ outputs' = outputs \ {o}
       /\ named' = Append(named, o)
  /\ UNCHANGED <<workerVars, poolVars, usedVars, diffs, written, slip, rpc, thread, graph>>

\* Its other end: the output does not parse, or cannot be renamed.
Refuse(w) ==
  /\ pc[w] = "pull"
  /\ \E o \in outputs : outputs' = outputs \ {o}
  /\ slip' = TRUE
  /\ UNCHANGED <<workerVars, poolVars, named, usedVars, diffs, written, rpc, thread, graph>>

\* push_used_testlangs(): the flag is taken, then the set is read.
TakeUpdate(w) ==
  /\ pc[w] = "pull" /\ outputs = {}
  /\ updated' = FALSE
  /\ Goto(w, IF updated THEN "write" ELSE "synced")
  /\ UNCHANGED <<call, finished, genLast, used, usedFile, poolVars, named, texts, rpc, thread, graph>>

WriteUsed(w) ==
  /\ pc[w] = "write"
  /\ usedFile' = used
  /\ Goto(w, "synced")
  /\ UNCHANGED <<call, finished, genLast, used, updated, poolVars, named, texts, rpc, thread, graph>>

\* TestLangPool::new(): the other workers begin when there is a testlang.
Open(w) ==
  /\ pc[w] = "synced" /\ call[w] = "new"
  /\ \/ /\ named # <<>>
        /\ pc' = [v \in Workers |-> "idle"]
        /\ call' = [v \in Workers |-> "none"]
        /\ finished' = [v \in Workers |-> FALSE]
     \/ /\ named = <<>>
        /\ Goto(w, IF finished[w] THEN "failed" ELSE "poll")
        /\ UNCHANGED <<call, finished>>
  /\ UNCHANGED <<genLast, poolVars, named, usedVars, texts, rpc, thread, graph>>

\* While the reverser runs, the worker with its handle makes nothing.
StillRuns(w) ==
  /\ pc[w] = "synced" /\ call[w] # "new" /\ ~finished[w]
  /\ Return(w)
  /\ UNCHANGED <<genLast, poolVars, named, usedVars, texts, rpc, thread, graph>>

\* Mutant: is_finished is asked after the sync.
RerunComplete_AsksNow(w) ==
  /\ pc[w] = "synced" /\ call[w] # "new" /\ rpc = "ended"
  /\ lastRerun' = "time"
  /\ handles' = handles \ {w}
  /\ finished' = [finished EXCEPT ![w] = FALSE]
  /\ Proceed(w, call[w])
  /\ UNCHANGED <<genLast, reruns, named, usedVars, texts, rpc, thread, graph>>

\* rerun_complete(), join(): then the time is swapped at once, unless the run failed.
RerunComplete(w) ==
  /\ pc[w] = "synced" /\ call[w] # "new" /\ finished[w]
  /\ lastRerun' = "time"
  /\ handles' = handles \ {w}
  /\ finished' = [finished EXCEPT ![w] = FALSE]
  /\ \/ Proceed(w, call[w])
     \/ Goto(w, "evaluate") /\ UNCHANGED call
  /\ UNCHANGED <<genLast, reruns, named, usedVars, texts, rpc, thread, graph>>

Evaluate(w) ==
  /\ pc[w] = "evaluate"
  /\ EvaluateRerun(w, call[w])
  /\ UNCHANGED <<finished, genLast, handles, reruns, named, usedVars, texts, rpc, thread, graph>>

\* Too early: the time is put back.
TooEarly(w) ==
  /\ pc[w] = "critical"
  /\ lastRerun' = "time"
  /\ Proceed(w, call[w])
  /\ UNCHANGED <<finished, genLast, handles, reruns, named, usedVars, texts, rpc, thread, graph>>

\* run_on_side(): the set is pushed, without the lock, and the process starts.
RunOnSide(w) ==
  /\ pc[w] = "critical" /\ reruns < MaxReruns
  /\ reruns' = reruns + 1
  /\ handles' = handles \cup {w}
  /\ usedFile' = IF updated THEN used ELSE usedFile
  /\ updated' = FALSE
  /\ rpc' = "boot" /\ try' = 1 /\ waits' = (TestlangCores > 1)
  /\ Return(w)
  /\ UNCHANGED <<genLast, lastRerun, named, used, texts, graph>>

\* It fails before the thread is there: the error ends the call, and the time stays
\* i64::MAX for ever.
RunOnSideFails(w) ==
  /\ pc[w] = "critical"
  /\ Return(w)
  /\ UNCHANGED <<genLast, poolVars, named, usedVars, texts, rpc, thread, graph>>

\* The rest of generate(), with pick_testlang_idx().
Unused == (0 .. Count - 1) \ used
\* Mutant: the range has one id too many.
Pick_OneMore == 0 .. Count

Pick == IF Unused = {} THEN 0 .. Count - 1
        ELSE {i \in Unused : \A j \in Unused : j <= i}

Work(w) ==
  /\ pc[w] = "work"
  /\ \/ \E i \in Pick : genLast' = [genLast EXCEPT ![w] = i]
     \/ UNCHANGED genLast    \* its testlang cannot be read again
  /\ Return(w)
  /\ UNCHANGED <<poolVars, named, usedVars, texts, rpc, thread, graph>>

WorkerStep(w) ==
  \/ Generate(w) \/ InsertUsed(w) \/ MarkUsed(w) \/ Mutate(w)
  \/ Poll(w) \/ Lock(w) \/ Pull(w) \/ Refuse(w)
  \/ TakeUpdate(w) \/ WriteUsed(w) \/ Open(w)
  \/ StillRuns(w) \/ RerunComplete(w) \/ Evaluate(w) \/ TooEarly(w)
  \/ RunOnSide(w) \/ RunOnSideFails(w) \/ Work(w)

-----------------------------------------------------------------------------
(* The reverser *)

Uniafl == <<workerVars, poolVars, named, usedVars>>

\* build_context_msgs(): without a testlang there is nothing to wait for.
BuildContext(k) == rpc' = IF k = 0 THEN "llm" ELSE "look"

\* Mutant: the testlangs of earlier runs are not counted.
PreparePrompt_Zero ==
  /\ rpc = "boot"
  /\ known' = 0
  /\ slip' = (slip \/ (try > 1 /\ outputs # {}))
  /\ BuildContext(0)
  /\ UNCHANGED <<Uniafl, outputs, diffs, written, thread, trials, valid>>

\* prepare_prompt(): testlangs that uniafl has named are counted; only those.
PreparePrompt ==
  /\ rpc = "boot"
  /\ known' = Count
  /\ slip' = (slip \/ (try > 1 /\ outputs # {}))
  /\ BuildContext(Count)
  /\ UNCHANGED <<Uniafl, outputs, diffs, written, thread, trials, valid>>

\* wait_for_used_testlangs(): a look at the file of used ids, under the lock; then
\* three seconds of sleep, with the lock still held.
Look ==
  /\ rpc = "look" /\ LockFree
  /\ rpc' = IF known - 1 \in usedFile THEN "coverage"
            ELSE IF waits THEN "held" ELSE "llm"
  /\ UNCHANGED <<Uniafl, texts, thread, graph>>

Slept ==
  /\ rpc = "held"
  /\ rpc' = "look"
  /\ UNCHANGED <<Uniafl, texts, thread, graph>>

\* used_testlangs_timeout: the wait is cancelled in its sleep.
WaitTimesOut ==
  /\ rpc = "held"
  /\ rpc' = "llm"
  /\ UNCHANGED <<Uniafl, texts, thread, graph>>

\* An exception: the model is asked again, with a context built anew, up to 20
\* times.  Then the trial is over, with the answer of the trial before; without
\* one, update_context() raises (ProcessFails).
AskAgain == BuildContext(known) /\ UNCHANGED trials

GiveUp ==
  /\ rpc \in {"coverage", "llm"} /\ 0 < trials /\ trials < MaxTrials
  /\ trials' = trials + 1
  /\ rpc' = "check"
  /\ UNCHANGED <<Uniafl, texts, thread, known, valid>>

\* Coverage is read, and for the ids whose seeds bring news their diffs: one may
\* be missing.
ReadCoverage ==
  /\ rpc = "coverage" /\ LockFree
  /\ \E news \in SUBSET (0 .. Count - 1) :
       \/ /\ \A i \in news : diffs[i] # 0
          /\ rpc' = "llm" /\ UNCHANGED trials
       \/ /\ \E i \in news : diffs[i] = 0
          /\ AskAgain
  /\ UNCHANGED <<Uniafl, texts, thread, known, valid>>

\* invoke_llm_with_context(): an answer, or an exception.
Answer ==
  /\ rpc = "llm" /\ trials < MaxTrials
  /\ trials' = trials + 1
  /\ rpc' = "check"
  /\ UNCHANGED <<Uniafl, texts, thread, known, valid>>

AskFails ==
  /\ rpc = "llm"
  /\ AskAgain
  /\ UNCHANGED <<Uniafl, texts, thread, known, valid>>

\* check_testlang(): testlang, codes and diff are written under the lock.
WriteTestlang ==
  /\ rpc = "check" /\ LockFree /\ written < MaxOutputs
  /\ written' = written + 1
  /\ outputs' = outputs \cup {written + 1}
  /\ diffs' = [diffs EXCEPT ![known] = written + 1]
  /\ known' = known + 1
  /\ valid' = TRUE
  /\ slip' = (slip \/ outputs # {})
  /\ rpc' = "update"
  /\ UNCHANGED <<Uniafl, thread, trials>>

\* The testlang is written, its codes or its diff are not: an error like any other.
WriteBreaksOff ==
  /\ rpc = "check" /\ LockFree /\ written < MaxOutputs
  /\ written' = written + 1
  /\ outputs' = outputs \cup {written + 1}
  /\ slip' = TRUE
  /\ rpc' = "update"
  /\ UNCHANGED <<Uniafl, diffs, thread, graph>>

NotAccepted ==
  /\ rpc = "check"
  /\ rpc' = "update"
  /\ UNCHANGED <<Uniafl, texts, thread, graph>>

\* update_context(), should_continue()
Continue ==
  /\ rpc = "update" /\ trials < MaxTrials
  /\ BuildContext(known)
  /\ UNCHANGED <<Uniafl, texts, thread, graph>>

\* The run is over, with a testlang; without one, main() raises (ProcessFails).
Finish ==
  /\ rpc = "update" /\ trials >= MinTrials /\ valid
  /\ rpc' = "ended"
  /\ Forget
  /\ UNCHANGED <<Uniafl, texts, thread>>

\* The process raises or dies anywhere, which frees the lock; run_on_side() starts
\* it again, or gives up.
ProcessFails ==
  /\ rpc \in Running
  /\ \/ try < MaxTries /\ try' = try + 1 /\ rpc' = "boot"
     \/ try = MaxTries /\ rpc' = "ended" /\ UNCHANGED try
  /\ Forget
  /\ UNCHANGED <<Uniafl, texts, waits>>

ReverserStep ==
  \/ PreparePrompt \/ Look \/ Slept \/ WaitTimesOut
  \/ ReadCoverage \/ Answer \/ AskFails \/ GiveUp
  \/ WriteTestlang \/ WriteBreaksOff \/ NotAccepted
  \/ Continue \/ Finish \/ ProcessFails

Next == (\E w \in Workers : WorkerStep(w)) \/ ReverserStep

Spec == Init /\ [][Next]_vars

-----------------------------------------------------------------------------
(* Properties *)

\* Every variable has its type; no id is given without a testlang.
TypeOK ==
  /\ pc \in [Workers -> {"off", "idle", "poll", "lock", "synced", "check", "evaluate", "critical",
                         "work", "failed", "mark"} \cup UnderLock]
  /\ call \in [Workers -> {"none", "new", "generate", "mutate"}]
  /\ finished \in [Workers -> BOOLEAN]
  /\ genLast \in [Workers -> {NoId} \cup 0 .. Count - 1]
  /\ handles \subseteq Workers
  /\ lastRerun \in {"max", "time"}
  /\ named \in Seq(1 .. written) /\ Count <= written
  /\ used \subseteq 0 .. Count - 1 /\ usedFile \subseteq used /\ updated \in BOOLEAN
  /\ outputs \subseteq 1 .. written
  /\ diffs \in [Ids -> 0 .. written]
  /\ written \in 0 .. MaxOutputs
  /\ rpc \in Running \cup {"ended"}
  /\ try \in 1 .. MaxTries /\ waits \in BOOLEAN
  /\ known \in 0 .. MaxOutputs /\ trials \in 0 .. MaxTrials /\ valid \in BOOLEAN
  /\ reruns \in 0 .. MaxReruns /\ slip \in BOOLEAN

\* Runs of the reverser do not meet: whoever may start one is alone, the last one
\* has ended, its handle is given back, and everything it wrote was pulled.
RerunsApart ==
  \A w \in Workers : pc[w] = "critical" =>
    /\ rpc = "ended" /\ handles = {} /\ outputs = {} /\ lastRerun = "max"
    /\ \A v \in Workers \ {w} : pc[v] # "critical"

\* No id is lost between the threads that use testlangs and the one that writes the
\* file: what the file does not show, the flag announces, or a worker is about to,
\* or it is being written.
FileFollows ==
  usedFile # used => updated \/ \E w \in Workers : pc[w] \in {"mark", "write"}

\* The ids the reverser guesses are those uniafl gives: its count is right and the
\* diff of an id is that of the testlang under this id, unless two outputs lay
\* there at once, a write broke off, an output was refused, or a process was
\* started again before its predecessor's output was pulled.
GuessesAgree ==
  ~slip =>
    /\ \A i \in 0 .. Count - 1 : diffs[i] = named[i + 1]
    /\ rpc \in Running \ {"boot"} => known = Count + Cardinality(outputs)

=============================================================================
