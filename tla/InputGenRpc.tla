----------------------------- MODULE InputGenRpc -----------------------------
(***************************************************************************)
(* The worker threads of uniafl and an input generator.  The generator is  *)
(* a process of its own (input_gen_runner) with one server thread for each *)
(* worker.  Worker and server thread share a record SharedData (status,    *)
(* cmd, result) and two semaphores; the blobs themselves go through the    *)
(* worker's block of input slots, which the server fills.                  *)
(*                                                                         *)
(* The process dies as a whole when one server thread hangs (timeout), or  *)
(* on its own.  It is not restarted: a second process run with --reset     *)
(* answers every command still open with Empty and leaves spare tokens for *)
(* the commands its workers have yet to send.                              *)
(*                                                                         *)
(* Blobs are numbered in the order the generator made them for one         *)
(* command.  Executing the loaded blobs is one step here; WorkerExec has   *)
(* its details and BatchSpec the contract.                                 *)
(***************************************************************************)
EXTENDS Integers, Sequences, FiniteSets

CONSTANTS
  NWorkers,       \* workers the generator serves
  Cap,            \* input slots of one worker
  MaxBlobs,       \* bound: blobs made for one Generate or Mutate
  ResetTokens,    \* end tokens posted for each worker by --reset (100)
  Seeds,          \* corpus ids the scheduler may pick
  NoSeed,         \* NO_SEED_ID
  NewId,          \* the corpus id of an input just added to the corpus
  HasGenerator, HasMutator, HasCb    \* what the InputGenPool implements

ASSUME RpcAssumption ==
  /\ NWorkers \in Nat \ {0} /\ Cap \in Nat \ {0}
  /\ MaxBlobs \in Nat /\ ResetTokens \in Nat \ {0}
  /\ NoSeed \notin Seeds /\ NewId \notin Seeds \cup {NoSeed}
  /\ HasGenerator \in BOOLEAN /\ HasMutator \in BOOLEAN /\ HasCb \in BOOLEAN
  /\ HasGenerator \/ HasMutator

Workers == 1 .. NWorkers
Blobs   == 1 .. MaxBlobs
Slots   == 1 .. Cap
Ids     == Seeds \cup {NoSeed, NewId}

Cmds    == {"Mutate", "Generate", "GetRemain", "ExecCB"}
Results == {"Empty", "Done", "Remain"}

VARIABLES
  \* SharedData, process_start_time # 0, and the semaphores of each worker
  status, cmd, result, startTime, startSem, endSem,
  \* the worker's block of slots: blobs loaded, slots marked interesting, and
  \* the id kept in the metadata of the first slot, which is the seed's too
  block, flags, slotId,
  \* the worker thread: location, command to send, command of the chain,
  \* result of execute_all
  cpc, req, chain, res,
  \* the server thread: location, command, and the locals of process()
  spc, scmd, ans, outs, rem, seedId,
  \* the process: "up", "dead" or "gone"; progress of --reset over workers
  server, rw, rstep,
  \* history of the chain: seed wanted, blobs made, blank ones, blobs run,
  \* blobs kept in the corpus, blobs called back; answer given to the command
  want, made, blank, ran, kept, called, given

shared == <<status, cmd, result, startTime, startSem, endSem>>
slots  == <<block, flags, slotId>>
client == <<cpc, req, chain, res>>
thread == <<spc, scmd, ans, outs, rem, seedId>>
proc   == <<server, rw, rstep>>
hist   == <<want, made, blank, ran, kept, called, given>>
vars   == <<shared, slots, client, thread, proc, hist>>

BlobSeqs == UNION {[1 .. n -> Blobs] : n \in 0 .. MaxBlobs}

TypeOK ==
  /\ status \in [Workers -> {"BOOTED", "READY", "WIP"}]
  /\ cmd \in [Workers -> Cmds] /\ result \in [Workers -> Results]
  /\ startTime \in [Workers -> BOOLEAN]
  /\ startSem \in [Workers -> Nat] /\ endSem \in [Workers -> Nat]
  /\ block \in [Workers -> BlobSeqs] /\ \A w \in Workers : Len(block[w]) <= Cap
  /\ flags \in [Workers -> SUBSET Slots] /\ slotId \in [Workers -> Ids]
  /\ cpc \in [Workers -> {"idle", "batch", "cmd", "post", "wait", "read", "exec", "done"}]
  /\ req \in [Workers -> Cmds] /\ chain \in [Workers -> {"Generate", "Mutate"}]
  /\ res \in [Workers -> Results]
  /\ spc \in [Workers -> {"boot", "wait", "take", "work", "hung", "answer", "post", "exited"}]
  /\ scmd \in [Workers -> Cmds] /\ ans \in [Workers -> Results]
  /\ outs \in [Workers -> BlobSeqs] /\ rem \in [Workers -> BlobSeqs]
  /\ seedId \in [Workers -> Ids]
  /\ server \in {"up", "dead", "gone"} /\ rw \in 1 .. NWorkers + 1
  /\ rstep \in {"status", "result", "post"}
  /\ want \in [Workers -> Ids] /\ made \in [Workers -> 0 .. MaxBlobs]
  /\ blank \in [Workers -> SUBSET Blobs] /\ ran \in [Workers -> SUBSET Blobs]
  /\ kept \in [Workers -> SUBSET Blobs] /\ called \in [Workers -> SUBSET Blobs]
  /\ given \in [Workers -> Results \cup {"none"}]

\* The client has created the zeroed record and the semaphores, and spawned
\* the process.
Init ==
  /\ status = [w \in Workers |-> "BOOTED"] /\ cmd = [w \in Workers |-> "Mutate"]
  /\ result = [w \in Workers |-> "Empty"] /\ startTime = [w \in Workers |-> FALSE]
  /\ startSem = [w \in Workers |-> 0] /\ endSem = [w \in Workers |-> 0]
  /\ block = [w \in Workers |-> <<>>] /\ flags = [w \in Workers |-> {}]
  /\ slotId = [w \in Workers |-> NoSeed]
  /\ cpc = [w \in Workers |-> "idle"] /\ req = [w \in Workers |-> "Mutate"]
  /\ chain = [w \in Workers |-> "Mutate"] /\ res = [w \in Workers |-> "Empty"]
  /\ spc = [w \in Workers |-> "boot"] /\ scmd = [w \in Workers |-> "Mutate"]
  /\ ans = [w \in Workers |-> "Empty"] /\ outs = [w \in Workers |-> <<>>]
  /\ rem = [w \in Workers |-> <<>>] /\ seedId = [w \in Workers |-> NoSeed]
  /\ server = "up" /\ rw = 1 /\ rstep = "status"
  /\ want = [w \in Workers |-> NoSeed] /\ made = [w \in Workers |-> 0]
  /\ blank = [w \in Workers |-> {}] /\ ran = [w \in Workers |-> {}]
  /\ kept = [w \in Workers |-> {}] /\ called = [w \in Workers |-> {}]
  /\ given = [w \in Workers |-> "none"]

Elems(s) == {s[i] : i \in 1 .. Len(s)}

-----------------------------------------------------------------------------
(* The worker thread: InputGenStage::perform, execute_all, execute, run_cmd.*)

\* is_ready, asked once at the start of perform
Begin(w) ==
  /\ cpc[w] = "idle" /\ status[w] = "READY"
  /\ chain' = [chain EXCEPT ![w] = IF HasGenerator THEN "Generate" ELSE "Mutate"]
  /\ req' = [req EXCEPT ![w] = chain'[w]]
  /\ cpc' = [cpc EXCEPT ![w] = "batch"]
  /\ UNCHANGED <<shared, slots, res, thread, proc, hist>>

\* A new Generate or Mutate makes new blobs; GetRemain goes on with the old.
NewChain(w, seed) ==
  /\ want' = [want EXCEPT ![w] = seed]
  /\ made' = [made EXCEPT ![w] = 0] /\ blank' = [blank EXCEPT ![w] = {}]
  /\ ran' = [ran EXCEPT ![w] = {}] /\ kept' = [kept EXCEPT ![w] = {}]
  /\ called' = [called EXCEPT ![w] = {}] /\ UNCHANGED given

\* set_mode empties the block, without touching the slots; schedule_seed puts
\* a seed into the first one, or finds the corpus empty and the stage ends.
Prepare(w) ==
  /\ cpc[w] = "batch"
  /\ block' = [block EXCEPT ![w] = <<>>]
  /\ \/ /\ req[w] = "Generate" /\ NewChain(w, NoSeed)
        /\ cpc' = [cpc EXCEPT ![w] = "cmd"] /\ UNCHANGED slotId
     \/ /\ req[w] = "GetRemain" /\ UNCHANGED <<hist, slotId>>
        /\ cpc' = [cpc EXCEPT ![w] = "cmd"]
     \/ /\ req[w] = "Mutate"
        /\ \E s \in Seeds : NewChain(w, s) /\ slotId' = [slotId EXCEPT ![w] = s]
        /\ cpc' = [cpc EXCEPT ![w] = "cmd"]
     \/ /\ req[w] = "Mutate" /\ NewChain(w, NoSeed)
        /\ slotId' = [slotId EXCEPT ![w] = NoSeed]
        /\ cpc' = [cpc EXCEPT ![w] = "idle"]
  /\ UNCHANGED <<shared, flags, req, chain, res, thread, proc>>

\* run_cmd, in its four steps
SetCmd(w) ==
  /\ cpc[w] = "cmd"
  /\ cmd' = [cmd EXCEPT ![w] = req[w]]
  /\ given' = [given EXCEPT ![w] = "none"]
  /\ cpc' = [cpc EXCEPT ![w] = "post"]
  /\ UNCHANGED <<status, result, startTime, startSem, endSem, slots, req, chain, res, thread,
                 proc, want, made, blank, ran, kept, called>>

PostStart(w) ==
  /\ cpc[w] = "post"
  /\ startSem' = [startSem EXCEPT ![w] = @ + 1]
  /\ cpc' = [cpc EXCEPT ![w] = "wait"]
  /\ UNCHANGED <<status, cmd, result, startTime, endSem, slots, req, chain, res, thread, proc,
                 hist>>

WaitEnd(w) ==
  /\ cpc[w] = "wait" /\ endSem[w] > 0
  /\ endSem' = [endSem EXCEPT ![w] = @ - 1]
  /\ cpc' = [cpc EXCEPT ![w] = "read"]
  /\ UNCHANGED <<status, cmd, result, startTime, startSem, slots, req, chain, res, thread, proc,
                 hist>>

\* The head of the while loop of execute_all, with the result it holds.
LoopOn(w, r) ==
  IF r = "Remain"
  THEN req' = [req EXCEPT ![w] = "GetRemain"] /\ cpc' = [cpc EXCEPT ![w] = "batch"]
  ELSE UNCHANGED req /\ cpc' = [cpc EXCEPT ![w] = "done"]

\* An empty answer ends execute_all before anything is run; the answer to
\* ExecCB is dropped.
ReadResult(w) ==
  /\ cpc[w] = "read"
  /\ \/ req[w] = "ExecCB" /\ LoopOn(w, res[w]) /\ UNCHANGED res
     \/ /\ req[w] # "ExecCB" /\ result[w] = "Empty"
        /\ cpc' = [cpc EXCEPT ![w] = "done"] /\ UNCHANGED <<req, res>>
     \/ /\ req[w] # "ExecCB" /\ result[w] # "Empty"
        /\ res' = [res EXCEPT ![w] = result[w]]
        /\ cpc' = [cpc EXCEPT ![w] = "exec"] /\ UNCHANGED req
  /\ UNCHANGED <<shared, slots, chain, thread, proc, hist>>

\* execute: run what is loaded, keep some of it in the corpus (which marks
\* the slot and stores the corpus id in it), then have the callbacks run.
Execute(w) ==
  /\ cpc[w] = "exec"
  /\ \E K \in SUBSET (1 .. Len(block[w])) :
       /\ flags' = [flags EXCEPT ![w] = @ \cup K]
       /\ slotId' = [slotId EXCEPT ![w] = IF 1 \in K THEN NewId ELSE @]
       /\ kept' = [kept EXCEPT ![w] = @ \cup {block[w][i] : i \in K}]
  /\ ran' = [ran EXCEPT ![w] = @ \cup Elems(block[w])]
  /\ IF HasCb THEN req' = [req EXCEPT ![w] = "ExecCB"] /\ cpc' = [cpc EXCEPT ![w] = "cmd"]
              ELSE LoopOn(w, res[w])
  /\ UNCHANGED <<shared, block, chain, res, thread, proc, want, made, blank, called, given>>

\* perform goes on with the mutator after the generator, then returns.
EndChain(w) ==
  /\ cpc[w] = "done"
  /\ IF chain[w] = "Generate" /\ HasMutator
     THEN /\ chain' = [chain EXCEPT ![w] = "Mutate"] /\ req' = [req EXCEPT ![w] = "Mutate"]
          /\ cpc' = [cpc EXCEPT ![w] = "batch"]
     ELSE UNCHANGED <<chain, req>> /\ cpc' = [cpc EXCEPT ![w] = "idle"]
  /\ UNCHANGED <<shared, slots, res, thread, proc, hist>>

Client(w) ==
  \/ Begin(w) \/ Prepare(w) \/ SetCmd(w) \/ PostStart(w) \/ WaitEnd(w)
  \/ ReadResult(w) \/ Execute(w) \/ EndChain(w)

-----------------------------------------------------------------------------
(* The server thread: InputGenServerWorker::process, wait_cmd, done_cmd. *)

Boot(w) ==
  /\ spc[w] = "boot"
  /\ status' = [status EXCEPT ![w] = "READY"]
  /\ spc' = [spc EXCEPT ![w] = "wait"]
  /\ UNCHANGED <<cmd, result, startTime, startSem, endSem, slots, client, scmd, ans, outs, rem,
                 seedId, proc, hist>>

TakeStart(w) ==
  /\ spc[w] = "wait" /\ startSem[w] > 0
  /\ startSem' = [startSem EXCEPT ![w] = @ - 1]
  /\ spc' = [spc EXCEPT ![w] = "take"]
  /\ UNCHANGED <<status, cmd, result, startTime, endSem, slots, client, scmd, ans, outs, rem,
                 seedId, proc, hist>>

ReadCmd(w) ==
  /\ spc[w] = "take"
  /\ status' = [status EXCEPT ![w] = "WIP"]
  /\ scmd' = [scmd EXCEPT ![w] = cmd[w]]
  /\ startTime' = [startTime EXCEPT ![w] = TRUE]
  /\ spc' = [spc EXCEPT ![w] = "work"]
  /\ UNCHANGED <<cmd, result, startSem, endSem, slots, client, ans, outs, rem, seedId, proc, hist>>

\* alloc_input that does not clear
ClearedSlots_None(w, n) == flags[w]

\* Outputs::next: alloc_input clears the metadata of the slots it hands out.
ClearedSlots(w, n) == flags[w] \ (1 .. n)

\* bump that goes on when alloc_input has no slot left
Fitting_All(blobs) == Len(blobs)

\* Outputs::bump: as many blobs as there are free slots, the rest remains.
Fitting(blobs) == IF Len(blobs) <= Cap THEN Len(blobs) ELSE Cap

\* bump that counts one blob too many, or one too few
Rest_SkipsOne(blobs, n) == SubSeq(blobs, n + 2, Len(blobs))
Rest_RepeatsOne(blobs, n) == SubSeq(blobs, IF n > 0 THEN n ELSE 1, Len(blobs))

\* Outputs::bump: what did not fit remains.
Rest(blobs, n) == SubSeq(blobs, n + 1, Len(blobs))

\* Outputs::finalize: the answer, and the parent id in every output.
Finalize(w, blobs, n, blanks, seed) ==
  /\ block' = [block EXCEPT ![w] = SubSeq(blobs, 1, n)]
  /\ flags' = [flags EXCEPT ![w] = ClearedSlots(w, n)]
  /\ slotId' = [slotId EXCEPT ![w] = IF n > 0 THEN seed ELSE @]
  /\ outs' = [outs EXCEPT ![w] = SubSeq(blobs, 1, n)]
  /\ rem' = [rem EXCEPT ![w] = Rest(blobs, n)]
  /\ seedId' = [seedId EXCEPT ![w] = seed]
  /\ ans' = [ans EXCEPT ![w] = IF rem'[w] # <<>> THEN "Remain"
                               ELSE IF Elems(outs'[w]) \subseteq blanks THEN "Empty" ELSE "Done"]

\* mutate_loop and generate_loop: the generator makes some blobs, blank ones
\* among them, or fails (catch_unwind) after having made them.
MakeBlobs(w) ==
  /\ spc[w] = "work" /\ scmd[w] \in {"Mutate", "Generate"}
  /\ \E n \in 0 .. MaxBlobs : \E B \in SUBSET (1 .. n) :
       LET blobs == [i \in 1 .. n |-> i]
           seed  == IF scmd[w] = "Mutate" THEN slotId[w] ELSE NoSeed
       IN  /\ Finalize(w, blobs, Fitting(blobs), B, seed)
           /\ made' = [made EXCEPT ![w] = n] /\ blank' = [blank EXCEPT ![w] = B]
  /\ spc' = [spc EXCEPT ![w] = "answer"]
  /\ UNCHANGED <<shared, client, scmd, proc, want, ran, kept, called, given>>

\* get_remain that takes the parent id from the slot
GetRemain_SlotId(w) ==
  /\ spc[w] = "work" /\ scmd[w] = "GetRemain"
  /\ Finalize(w, rem[w], Fitting(rem[w]), blank[w], slotId[w])
  /\ spc' = [spc EXCEPT ![w] = "answer"]
  /\ UNCHANGED <<shared, client, scmd, proc, hist>>

\* get_remain: the blobs left over, with the seed id of the command before.
GetRemain(w) ==
  /\ spc[w] = "work" /\ scmd[w] = "GetRemain"
  /\ Finalize(w, rem[w], Fitting(rem[w]), blank[w], seedId[w])
  /\ spc' = [spc EXCEPT ![w] = "answer"]
  /\ UNCHANGED <<shared, client, scmd, proc, hist>>

\* invoke_callbacks: for every output whose slot is marked interesting
InvokeCallbacks(w) ==
  /\ spc[w] = "work" /\ scmd[w] = "ExecCB"
  /\ called' = [called EXCEPT ![w] =
                  @ \cup {outs[w][i] : i \in flags[w] \cap (1 .. Len(outs[w]))}]
  /\ ans' = [ans EXCEPT ![w] = "Empty"]
  /\ spc' = [spc EXCEPT ![w] = "answer"]
  /\ UNCHANGED <<shared, slots, client, scmd, outs, rem, seedId, proc, want, made, blank, ran,
                 kept, given>>

\* The generator's own code does not return.
Hang(w) ==
  /\ spc[w] = "work" /\ scmd[w] # "GetRemain"
  /\ spc' = [spc EXCEPT ![w] = "hung"]
  /\ UNCHANGED <<shared, slots, client, scmd, ans, outs, rem, seedId, proc, hist>>

\* done_cmd that posts before the result is there
Publish_PostsFirst(w) ==
  /\ spc[w] = "answer"
  /\ status' = [status EXCEPT ![w] = "READY"]
  /\ endSem' = [endSem EXCEPT ![w] = @ + 1]
  /\ spc' = [spc EXCEPT ![w] = "post"]
  /\ UNCHANGED <<cmd, result, startTime, startSem, slots, client, scmd, ans, outs, rem, seedId,
                 proc, hist>>

\* done_cmd, up to the semaphore
Publish(w) ==
  /\ spc[w] = "answer"
  /\ status' = [status EXCEPT ![w] = "READY"]
  /\ result' = [result EXCEPT ![w] = ans[w]]
  /\ given' = [given EXCEPT ![w] = ans[w]]
  /\ spc' = [spc EXCEPT ![w] = "post"]
  /\ UNCHANGED <<cmd, startTime, startSem, endSem, slots, client, scmd, ans, outs, rem, seedId,
                 proc, want, made, blank, ran, kept, called>>

PostEnd(w) ==
  /\ spc[w] = "post"
  /\ startTime' = [startTime EXCEPT ![w] = FALSE]
  /\ endSem' = [endSem EXCEPT ![w] = @ + 1]
  /\ spc' = [spc EXCEPT ![w] = "wait"]
  /\ UNCHANGED <<status, cmd, result, startSem, slots, client, scmd, ans, outs, rem, seedId, proc,
                 hist>>

Server(w) ==
  \/ Boot(w) \/ TakeStart(w) \/ ReadCmd(w) \/ MakeBlobs(w) \/ GetRemain(w)
  \/ InvokeCallbacks(w) \/ Publish(w) \/ PostEnd(w)

-----------------------------------------------------------------------------
(* The process. *)

\* Every thread is gone, with its locals and process_start_time.
ProcessExit ==
  /\ server' = "dead"
  /\ spc' = [w \in Workers |-> "exited"] /\ startTime' = [w \in Workers |-> FALSE]
  /\ scmd' = [w \in Workers |-> "Mutate"] /\ ans' = [w \in Workers |-> "Empty"]
  /\ outs' = [w \in Workers |-> <<>>] /\ rem' = [w \in Workers |-> <<>>]
  /\ seedId' = [w \in Workers |-> NoSeed]
  /\ UNCHANGED <<status, cmd, result, startSem, endSem, slots, client, rw, rstep, hist>>

\* check_timeout_loop: one command of worker w has taken too long.
Timeout(w) == server = "up" /\ startTime[w] /\ ProcessExit

\* The generator's code brings the process down.
Crash == server = "up" /\ ProcessExit

\* cmd --reset, run by the shell when the process has ended: for each worker
\* in turn, status, result and then the tokens.
ResetFrame ==
  UNCHANGED <<cmd, startTime, startSem, slots, client, thread, hist>>

\* tokens posted before the results are cleared
ResetStatus_PostsFirst ==
  /\ server = "dead" /\ rw <= NWorkers /\ rstep = "status"
  /\ status' = [status EXCEPT ![rw] = "BOOTED"] /\ rstep' = "result"
  /\ endSem' = [endSem EXCEPT ![rw] = @ + ResetTokens]
  /\ UNCHANGED <<result, server, rw>> /\ ResetFrame

ResetStatus ==
  /\ server = "dead" /\ rw <= NWorkers /\ rstep = "status"
  /\ status' = [status EXCEPT ![rw] = "BOOTED"] /\ rstep' = "result"
  /\ UNCHANGED <<result, endSem, server, rw>> /\ ResetFrame

ResetResult ==
  /\ server = "dead" /\ rw <= NWorkers /\ rstep = "result"
  /\ result' = [result EXCEPT ![rw] = "Empty"] /\ rstep' = "post"
  /\ UNCHANGED <<status, endSem, server, rw>> /\ ResetFrame

\* one token for each worker, for the command that is open
ResetPost_OneToken ==
  /\ server = "dead" /\ rw <= NWorkers /\ rstep = "post"
  /\ endSem' = [endSem EXCEPT ![rw] = @ + 1]
  /\ rstep' = "status" /\ rw' = rw + 1
  /\ server' = IF rw = NWorkers THEN "gone" ELSE server
  /\ UNCHANGED <<status, result>> /\ ResetFrame

\* a reset that leaves the last worker out
ResetPost_StopsEarly ==
  /\ server = "dead" /\ rw <= NWorkers /\ rstep = "post"
  /\ endSem' = [endSem EXCEPT ![rw] = @ + ResetTokens]
  /\ rstep' = "status" /\ rw' = rw + 1
  /\ server' = IF rw >= NWorkers - 1 THEN "gone" ELSE server
  /\ UNCHANGED <<status, result>> /\ ResetFrame

ResetPost ==
  /\ server = "dead" /\ rw <= NWorkers /\ rstep = "post"
  /\ endSem' = [endSem EXCEPT ![rw] = @ + ResetTokens]
  /\ rstep' = "status" /\ rw' = rw + 1
  /\ server' = IF rw = NWorkers THEN "gone" ELSE server
  /\ UNCHANGED <<status, result>> /\ ResetFrame

Reset == ResetStatus \/ ResetResult \/ ResetPost

Next ==
  \/ \E w \in Workers : Client(w) \/ Server(w) \/ Hang(w) \/ Timeout(w)
  \/ Crash
  \/ Reset

Spec == Init /\ [][Next]_vars

\* Both processes are scheduled; a command that hangs is noticed by
\* check_timeout_loop, and the shell runs --reset after the process.  Nothing
\* makes a stage call the generator again, and a generator may never fail.
Fairness ==
  /\ \A w \in Workers : /\ WF_vars(WaitEnd(w))
                        /\ WF_vars(Server(w))
                        /\ WF_vars(Timeout(w) /\ spc[w] = "hung")
  /\ WF_vars(Reset)

FairSpec == Spec /\ Fairness

-----------------------------------------------------------------------------
(* Properties. *)

\* While the process lives, the worker thread and its server thread never both
\* hold the block: the server touches slots and record only between the start
\* and the end token of a command (run_cmd, wait_cmd, done_cmd).
BlockExclusive ==
  \A w \in Workers : server = "up" /\ cpc[w] # "wait" =>
    startSem[w] = 0 /\ endSem[w] = 0 /\ spc[w] \in {"boot", "wait"}

\* The result a worker reads is the answer to the very command it sent, or
\* Empty because the process died; never that of an earlier command
\* (done_cmd's order, reset's order).
AnswerIsOwn ==
  \A w \in Workers : cpc[w] = "read" =>
    \/ result[w] = given[w]
    \/ server # "up" /\ result[w] = "Empty"

\* Record and block of a worker are handed over cleanly, also where the server
\* threads of all workers end together (run_cmd against done_cmd and reset).
OwnAnswer == BlockExclusive /\ AnswerIsOwn

\* When a chain Generate or Mutate, ExecCB, GetRemain, ... is over and the
\* process lived through it, every blob made was run, the blank ones excepted
\* (bump, get_remain and the loop of execute_all).
AllBlobsRun ==
  \A w \in Workers : server = "up" /\ cpc[w] = "done" =>
    (1 .. made[w]) \ blank[w] \subseteq ran[w]

\* No blob is loaded again after it was run, whatever dies (bump, get_remain).
NoBlobTwice ==
  \A w \in Workers : cpc[w] = "exec" => Elems(block[w]) \cap ran[w] = {}

\* The callback runs for the blobs that entered the corpus and for no other,
\* although the marks stay in slots which are used again
\* (set_is_interesting, is_interesting, alloc_input's memset).
CallbacksExact ==
  \A w \in Workers : HasCb /\ server = "up" /\ cpc[w] = "done" => called[w] = kept[w]

\* Inputs are run under the id of the seed they were made from, in every round
\* of a chain, although the seed's own slot is overwritten by the first of
\* them and by the corpus id it gets (set_seed, finalize, set_is_interesting).
ParentKept ==
  \A w \in Workers : cpc[w] = "exec" /\ block[w] # <<>> => slotId[w] = want[w]

\* More blobs than slots: each is run, once, under the id of its parent, and
\* called back when it was kept (bump, get_remain, finalize, invoke_callbacks).
BlobsKept == AllBlobsRun /\ NoBlobTwice /\ ParentKept /\ CallbacksExact

\* run_cmd returns, whether the generator answers, hangs or dies, before or
\* after the reset (check_timeout_loop, reset and its spare tokens).
RunCmdReturns == \A w \in Workers : cpc[w] = "wait" ~> cpc[w] = "read"
=============================================================================
