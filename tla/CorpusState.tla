----------------------------- MODULE CorpusState -----------------------------
(***************************************************************************)
(* UniState: the corpus, the coverage and crash observers and the seed     *)
(* scheduler that all worker threads share, each behind a RwLock of its    *)
(* own.                                                                    *)
(*                                                                         *)
(* After every batch a worker filters its inputs under a read lock, claims *)
(* those that are still new under the write locks, and with no lock held   *)
(* saves their coverage and tells the scheduler.  A stage driven by a      *)
(* testlang does this twice, against two observers.  Crashes go through a  *)
(* sequence of the same shape and are submitted.                           *)
(*                                                                         *)
(* Inputs with the same bytes are one element of Inputs: a corpus stores   *)
(* them under the hash of their bytes.  What an input covers and the log   *)
(* its crash gives are functions of the input.                             *)
(***************************************************************************)
EXTENDS Integers, Sequences, FiniteSets

CONSTANTS
  Workers, Testlang,   \* the worker threads; those whose stage has a testlang
  FirstWorker,         \* worker 0, which adds the dummy seeds
  Nobody,              \* holder of a free lock
  Inputs, Dummy,       \* what can be run; the dummy seed
  Addrs, Cov,          \* coverage: the addresses each input covers
  Logs, RawLog, PovLog,\* crash logs of each input: from the fuzzer, parsed
  Kinds,               \* {"normal", "testlang"}: observers, scheduler corpora
  MaxBatch, MaxBatches \* bounds: inputs in a batch, batches of a worker

ASSUME CorpusAssumption ==
  /\ Testlang \subseteq Workers /\ FirstWorker \in Workers /\ Nobody \notin Workers
  /\ Dummy \in Inputs
  /\ Cov \in [Inputs -> SUBSET Addrs]
  /\ RawLog \in [Inputs -> Logs] /\ PovLog \in [Inputs -> Logs]
  /\ Kinds = {"normal", "testlang"}
  /\ MaxBatch \in Nat \ {0} /\ MaxBatches \in Nat

VARIABLES
  \* UniState; saved is the set of coverage files on disk
  corpus, solutions, observed, crashLogs, sched, saved,
  \* who holds the write locks of corpus and observer; of solutions and crashes
  holder, povHolder,
  \* each worker: location, inputs that passed, crashes, observer in use,
  \* candidates (positions in the batch, then among the crashes), keys of
  \* tmp_seed_map, for_saving; logs seen locally, povs found, for_submit
  pc, batch, crashes, pass, cand, claimed, todo, seenLogs, povs, submits,
  \* history: how often each log was submitted; batches run
  submitted, batches

uni     == <<corpus, solutions, observed, crashLogs, sched, saved>>
locks   == <<holder, povHolder>>
seedsV  == <<pass, cand, claimed, todo>>
crashV  == <<seenLogs, povs, submits>>
corpusVars == <<uni, locks, pc, batch, crashes, seedsV, crashV, submitted, batches>>

Locs == {"dummycheck", "dummyrun", "idle", "filter", "claim", "claiming", "save", "update",
         "crashfilter", "runpov", "povclaiming", "povsave", "submit"}

CorpusTypes ==
  /\ corpus \subseteq Inputs /\ solutions \subseteq Inputs /\ saved \subseteq Inputs
  /\ observed \in [Kinds -> SUBSET Addrs] /\ crashLogs \subseteq Logs
  /\ sched \in [Kinds -> [Inputs -> Nat]]
  /\ holder \in Workers \cup {Nobody} /\ povHolder \in Workers \cup {Nobody}
  /\ pc \in [Workers -> Locs]
  /\ batch \in [Workers -> Seq(Inputs)] /\ crashes \in [Workers -> Seq(Inputs)]
  /\ pass \in [Workers -> Kinds]
  /\ cand \in [Workers -> SUBSET (1 .. MaxBatch)] /\ claimed \in [Workers -> SUBSET (1 .. MaxBatch)]
  /\ todo \in [Workers -> Seq(Inputs \X BOOLEAN)]
  /\ seenLogs \in [Workers -> SUBSET Logs] /\ povs \in [Workers -> Seq(Inputs)]
  /\ submits \in [Workers -> Seq(Inputs)]
  /\ submitted \in [Logs -> Nat] /\ batches \in [Workers -> 0 .. MaxBatches]
  /\ \A w \in Workers : /\ (pc[w] = "claiming") = (holder = w)
                        /\ (pc[w] = "povclaiming") = (povHolder = w)

CorpusInit ==
  /\ corpus = {} /\ solutions = {} /\ saved = {} /\ crashLogs = {}
  /\ observed = [k \in Kinds |-> {}]
  /\ sched = [k \in Kinds |-> [i \in Inputs |-> 0]]
  /\ holder = Nobody /\ povHolder = Nobody
  /\ pc = [w \in Workers |-> IF w = FirstWorker THEN "dummycheck" ELSE "idle"]
  /\ batch = [w \in Workers |-> <<>>] /\ crashes = [w \in Workers |-> <<>>]
  /\ pass = [w \in Workers |-> "normal"] /\ cand = [w \in Workers |-> {}]
  /\ claimed = [w \in Workers |-> {}] /\ todo = [w \in Workers |-> <<>>]
  /\ seenLogs = [w \in Workers |-> {}] /\ povs = [w \in Workers |-> <<>>]
  /\ submits = [w \in Workers |-> <<>>]
  /\ submitted = [l \in Logs |-> 0] /\ batches = [w \in Workers |-> 0]

Goto(w, loc) == pc' = [pc EXCEPT ![w] = loc]

-----------------------------------------------------------------------------
(* Start-up of the first worker: try_add_dummy_seeds, for one dummy seed.   *)

DummyCheck(w) ==
  /\ pc[w] = "dummycheck" /\ holder = Nobody
  /\ Goto(w, IF corpus = {} THEN "dummyrun" ELSE "idle")
  /\ UNCHANGED <<uni, locks, batch, crashes, seedsV, crashV, submitted, batches>>

\* By now the corpus may have seeds of other workers.  The three write locks
\* are held throughout; the coverage files are renamed into place last.
DummyAdd(w) ==
  /\ pc[w] = "dummyrun" /\ holder = Nobody
  /\ observed' = [observed EXCEPT !["normal"] = @ \cup Cov[Dummy]]
  /\ IF Cov[Dummy] \subseteq observed["normal"] \/ Dummy \in corpus
     THEN UNCHANGED <<corpus, sched, saved>>
     ELSE /\ corpus' = corpus \cup {Dummy} /\ saved' = saved \cup {Dummy}
          /\ sched' = [sched EXCEPT !["normal"][Dummy] = @ + 1]
  /\ Goto(w, "idle")
  /\ UNCHANGED <<solutions, crashLogs, locks, batch, crashes, seedsV, crashV, submitted, batches>>

-----------------------------------------------------------------------------
(* Seeds: add_if_interesting_seed, __add_if_interesting_seed,               *)
(* process_new_seeds.                                                       *)

\* A batch comes back from the executor: inputs that passed, and crashes.
StartBatch(w) ==
  /\ pc[w] = "idle" /\ batches[w] < MaxBatches
  /\ batches' = [batches EXCEPT ![w] = @ + 1]
  /\ \E n \in 0 .. MaxBatch :
       /\ \E s \in [1 .. n -> Inputs] : batch' = [batch EXCEPT ![w] = s]
       /\ \E s \in [1 .. MaxBatch - n -> Inputs] : crashes' = [crashes EXCEPT ![w] = s]
  /\ pass' = [pass EXCEPT ![w] = "normal"] /\ claimed' = [claimed EXCEPT ![w] = {}]
  /\ Goto(w, "filter")
  /\ UNCHANGED <<uni, locks, cand, todo, crashV, submitted>>

\* The pass is over: a testlang stage has a second one, then come the crashes.
NextPass(w) ==
  IF pass[w] = "normal" /\ w \in Testlang
  THEN pass' = [pass EXCEPT ![w] = "testlang"] /\ Goto(w, "filter")
  ELSE UNCHANGED pass /\ Goto(w, "crashfilter")

\* The positions of a batch whose input covers something unseen.
NewPositions(w) ==
  {p \in 1 .. Len(batch[w]) : ~ (Cov[batch[w][p]] \subseteq observed[pass[w]])}

\* Candidates are taken in the order of the batch.
IsFirst(p, S) == p \in S /\ \A q \in S : p <= q

\* The read lock of the observer is free.
Readable(w) == \A v \in Workers : v = holder => pass[v] # pass[w]

\* The filter that updates the observer at once
Filter_Updates(w) ==
  /\ pc[w] = "filter" /\ Readable(w)
  /\ cand' = [cand EXCEPT ![w] = NewPositions(w)]
  /\ observed' = [observed EXCEPT ![pass[w]] =
                    @ \cup UNION {Cov[batch[w][p]] : p \in 1 .. Len(batch[w])}]
  /\ IF cand'[w] = {} THEN NextPass(w) ELSE Goto(w, "claim") /\ UNCHANGED pass
  /\ UNCHANGED <<corpus, solutions, crashLogs, sched, saved, locks, batch, crashes, claimed, todo,
                 crashV, submitted, batches>>

\* Candidates, under the read lock of the observer.
Filter(w) ==
  /\ pc[w] = "filter" /\ Readable(w)
  /\ cand' = [cand EXCEPT ![w] = NewPositions(w)]
  /\ IF cand'[w] = {} THEN NextPass(w) ELSE Goto(w, "claim") /\ UNCHANGED pass
  /\ UNCHANGED <<uni, locks, batch, crashes, claimed, todo, crashV, submitted, batches>>

\* process_new_seeds under read locks only
ClaimLock_Shared(w) ==
  /\ pc[w] = "claim"
  /\ holder' = w
  /\ Goto(w, "claiming")
  /\ UNCHANGED <<uni, povHolder, batch, crashes, seedsV, crashV, submitted, batches>>

\* The write locks of the corpus, then of the observer.
ClaimLock(w) ==
  /\ pc[w] = "claim" /\ holder = Nobody
  /\ holder' = w
  /\ Goto(w, "claiming")
  /\ UNCHANGED <<uni, povHolder, batch, crashes, seedsV, crashV, submitted, batches>>

\* process_new_seeds that trusts the filter
StillNew_Trusted(w, i) == TRUE

\* update_cov: is anything of the input still unseen?
StillNew(w, i) == ~ (Cov[i] \subseteq observed[pass[w]])

\* corpus.add that looks for the name after storing it
IsNew_AfterAdd(w, p, i) == FALSE

\* The entry was made by this very call, not by the first pass and not by
\* another worker with the same bytes.
IsNew(w, p, i) == p \notin claimed[w] /\ i \notin corpus

\* One candidate: update_cov, and if it is still new corpus.add, or the entry
\* the first pass made for this slot (tmp_seed_map).
ClaimSeed(w) ==
  /\ pc[w] = "claiming"
  /\ \E p \in cand[w] : LET i == batch[w][p] IN
       /\ IsFirst(p, cand[w])
       /\ cand' = [cand EXCEPT ![w] = @ \ {p}]
       /\ observed' = [observed EXCEPT ![pass[w]] = @ \cup Cov[i]]
       /\ IF StillNew(w, i)
          THEN /\ corpus' = corpus \cup {i}
               /\ claimed' = [claimed EXCEPT ![w] = @ \cup {p}]
               /\ todo' = [todo EXCEPT ![w] = Append(@, <<i, IsNew(w, p, i)>>)]
          ELSE UNCHANGED <<corpus, claimed, todo>>
  /\ UNCHANGED <<solutions, crashLogs, sched, saved, locks, pc, batch, crashes, pass, crashV,
                 submitted, batches>>

ClaimUnlock(w) ==
  /\ pc[w] = "claiming" /\ cand[w] = {}
  /\ holder' = Nobody
  /\ Goto(w, "save")
  /\ UNCHANGED <<uni, povHolder, batch, crashes, seedsV, crashV, submitted, batches>>

\* No lock is held: the coverage of a new seed is written and symbolized ...
SaveCoverage(w) ==
  /\ pc[w] = "save"
  /\ IF todo[w] = <<>>
     THEN NextPass(w) /\ UNCHANGED saved
     ELSE /\ saved' = IF Head(todo[w])[2] THEN saved \cup {Head(todo[w])[1]} ELSE saved
          /\ Goto(w, "update") /\ UNCHANGED pass
  /\ UNCHANGED <<corpus, solutions, observed, crashLogs, sched, locks, batch, crashes, cand,
                 claimed, todo, crashV, submitted, batches>>

\* ... and the scheduler weighs it by that file.
UpdateScheduler(w) ==
  /\ pc[w] = "update"
  /\ sched' = [sched EXCEPT ![pass[w]][Head(todo[w])[1]] = @ + 1]
  /\ todo' = [todo EXCEPT ![w] = Tail(@)]
  /\ Goto(w, "save")
  /\ UNCHANGED <<corpus, solutions, observed, crashLogs, saved, locks, batch, crashes, pass, cand,
                 claimed, crashV, submitted, batches>>

-----------------------------------------------------------------------------
(* Crashes: add_if_interesting_crash, process_povs, submit_pov.             *)

\* Crashes whose log the observer has not seen, under its read lock.
CrashFilter(w) ==
  /\ pc[w] = "crashfilter" /\ povHolder = Nobody
  /\ cand' = [cand EXCEPT ![w] =
                {p \in 1 .. Len(crashes[w]) : RawLog[crashes[w][p]] \notin crashLogs}]
  /\ seenLogs' = [seenLogs EXCEPT ![w] = {}] /\ povs' = [povs EXCEPT ![w] = <<>>]
  /\ Goto(w, "runpov")
  /\ UNCHANGED <<uni, locks, batch, crashes, pass, claimed, todo, submits, submitted, batches>>

\* The crash is reproduced outside of any lock, and may not reproduce.
RunPov(w) ==
  /\ pc[w] = "runpov"
  /\ \E p \in cand[w] : LET i == crashes[w][p] IN
       /\ IsFirst(p, cand[w])
       /\ cand' = [cand EXCEPT ![w] = @ \ {p}]
       /\ \/ UNCHANGED <<seenLogs, povs>>
          \/ /\ RawLog[i] \notin seenLogs[w] /\ PovLog[i] \notin seenLogs[w]
             /\ seenLogs' = [seenLogs EXCEPT ![w] = @ \cup {PovLog[i]}]
             /\ povs' = [povs EXCEPT ![w] = Append(@, i)]
  /\ UNCHANGED <<uni, locks, pc, batch, crashes, pass, claimed, todo, submits, submitted,
                 batches>>

PovLock(w) ==
  /\ pc[w] = "runpov" /\ cand[w] = {}
  /\ IF povs[w] = <<>>
     THEN Goto(w, "idle") /\ UNCHANGED povHolder
     ELSE povHolder = Nobody /\ povHolder' = w /\ Goto(w, "povclaiming")
  /\ UNCHANGED <<uni, holder, batch, crashes, seedsV, crashV, submitted, batches>>

\* process_povs that trusts the filter
NewLog_Trusted(i) == TRUE

\* add_log: the log was not claimed by another worker meanwhile.
NewLog(i) == PovLog[i] \notin crashLogs

ClaimPov(w) ==
  /\ pc[w] = "povclaiming" /\ povs[w] # <<>>
  /\ LET i == Head(povs[w])
     IN  /\ crashLogs' = crashLogs \cup {PovLog[i]}
         /\ IF NewLog(i)
            THEN /\ solutions' = solutions \cup {i}
                 /\ submits' = [submits EXCEPT ![w] = IF i \in solutions THEN @ ELSE Append(@, i)]
            ELSE UNCHANGED <<solutions, submits>>
  /\ povs' = [povs EXCEPT ![w] = Tail(@)]
  /\ UNCHANGED <<corpus, observed, sched, saved, locks, pc, batch, crashes, seedsV, seenLogs,
                 submitted, batches>>

PovUnlock(w) ==
  /\ pc[w] = "povclaiming" /\ povs[w] = <<>>
  /\ povHolder' = Nobody
  /\ Goto(w, "povsave")
  /\ UNCHANGED <<uni, holder, batch, crashes, seedsV, crashV, submitted, batches>>

\* process_povs that asks the wrong corpus for the name
HasSeed_InSolutions(i) == i \in solutions

\* has_filename: a seed with these bytes exists.
HasSeed(i) == i \in corpus

\* has_filename, under the read lock of the corpus: a seed with these bytes has
\* its coverage saved by the worker that added it.
SavePov(w) ==
  /\ pc[w] = "povsave"
  /\ IF submits[w] = <<>>
     THEN Goto(w, "idle") /\ UNCHANGED saved
     ELSE /\ holder = Nobody
          /\ saved' = IF HasSeed(Head(submits[w])) THEN saved ELSE saved \cup {Head(submits[w])}
          /\ Goto(w, "submit")
  /\ UNCHANGED <<corpus, solutions, observed, crashLogs, sched, locks, batch, crashes, seedsV,
                 crashV, submitted, batches>>

SubmitPov(w) ==
  /\ pc[w] = "submit"
  /\ submitted' = [submitted EXCEPT ![PovLog[Head(submits[w])]] = @ + 1]
  /\ submits' = [submits EXCEPT ![w] = Tail(@)]
  /\ Goto(w, "povsave")
  /\ UNCHANGED <<uni, locks, batch, crashes, seedsV, seenLogs, povs, batches>>

Work(w) ==
  \/ DummyCheck(w) \/ DummyAdd(w)
  \/ Filter(w) \/ ClaimLock(w) \/ ClaimSeed(w) \/ ClaimUnlock(w)
  \/ SaveCoverage(w) \/ UpdateScheduler(w)
  \/ CrashFilter(w) \/ RunPov(w) \/ PovLock(w) \/ ClaimPov(w) \/ PovUnlock(w)
  \/ SavePov(w) \/ SubmitPov(w)

CorpusNext == \E w \in Workers : StartBatch(w) \/ Work(w)

CorpusSpec == CorpusInit /\ [][CorpusNext]_corpusVars

-----------------------------------------------------------------------------
(* Properties. *)

\* A seed is in each of the scheduler's corpora at most once, so that no seed
\* weighs twice, although workers find the same bytes at the same time and a
\* testlang stage looks at every seed twice (process_new_seeds).
ScheduledOnce == \A k \in Kinds : \A i \in Inputs : sched[k][i] <= 1

\* Coverage that counts as seen is that of a seed in the corpus: none is
\* claimed for an input that then is thrown away (is_interesting, update_cov,
\* corpus.add).
CoverageHasSeed ==
  \A k \in Kinds : observed[k] \subseteq UNION {Cov[i] : i \in corpus}

\* The scheduler weighs a seed of its normal corpus only when the coverage
\* file it reads for that is there (save_coverage before scheduler.update).
WeighedWithCoverage == \A i \in Inputs : sched["normal"][i] > 0 => i \in saved

\* When the workers are between batches, every seed has its coverage file and
\* is known to the scheduler: no step of process_new_seeds was left to a worker
\* that did not take it.
Idle == \A w \in Workers : pc[w] = "idle"

SeedsSettled ==
  Idle => /\ corpus \subseteq saved
          /\ \A i \in corpus : \E k \in Kinds : sched[k][i] > 0

\* ... and every crash log that counts as seen was submitted, with the coverage
\* of its input saved (process_povs).
PovsSettled ==
  Idle => /\ solutions \subseteq saved
          /\ \A l \in crashLogs : submitted[l] > 0

\* A crash is submitted once, however many workers find it at the same time
\* (crash_observer).
SubmittedOnce == \A l \in Logs : submitted[l] <= 1

\* What two workers find at the same time is claimed by one of them
\* (process_new_seeds, process_povs).
ClaimedOnce == ScheduledOnce /\ SubmittedOnce

\* Coverage, seed and coverage file belong together at every moment
\* (process_new_seeds).
CoverageOwned == CoverageHasSeed /\ WeighedWithCoverage

\* Nothing that was claimed is left half done (process_new_seeds, process_povs).
Settled == SeedsSettled /\ PovsSettled
=============================================================================
