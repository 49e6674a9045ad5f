---------------------------- MODULE StageCounter ----------------------------
(***************************************************************************)
(* StageCounter of msa/stage/stage.rs: what lets one worker at a time run  *)
(* an expensive stage (MllaStage, SeedShareStage), and only IterCnt times. *)
(*                                                                         *)
(* A worker that finds the counter on switches it off (need_run), does the *)
(* stage's work, and calls set_interval, which switches it on again: after *)
(* an interval, in a thread of its own, or at once after the first run if  *)
(* the stage asks for it.  The counter is behind a RwLock which each       *)
(* function takes more than once, so other workers run between.            *)
(***************************************************************************)
EXTENDS Integers

CONSTANTS
  Workers,      \* the worker threads
  IterCnt,      \* mlla_iter_cnt: runs of the stage altogether
  FirstAtOnce   \* do_not_wait_if_first_run, as the stage passes it

ASSUME CounterAssumption == IterCnt \in Nat \ {0} /\ FirstAtOnce \in BOOLEAN

VARIABLES
  on, firstRun, remain,  \* struct StageCounter
  sleepers,              \* threads of set_interval that sleep
  cpc,                   \* each worker, as far as the counter knows it
  runs                   \* history: how often the work was begun

counterVars == <<on, firstRun, remain, sleepers, cpc, runs>>

CounterTypeOK ==
  /\ on \in BOOLEAN /\ firstRun \in BOOLEAN
  /\ remain \in 0 .. IterCnt - 1
  /\ sleepers \in Nat
  /\ cpc \in [Workers -> {"out", "saw", "in", "first"}]
  /\ runs \in Nat

CounterInit ==
  /\ on = TRUE /\ firstRun = TRUE /\ remain = IterCnt - 1
  /\ sleepers = 0 /\ runs = 0
  /\ cpc = [w \in Workers |-> "out"]

\* need_run: the counter is read and found on
SeeOn(w) ==
  /\ cpc[w] = "out" /\ on
  /\ cpc' = [cpc EXCEPT ![w] = "saw"]
  /\ UNCHANGED <<on, firstRun, remain, sleepers, runs>>

\* need_run that trusts what it read before it had the write lock
TakeRun_NoRecheck(w) ==
  /\ cpc[w] = "saw"
  /\ on' = FALSE
  /\ cpc' = [cpc EXCEPT ![w] = "in"]
  /\ runs' = runs + 1
  /\ UNCHANGED <<firstRun, remain, sleepers>>

\* need_run: still on under the write lock, so this worker runs the stage
TakeRun(w) ==
  /\ cpc[w] = "saw" /\ on
  /\ on' = FALSE
  /\ cpc' = [cpc EXCEPT ![w] = "in"]
  /\ runs' = runs + 1
  /\ UNCHANGED <<firstRun, remain, sleepers>>

\* need_run: another worker was quicker
MissRun(w) ==
  /\ cpc[w] = "saw" /\ ~on
  /\ cpc' = [cpc EXCEPT ![w] = "out"]
  /\ UNCHANGED <<on, firstRun, remain, sleepers, runs>>

\* the run is counted, but the counter comes on even after the last one
DecreaseRemain_Always ==
  /\ remain' = IF remain > 0 THEN remain - 1 ELSE 0
  /\ firstRun' = FALSE /\ on' = TRUE

\* is_first_run left as it was
DecreaseRemain_StillFirst ==
  \/ /\ remain > 0
     /\ remain' = remain - 1 /\ on' = TRUE
     /\ UNCHANGED firstRun
  \/ /\ remain = 0
     /\ UNCHANGED <<on, firstRun, remain>>

DecreaseRemain ==
  \/ /\ remain > 0
     /\ remain' = remain - 1 /\ firstRun' = FALSE /\ on' = TRUE
  \/ /\ remain = 0
     /\ UNCHANGED <<on, firstRun, remain>>

\* set_interval: is_first_run is read, and the interval is not waited for
SkipInterval(w) ==
  /\ cpc[w] = "in" /\ FirstAtOnce /\ firstRun
  /\ cpc' = [cpc EXCEPT ![w] = "first"]
  /\ UNCHANGED <<on, firstRun, remain, sleepers, runs>>

AtOnce(w) ==
  /\ cpc[w] = "first"
  /\ DecreaseRemain
  /\ cpc' = [cpc EXCEPT ![w] = "out"]
  /\ UNCHANGED <<sleepers, runs>>

\* set_interval: a thread is spawned to sleep
StartInterval(w) ==
  /\ cpc[w] = "in" /\ ~(FirstAtOnce /\ firstRun)
  /\ sleepers' = sleepers + 1
  /\ cpc' = [cpc EXCEPT ![w] = "out"]
  /\ UNCHANGED <<on, firstRun, remain, runs>>

IntervalOver ==
  /\ sleepers > 0
  /\ sleepers' = sleepers - 1
  /\ DecreaseRemain
  /\ UNCHANGED <<cpc, runs>>

CounterStep(w) ==
  SeeOn(w) \/ TakeRun(w) \/ MissRun(w) \/ SkipInterval(w) \/ AtOnce(w) \/ StartInterval(w)

CounterNext == (\E w \in Workers : CounterStep(w)) \/ IntervalOver

CounterSpec == CounterInit /\ [][CounterNext]_counterVars

-----------------------------------------------------------------------------
(* Properties. *)

Inside(w) == cpc[w] \in {"in", "first"}

\* One worker at most is between need_run and set_interval: the work of a stage
\* never overlaps with itself, although need_run decides under two locks.
OneRunner == \A v, w \in Workers : Inside(v) /\ Inside(w) => v = w

\* The stage is run IterCnt times at most: runs begun and runs still allowed
\* add up (need_run, decrease_remain).
RunBudget == runs + remain + (IF on THEN 1 ELSE 0) = IterCnt

\* is_first_run tells the worker inside the truth: it is set in the first run
\* and in no other (prepare_mlla_cmd passes it on to the agents).
FirstRunKnown == \A w \in Workers : Inside(w) => (firstRun <=> runs = 1)

\* The number of runs and which one is the first are told rightly at every
\* moment, although they are read and written under several locks.
RunsTold == RunBudget /\ FirstRunKnown
=============================================================================
