------------------------- MODULE WorkerExec_proofs -------------------------
(***************************************************************************)
(* What WorkerExec promises for every block size, every iteration count,   *)
(* every kind of failure and every set of kill points.                     *)
(*                                                                         *)
(* The argument is one of token counting: the start token, the end token   *)
(* and the executor inside a batch (Held) are the same token, which exists *)
(* only while the client is blocked in let_go.                             *)
(*                                                                         *)
(* What becomes of a batch of given inputs comes second: none is passed    *)
(* over, and the channel implements BatchSpec.  execute_input_idx, which   *)
(* outlives the executor, is the number of inputs taken up; the executor's *)
(* own copies of the indices agree with the shared ones wherever it may    *)
(* use them (Copies), and the places from which the block is given back    *)
(* are reached with the indices equal (AllTaken).                          *)
(*                                                                         *)
(* The results come last: a slot that was taken up holds the result of its *)
(* run (Recorded), but for the one whose result is on its way (Open), and  *)
(* a slot that was not holds none.  A kill in just that window breaks it,  *)
(* so this part supposes that there is none (KillsOutsideShare).           *)
(*                                                                         *)
(* At the end the other half of the count: unless a kill falls into the    *)
(* windows around in_loop (KillsOutsideCrossing) there is a token as long  *)
(* as the client waits for one.                                            *)
(***************************************************************************)
EXTENDS WorkerExec, TLAPS

\* 1 when the executor, dead or alive, owns the batch.
Held == IF inLoop \/ epc \in Crossing THEN 1 ELSE 0

\* At most one token, and none unless the client waits for it.
OneToken == startSem + endSem + Held <= IF cpc = "posted" THEN 1 ELSE 0

\* Where the executor stands agrees with in_loop and with pass_wait.
LoopAgrees ==
  /\ epc \in InBatch => inLoop
  /\ epc \in Crossing => ~inLoop
  /\ passWait => epc \in InBatch \cup {"post", "dying"}
  /\ passWait /\ epc = "dying" => inLoop /\ mode # "EXECUTE_INPUT"

\* Where the executor stands agrees with the mode of the batch.
ModeAgrees ==
  /\ epc = "given" => mode = "EXECUTE_INPUT"
  /\ epc \in {"mutate", "iter"} => mode # "EXECUTE_INPUT"
  /\ mode = "EXECUTE_INPUT" /\ epc \in {"target", "leakcheck", "share", "store"} => execIdx > 0

IInv == TypeOK /\ OneToken /\ LoopAgrees /\ ModeAgrees

-----------------------------------------------------------------------------

LEMMA InitIInv == Init => IInv
<1> SUFFICES ASSUME Init PROVE IInv
  OBVIOUS
<1> USE ConstAssumption DEF ConstAssumption
<1>1. TypeOK
  <2>1. inLoop \in BOOLEAN /\ passWait \in BOOLEAN
    BY DEF Init
  <2>2. QED
    BY <2>1 DEF Init, TypeOK, Modes, Locs, Plain, Slots, Outcomes, Verdicts
<1>2. OneToken /\ LoopAgrees /\ ModeAgrees
  BY DEF Init, OneToken, Held, LoopAgrees, ModeAgrees, InBatch, Crossing
<1>3. QED
  BY <1>1, <1>2 DEF IInv

\* Every step of the client, of the executor, and every kill keeps IInv.
LEMMA NextIInv == IInv /\ [Next]_vars => IInv'
<1> SUFFICES ASSUME IInv, [Next]_vars PROVE IInv'
  OBVIOUS
<1> USE ConstAssumption DEF ConstAssumption, IInv
<1>1. ASSUME NEW m \in Modes, SetMode(m) PROVE IInv'
  <2>1. TypeOK'
    <3>1. inLoop' \in BOOLEAN
      BY <1>1 DEF SetMode
    <3>2. QED
      BY <3>1, <1>1 DEF SetMode, ClientFrame, sems, locals, TypeOK, Verdicts
  <2>2. OneToken' /\ LoopAgrees' /\ ModeAgrees'
    BY <1>1 DEF SetMode, ClientFrame, sems, OneToken, Held, LoopAgrees, ModeAgrees, TypeOK,
       InBatch
  <2>3. QED
    BY <2>1, <2>2
<1>2. CASE AllocInput
  <2>1. TypeOK'
    BY <1>2 DEF AllocInput, ClientFrame, sems, locals, TypeOK, Plain, Slots
  <2>2. OneToken' /\ LoopAgrees' /\ ModeAgrees'
    BY <1>2 DEF AllocInput, ClientFrame, sems, OneToken, Held, LoopAgrees, ModeAgrees
  <2>3. QED
    BY <2>1, <2>2
<1>3. ASSUME NEW n \in 1 .. MaxIter, SetIterCnt(n) PROVE IInv'
  <2>1. TypeOK'
    BY <1>3 DEF SetIterCnt, ClientFrame, sems, locals, TypeOK
  <2>2. OneToken' /\ LoopAgrees' /\ ModeAgrees'
    BY <1>3 DEF SetIterCnt, ClientFrame, sems, OneToken, Held, LoopAgrees, ModeAgrees
  <2>3. QED
    BY <2>1, <2>2
<1>4. CASE PostStart
  <2>1. TypeOK'
    BY <1>4 DEF PostStart, ClientFrame, shm, locals, TypeOK
  <2>2. OneToken' /\ LoopAgrees' /\ ModeAgrees'
    BY <1>4 DEF PostStart, ClientFrame, shm, OneToken, Held, LoopAgrees, ModeAgrees, TypeOK
  <2>3. QED
    BY <2>1, <2>2
<1>5. CASE WaitEnd
  <2>1. TypeOK'
    BY <1>5 DEF WaitEnd, ClientFrame, shm, locals, TypeOK
  <2>2. OneToken' /\ LoopAgrees' /\ ModeAgrees'
    BY <1>5 DEF WaitEnd, ClientFrame, shm, OneToken, Held, LoopAgrees, ModeAgrees, TypeOK
  <2>3. QED
    BY <2>1, <2>2
<1>6. CASE ProcessResults
  <2>1. TypeOK'
    BY <1>6 DEF ProcessResults, ClientFrame, sems, locals, TypeOK, Plain
  <2>2. OneToken' /\ LoopAgrees' /\ ModeAgrees'
    BY <1>6 DEF ProcessResults, ClientFrame, sems, OneToken, Held, LoopAgrees, ModeAgrees
  <2>3. QED
    BY <2>1, <2>2
<1>7. CASE Boot
  <2>1. TypeOK'
    BY <1>7 DEF Boot, ExecFrame, shm, sems, locals, TypeOK, Locs
  <2>2. OneToken' /\ LoopAgrees' /\ ModeAgrees'
    BY <1>7 DEF Boot, ExecFrame, shm, sems, OneToken, Held, LoopAgrees, ModeAgrees, InBatch,
       Crossing
  <2>3. QED
    BY <2>1, <2>2
<1>8. CASE WaitStart
  <2>1. TypeOK'
    BY <1>8 DEF WaitStart, ExecFrame, shm, locals, TypeOK, Locs
  <2>2. OneToken' /\ LoopAgrees' /\ ModeAgrees'
    BY <1>8 DEF WaitStart, ExecFrame, shm, OneToken, Held, LoopAgrees, ModeAgrees, TypeOK,
       InBatch
  <2>3. QED
    BY <2>1, <2>2
<1>9. CASE EnterLoop
  <2>1. TypeOK'
    BY <1>9 DEF EnterLoop, ExecFrame, sems, locals, TypeOK, Locs
  <2>2. OneToken' /\ LoopAgrees' /\ ModeAgrees'
    BY <1>9 DEF EnterLoop, ExecFrame, sems, OneToken, Held, LoopAgrees, ModeAgrees, Crossing
  <2>3. QED
    BY <2>1, <2>2
<1>10. CASE ResumeLoop
  <2>1. TypeOK'
    BY <1>10 DEF ResumeLoop, ExecFrame, shm, sems, locals, TypeOK, Locs
  <2>2. OneToken' /\ LoopAgrees' /\ ModeAgrees'
    BY <1>10 DEF ResumeLoop, ExecFrame, shm, sems, OneToken, Held, LoopAgrees, ModeAgrees,
       InBatch, Crossing
  <2>3. QED
    BY <2>1, <2>2
<1>11. CASE Dispatch
  <2>1. TypeOK'
    BY <1>11 DEF Dispatch, ExecFrame, shm, sems, FirstGiven, TypeOK, Locs
  <2>2. OneToken' /\ LoopAgrees' /\ ModeAgrees'
    BY <1>11 DEF Dispatch, ExecFrame, shm, sems, OneToken, Held, LoopAgrees, ModeAgrees,
       InBatch, Crossing
  <2>3. QED
    BY <2>1, <2>2
<1>12. CASE NextGiven
  <2>1. TypeOK'
    BY <1>12 DEF NextGiven, ExecFrame, sems, TypeOK, Locs, Slots, Verdicts
  <2>2. OneToken' /\ LoopAgrees' /\ ModeAgrees'
    BY <1>12 DEF NextGiven, ExecFrame, sems, OneToken, Held, LoopAgrees, ModeAgrees, TypeOK,
       InBatch, Crossing
  <2>3. QED
    BY <2>1, <2>2
<1>13. CASE GivenDone
  <2>1. TypeOK'
    BY <1>13 DEF GivenDone, ExecFrame, shm, sems, locals, TypeOK, Locs
  <2>2. OneToken' /\ LoopAgrees' /\ ModeAgrees'
    BY <1>13 DEF GivenDone, ExecFrame, shm, sems, OneToken, Held, LoopAgrees, ModeAgrees,
       InBatch, Crossing
  <2>3. QED
    BY <2>1, <2>2
<1>14. CASE ConsumeIter
  <2>1. TypeOK'
    BY <1>14 DEF ConsumeIter, ExecFrame, sems, TypeOK, Locs
  <2>2. OneToken' /\ LoopAgrees' /\ ModeAgrees'
    BY <1>14 DEF ConsumeIter, ExecFrame, sems, OneToken, Held, LoopAgrees, ModeAgrees,
       InBatch, Crossing
  <2>3. QED
    BY <2>1, <2>2
<1>15. CASE MutateRun
  <2>1. TypeOK'
    BY <1>15 DEF MutateRun, ExecFrame, shm, sems, TypeOK, Locs
  <2>2. OneToken' /\ LoopAgrees' /\ ModeAgrees'
    BY <1>15 DEF MutateRun, ExecFrame, shm, sems, OneToken, Held, LoopAgrees, ModeAgrees,
       InBatch, Crossing
  <2>3. QED
    BY <2>1, <2>2
<1>16. CASE MutateDone
  <2>1. TypeOK'
    BY <1>16 DEF MutateDone, ExecFrame, shm, sems, locals, TypeOK, Locs
  <2>2. OneToken' /\ LoopAgrees' /\ ModeAgrees'
    BY <1>16 DEF MutateDone, ExecFrame, shm, sems, OneToken, Held, LoopAgrees, ModeAgrees,
       InBatch, Crossing
  <2>3. QED
    BY <2>1, <2>2
<1>17. CASE RunTarget
  <2>1. TypeOK'
    BY <1>17 DEF RunTarget, ExecFrame, shm, sems, SetVerdict, FailHere, TypeOK,
       Locs, Outcomes, Verdicts
  <2>2. OneToken' /\ LoopAgrees' /\ ModeAgrees'
    BY <1>17 DEF RunTarget, ExecFrame, shm, sems, OneToken, Held, LoopAgrees, ModeAgrees,
       InBatch, Crossing
  <2>3. QED
    BY <2>1, <2>2
<1>18. CASE LeakCheck
  <2>1. TypeOK'
    BY <1>18 DEF LeakCheck, ExecFrame, shm, sems, Resume, SetVerdict, FailHere,
       TypeOK, Locs, Outcomes, Verdicts
  <2>2. OneToken' /\ LoopAgrees' /\ ModeAgrees'
    BY <1>18 DEF LeakCheck, ExecFrame, shm, sems, Resume, OneToken, Held, LoopAgrees,
       ModeAgrees, InBatch, Crossing
  <2>3. QED
    BY <2>1, <2>2
<1>19. CASE ShareCorpus
  <2>1. TypeOK'
    BY <1>19 DEF ShareCorpus, sems, ShareFails, TypeOK, Locs, Slots, Verdicts, ModeAgrees
  <2>2. OneToken' /\ LoopAgrees' /\ ModeAgrees'
    BY <1>19 DEF ShareCorpus, sems, ShareFails, OneToken, Held, LoopAgrees, ModeAgrees,
       InBatch, Crossing
  <2>3. QED
    BY <2>1, <2>2
<1>20. CASE StoreResult
  <2>1. TypeOK'
    BY <1>20 DEF StoreResult, ExecFrame, sems, locals, TypeOK, Locs, Plain, Outcomes
  <2>2. OneToken' /\ LoopAgrees' /\ ModeAgrees'
    BY <1>20 DEF StoreResult, ExecFrame, sems, OneToken, Held, LoopAgrees, ModeAgrees,
       InBatch, Crossing
  <2>3. QED
    BY <2>1, <2>2
<1>21. CASE ExitShm
  <2>1. TypeOK'
    BY <1>21 DEF ExitShm, ExecFrame, shm, sems, locals, TypeOK, Locs
  <2>2. OneToken' /\ LoopAgrees' /\ ModeAgrees'
    BY <1>21 DEF ExitShm, ExecFrame, shm, sems, OneToken, Held, LoopAgrees, ModeAgrees,
       InBatch, Crossing
  <2>3. QED
    BY <2>1, <2>2
<1>22. CASE LeaveLoop
  <2>1. TypeOK'
    BY <1>22 DEF LeaveLoop, ExecFrame, sems, locals, TypeOK, Locs
  <2>2. OneToken' /\ LoopAgrees' /\ ModeAgrees'
    BY <1>22 DEF LeaveLoop, ExecFrame, sems, OneToken, Held, LoopAgrees, ModeAgrees, TypeOK,
       InBatch
  <2>3. QED
    BY <2>1, <2>2
<1>23. CASE PostEnd
  <2>1. TypeOK'
    <3>1. passWait' \in BOOLEAN
      BY <1>23 DEF PostEnd
    <3>2. QED
      BY <3>1, <1>23 DEF PostEnd, ExecFrame, shm, locals, TypeOK, Locs
  <2>2. OneToken' /\ LoopAgrees' /\ ModeAgrees'
    BY <1>23 DEF PostEnd, ExecFrame, shm, OneToken, Held, LoopAgrees, ModeAgrees, TypeOK,
       InBatch, Crossing
  <2>3. QED
    BY <2>1, <2>2
<1>24. CASE Die
  <2>1. TypeOK'
    <3>1. passWait' \in BOOLEAN
      BY <1>24 DEF Die
    <3>2. QED
      BY <3>1, <1>24 DEF Die, ExecFrame, shm, sems, locals, LocalsReset, TypeOK, Locs,
         Slots, Outcomes
  <2>2. OneToken' /\ LoopAgrees' /\ ModeAgrees'
    BY <1>24 DEF Die, ExecFrame, shm, sems, OneToken, Held, LoopAgrees, ModeAgrees, InBatch,
       Crossing
  <2>3. QED
    BY <2>1, <2>2
<1>25. CASE Restart
  <2>1. TypeOK'
    BY <1>25 DEF Restart, ExecFrame, shm, sems, locals, TypeOK, Locs
  <2>2. OneToken' /\ LoopAgrees' /\ ModeAgrees'
    BY <1>25 DEF Restart, ExecFrame, shm, sems, OneToken, Held, LoopAgrees, ModeAgrees,
       InBatch, Crossing
  <2>3. QED
    BY <2>1, <2>2
<1>26. CASE Kill
  <2>1. TypeOK'
    <3>1. passWait' \in BOOLEAN
      BY <1>26 DEF Kill
    <3>2. QED
      BY <3>1, <1>26 DEF Kill, shm, sems, LocalsReset, TypeOK, Locs, Slots, Outcomes
  <2>2. OneToken' /\ LoopAgrees' /\ ModeAgrees'
    BY <1>26 DEF Kill, shm, sems, OneToken, Held, LoopAgrees, ModeAgrees, TypeOK, InBatch,
       Crossing
  <2>3. QED
    BY <2>1, <2>2
<1>27. CASE UNCHANGED vars
  BY <1>27 DEF vars, shm, sems, locals, TypeOK, OneToken, Held, LoopAgrees, ModeAgrees
<1>28. QED
  BY <1>1, <1>2, <1>3, <1>4, <1>5, <1>6, <1>7, <1>8, <1>9, <1>10, <1>11, <1>12, <1>13, <1>14,
     <1>15, <1>16, <1>17, <1>18, <1>19, <1>20, <1>21, <1>22, <1>23, <1>24, <1>25, <1>26, <1>27
     DEF Next, Client, Executor

-----------------------------------------------------------------------------

LEMMA SpecIInv == Spec => []IInv
  BY InitIInv, NextIInv, PTL DEF Spec

\* Types: in particular no index leaves the block of the worker
\* (alloc_input, alloc_executed_input, RunGivenInputs).
THEOREM TypeCorrect == Spec => []TypeOK
<1>1. IInv => TypeOK
  BY DEF IInv
<1>2. QED
  BY <1>1, SpecIInv, PTL

\* The block of slots has one owner: while the client fills it or reads it, no
\* executor works on it or can start to, wherever executors crashed or were
\* killed (let_go, WaitShm, EndShm, pass_wait).
THEOREM BlockOwnership == Spec => []ClientOwnsBlock
<1>1. IInv => ClientOwnsBlock
  BY DEF IInv, ClientOwnsBlock, OneToken, Held, LoopAgrees, TypeOK
<1>2. QED
  BY <1>1, SpecIInv, PTL

-----------------------------------------------------------------------------
(* Batches of given inputs. *)

GivenBatch == mode = "EXECUTE_INPUT"

\* Locations of the executor between taking up an input and the next.
OneRun == {"target", "leakcheck", "share", "store"}

\* The indices in shared memory; a block being filled has no executed input.
Indices ==
  /\ GivenBatch => execIdx <= allocIdx
  /\ cpc = "prep" => execIdx = 0

\* The executor's copies of the indices.
Copies == GivenBatch /\ epc \in OneRun \cup {"given"} => limit = allocIdx /\ cur = execIdx

\* The batch is left, given back and read with nothing remaining.
AllTaken ==
  GivenBatch /\ (epc \in {"leave", "post"} \/ endSem > 0 \/ cpc = "collect") => execIdx = allocIdx

\* Whatever was taken up has begun.
AllBegun == GivenBatch => \A i \in Slots : i < execIdx => verdict[i] # "none"

BInv == Indices /\ Copies /\ AllTaken /\ AllBegun

-----------------------------------------------------------------------------

LEMMA InitBInv == Init => BInv
<1> SUFFICES ASSUME Init PROVE BInv
  OBVIOUS
<1>1. QED
  BY DEF Init, BInv, GivenBatch, OneRun, Indices, Copies, AllTaken, AllBegun

\* Every step keeps BInv, given that it keeps the token invariant.
LEMMA NextBInv == IInv /\ BInv /\ [Next]_vars => BInv'
<1> SUFFICES ASSUME IInv, BInv, [Next]_vars PROVE BInv'
  OBVIOUS
<1> USE ConstAssumption DEF ConstAssumption, BInv, IInv, GivenBatch
<1>1. ASSUME NEW m \in Modes, SetMode(m) PROVE BInv'
  <2>1. Indices' /\ Copies' /\ AllTaken'
    BY <1>1 DEF SetMode, ClientFrame, TypeOK, OneToken, Held, LoopAgrees, InBatch, OneRun,
       Indices, Copies, AllTaken
  <2>2. AllBegun'
    BY <1>1 DEF SetMode, Slots, AllBegun
  <2>3. QED
    BY <2>1, <2>2
<1>2. CASE AllocInput
  <2>1. Indices' /\ Copies' /\ AllTaken'
    BY <1>2 DEF AllocInput, ClientFrame, sems, TypeOK, OneToken, Held, LoopAgrees, InBatch,
       Crossing, OneRun, Indices, Copies, AllTaken
  <2>2. AllBegun'
    BY <1>2 DEF AllocInput, AllBegun
  <2>3. QED
    BY <2>1, <2>2
<1>3. ASSUME NEW n \in 1 .. MaxIter, SetIterCnt(n) PROVE BInv'
  <2>1. Indices' /\ Copies' /\ AllTaken'
    BY <1>3 DEF SetIterCnt, Indices, Copies, AllTaken
  <2>2. AllBegun'
    BY <1>3 DEF SetIterCnt, AllBegun
  <2>3. QED
    BY <2>1, <2>2
<1>4. CASE PostStart
  <2>1. Indices' /\ Copies' /\ AllTaken'
    BY <1>4 DEF PostStart, ClientFrame, shm, locals, Indices, Copies, AllTaken
  <2>2. AllBegun'
    BY <1>4 DEF PostStart, shm, AllBegun
  <2>3. QED
    BY <2>1, <2>2
<1>5. CASE WaitEnd
  <2>1. Indices' /\ Copies' /\ AllTaken'
    BY <1>5 DEF WaitEnd, ClientFrame, shm, locals, Indices, Copies, AllTaken
  <2>2. AllBegun'
    BY <1>5 DEF WaitEnd, shm, AllBegun
  <2>3. QED
    BY <2>1, <2>2
<1>6. CASE ProcessResults
  <2>1. Indices' /\ Copies' /\ AllTaken'
    BY <1>6 DEF ProcessResults, ClientFrame, locals, Indices, Copies, AllTaken
  <2>2. AllBegun'
    BY <1>6 DEF ProcessResults, AllBegun
  <2>3. QED
    BY <2>1, <2>2
<1>7. CASE Boot
  <2>1. Indices' /\ Copies' /\ AllTaken'
    BY <1>7 DEF Boot, ExecFrame, shm, sems, OneRun, Indices, Copies, AllTaken
  <2>2. AllBegun'
    BY <1>7 DEF Boot, shm, AllBegun
  <2>3. QED
    BY <2>1, <2>2
<1>8. CASE WaitStart
  <2>1. Indices' /\ Copies' /\ AllTaken'
    BY <1>8 DEF WaitStart, ExecFrame, shm, OneRun, Indices, Copies, AllTaken
  <2>2. AllBegun'
    BY <1>8 DEF WaitStart, shm, AllBegun
  <2>3. QED
    BY <2>1, <2>2
<1>9. CASE EnterLoop
  <2>1. Indices' /\ Copies' /\ AllTaken'
    BY <1>9 DEF EnterLoop, ExecFrame, sems, OneRun, Indices, Copies, AllTaken
  <2>2. AllBegun'
    BY <1>9 DEF EnterLoop, AllBegun
  <2>3. QED
    BY <2>1, <2>2
<1>10. CASE ResumeLoop
  <2>1. Indices' /\ Copies' /\ AllTaken'
    BY <1>10 DEF ResumeLoop, ExecFrame, shm, sems, OneRun, Indices, Copies, AllTaken
  <2>2. AllBegun'
    BY <1>10 DEF ResumeLoop, shm, AllBegun
  <2>3. QED
    BY <2>1, <2>2
<1>11. CASE Dispatch
  <2>1. Indices' /\ Copies' /\ AllTaken'
    BY <1>11 DEF Dispatch, ExecFrame, FirstGiven, shm, sems, Indices, Copies, AllTaken
  <2>2. AllBegun'
    BY <1>11 DEF Dispatch, shm, AllBegun
  <2>3. QED
    BY <2>1, <2>2
<1>12. CASE NextGiven
  <2>1. Indices' /\ Copies' /\ AllTaken'
    BY <1>12 DEF NextGiven, ExecFrame, sems, TypeOK, OneToken, Held, LoopAgrees, InBatch,
       Indices, Copies, AllTaken
  <2>2. AllBegun'
    BY <1>12 DEF NextGiven, TypeOK, Slots, Copies, AllBegun
  <2>3. QED
    BY <2>1, <2>2
<1>13. CASE GivenDone
  <2>1. Indices' /\ Copies' /\ AllTaken'
    BY <1>13 DEF GivenDone, ExecFrame, shm, locals, TypeOK, Indices, Copies, AllTaken
  <2>2. AllBegun'
    BY <1>13 DEF GivenDone, shm, AllBegun
  <2>3. QED
    BY <2>1, <2>2
<1>14. CASE ConsumeIter
  <2>1. Indices' /\ Copies' /\ AllTaken'
    BY <1>14 DEF ConsumeIter, ExecFrame, ModeAgrees, Indices, Copies, AllTaken
  <2>2. AllBegun'
    BY <1>14 DEF ConsumeIter, AllBegun
  <2>3. QED
    BY <2>1, <2>2
<1>15. CASE MutateRun
  <2>1. Indices' /\ Copies' /\ AllTaken'
    BY <1>15 DEF MutateRun, ExecFrame, shm, ModeAgrees, Indices, Copies, AllTaken
  <2>2. AllBegun'
    BY <1>15 DEF MutateRun, shm, AllBegun
  <2>3. QED
    BY <2>1, <2>2
<1>16. CASE MutateDone
  <2>1. Indices' /\ Copies' /\ AllTaken'
    BY <1>16 DEF MutateDone, ExecFrame, shm, ModeAgrees, Indices, Copies, AllTaken
  <2>2. AllBegun'
    BY <1>16 DEF MutateDone, shm, AllBegun
  <2>3. QED
    BY <2>1, <2>2
<1>17. CASE RunTarget
  <2>1. Indices' /\ Copies' /\ AllTaken'
    BY <1>17 DEF RunTarget, ExecFrame, shm, sems, OneRun, Indices, Copies, AllTaken
  <2>2. AllBegun'
    BY <1>17 DEF RunTarget, SetVerdict, FailHere, shm, TypeOK, AllBegun
  <2>3. QED
    BY <2>1, <2>2
<1>18. CASE LeakCheck
  <2>1. Indices' /\ Copies' /\ AllTaken'
    BY <1>18 DEF LeakCheck, ExecFrame, Resume, shm, sems, OneRun, Indices, Copies, AllTaken
  <2>2. AllBegun'
    BY <1>18 DEF LeakCheck, SetVerdict, FailHere, shm, TypeOK, AllBegun
  <2>3. QED
    BY <2>1, <2>2
<1>19. CASE ShareCorpus
  <2>1. Indices' /\ Copies' /\ AllTaken'
    BY <1>19 DEF ShareCorpus, sems, TypeOK, OneToken, Held, LoopAgrees, InBatch, OneRun,
       Indices, Copies, AllTaken
  <2>2. AllBegun'
    BY <1>19 DEF ShareCorpus, AllBegun
  <2>3. QED
    BY <2>1, <2>2
<1>20. CASE StoreResult
  <2>1. Indices' /\ Copies' /\ AllTaken'
    BY <1>20 DEF StoreResult, ExecFrame, sems, locals, OneRun, Indices, Copies, AllTaken
  <2>2. AllBegun'
    BY <1>20 DEF StoreResult, AllBegun
  <2>3. QED
    BY <2>1, <2>2
<1>21. CASE ExitShm
  <2>1. Indices' /\ Copies' /\ AllTaken'
    BY <1>21 DEF ExitShm, ExecFrame, shm, sems, OneRun, Indices, Copies, AllTaken
  <2>2. AllBegun'
    BY <1>21 DEF ExitShm, shm, AllBegun
  <2>3. QED
    BY <2>1, <2>2
<1>22. CASE LeaveLoop
  <2>1. Indices' /\ Copies' /\ AllTaken'
    BY <1>22 DEF LeaveLoop, ExecFrame, OneRun, Indices, Copies, AllTaken
  <2>2. AllBegun'
    BY <1>22 DEF LeaveLoop, AllBegun
  <2>3. QED
    BY <2>1, <2>2
<1>23. CASE PostEnd
  <2>1. Indices' /\ Copies' /\ AllTaken'
    BY <1>23 DEF PostEnd, ExecFrame, shm, OneRun, Indices, Copies, AllTaken
  <2>2. AllBegun'
    BY <1>23 DEF PostEnd, shm, AllBegun
  <2>3. QED
    BY <2>1, <2>2
<1>24. CASE Die
  <2>1. Indices' /\ Copies' /\ AllTaken'
    BY <1>24 DEF Die, ExecFrame, shm, sems, LoopAgrees, OneRun, Indices, Copies, AllTaken
  <2>2. AllBegun'
    BY <1>24 DEF Die, shm, AllBegun
  <2>3. QED
    BY <2>1, <2>2
<1>25. CASE Restart
  <2>1. Indices' /\ Copies' /\ AllTaken'
    BY <1>25 DEF Restart, ExecFrame, shm, sems, OneRun, Indices, Copies, AllTaken
  <2>2. AllBegun'
    BY <1>25 DEF Restart, shm, AllBegun
  <2>3. QED
    BY <2>1, <2>2
<1>26. CASE Kill
  <2>1. Indices' /\ Copies' /\ AllTaken'
    BY <1>26 DEF Kill, shm, sems, OneRun, Indices, Copies, AllTaken
  <2>2. AllBegun'
    BY <1>26 DEF Kill, shm, AllBegun
  <2>3. QED
    BY <2>1, <2>2
<1>27. CASE UNCHANGED vars
  BY <1>27 DEF vars, shm, sems, locals, Indices, Copies, AllTaken, AllBegun
<1>28. QED
  BY <1>1, <1>2, <1>3, <1>4, <1>5, <1>6, <1>7, <1>8, <1>9, <1>10, <1>11, <1>12, <1>13, <1>14,
     <1>15, <1>16, <1>17, <1>18, <1>19, <1>20, <1>21, <1>22, <1>23, <1>24, <1>25, <1>26, <1>27
     DEF Next, Client, Executor

LEMMA SpecBInv == Spec => [](IInv /\ BInv)
  BY InitIInv, NextIInv, InitBInv, NextBInv, PTL DEF Spec

-----------------------------------------------------------------------------

\* When a batch of given inputs comes back, every loaded input was taken up,
\* wherever the executor crashed or was killed (ExitShm, RunGivenInputs).
THEOREM NothingPassedOver == Spec => []BatchComplete
<1>1. IInv /\ BInv => BatchComplete
  BY DEF BInv, GivenBatch, BatchComplete, AllTaken, AllBegun
<1>2. QED
  BY <1>1, SpecBInv, PTL

-----------------------------------------------------------------------------
(* Results.                                                                  *)

\* The result of slot i is that of its run, and no result when the run was cut
\* short or had nothing to report.
Recorded(i) ==
  verdict[i] # "none" /\ result[i] = IF verdict[i] \in Outcomes THEN verdict[i] ELSE "WAIT"

\* The run of slot i is over and its result on the way into the slot.
Open(i) == i = execIdx - 1 /\ (epc = "store" \/ (GivenBatch /\ epc = "share"))

\* From set_mode until the results have been read.
Written == \A i \in Slots : i < execIdx => Recorded(i) \/ Open(i)
Blank   == GivenBatch => \A i \in Slots : execIdx <= i /\ i < allocIdx => result[i] = "WAIT"
AtRun   ==
  /\ GivenBatch /\ epc = "target" => verdict[execIdx - 1] = "begun"
  /\ GivenBatch /\ epc = "share" => verdict[execIdx - 1] = outcome
  /\ epc = "store" => slot = execIdx - 1 /\ verdict[slot] = outcome

RInv == cpc # "idle" => Written /\ Blank /\ AtRun

\* No kill while a result is on its way into its slot.
KillsOutsideShare == KillAt \cap {"share", "store"} = {}

-----------------------------------------------------------------------------

\* "begun", "quiet" and "none" are no outcomes.
LEMMA NoOutcome == {"none", "begun", "quiet"} \cap Outcomes = {}
BY ConstAssumption DEF Outcomes

\* The executor is at a run only while the client waits.
LEMMA AtRunPosted ==
  ASSUME IInv
  PROVE  epc \in InBatch => cpc = "posted"
BY DEF IInv, OneToken, Held, LoopAgrees, TypeOK

\* The steps of the client.
LEMMA ClientRInv ==
  ASSUME IInv, BInv, RInv, Client
  PROVE  RInv'
<1>0. epc \notin {"target", "share", "store"} \/ cpc = "posted"
  BY AtRunPosted DEF InBatch
<1>1. ASSUME NEW m \in Modes, SetMode(m) PROVE RInv'
  <2>1. execIdx' = 0 /\ allocIdx' = 0 /\ epc' \notin {"target", "share", "store"}
    BY <1>0, <1>1 DEF SetMode, ClientFrame
  <2>2. QED
    BY <2>1 DEF RInv, Written, Blank, AtRun, Slots
<1>2. CASE AllocInput
  <2>1. /\ cpc = "prep" /\ execIdx = 0 /\ epc' \notin {"target", "share", "store"}
        /\ execIdx' = execIdx /\ allocIdx' = allocIdx + 1 /\ allocIdx \in Nat
        /\ result' = [result EXCEPT ![allocIdx] = "WAIT"]
        /\ result \in [Slots -> Plain \cup FailKinds] /\ GivenBatch
    BY <1>0, <1>2, ConstAssumption DEF AllocInput, ClientFrame, BInv, Indices, IInv, TypeOK, GivenBatch
  <2>2. Written' /\ AtRun'
    BY <2>1 DEF Written, AtRun, Slots
  <2>3. \A i \in Slots : 0 <= i /\ i < allocIdx => result[i] = "WAIT"
    BY <2>1 DEF RInv, Blank
  <2>4. \A i \in Slots : 0 <= i /\ i < allocIdx + 1 => result'[i] = "WAIT"
    <3>1. \A i \in Slots : i \in Int /\ (i < allocIdx + 1 => i < allocIdx \/ i = allocIdx)
      BY <2>1 DEF Slots
    <3>2. QED
      BY <2>1, <2>3, <3>1
  <2>5. QED
    BY <2>1, <2>2, <2>4 DEF RInv, Blank
<1>3. ASSUME NEW n \in 1 .. MaxIter, SetIterCnt(n) PROVE RInv'
  BY <1>3 DEF SetIterCnt, ClientFrame, locals, RInv, Written, Blank, AtRun, Recorded, Open,
     GivenBatch
<1>4. CASE PostStart \/ WaitEnd
  BY <1>4 DEF PostStart, WaitEnd, ClientFrame, shm, locals, RInv, Written, Blank, AtRun, Recorded,
     Open, GivenBatch
<1>5. CASE ProcessResults
  BY <1>5 DEF ProcessResults, RInv
<1>6. QED
  BY <1>1, <1>2, <1>3, <1>4, <1>5 DEF Client

\* The executor, on its way to a run and from it, touches no result.
LEMMA AwayRInv ==
  ASSUME IInv, RInv,
         UNCHANGED <<cpc, mode, allocIdx, execIdx, result, verdict>>,
         epc' \notin {"target", "share", "store"} \/ (~ GivenBatch /\ epc' # "store"),
         ~ Open(execIdx - 1)
  PROVE  RInv'
<1>1. Written' /\ Blank' <=> Written /\ Blank
  BY DEF Written, Blank, Recorded, Open, GivenBatch
<1>2. AtRun'
  BY DEF AtRun, GivenBatch
<1>3. QED
  BY <1>1, <1>2 DEF RInv

LEMMA NextGivenRInv ==
  ASSUME IInv, BInv, RInv, NextGiven
  PROVE  RInv'
<1>1. cpc = "posted" /\ GivenBatch /\ cur = execIdx /\ limit = allocIdx /\ cur < limit
  BY AtRunPosted DEF NextGiven, BInv, Copies, IInv, ModeAgrees, GivenBatch, InBatch
<1>2. /\ UNCHANGED <<cpc, mode, allocIdx, result>> /\ execIdx' = execIdx + 1 /\ epc' = "target"
      /\ verdict' = [verdict EXCEPT ![execIdx] = "begun"] /\ epc = "given"
  BY <1>1 DEF NextGiven, ExecFrame
<1>3. execIdx \in Slots /\ execIdx \in Nat /\ allocIdx \in Nat /\ Cap \in Nat
  BY <1>1, ConstAssumption DEF IInv, TypeOK, Slots
<1>4. verdict'[execIdx] = "begun" /\ result'[execIdx] = "WAIT"
  BY <1>1, <1>2, <1>3 DEF IInv, TypeOK, RInv, Blank
<1>5. ASSUME NEW i \in Slots, i < execIdx' PROVE Recorded(i)'
  <2>1. CASE i = execIdx
    BY <1>4, <2>1, NoOutcome DEF Recorded
  <2>2. CASE i # execIdx
    <3>1. i < execIdx
      BY <1>2, <1>3, <1>5, <2>2 DEF Slots
    <3>2. Recorded(i) /\ verdict'[i] = verdict[i] /\ result'[i] = result[i]
      BY <1>1, <1>2, <2>2, <3>1 DEF RInv, Written, Open, IInv, TypeOK
    <3>3. QED
      BY <3>2 DEF Recorded
  <2>3. QED
    BY <2>1, <2>2
<1>6. Blank'
  BY <1>1, <1>2, <1>3 DEF RInv, Blank, GivenBatch, Slots
<1>7. AtRun'
  BY <1>2, <1>3, <1>4 DEF AtRun
<1>8. QED
  BY <1>5, <1>6, <1>7 DEF RInv, Written

\* The run of slot e is over, with verdict v.
LEMMA VerdictRInv ==
  ASSUME IInv, RInv, epc \in {"target", "leakcheck"}, NEW v, SetVerdict(v), epc' \in {"share", "leakcheck"},
         UNCHANGED <<cpc, mode, allocIdx, execIdx, result, slot>>,
         epc' = "share" => v = outcome',
         epc' = "leakcheck" => v = "quiet" /\ epc = "target"
  PROVE  RInv'
<1>1. cpc = "posted"
  BY AtRunPosted DEF InBatch
<1>2. Blank'
  BY <1>1 DEF RInv, Blank, GivenBatch
<1>3. CASE ~ GivenBatch
  <2>1. verdict' = verdict
    BY <1>3 DEF SetVerdict, GivenBatch
  <2>2. Written'
    BY <1>1, <1>3, <2>1 DEF RInv, Written, Recorded, Open, GivenBatch
  <2>3. AtRun'
    BY <1>3 DEF AtRun, GivenBatch
  <2>4. QED
    BY <1>2, <2>2, <2>3 DEF RInv
<1>4. CASE GivenBatch
  <2>1. execIdx - 1 \in Slots /\ execIdx \in Nat
    BY <1>4, ConstAssumption DEF IInv, ModeAgrees, TypeOK, Slots, GivenBatch
  <2>2. verdict' = [verdict EXCEPT ![execIdx - 1] = v] /\ verdict \in [Slots -> Verdicts]
    BY <1>4 DEF SetVerdict, GivenBatch, IInv, TypeOK
  <2>3. verdict'[execIdx - 1] = v
    BY <2>1, <2>2
  <2>4. ASSUME NEW i \in Slots, i < execIdx PROVE Recorded(i)' \/ Open(i)'
    <3>1. Recorded(i)
      BY <1>1, <2>4 DEF RInv, Written, Open
    <3>2. CASE i # execIdx - 1
      <4>1. verdict'[i] = verdict[i]
        BY <2>1, <2>2, <3>2
      <4>2. QED
        BY <3>1, <4>1 DEF Recorded
    <3>3. CASE i = execIdx - 1 /\ epc' = "share"
      BY <1>4, <3>3 DEF Open, GivenBatch
    <3>4. CASE i = execIdx - 1 /\ epc' = "leakcheck"
      <4>1. verdict[i] = "begun" /\ verdict'[i] = "quiet"
        BY <1>1, <1>4, <2>3, <3>4 DEF RInv, AtRun
      <4>2. QED
        BY <3>1, <4>1, NoOutcome DEF Recorded
    <3>5. QED
      BY <3>2, <3>3, <3>4
  <2>5. Written'
    BY <2>4 DEF Written
  <2>6. AtRun'
    BY <2>3 DEF AtRun
  <2>7. QED
    BY <1>2, <2>5, <2>6 DEF RInv
<1>5. QED
  BY <1>3, <1>4

LEMMA ShareRInv ==
  ASSUME IInv, RInv, ShareCorpus
  PROVE  RInv'
<1>1. cpc = "posted" /\ UNCHANGED <<cpc, mode, allocIdx, result, outcome>> /\ epc = "share"
  BY AtRunPosted DEF InBatch, ShareCorpus
<1>2. CASE GivenBatch
  <2>1. slot' = execIdx - 1 /\ epc' = "store" /\ UNCHANGED <<execIdx, verdict>>
    BY <1>2 DEF ShareCorpus, GivenBatch
  <2>2. Written'
    BY <1>1, <1>2, <2>1 DEF RInv, Written, Recorded, Open
  <2>3. Blank' /\ AtRun'
    BY <1>1, <1>2, <2>1 DEF RInv, Blank, AtRun, GivenBatch
  <2>4. QED
    BY <2>2, <2>3 DEF RInv
<1>3. CASE ~ GivenBatch /\ execIdx' = execIdx
  <2>1. epc' \in {"leakcheck", "dying"} /\ verdict' = verdict
    BY <1>3 DEF ShareCorpus, ShareFails, GivenBatch, IInv, TypeOK
  <2>2. ~ Open(execIdx - 1)
    BY <1>1, <1>3 DEF Open
  <2>3. QED
    BY <1>1, <1>3, <2>1, <2>2, AwayRInv
<1>4. CASE ~ GivenBatch /\ execIdx' # execIdx
  <2>1. /\ slot' = execIdx /\ execIdx' = execIdx + 1 /\ execIdx < Cap /\ epc' = "store"
        /\ verdict' = [verdict EXCEPT ![execIdx] = outcome]
    BY <1>4 DEF ShareCorpus, ShareFails, GivenBatch
  <2>2. execIdx \in Slots /\ execIdx \in Nat /\ verdict \in [Slots -> Verdicts]
    BY <2>1, ConstAssumption DEF IInv, TypeOK, Slots
  <2>3. ASSUME NEW i \in Slots, i < execIdx' PROVE Recorded(i)' \/ Open(i)'
    <3>1. CASE i = execIdx
      BY <2>1, <2>2, <3>1 DEF Open
    <3>2. CASE i # execIdx
      <4>1. i < execIdx
        BY <2>1, <2>2, <2>3, <3>2 DEF Slots
      <4>2. Recorded(i) /\ verdict'[i] = verdict[i]
        BY <1>1, <1>4, <2>1, <2>2, <3>2, <4>1 DEF RInv, Written, Open
      <4>3. QED
        BY <1>1, <4>2 DEF Recorded
    <3>3. QED
      BY <3>1, <3>2
  <2>4. Blank'
    BY <1>1, <1>4 DEF Blank, GivenBatch
  <2>5. AtRun'
    <3>1. verdict'[slot'] = outcome' /\ slot' = execIdx' - 1
      BY <1>1, <2>1, <2>2
    <3>2. QED
      BY <2>1, <3>1 DEF AtRun
  <2>6. QED
    BY <2>3, <2>4, <2>5 DEF RInv, Written
<1>5. QED
  BY <1>2, <1>3, <1>4

LEMMA StoreRInv ==
  ASSUME IInv, RInv, StoreResult
  PROVE  RInv'
<1>1. /\ cpc = "posted" /\ UNCHANGED <<cpc, mode, allocIdx, execIdx, verdict>> /\ epc = "store"
      /\ result' = [result EXCEPT ![slot] = outcome] /\ epc' \in {"leakcheck", "exitshm"}
  BY AtRunPosted DEF InBatch, StoreResult, ExecFrame
<1>2. slot = execIdx - 1 /\ verdict[slot] = outcome
  BY <1>1 DEF RInv, AtRun
<1>3. slot \in Slots /\ result'[slot] = outcome /\ outcome \in Outcomes /\ execIdx \in Nat
  BY <1>1, ConstAssumption DEF IInv, TypeOK
<1>4. ASSUME NEW i \in Slots, i < execIdx PROVE Recorded(i)'
  <2>1. CASE i = slot
    BY <1>1, <1>2, <1>3, <2>1, NoOutcome DEF Recorded
  <2>2. CASE i # slot
    <3>1. Recorded(i) /\ result'[i] = result[i]
      BY <1>1, <1>2, <1>4, <2>2 DEF RInv, Written, Open, IInv, TypeOK
    <3>2. QED
      BY <1>1, <3>1 DEF Recorded
  <2>3. QED
    BY <2>1, <2>2
<1>5. Blank'
  <2>1. \A i \in Slots : execIdx <= i => i # slot
    BY <1>2, <1>3 DEF Slots
  <2>2. \A i \in Slots : i # slot => result'[i] = result[i]
    BY <1>1 DEF IInv, TypeOK
  <2>3. QED
    BY <1>1, <2>1, <2>2 DEF RInv, Blank, GivenBatch
<1>6. AtRun'
  BY <1>1 DEF AtRun
<1>7. QED
  BY <1>1, <1>4, <1>5, <1>6 DEF RInv, Written

LEMMA ExecutorRInv ==
  ASSUME IInv, BInv, RInv, Executor
  PROVE  RInv'
<1> USE DEF ExecFrame, shm
<1>1. CASE Boot \/ WaitStart \/ EnterLoop \/ ResumeLoop \/ GivenDone \/ ConsumeIter \/ MutateDone
           \/ ExitShm \/ LeaveLoop \/ PostEnd \/ Restart
  <2>1. UNCHANGED <<cpc, mode, allocIdx, execIdx, result, verdict>>
    BY <1>1, Zenon DEF Boot, WaitStart, EnterLoop, ResumeLoop, GivenDone, ConsumeIter, MutateDone,
       ExitShm, LeaveLoop, PostEnd, Restart
  <2>2. epc \notin {"share", "store"} /\ epc' \notin {"target", "share", "store"}
    BY <1>1 DEF Boot, WaitStart, EnterLoop, ResumeLoop, GivenDone, ConsumeIter, MutateDone,
       ExitShm, LeaveLoop, PostEnd, Restart
  <2>3. QED
    BY <2>1, <2>2, AwayRInv DEF Open
<1>2. CASE Dispatch \/ MutateRun \/ Die
  <2>1. UNCHANGED <<cpc, mode, allocIdx, execIdx, result, verdict>>
    BY <1>2, Zenon DEF Dispatch, MutateRun, Die
  <2>2. epc \notin {"share", "store"}
    BY <1>2 DEF Dispatch, MutateRun, Die
  <2>3. epc' # "store" /\ (epc' \in {"target", "share"} => ~ GivenBatch)
    BY <1>2 DEF Dispatch, MutateRun, Die, IInv, ModeAgrees, LoopAgrees, GivenBatch
  <2>4. QED
    BY <2>1, <2>2, <2>3, AwayRInv DEF Open
<1>3. CASE RunTarget
  <2>1. \/ SetVerdict("quiet") /\ epc' = "leakcheck"
        \/ \E o \in FailHere \cup {"NORMAL"} : SetVerdict(o) /\ outcome' = o /\ epc' = "share"
    BY <1>3 DEF RunTarget
  <2>2. epc = "target" /\ UNCHANGED <<cpc, mode, allocIdx, execIdx, result, slot>>
    BY <1>3 DEF RunTarget
  <2>3. QED
    BY <2>1, <2>2, VerdictRInv
<1>4. CASE LeakCheck
  <2>1. /\ epc = "leakcheck" /\ UNCHANGED <<cpc, mode, allocIdx, execIdx, result, slot>>
        /\ \/ epc' = Resume /\ verdict' = verdict
           \/ \E o \in FailHere : SetVerdict(o) /\ outcome' = o /\ epc' = "share"
    BY <1>4 DEF LeakCheck
  <2>2. CASE epc' = Resume /\ verdict' = verdict
    BY <2>1, <2>2, AwayRInv DEF Resume, Open
  <2>3. CASE \E o \in FailHere : SetVerdict(o) /\ outcome' = o /\ epc' = "share"
    BY <2>1, <2>3, VerdictRInv
  <2>4. QED
    BY <2>1, <2>2, <2>3
<1>5. QED
  BY <1>1, <1>2, <1>3, <1>4, NextGivenRInv, ShareRInv, StoreRInv DEF Executor

LEMMA NextRInv ==
  ASSUME KillsOutsideShare, IInv, BInv, RInv, [Next]_vars
  PROVE  RInv'
<1>1. CASE Kill
  <2>1. /\ UNCHANGED <<cpc, mode, allocIdx, execIdx, result, verdict>> /\ epc' = "dead"
        /\ epc \notin {"share", "store"}
    BY <1>1 DEF Kill, shm, KillsOutsideShare
  <2>2. QED
    BY <2>1, AwayRInv DEF Open
<1>2. CASE UNCHANGED vars
  BY <1>2 DEF vars, shm, locals, RInv, Written, Blank, AtRun, Recorded, Open, GivenBatch
<1>3. QED
  BY <1>1, <1>2, ClientRInv, ExecutorRInv DEF Next

\* When the executor is killed nowhere between ShareCorpus and the end of
\* AddResult, every result the client reads is that of the run of this slot in
\* this batch: a failure with its kind, no failure where there was none, and no
\* result of a run cut short (alloc_input's memset, AddResult, get_result).
THEOREM ResultsAreRuns ==
  ASSUME KillsOutsideShare
  PROVE  Spec => []ResultsMatchRuns
<1>1. Init => RInv
  BY DEF Init, RInv
<1>2. IInv /\ BInv /\ RInv /\ [Next]_vars => RInv'
  BY NextRInv
<1>3. IInv /\ RInv => ResultsMatchRuns
  <2> SUFFICES ASSUME IInv, RInv, cpc = "collect", NEW i \in Slots, i < execIdx
               PROVE  Recorded(i)
    BY DEF ResultsMatchRuns, Executed, Recorded
  <2>1. epc \notin {"share", "store"}
    BY AtRunPosted DEF InBatch
  <2>2. QED
    BY <2>1 DEF RInv, Written, Open
<1>4. QED
  BY <1>1, <1>2, <1>3, SpecBInv, PTL DEF Spec

-----------------------------------------------------------------------------
(* Refinement: SetMode prepares, AllocInput loads, let_go submits and        *)
(* returns, RunGivenInputs runs, ShareCorpus emits; all else stutters.       *)

\* The parts of the abstract state that an executor's step leaves alone.
AbstractFrame == UNCHANGED <<cpc, mode, allocIdx, execIdx>>

LEMMA FrameStutters == ASSUME AbstractFrame PROVE UNCHANGED Batch!vars
BY DEF AbstractFrame, Batch!vars

LEMMA InitRefined == Init => Batch!Init
BY DEF Init, Batch!Init

LEMMA StepRefined == IInv /\ BInv /\ [Next]_vars => [Batch!Next]_(Batch!vars)
<1> SUFFICES ASSUME IInv, BInv, [Next]_vars PROVE [Batch!Next]_(Batch!vars)
  OBVIOUS
<1> USE ConstAssumption DEF ConstAssumption, BInv, IInv, GivenBatch
<1>1. ASSUME NEW m \in Modes, SetMode(m) PROVE Batch!Prepare
  BY <1>1 DEF SetMode, Batch!Prepare
<1>2. ASSUME AllocInput PROVE \E i \in Batch!Slots : Batch!Load(i)
  <2>1. allocIdx \in Batch!Slots
    BY <1>2 DEF AllocInput, Batch!Slots, TypeOK
  <2>2. execIdx = 0 /\ 0 .. execIdx - 1 = {} /\ execIdx' = execIdx
    BY <1>2 DEF AllocInput, Indices
  <2>3. 0 .. allocIdx' - 1 = (0 .. allocIdx - 1) \cup {allocIdx}
    BY <1>2 DEF AllocInput, TypeOK
  <2>4. Batch!Load(allocIdx)
    BY <1>2, <2>2, <2>3 DEF AllocInput, Batch!Load
  <2>5. QED
    BY <2>1, <2>4
<1>3. ASSUME NEW n \in 1 .. MaxIter, SetIterCnt(n) PROVE UNCHANGED Batch!vars
  BY <1>3, FrameStutters DEF SetIterCnt, ClientFrame, sems, AbstractFrame, Batch!vars
<1>4. ASSUME PostStart PROVE Batch!Submit
  BY <1>4 DEF PostStart, shm, Batch!Submit
<1>5. ASSUME WaitEnd PROVE Batch!Return
  <2>1. mode = "EXECUTE_INPUT" => execIdx .. allocIdx - 1 = {}
    BY <1>5 DEF WaitEnd, AllTaken, TypeOK
  <2>2. QED
    BY <1>5, <2>1 DEF WaitEnd, shm, Batch!Return
<1>6. ASSUME ProcessResults PROVE UNCHANGED Batch!vars
  BY <1>6 DEF ProcessResults, Batch!vars
<1>7. ASSUME NextGiven PROVE \E i \in Batch!Slots : Batch!Run(i)
  <2>1. mode = "EXECUTE_INPUT" /\ cpc = "posted" /\ cpc' = cpc
    BY <1>7 DEF NextGiven, ExecFrame, OneToken, Held, LoopAgrees, ModeAgrees, InBatch,
       Crossing, TypeOK
  <2>2. cur = execIdx /\ execIdx < allocIdx /\ execIdx' = execIdx + 1
    BY <1>7, <2>1 DEF NextGiven, Copies, TypeOK
  <2>3. execIdx \in Batch!Slots
    BY <2>2 DEF Batch!Slots, TypeOK
  <2>4. /\ execIdx \in execIdx .. allocIdx - 1
        /\ \A j \in execIdx .. allocIdx - 1 : execIdx <= j
        /\ execIdx' .. allocIdx - 1 = (execIdx .. allocIdx - 1) \ {execIdx}
        /\ 0 .. execIdx' - 1 = (0 .. execIdx - 1) \cup {execIdx}
    BY <2>2 DEF TypeOK
  <2>5. mode' = mode /\ allocIdx' = allocIdx
    BY <1>7 DEF NextGiven
  <2>6. Batch!Run(execIdx)
    BY <2>1, <2>4, <2>5 DEF Batch!Run
  <2>7. QED
    BY <2>3, <2>6
<1>8. ASSUME ShareCorpus PROVE (\E i \in Batch!Slots : Batch!Emit(i)) \/ UNCHANGED Batch!vars
  <2>1. CASE execIdx' = execIdx
    BY <1>8, <2>1, FrameStutters DEF ShareCorpus, AbstractFrame
  <2>2. CASE execIdx' # execIdx
    <3>1. mode # "EXECUTE_INPUT" /\ execIdx < Cap /\ execIdx' = execIdx + 1
      BY <1>8, <2>2 DEF ShareCorpus, ShareFails
    <3>2. cpc = "posted" \/ epc \notin InBatch
      BY DEF OneToken, Held, LoopAgrees, TypeOK
    <3>3. cpc = "posted" /\ cpc' = cpc /\ mode' = mode
      BY <1>8, <3>2 DEF ShareCorpus, InBatch
    <3>4. execIdx \in Batch!Slots /\ 0 .. execIdx' - 1 = (0 .. execIdx - 1) \cup {execIdx}
      BY <3>1 DEF Batch!Slots, TypeOK
    <3>5. Batch!Emit(execIdx)
      BY <3>1, <3>3, <3>4 DEF Batch!Emit
    <3>6. QED
      BY <3>4, <3>5
  <2>3. QED
    BY <2>1, <2>2
<1>9. ASSUME Executor, ~NextGiven, ~ShareCorpus PROVE AbstractFrame
  BY <1>9 DEF Executor, AbstractFrame, ExecFrame, shm, Boot, WaitStart, EnterLoop, ResumeLoop,
     Dispatch, GivenDone, ConsumeIter, MutateRun, MutateDone, RunTarget, LeakCheck,
     StoreResult, ExitShm, LeaveLoop, PostEnd, Die, Restart
<1>10. ASSUME Kill \/ UNCHANGED vars PROVE AbstractFrame
  BY <1>10 DEF Kill, AbstractFrame, shm, vars
<1>11. QED
  BY <1>1, <1>2, <1>3, <1>4, <1>5, <1>6, <1>7, <1>8, <1>9, <1>10, FrameStutters DEF Next,
     Client, Batch!Next

\* The channel implements BatchSpec: given inputs are run once each and in
\* order, and the block comes back only when all are done, whatever crashes and
\* restarts lie between (RunGivenInputs, ExitShm, WaitShm).
THEOREM ChannelImplementsBatch == Spec => BatchRefined
<1>1. QED
  BY InitRefined, StepRefined, SpecBInv, PTL DEF Spec, BatchRefined, Batch!Spec

-----------------------------------------------------------------------------
(* That the token is never lost.                                            *)

\* No kill between taking a token and noting it in in_loop, nor between
\* clearing in_loop and posting.
KillsOutsideCrossing == KillAt \cap Crossing = {}

\* While the client is blocked in let_go there is exactly one token: in a
\* semaphore, or with the executor, which goes on with the batch after a
\* restart.  WaitShm finds one of the two.
TokenKept == cpc = "posted" => startSem + endSem + Held = 1

\* Steps inside a batch, and out of one that goes on.
LEMMA HeldOn ==
  ASSUME TokenKept, UNCHANGED <<cpc, startSem, endSem, inLoop>>,
         epc \in Crossing <=> epc' \in Crossing
  PROVE  TokenKept'
BY DEF TokenKept, Held

LEMMA NextTokenKept ==
  ASSUME KillsOutsideCrossing, IInv, TokenKept, [Next]_vars
  PROVE  TokenKept'
<1> USE DEF shm, sems, ClientFrame, ExecFrame
<1>1. ASSUME NEW m \in Modes, SetMode(m) PROVE TokenKept'
  BY <1>1 DEF SetMode, TokenKept
<1>2. CASE AllocInput \/ (\E n \in 1 .. MaxIter : SetIterCnt(n)) \/ WaitEnd \/ ProcessResults
  <2>1. cpc' # "posted"
    BY <1>2 DEF AllocInput, SetIterCnt, WaitEnd, ProcessResults
  <2>2. QED
    BY <2>1 DEF TokenKept
<1>3. CASE PostStart
  <2>1. startSem + endSem + Held = 0 /\ Held' = Held /\ startSem' = startSem + 1 /\ endSem' = endSem
    BY <1>3 DEF PostStart, IInv, OneToken, Held, TypeOK
  <2>2. startSem \in Nat /\ endSem \in Nat /\ Held \in {0, 1}
    BY DEF IInv, TypeOK, Held
  <2>3. QED
    BY <2>1, <2>2 DEF TokenKept
<1>4. CASE Boot \/ ResumeLoop \/ Dispatch \/ NextGiven \/ GivenDone \/ ConsumeIter \/ MutateRun
           \/ MutateDone \/ RunTarget \/ LeakCheck \/ ShareCorpus \/ StoreResult \/ ExitShm
           \/ Die \/ Restart
  <2>1. UNCHANGED <<cpc, startSem, endSem, inLoop>>
    BY <1>4, Zenon DEF Boot, ResumeLoop, Dispatch, NextGiven, GivenDone, ConsumeIter, MutateRun,
       MutateDone, RunTarget, LeakCheck, ShareCorpus, StoreResult, ExitShm, Die, Restart
  <2>2. epc \notin Crossing /\ epc' \notin Crossing
    BY <1>4 DEF Boot, ResumeLoop, Dispatch, NextGiven, GivenDone, ConsumeIter, MutateRun,
       MutateDone, RunTarget, LeakCheck, ShareCorpus, ShareFails, StoreResult, ExitShm, Die,
       Restart, Resume, Crossing
  <2>3. QED
    BY <2>1, <2>2, HeldOn
<1>5. CASE WaitStart \/ EnterLoop \/ LeaveLoop \/ PostEnd
  <2>1. cpc' = cpc /\ (cpc = "posted" => startSem' + endSem' + Held' = startSem + endSem + Held)
    BY <1>5 DEF WaitStart, EnterLoop, LeaveLoop, PostEnd, Held, Crossing, IInv, TypeOK, LoopAgrees,
       InBatch
  <2>2. QED
    BY <2>1 DEF TokenKept
<1>6. CASE Kill
  <2>1. UNCHANGED <<cpc, startSem, endSem, inLoop>> /\ epc \notin Crossing /\ epc' \notin Crossing
    BY <1>6 DEF Kill, KillsOutsideCrossing, Crossing
  <2>2. QED
    BY <2>1, HeldOn
<1>7. CASE UNCHANGED vars
  BY <1>7 DEF vars, TokenKept, Held
<1>8. QED
  BY <1>1, <1>2, <1>3, <1>4, <1>5, <1>6, <1>7 DEF Next, Client, Executor

\* While the client waits in let_go the token of its batch is not lost: it is
\* still to be taken, held across crashes and restarts, or given back, unless
\* the executor is killed in the two windows around in_loop (WaitShm, EndShm).
THEOREM TokenNotLost ==
  ASSUME KillsOutsideCrossing
  PROVE  Spec => []TokenKept
<1>1. Init => TokenKept
  BY DEF Init, TokenKept
<1>2. QED
  BY <1>1, InitIInv, NextIInv, NextTokenKept, PTL DEF Spec
=============================================================================
