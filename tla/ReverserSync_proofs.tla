------------------------ MODULE ReverserSync_proofs ------------------------
(***************************************************************************)
(* What the reverser's files and handles promise for every set of workers, *)
(* every number of runs, restarts, trials and testlangs.                   *)
(*                                                                         *)
(* The argument: the reverser's handle, the worker that evaluates a rerun, *)
(* and the time of the last run are three forms of one token, and a run    *)
(* that has given its handle back has left no output behind.  While no     *)
(* output is refused, broken off or doubled, at most one output waits, and *)
(* the reverser has given its diff the id uniafl will give it.             *)
(***************************************************************************)
EXTENDS ReverserSync, FiniteSetTheorems, SequenceTheorems, TLAPS

Syncing == {"poll", "lock", "pull", "write", "synced", "failed"}

\* The three forms of the token exclude each other.
Token ==
  /\ lastRerun = "time" => handles = {} /\ \A w \in Workers : pc[w] # "critical"
  /\ \A w \in Workers : pc[w] = "critical" => handles = {}
  /\ \A v, w \in Workers : pc[v] = "critical" /\ pc[w] = "critical" => v = w
  /\ \A v, w \in handles : v = w
  /\ \A w \in Workers : pc[w] \in Syncing => w \in handles

\* Without a handle no run is left, nor anything a run has written; and a worker
\* that has seen the end of a run knows that.
NothingLeft ==
  /\ handles = {} => rpc = "ended" /\ outputs = {}
  /\ \A w \in Workers : finished[w] =>
       /\ pc[w] \in {"lock", "pull", "write", "synced", "failed"}
       /\ rpc = "ended"
       /\ pc[w] \in {"write", "synced", "failed"} => outputs = {}

\* Until the first testlang is there nobody uses one.
Closed ==
  \A w \in Workers : call[w] = "new" =>
    /\ used = {}
    /\ \A v \in Workers : call[v] = "new" /\ genLast[v] = NoId /\ pc[v] \in Syncing \cup {"off"}

\* Every id belongs to a testlang of its own.
Budget == known <= written /\ Count + Cardinality(outputs) <= written

\* At most one output waits, and its diff has the next id.
Guess ==
  ~slip =>
    /\ \A i \in 0 .. Count - 1 : diffs[i] = named[i + 1]
    /\ \A o \in outputs : outputs = {o} /\ diffs[Count] = o
    /\ rpc \in Running \ {"boot"} => known = IF outputs = {} THEN Count ELSE Count + 1
    /\ rpc = "boot" /\ try = 1 => outputs = {}

IInv == TypeOK /\ Token /\ NothingLeft /\ Closed /\ Budget /\ FileFollows /\ Guess

-----------------------------------------------------------------------------
(* Frames *)

\* The reverser changes nothing of uniafl's, and takes no step when it has ended.
LEMMA ReverserFrame ==
  ASSUME ReverserStep
  PROVE  rpc \in Running /\ UNCHANGED Uniafl
BY Zenon DEF ReverserStep, PreparePrompt, Look, Slept, WaitTimesOut, ReadCoverage, Answer, AskFails, GiveUp,
       WriteTestlang, WriteBreaksOff, NotAccepted, Continue, Finish, ProcessFails, Running

\* Workers change nothing of the reverser's, but that one worker starts it, and
\* only a pull touches what it wrote.
LEMMA WorkerFrame ==
  ASSUME NEW w \in Workers, WorkerStep(w)
  PROVE  /\ UNCHANGED <<graph, diffs, written>>
         /\ RunOnSide(w) \/ UNCHANGED <<rpc, thread, reruns>>
         /\ Pull(w) \/ Refuse(w) \/ UNCHANGED <<named, outputs, slip>>
         /\ UNCHANGED named \/ Pull(w)
<1> USE DEF texts
<1>1. CASE Generate(w) \/ Mutate(w) \/ Evaluate(w)
  BY <1>1 DEF Generate, Mutate, Evaluate
<1>2. CASE InsertUsed(w) \/ MarkUsed(w) \/ Poll(w) \/ Lock(w) \/ TakeUpdate(w) \/ WriteUsed(w)
  BY <1>2 DEF InsertUsed, MarkUsed, Poll, Lock, TakeUpdate, WriteUsed, poolVars
<1>3. CASE Open(w) \/ StillRuns(w) \/ RerunComplete(w) \/ TooEarly(w) \/ RunOnSideFails(w) \/ Work(w)
  BY <1>3 DEF Open, StillRuns, RerunComplete, TooEarly, RunOnSideFails, Work, poolVars
<1>4. CASE Pull(w) \/ Refuse(w)
  BY <1>4 DEF Pull, Refuse, poolVars
<1>5. CASE RunOnSide(w)
  BY <1>5 DEF RunOnSide
<1>6. QED
  BY <1>1, <1>2, <1>3, <1>4, <1>5 DEF WorkerStep

-----------------------------------------------------------------------------
(* The initial state *)

LEMMA InitIInv == Init => IInv
<1> SUFFICES ASSUME Init PROVE IInv
  OBVIOUS
<1> USE ReverserAssumption DEF Init, NoId, Ids, Count
<1>1. TypeOK
  <2>1. named \in Seq(1 .. written) /\ Count <= written
    OBVIOUS
  <2>2. try \in 1 .. MaxTries /\ reruns \in 0 .. MaxReruns /\ written \in 0 .. MaxOutputs
    OBVIOUS
  <2>3. known \in 0 .. MaxOutputs /\ trials \in 0 .. MaxTrials
    OBVIOUS
  <2>4. pc \in [Workers -> {"off", "poll"}] /\ diffs \in [Ids -> 0 .. written]
    OBVIOUS
  <2>5. QED
    BY <2>1, <2>2, <2>3, <2>4 DEF TypeOK, Running, UnderLock
<1>2. Token /\ NothingLeft
  BY DEF Token, NothingLeft, Syncing
<1>3. Closed /\ FileFollows /\ Guess
  BY DEF Closed, FileFollows, Guess, Syncing
<1>4. Budget
  BY FS_EmptySet DEF Budget
<1>5. QED
  BY <1>1, <1>2, <1>3, <1>4 DEF IInv

-----------------------------------------------------------------------------
(* The token *)

\* A step that leaves pc, handles and the time alone, or moves one worker that is
\* not critical to where it may be.
LEMMA TokenMove ==
  ASSUME TypeOK, Token, NEW w \in Workers, NEW l, pc[w] # "critical",
         pc' = [pc EXCEPT ![w] = l], l # "critical", l \in Syncing => w \in handles,
         UNCHANGED <<handles, lastRerun>>
  PROVE  Token'
BY DEF Token, TypeOK

\* evaluate_rerun(), by a worker that is not critical.
LEMMA TokenEvaluate ==
  ASSUME TypeOK, Token, NEW w \in Workers, NEW c, EvaluateRerun(w, c),
         pc[w] # "critical", UNCHANGED handles
  PROVE  Token'
<1>1. CASE lastRerun = "max" /\ Proceed(w, c)
  <2>1. lastRerun' = "max"
    BY DEF EvaluateRerun
  <2>2. pc' = [pc EXCEPT ![w] = "work"] \/ pc' = [pc EXCEPT ![w] = "idle"]
    BY <1>1 DEF Proceed
  <2>3. QED
    BY <1>1, <2>1, <2>2, TokenMove DEF Syncing
<1>2. CASE lastRerun = "time" /\ Goto(w, "critical")
  BY <1>2 DEF EvaluateRerun, Goto, Token, TypeOK, Syncing
<1>3. QED
  BY <1>1, <1>2 DEF EvaluateRerun

LEMMA TokenCheck ==
  ASSUME TypeOK, Token, NEW w \in Workers, NEW c, CheckReverser(w, c),
         pc[w] # "critical", UNCHANGED handles
  PROVE  Token'
<1>1. CASE w \in handles /\ Goto(w, "poll") /\ UNCHANGED lastRerun
  BY <1>1, TokenMove DEF Goto
<1>2. CASE EvaluateRerun(w, c)
  BY <1>2, TokenEvaluate
<1>3. QED
  BY <1>1, <1>2 DEF CheckReverser

LEMMA NextToken == TypeOK /\ Token /\ NothingLeft /\ [Next]_vars => Token'
<1> SUFFICES ASSUME TypeOK, Token, NothingLeft, [Next]_vars PROVE Token'
  OBVIOUS
<1>1. ASSUME NEW w \in Workers, Generate(w) \/ Mutate(w) PROVE Token'
  BY <1>1, TokenCheck DEF Generate, Mutate
<1>2. ASSUME NEW w \in Workers, InsertUsed(w) \/ MarkUsed(w) \/ Work(w) PROVE Token'
  BY <1>2, TokenMove DEF InsertUsed, MarkUsed, Work, Goto, Return, poolVars, Syncing
<1>3. ASSUME NEW w \in Workers, Poll(w) \/ Lock(w) \/ TakeUpdate(w) \/ WriteUsed(w) PROVE Token'
  <2>1. w \in handles /\ pc[w] # "critical"
    BY <1>3 DEF Poll, Lock, TakeUpdate, WriteUsed, Token, Syncing
  <2>2. QED
    BY <1>3, <2>1, TokenMove DEF Poll, Lock, TakeUpdate, WriteUsed, Goto, poolVars
<1>4. ASSUME NEW w \in Workers, Pull(w) \/ Refuse(w) PROVE Token'
  BY <1>4 DEF Pull, Refuse, workerVars, poolVars, Token
<1>5. ASSUME NEW w \in Workers, Open(w) PROVE Token'
  <2>1. w \in handles /\ pc[w] # "critical"
    BY <1>5 DEF Open, Token, Syncing
  <2>2. CASE pc' = [v \in Workers |-> "idle"]
    BY <2>1, <2>2, <1>5 DEF Open, poolVars, Token, Syncing
  <2>3. CASE Goto(w, IF finished[w] THEN "failed" ELSE "poll")
    BY <2>1, <2>3, <1>5, TokenMove DEF Open, Goto, poolVars
  <2>4. QED
    BY <2>2, <2>3, <1>5 DEF Open
<1>6. ASSUME NEW w \in Workers, StillRuns(w) PROVE Token'
  BY <1>6, TokenMove DEF StillRuns, Return, Goto, poolVars, Syncing
<1>7. ASSUME NEW w \in Workers, RerunComplete(w) PROVE Token'
  <2>1. handles' = {} /\ \A v \in Workers : v # w => pc[v] \notin Syncing \cup {"critical"}
    BY <1>7 DEF RerunComplete, Token, Syncing
  <2>2. /\ pc' \in [Workers -> {pc[v] : v \in Workers} \cup {"work", "idle", "evaluate"}]
        /\ pc'[w] \in {"work", "idle", "evaluate"} /\ \A v \in Workers \ {w} : pc'[v] = pc[v]
    BY <1>7 DEF RerunComplete, Goto, Proceed, TypeOK
  <2>3. QED
    BY <2>1, <2>2 DEF Token, Syncing
<1>8. ASSUME NEW w \in Workers, Evaluate(w) PROVE Token'
  BY <1>8, TokenEvaluate DEF Evaluate
<1>9. ASSUME NEW w \in Workers, TooEarly(w) PROVE Token'
  <2>1. /\ pc'[w] \in {"work", "idle"} /\ \A v \in Workers \ {w} : pc'[v] = pc[v]
        /\ handles' = {}
    BY <1>9 DEF TooEarly, Proceed, Token, TypeOK
  <2>2. \A v \in Workers : pc[v] \notin Syncing /\ (pc[v] = "critical" => v = w)
    BY <1>9 DEF TooEarly, Token
  <2>3. QED
    BY <2>1, <2>2 DEF Token, Syncing
<1>10. ASSUME NEW w \in Workers, RunOnSide(w) \/ RunOnSideFails(w) PROVE Token'
  <2>1. /\ pc'[w] = "idle" /\ \A v \in Workers \ {w} : pc'[v] = pc[v]
        /\ pc[w] = "critical" /\ handles' \in {{}, {w}} /\ lastRerun' = "max"
    BY <1>10 DEF RunOnSide, RunOnSideFails, Return, Goto, poolVars, Token, TypeOK
  <2>2. \A v \in Workers : pc[v] \notin Syncing /\ (pc[v] = "critical" => v = w)
    BY <2>1 DEF Token
  <2>3. QED
    BY <2>1, <2>2 DEF Token, Syncing
<1>11. CASE ReverserStep \/ UNCHANGED vars
  BY <1>11, ReverserFrame DEF vars, Uniafl, workerVars, poolVars, Token
<1>12. QED
  BY <1>1, <1>2, <1>3, <1>4, <1>5, <1>6, <1>7, <1>8, <1>9, <1>10, <1>11 DEF Next, WorkerStep

-----------------------------------------------------------------------------
(* What a run leaves *)

LEMMA NextNothingLeft == TypeOK /\ Token /\ NothingLeft /\ [Next]_vars => NothingLeft'
<1> SUFFICES ASSUME TypeOK, Token, NothingLeft, [Next]_vars PROVE NothingLeft'
  OBVIOUS
<1>1. ASSUME NEW w \in Workers,
             \/ Generate(w) \/ InsertUsed(w) \/ MarkUsed(w) \/ Mutate(w)
             \/ StillRuns(w) \/ Evaluate(w) \/ TooEarly(w) \/ RunOnSideFails(w) \/ Work(w)
      PROVE  NothingLeft'
  <2>1. UNCHANGED <<handles, rpc, outputs>>
    BY <1>1 DEF Generate, InsertUsed, MarkUsed, Mutate, StillRuns, Evaluate, TooEarly,
                RunOnSideFails, Work, poolVars, texts
  <2>2. /\ \A v \in Workers \ {w} : pc'[v] = pc[v] /\ finished'[v] = finished[v]
        /\ ~finished'[w]
    BY <1>1 DEF Generate, InsertUsed, MarkUsed, Mutate, StillRuns, Evaluate, TooEarly, RunOnSideFails,
                Work, CheckReverser, EvaluateRerun, Proceed, Goto, Return, TypeOK, NothingLeft
  <2>3. QED
    BY <2>1, <2>2 DEF NothingLeft
<1>2. ASSUME NEW w \in Workers, Poll(w) \/ Lock(w) \/ Pull(w) \/ Refuse(w) PROVE NothingLeft'
  <2>1. handles # {}
    BY <1>2 DEF Poll, Lock, Pull, Refuse, Token, Syncing
  <2>2. CASE Poll(w)
    BY <2>1, <2>2 DEF Poll, Goto, poolVars, texts, NothingLeft, TypeOK
  <2>3. CASE Lock(w)
    BY <2>1, <2>3 DEF Lock, Goto, poolVars, texts, NothingLeft, TypeOK
  <2>4. CASE Pull(w) \/ Refuse(w)
    BY <2>1, <2>4 DEF Pull, Refuse, workerVars, poolVars, NothingLeft, TypeOK
  <2>5. QED
    BY <1>2, <2>2, <2>3, <2>4
<1>3. ASSUME NEW w \in Workers, TakeUpdate(w) \/ WriteUsed(w) PROVE NothingLeft'
  BY <1>3 DEF TakeUpdate, WriteUsed, Goto, poolVars, texts, NothingLeft, TypeOK
<1>4. ASSUME NEW w \in Workers, Open(w) PROVE NothingLeft'
  BY <1>4 DEF Open, Goto, poolVars, texts, NothingLeft, TypeOK
<1>5. ASSUME NEW w \in Workers, RerunComplete(w) PROVE NothingLeft'
  <2>1. rpc = "ended" /\ outputs = {} /\ UNCHANGED <<rpc, outputs>>
    BY <1>5 DEF RerunComplete, NothingLeft, texts
  <2>2. /\ \A v \in Workers \ {w} : pc'[v] = pc[v] /\ finished'[v] = finished[v]
        /\ ~finished'[w]
    BY <1>5 DEF RerunComplete, Proceed, Goto, TypeOK
  <2>3. QED
    BY <2>1, <2>2 DEF NothingLeft
<1>6. ASSUME NEW w \in Workers, RunOnSide(w) PROVE NothingLeft'
  <2>1. handles = {} /\ handles' # {}
    BY <1>6 DEF RunOnSide, Token
  <2>2. \A v \in Workers : ~finished[v]
    BY <2>1 DEF NothingLeft, Token, Syncing
  <2>3. \A v \in Workers : ~finished'[v]
    BY <2>2, <1>6 DEF RunOnSide, Return, TypeOK
  <2>4. QED
    BY <2>1, <2>3 DEF NothingLeft
<1>7. CASE ReverserStep
  <2>1. rpc # "ended" /\ UNCHANGED <<pc, finished, handles>>
    BY <1>7, ReverserFrame DEF Running, Uniafl, workerVars, poolVars
  <2>2. QED
    BY <2>1 DEF NothingLeft
<1>8. CASE UNCHANGED vars
  BY <1>8 DEF vars, workerVars, poolVars, texts, NothingLeft
<1>9. QED
  BY <1>1, <1>2, <1>3, <1>4, <1>5, <1>6, <1>7, <1>8 DEF Next, WorkerStep

-----------------------------------------------------------------------------
(* The used ids *)

LEMMA NextClosed == TypeOK /\ Closed /\ [Next]_vars => Closed'
<1> SUFFICES ASSUME TypeOK, Closed, [Next]_vars PROVE Closed'
  OBVIOUS
<1>1. ASSUME NEW w \in Workers,
             \/ Generate(w) \/ InsertUsed(w) \/ MarkUsed(w) \/ Mutate(w) \/ Evaluate(w)
             \/ TooEarly(w) \/ RunOnSide(w) \/ RunOnSideFails(w) \/ Work(w)
             \/ StillRuns(w) \/ RerunComplete(w)
      PROVE  Closed'
  <2>1. \A v \in Workers : call[v] # "new"
    BY <1>1, Zenon DEF Generate, InsertUsed, MarkUsed, Mutate, Evaluate, TooEarly, RunOnSide, RunOnSideFails,
                Work, StillRuns, RerunComplete, Closed, Syncing, NoId
  <2>2. \A v \in Workers : call'[v] # "new"
    BY <1>1, <2>1 DEF Generate, InsertUsed, MarkUsed, Mutate, Evaluate, TooEarly, RunOnSide,
                RunOnSideFails, Work, StillRuns, RerunComplete, CheckReverser, EvaluateRerun, Proceed,
                Return, TypeOK
  <2>3. QED
    BY <2>2 DEF Closed
<1>2. ASSUME NEW w \in Workers, Poll(w) \/ Lock(w) \/ TakeUpdate(w) \/ WriteUsed(w) PROVE Closed'
  <2>1. /\ UNCHANGED <<call, genLast, used>>
        /\ \A v \in Workers : pc'[v] = pc[v] \/ pc'[v] \in Syncing
    BY <1>2 DEF Poll, Lock, TakeUpdate, WriteUsed, Goto, usedVars, TypeOK, Syncing
  <2>2. QED
    BY <2>1 DEF Closed
<1>3. ASSUME NEW w \in Workers, Pull(w) \/ Refuse(w) PROVE Closed'
  BY <1>3 DEF Pull, Refuse, workerVars, usedVars, Closed
<1>4. ASSUME NEW w \in Workers, Open(w) PROVE Closed'
  <2>1. UNCHANGED <<genLast, used>>
    BY <1>4 DEF Open, usedVars
  <2>2. CASE call' = [v \in Workers |-> "none"]
    BY <2>2 DEF Closed
  <2>3. CASE UNCHANGED call /\ \A v \in Workers : pc'[v] = pc[v] \/ pc'[v] \in Syncing
    BY <2>1, <2>3 DEF Closed
  <2>4. QED
    BY <2>2, <2>3, <1>4 DEF Open, Goto, TypeOK, Syncing
<1>5. CASE ReverserStep \/ UNCHANGED vars
  BY <1>5, ReverserFrame DEF vars, Uniafl, workerVars, usedVars, Closed
<1>6. QED
  BY <1>1, <1>2, <1>3, <1>4, <1>5 DEF Next, WorkerStep

LEMMA NextFile == TypeOK /\ Closed /\ FileFollows /\ [Next]_vars => FileFollows'
<1> SUFFICES ASSUME TypeOK, Closed, FileFollows, [Next]_vars PROVE FileFollows'
  OBVIOUS
<1> DEFINE Late(w) == pc[w] \in {"mark", "write"}
<1>1. ASSUME NEW w \in Workers, ~Late(w), \A v \in Workers \ {w} : pc'[v] = pc[v], UNCHANGED usedVars
      PROVE  FileFollows'
  BY <1>1 DEF FileFollows, usedVars
<1>2. ASSUME NEW w \in Workers,
             \/ Generate(w) \/ Mutate(w) \/ Poll(w) \/ Lock(w) \/ StillRuns(w) \/ RerunComplete(w)
             \/ Evaluate(w) \/ TooEarly(w) \/ RunOnSideFails(w) \/ Work(w)
      PROVE  FileFollows'
  <2>1. \A v \in Workers \ {w} : pc'[v] = pc[v]
    BY <1>2 DEF Generate, Mutate, Poll, Lock, StillRuns, RerunComplete, Evaluate, TooEarly, RunOnSideFails,
                Work, CheckReverser, EvaluateRerun, Proceed, Goto, Return, TypeOK
  <2>2. ~Late(w) /\ UNCHANGED usedVars
    BY <1>2 DEF Generate, Mutate, Poll, Lock, StillRuns, RerunComplete, Evaluate, TooEarly, RunOnSideFails, Work
  <2>3. QED
    BY <1>1, <2>1, <2>2
<1>3. ASSUME NEW w \in Workers, InsertUsed(w) PROVE FileFollows'
  <2>1. CASE genLast[w] \in used
    <3>1. UNCHANGED usedVars /\ ~Late(w) /\ \A v \in Workers \ {w} : pc'[v] = pc[v]
      BY <1>3, <2>1 DEF InsertUsed, Goto, TypeOK, usedVars
    <3>2. QED
      BY <3>1, <1>1
  <2>2. CASE genLast[w] \notin used
    <3>1. pc'[w] = "mark"
      BY <1>3, <2>2 DEF InsertUsed, Goto, TypeOK
    <3>2. QED
      BY <3>1 DEF FileFollows
  <2>3. QED
    BY <2>1, <2>2
<1>4. ASSUME NEW w \in Workers, MarkUsed(w) PROVE FileFollows'
  BY <1>4 DEF MarkUsed, FileFollows
<1>5. ASSUME NEW w \in Workers, Pull(w) \/ Refuse(w) PROVE FileFollows'
  BY <1>5 DEF Pull, Refuse, workerVars, usedVars, FileFollows
<1>6. ASSUME NEW w \in Workers, TakeUpdate(w) PROVE FileFollows'
  <2>1. CASE updated
    <3>1. pc'[w] = "write"
      BY <1>6, <2>1 DEF TakeUpdate, Goto, TypeOK
    <3>2. QED
      BY <3>1 DEF FileFollows
  <2>2. CASE ~updated
    <3>1. UNCHANGED usedVars /\ ~Late(w) /\ \A v \in Workers \ {w} : pc'[v] = pc[v]
      BY <1>6, <2>2 DEF TakeUpdate, Goto, TypeOK, usedVars
    <3>2. QED
      BY <3>1, <1>1
  <2>3. QED
    BY <2>1, <2>2
<1>7. ASSUME NEW w \in Workers, WriteUsed(w) PROVE FileFollows'
  BY <1>7 DEF WriteUsed, FileFollows
<1>8. ASSUME NEW w \in Workers, Open(w) PROVE FileFollows'
  <2>1. used = {} /\ usedFile = {} /\ UNCHANGED usedVars
    BY <1>8 DEF Open, Closed, TypeOK
  <2>2. QED
    BY <2>1 DEF FileFollows, usedVars
<1>9. ASSUME NEW w \in Workers, RunOnSide(w) PROVE FileFollows'
  <2>1. CASE updated
    BY <1>9, <2>1 DEF RunOnSide, FileFollows
  <2>2. CASE ~updated
    <3>1. UNCHANGED usedVars /\ ~Late(w) /\ \A v \in Workers \ {w} : pc'[v] = pc[v]
      BY <1>9, <2>2 DEF RunOnSide, Return, Goto, TypeOK, usedVars
    <3>2. QED
      BY <3>1, <1>1
  <2>3. QED
    BY <2>1, <2>2
<1>10. CASE ReverserStep \/ UNCHANGED vars
  BY <1>10, ReverserFrame DEF vars, Uniafl, workerVars, usedVars, FileFollows
<1>11. QED
  BY <1>2, <1>3, <1>4, <1>5, <1>6, <1>7, <1>8, <1>9, <1>10 DEF Next, WorkerStep

-----------------------------------------------------------------------------
(* The ids *)

LEMMA OutputsFinite ==
  ASSUME TypeOK
  PROVE  IsFiniteSet(outputs) /\ Cardinality(outputs) \in Nat
<1>1. IsFiniteSet(1 .. written)
  BY FS_Interval, ReverserAssumption DEF TypeOK
<1>2. QED
  BY <1>1, FS_Subset, FS_CardinalityType DEF TypeOK

LEMMA Numbers ==
  ASSUME TypeOK
  PROVE  known \in Nat /\ Count \in Nat /\ written \in Nat
BY ReverserAssumption DEF TypeOK, Count

LEMMA NextBudget == TypeOK /\ Budget /\ [Next]_vars => Budget'
<1> SUFFICES ASSUME TypeOK, Budget, [Next]_vars PROVE Budget'
  OBVIOUS
<1> USE ReverserAssumption
<1>1. ASSUME NEW w \in Workers, Pull(w) PROVE Budget'
  <2> PICK o \in outputs : outputs' = outputs \ {o} /\ named' = Append(named, o)
    BY <1>1 DEF Pull
  <2>1. Cardinality(outputs') = Cardinality(outputs) - 1
    BY OutputsFinite, FS_RemoveElement
  <2>2. Count' = Count + 1 /\ Count \in Nat
    BY DEF Count, TypeOK
  <2>3. QED
    BY <2>1, <2>2, <1>1, OutputsFinite, WorkerFrame DEF WorkerStep, Budget, graph
<1>2. ASSUME NEW w \in Workers, Refuse(w) PROVE Budget'
  <2> PICK o \in outputs : outputs' = outputs \ {o}
    BY <1>2 DEF Refuse
  <2>1. Cardinality(outputs') = Cardinality(outputs) - 1
    BY OutputsFinite, FS_RemoveElement
  <2>2. UNCHANGED <<known, written, Count>>
    BY <1>2 DEF Refuse, graph, Count
  <2>3. QED
    BY <2>1, <2>2, OutputsFinite, Numbers DEF Budget
<1>3. ASSUME NEW w \in Workers, WorkerStep(w), ~Pull(w), ~Refuse(w) PROVE Budget'
  BY <1>3, WorkerFrame DEF graph, Budget, Count
<1>4. CASE WriteTestlang \/ WriteBreaksOff
  <2>1. /\ written' = written + 1 /\ known' \in {known, known + 1} /\ UNCHANGED Count
        /\ outputs' = outputs \cup {written + 1}
    BY <1>4, Zenon DEF WriteTestlang, WriteBreaksOff, graph, Uniafl, Count
  <2>2. written + 1 \notin outputs
    BY Numbers DEF TypeOK
  <2>3. Cardinality(outputs') = Cardinality(outputs) + 1
    BY <2>1, <2>2, OutputsFinite, FS_AddElement
  <2>4. QED
    BY <2>1, <2>3, OutputsFinite, Numbers DEF Budget
<1>5. CASE /\ \/ PreparePrompt \/ Look \/ Slept \/ WaitTimesOut \/ ReadCoverage \/ Answer \/ AskFails
              \/ GiveUp \/ NotAccepted \/ Continue \/ Finish \/ ProcessFails
  <2>1. UNCHANGED <<outputs, written, Count>> /\ known' \in {known, Count, 0}
    BY <1>5, Zenon DEF PreparePrompt, Look, Slept, WaitTimesOut, ReadCoverage, Answer, AskFails, GiveUp,
         NotAccepted, Continue, Finish, ProcessFails, Forget, graph, texts, Uniafl, Count
  <2>2. QED
    BY <2>1, OutputsFinite, Numbers DEF Budget
<1>6. CASE UNCHANGED vars
  BY <1>6 DEF vars, texts, graph, Budget, Count
<1>7. QED
  BY <1>1, <1>2, <1>3, <1>4, <1>5, <1>6 DEF Next, ReverserStep

LEMMA NextGuess == TypeOK /\ Token /\ NothingLeft /\ Budget /\ Guess /\ [Next]_vars => Guess'
<1> SUFFICES ASSUME TypeOK, Token, NothingLeft, Budget, Guess, [Next]_vars, ~slip' PROVE Guess'
  BY DEF Guess
<1> USE ReverserAssumption
<1>1. ASSUME NEW w \in Workers, Pull(w) PROVE Guess'
  <2> PICK o \in outputs : outputs' = outputs \ {o} /\ named' = Append(named, o)
    BY <1>1 DEF Pull
  <2>1. UNCHANGED <<diffs, rpc, try, known, slip>> /\ Count \in Nat
    BY <1>1 DEF Pull, graph, thread, Count, TypeOK
  <2>2. /\ Count' = Count + 1 /\ named'[Count + 1] = o
        /\ \A i \in 1 .. Count : named'[i] = named[i]
    BY DEF Count, TypeOK
  <2>3. outputs = {o} /\ diffs[Count] = o /\ outputs' = {}
    BY <2>1 DEF Guess
  <2>4. \A i \in 0 .. Count' - 1 : diffs'[i] = named'[i + 1]
    <3>0. 0 .. Count' - 1 = 0 .. Count
      BY <2>1, <2>2
    <3> SUFFICES ASSUME NEW i \in 0 .. Count PROVE diffs[i] = named'[i + 1]
      BY <3>0, <2>1
    <3>1. CASE i = Count
      BY <3>1, <2>2, <2>3
    <3>2. CASE i # Count
      <4>1. i \in 0 .. Count - 1 /\ i + 1 \in 1 .. Count
        BY <3>2, <2>1
      <4>2. QED
        BY <4>1, <2>1, <2>2 DEF Guess
    <3>3. QED
      BY <3>1, <3>2
  <2>5. rpc' \in Running \ {"boot"} => known' = Count'
    BY <2>1, <2>2 DEF Guess
  <2>6. QED
    BY <2>3, <2>4, <2>5 DEF Guess
<1>2. ASSUME NEW w \in Workers, Refuse(w) PROVE Guess'
  BY <1>2 DEF Refuse
<1>3. ASSUME NEW w \in Workers, RunOnSide(w) PROVE Guess'
  <2>1. outputs = {} /\ rpc' = "boot" /\ UNCHANGED <<named, outputs, diffs, slip, known>>
    BY <1>3 DEF RunOnSide, Token, NothingLeft, texts, graph
  <2>2. QED
    BY <2>1 DEF Guess, Count
<1>4. ASSUME NEW w \in Workers, WorkerStep(w), ~Pull(w), ~Refuse(w), ~RunOnSide(w) PROVE Guess'
  <2>1. UNCHANGED <<named, outputs, diffs, slip, known, rpc, try>>
    BY <1>4, WorkerFrame DEF graph, thread
  <2>2. QED
    BY <2>1 DEF Guess, Count
<1>5. CASE PreparePrompt
  <2>1. ~slip /\ ~(try > 1 /\ outputs # {}) /\ rpc = "boot" /\ try \in 1 .. MaxTries
    BY <1>5 DEF PreparePrompt, TypeOK
  <2>2. outputs = {}
    BY <2>1 DEF Guess
  <2>3. known' = Count /\ rpc' # "boot" /\ UNCHANGED <<named, outputs, diffs>>
    BY <1>5 DEF PreparePrompt, BuildContext, Uniafl
  <2>4. QED
    BY <2>1, <2>2, <2>3 DEF Guess, Count
<1>6. CASE WriteTestlang
  <2>1. /\ ~slip /\ outputs = {} /\ outputs' = {written + 1} /\ UNCHANGED named
        /\ rpc = "check" /\ rpc' = "update"
    BY <1>6, Zenon DEF WriteTestlang, Uniafl
  <2>2. known = Count /\ known' = Count + 1 /\ Count \in Nat /\ Count \in Ids
    BY <1>6, <2>1, OutputsFinite, SMTT(30) DEF WriteTestlang, Guess, Running, Budget, Count, TypeOK, Ids
  <2>3. diffs'[Count] = written + 1 /\ \A i \in 0 .. Count - 1 : diffs'[i] = diffs[i]
    BY <1>6, <2>2 DEF WriteTestlang, TypeOK, Ids
  <2>4. QED
    BY <2>1, <2>2, <2>3 DEF Guess, Count
<1>7. CASE WriteBreaksOff
  BY <1>7 DEF WriteBreaksOff
<1>8. CASE \/ Look \/ Slept \/ WaitTimesOut \/ ReadCoverage \/ Answer \/ AskFails
           \/ GiveUp \/ NotAccepted \/ Continue
  <2>1. /\ UNCHANGED <<named, outputs, diffs, slip, known>>
        /\ rpc \in Running \ {"boot"} /\ rpc' # "boot"
    BY <1>8 DEF Look, Slept, WaitTimesOut, ReadCoverage, Answer, AskFails, AskAgain, BuildContext,
         GiveUp, NotAccepted, Continue, graph, texts, Uniafl, Running
  <2>2. QED
    BY <2>1 DEF Guess, Count
<1>9. CASE Finish \/ ProcessFails
  <2>1. /\ UNCHANGED <<named, outputs, diffs, slip>>
        /\ rpc' \in {"ended", "boot"} /\ (rpc' = "boot" => try' = try + 1) /\ try \in 1 .. MaxTries
    BY <1>9 DEF Finish, ProcessFails, texts, Uniafl, TypeOK
  <2>2. ~(rpc' = "boot" /\ try' = 1) /\ rpc' \notin Running \ {"boot"}
    BY <2>1 DEF Running
  <2>3. QED
    BY <2>1, <2>2 DEF Guess, Count
<1>10. CASE UNCHANGED vars
  BY <1>10 DEF vars, texts, graph, thread, Guess, Count
<1>11. QED
  BY <1>1, <1>2, <1>3, <1>4, <1>5, <1>6, <1>7, <1>8, <1>9, <1>10 DEF Next, ReverserStep

-----------------------------------------------------------------------------
(* Types *)

LEMMA SeqWiden ==
  ASSUME NEW S, NEW T, S \subseteq T, NEW s \in Seq(S)
  PROVE  s \in Seq(T)
BY ElementOfSeq, LenProperties, IsASeq

\* The program counters, calls and answers of is_finished.
PcType ==
  /\ pc \in [Workers -> {"off", "idle", "poll", "lock", "synced", "check", "evaluate", "critical",
                         "work", "failed", "mark"} \cup UnderLock]
  /\ call \in [Workers -> {"none", "new", "generate", "mutate"}]
  /\ finished \in [Workers -> BOOLEAN]

LEMMA PcKept ==
  ASSUME TypeOK, NEW w \in Workers, WorkerStep(w)
  PROVE  PcType'
<1> USE DEF PcType, UnderLock
<1>1. PcType
  BY DEF TypeOK
<1>2. CASE Generate(w) \/ Mutate(w)
  <2>1. finished' = finished
    BY <1>2 DEF Generate, Mutate
  <2>2. \E c \in {"generate", "mutate"} : CheckReverser(w, c)
    BY <1>2 DEF Generate, Mutate
  <2>3. QED
    BY <2>1, <2>2, <1>1 DEF CheckReverser, EvaluateRerun, Proceed, Goto
<1>3. CASE Evaluate(w) \/ TooEarly(w)
  BY <1>3, <1>1 DEF Evaluate, TooEarly, EvaluateRerun, Proceed, Goto
<1>4. CASE InsertUsed(w) \/ MarkUsed(w) \/ Lock(w) \/ TakeUpdate(w) \/ WriteUsed(w)
  BY <1>4, <1>1 DEF InsertUsed, MarkUsed, Lock, TakeUpdate, WriteUsed, Goto
<1>5. CASE Poll(w) \/ StillRuns(w) \/ RunOnSide(w) \/ RunOnSideFails(w) \/ Work(w)
  BY <1>5, <1>1 DEF Poll, StillRuns, RunOnSide, RunOnSideFails, Work, Return, Goto
<1>6. CASE Pull(w) \/ Refuse(w)
  BY <1>6, <1>1 DEF Pull, Refuse, workerVars
<1>7. CASE Open(w)
  <2>1. CASE /\ pc' = [v \in Workers |-> "idle"] /\ call' = [v \in Workers |-> "none"]
             /\ finished' = [v \in Workers |-> FALSE]
    BY <2>1
  <2>2. CASE Goto(w, IF finished[w] THEN "failed" ELSE "poll") /\ UNCHANGED <<call, finished>>
    <3>1. pc' = [pc EXCEPT ![w] = "failed"] \/ pc' = [pc EXCEPT ![w] = "poll"]
      BY <2>2 DEF Goto
    <3>2. QED
      BY <2>2, <3>1, <1>1
  <2>3. QED
    BY <1>7, <2>1, <2>2 DEF Open
<1>8. CASE RerunComplete(w)
  BY <1>8, <1>1 DEF RerunComplete, Proceed, Goto
<1>9. QED
  BY <1>2, <1>3, <1>4, <1>5, <1>6, <1>7, <1>8 DEF WorkerStep

\* The handles, the time and the count of reruns.
PoolType == handles \subseteq Workers /\ lastRerun \in {"max", "time"} /\ reruns \in 0 .. MaxReruns

LEMMA PoolKept ==
  ASSUME TypeOK, NEW w \in Workers, WorkerStep(w)
  PROVE  PoolType'
<1> USE ReverserAssumption DEF PoolType
<1>1. PoolType
  BY DEF TypeOK
<1>2. CASE Generate(w) \/ Mutate(w) \/ Evaluate(w) \/ TooEarly(w) \/ RerunComplete(w)
  BY <1>2, <1>1 DEF Generate, Mutate, Evaluate, TooEarly, RerunComplete, CheckReverser, EvaluateRerun
<1>3. CASE RunOnSide(w)
  BY <1>3, <1>1 DEF RunOnSide
<1>4. CASE \/ InsertUsed(w) \/ MarkUsed(w) \/ Poll(w) \/ Lock(w) \/ Pull(w) \/ Refuse(w) \/ TakeUpdate(w)
           \/ WriteUsed(w) \/ Open(w) \/ StillRuns(w) \/ RunOnSideFails(w) \/ Work(w)
  BY <1>4, <1>1 DEF InsertUsed, MarkUsed, Poll, Lock, Pull, Refuse, TakeUpdate, WriteUsed, Open, StillRuns,
                    RunOnSideFails, Work, poolVars
<1>5. QED
  BY <1>2, <1>3, <1>4 DEF WorkerStep

\* No id is used or given that no testlang has.
UsedType ==
  /\ genLast \in [Workers -> {NoId} \cup 0 .. Count - 1]
  /\ used \subseteq 0 .. Count - 1 /\ usedFile \subseteq used /\ updated \in BOOLEAN

LEMMA UsedKept ==
  ASSUME TypeOK, NEW w \in Workers, WorkerStep(w)
  PROVE  UsedType'
<1>1. UsedType
  BY DEF TypeOK, UsedType
<1>2. CASE Pull(w)
  <2>1. Count' = Count + 1 /\ UNCHANGED <<genLast, used, usedFile, updated>>
    BY <1>2 DEF Pull, workerVars, usedVars, Count, TypeOK
  <2>2. 0 .. Count - 1 \subseteq 0 .. Count' - 1
    BY <2>1, Numbers
  <2>3. QED
    BY <1>1, <2>1, <2>2 DEF UsedType
<1>3. CASE ~Pull(w)
  <2>1. UNCHANGED Count
    BY <1>3, WorkerFrame DEF Count
  <2>2. CASE \/ Generate(w) \/ Mutate(w) \/ Evaluate(w) \/ TooEarly(w) \/ RerunComplete(w) \/ Poll(w)
             \/ Lock(w) \/ Refuse(w) \/ Open(w) \/ StillRuns(w) \/ RunOnSideFails(w)
    BY <2>1, <2>2, <1>1 DEF Generate, Mutate, Evaluate, TooEarly, RerunComplete, Poll, Lock, Refuse, Open,
         StillRuns, RunOnSideFails, usedVars, workerVars, UsedType
  <2>3. CASE InsertUsed(w)
    <3>1. genLast[w] \in 0 .. Count - 1
      BY <2>3, <1>1 DEF InsertUsed, UsedType
    <3>2. QED
      BY <2>1, <2>3, <3>1, <1>1 DEF InsertUsed, UsedType
  <2>4. CASE MarkUsed(w) \/ TakeUpdate(w) \/ WriteUsed(w) \/ RunOnSide(w)
    BY <2>1, <2>4, <1>1 DEF MarkUsed, TakeUpdate, WriteUsed, RunOnSide, UsedType
  <2>5. CASE Work(w)
    <3>1. Pick \subseteq 0 .. Count - 1
      BY DEF Pick, Unused
    <3>2. QED
      BY <2>1, <2>5, <3>1, <1>1 DEF Work, usedVars, UsedType
  <2>6. QED
    BY <1>3, <2>2, <2>3, <2>4, <2>5 DEF WorkerStep
<1>4. QED
  BY <1>2, <1>3

\* The testlangs, and what the reverser has.
TextType ==
  /\ named \in Seq(1 .. written) /\ Count <= written
  /\ outputs \subseteq 1 .. written /\ diffs \in [Ids -> 0 .. written]
  /\ written \in 0 .. MaxOutputs /\ slip \in BOOLEAN
GraphType ==
  /\ rpc \in Running \cup {"ended"} /\ try \in 1 .. MaxTries /\ waits \in BOOLEAN
  /\ known \in 0 .. MaxOutputs /\ trials \in 0 .. MaxTrials /\ valid \in BOOLEAN

LEMMA WorkerTexts ==
  ASSUME TypeOK, Budget, NEW w \in Workers, WorkerStep(w)
  PROVE  TextType' /\ GraphType'
<1> USE ReverserAssumption
<1>1. TextType /\ GraphType
  BY DEF TypeOK, TextType, GraphType
<1>2. GraphType'
  <2>1. UNCHANGED graph
    BY WorkerFrame
  <2>2. CASE RunOnSide(w)
    BY <2>1, <2>2, <1>1 DEF RunOnSide, GraphType, graph, Running
  <2>3. CASE ~RunOnSide(w)
    BY <2>1, <2>3, <1>1, WorkerFrame DEF GraphType, graph, thread
  <2>4. QED
    BY <2>2, <2>3
<1>3. TextType'
  <2>1. UNCHANGED <<diffs, written>>
    BY WorkerFrame
  <2>2. CASE Pull(w)
    <3> PICK o \in outputs : outputs' = outputs \ {o} /\ named' = Append(named, o)
      BY <2>2 DEF Pull
    <3>1. Cardinality(outputs) > 0
      BY OutputsFinite, FS_EmptySet
    <3>2. Count' = Count + 1
      BY DEF Count, TypeOK
    <3>6. Count' <= written
      BY <3>1, <3>2, Numbers, OutputsFinite DEF Budget
    <3>3. named' \in Seq(1 .. written)
      BY <1>1 DEF TextType
    <3>4. slip' \in BOOLEAN
      BY <2>2, <1>1 DEF Pull, TextType
    <3>5. QED
      BY <1>1, <2>1, <3>6, <3>3, <3>4 DEF TextType
  <2>3. CASE Refuse(w)
    <3>1. UNCHANGED named /\ slip' = TRUE /\ outputs' \subseteq outputs
      BY <2>3 DEF Refuse
    <3>2. QED
      BY <1>1, <2>1, <3>1 DEF TextType, Count
  <2>4. CASE ~Pull(w) /\ ~Refuse(w)
    <3>1. UNCHANGED <<named, outputs, slip>>
      BY <2>4, WorkerFrame
    <3>2. QED
      BY <1>1, <2>1, <3>1 DEF TextType, Count
  <2>5. QED
    BY <2>2, <2>3, <2>4
<1>4. QED
  BY <1>2, <1>3

LEMMA ReverserTexts ==
  ASSUME TypeOK, Budget, ReverserStep
  PROVE  TextType' /\ GraphType'
<1> USE ReverserAssumption
<1>1. TextType /\ GraphType
  BY DEF TypeOK, TextType, GraphType
<1>2. CASE WriteTestlang \/ WriteBreaksOff
  <2>1. /\ written' = written + 1 /\ written < MaxOutputs /\ UNCHANGED <<named, Count>>
        /\ outputs' = outputs \cup {written + 1}
        /\ diffs' \in {diffs, [diffs EXCEPT ![known] = written + 1]}
        /\ known' \in {known, known + 1} /\ rpc' = "update"
        /\ UNCHANGED <<thread, trials>>
    BY <1>2, Zenon DEF WriteTestlang, WriteBreaksOff, Uniafl, Count, graph
  <2>2. slip' \in BOOLEAN /\ valid' \in BOOLEAN
    BY <1>2, <1>1 DEF WriteTestlang, WriteBreaksOff, graph, TextType, GraphType
  <2>3. 1 .. written \subseteq 1 .. written'
    BY <2>1, Numbers
  <2>4. named' \in Seq(1 .. written') /\ Count' <= written'
    BY <1>1, <2>1, <2>3, SeqWiden, Numbers DEF TextType
  <2>5. outputs' \subseteq 1 .. written' /\ written' \in 0 .. MaxOutputs
    BY <1>1, <2>1 DEF TextType
  <2>6. diffs' \in [Ids -> 0 .. written']
    <3>1. 0 .. written \subseteq 0 .. written' /\ written + 1 \in 0 .. written'
      BY <2>1, Numbers
    <3>2. QED
      BY <1>1, <2>1, <3>1 DEF TextType
  <2>7. known' \in 0 .. MaxOutputs
    BY <2>1, Numbers DEF Budget
  <2>8. QED
    BY <1>1, <2>1, <2>2, <2>4, <2>5, <2>6, <2>7 DEF TextType, GraphType, thread, Running
<1>3. CASE PreparePrompt
  <2>1. /\ known' = Count /\ rpc' \in {"llm", "look"} /\ UNCHANGED <<named, outputs, diffs, written, Count>>
        /\ UNCHANGED <<thread, trials, valid>>
    BY <1>3 DEF PreparePrompt, BuildContext, Uniafl, Count
  <2>2. slip' \in BOOLEAN
    BY <1>3, <1>1 DEF PreparePrompt, TextType
  <2>3. known' \in 0 .. MaxOutputs
    BY <2>1, <1>1, Numbers DEF TextType
  <2>4. QED
    BY <1>1, <2>1, <2>2, <2>3 DEF TextType, GraphType, thread, Running
<1>4. CASE \/ Look \/ Slept \/ WaitTimesOut \/ ReadCoverage \/ Answer \/ AskFails
           \/ GiveUp \/ NotAccepted \/ Continue \/ Finish \/ ProcessFails
  <2>1. UNCHANGED <<named, outputs, diffs, written, slip, Count>>
    BY <1>4, Zenon DEF Look, Slept, WaitTimesOut, ReadCoverage, Answer, AskFails, GiveUp,
         NotAccepted, Continue, Finish, ProcessFails, texts, Uniafl, Count
  <2>2. TextType'
    BY <1>1, <2>1 DEF TextType
  <2>3. CASE Look \/ Slept \/ WaitTimesOut \/ ReadCoverage \/ AskFails \/ NotAccepted \/ Continue
    <3>1. UNCHANGED <<try, waits, known, trials, valid>>
      BY <2>3, Zenon DEF Look, Slept, WaitTimesOut, ReadCoverage, AskFails, NotAccepted, Continue,
           AskAgain, graph, thread
    <3>2. rpc' \in Running
      BY <2>3 DEF Look, Slept, WaitTimesOut, ReadCoverage, AskFails, NotAccepted, Continue,
           AskAgain, BuildContext, Running
    <3>3. waits' \in BOOLEAN /\ valid' \in BOOLEAN
      BY <3>1, <1>1, Zenon DEF GraphType
    <3>4. QED
      BY <2>2, <3>1, <3>2, <3>3, <1>1 DEF GraphType
  <2>4. CASE Answer \/ GiveUp
    <3>1. rpc' = "check" /\ UNCHANGED <<try, waits, known, valid>>
      BY <2>4, Zenon DEF Answer, GiveUp, thread
    <3>2. trials' \in 0 .. MaxTrials
      BY <2>4, <1>1 DEF Answer, GiveUp, GraphType
    <3>3. waits' \in BOOLEAN /\ valid' \in BOOLEAN
      BY <3>1, <1>1, Zenon DEF GraphType
    <3>4. QED
      BY <2>2, <3>1, <3>2, <3>3, <1>1 DEF GraphType, Running
  <2>5. CASE Finish \/ ProcessFails
    <3>1. known' = 0 /\ trials' = 0 /\ valid' = FALSE /\ waits' = waits /\ rpc' \in {"ended", "boot"}
      BY <2>5, Zenon DEF Finish, ProcessFails, Forget, thread
    <3>2. try' \in 1 .. MaxTries
      BY <2>5, <1>1 DEF Finish, ProcessFails, GraphType, thread
    <3>3. waits' \in BOOLEAN /\ valid' \in BOOLEAN
      BY <3>1, <1>1, Zenon DEF GraphType
    <3>4. QED
      BY <2>2, <3>1, <3>2, <3>3, <1>1 DEF GraphType, Running
  <2>6. QED
    BY <1>4, <2>2, <2>3, <2>4, <2>5
<1>5. QED
  BY <1>2, <1>3, <1>4 DEF ReverserStep

LEMMA NextType == TypeOK /\ Budget /\ [Next]_vars => TypeOK'
<1> SUFFICES ASSUME TypeOK, Budget, [Next]_vars PROVE TypeOK'
  OBVIOUS
<1>1. ASSUME NEW w \in Workers, WorkerStep(w) PROVE TypeOK'
  BY <1>1, PcKept, PoolKept, UsedKept, WorkerTexts
     DEF PcType, PoolType, UsedType, TextType, GraphType, TypeOK
<1>2. CASE ReverserStep
  BY <1>2, ReverserTexts, ReverserFrame
     DEF TextType, GraphType, TypeOK, Uniafl, workerVars, poolVars, usedVars, Count
<1>3. CASE UNCHANGED vars
  BY <1>3 DEF vars, workerVars, poolVars, usedVars, texts, thread, graph, TypeOK, Count
<1>4. QED
  BY <1>1, <1>2, <1>3 DEF Next

-----------------------------------------------------------------------------
(* The theorems *)

LEMMA IInvHolds == Spec => []IInv
<1>1. IInv /\ [Next]_vars => IInv'
  BY NextType, NextToken, NextNothingLeft, NextClosed, NextBudget, NextFile, NextGuess DEF IInv
<1>2. QED
  BY InitIInv, <1>1, PTL DEF Spec

\* Every variable keeps its type: no id is used or guessed that has no testlang
\* (pick_testlang_idx, pull_testlang).
THEOREM TypeCorrect == Spec => []TypeOK
<1>1. IInv => TypeOK
  BY DEF IInv
<1>2. QED
  BY <1>1, IInvHolds, PTL

\* Runs of the reverser never meet, however many workers ask for a rerun at once
\* (check_reverser_run, evaluate_rerun, rerun_complete).
THEOREM RunsNeverMeet == Spec => []RerunsApart
<1>1. IInv => RerunsApart
  BY DEF IInv, Token, NothingLeft, RerunsApart, TypeOK
<1>2. QED
  BY <1>1, IInvHolds, PTL

\* The file of used ids follows the set, whichever worker uses a testlang while
\* another writes (push_used_testlangs, mutate).
THEOREM UsedAreTold == Spec => []FileFollows
<1>1. IInv => FileFollows
  BY DEF IInv
<1>2. QED
  BY <1>1, IInvHolds, PTL

\* The reverser guesses the ids uniafl will give, and names the diffs by them, for
\* every number of runs and restarts without a slip (prepare_prompt,
\* check_testlang, pull_testlang).
THEOREM IdsAreGuessed == Spec => []GuessesAgree
<1>1. IInv => GuessesAgree
  <2> SUFFICES ASSUME IInv, ~slip, rpc \in Running \ {"boot"}
               PROVE  known = Count + Cardinality(outputs)
    BY DEF IInv, Guess, GuessesAgree
  <2>1. known = IF outputs = {} THEN Count ELSE Count + 1
    BY DEF IInv, Guess
  <2>2. CASE outputs = {}
    BY <2>1, <2>2, FS_EmptySet, Numbers DEF IInv
  <2>3. CASE outputs # {}
    <3> PICK o \in outputs : outputs = {o}
      BY <2>3 DEF IInv, Guess
    <3>1. Cardinality(outputs) = 1
      BY FS_Singleton
    <3>2. QED
      BY <2>1, <2>3, <3>1
  <2>4. QED
    BY <2>2, <2>3
<1>2. QED
  BY <1>1, IInvHolds, PTL
=============================================================================
