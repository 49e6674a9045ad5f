-------------------------- MODULE PathQueue_proofs --------------------------
(***************************************************************************)
(* What PathQueue promises for every number of consumers, paths and runs.  *)
(*                                                                         *)
(* The argument: each item put is queued, held by a consumer, or done with *)
(* (Counted); so that when join() returns nobody holds anything, and       *)
(* nothing can be taken any more (JoinedEmpty).  In the queue a None is    *)
(* followed by candidates only if one came late (Ordered).  A step is of   *)
(* one harness and leaves the others as they are, the Redis sets apart.    *)
(***************************************************************************)
EXTENDS PathQueue, FiniteSetTheorems, SequenceTheorems, TLAPS

\* UnfinishedCount of one harness.
Counted(h) == unfinished[h] = Len(queue[h]) + Cardinality(Busy(h))

\* Agents belong to a consumer that waits for them, or has died.
TasksOwned(h) ==
  \A w \in Workers : DOMAIN tasks[h][w] # {} => cons[h][w] \in {"run", "dead"}

JoinedEmpty(h) ==
  main[h] \in {"thread", "done"} => queue[h] = <<>> /\ Busy(h) = {}

Gone(h) == \E w \in Workers : cons[h][w] = "exit"

\* Before the call-graph side ends there is no None, later the rest of the
\* queue after a None is None.
Ordered(h) ==
  /\ main[h] = "cpua" => ~Gone(h) /\ \A i \in 1..Len(queue[h]) : ~queue[h][i].stop
  /\ ~late[h] => \A i, j \in 1..Len(queue[h]) : i < j /\ queue[h][i].stop => queue[h][j].stop
  /\ ~late[h] /\ Gone(h) => \A i \in 1..Len(queue[h]) : queue[h][i].stop

Sound(h) == Counted(h) /\ TasksOwned(h) /\ JoinedEmpty(h) /\ Ordered(h)

IInv == TypeOK /\ \A h \in Harnesses : Sound(h)

LEMMA BusyFinite ==
  \A h : IsFiniteSet(Busy(h)) /\ Cardinality(Busy(h)) \in Nat
<1>1. QED
  BY QueueAssumption, FS_Subset, FS_CardinalityType DEF Busy

LEMMA QueueType ==
  ASSUME TypeOK, NEW h \in Harnesses
  PROVE  /\ queue[h] \in Seq(Items)
         /\ Len(queue[h]) \in Nat
         /\ Len(queue[h]) = 0 => queue[h] = <<>>
<1>1. queue \in [Harnesses -> Seq(Items)]
  BY DEF TypeOK
<1>2. queue[h] \in Seq(Items)
  BY <1>1
<1>3. QED
  BY <1>2, LenProperties, EmptySeq

LEMMA NoTasksType == NoTasks \in TaskMaps /\ DOMAIN NoTasks = {}
<1>1. NoTasks \in [{} -> {"bcda", "bga"}]
  BY DEF NoTasks
<1>2. QED
  BY <1>1 DEF TaskMaps

LEMMA InitIInv == Init => IInv
<1> SUFFICES ASSUME Init PROVE IInv
  OBVIOUS
<1>1. TypeOK
  BY NoTasksType DEF Init, TypeOK
<1> SUFFICES ASSUME NEW h \in Harnesses PROVE Sound(h)
  BY <1>1 DEF IInv
<1>2. Busy(h) = {}
  BY DEF Busy, Init
<1>3. unfinished[h] = 0 /\ queue[h] = <<>> /\ Len(queue[h]) = 0
  BY DEF Init
<1>4. Counted(h)
  BY <1>2, <1>3, FS_EmptySet DEF Counted
<1>5. TasksOwned(h)
  BY NoTasksType DEF Init, TasksOwned
<1>6. JoinedEmpty(h)
  BY <1>2, <1>3 DEF JoinedEmpty
<1>7. Ordered(h)
  BY <1>3 DEF Init, Ordered, Gone
<1>8. QED
  BY <1>4, <1>5, <1>6, <1>7 DEF Sound

-----------------------------------------------------------------------------
(* The queue, its count, and who holds an item. *)

\* A consumer that has an item is counted.
LEMMA HolderCounted ==
  ASSUME TypeOK, NEW h \in Harnesses, Counted(h), NEW w \in Busy(h)
  PROVE  /\ unfinished[h] \in Nat /\ unfinished[h] >= 1
         /\ Cardinality(Busy(h) \ {w}) = Cardinality(Busy(h)) - 1
<1>1. Cardinality(Busy(h)) # 0
  BY BusyFinite, FS_EmptySet
<1>2. Cardinality(Busy(h) \ {w}) = Cardinality(Busy(h)) - 1
  BY BusyFinite, FS_RemoveElement
<1>3. Cardinality(Busy(h)) \in Nat /\ Len(queue[h]) \in Nat
  BY QueueType, BusyFinite
<1>4. QED
  BY <1>1, <1>2, <1>3 DEF Counted

\* An item in the queue is counted.
LEMMA QueuedCounted ==
  ASSUME TypeOK, NEW h \in Harnesses, Counted(h), queue[h] # <<>>
  PROVE  /\ unfinished[h] \in Nat /\ unfinished[h] >= 1
         /\ Head(queue[h]) \in Items /\ Tail(queue[h]) \in Seq(Items)
         /\ Len(Tail(queue[h])) = Len(queue[h]) - 1
         /\ Len(queue[h]) >= 1
         /\ \A i \in 1..Len(Tail(queue[h])) : Tail(queue[h])[i] = queue[h][i + 1]
<1>1. Len(queue[h]) >= 1
  BY QueueType
<1>2. QED
  BY <1>1, QueueType, BusyFinite, HeadTailProperties DEF Counted

\* What lies in the queue when nothing is unfinished.
LEMMA NothingUnfinished ==
  ASSUME TypeOK, NEW h \in Harnesses, Counted(h), unfinished[h] = 0
  PROVE  queue[h] = <<>> /\ Busy(h) = {}
<1>1. Len(queue[h]) = 0 /\ Cardinality(Busy(h)) = 0
  BY QueueType, BusyFinite DEF Counted
<1>2. QED
  BY <1>1, QueueType, BusyFinite, FS_EmptySet

\* The None of each consumer.
Sentinels == [i \in 1..Cardinality(Workers) |-> Sentinel]

LEMMA SentinelsType ==
  /\ Cardinality(Workers) \in Nat
  /\ Sentinels \in Seq(Items) /\ Len(Sentinels) = Cardinality(Workers)
  /\ \A i \in 1..Cardinality(Workers) : Sentinels[i].stop
<1>1. Cardinality(Workers) \in Nat
  BY QueueAssumption, FS_CardinalityType
<1>2. Sentinel \in Items /\ Sentinel.stop
  BY DEF Sentinel, Items
<1>3. Sentinels \in [1..Cardinality(Workers) -> Items]
  BY <1>2 DEF Sentinels
<1>4. QED
  BY <1>1, <1>2, <1>3 DEF Sentinels

-----------------------------------------------------------------------------
(* TypeOK is inductive. *)

LEMMA Updated ==
  ASSUME NEW A, NEW S, NEW f \in [A -> S], NEW a, NEW x \in S
  PROVE  [f EXCEPT ![a] = x] \in [A -> S]
<1>1. QED
  OBVIOUS

\* What a consumer does changes its own place of a variable.
LEMMA ConsUpdated ==
  ASSUME TypeOK, NEW h \in Harnesses, NEW w \in Workers,
         NEW c \in {"get", "extract", "run", "exit", "dead"},
         cons' = [cons EXCEPT ![h][w] = c]
  PROVE  cons' \in [Harnesses -> [Workers -> {"get", "extract", "run", "exit", "dead"}]]
<1>1. cons \in [Harnesses -> [Workers -> {"get", "extract", "run", "exit", "dead"}]]
  BY DEF TypeOK
<1>2. QED
  BY <1>1

LEMMA ItemUpdated ==
  ASSUME TypeOK, NEW h \in Harnesses, NEW w \in Workers, NEW ps \in SUBSET Paths,
         item' = [item EXCEPT ![h][w] = ps]
  PROVE  item' \in [Harnesses -> [Workers -> SUBSET Paths]]
<1>1. item \in [Harnesses -> [Workers -> SUBSET Paths]]
  BY DEF TypeOK
<1>2. QED
  BY <1>1

LEMMA TasksUpdated ==
  ASSUME TypeOK, NEW h \in Harnesses, NEW w \in Workers, NEW t \in TaskMaps,
         tasks' = [tasks EXCEPT ![h][w] = t]
  PROVE  tasks' \in [Harnesses -> [Workers -> TaskMaps]]
<1>1. tasks \in [Harnesses -> [Workers -> TaskMaps]]
  BY DEF TypeOK
<1>2. QED
  BY <1>1

LEMMA WithoutType ==
  ASSUME TypeOK, NEW h \in Harnesses, NEW w \in Workers, NEW p
  PROVE  Without(h, w, p) \in TaskMaps
<1>1. tasks[h][w] \in TaskMaps
  BY DEF TypeOK
<1>2. PICK ps \in SUBSET Paths : tasks[h][w] \in [ps -> {"bcda", "bga"}]
  BY <1>1 DEF TaskMaps
<1>3. Without(h, w, p) \in [ps \ {p} -> {"bcda", "bga"}]
  BY <1>2 DEF Without
<1>4. QED
  BY <1>3 DEF TaskMaps

\* The paths of an agent are paths.
LEMMA TaskPaths ==
  ASSUME TypeOK, NEW h \in Harnesses, NEW w \in Workers
  PROVE  /\ DOMAIN tasks[h][w] \subseteq Paths
         /\ tasks[h][w] \in [DOMAIN tasks[h][w] -> {"bcda", "bga"}]
         /\ Unexplored(h, w) \subseteq Paths
<1>1. tasks[h][w] \in TaskMaps /\ item[h][w] \subseteq Paths
  BY DEF TypeOK
<1>2. QED
  BY <1>1 DEF TaskMaps, Unexplored

\* The tasks made for a set of paths.
LEMMA NewTasks ==
  ASSUME NEW ps \in SUBSET Paths
  PROVE  [p \in ps |-> "bcda"] \in TaskMaps
<1>1. [p \in ps |-> "bcda"] \in [ps -> {"bcda", "bga"}]
  OBVIOUS
<1>2. QED
  BY <1>1 DEF TaskMaps

LEMMA TypeMain ==
  ASSUME TypeOK, NEW h \in Harnesses,
         Put(h) \/ Rerun(h) \/ MainStep(h)
  PROVE  TypeOK'
<1>1. CASE Put(h)
  <2>1. \A ps \in SUBSET Paths : Append(queue[h], Candidate(ps)) \in Seq(Items)
    <3>1. \A ps \in SUBSET Paths : Candidate(ps) \in Items
      BY DEF Candidate, Items
    <3>2. QED
      BY <3>1, QueueType, AppendProperties
  <2>2. queue' \in [Harnesses -> Seq(Items)]
    BY <1>1, <2>1 DEF Put, TypeOK
  <2>3. unfinished' \in [Harnesses -> Nat] /\ puts' \in [Harnesses -> Nat]
    BY <1>1 DEF Put, TypeOK
  <2>4. late' \in [Harnesses -> BOOLEAN]
    <3>1. late \in [Harnesses -> BOOLEAN]
      BY DEF TypeOK
    <3>2. (late[h] \/ main[h] = "closing") \in BOOLEAN
      OBVIOUS
    <3>3. late' = [late EXCEPT ![h] = late[h] \/ main[h] = "closing"]
      BY <1>1, Zenon DEF Put
    <3>4. QED
      BY <3>1, <3>2, <3>3, Updated, Zenon
  <2>5. QED
    BY <1>1, <2>2, <2>3, <2>4 DEF Put, TypeOK, redisVars, consVars
<1>2. CASE CpuaEnds(h)
  <2>1. queue[h] \o Sentinels \in Seq(Items)
    BY QueueType, SentinelsType, ConcatProperties
  <2>2. queue' \in [Harnesses -> Seq(Items)]
    BY <1>2, <2>1 DEF CpuaEnds, AddSentinels, Sentinels, TypeOK
  <2>3. unfinished' \in [Harnesses -> Nat]
    BY <1>2, SentinelsType DEF CpuaEnds, TypeOK
  <2>4. QED
    BY <1>2, <2>2, <2>3 DEF CpuaEnds, TypeOK, redisVars, consVars
<1>3. CASE LeaveInit(h) \/ JoinQueue(h) \/ JoinThread(h)
  <2>1. UNCHANGED <<runs, queue, unfinished, puts, late, wip, done, explored,
                    cons, item, tasks, starts>>
    BY <1>3, Zenon DEF LeaveInit, JoinQueue, JoinThread, queueVars, redisVars, consVars
  <2>2. \E m \in {"join", "thread", "done"} : main' = [main EXCEPT ![h] = m]
    BY <1>3, Zenon DEF LeaveInit, JoinQueue, JoinThread
  <2>3. main' \in [Harnesses -> {"cpua", "closing", "join", "thread", "done"}]
    BY <2>2 DEF TypeOK
  <2>4. QED
    BY <2>1, <2>3 DEF TypeOK
<1>4. CASE Rerun(h)
  <2>1. <<>> \in Seq(Items)
    OBVIOUS
  <2>2. QED
    BY <1>4, <2>1, NoTasksType DEF Rerun, TypeOK
<1>5. QED
  BY <1>1, <1>2, <1>3, <1>4 DEF MainStep

\* The history of starts.
LEMMA StartsType ==
  ASSUME TypeOK, NEW h \in Harnesses, NEW ps,
         starts' = [starts EXCEPT ![h] = [p \in Paths |-> @[p] + (IF p \in ps THEN 1 ELSE 0)]]
  PROVE  starts' \in [Harnesses -> [Paths -> Nat]]
<1>1. [p \in Paths |-> starts[h][p] + (IF p \in ps THEN 1 ELSE 0)] \in [Paths -> Nat]
  BY DEF TypeOK
<1>2. QED
  BY <1>1 DEF TypeOK

\* task_done() by a consumer that holds an item.
LEMMA LessOne ==
  ASSUME TypeOK, NEW h \in Harnesses, Counted(h), NEW w \in Busy(h), TaskDone(h)
  PROVE  unfinished' \in [Harnesses -> Nat]
<1>1. unfinished[h] \in Nat /\ unfinished[h] >= 1
  BY HolderCounted
<1>2. unfinished[h] - 1 \in Nat
  BY <1>1
<1>3. QED
  BY <1>2 DEF TaskDone, TypeOK

LEMMA TypeConsumer ==
  ASSUME TypeOK, NEW h \in Harnesses, Counted(h), NEW w \in Workers, ConsumerStep(h, w)
  PROVE  TypeOK'
<1> DEFINE States == {"get", "extract", "run", "exit", "dead"}
<1>1. CASE Get(h, w)
  <2>1. queue' \in [Harnesses -> Seq(Items)]
    BY <1>1, QueuedCounted DEF Get, TypeOK
  <2>2. unfinished' \in [Harnesses -> Nat]
    BY <1>1, QueuedCounted, SMTT(30) DEF Get, TaskDone, TypeOK
  <2>3. item' \in [Harnesses -> [Workers -> SUBSET Paths]]
    <3>1. Head(queue[h]).paths \in SUBSET Paths
      BY <1>1, QueuedCounted DEF Get, Items
    <3>2. CASE item' = item
      BY <3>2 DEF TypeOK
    <3>3. CASE item' = [item EXCEPT ![h][w] = Head(queue[h]).paths]
      BY <3>1, <3>3, ItemUpdated
    <3>4. QED
      BY <1>1, <3>2, <3>3, Zenon DEF Get
  <2>4. cons' \in [Harnesses -> [Workers -> States]]
    <3>1. \E c \in {"exit", "extract"} : cons' = [cons EXCEPT ![h][w] = c]
      BY <1>1, Zenon DEF Get
    <3>2. QED
      BY <3>1, ConsUpdated
  <2>5. QED
    BY <1>1, <2>1, <2>2, <2>3, <2>4, SMTT(30) DEF Get, TypeOK, redisVars
<1>2. CASE Extract(h, w)
  <2>1. wip' \subseteq {Id(g, p) : g \in Harnesses, p \in Paths}
    BY <1>2, TaskPaths DEF Extract, TypeOK
  <2>2. tasks' \in [Harnesses -> [Workers -> TaskMaps]]
    <3>1. [p \in Unexplored(h, w) |-> "bcda"] \in TaskMaps
      BY NewTasks, TaskPaths
    <3>2. QED
      BY <1>2, <3>1, TasksUpdated DEF Extract
  <2>3. starts' \in [Harnesses -> [Paths -> Nat]]
    BY <1>2, StartsType DEF Extract
  <2>4. cons' \in [Harnesses -> [Workers -> States]]
        /\ item' \in [Harnesses -> [Workers -> SUBSET Paths]]
    BY <1>2 DEF Extract, TypeOK
  <2>5. UNCHANGED <<main, runs, queue, unfinished, puts, late, done, explored>>
    BY <1>2, Zenon DEF Extract, queueVars
  <2>6. QED
    BY <2>1, <2>2, <2>3, <2>4, <2>5 DEF TypeOK
<1>3. CASE ExtractFails(h, w)
  <2>1. wip' \subseteq {Id(g, p) : g \in Harnesses, p \in Paths}
    BY <1>3, TaskPaths DEF ExtractFails, TypeOK
  <2>2. unfinished' \in [Harnesses -> Nat]
    <3>1. w \in Busy(h)
      BY <1>3 DEF ExtractFails, Busy
    <3>2. QED
      BY <1>3, <3>1, LessOne DEF ExtractFails, Skip
  <2>3. cons' \in [Harnesses -> [Workers -> States]]
        /\ item' \in [Harnesses -> [Workers -> SUBSET Paths]]
    BY <1>3 DEF ExtractFails, TypeOK
  <2>4. UNCHANGED <<main, runs, queue, puts, late, done, explored, tasks, starts>>
    BY <1>3, Zenon DEF ExtractFails
  <2>5. QED
    BY <2>1, <2>2, <2>3, <2>4 DEF TypeOK
<1>4. CASE CopyFails(h, w)
  <2>1. wip' \subseteq {Id(g, p) : g \in Harnesses, p \in Paths}
    BY <1>4, TaskPaths DEF CopyFails, TypeOK
  <2>2. PICK ps \in SUBSET Unexplored(h, w) :
          /\ tasks' = [tasks EXCEPT ![h][w] = [p \in ps |-> "bcda"]]
          /\ starts' = [starts EXCEPT ![h] =
                          [p \in Paths |-> @[p] + (IF p \in ps THEN 1 ELSE 0)]]
    BY <1>4 DEF CopyFails
  <2>3. tasks' \in [Harnesses -> [Workers -> TaskMaps]]
    <3>1. [p \in ps |-> "bcda"] \in TaskMaps
      BY NewTasks, TaskPaths
    <3>2. QED
      BY <2>2, <3>1, TasksUpdated
  <2>4. starts' \in [Harnesses -> [Paths -> Nat]]
    BY <2>2, StartsType
  <2>5. cons' \in [Harnesses -> [Workers -> States]]
        /\ item' \in [Harnesses -> [Workers -> SUBSET Paths]]
    BY <1>4 DEF CopyFails, TypeOK
  <2>6. UNCHANGED <<main, runs, queue, unfinished, puts, late, done, explored>>
    BY <1>4, Zenon DEF CopyFails, queueVars
  <2>7. QED
    BY <2>1, <2>3, <2>4, <2>5, <2>6 DEF TypeOK
<1>5. CASE FinishItem(h, w)
  <2>1. w \in Busy(h)
    BY <1>5 DEF FinishItem, Busy
  <2>2. unfinished' \in [Harnesses -> Nat]
    BY <1>5, <2>1, LessOne DEF FinishItem
  <2>3. cons' \in [Harnesses -> [Workers -> States]]
    BY <1>5 DEF FinishItem, TypeOK
  <2>4. QED
    BY <1>5, <2>2, <2>3 DEF FinishItem, TypeOK, redisVars
<1>6. ASSUME NEW p \in Paths, BcdaEnds(h, w, p) PROVE TypeOK'
  <2>1. [tasks[h][w] EXCEPT ![p] = "bga"] \in TaskMaps
    <3> DEFINE ps == DOMAIN tasks[h][w]
    <3>1. ps \in SUBSET Paths /\ tasks[h][w] \in [ps -> {"bcda", "bga"}]
      BY TaskPaths
    <3> HIDE DEF ps
    <3>2. [tasks[h][w] EXCEPT ![p] = "bga"] \in [ps -> {"bcda", "bga"}]
      BY <3>1
    <3>3. QED
      BY <3>1, <3>2 DEF TaskMaps
  <2>2. tasks' \in [Harnesses -> [Workers -> TaskMaps]]
    <3>1. CASE tasks' = [tasks EXCEPT ![h][w][p] = "bga"]
      <4>1. tasks' = [tasks EXCEPT ![h][w] = [tasks[h][w] EXCEPT ![p] = "bga"]]
        BY <3>1
      <4>2. QED
        BY <4>1, <2>1, TasksUpdated
    <3>2. CASE tasks' = [tasks EXCEPT ![h][w] = Without(h, w, p)]
      BY <3>2, WithoutType, TasksUpdated
    <3>3. QED
      BY <1>6, <3>1, <3>2 DEF BcdaEnds
  <2>3. /\ done' \subseteq {Tag(q) : q \in Paths}
        /\ explored' \subseteq {Id(g, q) : g \in Harnesses, q \in Paths}
    BY <1>6 DEF BcdaEnds, TypeOK
  <2>4. QED
    BY <1>6, <2>2, <2>3 DEF BcdaEnds, TypeOK, queueVars
<1>7. ASSUME NEW p \in Paths, TaskEnds(h, w, p) PROVE TypeOK'
  <2>1. tasks' \in [Harnesses -> [Workers -> TaskMaps]]
    BY <1>7, WithoutType DEF TaskEnds, TypeOK
  <2>2. QED
    BY <1>7, <2>1 DEF TaskEnds, TypeOK, queueVars, redisVars
<1>8. QED
  BY <1>1, <1>2, <1>3, <1>4, <1>5, <1>6, <1>7 DEF ConsumerStep

-----------------------------------------------------------------------------
(* The other harnesses. *)

Step(h) == Put(h) \/ Rerun(h) \/ MainStep(h) \/ \E w \in Workers : ConsumerStep(h, w)

\* What Sound(g) is about.
Same(g) ==
  /\ main'[g] = main[g] /\ queue'[g] = queue[g] /\ unfinished'[g] = unfinished[g]
  /\ cons'[g] = cons[g] /\ tasks'[g] = tasks[g] /\ late'[g] = late[g]

LEMMA SameIsSound ==
  ASSUME NEW g \in Harnesses, Sound(g), Same(g)
  PROVE  Sound(g)'
<1>1. Busy(g)' = Busy(g) /\ (Gone(g)' <=> Gone(g))
  BY DEF Same, Busy, Gone
<1>2. Counted(g)'
  BY <1>1 DEF Same, Sound, Counted
<1>3. TasksOwned(g)'
  BY DEF Same, Sound, TasksOwned
<1>4. JoinedEmpty(g)'
  BY <1>1 DEF Same, Sound, JoinedEmpty
<1>5. Ordered(g)'
  BY <1>1 DEF Same, Sound, Ordered
<1>6. QED
  BY <1>2, <1>3, <1>4, <1>5 DEF Sound

LEMMA OthersAreSame ==
  ASSUME TypeOK, NEW h \in Harnesses, NEW g \in Harnesses, g # h, Step(h)
  PROVE  Same(g)
<1>0. /\ DOMAIN main = Harnesses /\ DOMAIN queue = Harnesses /\ DOMAIN unfinished = Harnesses
      /\ DOMAIN cons = Harnesses /\ DOMAIN tasks = Harnesses /\ DOMAIN late = Harnesses
  BY DEF TypeOK
<1>1. CASE Put(h)
  BY <1>0, <1>1 DEF Put, Same, consVars
<1>2. CASE Rerun(h)
  BY <1>0, <1>2 DEF Rerun, Same
<1>3. CASE MainStep(h)
  BY <1>0, <1>3 DEF MainStep, CpuaEnds, AddSentinels, LeaveInit, JoinQueue, JoinThread, Same,
                    queueVars, consVars
<1>4. ASSUME NEW w \in Workers, ConsumerStep(h, w) PROVE Same(g)
  <2>1. CASE Get(h, w)
    BY <1>0, <2>1 DEF Get, TaskDone, Same
  <2>2. CASE Extract(h, w) \/ CopyFails(h, w)
    BY <1>0, <2>2 DEF Extract, CopyFails, queueVars, Same
  <2>3. CASE ExtractFails(h, w) \/ FinishItem(h, w)
    BY <1>0, <2>3 DEF ExtractFails, FinishItem, Skip, TaskDone, Same
  <2>4. CASE \E q \in Paths : BcdaEnds(h, w, q) \/ TaskEnds(h, w, q)
    BY <1>0, <2>4 DEF BcdaEnds, TaskEnds, queueVars, Same
  <2>5. QED
    BY <1>4, <2>1, <2>2, <2>3, <2>4 DEF ConsumerStep
<1>5. QED
  BY <1>1, <1>2, <1>3, <1>4 DEF Step

-----------------------------------------------------------------------------
(* The harness that takes the step. *)

LEMMA PutIsSound ==
  ASSUME TypeOK, NEW h \in Harnesses, Sound(h), Put(h)
  PROVE  Sound(h)'
<1> DEFINE n == Len(queue[h])
<1>1. PICK ps \in SUBSET Paths : queue' = [queue EXCEPT ![h] = Append(@, Candidate(ps))]
  BY DEF Put
<1>2. /\ queue'[h] = Append(queue[h], Candidate(ps))
      /\ unfinished'[h] = unfinished[h] + 1
  BY <1>1 DEF Put, TypeOK
<1>20. main[h] = "closing" => late'[h]
  <2>1. DOMAIN late = Harnesses
    BY DEF TypeOK
  <2>2. late' = [late EXCEPT ![h] = late[h] \/ main[h] = "closing"]
    BY Zenon DEF Put
  <2>3. late'[h] = (late[h] \/ main[h] = "closing")
    BY <2>1, <2>2, Zenon
  <2>4. QED
    BY <2>3, Zenon
<1>3. /\ Candidate(ps) \in Items /\ Candidate(ps).stop = FALSE
      /\ UNCHANGED <<main, cons, tasks>> /\ main[h] \in {"cpua", "closing"}
  BY DEF Candidate, Items, Put, consVars
<1>4. /\ n \in Nat /\ Len(queue'[h]) = n + 1
      /\ \A i \in 1..n : queue'[h][i] = queue[h][i]
      /\ queue'[h][n + 1] = Candidate(ps)
  BY <1>2, <1>3, QueueType, AppendProperties
<1>5. Busy(h)' = Busy(h) /\ (Gone(h)' <=> Gone(h))
  BY <1>3 DEF Busy, Gone
<1>6. Counted(h)'
  <2>1. unfinished[h] = n + Cardinality(Busy(h)) /\ Cardinality(Busy(h)) \in Nat
    BY BusyFinite DEF Sound, Counted
  <2>2. unfinished'[h] = (n + 1) + Cardinality(Busy(h))
    BY <2>1, <1>2, <1>4
  <2>3. QED
    BY <2>2, <1>4, <1>5 DEF Counted
<1>7. TasksOwned(h)'
  BY <1>3 DEF Sound, TasksOwned
<1>8. JoinedEmpty(h)'
  BY <1>3 DEF JoinedEmpty
<1>9. Ordered(h)'
  <2>1. CASE main[h] = "closing"
    <3>1. late'[h] /\ main'[h] # "cpua"
      BY <1>20, <1>3, <2>1
    <3>2. QED
      BY <3>1 DEF Ordered
  <2>2. CASE main[h] = "cpua"
    <3>1. ~Gone(h) /\ \A i \in 1..n : ~queue[h][i].stop
      BY <2>2 DEF Sound, Ordered
    <3>2. \A i \in 1..Len(queue'[h]) : ~queue'[h][i].stop
      BY <3>1, <1>3, <1>4
    <3>3. QED
      BY <3>1, <3>2, <1>5 DEF Ordered
  <2>3. QED
    BY <1>3, <2>1, <2>2
<1>10. QED
  BY <1>6, <1>7, <1>8, <1>9 DEF Sound

LEMMA CpuaEndsIsSound ==
  ASSUME TypeOK, NEW h \in Harnesses, Sound(h), CpuaEnds(h)
  PROVE  Sound(h)'
<1> DEFINE n == Len(queue[h])
<1> DEFINE k == Cardinality(Workers)
<1>0. UNCHANGED <<late, cons, tasks>>
  BY Zenon DEF CpuaEnds, consVars
<1>1. /\ queue'[h] = queue[h] \o Sentinels
      /\ unfinished'[h] = unfinished[h] + k
      /\ main[h] = "cpua" /\ main'[h] = "closing"
  <2>1. /\ queue' = [queue EXCEPT ![h] = queue[h] \o Sentinels]
        /\ unfinished' = [unfinished EXCEPT ![h] = unfinished[h] + k]
        /\ main' = [main EXCEPT ![h] = "closing"]
        /\ main[h] = "cpua"
    BY Zenon DEF CpuaEnds, AddSentinels, Sentinels
  <2>2. DOMAIN queue = Harnesses /\ DOMAIN unfinished = Harnesses /\ DOMAIN main = Harnesses
    BY DEF TypeOK
  <2>3. QED
    BY <2>1, <2>2, Zenon
<1>2. /\ n \in Nat /\ k \in Nat /\ Len(queue'[h]) = n + k
      /\ \A i \in 1..n : queue'[h][i] = queue[h][i]
      /\ \A i \in 1..(n + k) : i > n => queue'[h][i].stop
  <2>1. /\ queue[h] \in Seq(Items) /\ n \in Nat
        /\ Sentinels \in Seq(Items) /\ Len(Sentinels) = k /\ k \in Nat
    BY QueueType, SentinelsType
  <2> HIDE DEF n, k
  <2>2. /\ Len(queue'[h]) = n + k
        /\ \A i \in 1..(n + k) : queue'[h][i] = IF i <= n THEN queue[h][i] ELSE Sentinels[i - n]
    <3>1. Len(queue[h]) = n
      BY DEF n
    <3>2. /\ Len(queue[h] \o Sentinels) = Len(queue[h]) + Len(Sentinels)
          /\ \A i \in 1..(Len(queue[h]) + Len(Sentinels)) : (queue[h] \o Sentinels)[i] =
                IF i <= Len(queue[h]) THEN queue[h][i] ELSE Sentinels[i - Len(queue[h])]
      BY <2>1, ConcatProperties, Zenon
    <3>3. QED
      BY <1>1, <2>1, <3>1, <3>2, Zenon
  <2>3. \A i \in 1..n : queue'[h][i] = queue[h][i]
    BY <2>1, <2>2
  <2>4. \A i \in 1..(n + k) : i > n => i - n \in 1..k /\ queue'[h][i] = Sentinels[i - n]
    BY <2>1, <2>2
  <2>5. \A i \in 1..k : Sentinels[i].stop
    BY SentinelsType DEF k
  <2>6. QED
    BY <2>1, <2>2, <2>3, <2>4, <2>5
<1>3. Busy(h)' = Busy(h) /\ (Gone(h)' <=> Gone(h))
  BY <1>0 DEF Busy, Gone
<1>4. Counted(h)'
  <2>1. unfinished[h] = n + Cardinality(Busy(h)) /\ Cardinality(Busy(h)) \in Nat
    BY BusyFinite DEF Sound, Counted
  <2>2. unfinished'[h] = (n + k) + Cardinality(Busy(h))
    BY <2>1, <1>1, <1>2
  <2>3. QED
    BY <2>2, <1>2, <1>3 DEF Counted
<1>5. TasksOwned(h)'
  BY <1>0 DEF Sound, TasksOwned
<1>6. JoinedEmpty(h)'
  BY <1>1 DEF JoinedEmpty
<1>7. Ordered(h)'
  <2>1. ~Gone(h) /\ \A i \in 1..n : ~queue[h][i].stop
    BY <1>1 DEF Sound, Ordered
  <2>2. \A i \in 1..n : ~queue'[h][i].stop
    BY <1>2, <2>1
  <2>3. ASSUME NEW i \in 1..(n + k), NEW j \in 1..(n + k), i < j, queue'[h][i].stop
        PROVE  queue'[h][j].stop
    <3>1. i \notin 1..n
      BY <2>2, <2>3
    <3>2. j > n
      BY <1>2, <2>3, <3>1
    <3>3. QED
      BY <1>2, <3>2
  <2>4. \A i, j \in 1..(n + k) : i < j /\ queue'[h][i].stop => queue'[h][j].stop
    BY <2>3
  <2>5. QED
    BY <1>1, <1>2, <1>3, <2>1, <2>4 DEF Ordered
<1>8. QED
  BY <1>4, <1>5, <1>6, <1>7 DEF Sound

\* main goes on: the queue stays as it is.
LEMMA MainGoesOnIsSound ==
  ASSUME TypeOK, NEW h \in Harnesses, Sound(h),
         LeaveInit(h) \/ JoinQueue(h) \/ JoinThread(h)
  PROVE  Sound(h)'
<1>1. /\ UNCHANGED <<queue, unfinished, late, cons, tasks>>
      /\ main'[h] # "cpua"
  BY DEF LeaveInit, JoinQueue, JoinThread, TypeOK, queueVars, consVars
<1>2. Busy(h)' = Busy(h) /\ (Gone(h)' <=> Gone(h))
  BY <1>1 DEF Busy, Gone
<1>3. JoinedEmpty(h)'
  <2>1. CASE LeaveInit(h)
    BY <2>1 DEF LeaveInit, JoinedEmpty, TypeOK
  <2>2. CASE JoinQueue(h)
    BY <2>2, <1>1, <1>2, NothingUnfinished DEF JoinQueue, JoinedEmpty, Sound
  <2>3. CASE JoinThread(h)
    BY <2>3, <1>1, <1>2 DEF JoinThread, JoinedEmpty, Sound
  <2>4. QED
    BY <2>1, <2>2, <2>3
<1>4. Counted(h)' /\ TasksOwned(h)'
  BY <1>1, <1>2 DEF Sound, Counted, TasksOwned
<1>5. Ordered(h)'
  BY <1>1, <1>2 DEF Sound, Ordered
<1>6. QED
  BY <1>3, <1>4, <1>5 DEF Sound

LEMMA RerunIsSound ==
  ASSUME TypeOK, NEW h \in Harnesses, Rerun(h)
  PROVE  Sound(h)'
<1>1. /\ queue'[h] = <<>> /\ unfinished'[h] = 0 /\ main'[h] = "cpua"
      /\ \A w \in Workers : cons'[h][w] = "get" /\ tasks'[h][w] = NoTasks
  BY DEF Rerun, TypeOK
<1>2. Busy(h)' = {} /\ ~Gone(h)' /\ Len(queue'[h]) = 0
  BY <1>1 DEF Busy, Gone
<1>3. Counted(h)'
  BY <1>1, <1>2, FS_EmptySet DEF Counted
<1>4. TasksOwned(h)' /\ JoinedEmpty(h)'
  BY <1>1, NoTasksType DEF TasksOwned, JoinedEmpty
<1>5. Ordered(h)'
  BY <1>1, <1>2 DEF Ordered
<1>6. QED
  BY <1>3, <1>4, <1>5 DEF Sound

-----------------------------------------------------------------------------
(* The consumer that takes the step. *)

\* Where the other consumers stand.
LEMMA OneConsumer ==
  ASSUME TypeOK, NEW h \in Harnesses, NEW w \in Workers, NEW c,
         cons' = [cons EXCEPT ![h][w] = c]
  PROVE  cons'[h][w] = c /\ \A v \in Workers \ {w} : cons'[h][v] = cons[h][v]
<1>1. QED
  BY DEF TypeOK

\* A consumer takes an item, or goes on with it.
LEMMA Holds ==
  ASSUME TypeOK, NEW h \in Harnesses, NEW w \in Workers,
         NEW c \in {"extract", "run", "dead"},
         cons' = [cons EXCEPT ![h][w] = c]
  PROVE  Busy(h)' = Busy(h) \cup {w} /\ (Gone(h)' => Gone(h))
<1>1. cons'[h][w] = c /\ \A v \in Workers \ {w} : cons'[h][v] = cons[h][v]
  BY OneConsumer
<1>2. QED
  BY <1>1 DEF Busy, Gone

\* A consumer is done with its item, or leaves.
LEMMA Releases ==
  ASSUME TypeOK, NEW h \in Harnesses, NEW w \in Workers,
         NEW c \in {"get", "exit"},
         cons' = [cons EXCEPT ![h][w] = c]
  PROVE  Busy(h)' = Busy(h) \ {w} /\ (c = "get" => (Gone(h)' => Gone(h)))
<1>1. cons'[h][w] = c /\ \A v \in Workers \ {w} : cons'[h][v] = cons[h][v]
  BY OneConsumer
<1>2. QED
  BY <1>1 DEF Busy, Gone

\* A step that takes nothing from the queue and adds nothing to it.
LEMMA QueueLeft ==
  ASSUME NEW h \in Harnesses, Ordered(h), Gone(h)' => Gone(h),
         UNCHANGED <<main, queue, late>>
  PROVE  Ordered(h)'
<1>1. QED
  BY DEF Ordered

LEMMA GetIsSound ==
  ASSUME TypeOK, NEW h \in Harnesses, Sound(h), NEW w \in Workers, Get(h, w)
  PROVE  Sound(h)'
<1> DEFINE q == queue[h]
<1> DEFINE r == Tail(queue[h])
<1>1. /\ q # <<>> /\ cons[h][w] = "get" /\ queue'[h] = r
      /\ main[h] # "done" /\ UNCHANGED <<main, late, tasks>>
  BY DEF Get, Running, TypeOK
<1>2. /\ Counted(h) /\ TasksOwned(h) /\ JoinedEmpty(h) /\ Ordered(h)
      /\ w \notin Busy(h)
  BY <1>1 DEF Sound, Busy
<1>3. /\ unfinished[h] \in Nat /\ unfinished[h] >= 1
      /\ Len(q) \in Nat /\ Len(q) >= 1 /\ Len(r) = Len(q) - 1
      /\ \A i \in 1..Len(r) : r[i] = q[i + 1]
      /\ Cardinality(Busy(h)) \in Nat
  BY <1>1, <1>2, QueuedCounted, QueueType, BusyFinite
<1>4. Head(q) = q[1]
  BY <1>1, QueueType
<1>5. unfinished[h] = Len(q) + Cardinality(Busy(h))
  BY <1>2 DEF Counted
<1>6. CASE Head(q).stop
  <2>1. /\ unfinished'[h] = unfinished[h] - 1
        /\ cons' = [cons EXCEPT ![h][w] = "exit"]
    BY <1>6 DEF Get, TaskDone, TypeOK
  <2>2. Busy(h)' = Busy(h) /\ cons'[h][w] = "exit"
        /\ \A v \in Workers \ {w} : cons'[h][v] = cons[h][v]
    <3>1. Busy(h)' = Busy(h) \ {w}
      BY <2>1, Releases
    <3>2. cons'[h][w] = "exit" /\ \A v \in Workers \ {w} : cons'[h][v] = cons[h][v]
      BY <2>1, OneConsumer
    <3>3. QED
      BY <3>1, <3>2, <1>2
  <2>3. Counted(h)'
    BY <1>1, <1>3, <1>5, <2>1, <2>2 DEF Counted
  <2>4. TasksOwned(h)'
    BY <1>1, <1>2, <2>2 DEF TasksOwned
  <2>5. JoinedEmpty(h)'
    BY <1>1, <1>2 DEF JoinedEmpty
  <2>6. Ordered(h)'
    <3>1. main[h] # "cpua"
      BY <1>2, <1>3, <1>4, <1>6 DEF Ordered
    <3>2. ~late[h] => \A i \in 1..Len(r) : r[i].stop
      <4> SUFFICES ASSUME ~late[h], NEW i \in 1..Len(r) PROVE r[i].stop
        OBVIOUS
      <4>1. 1 \in 1..Len(q) /\ i + 1 \in 1..Len(q) /\ 1 < i + 1 /\ r[i] = q[i + 1]
        BY <1>3
      <4>2. q[1].stop
        BY <1>4, <1>6
      <4>3. QED
        BY <1>2, <4>1, <4>2 DEF Ordered
    <3>3. QED
      BY <1>1, <3>1, <3>2 DEF Ordered
  <2>7. QED
    BY <2>3, <2>4, <2>5, <2>6 DEF Sound
<1>7. CASE ~Head(q).stop
  <2>1. /\ unfinished' = unfinished
        /\ cons' = [cons EXCEPT ![h][w] = "extract"]
    BY <1>7, Zenon DEF Get
  <2>2. /\ Busy(h)' = Busy(h) \cup {w} /\ (Gone(h)' => Gone(h))
        /\ cons'[h][w] = "extract"
        /\ \A v \in Workers \ {w} : cons'[h][v] = cons[h][v]
    <3>1. Busy(h)' = Busy(h) \cup {w} /\ (Gone(h)' => Gone(h))
      BY <2>1, Holds
    <3>2. cons'[h][w] = "extract" /\ \A v \in Workers \ {w} : cons'[h][v] = cons[h][v]
      BY <2>1, OneConsumer
    <3>3. QED
      BY <3>1, <3>2, Zenon
  <2>3. Cardinality(Busy(h)') = Cardinality(Busy(h)) + 1
    BY <1>2, <2>2, BusyFinite, FS_AddElement
  <2>4. Counted(h)'
    BY <1>1, <1>3, <1>5, <2>1, <2>3 DEF Counted
  <2>5. TasksOwned(h)'
    BY <1>1, <1>2, <2>2 DEF TasksOwned
  <2>6. JoinedEmpty(h)'
    BY <1>1, <1>2 DEF JoinedEmpty
  <2>7. Ordered(h)'
    <3>1. ~late[h] => ~Gone(h)
      BY <1>2, <1>3, <1>4, <1>7 DEF Ordered
    <3>2. /\ main[h] = "cpua" => \A i \in 1..Len(r) : ~r[i].stop
          /\ ~late[h] => \A i, j \in 1..Len(r) : i < j /\ r[i].stop => r[j].stop
      <4>1. \A i \in 1..Len(r) : i + 1 \in 1..Len(q) /\ r[i] = q[i + 1]
        BY <1>3
      <4>2. \A i, j \in 1..Len(r) : i < j => i + 1 < j + 1
        BY <1>3
      <4>3. QED
        BY <1>2, <4>1, <4>2 DEF Ordered
    <3>3. main[h] = "cpua" => ~Gone(h)'
      BY <1>2, <2>2 DEF Ordered
    <3>4. QED
      BY <1>1, <2>2, <3>1, <3>2, <3>3 DEF Ordered
  <2>8. QED
    BY <2>4, <2>5, <2>6, <2>7 DEF Sound
<1>8. QED
  BY <1>6, <1>7

\* The holder of an item goes on holding it.
LEMMA HoldingIsSound ==
  ASSUME TypeOK, NEW h \in Harnesses, Sound(h), NEW w \in Workers,
         Extract(h, w) \/ CopyFails(h, w)
  PROVE  Sound(h)'
<1>1. /\ cons[h][w] = "extract"
      /\ \E c \in {"run", "dead"} : cons' = [cons EXCEPT ![h][w] = c]
      /\ \E t : tasks' = [tasks EXCEPT ![h][w] = t]
      /\ UNCHANGED <<main, queue, unfinished, late>>
  BY Zenon DEF Extract, CopyFails, queueVars
<1>2. /\ w \in Busy(h) /\ Busy(h)' = Busy(h) /\ (Gone(h)' => Gone(h))
      /\ cons'[h][w] \in {"run", "dead"}
      /\ \A v \in Workers \ {w} : cons'[h][v] = cons[h][v]
  <2>1. w \in Busy(h)
    BY <1>1 DEF Busy
  <2>2. PICK c \in {"run", "dead"} : cons' = [cons EXCEPT ![h][w] = c]
    BY <1>1
  <2>3. Busy(h)' = Busy(h) \cup {w} /\ (Gone(h)' => Gone(h))
    BY <2>2, Holds
  <2>4. cons'[h][w] = c /\ \A v \in Workers \ {w} : cons'[h][v] = cons[h][v]
    BY <2>2, OneConsumer
  <2>5. Busy(h)' = Busy(h)
    BY <2>1, <2>3
  <2>6. QED
    BY <2>1, <2>2, <2>3, <2>4, <2>5, Zenon
<1>3. \A v \in Workers \ {w} : tasks'[h][v] = tasks[h][v]
  BY <1>1 DEF TypeOK
<1>4. Counted(h)'
  BY <1>1, <1>2 DEF Counted, Sound
<1>5. TasksOwned(h)'
  BY <1>2, <1>3 DEF TasksOwned, Sound
<1>6. JoinedEmpty(h)'
  BY <1>1, <1>2 DEF JoinedEmpty, Sound
<1>7. Ordered(h)'
  BY <1>1, <1>2, QueueLeft DEF Sound
<1>8. QED
  BY <1>4, <1>5, <1>6, <1>7 DEF Sound

\* The holder of an item is done with it.
LEMMA FinishingIsSound ==
  ASSUME TypeOK, NEW h \in Harnesses, Sound(h), NEW w \in Workers,
         ExtractFails(h, w) \/ FinishItem(h, w)
  PROVE  Sound(h)'
<1>1. /\ cons[h][w] \in {"extract", "run"} /\ TaskDone(h)
      /\ cons' = [cons EXCEPT ![h][w] = "get"]
      /\ UNCHANGED <<main, queue, late, tasks>>
      /\ cons[h][w] = "extract" \/ DOMAIN tasks[h][w] = {}
  BY Zenon DEF ExtractFails, FinishItem, Skip, AllCompleted
<1>2. /\ w \in Busy(h) /\ Counted(h)
  BY <1>1 DEF Busy, Sound
<1>3. /\ Busy(h)' = Busy(h) \ {w} /\ (Gone(h)' => Gone(h))
      /\ \A v \in Workers \ {w} : cons'[h][v] = cons[h][v]
  <2>1. Busy(h)' = Busy(h) \ {w} /\ (Gone(h)' => Gone(h))
    BY <1>1, Releases
  <2>2. \A v \in Workers \ {w} : cons'[h][v] = cons[h][v]
    BY <1>1, OneConsumer
  <2>3. QED
    BY <2>1, <2>2, Zenon
<1>4. Counted(h)'
  <2>1. /\ Len(queue[h]) \in Nat /\ Cardinality(Busy(h)) \in Nat
        /\ Cardinality(Busy(h)') = Cardinality(Busy(h)) - 1
    BY <1>2, <1>3, QueueType, BusyFinite, HolderCounted
  <2>2. unfinished'[h] = unfinished[h] - 1
    BY <1>1 DEF TaskDone, TypeOK
  <2>3. unfinished[h] = Len(queue[h]) + Cardinality(Busy(h))
    BY <1>2 DEF Counted
  <2>4. unfinished'[h] = Len(queue[h]) + Cardinality(Busy(h)')
    BY <2>1, <2>2, <2>3
  <2>5. QED
    BY <1>1, <2>4 DEF Counted
<1>5. TasksOwned(h)'
  BY <1>1, <1>3 DEF TasksOwned, Sound
<1>6. JoinedEmpty(h)'
  BY <1>1, <1>2, <1>3 DEF JoinedEmpty, Sound
<1>7. Ordered(h)'
  BY <1>1, <1>3, QueueLeft DEF Sound
<1>8. QED
  BY <1>4, <1>5, <1>6, <1>7 DEF Sound

\* An agent goes on or ends.
LEMMA AgentIsSound ==
  ASSUME TypeOK, NEW h \in Harnesses, Sound(h), NEW w \in Workers, NEW p \in Paths,
         BcdaEnds(h, w, p) \/ TaskEnds(h, w, p)
  PROVE  Sound(h)'
<1>1. /\ p \in DOMAIN tasks[h][w]
      /\ \E t : tasks' = [tasks EXCEPT ![h][w] = t]
      /\ UNCHANGED <<main, queue, unfinished, late, cons>>
  <2>1. \/ tasks' = [tasks EXCEPT ![h][w] = [tasks[h][w] EXCEPT ![p] = "bga"]]
        \/ tasks' = [tasks EXCEPT ![h][w] = Without(h, w, p)]
    BY DEF BcdaEnds, TaskEnds
  <2>2. QED
    BY <2>1, Zenon DEF BcdaEnds, TaskEnds, queueVars
<1>2. Busy(h)' = Busy(h) /\ (Gone(h)' <=> Gone(h))
  BY <1>1 DEF Busy, Gone
<1>3. \A v \in Workers \ {w} : tasks'[h][v] = tasks[h][v]
  BY <1>1 DEF TypeOK
<1>4. TasksOwned(h)'
  BY <1>1, <1>3 DEF TasksOwned, Sound
<1>5. Counted(h)' /\ JoinedEmpty(h)'
  BY <1>1, <1>2 DEF Counted, JoinedEmpty, Sound
<1>6. Ordered(h)'
  BY <1>1, <1>2, QueueLeft DEF Sound
<1>7. QED
  BY <1>4, <1>5, <1>6 DEF Sound

LEMMA StepIInv == IInv /\ [Next]_vars => IInv'
<1> SUFFICES ASSUME IInv, [Next]_vars PROVE IInv'
  OBVIOUS
<1> USE DEF IInv
<1>1. ASSUME NEW h \in Harnesses, Step(h) PROVE IInv'
  <2>1. TypeOK'
    BY <1>1, TypeMain, TypeConsumer DEF Step, Sound
  <2>2. Sound(h)'
    <3>1. CASE Put(h) \/ Rerun(h) \/ MainStep(h)
      BY <3>1, PutIsSound, RerunIsSound, CpuaEndsIsSound, MainGoesOnIsSound DEF MainStep
    <3>2. ASSUME NEW w \in Workers, ConsumerStep(h, w) PROVE Sound(h)'
      BY <3>2, GetIsSound, HoldingIsSound, FinishingIsSound, AgentIsSound DEF ConsumerStep
    <3>3. QED
      BY <1>1, <3>1, <3>2 DEF Step
  <2>3. ASSUME NEW g \in Harnesses, g # h PROVE Sound(g)'
    BY <1>1, <2>3, OthersAreSame, SameIsSound
  <2>4. QED
    BY <2>1, <2>2, <2>3
<1>2. CASE UNCHANGED vars
  <2>1. TypeOK'
    BY <1>2 DEF vars, TypeOK, queueVars, redisVars, consVars
  <2>2. \A g \in Harnesses : Same(g)
    BY <1>2 DEF vars, queueVars, consVars, Same
  <2>3. QED
    BY <2>1, <2>2, SameIsSound
<1>3. QED
  BY <1>1, <1>2 DEF Next, Step

-----------------------------------------------------------------------------
(* The theorems. *)

\* Every variable keeps its type: the unfinished count, which task_done and
\* put move apart from each other, is never negative.
THEOREM TypeCorrect == Spec => []TypeOK
<1>1. IInv => TypeOK
  BY DEF IInv
<1>2. QED
  BY InitIInv, StepIInv, <1>1, PTL DEF Spec

\* For any number of consumers, of candidates and of runs: the count is what
\* is queued or held, join returns when nothing is queued and nobody is at
\* work, and no consumer leaves a candidate behind (path_consumer, main).
THEOREM QueueIsSound == Spec => []QueueSound
<1>1. IInv => QueueSound
  <2> SUFFICES ASSUME IInv PROVE QueueSound
    OBVIOUS
  <2>1. UnfinishedCount
    BY DEF IInv, Sound, Counted, UnfinishedCount
  <2>2. JoinedMeansIdle
    BY DEF IInv, Sound, JoinedEmpty, TasksOwned, JoinedMeansIdle, Busy
  <2>3. LeaveAfterCandidates
    <3> SUFFICES ASSUME NEW h \in Harnesses, Gone(h), ~late[h], NEW i \in DOMAIN queue[h]
                 PROVE  queue[h][i].stop
      BY DEF LeaveAfterCandidates, Gone
    <3>1. i \in 1..Len(queue[h])
      BY QueueType, LenProperties DEF IInv
    <3>2. QED
      BY <3>1 DEF IInv, Sound, Ordered
  <2>4. QED
    BY <2>1, <2>2, <2>3 DEF QueueSound
<1>2. QED
  BY InitIInv, StepIInv, <1>1, PTL DEF Spec

\* A path that was handed to the agents in this run is in progress according
\* to Redis: nothing but the next run takes it out.
Entered ==
  \A h \in Harnesses, p \in Paths :
    starts[h][p] = 0 \/ (starts[h][p] = 1 /\ Id(h, p) \in wip)

LEMMA InitEntered == Init => Entered
<1>1. QED
  BY DEF Init, Entered

LEMMA StepEntered ==
  ASSUME \A g, h \in Harnesses : g = h, TypeOK, Entered, [Next]_vars
  PROVE  Entered'
<1> SUFFICES ASSUME NEW h \in Harnesses, NEW p \in Paths
             PROVE  starts'[h][p] = 0 \/ (starts'[h][p] = 1 /\ Id(h, p) \in wip')
  BY DEF Entered
<1> USE DEF Entered
<1>0. starts \in [Harnesses -> [Paths -> Nat]]
  BY DEF TypeOK
<1>1. CASE UNCHANGED starts /\ wip \subseteq wip'
  BY <1>1
<1>2. CASE Rerun(h)
  BY <1>0, <1>2 DEF Rerun
<1>3. ASSUME NEW w \in Workers, Extract(h, w) \/ CopyFails(h, w)
      PROVE  starts'[h][p] = 0 \/ (starts'[h][p] = 1 /\ Id(h, p) \in wip')
  <2>1. PICK ps \in SUBSET Unexplored(h, w) :
          starts' = [starts EXCEPT ![h] = [q \in Paths |-> @[q] + (IF q \in ps THEN 1 ELSE 0)]]
    BY <1>3 DEF Extract, CopyFails
  <2>2. starts'[h][p] = starts[h][p] + (IF p \in ps THEN 1 ELSE 0)
    BY <1>0, <2>1
  <2>3. wip' = wip \cup {Id(h, q) : q \in Unexplored(h, w)}
    BY <1>3, Zenon DEF Extract, CopyFails
  <2>4. CASE p \in ps
    <3>1. Id(h, p) \notin wip /\ Id(h, p) \in wip'
      BY <2>3, <2>4 DEF Unexplored, IsUniqueSink
    <3>2. starts[h][p] = 0
      BY <3>1
    <3>3. QED
      BY <2>2, <2>4, <3>1, <3>2
  <2>5. CASE p \notin ps
    BY <1>0, <2>2, <2>3, <2>5
  <2>6. QED
    BY <2>4, <2>5
<1>4. CASE UNCHANGED vars
  BY <1>1, <1>4 DEF vars, redisVars, consVars
<1>5. ASSUME Step(h)
      PROVE  starts'[h][p] = 0 \/ (starts'[h][p] = 1 /\ Id(h, p) \in wip')
  <2>1. CASE Put(h) \/ MainStep(h)
    BY <1>1, <2>1 DEF Put, MainStep, CpuaEnds, LeaveInit, JoinQueue, JoinThread,
                      redisVars, consVars
  <2>2. ASSUME NEW w \in Workers, ConsumerStep(h, w)
        PROVE  (UNCHANGED starts /\ wip \subseteq wip') \/ Extract(h, w) \/ CopyFails(h, w)
    <3>1. CASE Get(h, w) \/ FinishItem(h, w)
      BY <3>1, Zenon DEF Get, FinishItem, redisVars
    <3>2. CASE ExtractFails(h, w)
      BY <3>2 DEF ExtractFails
    <3>3. CASE \E q \in Paths : BcdaEnds(h, w, q) \/ TaskEnds(h, w, q)
      BY <3>3, Zenon DEF BcdaEnds, TaskEnds, redisVars
    <3>4. QED
      BY <2>2, <3>1, <3>2, <3>3 DEF ConsumerStep
  <2>3. QED
    BY <1>1, <1>2, <1>3, <1>5, <2>1, <2>2 DEF Step
<1>6. QED
  BY <1>4, <1>5 DEF Next, Step

\* A process alone on its Redis hands no path to the agents twice in a run,
\* however often call graphs repeat it and whichever consumers take them at
\* the same time (is_unique_sink, extract_unexplored_paths).
THEOREM PathOnce ==
  ASSUME \A g, h \in Harnesses : g = h
  PROVE  Spec => []OncePerRun
<1>1. TypeOK /\ Entered /\ [Next]_vars => Entered'
  BY StepEntered
<1>2. Entered => OncePerRun
  BY DEF Entered, OncePerRun
<1>3. QED
  BY InitEntered, TypeCorrect, <1>1, <1>2, PTL DEF Spec

=============================================================================
