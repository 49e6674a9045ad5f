--------------------------- MODULE MllaAgents_proofs ---------------------------
(***************************************************************************)
(* What the agents of MLLA promise: MakeCallGraph for every set of         *)
(* functions, call graphs, limits, runs and failures, BlobAgents for every *)
(* number of contexts, attempts and supersteps.                            *)
(*                                                                         *)
(* MakeCallGraph.  Every step of an agent is a SafeWrite: it makes a node  *)
(* done only when it was, or when its callees are (DoneHasDoneCallees),    *)
(* because the agent about to record a node done has seen one (Known).     *)
(* An agent's callees are started by its last step (Order), from a node    *)
(* that is not done or was made done in this run with its callees          *)
(* (FreshComplete); so above a started agent all callers have a node, and  *)
(* none is done before the function itself is (Chain).  The node an agent  *)
(* is the first to record is then reached from its root through nodes that *)
(* are not done, and what is read back shows it (NewNodeVisible).  A root  *)
(* that can still post has not (Quiet).                                    *)
(*                                                                         *)
(* BlobAgents.  Every way into a node from which another attempt may       *)
(* follow passes one that has found attempts left (Loop).  A crash is      *)
(* entered only on the way to finalize, while the payload it belongs to is *)
(* the one finalize returns (CrashAtEnd).                                  *)
(***************************************************************************)
EXTENDS MakeCallGraph, BlobAgents, FiniteSetTheorems, TLAPS

(***************************************************************************)
(* Call paths                                                              *)
(***************************************************************************)
LEMMA PathFacts ==
  ASSUME NEW p \in CallPaths
  PROVE  /\ p \in Seq(Fns) /\ Len(p) \in Nat /\ Len(p) >= 1 /\ p[1] \in Roots
         /\ \A n \in 1..Len(p) : p[n] \in Fns
         /\ \A m, n \in 1..Len(p) : p[m] = p[n] => m = n
         /\ Fn(p) = p[Len(p)] /\ Fn(p) \in Fns
<1>1. PICK m \in 0..Cardinality(Fns) : p \in [1..m -> Fns]
  BY DEF CallPaths, BoundedSeq, SeqOf
<1>2. m \in Nat
  BY GraphAssumption, FS_CardinalityType
<1>3. p \in Seq(Fns) /\ Len(p) = m /\ DOMAIN p = 1..m
  BY <1>1, <1>2
<1>4. p # <<>> /\ p[1] \in Roots /\ IsInjective(p)
  BY DEF CallPaths
<1>5. m >= 1
  BY <1>2, <1>3, <1>4
<1>6. QED
  BY <1>1, <1>2, <1>3, <1>4, <1>5 DEF Fn, Last, IsInjective

LEMMA RootPath ==
  ASSUME NEW p \in CallPaths, IsRoot(p)
  PROVE  Fn(p) \in Roots /\ p = <<Fn(p)>>
<1>1. p \in Seq(Fns) /\ Len(p) = 1 /\ p[1] \in Roots /\ Fn(p) = p[1]
  BY PathFacts DEF IsRoot
<1>2. QED
  BY <1>1

LEMMA PathOfRoot ==
  ASSUME NEW r \in Roots
  PROVE  <<r>> \in CallPaths /\ IsRoot(<<r>>) /\ Fn(<<r>>) = r
<1>1. r \in Fns /\ Cardinality(Fns) \in Nat /\ Cardinality(Fns) # 0
  BY GraphAssumption, FS_EmptySet, FS_CardinalityType
<1>2. <<r>> \in [1..1 -> Fns] /\ 1 \in 0..Cardinality(Fns)
  BY <1>1
<1>3. <<r>> \in BoundedSeq(Fns, Cardinality(Fns))
  BY <1>2 DEF BoundedSeq, SeqOf
<1>4. QED
  BY <1>3 DEF CallPaths, IsRoot, Fn, Last, IsInjective

LEMMA KidFacts ==
  ASSUME NEW p \in CallPaths, NEW k \in Kids(p)
  PROVE  /\ k \in CallPaths /\ k # p /\ ~IsRoot(k) /\ Len(k) = Len(p) + 1
         /\ \A n \in 1..Len(p) : k[n] = p[n]
         /\ k[Len(p)] = Fn(p) /\ k[Len(p) + 1] = Fn(k)
         /\ Fn(k) \in callees[Fn(p)] /\ Fn(k) # Fn(p)
         /\ Front(k) = p
<1>1. k \in CallPaths /\ Len(k) = Len(p) + 1 /\ Front(k) = p /\ Fn(k) \in ToAnalyze(p)
  BY DEF Kids
<1>2. p \in Seq(Fns) /\ k \in Seq(Fns) /\ Len(p) \in Nat /\ Len(p) >= 1
  BY <1>1, PathFacts
<1>3. SubSeq(k, 1, Len(p)) = p
  BY <1>1, <1>2 DEF Front
<1>4. \A n \in 1..Len(p) : k[n] = p[n]
  <2> TAKE n \in 1..Len(p)
  <2>1. SubSeq(k, 1, Len(p))[n] = k[n]
    BY <1>1, <1>2
  <2>2. QED
    BY <1>3, <2>1
<1>5. Fn(p) = p[Len(p)] /\ Fn(k) = k[Len(k)]
  BY <1>1, PathFacts
<1>6. QED
  BY <1>1, <1>2, <1>4, <1>5 DEF IsRoot, ToAnalyze

\* Two agents have a callee agent in common only if they are the same.
LEMMA OneParent ==
  ASSUME NEW p \in CallPaths, NEW q \in CallPaths, NEW k \in Kids(p), k \in Kids(q)
  PROVE  p = q
<1>1. QED
  BY KidFacts

(***************************************************************************)
(* Types                                                                   *)
(***************************************************************************)
\* What keeps the counters of call_mcga within their bounds.
Counters ==
  /\ cpua = "run" => idle <= MaxIdle /\ (Roots # {} => ended < Cardinality(Roots))
  /\ Roots = {} => sentinels = 0
  /\ Alive => doneRuns < PriorRuns + run

LEMMA Finite ==
  /\ IsFiniteSet(Roots) /\ Cardinality(Roots) \in Nat
  /\ {MaxExec, MaxIdle, MaxRuns, PriorRuns} \subseteq Nat
<1>1. IsFiniteSet(Roots)
  BY GraphAssumption, FS_Subset
<1>2. QED
  BY <1>1, GraphAssumption, FS_CardinalityType

LEMMA TreeType ==
  ASSUME GraphTypes, NEW p \in CallPaths
  PROVE  Tree(p) \in SUBSET Fns
<1>1. \A q \in CallPaths : base[q] \in SUBSET Fns /\ linked[q] \in SUBSET Fns
  BY DEF GraphTypes
<1>2. QED
  BY <1>1 DEF Tree, Shown, LoopCopies

\* What _record_cg_root_node leaves in Redis.
LEMMA RecordedType ==
  ASSUME GraphTypes, NEW f \in Fns, NEW d \in BOOLEAN, NEW tree \in SUBSET Fns,
         redis' = Recorded(f, d, tree)
  PROVE  /\ DOMAIN redis' = DOMAIN redis \cup {f}
         /\ \A g \in DOMAIN redis' :
              redis'[g] \in [done : BOOLEAN, inRun : BOOLEAN, tree : SUBSET Fns]
<1>1. QED
  BY DEF Recorded, GraphTypes

\* What is read back from Redis is a set of functions.
LEMMA VisibleType ==
  ASSUME NEW rd, \A f \in DOMAIN rd : rd[f].tree \in SUBSET Fns
  PROVE  Visible(rd) \in SUBSET Fns
<1>1. \A p \in Reached(rd) : Fn(p) \in DOMAIN rd
  BY PathFacts DEF Reached
<1>2. QED
  BY <1>1 DEF Visible

LEMMA PostType ==
  ASSUME GraphTypes, Counters, NEW p \in CallPaths, PostSentinel(p)
  PROVE  sentinels' \in Nat /\ posted' \in [Roots -> Nat] /\ (Roots = {} => sentinels' = 0)
<1>1. CASE IsRoot(p)
  BY <1>1, RootPath DEF PostSentinel, GraphTypes
<1>2. CASE ~IsRoot(p)
  BY <1>2 DEF PostSentinel, GraphTypes, Counters
<1>3. QED
  BY <1>1, <1>2

LEMMA ExpandType ==
  ASSUME GraphTypes, Counters, NEW p \in CallPaths,
         NEW next \in {"visit", "return"}, Expand(p, next)
  PROVE  /\ DOMAIN redis' \subseteq Fns
         /\ \A f \in DOMAIN redis' :
              redis'[f] \in [done : BOOLEAN, inRun : BOOLEAN, tree : SUBSET Fns]
         /\ pc' \in [CallPaths -> Places]
         /\ checker' \subseteq CallPaths /\ queued' \in BOOLEAN
         /\ count' \in 0..MaxExec
         /\ sentinels' \in Nat /\ posted' \in [Roots -> Nat] /\ (Roots = {} => sentinels' = 0)
<1>1. count' \in 0..MaxExec
  BY Finite DEF Expand, CountLeft, GraphTypes
<1>2. CASE ToAnalyze(p) = {}
  <2>1. redis' = Recorded(Fn(p), TRUE, Tree(p)) /\ PostSentinel(p)
        /\ pc' = [pc EXCEPT ![p] = next] /\ UNCHANGED <<checker, queued>>
    BY <1>2 DEF Expand
  <2>2. Fn(p) \in Fns /\ Tree(p) \in SUBSET Fns
    BY PathFacts, TreeType
  <2>3. DOMAIN redis' \subseteq Fns
         /\ \A f \in DOMAIN redis' :
              redis'[f] \in [done : BOOLEAN, inRun : BOOLEAN, tree : SUBSET Fns]
    BY <2>1, <2>2, RecordedType, ZenonT(40) DEF GraphTypes
  <2>4. QED
    BY <1>1, <2>1, <2>3, PostType DEF GraphTypes, Places
<1>3. CASE ToAnalyze(p) # {}
  <2>1. /\ checker' = checker \cup {p} /\ queued' = TRUE
        /\ pc' = [q \in CallPaths |-> IF q = p THEN next
                                     ELSE IF q \in Kids(p) THEN "preprocess"
                                     ELSE pc[q]]
        /\ UNCHANGED <<redis, sentinels, posted>>
    BY <1>3 DEF Expand
  <2>2. Kids(p) \subseteq CallPaths
    BY DEF Kids
  <2>3. QED
    BY <1>1, <2>1, <2>2 DEF GraphTypes, Counters, Places
<1>4. QED
  BY <1>2, <1>3

LEMMA InitGraphTypes == GraphInit => GraphTypes /\ Counters
<1> SUFFICES ASSUME GraphInit PROVE GraphTypes /\ Counters
  OBVIOUS
<1>1. Roots # {} => Cardinality(Roots) > 0
  BY Finite, FS_EmptySet
<1>2. DOMAIN redis = {}
  BY DEF GraphInit
<1>3. pc \in [CallPaths -> Places]
  BY DEF GraphInit, StartPc, Places
<1>4. run \in 1..MaxRuns
  BY GraphAssumption DEF GraphInit
<1>5. GraphTypes
  <2>1. /\ base \in [CallPaths -> SUBSET Fns] /\ linked \in [CallPaths -> SUBSET Fns]
        /\ cgs \in [CallPaths -> SUBSET Fns] /\ posted \in [Roots -> Nat]
    BY DEF GraphInit, NoNodes, NoSentinel
  <2>2. /\ count \in 0..MaxExec /\ idle \in 0..(MaxIdle + 1) /\ sentinels \in Nat
        /\ doneRuns \in 0..(PriorRuns + run) /\ ended \in 0..Cardinality(Roots)
    BY Finite DEF GraphInit
  <2>3. QED
    BY <1>2, <1>3, <1>4, <2>1, <2>2 DEF GraphInit, GraphTypes
<1>6. QED
  BY <1>1, <1>5, Finite, GraphAssumption DEF GraphInit, Counters

LEMMA NextGraphTypes ==
  GraphTypes /\ Counters /\ [GraphNext]_graphVars => GraphTypes' /\ Counters'
<1> SUFFICES ASSUME GraphTypes, Counters, [GraphNext]_graphVars
             PROVE  GraphTypes' /\ Counters'
  OBVIOUS
<1> USE DEF GraphTypes, Counters, Places
<1>1. ASSUME NEW p \in CallPaths, McgaPreprocess(p) PROVE GraphTypes' /\ Counters'
  <2>1. Fn(p) \in DOMAIN redis => redis[Fn(p)].tree \in SUBSET Fns
    OBVIOUS
  <2>2. QED
    BY <1>1, <2>1 DEF McgaPreprocess, cpuaVars, sinkVars, Alive
<1>2. ASSUME NEW p \in CallPaths, Step1(p) PROVE GraphTypes' /\ Counters'
  <2>0. PICK sink \in SUBSET (Vuln \cap {Fn(p)}) :
          /\ base' = [base EXCEPT ![p] = sink]
          /\ redis' = Recorded(Fn(p), FALSE, sink)
          /\ \/ pc' = [pc EXCEPT ![p] = "analyze_children"] /\ cgs' = cgs
             \/ pc' = [pc EXCEPT ![p] = "submit"] /\ cgs' = [cgs EXCEPT ![p] = Visible(redis')]
    BY <1>2 DEF Step1
  <2>1. Fn(p) \in Fns /\ sink \in SUBSET Fns /\ FALSE \in BOOLEAN
    BY PathFacts
  <2>2. /\ DOMAIN redis' \subseteq Fns
        /\ \A f \in DOMAIN redis' :
              redis'[f] \in [done : BOOLEAN, inRun : BOOLEAN, tree : SUBSET Fns]
    <3>1. redis' = Recorded(Fn(p), FALSE, sink)
      BY <2>0
    <3>2. DOMAIN redis' = DOMAIN redis \cup {Fn(p)}
          /\ \A f \in DOMAIN redis' :
               redis'[f] \in [done : BOOLEAN, inRun : BOOLEAN, tree : SUBSET Fns]
      BY <2>1, <3>1, RecordedType
    <3>3. QED
      BY <2>1, <3>2
  <2>3. Visible(redis') \in SUBSET Fns
    BY <2>2, VisibleType
  <2>4. base' \in [CallPaths -> SUBSET Fns] /\ cgs' \in [CallPaths -> SUBSET Fns]
    <3> DEFINE v == Visible(redis')
    <3>1. cgs' = cgs \/ cgs' = [cgs EXCEPT ![p] = v]
      BY <2>0
    <3>2. v \in SUBSET Fns
      BY <2>3
    <3> HIDE DEF v
    <3>3. cgs' \in [CallPaths -> SUBSET Fns]
      BY <3>1, <3>2
    <3>4. base' \in [CallPaths -> SUBSET Fns]
      BY <2>0, <2>1
    <3>5. QED
      BY <3>3, <3>4
  <2>5. /\ UNCHANGED <<fresh, linked, checker, count, queued, sentinels, cpuaVars,
                       put, posted, expired>>
        /\ added' \in {added, added \cup {p}}
    BY <1>2 DEF Step1
  <2>6. pc' \in [CallPaths -> Places]
    BY <2>0
  <2>7. QED
    BY <2>2, <2>4, <2>5, <2>6 DEF cpuaVars, Alive
<1>3. ASSUME NEW p \in CallPaths, Step1Fails(p) PROVE GraphTypes' /\ Counters'
  BY <1>3 DEF Step1Fails, cpuaVars, sinkVars, Alive
<1>4. ASSUME NEW p \in CallPaths, AnalyzeChildren(p) PROVE GraphTypes' /\ Counters'
  <2>1. CASE Expand(p, "return")
    BY <1>4, <2>1, ExpandType DEF AnalyzeChildren, cpuaVars, sinkVars, Alive
  <2>2. CASE Refuse(p, "return")
    BY <1>4, <2>2, Finite DEF AnalyzeChildren, Refuse, CountLeft, cpuaVars, sinkVars, Alive
  <2>3. QED
    BY <1>4, <2>1, <2>2 DEF AnalyzeChildren
<1>5. ASSUME NEW p \in CallPaths, HandleCache(p) PROVE GraphTypes' /\ Counters'
  <2>1. UNCHANGED <<base, fresh, linked, cpuaVars, sinkVars, expired>>
    BY <1>5 DEF HandleCache
  <2>2. ASSUME NEW next \in {"visit", "return"}, Expand(p, next) PROVE GraphTypes' /\ Counters'
    BY <2>1, <2>2, ExpandType DEF cpuaVars, sinkVars, Alive
  <2>3. ASSUME NEW next \in {"visit", "return"}, Refuse(p, next) PROVE GraphTypes' /\ Counters'
    BY <2>1, <2>3, Finite DEF Refuse, CountLeft, cpuaVars, sinkVars, Alive
  <2>4. ASSUME NEW x \in Places, pc' = [pc EXCEPT ![p] = x],
               UNCHANGED <<redis, checker, count, queued, sentinels, posted>>
        PROVE  GraphTypes' /\ Counters'
    BY <2>1, <2>4 DEF cpuaVars, sinkVars, Alive
  <2>5. QED
    BY <1>5, <2>2, <2>3, <2>4 DEF HandleCache, OrVisit
<1>6. ASSUME NEW p \in CallPaths, WaitDone(p) PROVE GraphTypes' /\ Counters'
  <2>1. redis[Fn(p)].tree \in SUBSET Fns
    BY <1>6 DEF WaitDone, IsDone
  <2>2. PICK x \in {"visit", "return"} : pc' = [pc EXCEPT ![p] = x]
    BY <1>6 DEF WaitDone, OrVisit
  <2>3. QED
    BY <1>6, <2>1, <2>2 DEF WaitDone, cpuaVars, sinkVars, Alive
<1>7. ASSUME NEW p \in CallPaths, WaitExpires(p) PROVE GraphTypes' /\ Counters'
  BY <1>7, PostType DEF WaitExpires, cpuaVars, sinkVars, Alive
<1>8. ASSUME NEW p \in CallPaths, McgaFinalize(p) \/ ChildrenDone(p)
      PROVE  GraphTypes' /\ Counters'
  <2>1. Fn(p) \in Fns /\ Tree(p) \in SUBSET Fns /\ redis' = Recorded(Fn(p), TRUE, Tree(p))
    BY <1>8, PathFacts, TreeType DEF McgaFinalize, ChildrenDone
  <2>2. /\ DOMAIN redis' \subseteq Fns
        /\ \A f \in DOMAIN redis' :
              redis'[f] \in [done : BOOLEAN, inRun : BOOLEAN, tree : SUBSET Fns]
    BY <2>1, RecordedType, ZenonT(40)
  <2>3. sentinels' \in Nat /\ posted' \in [Roots -> Nat] /\ (Roots = {} => sentinels' = 0)
    BY <1>8, PostType DEF McgaFinalize, ChildrenDone
  <2>4. QED
    BY <1>8, <2>2, <2>3 DEF McgaFinalize, ChildrenDone, StopChecker, cpuaVars, sinkVars, Alive
<1>9. ASSUME NEW p \in CallPaths, Return(p) PROVE GraphTypes' /\ Counters'
  <2>1. Fn(p) \in Fns
    BY PathFacts
  <2>2. linked' \in [CallPaths -> SUBSET Fns]
    BY <1>9, <2>1 DEF Return
  <2>3. QED
    BY <1>9, <2>2 DEF Return, cpuaVars, sinkVars, Alive
<1>10. ASSUME NEW p \in CallPaths, LoopCut(p) PROVE GraphTypes' /\ Counters'
  <2>1. Looped(p) \subseteq Fns
    BY PathFacts, GraphAssumption DEF Looped, ToAnalyze
  <2>2. linked' \in [CallPaths -> SUBSET Fns]
    BY <1>10, <2>1 DEF LoopCut
  <2>3. QED
    BY <1>10, <2>2 DEF LoopCut, cpuaVars, sinkVars, Alive
<1>11. ASSUME NEW p \in CallPaths, CheckerExpires(p) PROVE GraphTypes' /\ Counters'
  BY <1>11, PostType DEF CheckerExpires, StopChecker, cpuaVars, sinkVars, Alive
<1>12. ASSUME NEW p \in CallPaths, Submit(p) \/ SubmitFails(p) PROVE GraphTypes' /\ Counters'
  BY <1>12 DEF Submit, SubmitFails, cpuaVars, Alive
<1>13. ASSUME NEW p \in CallPaths, Visit(p) \/ VisitPut(p) PROVE GraphTypes' /\ Counters'
  <2>1. Visible(redis) \in SUBSET Fns
    BY VisibleType
  <2>2. PICK x \in Places : pc' = [pc EXCEPT ![p] = x]
    BY <1>13 DEF Visit, VisitPut
  <2>3. QED
    BY <1>13, <2>1, <2>2 DEF Visit, VisitPut, cpuaVars, Alive
<1>14. CASE TakeSentinel
  <2>1. Roots # {} /\ ended' \in 0..Cardinality(Roots)
    BY <1>14, Finite DEF TakeSentinel
  <2>2. QED
    BY <1>14, <2>1, Finite DEF TakeSentinel, sinkVars, Alive
<1>15. CASE TakeTasks
  <2>1. queued' \in BOOLEAN /\ idle' = 0 /\ cpua = "run"
    BY <1>15 DEF TakeTasks
  <2>2. UNCHANGED <<redis, pc, base, fresh, linked, checker, count, sentinels,
                    cpua, ended, run, callees, doneRuns, torn, sinkVars, posted, expired>>
    BY <1>15 DEF TakeTasks
  <2>3. QED
    BY <2>1, <2>2, Finite DEF sinkVars, Alive
<1>16. CASE IdleWait
  BY <1>16, Finite DEF IdleWait, NextIdle, sinkVars, Alive
<1>17. CASE GatherTasks
  <2>1. doneRuns' \in 0..(PriorRuns + run)
    BY <1>17, Finite DEF GatherTasks, Alive
  <2>2. cpua' \in {"flush", "done"} /\ torn' \in BOOLEAN
    BY <1>17 DEF GatherTasks
  <2>3. UNCHANGED <<redis, pc, base, fresh, linked, checker, count, queued, sentinels,
                    ended, idle, run, callees, sinkVars, posted, expired>>
    BY <1>17 DEF GatherTasks
  <2>4. QED
    BY <2>1, <2>2, <2>3 DEF sinkVars, Alive
<1>18. CASE FlushKey
  BY <1>18, Finite DEF FlushKey, sinkVars, Alive
<1>19. CASE Restart
  <2>1. DOMAIN redis' = DOMAIN redis /\ \A f \in DOMAIN redis :
          redis'[f] \in [done : BOOLEAN, inRun : BOOLEAN, tree : SUBSET Fns]
    BY <1>19 DEF Restart
  <2>2. Roots # {} => Cardinality(Roots) > 0
    BY Finite, FS_EmptySet
  <2>3. pc' \in [CallPaths -> Places]
    BY <1>19 DEF Restart, StartPc, Places
  <2>4. run' \in 1..MaxRuns /\ doneRuns' \in 0..(PriorRuns + run') /\ doneRuns' < PriorRuns + run'
    BY <1>19, Finite DEF Restart
  <2>5. GraphTypes'
    BY <1>19, <2>1, <2>3, <2>4, Finite DEF Restart, NoNodes, NoSentinel
  <2>6. QED
    BY <1>19, <2>2, <2>4, <2>5, Finite DEF Restart
<1>20. CASE UNCHANGED graphVars
  BY <1>20 DEF graphVars, cpuaVars, sinkVars, Alive
<1>21. QED
  BY <1>1, <1>2, <1>3, <1>4, <1>5, <1>6, <1>7, <1>8, <1>9, <1>10,
     <1>11, <1>12, <1>13, <1>14, <1>15, <1>16, <1>17, <1>18, <1>19, <1>20 DEF GraphNext, AgentStep, CpuaStep

(***************************************************************************)
(* Redis: a step of an agent adds or replaces one node, keeps what is done *)
(* and makes a node done only when those of its callees are.               *)
(***************************************************************************)
CalleesDone(f) == \A c \in callees[f] \ {f} : IsDone(c)

Written(f) ==
  /\ DOMAIN redis' = DOMAIN redis \cup {f}
  /\ \A g \in DOMAIN redis \ {f} : redis'[g] = redis[g]
  /\ IsDone(f) => redis'[f].done
  /\ redis'[f].done => IsDone(f) \/ CalleesDone(f)

SafeWrite == redis' = redis \/ \E f \in Fns : Written(f)

\* What a step of the graph relies on: where an agent stands tells what its
\* caller and the functions above it have in Redis.
Working == {"preprocess", "step1", "submit", "analyze_children", "handle_cache", "wait",
            "visit_done", "visit_done_put", "finalize"}

FreshPlaces == {"step1", "submit", "analyze_children", "return", "end", "raised"}

KnownPlaces == {"submit", "analyze_children", "handle_cache", "wait",
                "visit_done", "visit_done_put", "finalize"}

DonePlaces == {"visit_done", "visit_done_put", "finalize"}

\* A callee's agent is started by the last step of its caller's; an agent that
\* found its function in the cache never analyses it.
Order ==
  \A p \in CallPaths :
    /\ pc[p] \in Working \cup {"none"} =>
         p \notin checker /\ \A k \in Kids(p) : pc[k] = "none"
    /\ p \in fresh => pc[p] \in FreshPlaces
    /\ pc[p] \in {"step1", "submit", "analyze_children"} => p \in fresh
    /\ p \in added => p \in fresh /\ pc[p] # "step1"

\* Above a started agent are callers that have a node; none of them is done
\* before the function of the agent is.
Above(p) ==
  \A n \in 1..(Len(p) - 1) :
    /\ p[n] \in DOMAIN redis /\ p[n + 1] \in callees[p[n]]
    /\ IsDone(p[n]) => IsDone(Fn(p))

Chain == Alive => \A p \in CallPaths : pc[p] # "none" => Above(p)

Known ==
  Alive => \A p \in CallPaths :
    /\ pc[p] \in KnownPlaces => Fn(p) \in DOMAIN redis
    /\ p \in checker => Fn(p) \in DOMAIN redis
    /\ pc[p] \in DonePlaces => IsDone(Fn(p))

\* What this run analysed anew was done only with its callees, whatever a
\* flush has left of the analyses of earlier runs.
FreshComplete ==
  Alive => \A p \in fresh : IsDone(Fn(p)) => CalleesDone(Fn(p))

LEMMA WriteNode ==
  ASSUME NEW f \in Fns, NEW tree, redis' = Recorded(f, FALSE, tree)
  PROVE  SafeWrite /\ f \in DOMAIN redis'
<1>1. QED
  BY DEF Recorded, SafeWrite, Written, IsDone

LEMMA WriteDone ==
  ASSUME NEW f \in Fns, NEW tree, redis' = Recorded(f, TRUE, tree), IsDone(f) \/ CalleesDone(f)
  PROVE  SafeWrite /\ f \in DOMAIN redis' /\ IsDone(f)'
<1>1. QED
  BY DEF Recorded, SafeWrite, Written, IsDone

LEMMA ExpandFacts ==
  ASSUME GraphTypes, NEW p \in CallPaths, NEW next, Expand(p, next)
  PROVE  /\ SafeWrite
         /\ \A q \in CallPaths : pc'[q] = IF q = p THEN next
                                        ELSE IF q \in Kids(p) THEN "preprocess" ELSE pc[q]
         /\ checker' \subseteq checker \cup {p}
         /\ Kids(p) # {} => redis' = redis
         /\ \/ PostSentinel(p) /\ IsDone(Fn(p))' /\ checker' = checker
            \/ UNCHANGED <<redis, sentinels, posted>>
<1>1. CASE ToAnalyze(p) = {}
  <2>1. Kids(p) = {} /\ CalleesDone(Fn(p))
    BY <1>1 DEF Kids, CalleesDone, ToAnalyze
  <2>2. /\ redis' = Recorded(Fn(p), TRUE, Tree(p)) /\ PostSentinel(p)
        /\ pc' = [pc EXCEPT ![p] = next] /\ checker' = checker
    BY <1>1 DEF Expand
  <2>3. SafeWrite /\ IsDone(Fn(p))'
    BY <2>1, <2>2, WriteDone, PathFacts
  <2>4. QED
    BY <2>1, <2>2, <2>3 DEF GraphTypes
<1>2. CASE ToAnalyze(p) # {}
  BY <1>2 DEF Expand, SafeWrite
<1>3. QED
  BY <1>1, <1>2

\* The ways out of handle_cache: the callees are analysed, or the agent only
\* moves on.
LEMMA CacheCases ==
  ASSUME NEW p \in CallPaths, HandleCache(p)
  PROVE  /\ pc[p] = "handle_cache"
         /\ UNCHANGED <<base, fresh, sinkVars, cpuaVars, expired>>
         /\ \/ \E next \in {"visit", "return"} : Expand(p, next) /\ ~IsDone(Fn(p))
            \/ /\ UNCHANGED <<redis, checker, posted>>
               /\ \E x \in {"visit", "return", "wait", "visit_done", "finalize"} :
                    /\ pc' = [pc EXCEPT ![p] = x]
                    /\ x \in DonePlaces => redis[Fn(p)].done
<1>1. CASE redis[Fn(p)].done
  BY <1>1 DEF HandleCache, OrVisit
<1>2. CASE ~redis[Fn(p)].done
  <2>1. ~IsDone(Fn(p))
    BY <1>2 DEF IsDone
  <2>2. PICK next \in {"visit", "return"} :
          \/ pc' = [pc EXCEPT ![p] = "wait"] /\ UNCHANGED <<redis, checker, posted>>
          \/ Expand(p, next) \/ Refuse(p, next)
    BY <1>2 DEF HandleCache, OrVisit
  <2>3. CASE Refuse(p, next)
    BY <2>3 DEF HandleCache, Refuse, DonePlaces
  <2>4. QED
    BY <2>1, <2>2, <2>3 DEF HandleCache, DonePlaces
<1>3. QED
  BY <1>1, <1>2

LEMMA NoWrite == ASSUME redis' = redis PROVE SafeWrite
<1>1. QED
  BY DEF SafeWrite

\* What an agent does to Redis.
LEMMA AgentWrites ==
  ASSUME GraphTypes, Known, NEW p \in CallPaths, AgentStep(p)
  PROVE  SafeWrite /\ Alive /\ Alive' /\ callees' = callees /\ torn' = torn
<1>0. Alive /\ UNCHANGED cpuaVars
  BY DEF AgentStep, McgaPreprocess, Step1, Step1Fails, Submit, SubmitFails, AnalyzeChildren,
         HandleCache, WaitDone, WaitExpires, Visit, VisitPut, McgaFinalize, Return, LoopCut,
         ChildrenDone, CheckerExpires
<1>1. ASSUME Step1(p) PROVE SafeWrite
  <2>1. PICK sink : Fn(p) \in Fns /\ redis' = Recorded(Fn(p), FALSE, sink)
    BY <1>1, PathFacts DEF Step1
  <2>2. QED
    BY <2>1, WriteNode
<1>2. ASSUME AnalyzeChildren(p) PROVE SafeWrite
  <2>1. Expand(p, "return") \/ Refuse(p, "return")
    BY <1>2 DEF AnalyzeChildren
  <2>2. QED
    BY <2>1, ExpandFacts, NoWrite DEF Refuse
<1>3. ASSUME HandleCache(p) PROVE SafeWrite
  BY <1>3, CacheCases, ExpandFacts, NoWrite
<1>4. ASSUME McgaFinalize(p) PROVE SafeWrite
  <2>1. IsDone(Fn(p)) /\ redis' = Recorded(Fn(p), TRUE, Tree(p))
    BY <1>4, <1>0 DEF McgaFinalize, Known, DonePlaces
  <2>2. QED
    BY <2>1, WriteDone, PathFacts
<1>5. ASSUME ChildrenDone(p) PROVE SafeWrite
  <2>1. CalleesDone(Fn(p)) /\ redis' = Recorded(Fn(p), TRUE, Tree(p))
    BY <1>5 DEF ChildrenDone, Ready, ToAnalyze, CalleesDone
  <2>2. QED
    BY <2>1, WriteDone, PathFacts
<1>6. ASSUME \/ McgaPreprocess(p) \/ Step1Fails(p) \/ Submit(p) \/ SubmitFails(p) \/ WaitDone(p)
             \/ WaitExpires(p) \/ Visit(p) \/ VisitPut(p) \/ Return(p) \/ LoopCut(p)
             \/ CheckerExpires(p)
      PROVE  SafeWrite
  <2>1. redis' = redis
    BY <1>6 DEF McgaPreprocess, Step1Fails, Submit, SubmitFails, WaitDone, WaitExpires, Visit,
                VisitPut, Return, LoopCut, CheckerExpires
  <2>2. QED
    BY <2>1, NoWrite
<1>7. SafeWrite
  BY <1>1, <1>2, <1>3, <1>4, <1>5, <1>6 DEF AgentStep
<1>8. QED
  BY <1>0, <1>7 DEF Alive, cpuaVars

LEMMA DoneStays ==
  ASSUME SafeWrite, NEW f, IsDone(f)
  PROVE  IsDone(f)'
<1>1. QED
  BY DEF SafeWrite, Written, IsDone

LEMMA NodeStays ==
  ASSUME SafeWrite
  PROVE  DOMAIN redis \subseteq DOMAIN redis'
<1>1. QED
  BY DEF SafeWrite, Written

LEMMA NewlyDone ==
  ASSUME SafeWrite, NEW f, IsDone(f)', ~IsDone(f)
  PROVE  CalleesDone(f)
<1>1. PICK g \in Fns : Written(g)
  BY DEF SafeWrite, IsDone
<1>2. f = g
  BY <1>1 DEF Written, IsDone
<1>3. QED
  BY <1>1, <1>2 DEF Written, IsDone

LEMMA WriteKeepsDone ==
  ASSUME SafeWrite, DoneHasDoneCallees, callees' = callees, torn' = torn
  PROVE  DoneHasDoneCallees'
<1> SUFFICES ASSUME ~torn, NEW f \in DOMAIN redis', redis'[f].done,
                    NEW c \in callees[f] \ {f}
             PROVE  IsDone(c)'
  BY DEF DoneHasDoneCallees
<1>1. IsDone(f)'
  BY DEF IsDone
<1>2. IsDone(c)
  <2>1. CASE IsDone(f)
    BY <2>1 DEF DoneHasDoneCallees, IsDone
  <2>2. CASE ~IsDone(f)
    BY <1>1, <2>2, NewlyDone DEF CalleesDone
  <2>3. QED
    BY <2>1, <2>2
<1>3. QED
  BY <1>2, DoneStays

\* An agent enters fresh only when Redis does not know its function.
LEMMA AgentFresh ==
  ASSUME GraphTypes, Known, FreshComplete, NEW p \in CallPaths, AgentStep(p)
  PROVE  FreshComplete'
<1>1. SafeWrite /\ Alive /\ callees' = callees
  BY AgentWrites
<1> SUFFICES ASSUME NEW q \in fresh', IsDone(Fn(q))', NEW c \in callees[Fn(q)] \ {Fn(q)}
             PROVE  IsDone(c)'
  BY <1>1 DEF FreshComplete, CalleesDone
<1>2. q \in fresh
  <2>1. CASE McgaPreprocess(p)
    BY <2>1 DEF McgaPreprocess, IsDone
  <2>2. CASE ~McgaPreprocess(p)
    BY <2>2 DEF AgentStep, Step1, Step1Fails, Submit, SubmitFails, AnalyzeChildren,
         HandleCache, WaitDone, WaitExpires, Visit, VisitPut, McgaFinalize, Return, LoopCut,
         ChildrenDone, CheckerExpires
  <2>3. QED
    BY <2>1, <2>2
<1>3. CalleesDone(Fn(q))
  BY <1>1, <1>2, NewlyDone DEF FreshComplete
<1>4. QED
  BY <1>1, <1>3, DoneStays DEF CalleesDone

LEMMA AboveKept ==
  ASSUME SafeWrite, callees' = callees, NEW p \in CallPaths, Above(p)
  PROVE  Above(p)'
<1> SUFFICES ASSUME NEW n \in 1..(Len(p) - 1)
             PROVE  /\ p[n] \in DOMAIN redis' /\ p[n + 1] \in callees[p[n]]
                    /\ IsDone(p[n])' => IsDone(Fn(p))'
  BY DEF Above
<1>0. /\ Len(p) \in Nat /\ n \in 1..Len(p) /\ n + 1 \in 1..Len(p) /\ n # n + 1
      /\ Fn(p) = p[Len(p)] /\ p[n + 1] # p[n]
  BY PathFacts
<1>1. p[n] \in DOMAIN redis' /\ p[n + 1] \in callees[p[n]]
  BY NodeStays DEF Above
<1>2. ASSUME IsDone(p[n])' PROVE IsDone(Fn(p))'
  <2>1. CASE IsDone(p[n])
    BY <2>1, DoneStays DEF Above
  <2>2. CASE ~IsDone(p[n])
    <3>1. IsDone(p[n + 1])
      BY <1>0, <1>1, <1>2, <2>2, NewlyDone DEF CalleesDone
    <3>2. CASE n + 1 = Len(p)
      BY <1>0, <3>1, <3>2, DoneStays
    <3>3. CASE n + 1 # Len(p)
      <4>1. n + 1 \in 1..(Len(p) - 1)
        BY <1>0, <3>3
      <4>2. IsDone(Fn(p))
        BY <3>1, <4>1 DEF Above
      <4>3. QED
        BY <4>2, DoneStays
    <3>4. QED
      BY <3>2, <3>3
  <2>3. QED
    BY <2>1, <2>2
<1>3. QED
  BY <1>1, <1>2

LEMMA AboveKid ==
  ASSUME NEW p \in CallPaths, NEW k \in Kids(p), Above(p),
         Fn(p) \in DOMAIN redis, IsDone(Fn(p)) => CalleesDone(Fn(p))
  PROVE  Above(k)
<1> SUFFICES ASSUME NEW n \in 1..(Len(k) - 1)
             PROVE  /\ k[n] \in DOMAIN redis /\ k[n + 1] \in callees[k[n]]
                    /\ IsDone(k[n]) => IsDone(Fn(k))
  BY DEF Above
<1>1. Len(p) \in Nat /\ Len(k) = Len(p) + 1 /\ n \in 1..Len(p) /\ k[n] = p[n]
  BY KidFacts, PathFacts
<1>2. IsDone(Fn(p)) => IsDone(Fn(k))
  BY KidFacts DEF CalleesDone
<1>3. CASE n = Len(p)
  BY <1>1, <1>2, <1>3, KidFacts
<1>4. CASE n # Len(p)
  <2>1. n \in 1..(Len(p) - 1) /\ n + 1 \in 1..Len(p)
    BY <1>1, <1>4
  <2>2. k[n + 1] = p[n + 1]
    BY <2>1, KidFacts
  <2>3. QED
    BY <1>1, <1>2, <2>1, <2>2 DEF Above
<1>5. QED
  BY <1>3, <1>4

LEMMA SameKids ==
  ASSUME callees' = callees, NEW p
  PROVE  Kids(p)' = Kids(p)
<1>1. QED
  BY DEF Kids, ToAnalyze

LEMMA ExpandOrder ==
  ASSUME GraphTypes, Order, NEW p \in CallPaths, NEW next \in {"visit", "return"},
         Expand(p, next), callees' = callees,
         pc[p] = "handle_cache" \/ (pc[p] = "analyze_children" /\ next = "return"),
         fresh' = fresh, added' = added
  PROVE  Order'
<1> SUFFICES ASSUME NEW q \in CallPaths
             PROVE  /\ pc'[q] \in Working \cup {"none"} =>
                         q \notin checker' /\ \A k \in Kids(q) : pc'[k] = "none"
                    /\ q \in fresh => pc'[q] \in FreshPlaces
                    /\ pc'[q] \in {"step1", "submit", "analyze_children"} => q \in fresh
                    /\ q \in added => q \in fresh /\ pc'[q] # "step1"
  BY SameKids DEF Order
<1>1. \A a \in CallPaths : pc'[a] = IF a = p THEN next
                                   ELSE IF a \in Kids(p) THEN "preprocess" ELSE pc[a]
  BY ExpandFacts
<1>2. checker' \subseteq checker \cup {p}
  BY ExpandFacts
<1>3. CASE q = p
  BY <1>1, <1>3 DEF Working, FreshPlaces, Order
<1>4. CASE q # p /\ q \in Kids(p)
  <2>1. pc[q] = "none" /\ pc'[q] = "preprocess" /\ q \notin checker'
    BY <1>1, <1>2, <1>4 DEF Order, Working
  <2>2. ASSUME NEW k \in Kids(q) PROVE pc'[k] = "none"
    <3>1. k \in CallPaths /\ pc[k] = "none" /\ k # p
      BY <2>1, KidFacts DEF Order
    <3>2. k \notin Kids(p)
      BY <1>4, OneParent
    <3>3. QED
      BY <1>1, <3>1, <3>2
  <2>3. q \notin fresh /\ q \notin added
    BY <2>1 DEF Order, FreshPlaces
  <2>4. QED
    BY <2>1, <2>2, <2>3
<1>5. CASE q # p /\ q \notin Kids(p)
  <2>1. pc'[q] = pc[q] /\ (q \in checker' => q \in checker)
    BY <1>1, <1>2, <1>5
  <2>2. ASSUME NEW k \in Kids(q), pc[q] \in Working \cup {"none"} PROVE pc'[k] = "none"
    <3>1. k \in CallPaths /\ pc[k] = "none" /\ k # p
      BY <2>2, KidFacts DEF Order
    <3>2. k \notin Kids(p)
      BY <1>5, OneParent
    <3>3. QED
      BY <1>1, <3>1, <3>2
  <2>3. QED
    BY <2>1, <2>2 DEF Order
<1>6. QED
  BY <1>3, <1>4, <1>5

\* A step that starts no agent keeps the order.
LEMMA MoveOrder ==
  ASSUME GraphTypes, Order, NEW p \in CallPaths, callees' = callees,
         NEW x, pc' = [pc EXCEPT ![p] = x], pc[p] # "none", x # "none",
         x \in Working => pc[p] \in Working /\ p \notin checker,
         checker' \subseteq checker,
         \A q \in CallPaths \ {p} : (q \in fresh' <=> q \in fresh) /\ (q \in added' => q \in added),
         p \in fresh' => x \in FreshPlaces,
         x \in {"step1", "submit", "analyze_children"} => p \in fresh',
         p \in added' => p \in fresh' /\ x # "step1"
  PROVE  Order'
<1> SUFFICES ASSUME NEW q \in CallPaths
             PROVE  /\ pc'[q] \in Working \cup {"none"} =>
                         q \notin checker' /\ \A k \in Kids(q) : pc'[k] = "none"
                    /\ q \in fresh' => pc'[q] \in FreshPlaces
                    /\ pc'[q] \in {"step1", "submit", "analyze_children"} => q \in fresh'
                    /\ q \in added' => q \in fresh' /\ pc'[q] # "step1"
  BY SameKids DEF Order
<1>1. \A a \in CallPaths : pc'[a] = IF a = p THEN x ELSE pc[a]
  BY DEF GraphTypes
<1>2. ASSUME NEW k \in Kids(q), pc'[q] \in Working \cup {"none"} PROVE pc'[k] = "none"
  <2>1. pc[q] \in Working \cup {"none"} /\ k \in CallPaths
    BY <1>1, <1>2, KidFacts
  <2>2. pc[k] = "none"
    BY <2>1 DEF Order
  <2>3. QED
    BY <1>1, <2>1, <2>2
<1>3. pc'[q] \in Working \cup {"none"} => q \notin checker'
  BY <1>1 DEF Order
<1>4. QED
  BY <1>1, <1>2, <1>3 DEF Order

LEMMA AgentOrder ==
  ASSUME GraphTypes, Order, NEW p \in CallPaths, AgentStep(p), callees' = callees
  PROVE  Order'
<1>0. /\ p \in checker => pc[p] \notin Working \cup {"none"}
      /\ p \in fresh => pc[p] \in FreshPlaces
      /\ pc[p] \in {"step1", "submit", "analyze_children"} => p \in fresh
      /\ p \in added => p \in fresh /\ pc[p] # "step1"
  BY DEF Order
<1>1. ASSUME McgaPreprocess(p) PROVE Order'
  <2>1. PICK x \in {"handle_cache", "step1"} :
          /\ pc' = [pc EXCEPT ![p] = x]
          /\ fresh' = IF x = "step1" THEN fresh \cup {p} ELSE fresh
    BY <1>1 DEF McgaPreprocess
  <2>2. pc[p] = "preprocess" /\ checker' = checker /\ added' = added
    BY <1>1 DEF McgaPreprocess, sinkVars
  <2>3. QED
    BY <1>0, <2>1, <2>2, MoveOrder DEF Working, FreshPlaces
<1>2. ASSUME Step1(p) \/ Submit(p) PROVE Order'
  <2>1. PICK x \in {"submit", "analyze_children"} : pc' = [pc EXCEPT ![p] = x]
    BY <1>2 DEF Step1, Submit
  <2>2. /\ pc[p] \in {"step1", "submit"} /\ checker' = checker /\ fresh' = fresh
        /\ added' \subseteq added \cup {p}
    BY <1>2 DEF Step1, Submit
  <2>3. QED
    BY <1>0, <2>1, <2>2, MoveOrder DEF Working, FreshPlaces
<1>3. ASSUME Step1Fails(p) \/ SubmitFails(p) PROVE Order'
  <2>1. PICK x \in {"end", "raised"} : pc' = [pc EXCEPT ![p] = x]
    BY <1>3 DEF Step1Fails, SubmitFails
  <2>2. pc[p] \in {"step1", "submit"} /\ checker' = checker /\ fresh' = fresh /\ added' = added
    BY <1>3 DEF Step1Fails, SubmitFails, sinkVars
  <2>3. QED
    BY <1>0, <2>1, <2>2, MoveOrder DEF Working, FreshPlaces
<1>4. ASSUME AnalyzeChildren(p) PROVE Order'
  <2>1. pc[p] = "analyze_children" /\ fresh' = fresh /\ added' = added
    BY <1>4 DEF AnalyzeChildren, sinkVars
  <2>2. CASE Expand(p, "return")
    BY <2>1, <2>2, ExpandOrder
  <2>3. CASE Refuse(p, "return")
    <3>1. pc' = [pc EXCEPT ![p] = "return"] /\ checker' = checker
      BY <2>3 DEF Refuse
    <3>2. QED
      BY <1>0, <2>1, <3>1, MoveOrder DEF Working, FreshPlaces
  <2>4. QED
    BY <1>4, <2>2, <2>3 DEF AnalyzeChildren
<1>5. ASSUME HandleCache(p) PROVE Order'
  <2>1. pc[p] = "handle_cache" /\ fresh' = fresh /\ added' = added
    BY <1>5, CacheCases DEF sinkVars
  <2>2. ASSUME NEW next \in {"visit", "return"}, Expand(p, next) PROVE Order'
    BY <2>1, <2>2, ExpandOrder
  <2>3. ASSUME NEW x \in {"visit", "return", "wait", "visit_done", "finalize"},
               pc' = [pc EXCEPT ![p] = x], checker' = checker
        PROVE  Order'
    BY <1>0, <2>1, <2>3, MoveOrder DEF Working, FreshPlaces
  <2>4. QED
    BY <1>5, <2>2, <2>3, CacheCases
<1>6. ASSUME WaitDone(p) \/ WaitExpires(p) \/ Visit(p) \/ VisitPut(p) \/ McgaFinalize(p) \/ Return(p)
      PROVE  Order'
  <2>1. PICK x \in {"visit", "visit_put", "visit_done", "visit_done_put", "finalize", "return", "end"} :
          /\ pc' = [pc EXCEPT ![p] = x]
          /\ pc[p] = "return" => x = "end"
          /\ x \in DonePlaces => pc[p] \in DonePlaces
    BY <1>6 DEF WaitDone, OrVisit, WaitExpires, Visit, VisitPut, McgaFinalize, Return, DonePlaces
  <2>2. /\ pc[p] \in {"wait", "visit", "visit_put", "visit_done", "visit_done_put", "finalize", "return"}
        /\ checker' = checker /\ fresh' = fresh /\ added' = added
    BY <1>6 DEF WaitDone, WaitExpires, Visit, VisitPut, McgaFinalize, Return, sinkVars
  <2>3. QED
    BY <1>0, <2>1, <2>2, MoveOrder DEF Working, FreshPlaces, DonePlaces
<1>8. ASSUME LoopCut(p) \/ ChildrenDone(p) \/ CheckerExpires(p) PROVE Order'
  <2>1. pc' = pc /\ fresh' = fresh /\ added' = added /\ checker' \subseteq checker
    BY <1>8 DEF LoopCut, ChildrenDone, CheckerExpires, StopChecker, sinkVars
  <2>2. QED
    BY <2>1, SameKids DEF Order
<1>9. QED
  BY <1>1, <1>2, <1>3, <1>4, <1>5, <1>6, <1>8 DEF AgentStep

\* Who moves when an agent does, and what is in Redis by then.
LEMMA AgentMoves ==
  ASSUME GraphTypes, Order, Known, FreshComplete, NEW p \in CallPaths, AgentStep(p)
  PROVE  /\ pc[p] # "none"
         /\ \A q \in CallPaths \ {p} :
              \/ pc'[q] = pc[q]
              \/ /\ q \in Kids(p) /\ redis' = redis /\ pc'[q] = "preprocess"
                 /\ Fn(p) \in DOMAIN redis /\ (IsDone(Fn(p)) => CalleesDone(Fn(p)))
         /\ checker' \subseteq checker \cup {p}
         /\ p \in checker' => Fn(p) \in DOMAIN redis
         /\ pc'[p] \in KnownPlaces => Fn(p) \in DOMAIN redis'
         /\ pc'[p] \in DonePlaces => IsDone(Fn(p))'
<1> DEFINE Goal ==
         /\ pc[p] # "none"
         /\ \A q \in CallPaths \ {p} :
              \/ pc'[q] = pc[q]
              \/ /\ q \in Kids(p) /\ redis' = redis /\ pc'[q] = "preprocess"
                 /\ Fn(p) \in DOMAIN redis /\ (IsDone(Fn(p)) => CalleesDone(Fn(p)))
         /\ checker' \subseteq checker \cup {p}
         /\ p \in checker' => Fn(p) \in DOMAIN redis
         /\ pc'[p] \in KnownPlaces => Fn(p) \in DOMAIN redis'
         /\ pc'[p] \in DonePlaces => IsDone(Fn(p))'
<1>0. /\ SafeWrite /\ Alive
      /\ p \in checker => Fn(p) \in DOMAIN redis /\ pc[p] \notin Working \cup {"none"}
      /\ pc[p] \in KnownPlaces => Fn(p) \in DOMAIN redis
      /\ pc[p] \in DonePlaces => IsDone(Fn(p))
  BY AgentWrites DEF Known, Order
<1>1. ASSUME McgaPreprocess(p) PROVE Goal
  BY <1>0, <1>1 DEF McgaPreprocess, GraphTypes, KnownPlaces, DonePlaces
<1>2. ASSUME Step1(p) PROVE Goal
  <2>1. PICK sink : redis' = Recorded(Fn(p), FALSE, sink)
    BY <1>2 DEF Step1
  <2>2. Fn(p) \in DOMAIN redis'
    BY <2>1, WriteNode, PathFacts
  <2>3. PICK x \in {"submit", "analyze_children"} : pc' = [pc EXCEPT ![p] = x]
    BY <1>2 DEF Step1
  <2>4. pc[p] = "step1" /\ checker' = checker
    BY <1>2 DEF Step1
  <2>5. QED
    BY <1>0, <2>2, <2>3, <2>4 DEF GraphTypes, DonePlaces
<1>3. ASSUME NEW next \in {"visit", "return"}, Expand(p, next),
             pc[p] \in {"analyze_children", "handle_cache"},
             IsDone(Fn(p)) => CalleesDone(Fn(p))
      PROVE  Goal
  <2>1. Fn(p) \in DOMAIN redis
    BY <1>0, <1>3 DEF KnownPlaces
  <2>2. /\ \A q \in CallPaths : pc'[q] = IF q = p THEN next
                                        ELSE IF q \in Kids(p) THEN "preprocess" ELSE pc[q]
        /\ checker' \subseteq checker \cup {p}
        /\ Kids(p) # {} => redis' = redis
    BY <1>3, ExpandFacts
  <2>3. QED
    BY <1>3, <2>1, <2>2 DEF KnownPlaces, DonePlaces
<1>4. ASSUME AnalyzeChildren(p) PROVE Goal
  <2>1. pc[p] = "analyze_children"
    BY <1>4 DEF AnalyzeChildren
  <2>2. IsDone(Fn(p)) => CalleesDone(Fn(p))
    BY <1>0, <2>1 DEF Order, FreshComplete
  <2>3. CASE Expand(p, "return")
    BY <1>3, <2>1, <2>2, <2>3
  <2>4. CASE Refuse(p, "return")
    BY <1>0, <2>1, <2>4 DEF Refuse, GraphTypes, KnownPlaces, DonePlaces
  <2>5. QED
    BY <1>4, <2>3, <2>4 DEF AnalyzeChildren
<1>5. ASSUME HandleCache(p) PROVE Goal
  <2>1. pc[p] = "handle_cache" /\ Fn(p) \in DOMAIN redis
    BY <1>0, <1>5, CacheCases DEF KnownPlaces
  <2>2. ASSUME NEW next \in {"visit", "return"}, Expand(p, next), ~IsDone(Fn(p)) PROVE Goal
    BY <1>3, <2>1, <2>2
  <2>3. ASSUME NEW x \in {"visit", "return", "wait", "visit_done", "finalize"},
               pc' = [pc EXCEPT ![p] = x], UNCHANGED <<redis, checker>>,
               x \in DonePlaces => redis[Fn(p)].done
        PROVE  Goal
    <3>1. \A q \in CallPaths : pc'[q] = IF q = p THEN x ELSE pc[q]
      BY <2>3 DEF GraphTypes
    <3>2. QED
      BY <2>1, <2>3, <3>1 DEF IsDone
  <2>4. QED
    BY <1>5, <2>2, <2>3, CacheCases
<1>6. ASSUME \/ Step1Fails(p) \/ Submit(p) \/ SubmitFails(p) \/ WaitDone(p) \/ WaitExpires(p)
             \/ Visit(p) \/ VisitPut(p) \/ McgaFinalize(p) \/ Return(p)
      PROVE  Goal
  <2>1. PICK x : /\ pc' = [pc EXCEPT ![p] = x]
                 /\ x \in KnownPlaces => pc[p] \in KnownPlaces
                 /\ x \in DonePlaces => pc[p] \in DonePlaces
    BY <1>6 DEF Step1Fails, Submit, SubmitFails, WaitDone, OrVisit, WaitExpires, Visit, VisitPut,
                McgaFinalize, Return, KnownPlaces, DonePlaces
  <2>2. pc[p] # "none" /\ checker' = checker
    BY <1>6 DEF Step1Fails, Submit, SubmitFails, WaitDone, WaitExpires, Visit, VisitPut,
                McgaFinalize, Return
  <2>3. \A q \in CallPaths : pc'[q] = IF q = p THEN x ELSE pc[q]
    BY <2>1 DEF GraphTypes
  <2>4. (Fn(p) \in DOMAIN redis => Fn(p) \in DOMAIN redis') /\ (IsDone(Fn(p)) => IsDone(Fn(p))')
    BY <1>0, NodeStays, DoneStays
  <2>5. QED
    BY <1>0, <2>1, <2>2, <2>3, <2>4
<1>7. ASSUME LoopCut(p) \/ ChildrenDone(p) \/ CheckerExpires(p) PROVE Goal
  <2>1. pc' = pc /\ checker' \subseteq checker /\ p \in checker
    BY <1>7 DEF LoopCut, ChildrenDone, CheckerExpires, StopChecker
  <2>2. QED
    BY <1>0, <2>1 DEF Working, KnownPlaces, DonePlaces
<1>8. QED
  BY <1>1, <1>2, <1>4, <1>5, <1>6, <1>7 DEF AgentStep

LEMMA AgentKnown ==
  ASSUME GraphTypes, Order, Known, FreshComplete, NEW p \in CallPaths, AgentStep(p)
  PROVE  Known'
<1>1. SafeWrite /\ Alive
  BY AgentWrites
<1> SUFFICES ASSUME NEW q \in CallPaths
             PROVE  /\ pc'[q] \in KnownPlaces => Fn(q) \in DOMAIN redis'
                    /\ q \in checker' => Fn(q) \in DOMAIN redis'
                    /\ pc'[q] \in DonePlaces => IsDone(Fn(q))'
  BY DEF Known
<1>2. CASE q = p
  BY <1>1, <1>2, AgentMoves, NodeStays
<1>3. CASE q # p
  <2>1. (pc'[q] = pc[q] \/ pc'[q] = "preprocess") /\ (q \in checker' => q \in checker)
    BY <1>3, AgentMoves
  <2>2. Fn(q) \in DOMAIN redis => Fn(q) \in DOMAIN redis'
    BY <1>1, NodeStays
  <2>3. IsDone(Fn(q)) => IsDone(Fn(q))'
    BY <1>1, DoneStays
  <2>4. QED
    BY <1>1, <2>1, <2>2, <2>3 DEF Known, KnownPlaces, DonePlaces
<1>4. QED
  BY <1>2, <1>3

LEMMA AgentChain ==
  ASSUME GraphTypes, Order, Known, FreshComplete, Chain, NEW p \in CallPaths, AgentStep(p)
  PROVE  Chain'
<1>1. SafeWrite /\ Alive /\ callees' = callees
  BY AgentWrites
<1> SUFFICES ASSUME NEW q \in CallPaths, pc'[q] # "none" PROVE Above(q)'
  BY DEF Chain
<1>2. CASE pc[q] # "none"
  BY <1>1, <1>2, AboveKept DEF Chain
<1>3. CASE pc[q] = "none"
  <2>1. /\ pc[p] # "none" /\ q \in Kids(p) /\ Fn(p) \in DOMAIN redis
        /\ IsDone(Fn(p)) => CalleesDone(Fn(p))
    BY <1>3, AgentMoves
  <2>2. Above(p)
    BY <1>1, <2>1 DEF Chain
  <2>3. Above(q)
    BY <2>1, <2>2, AboveKid
  <2>4. QED
    BY <1>1, <2>3, AboveKept
<1>4. QED
  BY <1>2, <1>3

(***************************************************************************)
(* Sentinels                                                               *)
(***************************************************************************)
\* A root at work has not posted its sentinel.
Quiet ==
  \A r \in Roots : pc[<<r>>] \in Working \/ <<r>> \in checker => posted[r] = 0

\* A step that posts is the last of its agent's, and has settled the function.
LEMMA AgentPosts ==
  ASSUME GraphTypes, Order, Known, NEW p \in CallPaths, AgentStep(p)
  PROVE  /\ expired \subseteq expired'
         /\ \/ posted' = posted /\ (pc'[p] \in Working \/ p \in checker' =>
                                    pc[p] \in Working \/ p \in checker)
            \/ /\ PostSentinel(p) /\ (pc[p] \in Working \/ p \in checker)
               /\ pc'[p] \notin Working /\ p \notin checker'
               /\ IsDone(Fn(p))' \/ p \in expired'
<1> DEFINE Goal ==
         /\ expired \subseteq expired'
         /\ \/ posted' = posted /\ (pc'[p] \in Working \/ p \in checker' =>
                                    pc[p] \in Working \/ p \in checker)
            \/ /\ PostSentinel(p) /\ (pc[p] \in Working \/ p \in checker)
               /\ pc'[p] \notin Working /\ p \notin checker'
               /\ IsDone(Fn(p))' \/ p \in expired'
<1>0. /\ p \in checker => pc[p] \notin Working
      /\ Fn(p) \in Fns
  BY PathFacts DEF Order
<1>1. ASSUME \/ McgaPreprocess(p) \/ Step1(p) \/ Step1Fails(p) \/ Submit(p) \/ SubmitFails(p)
             \/ WaitDone(p) \/ Visit(p) \/ VisitPut(p) \/ Return(p)
      PROVE  Goal
  <2>1. posted' = posted /\ checker' = checker /\ expired' = expired
    BY <1>1 DEF McgaPreprocess, Step1, Step1Fails, Submit, SubmitFails, WaitDone, Visit,
                VisitPut, Return
  <2>2. PICK x : pc' = [pc EXCEPT ![p] = x] /\ (x \in Working => pc[p] \in Working)
    BY <1>1 DEF McgaPreprocess, Step1, Step1Fails, Submit, SubmitFails, WaitDone, OrVisit, Visit,
                VisitPut, Return, Working
  <2>3. pc'[p] = x
    BY <2>2 DEF GraphTypes
  <2>4. QED
    BY <2>1, <2>2, <2>3
<1>2. ASSUME NEW next \in {"visit", "return"}, Expand(p, next),
             pc[p] \in {"analyze_children", "handle_cache"}, expired' = expired
      PROVE  Goal
  <2>1. pc'[p] = next /\ pc[p] \in Working /\ p \notin checker
    BY <1>0, <1>2, ExpandFacts DEF Working
  <2>2. \/ PostSentinel(p) /\ IsDone(Fn(p))' /\ checker' = checker
        \/ posted' = posted
    BY <1>2, ExpandFacts
  <2>3. QED
    BY <1>2, <2>1, <2>2 DEF Working
<1>3. ASSUME AnalyzeChildren(p) PROVE Goal
  <2>1. CASE Expand(p, "return")
    BY <1>2, <1>3, <2>1 DEF AnalyzeChildren
  <2>2. CASE Refuse(p, "return")
    BY <1>3, <2>2 DEF AnalyzeChildren, Refuse, Working
  <2>3. QED
    BY <1>3, <2>1, <2>2 DEF AnalyzeChildren
<1>4. ASSUME HandleCache(p) PROVE Goal
  <2>1. pc[p] = "handle_cache" /\ expired' = expired
    BY <1>4, CacheCases
  <2>2. ASSUME NEW next \in {"visit", "return"}, Expand(p, next) PROVE Goal
    BY <1>2, <2>1, <2>2
  <2>3. ASSUME posted' = posted PROVE Goal
    BY <2>1, <2>3 DEF Working
  <2>4. QED
    BY <1>4, <2>2, <2>3, CacheCases
<1>5. ASSUME WaitExpires(p) PROVE Goal
  BY <1>0, <1>5 DEF WaitExpires, Working, GraphTypes
<1>6. ASSUME McgaFinalize(p) PROVE Goal
  <2>1. IsDone(Fn(p))'
    BY <1>0, <1>6, WriteDone DEF McgaFinalize, Known, DonePlaces
  <2>2. QED
    BY <1>0, <1>6, <2>1 DEF McgaFinalize, Working, GraphTypes
<1>7. ASSUME ChildrenDone(p) PROVE Goal
  <2>1. CalleesDone(Fn(p))
    BY <1>7 DEF ChildrenDone, Ready, ToAnalyze, CalleesDone
  <2>2. IsDone(Fn(p))'
    BY <1>0, <1>7, <2>1, WriteDone DEF ChildrenDone
  <2>3. QED
    BY <1>0, <1>7, <2>2 DEF ChildrenDone, StopChecker
<1>8. ASSUME CheckerExpires(p) PROVE Goal
  BY <1>0, <1>8 DEF CheckerExpires, StopChecker
<1>9. ASSUME LoopCut(p) PROVE Goal
  BY <1>9 DEF LoopCut
<1>10. QED
  BY <1>1, <1>3, <1>4, <1>5, <1>6, <1>7, <1>8, <1>9 DEF AgentStep

LEMMA AgentSentinels ==
  ASSUME GraphTypes, Order, Known, FreshComplete, Quiet, SentinelsEarned, NEW p \in CallPaths, AgentStep(p)
  PROVE  Quiet' /\ SentinelsEarned'
<1>0. SafeWrite
  BY AgentWrites
<1> SUFFICES ASSUME NEW r \in Roots
             PROVE  /\ pc'[<<r>>] \in Working \/ <<r>> \in checker' => posted'[r] = 0
                    /\ posted'[r] <= 1
                    /\ posted'[r] > 0 => IsDone(r)' \/ <<r>> \in expired' \/ ~Alive'
  BY DEF Quiet, SentinelsEarned, OneSentinel, SentinelMeansSettled
<1>1. <<r>> \in CallPaths /\ IsRoot(<<r>>) /\ Fn(<<r>>) = r /\ posted[r] \in Nat
  BY PathOfRoot DEF GraphTypes
<1>2. /\ expired \subseteq expired' /\ (IsDone(r) => IsDone(r)') /\ Alive
  BY <1>0, AgentPosts, AgentWrites, DoneStays
<1>3. CASE p = <<r>>
  <2>1. CASE posted' = posted /\ (pc'[p] \in Working \/ p \in checker' =>
                                    pc[p] \in Working \/ p \in checker)
    BY <1>1, <1>2, <1>3, <2>1 DEF Quiet, SentinelsEarned, OneSentinel, SentinelMeansSettled
  <2>2. CASE /\ PostSentinel(p) /\ (pc[p] \in Working \/ p \in checker)
             /\ pc'[p] \notin Working /\ p \notin checker'
             /\ IsDone(Fn(p))' \/ p \in expired'
    <3>1. posted[r] = 0
      BY <1>3, <2>2 DEF Quiet
    <3>2. posted'[r] = 1
      BY <1>1, <1>3, <2>2, <3>1 DEF PostSentinel, GraphTypes
    <3>3. IsDone(r)' \/ <<r>> \in expired'
      BY <1>1, <1>3, <2>2
    <3>4. QED
      BY <1>3, <2>2, <3>2, <3>3
  <2>3. QED
    BY <2>1, <2>2, AgentPosts
<1>4. CASE p # <<r>>
  <2>1. posted'[r] = posted[r]
    <3>1. CASE posted' = posted
      BY <3>1
    <3>2. CASE PostSentinel(p) /\ IsRoot(p)
      <4>1. p = <<Fn(p)>> /\ Fn(p) # r
        BY <1>4, <3>2, RootPath
      <4>2. QED
        BY <3>2, <4>1 DEF PostSentinel, GraphTypes
    <3>3. CASE PostSentinel(p) /\ ~IsRoot(p)
      BY <3>3 DEF PostSentinel
    <3>4. QED
      BY <3>1, <3>2, <3>3, AgentPosts
  <2>2. <<r>> \notin Kids(p)
    BY <1>1, KidFacts
  <2>3. pc'[<<r>>] = pc[<<r>>] /\ (<<r>> \in checker' => <<r>> \in checker)
    BY <1>1, <1>4, <2>2, AgentMoves
  <2>4. QED
    BY <1>1, <1>2, <2>1, <2>3 DEF Quiet, SentinelsEarned, OneSentinel, SentinelMeansSettled
<1>5. QED
  BY <1>3, <1>4

(***************************************************************************)
(* Candidates                                                              *)
(***************************************************************************)
\* From a root to the function of a new node no node is done, so that reading
\* Redis from the roots shows it.
LEMMA NewNodeVisible ==
  ASSUME GraphTypes, Chain, NEW p \in CallPaths, Alive, pc[p] # "none", callees' = callees,
         Fn(p) \notin DOMAIN redis, NEW sink, redis' = Recorded(Fn(p), FALSE, sink)
  PROVE  sink \subseteq Visible(redis')
<1>1. Above(p) /\ ~IsDone(Fn(p))
  BY DEF Chain, IsDone
<1>2. /\ DOMAIN redis' = DOMAIN redis \cup {Fn(p)}
      /\ \A g \in DOMAIN redis : redis'[g] = redis[g]
      /\ redis'[Fn(p)].tree = sink
  BY DEF Recorded
<1>3. \A n \in 1..Len(p) :
        /\ p[n] \in DOMAIN redis'
        /\ n > 1 => ~redis'[p[n - 1]].done /\ p[n] \in callees[p[n - 1]]
  <2> TAKE n \in 1..Len(p)
  <2>1. Len(p) \in Nat /\ Fn(p) = p[Len(p)]
    BY PathFacts
  <2>2. p[n] \in DOMAIN redis'
    <3>1. CASE n = Len(p)
      BY <1>2, <2>1, <3>1
    <3>2. CASE n # Len(p)
      <4>1. n \in 1..(Len(p) - 1)
        BY <2>1, <3>2
      <4>2. QED
        BY <1>1, <1>2, <4>1 DEF Above
    <3>3. QED
      BY <3>1, <3>2
  <2>3. ASSUME n > 1 PROVE ~redis'[p[n - 1]].done /\ p[n] \in callees[p[n - 1]]
    <3>1. n - 1 \in 1..(Len(p) - 1) /\ (n - 1) + 1 = n
      BY <2>1, <2>3
    <3>2. /\ p[n - 1] \in DOMAIN redis /\ p[n] \in callees[p[n - 1]]
          /\ ~IsDone(p[n - 1])
      BY <1>1, <3>1 DEF Above
    <3>3. QED
      BY <1>2, <3>2 DEF IsDone
  <2>4. QED
    BY <2>2, <2>3
<1>4. p \in Reached(redis')
  BY <1>3 DEF Reached
<1>5. QED
  BY <1>2, <1>4 DEF Visible

\* Where an agent may stand whose sinks have been put in the queue.
Passed == {"analyze_children", "return", "end"}

\* What an agent does to its own sinks, and leaves to those of the others.
LEMMA AgentNode ==
  ASSUME GraphTypes, Order, NEW p \in CallPaths, AgentStep(p)
  PROVE  /\ put \subseteq put'
         /\ \A q \in CallPaths \ {p} :
              base'[q] = base[q] /\ cgs'[q] = cgs[q] /\ (q \in added' => q \in added)
         /\ added' \subseteq CallPaths
         /\ p \in added' =>
              \/ Step1(p)
              \/ /\ p \in added /\ base'[p] = base[p] /\ pc'[p] # "submit"
                 /\ pc'[p] \in Passed =>
                      \/ pc[p] \in Passed
                      \/ pc[p] = "submit" /\ put' = put \cup cgs[p]
<1> DEFINE Goal ==
         /\ put \subseteq put'
         /\ \A q \in CallPaths \ {p} :
              base'[q] = base[q] /\ cgs'[q] = cgs[q] /\ (q \in added' => q \in added)
         /\ added' \subseteq CallPaths
         /\ p \in added' =>
              \/ Step1(p)
              \/ /\ p \in added /\ base'[p] = base[p] /\ pc'[p] # "submit"
                 /\ pc'[p] \in Passed =>
                      \/ pc[p] \in Passed
                      \/ pc[p] = "submit" /\ put' = put \cup cgs[p]
<1>0. /\ added \subseteq CallPaths
      /\ p \in added => pc[p] \in FreshPlaces \ {"step1"}
      /\ p \in checker => pc[p] \notin Working
  BY DEF GraphTypes, Order
<1>1. ASSUME McgaPreprocess(p) \/ Step1Fails(p) \/ WaitDone(p) \/ WaitExpires(p) \/ McgaFinalize(p)
      PROVE  Goal
  <2>1. pc[p] \in {"preprocess", "step1", "wait", "finalize"} /\ UNCHANGED sinkVars
    BY <1>1 DEF McgaPreprocess, Step1Fails, WaitDone, WaitExpires, McgaFinalize
  <2>2. \A q \in CallPaths \ {p} : base'[q] = base[q]
    BY <1>1 DEF McgaPreprocess, Step1Fails, WaitDone, WaitExpires, McgaFinalize, GraphTypes
  <2>3. QED
    BY <1>0, <2>1, <2>2 DEF FreshPlaces, sinkVars
<1>2. ASSUME Step1(p) PROVE Goal
  BY <1>0, <1>2 DEF Step1, GraphTypes
<1>3. ASSUME Submit(p) \/ SubmitFails(p) PROVE Goal
  BY <1>0, <1>3 DEF Submit, SubmitFails, GraphTypes, Passed
<1>4. ASSUME Visit(p) \/ VisitPut(p) PROVE Goal
  <2>1. /\ pc[p] \in {"visit", "visit_put", "visit_done", "visit_done_put"}
        /\ put \subseteq put' /\ base' = base /\ added' = added
    BY <1>4 DEF Visit, VisitPut
  <2>2. \A q \in CallPaths \ {p} : cgs'[q] = cgs[q]
    BY <1>4 DEF Visit, VisitPut, GraphTypes
  <2>3. QED
    BY <1>0, <2>1, <2>2 DEF FreshPlaces
<1>5. ASSUME AnalyzeChildren(p) PROVE Goal
  <2>1. pc[p] = "analyze_children" /\ UNCHANGED <<base, sinkVars>>
    BY <1>5 DEF AnalyzeChildren
  <2>2. pc'[p] = "return"
    BY <1>5, ExpandFacts DEF AnalyzeChildren, Refuse, GraphTypes
  <2>3. QED
    BY <1>0, <2>1, <2>2 DEF sinkVars, Passed
<1>6. ASSUME HandleCache(p) PROVE Goal
  <2>1. pc[p] = "handle_cache" /\ UNCHANGED <<base, sinkVars>>
    BY <1>6, CacheCases
  <2>2. QED
    BY <1>0, <2>1 DEF FreshPlaces, sinkVars
<1>7. ASSUME Return(p) PROVE Goal
  BY <1>0, <1>7 DEF Return, GraphTypes, Passed, sinkVars
<1>8. ASSUME LoopCut(p) \/ ChildrenDone(p) \/ CheckerExpires(p) PROVE Goal
  <2>1. p \in checker /\ pc' = pc /\ UNCHANGED <<base, sinkVars>>
    BY <1>8 DEF LoopCut, ChildrenDone, CheckerExpires
  <2>2. QED
    BY <1>0, <2>1 DEF sinkVars, Working
<1>9. QED
  BY <1>1, <1>2, <1>3, <1>4, <1>5, <1>6, <1>7, <1>8 DEF AgentStep

LEMMA AgentSinks ==
  ASSUME GraphTypes, Order, Known, FreshComplete, Chain, NewSinkSubmitted,
         NEW p \in CallPaths, AgentStep(p)
  PROVE  NewSinkSubmitted'
<1> SUFFICES ASSUME NEW q \in added'
             PROVE  /\ pc'[q] = "submit" => base'[q] \subseteq cgs'[q]
                    /\ pc'[q] \in Passed => base'[q] \subseteq put'
  BY DEF NewSinkSubmitted, Passed
<1>1. q \in CallPaths /\ put \subseteq put'
  BY AgentNode
<1>2. CASE q # p
  <2>1. base'[q] = base[q] /\ cgs'[q] = cgs[q] /\ q \in added
    BY <1>1, <1>2, AgentNode
  <2>2. pc'[q] = pc[q] \/ pc'[q] = "preprocess"
    BY <1>1, <1>2, AgentMoves
  <2>3. QED
    BY <1>1, <2>1, <2>2 DEF NewSinkSubmitted, Passed
<1>3. CASE q = p /\ Step1(p)
  <2>1. pc[p] = "step1" /\ p \notin added /\ Alive /\ callees' = callees
    BY <1>3 DEF Step1, Order, cpuaVars
  <2>2. Fn(p) \notin DOMAIN redis
    BY <1>3, <2>1 DEF Step1
  <2>3. PICK sink \in SUBSET (Vuln \cap {Fn(p)}) :
          /\ base' = [base EXCEPT ![p] = sink]
          /\ redis' = Recorded(Fn(p), FALSE, sink)
          /\ \/ sink = {} /\ pc' = [pc EXCEPT ![p] = "analyze_children"]
             \/ /\ pc' = [pc EXCEPT ![p] = "submit"]
                /\ cgs' = [cgs EXCEPT ![p] = Visible(redis')]
    BY <1>3 DEF Step1
  <2>4. sink \subseteq Visible(redis')
    BY <2>1, <2>2, <2>3, NewNodeVisible
  <2>5. base'[p] = sink
    BY <2>3 DEF GraphTypes
  <2>6. CASE sink = {} /\ pc' = [pc EXCEPT ![p] = "analyze_children"]
    BY <1>3, <2>5, <2>6
  <2>7. CASE pc' = [pc EXCEPT ![p] = "submit"] /\ cgs' = [cgs EXCEPT ![p] = Visible(redis')]
    <3>1. pc'[p] = "submit" /\ cgs'[p] = Visible(redis')
      BY <2>7 DEF GraphTypes
    <3>2. QED
      BY <1>3, <2>4, <2>5, <3>1 DEF Passed
  <2>8. QED
    BY <2>3, <2>6, <2>7
<1>4. CASE q = p /\ ~Step1(p)
  <2>1. /\ p \in added /\ base'[p] = base[p] /\ pc'[p] # "submit"
        /\ pc'[p] \in Passed =>
             \/ pc[p] \in Passed
             \/ pc[p] = "submit" /\ put' = put \cup cgs[p]
    BY <1>4, AgentNode
  <2>2. QED
    BY <1>1, <1>4, <2>1 DEF NewSinkSubmitted, Passed
<1>5. QED
  BY <1>2, <1>3, <1>4

(***************************************************************************)
(* The other steps                                                         *)
(***************************************************************************)
Analysis == Order /\ Known /\ FreshComplete /\ Chain /\ DoneHasDoneCallees
Outcome == Quiet /\ SentinelsEarned /\ NewSinkSubmitted

GraphIInv == GraphTypes /\ Counters /\ Analysis /\ Outcome

LEMMA RootsFirst ==
  ASSUME NEW p \in CallPaths, StartPc[p] # "none"
  PROVE  StartPc[p] = "preprocess" /\ \A n \in 1..(Len(p) - 1) : FALSE
<1>1. Len(p) = 1 /\ StartPc[p] = "preprocess"
  BY DEF StartPc, IsRoot
<1>2. QED
  BY <1>1

LEMMA StartsAtRoots ==
  ASSUME NEW p \in CallPaths, NEW k \in Kids(p)
  PROVE  StartPc[k] = "none"
<1>1. QED
  BY KidFacts DEF StartPc

LEMMA InitGraphIInv == GraphInit => GraphIInv
<1> SUFFICES ASSUME GraphInit PROVE GraphIInv
  OBVIOUS
<1>1. /\ pc = StartPc /\ DOMAIN redis = {} /\ fresh = {} /\ checker = {} /\ added = {}
      /\ posted = [r \in Roots |-> 0]
  BY DEF GraphInit, NoSentinel
<1>2. Order
  BY <1>1, RootsFirst, StartsAtRoots DEF Order
<1>3. Known
  BY <1>1, RootsFirst DEF Known, KnownPlaces, DonePlaces
<1>4. Chain
  <2>1. \A p \in CallPaths : pc[p] # "none" => \A n \in 1..(Len(p) - 1) : FALSE
    BY <1>1, RootsFirst, Zenon
  <2>2. QED
    BY <2>1 DEF Chain, Above
<1>5. FreshComplete /\ DoneHasDoneCallees /\ NewSinkSubmitted
  BY <1>1 DEF FreshComplete, DoneHasDoneCallees, NewSinkSubmitted
<1>6. Quiet /\ SentinelsEarned
  BY <1>1 DEF Quiet, SentinelsEarned, OneSentinel, SentinelMeansSettled
<1>7. QED
  BY <1>2, <1>3, <1>4, <1>5, <1>6, InitGraphTypes DEF GraphIInv, Analysis, Outcome

LEMMA RestartKeeps ==
  ASSUME GraphIInv, Restart
  PROVE  Analysis' /\ Outcome'
<1>1. /\ pc' = StartPc /\ fresh' = {} /\ checker' = {} /\ added' = {} /\ callees' = callees
      /\ posted' = [r \in Roots |-> 0] /\ DOMAIN redis' = DOMAIN redis /\ torn' = torn
  BY DEF Restart, NoSentinel
<1>2. \A f \in DOMAIN redis : redis'[f].done <=> redis[f].done
  BY DEF Restart, GraphIInv, GraphTypes
<1>3. Order'
  BY <1>1, RootsFirst, StartsAtRoots, SameKids DEF Order
<1>4. Known'
  BY <1>1, RootsFirst DEF Known, KnownPlaces, DonePlaces
<1>5. Chain'
  <2>1. \A p \in CallPaths : pc'[p] # "none" => \A n \in 1..(Len(p) - 1) : FALSE
    BY <1>1, RootsFirst, Zenon
  <2>2. QED
    BY <2>1 DEF Chain, Above
<1>6. DoneHasDoneCallees'
  BY <1>1, <1>2 DEF DoneHasDoneCallees, IsDone, GraphIInv, Analysis
<1>7. FreshComplete' /\ NewSinkSubmitted'
  BY <1>1 DEF FreshComplete, NewSinkSubmitted
<1>8. Quiet' /\ SentinelsEarned'
  BY <1>1 DEF Quiet, SentinelsEarned, OneSentinel, SentinelMeansSettled
<1>9. QED
  BY <1>3, <1>4, <1>5, <1>6, <1>7, <1>8 DEF Analysis, Outcome

LEMMA CpuaKeeps ==
  ASSUME GraphIInv, CpuaStep \/ UNCHANGED graphVars
  PROVE  Analysis' /\ Outcome'
<1> USE DEF GraphIInv, Analysis, Outcome
<1>1. UNCHANGED <<pc, base, fresh, checker, callees, cgs, put, added, posted, expired>>
  BY DEF CpuaStep, TakeTasks, TakeSentinel, IdleWait, GatherTasks, FlushKey, graphVars,
         sinkVars, cpuaVars
<1>2. Order' /\ Quiet' /\ NewSinkSubmitted'
  BY <1>1, SameKids DEF Order, Quiet, NewSinkSubmitted
<1>3. CASE ~FlushKey
  <2>1. redis' = redis /\ (Alive' => Alive) /\ (~Alive => ~Alive') /\ (torn => torn')
    BY <1>3 DEF Alive, CpuaStep, TakeTasks, TakeSentinel, IdleWait, GatherTasks, graphVars, cpuaVars
  <2>2. Known' /\ DoneHasDoneCallees' /\ SentinelsEarned'
    BY <1>1, <2>1 DEF Known, DoneHasDoneCallees, IsDone, SentinelsEarned, OneSentinel,
       SentinelMeansSettled
  <2>3. Chain' /\ FreshComplete'
    BY <1>1, <2>1 DEF Chain, Above, FreshComplete, CalleesDone, IsDone
  <2>4. QED
    BY <1>2, <2>2, <2>3
<1>4. CASE FlushKey
  <2>1. ~Alive' /\ (torn' \/ DOMAIN redis' = {})
    BY <1>4 DEF FlushKey, Alive
  <2>2. Known' /\ FreshComplete' /\ Chain' /\ DoneHasDoneCallees' /\ SentinelsEarned'
    BY <1>1, <2>1 DEF Known, FreshComplete, Chain, DoneHasDoneCallees, SentinelsEarned,
       OneSentinel, SentinelMeansSettled
  <2>3. QED
    BY <1>2, <2>2
<1>5. QED
  BY <1>3, <1>4

LEMMA AgentKeeps ==
  ASSUME GraphIInv, NEW p \in CallPaths, AgentStep(p)
  PROVE  Analysis' /\ Outcome'
<1> USE DEF GraphIInv, Analysis, Outcome
<1>1. SafeWrite /\ callees' = callees /\ torn' = torn
  BY AgentWrites
<1>2. Order' /\ Known' /\ FreshComplete' /\ Chain' /\ DoneHasDoneCallees'
  BY <1>1, AgentOrder, AgentKnown, AgentFresh, AgentChain, WriteKeepsDone
<1>3. QED
  BY <1>2, AgentSentinels, AgentSinks

LEMMA GraphIInvHolds == GraphSpec => []GraphIInv
<1>1. GraphIInv /\ [GraphNext]_graphVars => GraphIInv'
  <2> SUFFICES ASSUME GraphIInv, [GraphNext]_graphVars PROVE GraphIInv'
    OBVIOUS
  <2>1. GraphTypes' /\ Counters'
    BY NextGraphTypes DEF GraphIInv
  <2>2. Analysis' /\ Outcome'
    BY RestartKeeps, CpuaKeeps, AgentKeeps DEF GraphNext
  <2>3. QED
    BY <2>1, <2>2 DEF GraphIInv
<1>2. QED
  BY InitGraphIInv, <1>1, PTL DEF GraphSpec

\* Every variable keeps its type and every counter its bound, over any number
\* of runs, failures and agents.
THEOREM GraphTypeCorrect == GraphSpec => []GraphTypes
<1>1. GraphIInv => GraphTypes
  BY DEF GraphIInv
<1>2. QED
  BY <1>1, GraphIInvHolds, PTL

\* A sentinel in the queue stands for one root, and that root is settled: the
\* loop, the cache and the timeouts post one between them (mark_done of
\* mcga.py), so that _run_tasks counts every root once.
THEOREM SentinelsAreEarned == GraphSpec => []SentinelsEarned
<1>1. GraphIInv => SentinelsEarned
  BY DEF GraphIInv, Outcome
<1>2. QED
  BY <1>1, GraphIInvHolds, PTL

\* What Redis calls done is an analysis whose callees are done, in this run
\* and in the runs that find it, unless a flush was broken off in between
\* (end of main() of mlla/main.py, _record_cg_root_node of mcga.py).
THEOREM DoneIsComplete == GraphSpec => []DoneHasDoneCallees
<1>1. GraphIInv => DoneHasDoneCallees
  BY DEF GraphIInv, Analysis
<1>2. QED
  BY <1>1, GraphIInvHolds, PTL

\* The sink of a node that code_understand_step1 is the first to record is in
\* the current_cgs it reads back from the roots, however many callers other
\* agents complete in between; and in what was put once the agent is past the
\* put.  An agent whose make_new_root_node raises or is cancelled puts nothing.
THEOREM NewSinksAreSubmitted == GraphSpec => []NewSinkSubmitted
<1>1. GraphIInv => NewSinkSubmitted
  BY DEF GraphIInv, Outcome
<1>2. QED
  BY <1>1, GraphIInvHolds, PTL

(***************************************************************************)
(* The agents that make inputs                                             *)
(***************************************************************************)
\* Nodes after which another attempt may be made.
Again == {"waiting", "preprocess", "select_sanitizer", "plan", "generate",
          "interesting", "analyze"}

Loop == \A a \in Agents : at[a] \in Again => iter[a] < MaxIter

CrashAtEnd ==
  \A a \in Agents :
    /\ at[a] \notin {"finalize", "snapshot_end", "ended", "raised"} => found[a] = {}
    /\ at[a] = "finalize" => found[a] \subseteq Returned(a)
    /\ at[a] = "snapshot_end" => found[a] \subseteq result[a]

IInv == TypeOK /\ Loop /\ AttemptsBounded /\ CrashAtEnd /\ KnownCrashReported

LEMMA KindOfAgent == ASSUME NEW a \in Agents PROVE MyKind(a) \in Kinds
<1>1. QED
  BY DEF Agents, MyKind

LEMMA LimitPositive ==
  ASSUME NEW a \in Agents PROVE Limit[MyKind(a)] \in Nat /\ Limit[MyKind(a)] >= 1
<1>1. QED
  BY KindOfAgent, AgentsAssumption

LEMMA CoverageLeads ==
  ASSUME NEW a \in Agents, NEW known \in BOOLEAN, NEW n \in Nat
  PROVE  AfterCoverage(a, known, n) \in {"finalize", "analyze", "interesting"}
<1>1. QED
  BY DEF AfterCoverage

LEMMA InitIInv == Init => IInv
<1> SUFFICES ASSUME Init PROVE IInv
  OBVIOUS
<1> USE AgentsAssumption DEF Init
<1>1. TypeOK
  BY LimitPositive DEF TypeOK, Nodes, Ended, Kinds
<1>2. Loop /\ AttemptsBounded
  BY DEF Loop, AttemptsBounded
<1>3. CrashAtEnd /\ KnownCrashReported
  BY DEF CrashAtEnd, KnownCrashReported
<1>4. QED
  BY <1>1, <1>2, <1>3 DEF IInv

LEMMA SuperstepType ==
  ASSUME TypeOK, NEW a \in Agents, NEW node, Superstep(a, node)
  PROVE  /\ steps' \in [Agents -> Nat]
         /\ \A b \in Agents : steps'[b] <= Limit[MyKind(b)]
<1>1. QED
  BY LimitPositive DEF TypeOK, Superstep

\* Types: where a step leads is a node or an end, and no superstep exceeds the limit.
LEMMA NextType == TypeOK /\ [Next]_vars => TypeOK'
<1> SUFFICES ASSUME TypeOK, [Next]_vars PROVE TypeOK'
  OBVIOUS
<1> USE DEF TypeOK
<1>1. ASSUME NEW a \in Agents, Start(a) PROVE TypeOK'
  BY <1>1, LimitPositive DEF Start, stateVars, Nodes, Ended
<1>2. ASSUME NEW a \in Agents, LimitReached(a) \/ NodeRaises(a) PROVE TypeOK'
  BY <1>2 DEF LimitReached, NodeRaises, stateVars, Goto, Ended
<1>3. ASSUME NEW a \in Agents, Preprocess(a) \/ SelectSanitizer(a) \/ Plan(a) PROVE TypeOK'
  BY <1>3, SuperstepType DEF Preprocess, SelectSanitizer, Plan, Goto, stateVars, Nodes
<1>4. ASSUME NEW a \in Agents, GeneratePayload(a) \/ PayloadFails(a) PROVE TypeOK'
  BY <1>4, SuperstepType DEF GeneratePayload, PayloadFails, Goto, stateVars, Nodes
<1>5. ASSUME NEW a \in Agents, CreateGenerator(a) PROVE TypeOK'
  BY <1>5, SuperstepType DEF CreateGenerator, Goto, Nodes
<1>6. ASSUME NEW a \in Agents, CreateMutator(a) PROVE TypeOK'
  BY <1>6, SuperstepType DEF CreateMutator, Goto, Nodes
<1>7. ASSUME NEW a \in Agents, CollectCoverage(a) PROVE TypeOK'
  BY <1>7, SuperstepType, CoverageLeads DEF CollectCoverage, Goto, Nodes, Stops
<1>8. ASSUME NEW a \in Agents, CoverageFails(a) PROVE TypeOK'
  BY <1>8, SuperstepType, CoverageLeads DEF CoverageFails, Goto, Nodes, Stops
<1>9. ASSUME NEW a \in Agents, Interesting(a) \/ Analyze(a) PROVE TypeOK'
  BY <1>9, SuperstepType DEF Interesting, Analyze, Goto, stateVars, Nodes
<1>10. ASSUME NEW a \in Agents, Finalize(a) PROVE TypeOK'
  <2>1. Returned(a) \in SUBSET Nat
    BY DEF Returned
  <2>2. QED
    BY <1>10, <2>1, SuperstepType DEF Finalize, Goto, stateVars, Nodes
<1>11. ASSUME NEW a \in Agents, DebugSnapshotEnd(a) PROVE TypeOK'
  BY <1>11, SuperstepType DEF DebugSnapshotEnd, Goto, stateVars, Ended
<1>12. CASE Gather
  BY <1>12 DEF Gather, stateVars
<1>13. CASE UNCHANGED vars
  BY <1>13 DEF vars, stateVars
<1>14. QED
  BY <1>1, <1>2, <1>3, <1>4, <1>5, <1>6, <1>7, <1>8, <1>9, <1>10, <1>11, <1>12, <1>13
     DEF Next, Step

\* Attempts: who can try again has an attempt left.
LEMMA NextLoop ==
  TypeOK /\ Loop /\ AttemptsBounded /\ [Next]_vars => Loop' /\ AttemptsBounded'
<1> SUFFICES ASSUME TypeOK, Loop, AttemptsBounded, [Next]_vars
             PROVE  Loop' /\ AttemptsBounded'
  OBVIOUS
<1> USE AgentsAssumption DEF TypeOK, Loop, AttemptsBounded
<1>1. ASSUME NEW a \in Agents, Start(a) PROVE Loop' /\ AttemptsBounded'
  BY <1>1 DEF Start, stateVars, Again
<1>2. ASSUME NEW a \in Agents, LimitReached(a) \/ NodeRaises(a)
      PROVE  Loop' /\ AttemptsBounded'
  BY <1>2 DEF LimitReached, NodeRaises, stateVars, Goto, Again
<1>3. ASSUME NEW a \in Agents, Preprocess(a) \/ SelectSanitizer(a) \/ Plan(a)
      PROVE  Loop' /\ AttemptsBounded'
  BY <1>3 DEF Preprocess, SelectSanitizer, Plan, Superstep, Goto, stateVars, Again
<1>4. ASSUME NEW a \in Agents, GeneratePayload(a) PROVE Loop' /\ AttemptsBounded'
  BY <1>4 DEF GeneratePayload, Superstep, Goto, Again
<1>5. ASSUME NEW a \in Agents, PayloadFails(a) PROVE Loop' /\ AttemptsBounded'
  BY <1>5 DEF PayloadFails, Superstep, Goto, stateVars, Again
<1>6. ASSUME NEW a \in Agents, CreateGenerator(a) PROVE Loop' /\ AttemptsBounded'
  BY <1>6 DEF CreateGenerator, Superstep, Goto, Again
<1>7. ASSUME NEW a \in Agents, CreateMutator(a) PROVE Loop' /\ AttemptsBounded'
  BY <1>7 DEF CreateMutator, Superstep, Goto, NoneLeft, Again
<1>8. ASSUME NEW a \in Agents, CollectCoverage(a) \/ CoverageFails(a)
      PROVE  Loop' /\ AttemptsBounded'
  BY <1>8 DEF CollectCoverage, CoverageFails, AfterCoverage, Superstep, Goto, NoneLeft, Again
<1>9. ASSUME NEW a \in Agents, Interesting(a) \/ Analyze(a) \/ Finalize(a) \/ DebugSnapshotEnd(a)
      PROVE  Loop' /\ AttemptsBounded'
  BY <1>9 DEF Interesting, Analyze, Finalize, DebugSnapshotEnd, Superstep, Goto, stateVars, Again
<1>10. CASE Gather \/ UNCHANGED vars
  BY <1>10 DEF Gather, vars, stateVars
<1>11. QED
  BY <1>1, <1>2, <1>3, <1>4, <1>5, <1>6, <1>7, <1>8, <1>9, <1>10 DEF Next, Step

\* Crashes: one is entered on the way to finalize only.
LEMMA NextCrash ==
  TypeOK /\ CrashAtEnd /\ KnownCrashReported /\ [Next]_vars
    => CrashAtEnd' /\ KnownCrashReported'
<1> SUFFICES ASSUME TypeOK, CrashAtEnd, KnownCrashReported, [Next]_vars
             PROVE  CrashAtEnd' /\ KnownCrashReported'
  OBVIOUS
<1> USE DEF TypeOK, CrashAtEnd, KnownCrashReported, Returned
<1>1. ASSUME NEW a \in Agents, Start(a) PROVE CrashAtEnd' /\ KnownCrashReported'
  BY <1>1 DEF Start, stateVars
<1>2. ASSUME NEW a \in Agents, LimitReached(a) \/ NodeRaises(a)
      PROVE  CrashAtEnd' /\ KnownCrashReported'
  BY <1>2 DEF LimitReached, NodeRaises, stateVars, Goto
<1>3. ASSUME NEW a \in Agents, Preprocess(a) \/ SelectSanitizer(a) \/ Plan(a)
      PROVE  CrashAtEnd' /\ KnownCrashReported'
  BY <1>3 DEF Preprocess, SelectSanitizer, Plan, Superstep, Goto, stateVars
<1>4. ASSUME NEW a \in Agents, GeneratePayload(a) \/ PayloadFails(a)
      PROVE  CrashAtEnd' /\ KnownCrashReported'
  BY <1>4 DEF GeneratePayload, PayloadFails, Superstep, Goto, stateVars
<1>5. ASSUME NEW a \in Agents, CreateGenerator(a) \/ CreateMutator(a)
      PROVE  CrashAtEnd' /\ KnownCrashReported'
  BY <1>5 DEF CreateGenerator, CreateMutator, Superstep, Goto
<1>6. ASSUME NEW a \in Agents, CollectCoverage(a) PROVE CrashAtEnd' /\ KnownCrashReported'
  BY <1>6 DEF CollectCoverage, AfterCoverage, Stops, Superstep, Goto
<1>7. ASSUME NEW a \in Agents, CoverageFails(a) PROVE CrashAtEnd' /\ KnownCrashReported'
  BY <1>7 DEF CoverageFails, AfterCoverage, Stops, Superstep, Goto
<1>8. ASSUME NEW a \in Agents, Interesting(a) \/ Analyze(a)
      PROVE  CrashAtEnd' /\ KnownCrashReported'
  BY <1>8 DEF Interesting, Analyze, Superstep, Goto, stateVars
<1>9. ASSUME NEW a \in Agents, Finalize(a) \/ DebugSnapshotEnd(a)
      PROVE  CrashAtEnd' /\ KnownCrashReported'
  BY <1>9 DEF Finalize, DebugSnapshotEnd, Superstep, Goto, stateVars
<1>10. CASE Gather \/ UNCHANGED vars
  BY <1>10 DEF Gather, vars, stateVars
<1>11. QED
  BY <1>1, <1>2, <1>3, <1>4, <1>5, <1>6, <1>7, <1>8, <1>9, <1>10 DEF Next, Step

LEMMA IInvHolds == Spec => []IInv
<1>1. IInv /\ [Next]_vars => IInv'
  BY NextType, NextLoop, NextCrash DEF IInv
<1>2. QED
  BY InitIInv, <1>1, PTL DEF Spec

\* Every variable keeps its type, and no graph makes a superstep past its
\* recursion limit.
THEOREM TypeCorrect == Spec => []TypeOK
<1>1. IInv => TypeOK
  BY DEF IInv
<1>2. QED
  BY <1>1, IInvHolds, PTL

\* No agent makes more attempts than its maximum, whatever the models answer
\* and the runs of the target show (should_analyze_failure and its kin).
THEOREM AttemptsAreBounded == Spec => []AttemptsBounded
<1>1. IInv => AttemptsBounded
  BY DEF IInv
<1>2. QED
  BY <1>1, IInvHolds, PTL

\* Every attempt whose run showed a known crash is among what its agent returns
\* (collect_coverage, should_analyze_failure and its kin, finalize): no later
\* attempt takes its place.  An agent without a crash may still return its
\* last attempt, as the BlobGen agent does.
THEOREM CrashIsReported == Spec => []KnownCrashReported
<1>1. IInv => KnownCrashReported
  BY DEF IInv
<1>2. QED
  BY <1>1, IInvHolds, PTL

\* The loop of attempts is left when the attempts are used up, and before a
\* later attempt replaces one with a known crash.
THEOREM LoopIsSound == Spec => []LoopSound
<1>1. IInv => LoopSound
  BY DEF IInv, LoopSound
<1>2. QED
  BY <1>1, IInvHolds, PTL
=============================================================================
