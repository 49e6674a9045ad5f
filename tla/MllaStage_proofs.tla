--------------------------- MODULE MllaStage_proofs ---------------------------
(***************************************************************************)
(* What the MLLA stage promises for every set of workers and files, every  *)
(* number of runs and every size of a batch.                               *)
(*                                                                         *)
(* The argument: the workers use the counter as StageCounter says, so one  *)
(* is inside at most, and only a worker inside has agents.  A file is on   *)
(* disk until a rename takes it into one block, and until then its marker  *)
(* or a list of a worker leads to it.                                      *)
(***************************************************************************)
EXTENDS MllaStage, FiniteSetTheorems, TLAPS

-----------------------------------------------------------------------------
(* The counter: on, a worker inside, and a sleeping thread are three forms of
   one token.  A worker becomes the token by switching the counter off, becomes
   a sleeper or the counter again in set_interval, and remain is paid each time
   it comes back on. *)

\* The forms of the token exclude each other.
OneForm ==
  /\ on => sleepers = 0 /\ \A w \in Workers : ~Inside(w)
  /\ sleepers > 0 => sleepers = 1 /\ \A w \in Workers : ~Inside(w)

\* The flag is cleared by the first unit taken from remain.
FirstIsUnpaid == firstRun <=> remain = IterCnt - 1

IInv == CounterTypeOK /\ OneRunner /\ OneForm /\ RunBudget /\ FirstIsUnpaid

LEMMA InitIInv == CounterInit => IInv
<1> SUFFICES ASSUME CounterInit PROVE IInv
  OBVIOUS
<1> USE CounterAssumption DEF CounterInit
<1>1. \A w \in Workers : ~Inside(w)
  BY DEF Inside
<1>2. QED
  BY <1>1 DEF IInv, CounterTypeOK, OneRunner, OneForm, RunBudget, FirstIsUnpaid

\* What decrease_remain does to the token, from outside or from inside.
LEMMA DecreaseKeeps ==
  ASSUME IInv, DecreaseRemain, ~on, runs' = runs
  PROVE  /\ on' \in BOOLEAN /\ firstRun' \in BOOLEAN /\ remain' \in 0 .. IterCnt - 1
         /\ RunBudget' /\ FirstIsUnpaid'
<1> USE CounterAssumption DEF IInv, CounterTypeOK
<1>1. CASE remain > 0 /\ remain' = remain - 1 /\ firstRun' = FALSE /\ on' = TRUE
  <2>1. on' \in BOOLEAN /\ firstRun' \in BOOLEAN
    BY <1>1
  <2>2. remain' \in 0 .. IterCnt - 1 /\ RunBudget' /\ FirstIsUnpaid'
    BY <1>1 DEF RunBudget, FirstIsUnpaid
  <2>3. QED
    BY <2>1, <2>2
<1>2. CASE remain = 0 /\ UNCHANGED <<on, firstRun, remain>>
  BY <1>2 DEF RunBudget, FirstIsUnpaid
<1>3. QED
  BY <1>1, <1>2 DEF DecreaseRemain

\* Every step of a worker and every end of an interval keeps IInv.
LEMMA NextIInv == IInv /\ [CounterNext]_counterVars => IInv'
<1> SUFFICES ASSUME IInv, [CounterNext]_counterVars PROVE IInv'
  OBVIOUS
<1> USE CounterAssumption DEF IInv
<1>1. ASSUME NEW w \in Workers, SeeOn(w) PROVE IInv'
  <2>1. CounterTypeOK' /\ \A v \in Workers : Inside(v)' => Inside(v)
    BY <1>1 DEF SeeOn, CounterTypeOK, Inside
  <2>2. QED
    BY <2>1, <1>1 DEF SeeOn, OneRunner, OneForm, RunBudget, FirstIsUnpaid
<1>2. ASSUME NEW w \in Workers, TakeRun(w) PROVE IInv'
  <2>1. on' \in BOOLEAN
    BY <1>2 DEF TakeRun
  <2>2. CounterTypeOK'
    BY <2>1, <1>2 DEF TakeRun, CounterTypeOK
  <2>3. \A v \in Workers : Inside(v)' => v = w
    BY <1>2 DEF TakeRun, CounterTypeOK, OneForm, Inside
  <2>4. OneRunner' /\ OneForm'
    BY <2>3, <1>2 DEF TakeRun, OneRunner, OneForm, CounterTypeOK
  <2>5. RunBudget' /\ FirstIsUnpaid'
    BY <1>2 DEF TakeRun, RunBudget, FirstIsUnpaid, CounterTypeOK
  <2>6. QED
    BY <2>2, <2>4, <2>5
<1>3. ASSUME NEW w \in Workers, MissRun(w) PROVE IInv'
  <2>1. CounterTypeOK' /\ \A v \in Workers : Inside(v)' => Inside(v)
    BY <1>3 DEF MissRun, CounterTypeOK, Inside
  <2>2. QED
    BY <2>1, <1>3 DEF MissRun, OneRunner, OneForm, RunBudget, FirstIsUnpaid
<1>4. ASSUME NEW w \in Workers, SkipInterval(w) PROVE IInv'
  <2>1. CounterTypeOK' /\ \A v \in Workers : Inside(v)' => Inside(v)
    BY <1>4 DEF SkipInterval, CounterTypeOK, Inside
  <2>2. QED
    BY <2>1, <1>4 DEF SkipInterval, OneRunner, OneForm, RunBudget, FirstIsUnpaid
<1>5. ASSUME NEW w \in Workers, AtOnce(w) PROVE IInv'
  <2>1. ~on /\ sleepers = 0 /\ runs' = runs /\ sleepers' = sleepers
    BY <1>5 DEF AtOnce, OneForm, CounterTypeOK, Inside
  <2>2. /\ on' \in BOOLEAN /\ firstRun' \in BOOLEAN /\ remain' \in 0 .. IterCnt - 1
        /\ RunBudget' /\ FirstIsUnpaid'
    BY <1>5, <2>1, DecreaseKeeps DEF AtOnce
  <2>3. CounterTypeOK'
    BY <1>5, <2>1, <2>2 DEF AtOnce, CounterTypeOK
  <2>4. \A v \in Workers : ~Inside(v)'
    BY <1>5 DEF AtOnce, CounterTypeOK, OneRunner, Inside
  <2>5. OneRunner' /\ OneForm'
    BY <2>1, <2>4 DEF OneRunner, OneForm
  <2>6. QED
    BY <2>2, <2>3, <2>5
<1>6. ASSUME NEW w \in Workers, StartInterval(w) PROVE IInv'
  <2>1. ~on /\ sleepers = 0
    BY <1>6 DEF StartInterval, OneForm, CounterTypeOK, Inside
  <2>2. CounterTypeOK' /\ RunBudget' /\ FirstIsUnpaid'
    BY <1>6 DEF StartInterval, CounterTypeOK, RunBudget, FirstIsUnpaid
  <2>3. \A v \in Workers : ~Inside(v)'
    BY <1>6 DEF StartInterval, CounterTypeOK, OneRunner, Inside
  <2>4. OneRunner' /\ OneForm'
    BY <2>1, <2>3, <1>6 DEF StartInterval, OneRunner, OneForm
  <2>5. QED
    BY <2>2, <2>4
<1>7. CASE IntervalOver
  <2>1. sleepers = 1 /\ sleepers' = 0 /\ ~on /\ runs' = runs /\ cpc' = cpc
    BY <1>7 DEF IntervalOver, OneForm, CounterTypeOK
  <2>2. /\ on' \in BOOLEAN /\ firstRun' \in BOOLEAN /\ remain' \in 0 .. IterCnt - 1
        /\ RunBudget' /\ FirstIsUnpaid'
    BY <1>7, <2>1, DecreaseKeeps DEF IntervalOver
  <2>3. CounterTypeOK'
    BY <2>1, <2>2 DEF CounterTypeOK
  <2>4. \A v \in Workers : ~Inside(v)'
    BY <2>1 DEF OneForm, Inside
  <2>5. OneRunner' /\ OneForm'
    BY <2>1, <2>4 DEF OneRunner, OneForm
  <2>6. QED
    BY <2>2, <2>3, <2>5
<1>8. CASE UNCHANGED counterVars
  BY <1>8 DEF counterVars, CounterTypeOK, OneRunner, OneForm, RunBudget, FirstIsUnpaid, Inside
<1>9. QED
  BY <1>1, <1>2, <1>3, <1>4, <1>5, <1>6, <1>7, <1>8 DEF CounterNext, CounterStep

LEMMA IInvHolds == CounterSpec => []IInv
<1>1. QED
  BY InitIInv, NextIInv, PTL DEF CounterSpec

\* Every variable keeps its type; remain never wraps below 0 (decrease_remain).
THEOREM CounterTypeCorrect == CounterSpec => []CounterTypeOK
<1>1. IInv => CounterTypeOK
  BY DEF IInv
<1>2. QED
  BY <1>1, IInvHolds, PTL

\* One worker at most is inside a stage that runs under a counter, however many
\* workers look at it at once (need_run, set_interval).
THEOREM RunnerExclusive == CounterSpec => []OneRunner
<1>1. IInv => OneRunner
  BY DEF IInv
<1>2. QED
  BY <1>1, IInvHolds, PTL

\* Runs begun and runs left add up to mlla_iter_cnt, so no run is gained and
\* none is lost (need_run, decrease_remain).
THEOREM RunsAddUp == CounterSpec => []RunBudget
<1>1. IInv => RunBudget
  BY DEF IInv
<1>2. QED
  BY <1>1, IInvHolds, PTL

\* A worker inside the stage learns from is_first_run whether its run is the
\* first (is_first_run as prepare_mlla_cmd and set_interval use it).
THEOREM FirstRunTold == CounterSpec => []FirstRunKnown
<1>1. IInv => FirstRunKnown
  <2> SUFFICES ASSUME IInv, NEW w \in Workers, Inside(w) PROVE firstRun <=> runs = 1
    BY DEF FirstRunKnown
  <2>1. ~on
    BY DEF IInv, OneForm, CounterTypeOK
  <2>2. QED
    BY <2>1, CounterAssumption DEF IInv, RunBudget, FirstIsUnpaid, CounterTypeOK
<1>2. QED
  BY <1>1, IInvHolds, PTL

\* Both together, as the runs check them: the count of the runs and the answer
\* of is_first_run are right at every moment.
THEOREM RunsToldRight == CounterSpec => []RunsTold
<1>1. RunBudget /\ FirstRunKnown => RunsTold
  BY DEF RunsTold
<1>2. QED
  BY <1>1, RunsAddUp, FirstRunTold, PTL

-----------------------------------------------------------------------------
(* The stage *)

\* The actions of MllaStage are steps of the counter, or leave it alone.
LEMMA CounterUse == [Next]_vars => [CounterNext]_counterVars
<1> SUFFICES ASSUME [Next]_vars PROVE [CounterNext]_counterVars
  OBVIOUS
<1>1. ASSUME NEW w \in Workers, Load(w) PROVE UNCHANGED counterVars
  BY <1>1, Zenon DEF Load, ListSeeds, Claim, ClaimFails, Loaded, RunBatch, AllLoaded
<1>2. ASSUME NEW w \in Workers, Collect(w) PROVE UNCHANGED counterVars
  BY <1>2, Zenon DEF Collect, FindReport, NoReport, TakeReport, ApplyReport, DropReport,
       LoadScripts, ListMarkers, Unmark, AllUnmarked, ReportFrame
<1>3. ASSUME NEW w \in Workers, Agents(w) PROVE UNCHANGED counterVars
  BY <1>3, Zenon DEF Agents, AgentsEnd, Write, Announce
<1>4. ASSUME NEW w \in Workers, Perform(w) PROVE CounterStep(w) \/ UNCHANGED counterVars
  BY <1>4, Zenon DEF Perform, Skip, LookOn, Enter, Spawn, Poll, Join, SetInterval, BlobGen, CounterStep
<1>5. CASE Sleeper
  BY <1>5, Zenon DEF Sleeper, CounterNext
<1>6. CASE UNCHANGED vars
  BY <1>6, Zenon DEF vars
<1>7. ASSUME NEW w \in Workers, Worker(w) \/ Agents(w) PROVE CounterNext \/ UNCHANGED counterVars
  BY <1>1, <1>2, <1>3, <1>4, <1>7, Zenon DEF Worker, CounterNext
<1>8. QED
  BY <1>5, <1>6, <1>7, Zenon DEF Next

\* The stage of the agents implements StageCounter: what is proved of the
\* counter holds of the workers that run MllaStage (need_run, set_interval in
\* perform).
THEOREM UsesCounter == Spec => CounterSpec
<1>1. Init => CounterInit
  BY DEF Init
<1>2. QED
  BY <1>1, CounterUse, PTL DEF Spec, CounterSpec

-----------------------------------------------------------------------------
(* TypeOK is inductive. *)

LEMMA InitType == Init => TypeOK
<1> SUFFICES ASSUME Init PROVE TypeOK
  OBVIOUS
<1>1. CounterTypeOK
  BY InitIInv DEF Init, IInv
<1>2. QED
  BY <1>1 DEF Init, TypeOK, Files, Artefacts, Inputs

LEMMA StepType ==
  ASSUME TypeOK, [Next]_vars, CounterTypeOK'
  PROVE  TypeOK'
<1>1. ASSUME NEW w \in Workers, ListSeeds(w) PROVE TypeOK'
  BY <1>1 DEF ListSeeds, At, diskVars, workVars, TypeOK, Artefacts, Files, Inputs
<1>2. ASSUME NEW w \in Workers, Claim(w) PROVE TypeOK'
  BY <1>2 DEF Claim, At, diskVars, workVars, TypeOK, Artefacts, Files, Inputs
<1>3. ASSUME NEW w \in Workers, ClaimFails(w) PROVE TypeOK'
  BY <1>3 DEF ClaimFails, At, diskVars, workVars, TypeOK, Artefacts, Files, Inputs
<1>4. ASSUME NEW w \in Workers, Loaded(w) PROVE TypeOK'
  BY <1>4 DEF Loaded, At, diskVars, workVars, TypeOK, Artefacts, Files, Inputs
<1>5. ASSUME NEW w \in Workers, RunBatch(w) PROVE TypeOK'
  BY <1>5 DEF RunBatch, At, diskVars, workVars, TypeOK, Artefacts, Files, Inputs
<1>6. ASSUME NEW w \in Workers, AllLoaded(w) PROVE TypeOK'
  BY <1>6 DEF AllLoaded, At, diskVars, workVars, TypeOK, Artefacts, Files, Inputs, AfterLoad
<1>7. ASSUME NEW w \in Workers, Skip(w) PROVE TypeOK'
  BY <1>7 DEF Skip, At, diskVars, workVars, TypeOK, Artefacts, Files, Inputs
<1>8. ASSUME NEW w \in Workers, LookOn(w) PROVE TypeOK'
  BY <1>8 DEF LookOn, At, diskVars, workVars, TypeOK, Artefacts, Files, Inputs
<1>9. ASSUME NEW w \in Workers, Enter(w) PROVE TypeOK'
  BY <1>9 DEF Enter, At, diskVars, workVars, TypeOK, Artefacts, Files, Inputs
<1>10. ASSUME NEW w \in Workers, Spawn(w) PROVE TypeOK'
  BY <1>10 DEF Spawn, At, diskVars, workVars, TypeOK, Artefacts, Files, Inputs
<1>11. ASSUME NEW w \in Workers, Poll(w) PROVE TypeOK'
  BY <1>11 DEF Poll, At, diskVars, workVars, TypeOK, Artefacts, Files, Inputs
<1>12. ASSUME NEW w \in Workers, Join(w) PROVE TypeOK'
  BY <1>12 DEF Join, At, diskVars, workVars, TypeOK, Artefacts, Files, Inputs
<1>13. ASSUME NEW w \in Workers, SetInterval(w) PROVE TypeOK'
  BY <1>13 DEF SetInterval, At, diskVars, workVars, TypeOK, Artefacts, Files, Inputs
<1>14. ASSUME NEW w \in Workers, BlobGen(w) PROVE TypeOK'
  BY <1>14 DEF BlobGen, At, diskVars, workVars, TypeOK, Artefacts, Files, Inputs
<1>15. ASSUME NEW w \in Workers, FindReport(w) PROVE TypeOK'
  BY <1>15 DEF FindReport, At, diskVars, workVars, TypeOK, ReportFrame, Artefacts, Files, Inputs
<1>16. ASSUME NEW w \in Workers, NoReport(w) PROVE TypeOK'
  BY <1>16 DEF NoReport, At, diskVars, workVars, TypeOK, ReportFrame, Artefacts, Files, Inputs
<1>17. ASSUME NEW w \in Workers, TakeReport(w) PROVE TypeOK'
  BY <1>17 DEF TakeReport, At, diskVars, workVars, TypeOK, ReportFrame, Artefacts, Files, Inputs
<1>18. ASSUME NEW w \in Workers, ApplyReport(w) PROVE TypeOK'
  <2>1. CASE /\ held[w] \in disk /\ At(w, "apply", "drop")
             /\ applied' = applied \cup {held[w]} /\ UNCHANGED held
    <3>1. applied' \subseteq Reports
      BY <2>1, MllaAssumption DEF TypeOK
    <3>2. pc' = [pc EXCEPT ![w] = "drop"]
      BY <2>1 DEF At
    <3>3. QED
      BY <1>18, <2>1, <3>1, <3>2 DEF ApplyReport, TypeOK, ReportFrame
  <2>2. CASE /\ At(w, "apply", "scripts")
             /\ held' = [held EXCEPT ![w] = Nothing] /\ UNCHANGED applied
    BY <1>18, <2>2 DEF ApplyReport, At, TypeOK, ReportFrame
  <2>3. QED
    BY <1>18, <2>1, <2>2 DEF ApplyReport
<1>19. ASSUME NEW w \in Workers, DropReport(w) PROVE TypeOK'
  BY <1>19 DEF DropReport, At, diskVars, workVars, TypeOK, ReportFrame, Artefacts, Files, Inputs
<1>20. ASSUME NEW w \in Workers, LoadScripts(w) PROVE TypeOK'
  BY <1>20 DEF LoadScripts, At, diskVars, workVars, TypeOK, Artefacts, Files, Inputs, NewScripts,
                  Loadable
<1>21. ASSUME NEW w \in Workers, ListMarkers(w) PROVE TypeOK'
  BY <1>21 DEF ListMarkers, At, diskVars, workVars, TypeOK, Artefacts, Files, Inputs
<1>22. ASSUME NEW w \in Workers, Unmark(w) PROVE TypeOK'
  BY <1>22 DEF Unmark, At, diskVars, workVars, TypeOK, Artefacts, Files, Inputs
<1>23. ASSUME NEW w \in Workers, AllUnmarked(w) PROVE TypeOK'
  BY <1>23 DEF AllUnmarked, At, diskVars, workVars, TypeOK, Artefacts, Files, Inputs
<1>24. ASSUME NEW w \in Workers, NEW a \in Artefacts, Write(w, a) PROVE TypeOK'
  BY <1>24 DEF Write, diskVars, workVars, TypeOK, Artefacts, Files, Inputs
<1>25. ASSUME NEW w \in Workers, NEW a \in Artefacts, Announce(w, a) PROVE TypeOK'
  BY <1>25 DEF Announce, diskVars, workVars, TypeOK, Artefacts, Files, Inputs
<1>26. ASSUME NEW w \in Workers, AgentsEnd(w) PROVE TypeOK'
  BY <1>26 DEF AgentsEnd, diskVars, workVars, TypeOK, Artefacts, Files, Inputs
<1>27. CASE Sleeper \/ UNCHANGED vars
  BY <1>27 DEF Sleeper, vars, diskVars, workVars, TypeOK
<1>28. QED
  BY <1>1, <1>2, <1>3, <1>4, <1>5, <1>6, <1>7, <1>8, <1>9, <1>10, <1>11, <1>12, <1>13, <1>14, <1>15, <1>16, <1>17, <1>18, <1>19, <1>20, <1>21, <1>22, <1>23, <1>24, <1>25, <1>26, <1>27, Zenon DEF Next, Worker, Agents, Load, Perform, Collect

-----------------------------------------------------------------------------
(* One agents process. *)

Collecting == {"report", "take", "apply", "drop", "scripts", "glob", "unmark", "claim", "run"}

\* A worker with a running agents process has entered under the counter, and
\* goes back to look whether the process has ended before it leaves.
AgentsOf(w) ==
  /\ pc[w] = "cmd" => Inside(w)
  /\ Running(w) => Inside(w) /\ phase[w] = "poll" /\ pc[w] \in Collecting \cup {"poll"}

\* Only the worker itself moves these.
LEMMA OthersStay ==
  ASSUME TypeOK, NEW w \in Workers, NEW v \in Workers, v # w, Worker(w) \/ Agents(w)
  PROVE  /\ cpc'[v] = cpc[v] /\ pc'[v] = pc[v] /\ phase'[v] = phase[v] /\ agents'[v] = agents[v]
<1>1. cpc'[v] = cpc[v]
  <2>1. \/ cpc' = cpc
        \/ \E c \in {"saw", "in", "out", "first"} : cpc' = [cpc EXCEPT ![w] = c]
    BY Zenon DEF Worker, Agents, Load, Collect, Perform, ListSeeds, Claim, ClaimFails, Loaded,
       RunBatch, AllLoaded, FindReport, NoReport, TakeReport, ApplyReport, DropReport, LoadScripts,
       ListMarkers, Unmark, AllUnmarked, ReportFrame, AgentsEnd, Write, Announce, counterVars,
       Skip, LookOn, Enter, Spawn, Poll, Join, SetInterval, BlobGen,
       SeeOn, TakeRun, MissRun, SkipInterval, AtOnce, StartInterval
  <2>2. QED
    BY <2>1 DEF TypeOK, CounterTypeOK
<1>2. pc'[v] = pc[v]
  <2>1. pc' = pc \/ \E c : pc' = [pc EXCEPT ![w] = c]
    BY Zenon DEF Worker, Agents, Load, Collect, Perform, ListSeeds, Claim, ClaimFails, Loaded,
       RunBatch, AllLoaded, FindReport, NoReport, TakeReport, ApplyReport, DropReport, LoadScripts,
       ListMarkers, Unmark, AllUnmarked, AgentsEnd, Write, Announce, At,
       Skip, LookOn, Enter, Spawn, Poll, Join, SetInterval, BlobGen
  <2>2. QED
    BY <2>1 DEF TypeOK
<1>3. phase'[v] = phase[v]
  <2>1. phase' = phase \/ \E c : phase' = [phase EXCEPT ![w] = c]
    BY Zenon DEF Worker, Agents, Load, Collect, Perform, ListSeeds, Claim, ClaimFails, Loaded,
       RunBatch, AllLoaded, FindReport, NoReport, TakeReport, ApplyReport, DropReport, LoadScripts,
       ListMarkers, Unmark, AllUnmarked, ReportFrame, AgentsEnd, Write, Announce,
       Skip, LookOn, Enter, Spawn, Poll, Join, SetInterval, BlobGen
  <2>2. QED
    BY <2>1 DEF TypeOK
<1>4. agents'[v] = agents[v]
  <2>1. agents' = agents \/ \E c : agents' = [agents EXCEPT ![w] = c]
    BY Zenon DEF Worker, Agents, Load, Collect, Perform, ListSeeds, Claim, ClaimFails, Loaded,
       RunBatch, AllLoaded, FindReport, NoReport, TakeReport, ApplyReport, DropReport, LoadScripts,
       ListMarkers, Unmark, AllUnmarked, ReportFrame, AgentsEnd, Write, Announce,
       Skip, LookOn, Enter, Spawn, Poll, Join, SetInterval, BlobGen
  <2>2. QED
    BY <2>1 DEF TypeOK
<1>5. QED
  BY <1>1, <1>2, <1>3, <1>4

LEMMA OwnAgents ==
  ASSUME TypeOK, NEW w \in Workers, AgentsOf(w), Worker(w) \/ Agents(w)
  PROVE  AgentsOf(w)'
<1>0. /\ DOMAIN pc = Workers /\ DOMAIN phase = Workers /\ DOMAIN agents = Workers
      /\ DOMAIN cpc = Workers /\ phase[w] \in {"start", "poll", "final"}
  BY DEF TypeOK, CounterTypeOK
<1>1. CASE Load(w)
  <2>1. UNCHANGED <<cpc, phase, agents>>
    BY <1>1, Zenon DEF Load, ListSeeds, Claim, ClaimFails, Loaded, RunBatch, AllLoaded, counterVars
  <2>2. /\ pc'[w] # "cmd" /\ pc[w] \in {"seeds", "claim", "run"}
        /\ pc'[w] \in {"claim", "run"} \/ pc'[w] = AfterLoad[phase[w]]
    BY <1>0, <1>1 DEF Load, ListSeeds, Claim, ClaimFails, Loaded, RunBatch, AllLoaded, At, AfterLoad
  <2>3. AfterLoad["poll"] = "poll"
    BY DEF AfterLoad
  <2>4. QED
    BY <2>1, <2>2, <2>3 DEF AgentsOf, Running, Inside, Collecting
<1>2. CASE Collect(w)
  <2>1. UNCHANGED <<cpc, phase, agents>>
    BY <1>2, Zenon DEF Collect, FindReport, NoReport, TakeReport, ApplyReport, DropReport,
       LoadScripts, ListMarkers, Unmark, AllUnmarked, ReportFrame, counterVars
  <2>2. pc'[w] \in Collecting
    BY <1>0, <1>2 DEF Collect, FindReport, NoReport, TakeReport, ApplyReport, DropReport,
       LoadScripts, ListMarkers, Unmark, AllUnmarked, At, Collecting
  <2>3. QED
    BY <2>1, <2>2 DEF AgentsOf, Running, Inside, Collecting
<1>3. CASE Skip(w) \/ LookOn(w) \/ SetInterval(w) \/ BlobGen(w)
  <2>1. agents' = agents /\ pc[w] \in {"perform", "end", "blobgen"} /\ pc'[w] # "cmd"
    BY <1>0, <1>3 DEF Skip, LookOn, SetInterval, BlobGen, At
  <2>2. ~Running(w)'
    BY <2>1 DEF AgentsOf, Running, Collecting
  <2>3. QED
    BY <2>1, <2>2 DEF AgentsOf
<1>4. CASE Enter(w)
  <2>1. agents' = agents /\ pc[w] = "perform" /\ cpc'[w] = "in"
    BY <1>0, <1>4 DEF Enter, At, TakeRun
  <2>2. ~Running(w)'
    BY <2>1 DEF AgentsOf, Running, Collecting
  <2>3. QED
    BY <2>1, <2>2 DEF AgentsOf, Inside
<1>5. CASE Spawn(w)
  <2>1. pc[w] = "cmd" /\ pc'[w] = "poll" /\ phase'[w] = "poll" /\ cpc' = cpc
    BY <1>0, <1>5 DEF Spawn, At, counterVars
  <2>2. QED
    BY <2>1 DEF AgentsOf, Inside
<1>6. CASE Poll(w)
  <2>1. pc'[w] = "report" /\ UNCHANGED <<cpc, phase, agents>>
    BY <1>0, <1>6 DEF Poll, At, counterVars
  <2>2. QED
    BY <2>1 DEF AgentsOf, Inside, Running, Collecting
<1>7. CASE Join(w)
  <2>1. pc'[w] = "end" /\ agents[w] = "ended" /\ agents' = agents
    BY <1>0, <1>7 DEF Join, At
  <2>2. QED
    BY <2>1 DEF AgentsOf, Running
<1>8. CASE Agents(w)
  <2>1. /\ UNCHANGED <<cpc, phase, pc>>
        /\ agents' = agents \/ agents'[w] = "ended"
    BY <1>0, <1>8 DEF Agents, AgentsEnd, Write, Announce, counterVars
  <2>2. QED
    BY <2>1 DEF AgentsOf, Inside, Running
<1>9. QED
  BY <1>1, <1>2, <1>3, <1>4, <1>5, <1>6, <1>7, <1>8 DEF Worker, Perform

AInv == TypeOK /\ IInv /\ \A w \in Workers : AgentsOf(w)

LEMMA InitAInv == Init => AInv
<1> SUFFICES ASSUME Init PROVE AInv
  OBVIOUS
<1>1. \A w \in Workers : AgentsOf(w)
  BY DEF Init, AgentsOf, Running
<1>2. IInv
  BY InitIInv DEF Init
<1>3. QED
  BY <1>1, <1>2, InitType DEF AInv

LEMMA StepAInv == AInv /\ [Next]_vars => AInv'
<1> SUFFICES ASSUME AInv, [Next]_vars PROVE AInv'
  OBVIOUS
<1>1. IInv'
  BY CounterUse, NextIInv DEF AInv
<1>2. TypeOK'
  BY <1>1, StepType DEF AInv, IInv
<1>3. ASSUME NEW w \in Workers, Worker(w) \/ Agents(w), NEW v \in Workers
      PROVE  AgentsOf(v)'
  <2>1. CASE v = w
    BY <1>3, <2>1, OwnAgents DEF AInv
  <2>2. CASE v # w
    <3>1. cpc'[v] = cpc[v] /\ pc'[v] = pc[v] /\ phase'[v] = phase[v] /\ agents'[v] = agents[v]
      BY <1>3, <2>2, OthersStay DEF AInv
    <3>2. QED
      BY <3>1 DEF AInv, AgentsOf, Running, Inside
  <2>3. QED
    BY <2>1, <2>2
<1>4. CASE Sleeper \/ UNCHANGED vars
  <2>1. UNCHANGED <<cpc, pc, phase, agents>>
    BY <1>4, Zenon DEF Sleeper, IntervalOver, vars, counterVars
  <2>2. \A v \in Workers : AgentsOf(v)'
    BY <2>1 DEF AInv, AgentsOf, Running, Inside
  <2>3. QED
    BY <1>1, <1>2, <2>2 DEF AInv
<1>5. QED
  BY <1>1, <1>2, <1>3, <1>4 DEF Next, AInv

LEMMA AInvHolds == Spec => []AInv
<1>1. QED
  BY InitAInv, StepAInv, PTL DEF Spec

\* Every variable keeps its type, the counter's included.
THEOREM TypeCorrect == Spec => []TypeOK
<1>1. AInv => TypeOK
  BY DEF AInv
<1>2. QED
  BY AInvHolds, <1>1, PTL

\* However many workers look at the counter at once, and although the next run
\* may begin before the last collection of the one before it is over, no two
\* agents processes run at the same time (need_run, set_interval in perform).
THEOREM AgentsExclude == Spec => []OneAgents
<1>1. AInv => OneAgents
  BY DEF AInv, IInv, OneRunner, AgentsOf, OneAgents
<1>2. QED
  BY AInvHolds, <1>1, PTL

-----------------------------------------------------------------------------
(* Nothing is lost or run twice. *)

\* An input is on disk, in one block, or has been run, and a blob is none of
\* these before it is written.
Claimed ==
  \A f \in Inputs :
    /\ f \in disk \/ f \in Blobs \ written => executed[f] = 0 /\ \A w \in Workers : f \notin block[w]
    /\ executed[f] # 0 => executed[f] = 1 /\ \A w \in Workers : f \notin block[w]
    /\ \A v, w \in Workers : f \in block[v] /\ f \in block[w] => v = w

\* Nobody takes a file away before it is announced.
Marked == marked \subseteq announced /\ written \ announced \subseteq disk

Listed ==
  \A w \in Workers :
    /\ pc[w] = "seeds" => list[w] = {}
    /\ pc[w] # "unmark" => names[w] = {}
    /\ names[w] \subseteq announced /\ list[w] \cap Blobs \subseteq announced

\* A worker holds a report while it is at it, and removes it last.
Held ==
  \A w \in Workers :
    /\ pc[w] \notin {"take", "apply", "drop"} => held[w] = Nothing
    /\ pc[w] = "drop" => held[w] \in applied
    /\ held[w] \in announced \cup {Nothing}

KInv == Claimed /\ Marked /\ Listed /\ Held /\ InputKept /\ ReportKept

LEMMA InitKInv == Init => KInv
<1> SUFFICES ASSUME Init PROVE KInv
  OBVIOUS
<1> USE MllaAssumption DEF Init, Inputs, Artefacts, Files
<1>1. Claimed /\ Marked
  BY DEF Claimed, Marked
<1>2. Listed /\ Held
  BY DEF Listed, Held
<1>3. InputKept
  BY DEF InputKept
<1>4. ReportKept
  BY DEF ReportKept
<1>5. QED
  BY <1>1, <1>2, <1>3, <1>4 DEF KInv

\* Nothing but the place of a worker changes.
LEMMA PlaceMoves ==
  ASSUME KInv, NEW w \in Workers,
         UNCHANGED <<disk, marked, written, announced, names, list, block, held, executed, applied>>,
         \A v \in Workers \ {w} : pc'[v] = pc[v],
         pc[w] \notin {"seeds", "take", "apply", "drop"}, pc[w] = "unmark" => names[w] = {},
         pc'[w] \notin {"seeds", "drop"}
  PROVE  KInv'
<1>1. Claimed' /\ Marked'
  BY DEF KInv, Claimed, Marked
<1>2. Listed'
  BY DEF KInv, Listed
<1>3. Held'
  BY DEF KInv, Held
<1>4. InputKept'
  BY DEF KInv, InputKept
<1>5. ReportKept'
  BY DEF KInv, ReportKept
<1>6. QED
  BY <1>1, <1>2, <1>3, <1>4, <1>5 DEF KInv

\* What a file is, by where it lies.
LEMMA Kinds ==
  /\ Seeds \subseteq Inputs /\ Blobs \subseteq Inputs /\ Inputs \subseteq Seeds \cup Blobs
  /\ Inputs \cap Reports = {} /\ Inputs \cap Scripts = {} /\ Scripts \cap Reports = {}
  /\ Nothing \notin Inputs /\ Nothing \notin Reports /\ Seeds \cap Blobs = {}
<1>1. QED
  BY MllaAssumption DEF Inputs, Files, Artefacts

(* The workers load. *)

LEMMA ListSeedsKeeps ==
  ASSUME TypeOK, KInv, NEW w \in Workers, ListSeeds(w)
  PROVE  KInv'
<1>1. /\ UNCHANGED <<disk, marked, written, announced, names, block, held, executed, applied>>
      /\ pc[w] = "seeds" /\ pc'[w] = "claim" /\ list'[w] = Seeds \cap disk /\ list[w] = {}
      /\ \A v \in Workers \ {w} : pc'[v] = pc[v] /\ list'[v] = list[v]
  BY DEF ListSeeds, At, TypeOK, diskVars, KInv, Listed
<1>2. Claimed' /\ Marked'
  BY <1>1 DEF KInv, Claimed, Marked
<1>3. Listed'
  BY <1>1, Kinds DEF KInv, Listed
<1>4. Held'
  BY <1>1 DEF KInv, Held
<1>5. InputKept'
  BY <1>1 DEF KInv, InputKept
<1>6. ReportKept'
  BY <1>1 DEF KInv, ReportKept
<1>7. QED
  BY <1>2, <1>3, <1>4, <1>5, <1>6 DEF KInv

LEMMA ClaimKeeps ==
  ASSUME TypeOK, KInv, NEW w \in Workers, Claim(w)
  PROVE  KInv'
<1>1. PICK f \in list[w] :
         /\ f \in disk /\ disk' = disk \ {f}
         /\ block' = [block EXCEPT ![w] = @ \cup {f}]
         /\ list' = [list EXCEPT ![w] = @ \ {f}]
  BY DEF Claim
<1>2. /\ UNCHANGED <<marked, written, announced, pc, names, held, executed, applied>>
      /\ f \in Inputs
      /\ block'[w] = block[w] \cup {f} /\ list'[w] = list[w] \ {f}
      /\ \A v \in Workers \ {w} : block'[v] = block[v] /\ list'[v] = list[v]
  BY <1>1 DEF Claim, TypeOK
<1>3. executed[f] = 0 /\ \A v \in Workers : f \notin block[v]
  BY <1>1, <1>2 DEF KInv, Claimed
<1>4. f \in Blobs => f \in announced
  BY <1>1 DEF KInv, Listed
<1>5. Claimed'
  <2>1. f \in Blobs => f \in written
    BY <1>4 DEF TypeOK
  <2>2. QED
    BY <1>1, <1>2, <1>3, <2>1 DEF KInv, Claimed
<1>6. Marked'
  BY <1>1, <1>2, <1>4, Kinds, MllaAssumption DEF KInv, Marked, TypeOK, Artefacts, Inputs
<1>7. Listed'
  BY <1>2 DEF KInv, Listed
<1>8. Held'
  BY <1>2 DEF KInv, Held
<1>9. InputKept'
  BY <1>1, <1>2 DEF KInv, InputKept
<1>10. ReportKept'
  BY <1>1, <1>2, Kinds DEF KInv, ReportKept
<1>11. QED
  BY <1>5, <1>6, <1>7, <1>8, <1>9, <1>10 DEF KInv

LEMMA ClaimFailsKeeps ==
  ASSUME TypeOK, KInv, NEW w \in Workers, ClaimFails(w)
  PROVE  KInv'
<1>1. PICK f \in list[w] : f \notin disk /\ list' = [list EXCEPT ![w] = @ \ {f}]
  BY DEF ClaimFails
<1>2. /\ UNCHANGED <<disk, marked, written, announced, pc, names, block, held, executed, applied>>
      /\ list'[w] = list[w] \ {f}
      /\ \A v \in Workers \ {w} : list'[v] = list[v]
  BY <1>1 DEF ClaimFails, TypeOK, diskVars
<1>3. Claimed' /\ Marked'
  BY <1>2 DEF KInv, Claimed, Marked
<1>4. Listed'
  BY <1>2 DEF KInv, Listed
<1>5. Held'
  BY <1>2 DEF KInv, Held
<1>6. InputKept'
  BY <1>1, <1>2 DEF KInv, InputKept
<1>7. ReportKept'
  BY <1>2 DEF KInv, ReportKept
<1>8. QED
  BY <1>3, <1>4, <1>5, <1>6, <1>7 DEF KInv

LEMMA RunBatchKeeps ==
  ASSUME TypeOK, KInv, NEW w \in Workers, RunBatch(w)
  PROVE  KInv'
<1>1. /\ UNCHANGED <<disk, marked, written, announced, names, list, held, applied>>
      /\ pc[w] = "run" /\ pc'[w] = "claim" /\ block'[w] = {}
      /\ \A v \in Workers \ {w} : pc'[v] = pc[v] /\ block'[v] = block[v]
      /\ \A f \in Inputs : executed'[f] = executed[f] + (IF f \in block[w] THEN 1 ELSE 0)
  BY DEF RunBatch, At, TypeOK, diskVars
<1>2. \A f \in Inputs : executed[f] \in Nat
  BY DEF TypeOK
<1>3. \A f \in block[w] : executed'[f] = 1
  BY <1>1 DEF KInv, Claimed, TypeOK
<1>4. \A f \in Inputs \ block[w] : executed'[f] = executed[f]
  BY <1>1, <1>2
<1>5. Claimed'
  <2> SUFFICES ASSUME NEW f \in Inputs
               PROVE  /\ f \in disk \/ f \in Blobs \ written =>
                           executed'[f] = 0 /\ \A v \in Workers : f \notin block'[v]
                      /\ executed'[f] # 0 =>
                           executed'[f] = 1 /\ \A v \in Workers : f \notin block'[v]
                      /\ \A u, v \in Workers : f \in block'[u] /\ f \in block'[v] => u = v
    BY <1>1 DEF Claimed
  <2>1. \A v \in Workers : f \in block'[v] => f \in block[v] /\ v # w
    BY <1>1
  <2>2. CASE f \in block[w]
    BY <1>3, <2>1, <2>2 DEF KInv, Claimed
  <2>3. CASE f \notin block[w]
    BY <1>4, <2>1, <2>3 DEF KInv, Claimed
  <2>4. QED
    BY <2>2, <2>3
<1>6. Marked' /\ ReportKept'
  BY <1>1 DEF KInv, Marked, ReportKept
<1>7. Listed'
  BY <1>1 DEF KInv, Listed
<1>8. Held'
  BY <1>1 DEF KInv, Held
<1>9. InputKept'
  <2> SUFFICES ASSUME NEW f \in Seeds \cup (Blobs \cap announced)
               PROVE  \/ executed'[f] > 0
                      \/ \E v \in Workers : f \in block'[v]
                      \/ /\ f \in disk
                         /\ \/ f \in marked
                            \/ \E v \in Workers : f \in Seeds /\ pc'[v] = "seeds"
                            \/ \E v \in Workers : f \in names[v] \cup list[v]
    BY <1>1 DEF InputKept
  <2>1. f \in Inputs
    BY Kinds
  <2>2. CASE f \in block[w]
    BY <1>3, <2>2
  <2>3. CASE f \notin block[w]
    BY <1>1, <1>4, <2>1, <2>3 DEF KInv, InputKept
  <2>4. QED
    BY <2>2, <2>3
<1>10. QED
  BY <1>5, <1>6, <1>7, <1>8, <1>9 DEF KInv

(* The workers collect. *)

LEMMA FindReportKeeps ==
  ASSUME TypeOK, KInv, NEW w \in Workers, FindReport(w)
  PROVE  KInv'
<1>1. PICK r \in Reports \cap disk \cap marked : held' = [held EXCEPT ![w] = r]
  BY DEF FindReport
<1>2. /\ UNCHANGED <<disk, marked, written, announced, names, list, block, executed, applied>>
      /\ pc[w] = "report" /\ pc'[w] = "take" /\ held[w] = Nothing /\ held'[w] = r
      /\ \A v \in Workers \ {w} : pc'[v] = pc[v] /\ held'[v] = held[v]
  BY <1>1 DEF FindReport, ReportFrame, At, TypeOK, KInv, Held
<1>3. Claimed' /\ Marked'
  BY <1>2 DEF KInv, Claimed, Marked
<1>4. Listed'
  BY <1>2 DEF KInv, Listed
<1>5. Held'
  BY <1>1, <1>2 DEF KInv, Held, Marked
<1>6. InputKept'
  BY <1>2 DEF KInv, InputKept
<1>7. ReportKept'
  BY <1>2, Kinds DEF KInv, ReportKept
<1>8. QED
  BY <1>3, <1>4, <1>5, <1>6, <1>7 DEF KInv

LEMMA TakeReportKeeps ==
  ASSUME TypeOK, KInv, NEW w \in Workers, TakeReport(w)
  PROVE  KInv'
<1>1. /\ UNCHANGED <<disk, written, announced, names, list, block, held, executed, applied>>
      /\ pc[w] = "take" /\ pc'[w] = "apply" /\ marked' = marked \ {held[w]}
      /\ \A v \in Workers \ {w} : pc'[v] = pc[v]
      /\ held[w] \notin Inputs
  BY Kinds DEF TakeReport, ReportFrame, At, TypeOK
<1>2. Claimed' /\ Marked'
  BY <1>1 DEF KInv, Claimed, Marked
<1>3. Listed'
  BY <1>1 DEF KInv, Listed
<1>4. Held'
  BY <1>1 DEF KInv, Held
<1>5. InputKept'
  BY <1>1, Kinds DEF KInv, InputKept
<1>6. ReportKept'
  BY <1>1 DEF KInv, ReportKept
<1>7. QED
  BY <1>2, <1>3, <1>4, <1>5, <1>6 DEF KInv

LEMMA ApplyReportKeeps ==
  ASSUME TypeOK, KInv, NEW w \in Workers, ApplyReport(w)
  PROVE  KInv'
<1>1. /\ UNCHANGED <<disk, marked, written, announced, names, list, block, executed>>
      /\ pc[w] = "apply" /\ \A v \in Workers \ {w} : pc'[v] = pc[v]
  BY DEF ApplyReport, ReportFrame, At, TypeOK
<1>2. Claimed' /\ Marked'
  BY <1>1 DEF KInv, Claimed, Marked
<1>3. CASE held[w] \in disk
  <2>1. /\ pc'[w] = "drop" /\ applied' = applied \cup {held[w]} /\ held' = held
    BY <1>3 DEF ApplyReport, At, TypeOK
  <2>2. Listed'
    BY <1>1, <2>1 DEF KInv, Listed
  <2>3. Held'
    BY <1>1, <2>1 DEF KInv, Held
  <2>4. InputKept'
    BY <1>1, <2>1 DEF KInv, InputKept
  <2>5. ReportKept'
    BY <1>1, <2>1 DEF KInv, ReportKept
  <2>6. QED
    BY <1>2, <2>2, <2>3, <2>4, <2>5 DEF KInv
<1>4. CASE held[w] \notin disk
  <2>1. /\ pc'[w] = "scripts" /\ applied' = applied /\ held'[w] = Nothing
        /\ \A v \in Workers \ {w} : held'[v] = held[v]
    BY <1>4 DEF ApplyReport, At, TypeOK
  <2>2. Listed'
    BY <1>1, <2>1 DEF KInv, Listed
  <2>3. Held'
    BY <1>1, <2>1 DEF KInv, Held
  <2>4. InputKept'
    BY <1>1, <2>1 DEF KInv, InputKept
  <2>5. ReportKept'
    BY <1>1, <1>4, <2>1 DEF KInv, ReportKept
  <2>6. QED
    BY <1>2, <2>2, <2>3, <2>4, <2>5 DEF KInv
<1>5. QED
  BY <1>3, <1>4

LEMMA DropReportKeeps ==
  ASSUME TypeOK, KInv, NEW w \in Workers, DropReport(w)
  PROVE  KInv'
<1>1. /\ UNCHANGED <<marked, written, announced, names, list, block, executed, applied>>
      /\ pc[w] = "drop" /\ pc'[w] = "scripts"
      /\ disk' = disk \ {held[w]} /\ held'[w] = Nothing
      /\ \A v \in Workers \ {w} : pc'[v] = pc[v] /\ held'[v] = held[v]
      /\ held[w] \notin Inputs
  BY Kinds DEF DropReport, ReportFrame, At, TypeOK
<1>2. held[w] \in applied /\ held[w] \in announced
  BY <1>1, Kinds DEF KInv, Held, TypeOK
<1>3. Claimed' /\ Marked'
  BY <1>1, <1>2 DEF KInv, Claimed, Marked
<1>4. Listed'
  BY <1>1 DEF KInv, Listed
<1>5. Held'
  BY <1>1 DEF KInv, Held
<1>6. InputKept'
  BY <1>1, Kinds DEF KInv, InputKept
<1>7. ReportKept'
  BY <1>1, <1>2 DEF KInv, ReportKept
<1>8. QED
  BY <1>3, <1>4, <1>5, <1>6, <1>7 DEF KInv

LEMMA LoadScriptsKeeps ==
  ASSUME TypeOK, KInv, NEW w \in Workers, LoadScripts(w)
  PROVE  KInv'
<1>1. /\ UNCHANGED <<written, announced, names, list, block, held, executed, applied>>
      /\ pc[w] = "scripts" /\ pc'[w] = "glob"
      /\ disk' = disk \ Loadable /\ marked' = marked \ NewScripts
      /\ \A v \in Workers \ {w} : pc'[v] = pc[v]
  BY DEF LoadScripts, At, TypeOK
<1>2. /\ NewScripts \cap Inputs = {} /\ NewScripts \cap Reports = {}
      /\ NewScripts \subseteq marked /\ Loadable \subseteq NewScripts
  BY Kinds DEF NewScripts, Loadable
<1>3. Claimed' /\ Marked'
  BY <1>1, <1>2 DEF KInv, Claimed, Marked
<1>4. Listed'
  BY <1>1 DEF KInv, Listed
<1>5. Held'
  BY <1>1 DEF KInv, Held
<1>6. InputKept'
  BY <1>1, <1>2, Kinds DEF KInv, InputKept
<1>7. ReportKept'
  BY <1>1, <1>2 DEF KInv, ReportKept
<1>8. QED
  BY <1>3, <1>4, <1>5, <1>6, <1>7 DEF KInv

LEMMA ListMarkersKeeps ==
  ASSUME TypeOK, KInv, NEW w \in Workers, ListMarkers(w)
  PROVE  KInv'
<1>1. /\ UNCHANGED <<disk, marked, written, announced, list, block, held, executed, applied>>
      /\ pc[w] = "glob" /\ pc'[w] = "unmark"
      /\ names[w] = {} /\ names'[w] = Blobs \cap marked
      /\ \A v \in Workers \ {w} : pc'[v] = pc[v] /\ names'[v] = names[v]
  BY DEF ListMarkers, At, TypeOK, diskVars, KInv, Listed
<1>2. Claimed' /\ Marked'
  BY <1>1 DEF KInv, Claimed, Marked
<1>3. Listed'
  BY <1>1 DEF KInv, Listed, Marked
<1>4. Held'
  BY <1>1 DEF KInv, Held
<1>5. InputKept'
  BY <1>1 DEF KInv, InputKept
<1>6. ReportKept'
  BY <1>1 DEF KInv, ReportKept
<1>7. QED
  BY <1>2, <1>3, <1>4, <1>5, <1>6 DEF KInv

LEMMA UnmarkKeeps ==
  ASSUME TypeOK, KInv, NEW w \in Workers, Unmark(w)
  PROVE  KInv'
<1>1. PICK b \in names[w] :
         /\ marked' = marked \ {b}
         /\ names' = [names EXCEPT ![w] = @ \ {b}]
         /\ list' = [list EXCEPT ![w] = @ \cup ({b} \cap disk)]
  BY DEF Unmark
<1>2. /\ UNCHANGED <<disk, written, announced, pc, block, held, executed, applied>>
      /\ pc[w] = "unmark" /\ b \in Blobs /\ b \in announced
      /\ names'[w] = names[w] \ {b} /\ list'[w] = list[w] \cup ({b} \cap disk)
      /\ \A v \in Workers \ {w} : names'[v] = names[v] /\ list'[v] = list[v]
  BY <1>1 DEF Unmark, TypeOK, KInv, Listed
<1>3. Claimed' /\ Marked'
  BY <1>1, <1>2 DEF KInv, Claimed, Marked
<1>4. Listed'
  BY <1>2 DEF KInv, Listed
<1>5. Held'
  BY <1>2 DEF KInv, Held
<1>6. InputKept'
  BY <1>1, <1>2 DEF KInv, InputKept
<1>7. ReportKept'
  BY <1>1, <1>2, Kinds DEF KInv, ReportKept
<1>8. QED
  BY <1>3, <1>4, <1>5, <1>6, <1>7 DEF KInv

(* The agents write. *)

LEMMA WriteKeeps ==
  ASSUME TypeOK, KInv, NEW w \in Workers, NEW a \in Artefacts, Write(w, a)
  PROVE  KInv'
<1>1. /\ UNCHANGED <<marked, announced, pc, names, list, block, held, executed, applied>>
      /\ a \notin written /\ disk' = disk \cup {a} /\ written' = written \cup {a}
  BY DEF Write, workVars
<1>2. a \in Inputs => a \in Blobs
  BY MllaAssumption DEF Inputs, Artefacts
<1>3. Claimed' /\ Marked'
  BY <1>1, <1>2 DEF KInv, Claimed, Marked
<1>4. Listed' /\ Held'
  BY <1>1 DEF KInv, Listed, Held
<1>5. InputKept'
  BY <1>1 DEF KInv, InputKept
<1>6. ReportKept'
  BY <1>1 DEF KInv, ReportKept
<1>7. QED
  BY <1>3, <1>4, <1>5, <1>6 DEF KInv

LEMMA AnnounceKeeps ==
  ASSUME TypeOK, KInv, NEW w \in Workers, NEW a \in Artefacts, Announce(w, a)
  PROVE  KInv'
<1>1. /\ UNCHANGED <<disk, written, pc, names, list, block, held, executed, applied>>
      /\ a \in written \ announced /\ marked' = marked \cup {a} /\ announced' = announced \cup {a}
  BY DEF Announce, workVars
<1>2. a \in disk
  BY <1>1 DEF KInv, Marked
<1>3. Claimed' /\ Marked'
  BY <1>1 DEF KInv, Claimed, Marked
<1>4. Listed'
  BY <1>1 DEF KInv, Listed
<1>5. Held'
  BY <1>1 DEF KInv, Held
<1>6. InputKept'
  BY <1>1, <1>2 DEF KInv, InputKept
<1>7. ReportKept'
  BY <1>1, <1>2 DEF KInv, ReportKept
<1>8. QED
  BY <1>3, <1>4, <1>5, <1>6, <1>7 DEF KInv

\* The actions that move a worker from one place to another.
Moves(w) ==
  \/ Loaded(w) \/ AllLoaded(w) \/ NoReport(w) \/ AllUnmarked(w)
  \/ Skip(w) \/ LookOn(w) \/ Enter(w) \/ Spawn(w) \/ Poll(w) \/ Join(w)
  \/ SetInterval(w) \/ BlobGen(w) \/ AgentsEnd(w)

LEMMA MovesKeep ==
  ASSUME TypeOK, KInv, NEW w \in Workers, Moves(w)
  PROVE  KInv' \/ UNCHANGED <<pc, disk, marked, written, announced, names, list, block, held,
                             executed, applied>>
<1>1. UNCHANGED <<disk, marked, written, announced, names, list, block, held, executed, applied>>
  BY Zenon DEF Moves, Loaded, AllLoaded, NoReport, ReportFrame, AllUnmarked, Skip, LookOn, Enter,
     Spawn, Poll, Join, SetInterval, BlobGen, AgentsEnd, diskVars, workVars
<1>2. \/ pc' = pc
      \/ /\ \A v \in Workers \ {w} : pc'[v] = pc[v]
         /\ pc[w] \notin {"seeds", "take", "apply", "drop"} /\ (pc[w] = "unmark" => names[w] = {})
         /\ pc'[w] \notin {"seeds", "drop"}
  <2>0. pc \in [Workers -> {"seeds", "perform", "cmd", "poll", "end", "report", "take", "apply",
                            "drop", "scripts", "glob", "unmark", "claim", "run", "blobgen"}]
        /\ AfterLoad[phase[w]] \in {"perform", "poll", "blobgen"}
    BY DEF TypeOK, AfterLoad
  <2>1. CASE Loaded(w) \/ AllLoaded(w)
    BY <2>0, <2>1 DEF Loaded, AllLoaded, At
  <2>2. CASE NoReport(w) \/ AllUnmarked(w)
    BY <2>0, <2>2 DEF NoReport, AllUnmarked, At
  <2>3. CASE Skip(w) \/ Enter(w) \/ Spawn(w) \/ Poll(w) \/ Join(w) \/ BlobGen(w)
    BY <2>0, <2>3 DEF Skip, Enter, Spawn, Poll, Join, BlobGen, At
  <2>4. CASE LookOn(w) \/ AgentsEnd(w)
    BY <2>4, Zenon DEF LookOn, AgentsEnd
  <2>5. CASE SetInterval(w)
    BY <2>0, <2>5 DEF SetInterval, At
  <2>6. QED
    BY <2>1, <2>2, <2>3, <2>4, <2>5 DEF Moves
<1>3. CASE pc' = pc
  BY <1>1, <1>3, Zenon
<1>4. CASE /\ \A v \in Workers \ {w} : pc'[v] = pc[v]
           /\ pc[w] \notin {"seeds", "take", "apply", "drop"} /\ (pc[w] = "unmark" => names[w] = {})
           /\ pc'[w] \notin {"seeds", "drop"}
  <2>1. KInv'
    BY <1>1, <1>4, PlaceMoves, Zenon
  <2>2. QED
    BY <2>1
<1>5. QED
  BY <1>2, <1>3, <1>4, Zenon

\* Nothing the files and lists are about changes.
LEMMA StandsStill ==
  ASSUME KInv, UNCHANGED <<pc, disk, marked, written, announced, names, list, block, held,
                           executed, applied>>
  PROVE  KInv'
<1>1. Claimed' /\ Marked'
  BY DEF KInv, Claimed, Marked
<1>2. Listed' /\ Held'
  BY DEF KInv, Listed, Held
<1>3. InputKept'
  BY DEF KInv, InputKept
<1>4. ReportKept'
  BY DEF KInv, ReportKept
<1>5. QED
  BY <1>1, <1>2, <1>3, <1>4 DEF KInv

LEMMA StepKInv == TypeOK /\ KInv /\ [Next]_vars => KInv'
<1> SUFFICES ASSUME TypeOK, KInv, [Next]_vars PROVE KInv'
  OBVIOUS
<1>1. ASSUME NEW w \in Workers, Worker(w) PROVE KInv'
  <2>1. CASE Moves(w)
    BY <2>1, MovesKeep, StandsStill
  <2>2. CASE ListSeeds(w) \/ Claim(w) \/ ClaimFails(w) \/ RunBatch(w)
    BY <2>2, ListSeedsKeeps, ClaimKeeps, ClaimFailsKeeps, RunBatchKeeps
  <2>3. CASE FindReport(w) \/ TakeReport(w) \/ ApplyReport(w) \/ DropReport(w)
    BY <2>3, FindReportKeeps, TakeReportKeeps, ApplyReportKeeps, DropReportKeeps
  <2>4. CASE LoadScripts(w) \/ ListMarkers(w) \/ Unmark(w)
    BY <2>4, LoadScriptsKeeps, ListMarkersKeeps, UnmarkKeeps
  <2>5. QED
    BY <1>1, <2>1, <2>2, <2>3, <2>4, Zenon DEF Worker, Load, Collect, Perform, Moves
<1>2. ASSUME NEW w \in Workers, Agents(w) PROVE KInv'
  <2>1. CASE AgentsEnd(w)
    BY <2>1, MovesKeep, StandsStill DEF Moves
  <2>2. CASE \E a \in Artefacts : Write(w, a) \/ Announce(w, a)
    BY <2>2, WriteKeeps, AnnounceKeeps
  <2>3. QED
    BY <1>2, <2>1, <2>2 DEF Agents
<1>3. CASE Sleeper \/ UNCHANGED vars
  <2>1. UNCHANGED <<pc, disk, marked, written, announced, names, list, block, held,
                    executed, applied>>
    BY <1>3, Zenon DEF Sleeper, vars, diskVars, workVars
  <2>2. QED
    BY <2>1, StandsStill
<1>4. QED
  BY <1>1, <1>2, <1>3 DEF Next

\* Whatever the workers, the size of a batch and the number of runs: no input
\* is run twice, and no given seed, announced blob or announced report is lost
\* (load's rename, get_generated_blobs, get_bcda_result).
THEOREM AllIsKept == Spec => []NothingLost
<1>1. TypeOK /\ KInv => NothingLost
  <2> SUFFICES ASSUME TypeOK, KInv PROVE RunOnce
    BY DEF KInv, NothingLost
  <2> SUFFICES ASSUME NEW f \in Inputs
               PROVE  executed[f] + Cardinality({w \in Workers : f \in block[w]}) <= 1
    BY DEF RunOnce
  <2>1. executed[f] \in Nat
    BY DEF TypeOK
  <2>2. CASE \E w \in Workers : f \in block[w]
    <3>1. PICK w \in Workers : f \in block[w]
      BY <2>2
    <3>2. {v \in Workers : f \in block[v]} = {w} /\ executed[f] = 0
      BY <3>1 DEF KInv, Claimed
    <3>3. Cardinality({w}) = 1
      BY FS_Singleton
    <3>4. QED
      BY <3>2, <3>3
  <2>3. CASE \A w \in Workers : f \notin block[w]
    <3>1. {v \in Workers : f \in block[v]} = {} /\ executed[f] <= 1
      BY <2>1, <2>3 DEF KInv, Claimed
    <3>2. QED
      BY <2>1, <3>1, FS_EmptySet
  <2>4. QED
    BY <2>2, <2>3
<1>2. QED
  BY InitKInv, StepKInv, TypeCorrect, <1>1, PTL DEF Spec

=============================================================================
