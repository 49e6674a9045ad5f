------------------------ MODULE CorpusCoverage_proofs ------------------------
(***************************************************************************)
(* How coverage gets into the corpus, and how it is made readable: the     *)
(* worker threads on UniState, for every set of workers, inputs and        *)
(* observers and batches of any size, and the symbolizer a worker asks,    *)
(* for every set of file names and every number of requests.               *)
(*                                                                         *)
(* The argument for the corpus.  An input enters the list of a worker      *)
(* (todo) in the step that makes the observer see its coverage, so that    *)
(* another worker finds it seen; what is listed has no weight yet and is   *)
(* in one list (Weighed).  A seed is new to the first pass only: when the  *)
(* second begins, the first observer has seen the whole batch (Passed), so *)
(* that the entry that is not new has its file or is on the way to it      *)
(* (SeedsTracked).  A crash log is listed in the step that claims it       *)
(* (Submits) and leaves the list when it is submitted (PovsTracked).       *)
(*                                                                         *)
(* The argument for the symbolizer.  A request is in one place at a time,  *)
(* the input pipe, the main thread or the output pipe (Pipes), so that     *)
(* while it is in one of the last two the thread's file is the worker's    *)
(* (Current) and what the thread holds is the coverage of this request     *)
(* (Fresh).  A thread that was given up on may go on to write, but the     *)
(* next request is not taken before it is over (ThreadStages).             *)
(***************************************************************************)
EXTENDS CorpusState, CoverageSymbolizer, TLAPS

(***************************************************************************)
(* Sequences: what Append adds and Tail takes.                             *)
(***************************************************************************)
Elems(s) == {s[j] : j \in 1 .. Len(s)}

\* What the elements of a sequence are known by, and that each occurs once.
Keys(s, key) == {key[e] : e \in Elems(s)}
Distinct(s, key) == \A j, k \in 1 .. Len(s) : key[s[j]] = key[s[k]] => j = k

LEMMA AppendTakes ==
  ASSUME NEW S, NEW s \in Seq(S), NEW e \in S, NEW key
  PROVE  /\ Append(s, e) \in Seq(S) /\ Append(s, e) # <<>>
         /\ Elems(Append(s, e)) = Elems(s) \cup {e}
         /\ Keys(Append(s, e), key) = Keys(s, key) \cup {key[e]}
         /\ Distinct(s, key) /\ key[e] \notin Keys(s, key) => Distinct(Append(s, e), key)
<1>1. /\ Append(s, e) \in Seq(S) /\ Len(Append(s, e)) = Len(s) + 1 /\ Len(s) \in Nat
      /\ \A j \in 1 .. Len(s) : Append(s, e)[j] = s[j]
      /\ Append(s, e)[Len(s) + 1] = e
  OBVIOUS
<1>2. Elems(Append(s, e)) = Elems(s) \cup {e}
  BY <1>1 DEF Elems
<1>3. Keys(Append(s, e), key) = Keys(s, key) \cup {key[e]}
  BY <1>2 DEF Keys
<1>4. ASSUME Distinct(s, key), key[e] \notin Keys(s, key) PROVE Distinct(Append(s, e), key)
  <2>1. \A j \in 1 .. Len(s) : key[s[j]] # key[e]
    BY <1>4 DEF Keys, Elems
  <2>2. QED
    BY <1>1, <1>4, <2>1 DEF Distinct
<1>5. Append(s, e) # <<>>
  BY <1>1
<1>6. QED
  BY <1>1, <1>2, <1>3, <1>4, <1>5

LEMMA TailTakes ==
  ASSUME NEW S, NEW s \in Seq(S), s # <<>>, NEW key
  PROVE  /\ Head(s) \in S /\ Tail(s) \in Seq(S)
         /\ Elems(s) = Elems(Tail(s)) \cup {Head(s)}
         /\ Keys(s, key) = Keys(Tail(s), key) \cup {key[Head(s)]}
         /\ Distinct(s, key) => Distinct(Tail(s), key) /\ key[Head(s)] \notin Keys(Tail(s), key)
<1>1. /\ Head(s) \in S /\ Tail(s) \in Seq(S) /\ Len(s) \in Nat /\ Len(s) > 0
      /\ Len(Tail(s)) = Len(s) - 1 /\ Head(s) = s[1]
      /\ \A j \in 1 .. Len(s) - 1 : Tail(s)[j] = s[j + 1]
  OBVIOUS
<1>2. Elems(s) = Elems(Tail(s)) \cup {Head(s)}
  <2>1. \A j \in 1 .. Len(s) : j = 1 \/ j - 1 \in 1 .. Len(s) - 1
    BY <1>1
  <2>2. Elems(s) \subseteq Elems(Tail(s)) \cup {Head(s)}
    <3>1. ASSUME NEW j \in 1 .. Len(s), j # 1 PROVE s[j] \in Elems(Tail(s))
      <4>1. j - 1 \in 1 .. Len(Tail(s)) /\ Tail(s)[j - 1] = s[j]
        BY <1>1, <2>1, <3>1
      <4>2. QED
        BY <4>1 DEF Elems
    <3>2. QED
      BY <1>1, <3>1 DEF Elems
  <2>3. Elems(Tail(s)) \cup {Head(s)} \subseteq Elems(s)
    <3>1. ASSUME NEW j \in 1 .. Len(Tail(s)) PROVE Tail(s)[j] \in Elems(s)
      <4>1. j + 1 \in 1 .. Len(s) /\ Tail(s)[j] = s[j + 1]
        BY <1>1
      <4>2. QED
        BY <4>1 DEF Elems
    <3>2. Head(s) \in Elems(s)
      BY <1>1 DEF Elems
    <3>3. QED
      BY <3>1, <3>2 DEF Elems
  <2>4. QED
    BY <2>2, <2>3
<1>3. Keys(s, key) = Keys(Tail(s), key) \cup {key[Head(s)]}
  BY <1>2 DEF Keys
<1>4. ASSUME Distinct(s, key)
      PROVE  Distinct(Tail(s), key) /\ key[Head(s)] \notin Keys(Tail(s), key)
  <2>1. Distinct(Tail(s), key)
    BY <1>1, <1>4 DEF Distinct
  <2>2. ASSUME NEW j \in 1 .. Len(Tail(s)) PROVE key[Tail(s)[j]] # key[Head(s)]
    BY <1>1, <1>4 DEF Distinct
  <2>3. QED
    BY <2>1, <2>2 DEF Keys, Elems
<1>5. QED
  BY <1>1, <1>2, <1>3, <1>4

LEMMA EmptyHasNone ==
  ASSUME NEW key
  PROVE  Elems(<<>>) = {} /\ Keys(<<>>, key) = {} /\ Distinct(<<>>, key)
BY DEF Elems, Keys, Distinct

-----------------------------------------------------------------------------
(* The corpus: types, and what a worker holds at each location.            *)

\* What a worker has still to save and weigh, and the logs it has to submit.
First == [e \in Inputs \X BOOLEAN |-> e[1]]
Queued(w) == Keys(todo[w], First)
LogsOf(w) == Keys(submits[w], PovLog)

\* Positions stay within MaxBatch.
Sizes == \A w \in Workers : Len(batch[w]) <= MaxBatch /\ Len(crashes[w]) <= MaxBatch

\* The lists are empty before the claim and after the last entry; the
\* candidates are positions; what is about to be weighed or submitted has its
\* coverage file.
Stages(w) ==
  /\ pc[w] \notin {"claiming", "save", "update"} => todo[w] = <<>>
  /\ pc[w] = "update" =>
       todo[w] # <<>> /\ (Head(todo[w])[2] = TRUE => Head(todo[w])[1] \in saved)
  /\ pc[w] \in {"save", "update"} => cand[w] = {}
  /\ pc[w] \in {"claim", "claiming"} => cand[w] \subseteq 1 .. Len(batch[w])
  /\ pc[w] = "runpov" => cand[w] \subseteq 1 .. Len(crashes[w])
  /\ pc[w] = "povclaiming" => povs[w] \in Seq(Inputs)
  /\ pc[w] \notin {"povclaiming", "povsave", "submit"} => submits[w] = <<>>
  /\ pc[w] = "submit" => submits[w] # <<>> /\ Head(submits[w]) \in saved \cup corpus

LEMMA CorpusInitTypes == CorpusInit => CorpusTypes /\ Sizes /\ \A w \in Workers : Stages(w)
<1> SUFFICES ASSUME CorpusInit PROVE CorpusTypes /\ Sizes /\ \A w \in Workers : Stages(w)
  OBVIOUS
<1> USE CorpusAssumption DEF CorpusInit
<1>1. CorpusTypes
  BY DEF CorpusTypes, Locs
<1>2. Sizes
  BY DEF Sizes
<1>3. \A w \in Workers : Stages(w)
  BY DEF Stages
<1>4. QED
  BY <1>1, <1>2, <1>3

\* CorpusTypes in three parts: UniState, the workers' own, and the locks.
SharedTypes ==
  /\ corpus \subseteq Inputs /\ solutions \subseteq Inputs /\ saved \subseteq Inputs
  /\ observed \in [Kinds -> SUBSET Addrs] /\ crashLogs \subseteq Logs
  /\ sched \in [Kinds -> [Inputs -> Nat]] /\ submitted \in [Logs -> Nat]

LocalTypes ==
  /\ batch \in [Workers -> Seq(Inputs)] /\ crashes \in [Workers -> Seq(Inputs)]
  /\ pass \in [Workers -> Kinds]
  /\ cand \in [Workers -> SUBSET (1 .. MaxBatch)] /\ claimed \in [Workers -> SUBSET (1 .. MaxBatch)]
  /\ todo \in [Workers -> Seq(Inputs \X BOOLEAN)]
  /\ seenLogs \in [Workers -> SUBSET Logs] /\ povs \in [Workers -> Seq(Inputs)]
  /\ submits \in [Workers -> Seq(Inputs)] /\ batches \in [Workers -> 0 .. MaxBatches]

Control ==
  /\ holder \in Workers \cup {Nobody} /\ povHolder \in Workers \cup {Nobody}
  /\ pc \in [Workers -> Locs]
  /\ \A w \in Workers : /\ (pc[w] = "claiming") = (holder = w)
                        /\ (pc[w] = "povclaiming") = (povHolder = w)

LEMMA TypesSplit == CorpusTypes <=> SharedTypes /\ LocalTypes /\ Control
BY DEF CorpusTypes, SharedTypes, LocalTypes, Control

\* A step moves one worker, and only two moves take or give back a lock.
LEMMA Moves ==
  ASSUME NEW w \in Workers, StartBatch(w) \/ Work(w)
  PROVE  \/ UNCHANGED <<pc, holder, povHolder>>
         \/ /\ UNCHANGED <<holder, povHolder>>
            /\ pc[w] \notin {"claiming", "povclaiming"}
            /\ \E loc \in Locs \ {"claiming", "povclaiming"} : pc' = [pc EXCEPT ![w] = loc]
         \/ /\ pc' = [pc EXCEPT ![w] = "claiming"] /\ pc[w] \notin {"claiming", "povclaiming"}
            /\ holder = Nobody /\ holder' = w /\ UNCHANGED povHolder
         \/ /\ pc' = [pc EXCEPT ![w] = "save"] /\ pc[w] = "claiming"
            /\ holder' = Nobody /\ UNCHANGED povHolder
         \/ /\ pc' = [pc EXCEPT ![w] = "povclaiming"] /\ pc[w] \notin {"claiming", "povclaiming"}
            /\ povHolder = Nobody /\ povHolder' = w /\ UNCHANGED holder
         \/ /\ pc' = [pc EXCEPT ![w] = "povsave"] /\ pc[w] = "povclaiming"
            /\ povHolder' = Nobody /\ UNCHANGED holder
<1> USE DEF Goto, locks, Locs
<1>1. CASE DummyCheck(w) \/ DummyAdd(w) \/ StartBatch(w) \/ Filter(w) \/ SaveCoverage(w)
        \/ UpdateScheduler(w) \/ CrashFilter(w) \/ SavePov(w) \/ SubmitPov(w)
  BY <1>1 DEF DummyCheck, DummyAdd, StartBatch, Filter, SaveCoverage, UpdateScheduler,
     CrashFilter, SavePov, SubmitPov, NextPass
<1>2. CASE ClaimSeed(w) \/ RunPov(w) \/ ClaimPov(w)
  BY <1>2, Zenon DEF ClaimSeed, RunPov, ClaimPov
<1>3. CASE ClaimLock(w) \/ ClaimUnlock(w) \/ PovUnlock(w)
  BY <1>3 DEF ClaimLock, ClaimUnlock, PovUnlock
<1>4. CASE PovLock(w)
  BY <1>4 DEF PovLock
<1>5. QED
  BY <1>1, <1>2, <1>3, <1>4 DEF Work

LEMMA TypesJoined == ASSUME SharedTypes', LocalTypes', Control' PROVE CorpusTypes'
BY DEF CorpusTypes, SharedTypes, LocalTypes, Control

LEMMA ControlKept ==
  ASSUME Control, NEW w \in Workers, StartBatch(w) \/ Work(w)
  PROVE  Control'
<1> USE CorpusAssumption
<1>0. /\ pc \in [Workers -> Locs] /\ Nobody \notin Workers
      /\ \A v \in Workers : (pc[v] = "claiming" <=> holder = v)
                         /\ (pc[v] = "povclaiming" <=> povHolder = v)
  BY DEF Control
<1>1. /\ pc' \in [Workers -> Locs]
      /\ holder' \in Workers \cup {Nobody} /\ povHolder' \in Workers \cup {Nobody}
  BY Moves, <1>0 DEF Control, Locs
<1>2. \A v \in Workers : (pc'[v] = "claiming" <=> holder' = v)
  BY Moves, <1>0 
<1>3. \A v \in Workers : (pc'[v] = "povclaiming" <=> povHolder' = v)
  BY Moves, <1>0 
<1>4. QED
  BY <1>1, <1>2, <1>3 DEF Control

\* What the candidates and the sequences of a worker hold are inputs.
LEMMA HeldInputs ==
  ASSUME CorpusTypes, NEW w \in Workers, Stages(w)
  PROVE  /\ pc[w] = "claiming" => \A p \in cand[w] : p \in 1 .. Len(batch[w]) /\ batch[w][p] \in Inputs
         /\ pc[w] = "runpov" => \A p \in cand[w] : p \in 1 .. Len(crashes[w]) /\ crashes[w][p] \in Inputs
         /\ todo[w] # <<>> => Head(todo[w]) \in Inputs \X BOOLEAN
         /\ povs[w] # <<>> => Head(povs[w]) \in Inputs
         /\ submits[w] # <<>> => Head(submits[w]) \in Inputs
<1>1. /\ batch[w] \in Seq(Inputs) /\ crashes[w] \in Seq(Inputs)
      /\ todo[w] \in Seq(Inputs \X BOOLEAN) /\ povs[w] \in Seq(Inputs) /\ submits[w] \in Seq(Inputs)
  BY DEF CorpusTypes
<1>2. /\ \A p \in 1 .. Len(batch[w]) : batch[w][p] \in Inputs
      /\ \A p \in 1 .. Len(crashes[w]) : crashes[w][p] \in Inputs
  BY <1>1
<1>3. /\ pc[w] = "claiming" => cand[w] \subseteq 1 .. Len(batch[w])
      /\ pc[w] = "runpov" => cand[w] \subseteq 1 .. Len(crashes[w])
  BY DEF Stages
<1>4. /\ todo[w] # <<>> => Head(todo[w]) \in Inputs \X BOOLEAN
      /\ povs[w] # <<>> => Head(povs[w]) \in Inputs
      /\ submits[w] # <<>> => Head(submits[w]) \in Inputs
  BY <1>1, TailTakes
<1>5. QED
  BY <1>2, <1>3, <1>4

LEMMA SharedKept ==
  ASSUME CorpusTypes, NEW w \in Workers, Stages(w), StartBatch(w) \/ Work(w)
  PROVE  SharedTypes'
<1> USE CorpusAssumption DEF SharedTypes
<1>0. SharedTypes /\ LocalTypes /\ pass[w] \in Kinds
  BY TypesSplit DEF LocalTypes
<1>1. CASE UNCHANGED <<uni, submitted>>
  BY <1>0, <1>1 DEF uni
<1>2. CASE DummyAdd(w)
  <2>1. /\ UNCHANGED <<solutions, crashLogs, submitted>>
        /\ observed' = [observed EXCEPT !["normal"] = @ \cup Cov[Dummy]]
        /\ corpus' \in {corpus, corpus \cup {Dummy}} /\ saved' \in {saved, saved \cup {Dummy}}
        /\ sched' \in {sched, [sched EXCEPT !["normal"][Dummy] = @ + 1]}
    BY <1>2 DEF DummyAdd
  <2>2. Cov[Dummy] \subseteq Addrs
    OBVIOUS
  <2>3. observed' \in [Kinds -> SUBSET Addrs]
    BY <1>0, <2>1, <2>2
  <2>4. sched' \in [Kinds -> [Inputs -> Nat]]
    BY <1>0, <2>1
  <2>5. QED
    BY <1>0, <2>1, <2>3, <2>4
<1>3. CASE ClaimSeed(w)
  <2>1. PICK p \in cand[w] :
          /\ observed' = [observed EXCEPT ![pass[w]] = @ \cup Cov[batch[w][p]]]
          /\ corpus' \in {corpus, corpus \cup {batch[w][p]}}
    BY <1>3 DEF ClaimSeed
  <2>2. UNCHANGED <<solutions, crashLogs, sched, saved, submitted>> /\ pc[w] = "claiming"
    BY <1>3 DEF ClaimSeed
  <2>3. batch[w][p] \in Inputs
    BY <2>2, HeldInputs
  <2>4. observed' \in [Kinds -> SUBSET Addrs]
    BY <1>0, <2>1, <2>3
  <2>5. QED
    BY <1>0, <2>1, <2>2, <2>3, <2>4
<1>4. CASE SaveCoverage(w) \/ SavePov(w)
  <2>1. UNCHANGED <<corpus, solutions, observed, crashLogs, sched, submitted>>
    BY <1>4 DEF SaveCoverage, SavePov
  <2>2. saved' \subseteq Inputs
    BY <1>0, <1>4, HeldInputs DEF SaveCoverage, SavePov
  <2>3. QED
    BY <1>0, <2>1, <2>2
<1>5. CASE UpdateScheduler(w)
  <2>1. /\ UNCHANGED <<corpus, solutions, observed, crashLogs, saved, submitted>>
        /\ sched' = [sched EXCEPT ![pass[w]][Head(todo[w])[1]] = @ + 1]
    BY <1>5 DEF UpdateScheduler
  <2>2. Head(todo[w])[1] \in Inputs
    BY <1>5, HeldInputs DEF UpdateScheduler, Stages
  <2>3. sched' \in [Kinds -> [Inputs -> Nat]]
    BY <1>0, <2>1, <2>2
  <2>4. QED
    BY <1>0, <2>1, <2>3
<1>6. CASE ClaimPov(w)
  <2>1. /\ UNCHANGED <<corpus, observed, sched, saved, submitted>> /\ povs[w] # <<>>
        /\ crashLogs' = crashLogs \cup {PovLog[Head(povs[w])]}
        /\ solutions' \in {solutions, solutions \cup {Head(povs[w])}}
    BY <1>6 DEF ClaimPov
  <2>2. Head(povs[w]) \in Inputs
    BY <2>1, HeldInputs
  <2>3. QED
    BY <1>0, <2>1, <2>2
<1>7. CASE SubmitPov(w)
  <2>1. /\ UNCHANGED uni /\ pc[w] = "submit"
        /\ submitted' = [submitted EXCEPT ![PovLog[Head(submits[w])]] = @ + 1]
    BY <1>7 DEF SubmitPov
  <2>2. submitted' \in [Logs -> Nat]
    BY <1>0, <2>1, HeldInputs, SMTT(30) DEF Stages
  <2>3. QED
    BY <1>0, <2>1, <2>2 DEF uni
<1>8. QED
  <2>1. CASE DummyCheck(w) \/ StartBatch(w) \/ Filter(w) \/ ClaimLock(w) \/ ClaimUnlock(w)
          \/ CrashFilter(w) \/ RunPov(w) \/ PovLock(w) \/ PovUnlock(w)
    BY <1>1, <2>1, Zenon DEF DummyCheck, StartBatch, Filter, ClaimLock, ClaimUnlock, CrashFilter,
       RunPov, PovLock, PovUnlock
  <2>2. QED
    BY <1>2, <1>3, <1>4, <1>5, <1>6, <1>7, <2>1 DEF Work

LEMMA LocalKept ==
  ASSUME CorpusTypes, Sizes, NEW w \in Workers, Stages(w), StartBatch(w) \/ Work(w)
  PROVE  LocalTypes'
<1> USE CorpusAssumption DEF LocalTypes
<1>0. SharedTypes /\ LocalTypes
  BY TypesSplit
<1>1. CASE UNCHANGED <<batch, crashes, seedsV, crashV, batches>>
  BY <1>0, <1>1 DEF seedsV, crashV
<1>2. CASE StartBatch(w)
  <2>1. UNCHANGED <<cand, todo, crashV>>
    BY <1>2, Zenon DEF StartBatch
  <2>2. /\ pass' = [pass EXCEPT ![w] = "normal"] /\ claimed' = [claimed EXCEPT ![w] = {}]
        /\ batches[w] < MaxBatches /\ batches' = [batches EXCEPT ![w] = @ + 1]
    BY <1>2 DEF StartBatch
  <2>3. PICK n \in 0 .. MaxBatch :
          /\ \E s \in [1 .. n -> Inputs] : batch' = [batch EXCEPT ![w] = s]
          /\ \E s \in [1 .. MaxBatch - n -> Inputs] : crashes' = [crashes EXCEPT ![w] = s]
    BY <1>2, Zenon DEF StartBatch
  <2>4. n \in Nat /\ MaxBatch - n \in Nat
    OBVIOUS
  <2>5. \A m \in Nat : \A s \in [1 .. m -> Inputs] : s \in Seq(Inputs)
    OBVIOUS
  <2>6. batch' \in [Workers -> Seq(Inputs)] /\ crashes' \in [Workers -> Seq(Inputs)]
    BY <1>0, <2>3, <2>4, <2>5
  <2>7. batches' \in [Workers -> 0 .. MaxBatches]
    BY <1>0, <2>2, SMTT(30)
  <2>8. QED
    BY <1>0, <2>1, <2>2, <2>6, <2>7 DEF crashV
<1>3. CASE Filter(w)
  <2>1. /\ UNCHANGED <<batch, crashes, claimed, todo, crashV, batches>>
        /\ cand' = [cand EXCEPT ![w] = NewPositions(w)]
        /\ pass' \in {pass, [pass EXCEPT ![w] = "testlang"]}
    BY <1>3 DEF Filter, NextPass
  <2>2. NewPositions(w) \subseteq 1 .. MaxBatch
    BY <1>0 DEF NewPositions, Sizes
  <2>3. QED
    BY <1>0, <2>1, <2>2 DEF crashV
<1>4. CASE ClaimSeed(w)
  <2>0. UNCHANGED <<batch, crashes, pass, crashV, batches>> /\ pc[w] = "claiming"
    BY <1>4 DEF ClaimSeed
  <2>1. PICK p \in cand[w] :
          /\ cand' = [cand EXCEPT ![w] = @ \ {p}]
          /\ \/ UNCHANGED <<claimed, todo>>
             \/ /\ claimed' = [claimed EXCEPT ![w] = @ \cup {p}]
                /\ todo' = [todo EXCEPT ![w] = Append(@, <<batch[w][p], IsNew(w, p, batch[w][p])>>)]
    BY <1>4 DEF ClaimSeed
  <2>2. p \in 1 .. MaxBatch /\ batch[w][p] \in Inputs
    BY <1>0, <2>0, HeldInputs
  <2>3. <<batch[w][p], IsNew(w, p, batch[w][p])>> \in Inputs \X BOOLEAN
    BY <2>2 DEF IsNew
  <2>4. todo[w] \in Seq(Inputs \X BOOLEAN)
    BY <1>0
  <2>5. Append(todo[w], <<batch[w][p], IsNew(w, p, batch[w][p])>>) \in Seq(Inputs \X BOOLEAN)
    BY <2>3, <2>4, AppendTakes
  <2>6. todo' \in [Workers -> Seq(Inputs \X BOOLEAN)]
    BY <1>0, <2>1, <2>5, ZenonT(40)
  <2>7. claimed' \in [Workers -> SUBSET (1 .. MaxBatch)]
    <3>1. claimed[w] \cup {p} \in SUBSET (1 .. MaxBatch)
      BY <1>0, <2>2
    <3>2. QED
      BY <1>0, <2>1, <3>1, ZenonT(40)
  <2>8. cand' \in [Workers -> SUBSET (1 .. MaxBatch)]
    <3>1. cand[w] \ {p} \in SUBSET (1 .. MaxBatch)
      BY <1>0
    <3>2. QED
      BY <1>0, <2>1, <3>1
  <2>9. QED
    BY <1>0, <2>0, <2>6, <2>7, <2>8 DEF crashV
<1>5. CASE SaveCoverage(w)
  <2>1. /\ UNCHANGED <<batch, crashes, cand, claimed, todo, crashV, batches>>
        /\ pass' \in {pass, [pass EXCEPT ![w] = "testlang"]}
    BY <1>5 DEF SaveCoverage, NextPass
  <2>2. QED
    BY <1>0, <2>1 DEF crashV
<1>6. CASE UpdateScheduler(w)
  <2>1. /\ UNCHANGED <<batch, crashes, pass, cand, claimed, crashV, batches>>
        /\ todo' = [todo EXCEPT ![w] = Tail(@)] /\ pc[w] = "update"
    BY <1>6 DEF UpdateScheduler
  <2>2. Tail(todo[w]) \in Seq(Inputs \X BOOLEAN)
    BY <1>0, <2>1, TailTakes DEF Stages
  <2>3. QED
    BY <1>0, <2>1, <2>2 DEF crashV
<1>7. CASE CrashFilter(w)
  <2>1. /\ UNCHANGED <<batch, crashes, pass, claimed, todo, submits, batches>>
        /\ \E C \in SUBSET (1 .. Len(crashes[w])) : cand' = [cand EXCEPT ![w] = C]
        /\ seenLogs' = [seenLogs EXCEPT ![w] = {}] /\ povs' = [povs EXCEPT ![w] = <<>>]
    BY <1>7 DEF CrashFilter
  <2>2. 1 .. Len(crashes[w]) \subseteq 1 .. MaxBatch
    BY <1>0 DEF Sizes
  <2>3. cand' \in [Workers -> SUBSET (1 .. MaxBatch)]
    BY <1>0, <2>1, <2>2
  <2>4. seenLogs' \in [Workers -> SUBSET Logs]
    BY <1>0, <2>1
  <2>5. povs' \in [Workers -> Seq(Inputs)]
    <3>1. <<>> \in Seq(Inputs)
      OBVIOUS
    <3>2. QED
      BY <1>0, <2>1, <3>1
  <2>6. QED
    BY <1>0, <2>1, <2>3, <2>4, <2>5
<1>8. CASE RunPov(w)
  <2>0. /\ UNCHANGED <<batch, crashes, pass, claimed, todo, submits, batches>>
        /\ pc[w] = "runpov"
    BY <1>8 DEF RunPov
  <2>1. PICK p \in cand[w] :
          /\ cand' = [cand EXCEPT ![w] = @ \ {p}]
          /\ \/ UNCHANGED <<seenLogs, povs>>
             \/ /\ seenLogs' = [seenLogs EXCEPT ![w] = @ \cup {PovLog[crashes[w][p]]}]
                /\ povs' = [povs EXCEPT ![w] = Append(@, crashes[w][p])]
    BY <1>8 DEF RunPov
  <2>2. crashes[w][p] \in Inputs
    BY <2>0, HeldInputs
  <2>3. Append(povs[w], crashes[w][p]) \in Seq(Inputs)
    BY <1>0, <2>2, AppendTakes
  <2>4. cand' \in [Workers -> SUBSET (1 .. MaxBatch)]
    <3>1. cand[w] \ {p} \in SUBSET (1 .. MaxBatch)
      BY <1>0
    <3>2. QED
      BY <1>0, <2>1, <3>1
  <2>5. povs' \in [Workers -> Seq(Inputs)]
    BY <1>0, <2>1, <2>3, ZenonT(40)
  <2>6. seenLogs' \in [Workers -> SUBSET Logs]
    <3>1. seenLogs[w] \cup {PovLog[crashes[w][p]]} \in SUBSET Logs
      BY <1>0, <2>2, SMTT(30)
    <3>2. QED
      BY <1>0, <2>1, <3>1, ZenonT(40)
  <2>7. QED
    BY <1>0, <2>0, <2>4, <2>5, <2>6
<1>9. CASE ClaimPov(w)
  <2>1. /\ UNCHANGED <<batch, crashes, seedsV, seenLogs, batches>> /\ povs[w] # <<>>
        /\ povs' = [povs EXCEPT ![w] = Tail(@)]
        /\ \/ UNCHANGED submits
           \/ \E s \in {submits[w], Append(submits[w], Head(povs[w]))} :
                submits' = [submits EXCEPT ![w] = s]
    BY <1>9 DEF ClaimPov
  <2>2. Tail(povs[w]) \in Seq(Inputs) /\ Append(submits[w], Head(povs[w])) \in Seq(Inputs)
    BY <1>0, <2>1, HeldInputs, TailTakes, AppendTakes
  <2>3. submits' \in [Workers -> Seq(Inputs)]
    <3>1. submits[w] \in Seq(Inputs) /\ submits \in [Workers -> Seq(Inputs)]
      BY <1>0
    <3>2. ASSUME NEW s \in Seq(Inputs), submits' = [submits EXCEPT ![w] = s]
          PROVE  submits' \in [Workers -> Seq(Inputs)]
      BY <3>1, <3>2
    <3>3. QED
      BY <2>1, <2>2, <3>1, <3>2
  <2>4. QED
    BY <1>0, <2>1, <2>2, <2>3 DEF seedsV
<1>10. CASE SubmitPov(w)
  <2>1. /\ UNCHANGED <<batch, crashes, seedsV, seenLogs, povs, batches>> /\ pc[w] = "submit"
        /\ submits' = [submits EXCEPT ![w] = Tail(@)]
    BY <1>10 DEF SubmitPov
  <2>2. Tail(submits[w]) \in Seq(Inputs)
    BY <1>0, <2>1, TailTakes DEF Stages
  <2>3. QED
    BY <1>0, <2>1, <2>2 DEF seedsV
<1>11. QED
  <2>1. CASE DummyCheck(w) \/ DummyAdd(w) \/ ClaimLock(w) \/ ClaimUnlock(w) \/ PovLock(w)
          \/ PovUnlock(w) \/ SavePov(w)
    BY <1>1, <2>1, Zenon DEF DummyCheck, DummyAdd, ClaimLock, ClaimUnlock, PovLock, PovUnlock,
       SavePov
  <2>2. QED
    BY <1>2, <1>3, <1>4, <1>5, <1>6, <1>7, <1>8, <1>9, <1>10, <2>1 DEF Work

\* A step of one worker leaves what the others hold.
SameLocals(v) ==
  /\ pc'[v] = pc[v] /\ batch'[v] = batch[v] /\ crashes'[v] = crashes[v] /\ pass'[v] = pass[v]
  /\ cand'[v] = cand[v] /\ claimed'[v] = claimed[v] /\ todo'[v] = todo[v]
  /\ povs'[v] = povs[v] /\ submits'[v] = submits[v]

LEMMA OthersHold ==
  ASSUME CorpusTypes, NEW w \in Workers, StartBatch(w) \/ Work(w), NEW v \in Workers, v # w
  PROVE  SameLocals(v)
<1>0. LocalTypes /\ Control
  BY TypesSplit
<1>1. pc'[v] = pc[v]
  BY <1>0, Moves DEF Control
<1>2. /\ batch' = batch \/ \E s : batch' = [batch EXCEPT ![w] = s]
      /\ crashes' = crashes \/ \E s : crashes' = [crashes EXCEPT ![w] = s]
      /\ pass' = pass \/ \E s : pass' = [pass EXCEPT ![w] = s]
      /\ cand' = cand \/ \E s : cand' = [cand EXCEPT ![w] = s]
      /\ claimed' = claimed \/ \E s : claimed' = [claimed EXCEPT ![w] = s]
      /\ todo' = todo \/ \E s : todo' = [todo EXCEPT ![w] = s]
      /\ povs' = povs \/ \E s : povs' = [povs EXCEPT ![w] = s]
      /\ submits' = submits \/ \E s : submits' = [submits EXCEPT ![w] = s]
  <2>1. CASE DummyCheck(w) \/ DummyAdd(w) \/ StartBatch(w) \/ ClaimLock(w) \/ ClaimUnlock(w)
          \/ UpdateScheduler(w) \/ CrashFilter(w) \/ PovLock(w) \/ PovUnlock(w) \/ SavePov(w)
          \/ SubmitPov(w)
    BY <2>1, Zenon DEF DummyCheck, DummyAdd, StartBatch, ClaimLock, ClaimUnlock, UpdateScheduler,
       CrashFilter, PovLock, PovUnlock, SavePov, SubmitPov, seedsV, crashV
  <2>2. CASE Filter(w) \/ SaveCoverage(w)
    BY <2>2, Zenon DEF Filter, SaveCoverage, NextPass, seedsV, crashV
  <2>3. CASE ClaimSeed(w) \/ RunPov(w) \/ ClaimPov(w)
    BY <2>3, Zenon DEF ClaimSeed, RunPov, ClaimPov, seedsV, crashV
  <2>4. QED
    BY <2>1, <2>2, <2>3 DEF Work
<1>3. batch'[v] = batch[v] /\ crashes'[v] = crashes[v] /\ pass'[v] = pass[v]
  BY <1>0, <1>2 DEF LocalTypes
<1>4. cand'[v] = cand[v] /\ claimed'[v] = claimed[v] /\ todo'[v] = todo[v]
  BY <1>0, <1>2 DEF LocalTypes
<1>5. povs'[v] = povs[v] /\ submits'[v] = submits[v]
  BY <1>0, <1>2 DEF LocalTypes
<1>6. QED
  BY <1>1, <1>3, <1>4, <1>5 DEF SameLocals

\* What the workers share only grows.
Grows ==
  /\ corpus \subseteq corpus' /\ saved \subseteq saved' /\ crashLogs \subseteq crashLogs'
  /\ \A k \in Kinds : observed[k] \subseteq observed'[k]

LEMMA SharedGrows ==
  ASSUME CorpusTypes, NEW w \in Workers, StartBatch(w) \/ Work(w)
  PROVE  Grows
<1>0. SharedTypes /\ LocalTypes
  BY TypesSplit
<1>1. \/ observed' = observed
      \/ \E k \in Kinds : \E C : observed' = [observed EXCEPT ![k] = @ \cup C]
  <2>1. CASE ClaimSeed(w)
    BY <1>0, <2>1 DEF ClaimSeed, LocalTypes
  <2>2. CASE DummyAdd(w)
    BY <2>2, CorpusAssumption DEF DummyAdd
  <2>3. CASE ~ ClaimSeed(w) /\ ~ DummyAdd(w)
    BY <2>3, Zenon DEF Work, StartBatch, DummyCheck, Filter, ClaimLock, ClaimUnlock, SaveCoverage,
       UpdateScheduler, CrashFilter, RunPov, PovLock, ClaimPov, PovUnlock, SavePov, SubmitPov, uni
  <2>4. QED
    BY <2>1, <2>2, <2>3
<1>2. \A k \in Kinds : observed[k] \subseteq observed'[k]
  BY <1>0, <1>1 DEF SharedTypes
<1>3. /\ corpus' = corpus \/ \E i : corpus' = corpus \cup {i}
      /\ saved' = saved \/ \E i : saved' = saved \cup {i}
      /\ crashLogs' = crashLogs \/ \E l : crashLogs' = crashLogs \cup {l}
  <2>1. CASE DummyAdd(w) \/ SaveCoverage(w) \/ SavePov(w) \/ ClaimPov(w) \/ ClaimSeed(w)
    BY <2>1 DEF DummyAdd, SaveCoverage, SavePov, ClaimPov, ClaimSeed
  <2>2. CASE ~ (DummyAdd(w) \/ SaveCoverage(w) \/ SavePov(w) \/ ClaimPov(w) \/ ClaimSeed(w))
    BY <2>2, Zenon DEF Work, StartBatch, DummyCheck, Filter, ClaimLock, ClaimUnlock,
       UpdateScheduler, CrashFilter, RunPov, PovLock, PovUnlock, SubmitPov, uni
  <2>3. QED
    BY <2>1, <2>2
<1>4. QED
  BY <1>2, <1>3 DEF Grows

LEMMA StagesKept ==
  ASSUME CorpusTypes, Sizes, NEW w \in Workers, Stages(w), StartBatch(w) \/ Work(w)
  PROVE  Stages(w)' /\ Len(batch'[w]) <= MaxBatch /\ Len(crashes'[w]) <= MaxBatch
<1>0. SharedTypes /\ LocalTypes /\ Control /\ CorpusTypes'
  BY TypesSplit, TypesJoined, SharedKept, LocalKept, ControlKept
<1> DEFINE Fits == Len(batch'[w]) <= MaxBatch /\ Len(crashes'[w]) <= MaxBatch
<1>1. pc \in [Workers -> Locs] /\ \A loc : pc' = [pc EXCEPT ![w] = loc] => pc'[w] = loc
  BY <1>0 DEF Control
<1>2. pc[w] # "idle" => UNCHANGED <<batch, crashes>>
  BY Zenon DEF Work, StartBatch, DummyCheck, DummyAdd, Filter, ClaimLock, ClaimSeed, ClaimUnlock,
     SaveCoverage, UpdateScheduler, CrashFilter, RunPov, PovLock, ClaimPov, PovUnlock, SavePov,
     SubmitPov
<1>3. pc[w] # "idle" => Fits
  BY <1>2 DEF Sizes
<1> USE DEF Goto
<1>4. CASE DummyCheck(w) \/ DummyAdd(w)
  <2>1. /\ UNCHANGED <<todo, submits>>
        /\ pc[w] \in {"dummycheck", "dummyrun"} /\ pc'[w] \in {"dummyrun", "idle"}
    BY <1>1, <1>4 DEF DummyCheck, DummyAdd, seedsV, crashV
  <2>2. QED
    BY <1>3, <2>1 DEF Stages
<1>5. CASE StartBatch(w)
  <2>1. UNCHANGED <<todo, submits>> /\ pc[w] = "idle" /\ pc'[w] = "filter"
    BY <1>1, <1>5 DEF StartBatch, crashV
  <2>2. Stages(w)'
    BY <2>1 DEF Stages
  <2>3. PICK n \in 0 .. MaxBatch :
          /\ \E s \in [1 .. n -> Inputs] : batch' = [batch EXCEPT ![w] = s]
          /\ \E s \in [1 .. MaxBatch - n -> Inputs] : crashes' = [crashes EXCEPT ![w] = s]
    BY <1>5, Zenon DEF StartBatch
  <2>4. n \in Nat /\ MaxBatch - n \in Nat /\ n <= MaxBatch /\ MaxBatch - n <= MaxBatch
    BY CorpusAssumption
  <2>5. \A m \in Nat : \A s \in [1 .. m -> Inputs] : Len(s) = m
    OBVIOUS
  <2>6. Fits
    BY <1>0, <2>3, <2>4, <2>5 DEF LocalTypes
  <2>7. QED
    BY <2>2, <2>6
<1>6. CASE Filter(w)
  <2>1. /\ UNCHANGED <<batch, todo, submits>> /\ pc[w] = "filter"
        /\ cand'[w] = NewPositions(w) /\ pc'[w] \in {"claim", "filter", "crashfilter"}
    BY <1>0, <1>1, <1>6 DEF Filter, NextPass, crashV, LocalTypes
  <2>2. QED
    BY <1>3, <2>1 DEF Stages, NewPositions
<1>7. CASE ClaimLock(w)
  <2>1. /\ UNCHANGED <<batch, todo, cand, submits>> /\ pc[w] = "claim" /\ pc'[w] = "claiming"
    BY <1>1, <1>7 DEF ClaimLock, seedsV, crashV
  <2>2. QED
    BY <1>3, <2>1 DEF Stages
<1>8. CASE ClaimSeed(w)
  <2>1. /\ UNCHANGED <<pc, batch, submits>> /\ pc[w] = "claiming" /\ cand'[w] \subseteq cand[w]
    BY <1>0, <1>8 DEF ClaimSeed, crashV, LocalTypes
  <2>2. QED
    BY <1>3, <2>1 DEF Stages
<1>9. CASE ClaimUnlock(w)
  <2>1. /\ UNCHANGED <<cand, todo, submits>> /\ pc[w] = "claiming" /\ pc'[w] = "save"
        /\ cand[w] = {}
    BY <1>1, <1>9 DEF ClaimUnlock, seedsV, crashV
  <2>2. QED
    BY <1>3, <2>1 DEF Stages
<1>10. CASE SaveCoverage(w)
  <2>1. /\ UNCHANGED <<cand, todo, submits>> /\ pc[w] = "save"
        /\ \/ todo[w] = <<>> /\ pc'[w] \in {"filter", "crashfilter"}
           \/ /\ todo[w] # <<>> /\ pc'[w] = "update"
              /\ Head(todo[w])[2] = TRUE => Head(todo[w])[1] \in saved'
    BY <1>1, <1>10 DEF SaveCoverage, NextPass, crashV
  <2>2. QED
    BY <1>3, <2>1 DEF Stages
<1>11. CASE UpdateScheduler(w)
  <2>1. /\ UNCHANGED <<cand, submits>> /\ pc[w] = "update" /\ pc'[w] = "save"
    BY <1>1, <1>11 DEF UpdateScheduler, crashV
  <2>2. QED
    BY <1>3, <2>1 DEF Stages
<1>12. CASE CrashFilter(w)
  <2>1. /\ UNCHANGED <<crashes, todo, submits>> /\ pc[w] = "crashfilter" /\ pc'[w] = "runpov"
        /\ cand'[w] \subseteq 1 .. Len(crashes[w])
    BY <1>0, <1>1, <1>12 DEF CrashFilter, LocalTypes
  <2>2. QED
    BY <1>3, <2>1 DEF Stages
<1>13. CASE RunPov(w)
  <2>1. /\ UNCHANGED <<pc, crashes, todo, submits>> /\ pc[w] = "runpov" /\ cand'[w] \subseteq cand[w]
    BY <1>0, <1>13 DEF RunPov, LocalTypes
  <2>2. QED
    BY <1>3, <2>1 DEF Stages
<1>14. CASE PovLock(w)
  <2>1. /\ UNCHANGED <<todo, submits>> /\ pc[w] = "runpov" /\ pc'[w] \in {"idle", "povclaiming"}
    BY <1>1, <1>14 DEF PovLock, seedsV, crashV
  <2>2. povs'[w] \in Seq(Inputs)
    BY <1>0 DEF CorpusTypes
  <2>3. QED
    BY <1>3, <2>1, <2>2 DEF Stages
<1>15. CASE ClaimPov(w)
  <2>1. UNCHANGED <<pc, todo>> /\ pc[w] = "povclaiming"
    BY <1>15 DEF ClaimPov, seedsV
  <2>2. povs'[w] \in Seq(Inputs)
    BY <1>0 DEF CorpusTypes
  <2>3. QED
    BY <1>3, <2>1, <2>2 DEF Stages
<1>16. CASE PovUnlock(w)
  <2>1. UNCHANGED <<todo, submits>> /\ pc[w] = "povclaiming" /\ pc'[w] = "povsave"
    BY <1>1, <1>16 DEF PovUnlock, seedsV, crashV
  <2>2. QED
    BY <1>3, <2>1 DEF Stages
<1>17. CASE SavePov(w)
  <2>1. /\ UNCHANGED <<todo, submits, corpus>> /\ pc[w] = "povsave"
        /\ \/ submits[w] = <<>> /\ pc'[w] = "idle"
           \/ /\ submits[w] # <<>> /\ pc'[w] = "submit"
              /\ Head(submits[w]) \in saved' \cup corpus
    BY <1>1, <1>17 DEF SavePov, HasSeed, seedsV, crashV
  <2>2. QED
    BY <1>3, <2>1 DEF Stages
<1>18. CASE SubmitPov(w)
  <2>1. UNCHANGED todo /\ pc[w] = "submit" /\ pc'[w] = "povsave"
    BY <1>1, <1>18 DEF SubmitPov, seedsV
  <2>2. QED
    BY <1>3, <2>1 DEF Stages
<1>19. QED
  BY <1>4, <1>5, <1>6, <1>7, <1>8, <1>9, <1>10, <1>11, <1>12, <1>13, <1>14, <1>15, <1>16, <1>17,
     <1>18 DEF Work

LEMMA BasicsKept ==
  ASSUME CorpusTypes, Sizes, \A v \in Workers : Stages(v), NEW w \in Workers,
         StartBatch(w) \/ Work(w)
  PROVE  CorpusTypes' /\ Sizes' /\ \A v \in Workers : Stages(v)'
<1>1. CorpusTypes'
  BY TypesSplit, TypesJoined, SharedKept, LocalKept, ControlKept
<1>2. Grows
  BY SharedGrows
<1>3. ASSUME NEW v \in Workers, v # w PROVE Stages(v)' /\ Len(batch'[v]) <= MaxBatch /\ Len(crashes'[v]) <= MaxBatch
  <2>1. SameLocals(v)
    BY <1>3, OthersHold
  <2>2. QED
    BY <1>2, <2>1 DEF SameLocals, Stages, Grows, Sizes
<1>4. QED
  BY <1>1, <1>3, StagesKept DEF Sizes

-----------------------------------------------------------------------------
(* Seeds. *)

\* The observer has seen all that the input covers.
Seen(k, i) == Cov[i] \subseteq observed[k]

InCorpusSeen == \A i \in corpus : Seen("normal", i)

Claiming == {"claim", "claiming", "save", "update"}

\* What a worker has found out about its batch.  When the pass over the first
\* observer is done, that observer has seen the whole batch.
Passed(w) ==
  /\ pass[w] = "testlang" => \A p \in 1 .. Len(batch[w]) : Seen("normal", batch[w][p])
  /\ pass[w] = "normal" /\ pc[w] \in Claiming =>
       \A p \in 1 .. Len(batch[w]) : p \in cand[w] \/ Seen("normal", batch[w][p])
  /\ pass[w] = "normal" => \A e \in Elems(todo[w]) : e[2] = TRUE
  /\ \A p \in claimed[w] : p \in 1 .. Len(batch[w]) /\ batch[w][p] \in corpus
  /\ pass[w] = "normal" /\ pc[w] = "filter" => claimed[w] = {}
  /\ pass[w] = "normal" /\ pc[w] \in {"claim", "claiming"} => claimed[w] \cap cand[w] = {}

\* The steps that have to do with seeds, and what the others leave.
SeedStep(w) ==
  StartBatch(w) \/ DummyAdd(w) \/ Filter(w) \/ ClaimSeed(w) \/ SaveCoverage(w) \/ UpdateScheduler(w)

SeedQuiet(w) ==
  /\ UNCHANGED <<corpus, observed, sched, batch, pass, claimed, todo>>
  /\ \/ pc'[w] \notin Claiming \cup {"filter"}
     \/ pc[w] = "claim" /\ pc'[w] = "claiming" /\ cand'[w] = cand[w]
     \/ pc[w] = "claiming" /\ pc'[w] = "save" /\ cand'[w] = cand[w] /\ cand[w] = {}

LEMMA QuietSteps ==
  ASSUME CorpusTypes, NEW w \in Workers, Work(w), ~ SeedStep(w)
  PROVE  SeedQuiet(w)
<1>0. pc \in [Workers -> Locs]
  BY DEF CorpusTypes
<1> USE DEF Goto, SeedStep
<1>1. CASE DummyCheck(w)
  BY <1>0, <1>1 DEF DummyCheck, SeedQuiet, Claiming, uni, seedsV
<1>2. CASE ClaimLock(w) \/ ClaimUnlock(w)
  BY <1>0, <1>2 DEF ClaimLock, ClaimUnlock, SeedQuiet, Claiming, uni, seedsV
<1>3. CASE CrashFilter(w) \/ PovLock(w) \/ PovUnlock(w)
  BY <1>0, <1>3 DEF CrashFilter, PovLock, PovUnlock, SeedQuiet, Claiming, uni, seedsV
<1>4. CASE RunPov(w) \/ ClaimPov(w)
  BY <1>0, <1>4 DEF RunPov, ClaimPov, SeedQuiet, Claiming, uni, seedsV
<1>5. CASE SavePov(w) \/ SubmitPov(w)
  BY <1>0, <1>5 DEF SavePov, SubmitPov, SeedQuiet, Claiming, uni, seedsV
<1>6. QED
  BY <1>1, <1>2, <1>3, <1>4, <1>5 DEF Work

LEMMA ClaimSeedDoes ==
  ASSUME CorpusTypes, NEW w \in Workers, Stages(w), ClaimSeed(w)
  PROVE  /\ pc[w] = "claiming" /\ UNCHANGED <<pc, batch, pass, sched, saved>>
         /\ \E p \in cand[w] :
              /\ p \in 1 .. Len(batch[w]) /\ batch[w][p] \in Inputs
              /\ cand'[w] = cand[w] \ {p}
              /\ observed'[pass[w]] = observed[pass[w]] \cup Cov[batch[w][p]]
              /\ \A k \in Kinds \ {pass[w]} : observed'[k] = observed[k]
              /\ \/ Seen(pass[w], batch[w][p]) /\ corpus' = corpus /\ claimed' = claimed /\ todo' = todo
                 \/ /\ ~ Seen(pass[w], batch[w][p]) /\ corpus' = corpus \cup {batch[w][p]}
                    /\ claimed'[w] = claimed[w] \cup {p}
                    /\ todo'[w] = Append(todo[w], <<batch[w][p], IsNew(w, p, batch[w][p])>>)
<1>0. /\ observed \in [Kinds -> SUBSET Addrs] /\ pass[w] \in Kinds
      /\ cand \in [Workers -> SUBSET (1 .. MaxBatch)] /\ claimed \in [Workers -> SUBSET (1 .. MaxBatch)]
      /\ todo \in [Workers -> Seq(Inputs \X BOOLEAN)]
  BY DEF CorpusTypes
<1>1. pc[w] = "claiming" /\ UNCHANGED <<pc, batch, pass, sched, saved>>
  BY DEF ClaimSeed
<1>2. PICK p \in cand[w] :
        /\ cand' = [cand EXCEPT ![w] = @ \ {p}]
        /\ observed' = [observed EXCEPT ![pass[w]] = @ \cup Cov[batch[w][p]]]
        /\ \/ Seen(pass[w], batch[w][p]) /\ corpus' = corpus /\ claimed' = claimed /\ todo' = todo
           \/ /\ ~ Seen(pass[w], batch[w][p]) /\ corpus' = corpus \cup {batch[w][p]}
              /\ claimed' = [claimed EXCEPT ![w] = @ \cup {p}]
              /\ todo' = [todo EXCEPT ![w] = Append(@, <<batch[w][p], IsNew(w, p, batch[w][p])>>)]
  BY DEF ClaimSeed, StillNew, Seen
<1>3. p \in 1 .. Len(batch[w]) /\ batch[w][p] \in Inputs
  BY <1>1, <1>2, HeldInputs
<1>4. cand'[w] = cand[w] \ {p}
  BY <1>0, <1>2
<1>5. /\ observed'[pass[w]] = observed[pass[w]] \cup Cov[batch[w][p]]
      /\ \A k \in Kinds \ {pass[w]} : observed'[k] = observed[k]
  BY <1>0, <1>2
<1>6. \/ Seen(pass[w], batch[w][p]) /\ corpus' = corpus /\ claimed' = claimed /\ todo' = todo
      \/ /\ ~ Seen(pass[w], batch[w][p]) /\ corpus' = corpus \cup {batch[w][p]}
         /\ claimed'[w] = claimed[w] \cup {p}
         /\ todo'[w] = Append(todo[w], <<batch[w][p], IsNew(w, p, batch[w][p])>>)
  BY <1>0, <1>2
<1>7. QED
  BY <1>1, <1>3, <1>4, <1>5, <1>6

\* A pass may end only when the whole batch was looked at.
LEMMA FilterDoes ==
  ASSUME CorpusTypes, NEW w \in Workers, Filter(w)
  PROVE  /\ pc[w] = "filter" /\ UNCHANGED <<corpus, observed, sched, saved, batch, claimed, todo>>
         /\ cand'[w] = NewPositions(w)
         /\ \/ cand'[w] # {} /\ pc'[w] = "claim" /\ pass' = pass
            \/ cand'[w] = {} /\ pc'[w] = "crashfilter" /\ pass' = pass
            \/ cand'[w] = {} /\ pc'[w] = "filter" /\ pass[w] = "normal" /\ pass'[w] = "testlang"
<1>1. /\ cand \in [Workers -> SUBSET (1 .. MaxBatch)] /\ pc \in [Workers -> Locs]
      /\ pass \in [Workers -> Kinds]
  BY DEF CorpusTypes
<1>2. /\ pc[w] = "filter" /\ UNCHANGED <<corpus, observed, sched, saved, batch, claimed, todo>>
      /\ cand' = [cand EXCEPT ![w] = NewPositions(w)]
  BY DEF Filter, uni
<1>3. \/ cand'[w] # {} /\ pc' = [pc EXCEPT ![w] = "claim"] /\ pass' = pass
      \/ cand'[w] = {} /\ pc' = [pc EXCEPT ![w] = "crashfilter"] /\ pass' = pass
      \/ /\ cand'[w] = {} /\ pc' = [pc EXCEPT ![w] = "filter"] /\ pass[w] = "normal"
         /\ pass' = [pass EXCEPT ![w] = "testlang"]
  BY DEF Filter, NextPass, Goto
<1>4. QED
  BY <1>1, <1>2, <1>3

LEMMA SaveDoes ==
  ASSUME CorpusTypes, NEW w \in Workers, SaveCoverage(w)
  PROVE  /\ pc[w] = "save" /\ UNCHANGED <<corpus, observed, sched, batch, cand, claimed, todo>>
         /\ \/ /\ todo[w] = <<>> /\ saved' = saved
               /\ \/ pc'[w] = "crashfilter" /\ pass' = pass
                  \/ pc'[w] = "filter" /\ pass[w] = "normal" /\ pass'[w] = "testlang"
            \/ /\ todo[w] # <<>> /\ pc'[w] = "update" /\ pass' = pass
               /\ Head(todo[w])[2] = TRUE => saved' = saved \cup {Head(todo[w])[1]}
               /\ saved \subseteq saved'
<1>1. pc \in [Workers -> Locs] /\ pass \in [Workers -> Kinds]
  BY DEF CorpusTypes
<1>2. pc[w] = "save" /\ UNCHANGED <<corpus, observed, sched, batch, cand, claimed, todo>>
  BY DEF SaveCoverage
<1>3. \/ /\ todo[w] = <<>> /\ saved' = saved
         /\ \/ pc' = [pc EXCEPT ![w] = "crashfilter"] /\ pass' = pass
            \/ /\ pc' = [pc EXCEPT ![w] = "filter"] /\ pass[w] = "normal"
               /\ pass' = [pass EXCEPT ![w] = "testlang"]
      \/ /\ todo[w] # <<>> /\ pc' = [pc EXCEPT ![w] = "update"] /\ pass' = pass
         /\ Head(todo[w])[2] = TRUE => saved' = saved \cup {Head(todo[w])[1]}
         /\ saved \subseteq saved'
  BY DEF SaveCoverage, NextPass, Goto
<1>4. QED
  BY <1>1, <1>2, <1>3

LEMMA UpdateDoes ==
  ASSUME CorpusTypes, NEW w \in Workers, Stages(w), UpdateScheduler(w)
  PROVE  /\ pc[w] = "update" /\ pc'[w] = "save"
         /\ UNCHANGED <<corpus, observed, saved, batch, pass, cand, claimed>>
         /\ todo[w] \in Seq(Inputs \X BOOLEAN) /\ todo[w] # <<>> /\ todo'[w] = Tail(todo[w])
         /\ Head(todo[w])[1] \in Inputs
         /\ sched'[pass[w]][Head(todo[w])[1]] = sched[pass[w]][Head(todo[w])[1]] + 1
         /\ \A k \in Kinds : \A i \in Inputs :
              k # pass[w] \/ i # Head(todo[w])[1] => sched'[k][i] = sched[k][i]
<1>1. /\ pc \in [Workers -> Locs] /\ pass[w] \in Kinds /\ sched \in [Kinds -> [Inputs -> Nat]]
      /\ todo \in [Workers -> Seq(Inputs \X BOOLEAN)]
  BY DEF CorpusTypes
<1>2. /\ pc[w] = "update" /\ pc' = [pc EXCEPT ![w] = "save"]
      /\ UNCHANGED <<corpus, observed, saved, batch, pass, cand, claimed>>
      /\ sched' = [sched EXCEPT ![pass[w]][Head(todo[w])[1]] = @ + 1]
      /\ todo' = [todo EXCEPT ![w] = Tail(@)]
  BY DEF UpdateScheduler, Goto
<1>3. todo[w] # <<>> /\ Head(todo[w])[1] \in Inputs
  BY <1>2, HeldInputs DEF Stages
<1>4. /\ sched'[pass[w]][Head(todo[w])[1]] = sched[pass[w]][Head(todo[w])[1]] + 1
      /\ \A k \in Kinds : \A i \in Inputs :
           k # pass[w] \/ i # Head(todo[w])[1] => sched'[k][i] = sched[k][i]
  BY <1>1, <1>2, <1>3
<1>5. QED
  BY <1>1, <1>2, <1>3, <1>4

LEMMA DummyDoes ==
  ASSUME CorpusTypes, NEW w \in Workers, DummyAdd(w)
  PROVE  /\ pc[w] = "dummyrun" /\ pc'[w] = "idle" /\ UNCHANGED <<batch, pass, cand, claimed, todo>>
         /\ observed'["normal"] = observed["normal"] \cup Cov[Dummy]
         /\ observed'["testlang"] = observed["testlang"]
         /\ \/ /\ Seen("normal", Dummy) \/ Dummy \in corpus
               /\ corpus' = corpus /\ sched' = sched /\ saved' = saved
            \/ /\ ~ Seen("normal", Dummy) /\ Dummy \notin corpus
               /\ corpus' = corpus \cup {Dummy} /\ saved' = saved \cup {Dummy}
               /\ sched'["normal"][Dummy] = sched["normal"][Dummy] + 1
               /\ \A k \in Kinds : \A i \in Inputs :
                    k # "normal" \/ i # Dummy => sched'[k][i] = sched[k][i]
<1>1. /\ pc \in [Workers -> Locs] /\ observed \in [Kinds -> SUBSET Addrs]
      /\ sched \in [Kinds -> [Inputs -> Nat]] /\ "normal" \in Kinds /\ "testlang" \in Kinds
      /\ Dummy \in Inputs
  BY CorpusAssumption DEF CorpusTypes
<1>2. /\ pc[w] = "dummyrun" /\ pc' = [pc EXCEPT ![w] = "idle"]
      /\ UNCHANGED <<batch, pass, cand, claimed, todo>>
      /\ observed' = [observed EXCEPT !["normal"] = @ \cup Cov[Dummy]]
  BY DEF DummyAdd, Goto, seedsV
<1>3. \/ /\ Seen("normal", Dummy) \/ Dummy \in corpus
         /\ corpus' = corpus /\ sched' = sched /\ saved' = saved
      \/ /\ ~ Seen("normal", Dummy) /\ Dummy \notin corpus
         /\ corpus' = corpus \cup {Dummy} /\ saved' = saved \cup {Dummy}
         /\ sched' = [sched EXCEPT !["normal"][Dummy] = @ + 1]
  BY DEF DummyAdd, Seen
<1>4. QED
  BY <1>1, <1>2, <1>3

LEMMA CorpusSeenKept ==
  ASSUME CorpusTypes, Sizes, NEW w \in Workers, Stages(w), InCorpusSeen, Passed(w),
         StartBatch(w) \/ Work(w)
  PROVE  InCorpusSeen' /\ Passed(w)'
<1>0. /\ Grows /\ "normal" \in Kinds /\ "testlang" \in Kinds /\ pass[w] \in {"normal", "testlang"}
      /\ CorpusTypes'
  BY SharedGrows, TypesSplit, TypesJoined, SharedKept, LocalKept, ControlKept, CorpusAssumption
     DEF CorpusTypes
<1>1. \A i \in Inputs : Seen("normal", i) => Seen("normal", i)'
  BY <1>0 DEF Seen, Grows
<1>2. /\ corpus \subseteq Inputs /\ corpus' \subseteq Inputs
      /\ \A p \in 1 .. Len(batch[w]) : batch[w][p] \in Inputs
  <2>1. batch[w] \in Seq(Inputs) /\ corpus \subseteq Inputs /\ corpus' \subseteq Inputs
    BY <1>0 DEF CorpusTypes
  <2>2. QED
    BY <2>1
<1>3. CASE StartBatch(w)
  <2>1. /\ UNCHANGED <<corpus, observed, todo>> /\ pc[w] = "idle"
        /\ pass'[w] = "normal" /\ claimed'[w] = {} /\ pc'[w] = "filter"
    BY <1>3 DEF StartBatch, uni, CorpusTypes, Goto
  <2>2. todo'[w] = <<>>
    BY <2>1 DEF Stages
  <2>3. QED
    BY <2>1, <2>2, EmptyHasNone DEF InCorpusSeen, Seen, Passed, Claiming
<1>4. CASE DummyAdd(w)
  <2>1. InCorpusSeen'
    BY <1>1, <1>2, <1>4, DummyDoes DEF InCorpusSeen, Seen
  <2>2. Passed(w)'
    BY <1>0, <1>1, <1>2, <1>4, DummyDoes DEF Passed, Claiming, Grows
  <2>3. QED
    BY <2>1, <2>2
<1>5. CASE Filter(w)
  <2>1. InCorpusSeen'
    BY <1>5, FilterDoes DEF InCorpusSeen, Seen
  <2>2. todo[w] = <<>> /\ todo'[w] = <<>>
    BY <1>5, FilterDoes DEF Stages
  <2>3. /\ pc[w] = "filter" /\ UNCHANGED <<corpus, observed, batch, claimed>>
        /\ \/ pc'[w] = "claim" /\ pass' = pass
           \/ pc'[w] = "crashfilter" /\ pass' = pass
           \/ cand'[w] = {} /\ pc'[w] = "filter" /\ pass[w] = "normal" /\ pass'[w] = "testlang"
    BY <1>5, FilterDoes
  <2>4. pass[w] = "normal" =>
          \A p \in 1 .. Len(batch[w]) : p \in cand'[w] \/ Seen("normal", batch[w][p])
    <3>1. cand'[w] = {p \in 1 .. Len(batch[w]) : ~ Seen(pass[w], batch[w][p])}
      BY <1>5, FilterDoes, Zenon DEF NewPositions, Seen
    <3>2. QED
      BY <3>1
  <2>5. Passed(w)'
    <3>1. CASE pass' = pass
      BY <2>2, <2>3, <2>4, <3>1, EmptyHasNone DEF Passed, Claiming, Seen
    <3>2. CASE cand'[w] = {} /\ pc'[w] = "filter" /\ pass[w] = "normal" /\ pass'[w] = "testlang"
      BY <2>2, <2>3, <2>4, <3>2, EmptyHasNone DEF Passed, Claiming, Seen
    <3>3. QED
      BY <2>3, <3>1, <3>2
  <2>6. QED
    BY <2>1, <2>5
<1>6. CASE ClaimSeed(w)
  <2>1. PICK p \in cand[w] :
              /\ p \in 1 .. Len(batch[w]) /\ batch[w][p] \in Inputs
              /\ cand'[w] = cand[w] \ {p}
              /\ observed'[pass[w]] = observed[pass[w]] \cup Cov[batch[w][p]]
              /\ \A k \in Kinds \ {pass[w]} : observed'[k] = observed[k]
              /\ \/ Seen(pass[w], batch[w][p]) /\ corpus' = corpus /\ claimed' = claimed /\ todo' = todo
                 \/ /\ ~ Seen(pass[w], batch[w][p]) /\ corpus' = corpus \cup {batch[w][p]}
                    /\ claimed'[w] = claimed[w] \cup {p}
                    /\ todo'[w] = Append(todo[w], <<batch[w][p], IsNew(w, p, batch[w][p])>>)
    BY <1>6, ClaimSeedDoes
  <2>2. pc[w] = "claiming" /\ UNCHANGED <<pc, batch, pass, sched, saved>>
    BY <1>6, ClaimSeedDoes
  <2> DEFINE i == batch[w][p]
  <2>3. Cov[i] \subseteq observed'["normal"]
    <3>1. CASE pass[w] = "normal"
      BY <2>1, <3>1
    <3>2. CASE pass[w] = "testlang"
      BY <1>1, <2>1, <3>2 DEF Seen, Passed
    <3>3. QED
      BY <1>0, <3>1, <3>2
  <2>4. InCorpusSeen'
    <3>1. \A j \in corpus' : j \in corpus \/ j = i
      BY <2>1
    <3>2. \A j \in corpus : Cov[j] \subseteq observed'["normal"]
      BY <1>1, <1>2 DEF InCorpusSeen, Seen
    <3>3. QED
      BY <2>3, <3>1, <3>2 DEF InCorpusSeen, Seen
  <2>5. pass[w] = "normal" /\ ~ Seen("normal", i) => IsNew(w, p, i) = TRUE
    BY <2>1, <2>2 DEF IsNew, InCorpusSeen, Passed
  <2>6. pass[w] = "normal" => \A e \in Elems(todo'[w]) : e[2] = TRUE
    <3>1. CASE todo' = todo
      BY <3>1 DEF Passed
    <3>2. CASE pass[w] = "normal" /\ todo'[w] = Append(todo[w], <<i, IsNew(w, p, i)>>) /\ ~ Seen(pass[w], i)
      <4>1. todo[w] \in Seq(Inputs \X BOOLEAN) /\ <<i, IsNew(w, p, i)>> \in Inputs \X BOOLEAN
        BY <2>1, <2>5, <3>2 DEF CorpusTypes
      <4>2. Elems(todo'[w]) = Elems(todo[w]) \cup {<<i, IsNew(w, p, i)>>}
        BY <3>2, <4>1, AppendTakes
      <4>3. QED
        BY <2>5, <3>2, <4>2 DEF Passed
    <3>3. QED
      BY <2>1, <3>1, <3>2
  <2>7. \A q \in claimed'[w] : q \in 1 .. Len(batch[w]) /\ batch[w][q] \in corpus'
    BY <2>1 DEF Passed
  <2>8. pass[w] = "testlang" => \A q \in 1 .. Len(batch[w]) : Seen("normal", batch[w][q])'
    BY <1>1, <1>2, <2>2 DEF Passed, Seen
  <2>9. pass[w] = "normal" =>
          \A q \in 1 .. Len(batch[w]) : q \in cand'[w] \/ Seen("normal", batch[w][q])'
    BY <1>1, <1>2, <2>1, <2>2, <2>3 DEF Passed, Claiming, Seen
  <2>10. pass[w] = "normal" => claimed'[w] \cap cand'[w] = {}
    BY <2>1, <2>2 DEF Passed
  <2>11. Passed(w)'
    BY <2>2, <2>6, <2>7, <2>8, <2>9, <2>10 DEF Passed
  <2>12. QED
    BY <2>4, <2>11
<1>7. CASE SaveCoverage(w)
  <2>1. InCorpusSeen'
    BY <1>7, SaveDoes DEF InCorpusSeen, Seen
  <2>2. Passed(w)'
    <3>1. /\ pc[w] = "save" /\ UNCHANGED <<corpus, observed, batch, cand, claimed, todo>>
          /\ \/ /\ todo[w] = <<>>
                /\ \/ pc'[w] = "crashfilter" /\ pass' = pass
                   \/ pc'[w] = "filter" /\ pass[w] = "normal" /\ pass'[w] = "testlang"
             \/ pc'[w] = "update" /\ pass' = pass
      BY <1>7, SaveDoes
    <3>2. cand[w] = {}
      BY <3>1 DEF Stages
    <3>3. CASE pass' = pass
      BY <3>1, <3>3 DEF Passed, Claiming, Seen
    <3>4. CASE pass[w] = "normal" /\ pass'[w] = "testlang"
      BY <3>1, <3>2, <3>4 DEF Passed, Claiming, Seen
    <3>5. QED
      BY <3>1, <3>3, <3>4
  <2>3. QED
    BY <2>1, <2>2
<1>8. CASE UpdateScheduler(w)
  <2>1. InCorpusSeen'
    BY <1>8, UpdateDoes DEF InCorpusSeen, Seen
  <2>2. Elems(todo'[w]) \subseteq Elems(todo[w])
    BY <1>8, UpdateDoes, TailTakes
  <2>3. Passed(w)'
    BY <1>8, <2>2, UpdateDoes DEF Passed, Claiming, Seen
  <2>4. QED
    BY <2>1, <2>3
<1>9. CASE Work(w) /\ ~ SeedStep(w)
  <2>1. SeedQuiet(w)
    BY <1>9, QuietSteps
  <2>2. QED
    BY <2>1 DEF SeedQuiet, InCorpusSeen, Passed, Claiming, Seen
<1>10. QED
  BY <1>3, <1>4, <1>5, <1>6, <1>7, <1>8, <1>9 DEF SeedStep, Work

\* Coverage that is seen is owned, and coverage files are there before a seed
\* is weighed.
LEMMA CoverageOwnedKept ==
  ASSUME CorpusTypes, Sizes, NEW w \in Workers, Stages(w), InCorpusSeen, Passed(w), CoverageOwned,
         StartBatch(w) \/ Work(w)
  PROVE  CoverageOwned'
<1>0. /\ Grows /\ Kinds = {"normal", "testlang"} /\ pass[w] \in {"normal", "testlang"}
      /\ CorpusTypes' /\ Dummy \in Inputs
  BY SharedGrows, TypesSplit, TypesJoined, SharedKept, LocalKept, ControlKept, CorpusAssumption
     DEF CorpusTypes
<1>1. CASE DummyAdd(w)
  <2>1. /\ \A k \in Kinds : observed'[k] \subseteq observed[k] \cup Cov[Dummy]
        /\ Seen("normal", Dummy) => \A k \in Kinds : observed'[k] \subseteq observed[k]
    BY <1>0, <1>1, DummyDoes DEF Seen
  <2>2. CoverageHasSeed'
    BY <1>1, <2>1, DummyDoes DEF CoverageHasSeed, CoverageOwned
  <2>3. WeighedWithCoverage'
    BY <1>0, <1>1, DummyDoes DEF WeighedWithCoverage, CoverageOwned
  <2>4. QED
    BY <2>2, <2>3 DEF CoverageOwned
<1>2. CASE ClaimSeed(w)
  <2>1. PICK p \in cand[w] :
          /\ \A k \in Kinds : observed'[k] \subseteq observed[k] \cup Cov[batch[w][p]]
          /\ \/ /\ corpus' = corpus
                /\ \A k \in Kinds : observed'[k] \subseteq observed[k]
             \/ corpus' = corpus \cup {batch[w][p]}
    <3>1. PICK p \in cand[w] :
            /\ observed'[pass[w]] = observed[pass[w]] \cup Cov[batch[w][p]]
            /\ \A k \in Kinds \ {pass[w]} : observed'[k] = observed[k]
            /\ \/ Seen(pass[w], batch[w][p]) /\ corpus' = corpus
               \/ corpus' = corpus \cup {batch[w][p]}
      BY <1>2, ClaimSeedDoes
    <3>2. \A k \in Kinds : observed'[k] \subseteq observed[k] \cup Cov[batch[w][p]]
      BY <1>0, <3>1
    <3>3. Seen(pass[w], batch[w][p]) => \A k \in Kinds : observed'[k] \subseteq observed[k]
      BY <1>0, <3>1 DEF Seen
    <3>4. QED
      BY <3>1, <3>2, <3>3
  <2>2. CoverageHasSeed'
    BY <2>1 DEF CoverageHasSeed, CoverageOwned
  <2>3. WeighedWithCoverage'
    BY <1>2, ClaimSeedDoes DEF WeighedWithCoverage, CoverageOwned
  <2>4. QED
    BY <2>2, <2>3 DEF CoverageOwned
<1>3. CASE UpdateScheduler(w)
  <2>1. CoverageHasSeed'
    BY <1>3, UpdateDoes DEF CoverageHasSeed, CoverageOwned
  <2>2. ASSUME NEW i \in Inputs, sched'["normal"][i] > 0 PROVE i \in saved'
    <3>1. CASE pass[w] = "normal" /\ i = Head(todo[w])[1]
      <4>1. Head(todo[w]) \in Elems(todo[w])
        BY <1>3, UpdateDoes, TailTakes
      <4>2. Head(todo[w])[2] = TRUE /\ pc[w] = "update"
        BY <1>3, <3>1, <4>1, UpdateDoes DEF Passed
      <4>3. QED
        BY <1>3, <3>1, <4>2, UpdateDoes DEF Stages
    <3>2. CASE ~ (pass[w] = "normal" /\ i = Head(todo[w])[1])
      BY <1>0, <1>3, <2>2, <3>2, UpdateDoes DEF WeighedWithCoverage, CoverageOwned
    <3>3. QED
      BY <3>1, <3>2
  <2>3. QED
    BY <2>1, <2>2 DEF CoverageOwned, WeighedWithCoverage
<1>4. CASE UNCHANGED <<corpus, observed, sched>>
  BY <1>0, <1>4 DEF CoverageOwned, CoverageHasSeed, WeighedWithCoverage, Grows
<1>5. QED
  <2>1. CASE StartBatch(w)
    BY <1>4, <2>1 DEF StartBatch, uni
  <2>2. CASE Filter(w) \/ SaveCoverage(w)
    BY <1>4, <2>2, FilterDoes, SaveDoes
  <2>3. CASE Work(w) /\ ~ SeedStep(w)
    BY <1>4, <2>3, QuietSteps DEF SeedQuiet
  <2>4. QED
    BY <1>1, <1>2, <1>3, <2>1, <2>2, <2>3 DEF SeedStep

\* What a worker lists is seen and has no weight under its observer.
Weightless(w) ==
  /\ Distinct(todo[w], First)
  /\ \A i \in Queued(w) : Seen(pass[w], i) /\ sched[pass[w]][i] = 0

\* Two workers that use one observer list different inputs.
Apart(v, w) == pass[v] = pass[w] => Queued(v) \cap Queued(w) = {}

Weighed ==
  /\ ScheduledOnce
  /\ \A k \in Kinds : \A i \in Inputs : sched[k][i] > 0 => Seen(k, i)
  /\ \A w \in Workers : Weightless(w)
  /\ \A v, w \in Workers : v # w => Apart(v, w)

LEMMA QueuedInputs ==
  ASSUME CorpusTypes, NEW w \in Workers
  PROVE  Queued(w) \subseteq Inputs /\ \A e \in Inputs \X BOOLEAN : First[e] = e[1]
<1>1. todo[w] \in Seq(Inputs \X BOOLEAN)
  BY DEF CorpusTypes
<1>2. \A e \in Inputs \X BOOLEAN : First[e] = e[1] /\ First[e] \in Inputs
  BY DEF First
<1>3. \A j \in 1 .. Len(todo[w]) : todo[w][j] \in Inputs \X BOOLEAN
  BY <1>1
<1>4. QED
  BY <1>2, <1>3 DEF Queued, Keys, Elems

LEMMA WeighedKept ==
  ASSUME CorpusTypes, Sizes, \A v \in Workers : Stages(v), NEW w \in Workers, Weighed,
         StartBatch(w) \/ Work(w)
  PROVE  Weighed'
<1>0. /\ Grows /\ Kinds = {"normal", "testlang"} /\ pass[w] \in Kinds
      /\ CorpusTypes' /\ Dummy \in Inputs /\ Stages(w)
      /\ sched \in [Kinds -> [Inputs -> Nat]] /\ sched' \in [Kinds -> [Inputs -> Nat]]
      /\ todo[w] \in Seq(Inputs \X BOOLEAN)
  BY SharedGrows, TypesSplit, TypesJoined, SharedKept, LocalKept, ControlKept,
     CorpusAssumption, ZenonT(40)
     DEF CorpusTypes
<1>1. \A v \in Workers : v # w => todo'[v] = todo[v] /\ pass'[v] = pass[v] /\ Queued(v)' = Queued(v)
  BY OthersHold DEF SameLocals, Queued
<1>2. \A k \in Kinds : \A i \in Inputs : Seen(k, i) => Seen(k, i)'
  BY <1>0 DEF Grows, Seen
\* The queue of w is as it was, or it is empty; nothing was weighed.
<1>3. ASSUME sched' = sched, todo' = todo, pass'[w] = pass[w] \/ todo[w] = <<>>
      PROVE  Weighed'
  <2>1. \A v \in Workers : Queued(v)' = Queued(v) /\ (pass'[v] = pass[v] \/ Queued(v) = {})
    BY <1>1, <1>3, EmptyHasNone DEF Queued
  <2>2. \A v \in Workers : Weightless(v)'
    <3>1. \A v \in Workers : \A i \in Queued(v) : i \in Inputs /\ pass[v] \in Kinds
      BY QueuedInputs DEF CorpusTypes
    <3>2. QED
      BY <1>2, <1>3, <2>1, <3>1 DEF Weighed, Weightless, Seen
  <2>3. \A u, v \in Workers : u # v => Apart(u, v)'
    BY <2>1 DEF Weighed, Apart
  <2>4. \A k \in Kinds : \A i \in Inputs : sched'[k][i] > 0 => Seen(k, i)'
    BY <1>2, <1>3 DEF Weighed
  <2>5. ScheduledOnce'
    BY <1>3 DEF Weighed, ScheduledOnce
  <2>6. QED
    BY <2>2, <2>3, <2>4, <2>5 DEF Weighed
<1>4. CASE DummyAdd(w)
  <2>1. CASE sched' = sched
    BY <1>3, <1>4, <2>1, DummyDoes
  <2>2. CASE sched' # sched
    <3>1. /\ UNCHANGED <<todo, pass>> /\ ~ Seen("normal", Dummy)
          /\ Cov[Dummy] \subseteq observed'["normal"]
          /\ sched'["normal"][Dummy] = sched["normal"][Dummy] + 1
          /\ \A k \in Kinds : \A i \in Inputs :
                    k # "normal" \/ i # Dummy => sched'[k][i] = sched[k][i]
      BY <1>4, <2>2, DummyDoes
    <3>2. sched["normal"][Dummy] = 0
      BY <1>0, <3>1 DEF Weighed
    <3>3. ScheduledOnce'
      <4>1. \A k \in Kinds : \A i \in Inputs : sched[k][i] <= 1
        BY DEF ScheduledOnce, Weighed
      <4>2. sched'["normal"][Dummy] <= 1
        BY <3>1, <3>2
      <4>3. \A k \in Kinds : \A i \in Inputs : sched'[k][i] <= 1
        BY <3>1, <4>1, <4>2
      <4>4. QED
        BY <4>3 DEF ScheduledOnce
    <3>4. ASSUME NEW k \in Kinds, NEW i \in Inputs, sched'[k][i] > 0 PROVE Seen(k, i)'
      <4>1. CASE k = "normal" /\ i = Dummy
        BY <3>1, <4>1 DEF Seen
      <4>2. CASE k # "normal" \/ i # Dummy
        <5>1. sched[k][i] > 0
          BY <3>1, <3>4, <4>2
        <5>2. QED
          BY <1>2, <5>1 DEF Weighed
      <4>3. QED
        BY <4>1, <4>2
    <3>5. ASSUME NEW v \in Workers PROVE Weightless(v)'
      <4>1. \A i \in Queued(v) : i \in Inputs /\ pass[v] \in Kinds
        BY QueuedInputs DEF CorpusTypes
      <4>2. \A i \in Queued(v) : Seen(pass[v], i) /\ sched[pass[v]][i] = 0
        BY DEF Weighed, Weightless
      <4>3. \A i \in Queued(v) : pass[v] # "normal" \/ i # Dummy
        BY <3>1, <4>2
      <4>4. QED
        BY <1>2, <3>1, <4>1, <4>2, <4>3 DEF Weighed, Weightless, Queued, Seen
    <3>6. \A u, v \in Workers : u # v => Apart(u, v)'
      BY <3>1 DEF Weighed, Apart, Queued
    <3>7. QED
      BY <3>3, <3>4, <3>5, <3>6 DEF Weighed
  <2>3. QED
    BY <2>1, <2>2
<1>5. CASE ClaimSeed(w)
  <2>1. PICK p \in cand[w] :
          /\ batch[w][p] \in Inputs
          /\ observed'[pass[w]] = observed[pass[w]] \cup Cov[batch[w][p]]
          /\ \/ corpus' = corpus /\ todo' = todo
             \/ /\ ~ Seen(pass[w], batch[w][p])
                /\ todo'[w] = Append(todo[w], <<batch[w][p], IsNew(w, p, batch[w][p])>>)
    BY <1>5, ClaimSeedDoes
  <2>2. UNCHANGED <<pass, sched>>
    BY <1>5, ClaimSeedDoes
  <2> DEFINE i == batch[w][p]
             e == <<i, IsNew(w, p, i)>>
  <2>3. CASE todo' = todo
    BY <1>3, <2>2, <2>3
  <2>4. CASE ~ Seen(pass[w], i) /\ todo'[w] = Append(todo[w], e)
    <3>1. e \in Inputs \X BOOLEAN /\ First[e] = i
      BY <2>1, QueuedInputs DEF IsNew
    <3>2. i \notin Queued(w) /\ sched[pass[w]][i] = 0
      BY <1>0, <2>1, <2>4, SMTT(30) DEF Weighed, Weightless
    <3>3. Queued(w)' = Queued(w) \cup {i} /\ Distinct(todo'[w], First)
      <4>1. Distinct(todo[w], First) /\ First[e] \notin Keys(todo[w], First)
        BY <3>1, <3>2 DEF Weighed, Weightless, Queued
      <4>2. ASSUME NEW x \in Inputs \X BOOLEAN
            PROVE  /\ Keys(Append(todo[w], x), First) = Keys(todo[w], First) \cup {First[x]}
                   /\ Distinct(todo[w], First) /\ First[x] \notin Keys(todo[w], First) =>
                         Distinct(Append(todo[w], x), First)
        <5>1. todo[w] \in Seq(Inputs \X BOOLEAN)
          BY <1>0
        <5>2. QED
          BY <5>1, AppendTakes
      <4>3. /\ Keys(Append(todo[w], e), First) = Keys(todo[w], First) \cup {First[e]}
            /\ Distinct(Append(todo[w], e), First)
        <5> HIDE DEF e
        <5>1. QED
          BY <3>1, <4>1, <4>2
      <4>4. QED
        <5> HIDE DEF e
        <5>1. QED
          BY <2>4, <3>1, <4>3 DEF Queued
    <3>4. Cov[i] \subseteq observed'[pass'[w]] /\ pass'[w] = pass[w] /\ sched' = sched
      BY <2>1, <2>2
    <3>5. \A v \in Workers : \A j \in Queued(v) : j \in Inputs /\ pass[v] \in Kinds
      BY QueuedInputs DEF CorpusTypes
    <3>6. Weightless(w)'
      <4>1. \A j \in Queued(w) : Seen(pass[w], j) /\ sched[pass[w]][j] = 0
        BY DEF Weighed, Weightless
      <4>2. \A j \in Queued(w) : Cov[j] \subseteq observed'[pass'[w]] /\ sched'[pass'[w]][j] = 0
        BY <1>2, <3>4, <3>5, <4>1 DEF Seen
      <4>3. \A j \in Queued(w)' : Cov[j] \subseteq observed'[pass'[w]] /\ sched'[pass'[w]][j] = 0
        BY <3>2, <3>3, <3>4, <4>2
      <4>4. QED
        BY <3>3, <4>3 DEF Weightless, Seen
    <3>7. \A v \in Workers : v # w => Weightless(v)'
      BY <1>1, <1>2, <2>2, <3>5 DEF Weighed, Weightless
    <3>8. \A v \in Workers : v # w /\ pass[v] = pass[w] => i \notin Queued(v)
      BY <2>4 DEF Weighed, Weightless
    <3>9. \A u, v \in Workers : u # v => Apart(u, v)'
      BY <1>1, <2>2, <3>3, <3>8 DEF Weighed, Apart
    <3>10. \A k \in Kinds : \A j \in Inputs : sched'[k][j] > 0 => Seen(k, j)'
      BY <1>2, <2>2 DEF Weighed
    <3>11. ScheduledOnce'
      BY <2>2 DEF Weighed, ScheduledOnce
    <3>12. QED
      BY <3>6, <3>7, <3>9, <3>10, <3>11 DEF Weighed
  <2>5. QED
    BY <2>1, <2>3, <2>4
<1>6. CASE UpdateScheduler(w)
  <2> DEFINE i == Head(todo[w])[1]
  <2>1. /\ UNCHANGED <<observed, pass>> /\ i \in Inputs
        /\ todo[w] # <<>> /\ todo'[w] = Tail(todo[w])
        /\ sched'[pass[w]][i] = sched[pass[w]][i] + 1
        /\ \A k \in Kinds : \A j \in Inputs : k # pass[w] \/ j # i => sched'[k][j] = sched[k][j]
    BY <1>6, UpdateDoes
  <2>2. First[Head(todo[w])] = i
    BY <1>0, <2>1, TailTakes, QueuedInputs
  <2>3. /\ Queued(w) = Queued(w)' \cup {i} /\ i \notin Queued(w)' /\ Distinct(todo'[w], First)
    <3>1. Distinct(todo[w], First)
      BY DEF Weighed, Weightless
    <3>2. /\ Keys(todo[w], First) = Keys(Tail(todo[w]), First) \cup {First[Head(todo[w])]}
          /\ First[Head(todo[w])] \notin Keys(Tail(todo[w]), First)
          /\ Distinct(Tail(todo[w]), First)
      BY <1>0, <2>1, <3>1, TailTakes, SMTT(30)
    <3>3. QED
      BY <2>1, <2>2, <3>2 DEF Queued
  <2>4. sched[pass[w]][i] = 0 /\ Seen(pass[w], i)
    BY <2>3 DEF Weighed, Weightless
  <2>5. \A v \in Workers : v # w /\ pass[v] = pass[w] => i \notin Queued(v)
    BY <2>3 DEF Weighed, Apart
  <2>6. \A v \in Workers : \A j \in Queued(v) : j \in Inputs /\ pass[v] \in Kinds
    BY QueuedInputs DEF CorpusTypes
  <2>7. Weightless(w)'
    BY <2>1, <2>3, <2>6 DEF Weighed, Weightless, Seen
  <2>8. ASSUME NEW v \in Workers, v # w PROVE Weightless(v)'
    BY <1>1, <2>1, <2>5, <2>6, <2>8 DEF Weighed, Weightless, Seen
  <2>9. \A u, v \in Workers : u # v => Apart(u, v)'
    BY <1>1, <2>1, <2>3 DEF Weighed, Apart
  <2>10. \A k \in Kinds : \A j \in Inputs : sched'[k][j] > 0 => Seen(k, j)'
    BY <2>1, <2>4 DEF Weighed, Seen
  <2>11. ScheduledOnce'
    <3>1. \A k \in Kinds : \A j \in Inputs : sched[k][j] <= 1
      BY DEF ScheduledOnce, Weighed
    <3>2. sched'[pass[w]][i] <= 1
      BY <2>1, <2>4
    <3>3. \A k \in Kinds : \A j \in Inputs : sched'[k][j] <= 1
      BY <2>1, <3>1, <3>2
    <3>4. QED
      BY <3>3 DEF ScheduledOnce
  <2>12. QED
    BY <2>7, <2>8, <2>9, <2>10, <2>11 DEF Weighed
<1>7. CASE StartBatch(w)
  <2>1. sched' = sched /\ todo' = todo /\ pc[w] = "idle"
    BY <1>7 DEF StartBatch, uni
  <2>2. QED
    BY <1>0, <1>3, <2>1 DEF Stages
<1>8. CASE Filter(w)
  <2>1. sched' = sched /\ todo' = todo /\ pc[w] = "filter"
    BY <1>8, FilterDoes
  <2>2. QED
    BY <1>0, <1>3, <2>1 DEF Stages
<1>9. CASE SaveCoverage(w)
  BY <1>3, <1>9, SaveDoes
<1>10. CASE Work(w) /\ ~ SeedStep(w)
  BY <1>3, <1>10, QuietSteps DEF SeedQuiet
<1>11. QED
  BY <1>4, <1>5, <1>6, <1>7, <1>8, <1>9, <1>10 DEF SeedStep

\* Every seed has its coverage file and its weight, or is on its way to them.
SavedOrQueued(i) == i \in saved \/ \E v \in Workers : <<i, TRUE>> \in Elems(todo[v])
WeighedOrQueued(i) ==
  (\E k \in Kinds : sched[k][i] > 0) \/ \E v \in Workers : i \in Queued(v)

SeedsTracked == \A i \in corpus : SavedOrQueued(i) /\ WeighedOrQueued(i)

LEMMA SeedsTrackedKept ==
  ASSUME CorpusTypes, Sizes, NEW w \in Workers, Stages(w), Passed(w), SeedsTracked,
         StartBatch(w) \/ Work(w)
  PROVE  SeedsTracked'
<1>0. /\ Grows /\ Kinds = {"normal", "testlang"} /\ pass[w] \in Kinds
      /\ CorpusTypes' /\ Dummy \in Inputs /\ corpus \subseteq Inputs /\ corpus' \subseteq Inputs
      /\ sched \in [Kinds -> [Inputs -> Nat]] /\ sched' \in [Kinds -> [Inputs -> Nat]]
      /\ todo[w] \in Seq(Inputs \X BOOLEAN)
  BY SharedGrows, TypesSplit, TypesJoined, SharedKept, LocalKept, ControlKept, CorpusAssumption
     DEF CorpusTypes
<1>1. \A v \in Workers : v # w => todo'[v] = todo[v]
  BY OthersHold DEF SameLocals
\* A seed stays tracked when its entry stays queued and weights are kept.
<1>2. ASSUME NEW i \in corpus,
             <<i, TRUE>> \in Elems(todo[w]) => <<i, TRUE>> \in Elems(todo'[w]) \/ i \in saved',
             i \in Queued(w) => i \in Queued(w)' \/ \E k \in Kinds : sched'[k][i] > 0,
             \A k \in Kinds : sched[k][i] > 0 => sched'[k][i] > 0
      PROVE  SavedOrQueued(i)' /\ WeighedOrQueued(i)'
  <2>1. SavedOrQueued(i) /\ WeighedOrQueued(i)
    BY DEF SeedsTracked
  <2>2. SavedOrQueued(i)'
    BY <1>0, <1>1, <1>2, <2>1 DEF SavedOrQueued, Grows
  <2>3. \A v \in Workers : v # w => Queued(v)' = Queued(v)
    BY <1>1 DEF Queued
  <2>4. WeighedOrQueued(i)'
    BY <1>2, <2>1, <2>3 DEF WeighedOrQueued
  <2>5. QED
    BY <2>2, <2>4
<1>3. CASE UNCHANGED <<corpus, sched, todo>>
  BY <1>2, <1>3 DEF SeedsTracked, Queued
<1>4. CASE DummyAdd(w)
  <2>1. todo' = todo /\ corpus' \in {corpus, corpus \cup {Dummy}}
    BY <1>4, DummyDoes
  <2>2. \A k \in Kinds : \A i \in Inputs : sched[k][i] > 0 => sched'[k][i] > 0
    <3>1. CASE sched' = sched
      BY <3>1
    <3>2. CASE /\ sched'["normal"][Dummy] = sched["normal"][Dummy] + 1
               /\ \A k \in Kinds : \A i \in Inputs :
                    k # "normal" \/ i # Dummy => sched'[k][i] = sched[k][i]
      <4>1. sched["normal"][Dummy] \in Nat
        BY <1>0
      <4>2. QED
        BY <3>2, <4>1
    <3>3. QED
      BY <1>4, <3>1, <3>2, DummyDoes
  <2>3. \A i \in corpus : SavedOrQueued(i)' /\ WeighedOrQueued(i)'
    BY <1>0, <1>2, <2>1, <2>2 DEF Queued
  <2>4. corpus' # corpus => Dummy \in saved' /\ sched'["normal"][Dummy] > 0
    <3>1. sched["normal"][Dummy] \in Nat
      BY <1>0
    <3>2. QED
      BY <1>4, <3>1, DummyDoes
  <2>5. corpus' # corpus => SavedOrQueued(Dummy)' /\ WeighedOrQueued(Dummy)'
    BY <1>0, <2>4 DEF SavedOrQueued, WeighedOrQueued
  <2>6. QED
    BY <2>1, <2>3, <2>5 DEF SeedsTracked
<1>5. CASE ClaimSeed(w)
  <2>1. PICK p \in cand[w], i \in Inputs :
          /\ i = batch[w][p]
          /\ \/ corpus' = corpus /\ todo' = todo
             \/ /\ corpus' = corpus \cup {i}
                /\ todo'[w] = Append(todo[w], <<i, IsNew(w, p, i)>>)
    BY <1>5, ClaimSeedDoes
  <2>2. sched' = sched
    BY <1>5, ClaimSeedDoes
  <2> DEFINE e == <<i, IsNew(w, p, i)>>
  <2>3. CASE corpus' = corpus /\ todo' = todo
    BY <1>3, <2>2, <2>3
  <2>4. CASE corpus' = corpus \cup {i} /\ todo'[w] = Append(todo[w], e)
    <3>1. e \in Inputs \X BOOLEAN /\ First[e] = i
      BY <2>1, QueuedInputs DEF IsNew
    <3>2. i \notin corpus => e = <<i, TRUE>>
      BY <2>1 DEF IsNew, Passed
    <3>3. Elems(todo'[w]) = Elems(todo[w]) \cup {e} /\ Queued(w)' = Queued(w) \cup {First[e]}
      <4> HIDE DEF e
      <4>1. /\ Elems(Append(todo[w], e)) = Elems(todo[w]) \cup {e}
            /\ Keys(Append(todo[w], e), First) = Keys(todo[w], First) \cup {First[e]}
        BY <1>0, <3>1, AppendTakes, SMTT(30)
      <4>2. QED
        BY <2>4, <4>1 DEF Queued
    <3>4. \A j \in corpus : SavedOrQueued(j)' /\ WeighedOrQueued(j)'
      BY <1>2, <2>2, <3>3
    <3>5. i \notin corpus => SavedOrQueued(i)' /\ WeighedOrQueued(i)'
      BY <3>1, <3>2, <3>3 DEF SavedOrQueued, WeighedOrQueued
    <3>6. QED
      BY <2>4, <3>4, <3>5 DEF SeedsTracked
  <2>5. QED
    BY <2>1, <2>3, <2>4
<1>6. CASE UpdateScheduler(w)
  <2>1. PICK i \in Inputs :
        /\ i = Head(todo[w])[1]
        /\ corpus' = corpus /\ saved' = saved /\ pc[w] = "update"
        /\ todo[w] # <<>> /\ todo'[w] = Tail(todo[w])
        /\ sched'[pass[w]][i] = sched[pass[w]][i] + 1
        /\ \A k \in Kinds : \A j \in Inputs : k # pass[w] \/ j # i => sched'[k][j] = sched[k][j]
    BY <1>6, UpdateDoes
  <2>2. sched[pass[w]][i] \in Nat
    BY <1>0, <2>1
  <2>3. \A k \in Kinds : \A j \in Inputs : sched[k][j] > 0 => sched'[k][j] > 0
    BY <2>1, <2>2, SMTT(30)
  <2>4. First[Head(todo[w])] = i
    BY <1>0, <2>1, TailTakes, QueuedInputs
  <2>5. /\ Elems(todo[w]) = Elems(todo'[w]) \cup {Head(todo[w])}
        /\ Queued(w) = Queued(w)' \cup {i}
    <3>1. /\ Elems(todo[w]) = Elems(Tail(todo[w])) \cup {Head(todo[w])}
          /\ Keys(todo[w], First) = Keys(Tail(todo[w]), First) \cup {First[Head(todo[w])]}
      <4>1. todo[w] \in Seq(Inputs \X BOOLEAN) /\ todo[w] # <<>>
        BY <1>0, <2>1
      <4>2. QED
        BY <4>1, TailTakes
    <3>2. QED
      BY <2>1, <2>4, <3>1 DEF Queued
  <2>6. Head(todo[w])[2] = TRUE => i \in saved
    BY <2>1 DEF Stages
  <2>7. ASSUME NEW j \in corpus PROVE SavedOrQueued(j)' /\ WeighedOrQueued(j)'
    <3>1. <<j, TRUE>> \in Elems(todo[w]) => <<j, TRUE>> \in Elems(todo'[w]) \/ j \in saved'
      <4>1. ASSUME <<j, TRUE>> = Head(todo[w]) PROVE j \in saved
        <5>1. <<j, TRUE>>[1] = j /\ <<j, TRUE>>[2] = TRUE
          OBVIOUS
        <5>2. QED
          BY <2>1, <2>6, <4>1, <5>1, Zenon
      <4>2. QED
        BY <2>1, <2>5, <4>1
    <3>2. j \in Queued(w) => j \in Queued(w)' \/ \E k \in Kinds : sched'[k][j] > 0
      <4>1. sched'[pass[w]][i] > 0
        BY <2>1, <2>2
      <4>2. QED
        BY <1>0, <2>5, <4>1
    <3>3. QED
      BY <1>0, <1>2, <2>3, <3>1, <3>2
  <2>8. QED
    BY <2>1, <2>7 DEF SeedsTracked
<1>7. QED
  <2>1. CASE StartBatch(w)
    BY <1>3, <2>1 DEF StartBatch, uni
  <2>2. CASE Filter(w) \/ SaveCoverage(w)
    BY <1>3, <2>2, FilterDoes, SaveDoes
  <2>3. CASE Work(w) /\ ~ SeedStep(w)
    BY <1>3, <2>3, QuietSteps DEF SeedQuiet
  <2>4. QED
    BY <1>4, <1>5, <1>6, <2>1, <2>2, <2>3 DEF SeedStep

-----------------------------------------------------------------------------
(* Crashes. *)

\* A log that is to be submitted was claimed, by one worker, once, and was not
\* submitted before.
ToSubmit(w) ==
  /\ Distinct(submits[w], PovLog)
  /\ \A l \in LogsOf(w) : l \in crashLogs /\ submitted[l] = 0

Submits ==
  /\ SubmittedOnce
  /\ \A l \in Logs : submitted[l] > 0 => l \in crashLogs
  /\ \A i \in solutions : PovLog[i] \in crashLogs
  /\ \A w \in Workers : ToSubmit(w)
  /\ \A v, w \in Workers : v # w => LogsOf(v) \cap LogsOf(w) = {}

\* A claimed crash has its coverage saved and its log submitted, or is on its
\* way to them.
CoveredOrHeld(i) == i \in saved \cup corpus \/ \E v \in Workers : i \in Elems(submits[v])
SubmittedOrHeld(l) == submitted[l] > 0 \/ \E v \in Workers : l \in LogsOf(v)

PovsTracked ==
  /\ \A i \in solutions : CoveredOrHeld(i)
  /\ \A l \in crashLogs : SubmittedOrHeld(l)

PovQuiet == UNCHANGED <<solutions, crashLogs, submits, submitted>>

LEMMA PovQuietSteps ==
  ASSUME NEW w \in Workers, StartBatch(w) \/ Work(w), ~ ClaimPov(w), ~ SubmitPov(w)
  PROVE  PovQuiet
BY Zenon DEF Work, StartBatch, DummyCheck, DummyAdd, Filter, ClaimLock, ClaimSeed, ClaimUnlock,
   SaveCoverage, UpdateScheduler, CrashFilter, RunPov, PovLock, PovUnlock, SavePov, uni, crashV,
   PovQuiet

LEMMA ClaimPovDoes ==
  ASSUME CorpusTypes, NEW w \in Workers, ClaimPov(w), \A i \in solutions : PovLog[i] \in crashLogs
  PROVE  /\ submitted' = submitted
         /\ \E i \in Inputs :
              /\ crashLogs' = crashLogs \cup {PovLog[i]}
              /\ \/ PovLog[i] \in crashLogs /\ solutions' = solutions /\ submits' = submits
                 \/ /\ PovLog[i] \notin crashLogs /\ solutions' = solutions \cup {i}
                    /\ submits'[w] = Append(submits[w], i)
<1>1. submitted' = submitted /\ povs[w] # <<>>
  BY DEF ClaimPov
<1>2. povs[w] \in Seq(Inputs) /\ submits \in [Workers -> Seq(Inputs)]
  BY DEF CorpusTypes
<1>3. PICK i \in Inputs : i = Head(povs[w])
  BY <1>1, <1>2, TailTakes
<1>4. CASE PovLog[i] \in crashLogs
  BY <1>1, <1>3, <1>4 DEF ClaimPov, NewLog
<1>5. CASE PovLog[i] \notin crashLogs
  <2>1. i \notin solutions
    BY <1>5
  <2>2. submits' = [submits EXCEPT ![w] = Append(@, i)]
    BY <1>3, <1>5, <2>1 DEF ClaimPov, NewLog
  <2>3. crashLogs' = crashLogs \cup {PovLog[i]} /\ solutions' = solutions \cup {i}
    BY <1>3, <1>5 DEF ClaimPov, NewLog
  <2>4. QED
    BY <1>1, <1>2, <1>5, <2>2, <2>3
<1>6. QED
  BY <1>4, <1>5

LEMMA SubmitDoes ==
  ASSUME CorpusTypes, NEW w \in Workers, Stages(w), SubmitPov(w)
  PROVE  /\ UNCHANGED <<solutions, crashLogs>>
         /\ submits[w] \in Seq(Inputs) /\ submits[w] # <<>> /\ submits'[w] = Tail(submits[w])
         /\ \E i \in Inputs :
              /\ i = Head(submits[w]) /\ i \in saved \cup corpus /\ PovLog[i] \in Logs
              /\ submitted'[PovLog[i]] = submitted[PovLog[i]] + 1
              /\ \A l \in Logs : l # PovLog[i] => submitted'[l] = submitted[l]
<1>1. /\ submits \in [Workers -> Seq(Inputs)] /\ submitted \in [Logs -> Nat]
      /\ PovLog \in [Inputs -> Logs]
  BY CorpusAssumption DEF CorpusTypes
<1>2. /\ UNCHANGED <<solutions, crashLogs>> /\ pc[w] = "submit"
      /\ submitted' = [submitted EXCEPT ![PovLog[Head(submits[w])]] = @ + 1]
      /\ submits' = [submits EXCEPT ![w] = Tail(@)]
  BY DEF SubmitPov, uni
<1>3. submits[w] # <<>> /\ Head(submits[w]) \in saved \cup corpus
  BY <1>2 DEF Stages
<1>4. PICK i \in Inputs : i = Head(submits[w])
  BY <1>1, <1>3, TailTakes
<1>5. PovLog[i] \in Logs
  BY <1>1
<1>6. /\ submitted'[PovLog[i]] = submitted[PovLog[i]] + 1
      /\ \A l \in Logs : l # PovLog[i] => submitted'[l] = submitted[l]
  BY <1>1, <1>2, <1>4, <1>5
<1>7. QED
  BY <1>1, <1>2, <1>3, <1>4, <1>5, <1>6

LEMMA HeldLogs ==
  ASSUME CorpusTypes, NEW w \in Workers
  PROVE  LogsOf(w) \subseteq Logs /\ submits[w] \in Seq(Inputs) /\ PovLog \in [Inputs -> Logs]
<1>1. submits[w] \in Seq(Inputs) /\ PovLog \in [Inputs -> Logs]
  BY CorpusAssumption DEF CorpusTypes
<1>2. \A j \in 1 .. Len(submits[w]) : submits[w][j] \in Inputs
  BY <1>1
<1>3. QED
  BY <1>1, <1>2 DEF LogsOf, Keys, Elems

LEMMA SubmitsKept ==
  ASSUME CorpusTypes, NEW w \in Workers, Stages(w), Submits, StartBatch(w) \/ Work(w)
  PROVE  Submits'
<1>0. /\ \A v \in Workers : LogsOf(v) \subseteq Logs /\ submits[v] \in Seq(Inputs)
      /\ PovLog \in [Inputs -> Logs] /\ submitted \in [Logs -> Nat]
  BY HeldLogs DEF CorpusTypes
<1>1. \A v \in Workers : v # w => submits'[v] = submits[v] /\ LogsOf(v)' = LogsOf(v)
  BY OthersHold DEF SameLocals, LogsOf
<1>2. /\ \A l \in Logs : submitted[l] <= 1 /\ (submitted[l] > 0 => l \in crashLogs)
      /\ \A i \in solutions : PovLog[i] \in crashLogs
      /\ \A v \in Workers : /\ Distinct(submits[v], PovLog)
                            /\ \A l \in LogsOf(v) : l \in crashLogs /\ submitted[l] = 0
      /\ \A u, v \in Workers : u # v => LogsOf(u) \cap LogsOf(v) = {}
  BY DEF Submits, ToSubmit, SubmittedOnce
<1>3. CASE PovQuiet
  BY <1>3 DEF PovQuiet, Submits, ToSubmit, SubmittedOnce, LogsOf
<1>4. CASE ClaimPov(w)
  <2>1. PICK i \in Inputs :
          /\ crashLogs' = crashLogs \cup {PovLog[i]}
          /\ \/ PovLog[i] \in crashLogs /\ solutions' = solutions /\ submits' = submits
             \/ /\ PovLog[i] \notin crashLogs /\ solutions' = solutions \cup {i}
                /\ submits'[w] = Append(submits[w], i)
    BY <1>2, <1>4, ClaimPovDoes
  <2>2. submitted' = submitted
    BY <1>2, <1>4, ClaimPovDoes
  <2>3. CASE PovLog[i] \in crashLogs /\ solutions' = solutions /\ submits' = submits
    <3>1. PovQuiet
      BY <2>1, <2>2, <2>3 DEF PovQuiet
    <3>2. QED
      BY <1>3, <3>1
  <2>4. CASE /\ PovLog[i] \notin crashLogs /\ solutions' = solutions \cup {i}
             /\ submits'[w] = Append(submits[w], i)
    <3>1. \A v \in Workers : PovLog[i] \notin LogsOf(v)
      BY <1>2, <2>4
    <3>2. submitted[PovLog[i]] = 0
      BY <1>0, <1>2, <2>4
    <3>3. /\ LogsOf(w)' = LogsOf(w) \cup {PovLog[i]}
          /\ Distinct(submits'[w], PovLog)
      <4>1. submits[w] \in Seq(Inputs)
        BY <1>0
      <4>2. /\ Keys(Append(submits[w], i), PovLog) = Keys(submits[w], PovLog) \cup {PovLog[i]}
            /\ Distinct(submits[w], PovLog) /\ PovLog[i] \notin Keys(submits[w], PovLog)
                 => Distinct(Append(submits[w], i), PovLog)
        BY <4>1, AppendTakes
      <4>3. Distinct(submits[w], PovLog) /\ PovLog[i] \notin Keys(submits[w], PovLog)
        BY <1>2, <3>1 DEF LogsOf
      <4>4. QED
        BY <2>4, <4>2, <4>3 DEF LogsOf
    <3>4. ToSubmit(w)'
      BY <1>2, <2>1, <2>2, <3>2, <3>3 DEF ToSubmit
    <3>5. \A v \in Workers : v # w => ToSubmit(v)'
      BY <1>1, <1>2, <2>1, <2>2 DEF ToSubmit
    <3>6. \A u, v \in Workers : u # v => LogsOf(u)' \cap LogsOf(v)' = {}
      BY <1>1, <1>2, <3>1, <3>3
    <3>7. \A j \in solutions' : PovLog[j] \in crashLogs'
      BY <1>2, <2>1, <2>4
    <3>8. \A l \in Logs : submitted'[l] <= 1 /\ (submitted'[l] > 0 => l \in crashLogs')
      BY <1>2, <2>1, <2>2
    <3>9. QED
      BY <3>4, <3>5, <3>6, <3>7, <3>8 DEF Submits, SubmittedOnce
  <2>5. QED
    BY <2>1, <2>3, <2>4
<1>5. CASE SubmitPov(w)
  <2>1. /\ UNCHANGED <<solutions, crashLogs>>
        /\ submits[w] \in Seq(Inputs) /\ submits[w] # <<>> /\ submits'[w] = Tail(submits[w])
    BY <1>5, SubmitDoes
  <2>2. PICK i \in Inputs :
          /\ i = Head(submits[w]) /\ PovLog[i] \in Logs
          /\ submitted'[PovLog[i]] = submitted[PovLog[i]] + 1
          /\ \A l \in Logs : l # PovLog[i] => submitted'[l] = submitted[l]
    BY <1>5, SubmitDoes
  <2>3. /\ LogsOf(w) = LogsOf(w)' \cup {PovLog[i]} /\ PovLog[i] \notin LogsOf(w)'
        /\ Distinct(submits'[w], PovLog)
    <3>1. /\ Keys(submits[w], PovLog) = Keys(Tail(submits[w]), PovLog) \cup {PovLog[Head(submits[w])]}
          /\ Distinct(submits[w], PovLog) => /\ Distinct(Tail(submits[w]), PovLog)
                                             /\ PovLog[Head(submits[w])] \notin Keys(Tail(submits[w]), PovLog)
      BY <2>1, TailTakes
    <3>2. QED
      BY <1>2, <2>1, <2>2, <3>1 DEF LogsOf
  <2>4. submitted[PovLog[i]] = 0 /\ PovLog[i] \in crashLogs
    BY <1>2, <2>3
  <2>5. \A v \in Workers : v # w => PovLog[i] \notin LogsOf(v)
    BY <1>2, <2>3
  <2>6. ToSubmit(w)'
    <3>1. \A l \in LogsOf(w)' : l \in crashLogs' /\ submitted'[l] = 0
      BY <1>0, <1>2, <2>1, <2>2, <2>3
    <3>2. QED
      BY <2>3, <3>1 DEF ToSubmit
  <2>7. ASSUME NEW v \in Workers, v # w PROVE ToSubmit(v)'
    <3>1. \A l \in LogsOf(v) : l \in crashLogs' /\ submitted'[l] = 0
      BY <1>0, <1>2, <2>1, <2>2, <2>5, <2>7
    <3>2. QED
      BY <1>1, <1>2, <2>7, <3>1 DEF ToSubmit
  <2>8. \A u, v \in Workers : u # v => LogsOf(u)' \cap LogsOf(v)' = {}
    BY <1>1, <1>2, <2>3
  <2>9. \A l \in Logs : submitted'[l] <= 1 /\ (submitted'[l] > 0 => l \in crashLogs')
    BY <1>0, <1>2, <2>1, <2>2, <2>4
  <2>10. QED
    BY <1>2, <2>1, <2>6, <2>7, <2>8, <2>9 DEF Submits, SubmittedOnce
<1>6. QED
  BY <1>3, <1>4, <1>5, PovQuietSteps

LEMMA PovsTrackedKept ==
  ASSUME CorpusTypes, NEW w \in Workers, Stages(w), Submits, PovsTracked, StartBatch(w) \/ Work(w)
  PROVE  PovsTracked'
<1>0. /\ \A v \in Workers : LogsOf(v) \subseteq Logs /\ submits[v] \in Seq(Inputs)
      /\ PovLog \in [Inputs -> Logs] /\ submitted \in [Logs -> Nat] /\ crashLogs \subseteq Logs
      /\ saved \subseteq saved' /\ corpus \subseteq corpus'
  BY HeldLogs, SharedGrows DEF CorpusTypes, Grows
<1>1. \A v \in Workers : v # w => submits'[v] = submits[v] /\ LogsOf(v)' = LogsOf(v)
  BY OthersHold DEF SameLocals, LogsOf
<1>2. /\ \A i \in solutions : PovLog[i] \in crashLogs
      /\ \A i \in solutions : i \in saved \cup corpus \/ \E v \in Workers : i \in Elems(submits[v])
      /\ \A l \in crashLogs : submitted[l] > 0 \/ \E v \in Workers : l \in LogsOf(v)
  BY DEF Submits, PovsTracked, CoveredOrHeld, SubmittedOrHeld
<1>3. CASE PovQuiet
  BY <1>0, <1>3 DEF PovQuiet, PovsTracked, CoveredOrHeld, SubmittedOrHeld, LogsOf
<1>4. CASE ClaimPov(w)
  <2>1. PICK i \in Inputs :
          /\ crashLogs' = crashLogs \cup {PovLog[i]}
          /\ \/ PovLog[i] \in crashLogs /\ solutions' = solutions /\ submits' = submits
             \/ /\ PovLog[i] \notin crashLogs /\ solutions' = solutions \cup {i}
                /\ submits'[w] = Append(submits[w], i)
    BY <1>2, <1>4, ClaimPovDoes
  <2>2. submitted' = submitted
    BY <1>2, <1>4, ClaimPovDoes
  <2>3. CASE PovLog[i] \in crashLogs /\ solutions' = solutions /\ submits' = submits
    <3>1. PovQuiet
      BY <2>1, <2>2, <2>3 DEF PovQuiet
    <3>2. QED
      BY <1>3, <3>1
  <2>4. CASE solutions' = solutions \cup {i} /\ submits'[w] = Append(submits[w], i)
    <3>1. /\ LogsOf(w)' = LogsOf(w) \cup {PovLog[i]}
          /\ Elems(submits'[w]) = Elems(submits[w]) \cup {i}
      <4>1. submits[w] \in Seq(Inputs)
        BY <1>0
      <4>2. /\ Keys(Append(submits[w], i), PovLog) = Keys(submits[w], PovLog) \cup {PovLog[i]}
            /\ Elems(Append(submits[w], i)) = Elems(submits[w]) \cup {i}
        BY <4>1, AppendTakes
      <4>3. QED
        BY <2>4, <4>2 DEF LogsOf
    <3>2. \A j \in solutions' : CoveredOrHeld(j)'
      BY <1>0, <1>1, <1>2, <2>4, <3>1 DEF CoveredOrHeld
    <3>3. \A l \in crashLogs' : SubmittedOrHeld(l)'
      BY <1>1, <1>2, <2>1, <2>2, <3>1 DEF SubmittedOrHeld
    <3>4. QED
      BY <3>2, <3>3 DEF PovsTracked
  <2>5. QED
    BY <2>1, <2>3, <2>4
<1>5. CASE SubmitPov(w)
  <2>1. /\ UNCHANGED <<solutions, crashLogs>>
        /\ submits[w] \in Seq(Inputs) /\ submits[w] # <<>> /\ submits'[w] = Tail(submits[w])
    BY <1>5, SubmitDoes
  <2>2. PICK i \in Inputs :
          /\ i = Head(submits[w]) /\ i \in saved \cup corpus /\ PovLog[i] \in Logs
          /\ submitted'[PovLog[i]] = submitted[PovLog[i]] + 1
          /\ \A l \in Logs : l # PovLog[i] => submitted'[l] = submitted[l]
    BY <1>5, SubmitDoes
  <2>3. /\ LogsOf(w) = LogsOf(w)' \cup {PovLog[i]}
        /\ Elems(submits[w]) = Elems(submits'[w]) \cup {i}
    <3>1. /\ Keys(submits[w], PovLog) = Keys(Tail(submits[w]), PovLog) \cup {PovLog[Head(submits[w])]}
          /\ Elems(submits[w]) = Elems(Tail(submits[w])) \cup {Head(submits[w])}
      BY <2>1, TailTakes
    <3>2. QED
      BY <2>1, <2>2, <3>1 DEF LogsOf
  <2>4. submitted'[PovLog[i]] > 0
    BY <1>0, <2>2
  <2>5. \A j \in solutions' : CoveredOrHeld(j)'
    BY <1>0, <1>1, <1>2, <2>1, <2>2, <2>3 DEF CoveredOrHeld
  <2>6. \A l \in crashLogs' : SubmittedOrHeld(l)'
    BY <1>0, <1>1, <1>2, <2>1, <2>2, <2>3, <2>4, ZenonT(40) DEF SubmittedOrHeld
  <2>7. QED
    BY <2>5, <2>6 DEF PovsTracked
<1>6. QED
  BY <1>3, <1>4, <1>5, PovQuietSteps

-----------------------------------------------------------------------------
\* The inductive invariant of the corpus.
CorpusIInv ==
  /\ CorpusTypes /\ Sizes /\ \A w \in Workers : Stages(w)
  /\ InCorpusSeen /\ \A w \in Workers : Passed(w)
  /\ CoverageOwned /\ Weighed /\ SeedsTracked
  /\ Submits /\ PovsTracked

LEMMA CorpusInitInv == CorpusInit => CorpusIInv
<1> SUFFICES ASSUME CorpusInit PROVE CorpusIInv
  OBVIOUS
<1>1. CorpusTypes /\ Sizes /\ \A w \in Workers : Stages(w)
  BY CorpusInitTypes
<1>2. /\ corpus = {} /\ solutions = {} /\ crashLogs = {}
      /\ \A k \in Kinds : observed[k] = {} /\ \A i \in Inputs : sched[k][i] = 0
      /\ \A l \in Logs : submitted[l] = 0
      /\ \A w \in Workers : /\ batch[w] = <<>> /\ pass[w] = "normal" /\ claimed[w] = {}
                            /\ todo[w] = <<>> /\ submits[w] = <<>>
  BY DEF CorpusInit
<1>3. "normal" \in Kinds
  BY CorpusAssumption
<1>4. \A w \in Workers : Queued(w) = {} /\ LogsOf(w) = {} /\ Elems(todo[w]) = {}
  BY <1>2, EmptyHasNone DEF Queued, LogsOf
<1>5. InCorpusSeen /\ CoverageOwned
  BY <1>2, <1>3 DEF InCorpusSeen, CoverageOwned, CoverageHasSeed, WeighedWithCoverage
<1>6. \A w \in Workers : Passed(w)
  BY <1>2, <1>4 DEF Passed
<1>7. Weighed /\ SeedsTracked
  BY <1>2, <1>4, EmptyHasNone
     DEF Weighed, Weightless, Apart, ScheduledOnce, SeedsTracked
<1>8. Submits /\ PovsTracked
  BY <1>2, <1>4, EmptyHasNone DEF Submits, ToSubmit, SubmittedOnce, PovsTracked
<1>9. QED
  BY <1>1, <1>5, <1>6, <1>7, <1>8 DEF CorpusIInv

LEMMA CorpusNextInv == CorpusIInv /\ [CorpusNext]_corpusVars => CorpusIInv'
<1> SUFFICES ASSUME CorpusIInv, [CorpusNext]_corpusVars PROVE CorpusIInv'
  OBVIOUS
<1>1. CASE UNCHANGED corpusVars
  <2>1. /\ CorpusTypes' /\ Sizes' /\ \A w \in Workers : Stages(w)'
    BY <1>1 DEF CorpusIInv, corpusVars, uni, locks, seedsV, crashV, CorpusTypes, Sizes, Stages
  <2>2. InCorpusSeen' /\ CoverageOwned' /\ \A w \in Workers : Passed(w)'
    BY <1>1 DEF CorpusIInv, corpusVars, uni, locks, seedsV, crashV, InCorpusSeen, Passed, Seen,
       CoverageOwned, CoverageHasSeed, WeighedWithCoverage
  <2>3. Weighed' /\ SeedsTracked'
    BY <1>1 DEF CorpusIInv, corpusVars, uni, locks, seedsV, crashV, Weighed, Weightless, Apart,
       ScheduledOnce, Queued, Seen, SeedsTracked, SavedOrQueued, WeighedOrQueued
  <2>4. Submits' /\ PovsTracked'
    BY <1>1 DEF CorpusIInv, corpusVars, uni, locks, seedsV, crashV, Submits, ToSubmit,
       SubmittedOnce, LogsOf, PovsTracked, CoveredOrHeld, SubmittedOrHeld
  <2>5. QED
    BY <2>1, <2>2, <2>3, <2>4 DEF CorpusIInv
<1>2. ASSUME NEW w \in Workers, StartBatch(w) \/ Work(w) PROVE CorpusIInv'
  <2>1. CorpusTypes' /\ Sizes' /\ \A v \in Workers : Stages(v)'
    BY <1>2, BasicsKept DEF CorpusIInv
  <2>2. InCorpusSeen' /\ Passed(w)'
    BY <1>2, CorpusSeenKept DEF CorpusIInv
  <2>3. ASSUME NEW v \in Workers, v # w PROVE Passed(v)'
    <3>1. Grows /\ SameLocals(v) /\ Passed(v) /\ "normal" \in Kinds
      BY <1>2, <2>3, SharedGrows, OthersHold, CorpusAssumption DEF CorpusIInv
    <3>2. QED
      BY <3>1 DEF Passed, Claiming, Seen, Grows, SameLocals
  <2>4. CoverageOwned'
    BY <1>2, CoverageOwnedKept DEF CorpusIInv
  <2>5. Weighed'
    BY <1>2, WeighedKept DEF CorpusIInv
  <2>6. SeedsTracked'
    BY <1>2, SeedsTrackedKept DEF CorpusIInv
  <2>7. Submits' /\ PovsTracked'
    BY <1>2, SubmitsKept, PovsTrackedKept DEF CorpusIInv
  <2>8. QED
    BY <2>1, <2>2, <2>3, <2>4, <2>5, <2>6, <2>7 DEF CorpusIInv
<1>3. QED
  BY <1>1, <1>2 DEF CorpusNext

LEMMA CorpusInvariant == CorpusSpec => []CorpusIInv
BY CorpusInitInv, CorpusNextInv, PTL DEF CorpusSpec

\* The locks are held by the workers that are in their critical sections, and
\* everything keeps its type (process_new_seeds, process_povs).
THEOREM CorpusTypeCorrect == CorpusSpec => []CorpusTypes
<1>1. CorpusIInv => CorpusTypes
  BY DEF CorpusIInv
<1>2. QED
  BY CorpusInvariant, <1>1, PTL

\* However many workers find the same seed or the same crash at the same time,
\* the scheduler weighs a seed once for each observer and a crash log is
\* submitted once (process_new_seeds, process_povs, crash_observer).
THEOREM ClaimsAreExclusive == CorpusSpec => []ClaimedOnce
<1>1. CorpusIInv => ClaimedOnce
  BY DEF CorpusIInv, Weighed, Submits, ClaimedOnce
<1>2. QED
  BY CorpusInvariant, <1>1, PTL

\* Coverage that counts as seen is that of a seed of the corpus, and the
\* scheduler finds the coverage file of what it weighs (process_new_seeds).
THEOREM CoverageIsOwned == CorpusSpec => []CoverageOwned
<1>1. CorpusIInv => CoverageOwned
  BY DEF CorpusIInv
<1>2. QED
  BY CorpusInvariant, <1>1, PTL

\* Between batches no claimed seed or crash is left half done: all coverage is
\* saved, all seeds are weighed, all logs are submitted (process_new_seeds,
\* process_povs).
THEOREM NothingHalfDone == CorpusSpec => []Settled
<1>1. ASSUME CorpusIInv PROVE Settled
  <2>1. SUFFICES ASSUME Idle PROVE Settled
    BY DEF Settled, SeedsSettled, PovsSettled
  <2>2. \A w \in Workers : todo[w] = <<>> /\ submits[w] = <<>>
    BY <1>1, <2>1 DEF CorpusIInv, Stages, Idle
  <2>3. \A w \in Workers : Queued(w) = {} /\ LogsOf(w) = {} /\ Elems(todo[w]) = {} /\ Elems(submits[w]) = {}
    BY <2>2, EmptyHasNone DEF Queued, LogsOf
  <2>4. SeedsSettled
    BY <1>1, <2>3 DEF CorpusIInv, SeedsTracked, SavedOrQueued, WeighedOrQueued, SeedsSettled
  <2>5. PovsSettled
    BY <1>1, <2>1, <2>3, <2>4
       DEF CorpusIInv, PovsTracked, CoveredOrHeld, SubmittedOrHeld, PovsSettled, SeedsSettled
  <2>6. QED
    BY <2>4, <2>5 DEF Settled
<1>2. QED
  BY CorpusInvariant, <1>1, PTL

(***************************************************************************)
(* The symbolizer.                                                         *)
(***************************************************************************)
Busy == {"wait", "fallback", "write", "print"}

\* The request is in the input pipe, in the main thread or in the output pipe.
Pipes ==
  /\ outq \in {0, 1} /\ (upc # "read" => outq = 0)
  /\ upc # "idle" => asked # <<>>
  /\ py = "off" => upc \in {"idle", "raw"}
  /\ py # "up" => tpc = "none"
  /\ py = "up" =>
       /\ upc # "read" => inq = <<>> /\ mpc \notin Busy
       /\ inq # <<>> => inq = <<name>> /\ outq = 0 /\ mpc \notin Busy
       /\ mpc \in Busy => outq = 0

\* The main thread's job is the worker's request.
AtWork == asked # <<>> /\ ((py = "up" /\ (mpc \in Busy \/ upc = "idle")) \/ outq = 1)

Current == AtWork => job = name

\* Files, and what the thread holds, belong to the name they are found under.
Of(r, n) == r \in 1 .. Len(asked) /\ asked[r] = n

Owners ==
  /\ \A n \in Names : raw[n] > 0 => Of(raw[n], n)
  /\ \A n \in Names : cov[n] > 0 => Of(cov[n], n)
  /\ asked # <<>> => raw[name] = Len(asked)
  /\ tpc # "none" => raw[job] > 0
  /\ tpc \in {"open", "write"} => Of(got, job)
  /\ tpc = "tell" => json = 0
  /\ tpc = "marker" /\ json > 0 => Of(json, job)

\* While the job is the worker's request, so is what the thread holds.
Fresh ==
  AtWork =>
    /\ tpc \in {"open", "write"} => got = Len(asked)
    /\ tpc = "marker" /\ json > 0 => json = Len(asked)

\* Main thread and pool thread, and what they have made of the file so far.
ThreadStages ==
  py = "up" =>
    /\ mpc = "input" => tpc = "none" /\ ~lost
    /\ mpc # "input" => tpc # "none"
    /\ lost => mpc \in {"print", "join"}
    /\ mpc = "wait" =>
         /\ ~late
         /\ tpc = "write" => cov[job] = Half
         /\ tpc = "over" => cov[job] = Len(asked)
    /\ mpc \in {"fallback", "write", "print", "join"} /\ ~late => tpc \in {"over", "failed"}
    /\ mpc = "write" =>
         /\ cov[job] \in {Len(asked), Blank, Half, Garbled}
         /\ ~late => cov[job] = Half

\* The file is as the worker may find it, from the moment DONE is due.
InOrder ==
  \/ cov[name] \in {Len(asked), Blank}
  \/ cov[name] \in {Half, Garbled} /\ late

FilesSettled ==
  asked # <<>> /\ ~lost /\ ((py = "up" /\ mpc = "print") \/ outq = 1 \/ upc = "idle") => InOrder

Inv == TypeOK /\ Pipes /\ Current /\ Owners /\ Fresh /\ ThreadStages /\ FilesSettled

-----------------------------------------------------------------------------

LEMMA InitInv == Init => Inv
<1> SUFFICES ASSUME Init PROVE Inv
  OBVIOUS
<1>1. TypeOK
  <2>1. asked \in Seq(Names) /\ Len(asked) <= MaxReqs /\ inq \in Seq(Names)
    BY SymbolizerAssumption DEF SymbolizerAssumption, Init
  <2>2. /\ raw \in [Names -> 0 .. MaxReqs]
        /\ cov \in [Names -> {Absent, Blank, Half, Garbled} \cup 1 .. MaxReqs]
    BY SymbolizerAssumption DEF SymbolizerAssumption, Init, Absent
  <2>3. QED
    BY <2>1, <2>2, SymbolizerAssumption DEF SymbolizerAssumption, Init, TypeOK
<1>2. Pipes /\ Current /\ Owners /\ Fresh /\ ThreadStages /\ FilesSettled
  BY DEF Init, Absent, Pipes, Current, AtWork, Owners, Fresh, ThreadStages, FilesSettled, Busy
<1>3. QED
  BY <1>1, <1>2 DEF Inv

\* Every step keeps the invariant.
LEMMA NextInv == Inv /\ [Next]_vars => Inv'
<1> SUFFICES ASSUME Inv, [Next]_vars PROVE Inv'
  OBVIOUS
<1> USE SymbolizerAssumption DEF SymbolizerAssumption, Inv
<1>1. ASSUME NEW n \in Names, Request(n) PROVE Inv'
  <2>1. /\ asked' \in Seq(Names) /\ Len(asked') = Len(asked) + 1 /\ asked' # <<>>
        /\ \A i \in 1 .. Len(asked) : asked'[i] = asked[i]
        /\ asked'[Len(asked')] = n
    BY <1>1, SMTT(30) DEF Request, TypeOK
  <2>2. TypeOK'
    BY <1>1, <2>1 DEF Request, TypeOK, Busy, Of, worker, main, thread, java, Absent, Blank, Half, Garbled
  <2>3. Pipes' /\ Current' /\ Fresh' /\ ThreadStages' /\ FilesSettled'
    BY <1>1, <2>1 DEF Request, TypeOK, Busy, Of, worker, main, thread, java, Absent, Blank, Half, Garbled, Pipes, Current, AtWork, Owners, Fresh, ThreadStages, FilesSettled, InOrder
  <2>4. Owners'
    <3>1. \A m \in Names : \A r \in 1 .. Len(asked) : asked[r] = m => asked'[r] = m
      BY <2>1
    <3>2. \A m \in Names : raw'[m] = IF m = n THEN Len(asked') ELSE raw[m]
      BY <1>1 DEF Request, TypeOK
    <3>3. \A m \in Names : raw'[m] > 0 => Of(raw[m], m)'
      <4>1. SUFFICES ASSUME NEW m \in Names, raw'[m] > 0 PROVE Of(raw[m], m)'
        OBVIOUS
      <4>2. Len(asked) \in Nat
        BY DEF TypeOK
      <4>3. CASE m = n
        BY <4>2, <4>3, <3>2, <2>1 DEF Of
      <4>4. CASE m # n
        <5>1. raw'[m] = raw[m] /\ raw[m] \in 1 .. Len(asked) /\ asked[raw[m]] = m
          BY <4>1, <4>4, <3>2 DEF Owners, Of
        <5>2. QED
          BY <5>1, <4>2, <3>1, <2>1 DEF Of
      <4>5. QED
        BY <4>3, <4>4
    <3>4. \A m \in Names : cov'[m] > 0 => Of(cov[m], m)'
      BY <1>1, <2>1, <3>1 DEF Request, TypeOK, Owners, Of
    <3>5. QED
      BY <1>1, <2>1, <3>3, <3>4, SMTT(30) DEF Request, Owners, Of, TypeOK, main, thread, java
  <2>5. QED
    BY <2>2, <2>3, <2>4
<1>2. CASE Ensure
  <2>1. TypeOK'
    <3>1. CASE py = "up"
      BY <1>2, <3>1 DEF Ensure, TypeOK, main, thread, java
    <3>2. CASE py # "up"
      <4>1. inq' = <<>>
        BY <1>2, <3>2 DEF Ensure
      <4>2. inq' \in Seq(Names)
        BY <4>1
      <4>3. /\ upc' = "ready" /\ py' = "up" /\ outq' = 0 /\ mpc' = "input" /\ lost' = FALSE
            /\ late' = FALSE /\ tpc' = "none" /\ jvm' = "up" /\ json' = 0
            /\ UNCHANGED <<job, got, tool, name, asked, raw, cov>>
        BY <1>2, <3>2 DEF Ensure
      <4>4. lost' \in BOOLEAN /\ late' \in BOOLEAN
        BY <4>3, Zenon
      <4>5. outq' \in Nat /\ json' \in 0 .. MaxReqs
        BY <4>3, SymbolizerAssumption
      <4>6. QED
        BY <4>2, <4>3, <4>4, <4>5 DEF TypeOK
    <3>3. QED
      BY <3>1, <3>2
  <2>2. Pipes' /\ Current' /\ Owners' /\ Fresh'
    BY <1>2 DEF Ensure, TypeOK, Busy, Of, worker, main, thread, java, Absent, Blank, Half, Garbled, Pipes, Current, AtWork, Owners, Fresh, ThreadStages, FilesSettled, InOrder
  <2>3. ThreadStages' /\ FilesSettled'
    BY <1>2 DEF Ensure, TypeOK, Busy, Of, worker, main, thread, java, Absent, Blank, Half, Garbled, Pipes, Current, AtWork, Owners, Fresh, ThreadStages, FilesSettled, InOrder
  <2>4. QED
    BY <2>1, <2>2, <2>3
<1>3. CASE Send
  <2> Append(<<>>, name) = <<name>> /\ <<name>> # <<>>
    OBVIOUS
  <2>1. TypeOK'
    BY <1>3 DEF Send, TypeOK, Busy, Of, worker, main, thread, java, Absent, Blank, Half, Garbled, Pipes, ThreadStages
  <2>2. Pipes' /\ Current' /\ Owners' /\ Fresh'
    BY <1>3 DEF Send, TypeOK, Busy, Of, worker, main, thread, java, Absent, Blank, Half, Garbled, Pipes, Current, AtWork, Owners, Fresh, ThreadStages, FilesSettled, InOrder
  <2>3. ThreadStages' /\ FilesSettled'
    BY <1>3 DEF Send, TypeOK, Busy, Of, worker, main, thread, java, Absent, Blank, Half, Garbled, Pipes, Current, AtWork, Owners, Fresh, ThreadStages, FilesSettled, InOrder
  <2>4. QED
    BY <2>1, <2>2, <2>3
<1>4. CASE ReadDone
  <2>1. TypeOK'
    BY <1>4 DEF ReadDone, TypeOK, Busy, Of, worker, main, thread, java, Absent, Blank, Half, Garbled, Pipes, ThreadStages
  <2>2. Pipes' /\ Current' /\ Owners' /\ Fresh'
    BY <1>4 DEF ReadDone, TypeOK, Busy, Of, worker, main, thread, java, Absent, Blank, Half, Garbled, Pipes, Current, AtWork, Owners, Fresh, ThreadStages, FilesSettled, InOrder
  <2>3. ThreadStages' /\ FilesSettled'
    BY <1>4 DEF ReadDone, TypeOK, Busy, Of, worker, main, thread, java, Absent, Blank, Half, Garbled, Pipes, Current, AtWork, Owners, Fresh, ThreadStages, FilesSettled, InOrder
  <2>4. QED
    BY <2>1, <2>2, <2>3
<1>5. CASE ReadEof
  <2>1. TypeOK'
    BY <1>5 DEF ReadEof, TypeOK, Busy, Of, worker, main, thread, java, Absent, Blank, Half, Garbled, Pipes, ThreadStages
  <2>2. Pipes' /\ Current' /\ Owners' /\ Fresh'
    BY <1>5 DEF ReadEof, TypeOK, Busy, Of, worker, main, thread, java, Absent, Blank, Half, Garbled, Pipes, Current, AtWork, Owners, Fresh, ThreadStages, FilesSettled, InOrder
  <2>3. ThreadStages' /\ FilesSettled'
    BY <1>5 DEF ReadEof, TypeOK, Busy, Of, worker, main, thread, java, Absent, Blank, Half, Garbled, Pipes, Current, AtWork, Owners, Fresh, ThreadStages, FilesSettled, InOrder
  <2>4. QED
    BY <2>1, <2>2, <2>3
<1>6. CASE TakeRequest
  <2> inq = <<name>> /\ Head(<<name>>) = name /\ Tail(<<name>>) = <<>> /\ <<>> \in Seq(Names)
    BY <1>6 DEF TakeRequest, Pipes
  <2>1. TypeOK'
    BY <1>6 DEF TakeRequest, TypeOK, Busy, Of, worker, main, thread, java, Absent, Blank, Half, Garbled, Pipes, ThreadStages
  <2>2. Pipes' /\ Current' /\ Owners' /\ Fresh'
    BY <1>6 DEF TakeRequest, TypeOK, Busy, Of, worker, main, thread, java, Absent, Blank, Half, Garbled, Pipes, Current, AtWork, Owners, Fresh, ThreadStages, FilesSettled, InOrder
  <2>3. ThreadStages' /\ FilesSettled'
    BY <1>6 DEF TakeRequest, TypeOK, Busy, Of, worker, main, thread, java, Absent, Blank, Half, Garbled, Pipes, Current, AtWork, Owners, Fresh, ThreadStages, FilesSettled, InOrder
  <2>4. QED
    BY <2>1, <2>2, <2>3
<1>7. CASE Result
  <2>1. TypeOK'
    BY <1>7 DEF Result, TypeOK, Busy, Of, worker, main, thread, java, Absent, Blank, Half, Garbled, Pipes, ThreadStages
  <2>2. Pipes' /\ Current' /\ Owners' /\ Fresh'
    BY <1>7 DEF Result, TypeOK, Busy, Of, worker, main, thread, java, Absent, Blank, Half, Garbled, Pipes, Current, AtWork, Owners, Fresh, ThreadStages, FilesSettled, InOrder
  <2>3. ThreadStages' /\ FilesSettled'
    BY <1>7 DEF Result, TypeOK, Busy, Of, worker, main, thread, java, Absent, Blank, Half, Garbled, Pipes, Current, AtWork, Owners, Fresh, ThreadStages, FilesSettled, InOrder
  <2>4. QED
    BY <2>1, <2>2, <2>3
<1>8. CASE Raised
  <2>1. TypeOK'
    BY <1>8 DEF Raised, TypeOK, Busy, Of, worker, main, thread, java, Absent, Blank, Half, Garbled, Pipes, ThreadStages
  <2>2. Pipes' /\ Current' /\ Owners' /\ Fresh'
    BY <1>8 DEF Raised, TypeOK, Busy, Of, worker, main, thread, java, Absent, Blank, Half, Garbled, Pipes, Current, AtWork, Owners, Fresh, ThreadStages, FilesSettled, InOrder
  <2>3. ThreadStages' /\ FilesSettled'
    BY <1>8 DEF Raised, TypeOK, Busy, Of, worker, main, thread, java, Absent, Blank, Half, Garbled, Pipes, Current, AtWork, Owners, Fresh, ThreadStages, FilesSettled, InOrder
  <2>4. QED
    BY <2>1, <2>2, <2>3
<1>9. CASE GiveUp
  <2>1. TypeOK'
    BY <1>9 DEF GiveUp, TypeOK, Busy, Of, worker, main, thread, java, Absent, Blank, Half, Garbled, Pipes, ThreadStages
  <2>2. Pipes' /\ Current' /\ Owners' /\ Fresh'
    BY <1>9 DEF GiveUp, TypeOK, Busy, Of, worker, main, thread, java, Absent, Blank, Half, Garbled, Pipes, Current, AtWork, Owners, Fresh, ThreadStages, FilesSettled, InOrder
  <2>3. ThreadStages' /\ FilesSettled'
    BY <1>9 DEF GiveUp, TypeOK, Busy, Of, worker, main, thread, java, Absent, Blank, Half, Garbled, Pipes, Current, AtWork, Owners, Fresh, ThreadStages, FilesSettled, InOrder
  <2>4. QED
    BY <2>1, <2>2, <2>3
<1>10. CASE OpenFallback
  <2>1. TypeOK'
    BY <1>10 DEF OpenFallback, TypeOK, Busy, Of, worker, main, thread, java, Absent, Blank, Half, Garbled, Pipes, ThreadStages
  <2>2. Pipes' /\ Current' /\ Owners' /\ Fresh'
    BY <1>10 DEF OpenFallback, TypeOK, Busy, Of, worker, main, thread, java, Absent, Blank, Half, Garbled, Pipes, Current, AtWork, Owners, Fresh, ThreadStages, FilesSettled, InOrder
  <2>3. ThreadStages' /\ FilesSettled'
    BY <1>10 DEF OpenFallback, TypeOK, Busy, Of, worker, main, thread, java, Absent, Blank, Half, Garbled, Pipes, Current, AtWork, Owners, Fresh, ThreadStages, FilesSettled, InOrder
  <2>4. QED
    BY <2>1, <2>2, <2>3
<1>11. CASE WriteFallback
  <2>1. TypeOK'
    BY <1>11 DEF WriteFallback, TypeOK, Busy, Of, worker, main, thread, java, Absent, Blank, Half, Garbled, Written, Pipes, ThreadStages
  <2>2. Pipes' /\ Current' /\ Owners' /\ Fresh'
    BY <1>11 DEF WriteFallback, TypeOK, Busy, Of, worker, main, thread, java, Absent, Blank, Half, Garbled, Written, Pipes, Current, AtWork, Owners, Fresh, ThreadStages, FilesSettled, InOrder
  <2>3. ThreadStages' /\ FilesSettled'
    BY <1>11 DEF WriteFallback, TypeOK, Busy, Of, worker, main, thread, java, Absent, Blank, Half, Garbled, Written, Pipes, Current, AtWork, Owners, Fresh, ThreadStages, FilesSettled, InOrder
  <2>4. QED
    BY <2>1, <2>2, <2>3
<1>12. CASE FallbackFails
  <2>1. TypeOK'
    BY <1>12 DEF FallbackFails, TypeOK, Busy, Of, worker, main, thread, java, Absent, Blank, Half, Garbled, Pipes, ThreadStages
  <2>2. Pipes' /\ Current' /\ Owners' /\ Fresh'
    BY <1>12 DEF FallbackFails, TypeOK, Busy, Of, worker, main, thread, java, Absent, Blank, Half, Garbled, Pipes, Current, AtWork, Owners, Fresh, ThreadStages, FilesSettled, InOrder
  <2>3. ThreadStages' /\ FilesSettled'
    BY <1>12 DEF FallbackFails, TypeOK, Busy, Of, worker, main, thread, java, Absent, Blank, Half, Garbled, Pipes, Current, AtWork, Owners, Fresh, ThreadStages, FilesSettled, InOrder
  <2>4. QED
    BY <2>1, <2>2, <2>3
<1>13. CASE PrintDone
  <2>1. TypeOK'
    BY <1>13 DEF PrintDone, TypeOK, Busy, Of, worker, main, thread, java, Absent, Blank, Half, Garbled, Pipes, ThreadStages
  <2>2. Pipes' /\ Current' /\ Owners' /\ Fresh'
    BY <1>13 DEF PrintDone, TypeOK, Busy, Of, worker, main, thread, java, Absent, Blank, Half, Garbled, Pipes, Current, AtWork, Owners, Fresh, ThreadStages, FilesSettled, InOrder
  <2>3. ThreadStages' /\ FilesSettled'
    BY <1>13 DEF PrintDone, TypeOK, Busy, Of, worker, main, thread, java, Absent, Blank, Half, Garbled, Pipes, Current, AtWork, Owners, Fresh, ThreadStages, FilesSettled, InOrder
  <2>4. QED
    BY <2>1, <2>2, <2>3
<1>14. CASE Join
  <2>1. TypeOK'
    BY <1>14 DEF Join, TypeOK, Busy, Of, worker, main, thread, java, Absent, Blank, Half, Garbled, Pipes, ThreadStages
  <2>2. Pipes' /\ Current' /\ Owners' /\ Fresh'
    BY <1>14 DEF Join, TypeOK, Busy, Of, worker, main, thread, java, Absent, Blank, Half, Garbled, Pipes, Current, AtWork, Owners, Fresh, ThreadStages, FilesSettled, InOrder
  <2>3. ThreadStages' /\ FilesSettled'
    BY <1>14 DEF Join, TypeOK, Busy, Of, worker, main, thread, java, Absent, Blank, Half, Garbled, Pipes, Current, AtWork, Owners, Fresh, ThreadStages, FilesSettled, InOrder
  <2>4. QED
    BY <2>1, <2>2, <2>3
<1>15. CASE Symbolize
  <2>1. TypeOK'
    BY <1>15 DEF Symbolize, TypeOK, Busy, Of, worker, main, thread, java, Absent, Blank, Half, Garbled, Pipes, ThreadStages
  <2>2. Pipes' /\ Current' /\ Owners' /\ Fresh'
    BY <1>15 DEF Symbolize, TypeOK, Busy, Of, worker, main, thread, java, Absent, Blank, Half, Garbled, Pipes, Current, AtWork, Owners, Fresh, ThreadStages, FilesSettled, InOrder
  <2>3. ThreadStages' /\ FilesSettled'
    BY <1>15 DEF Symbolize, TypeOK, Busy, Of, worker, main, thread, java, Absent, Blank, Half, Garbled, Pipes, Current, AtWork, Owners, Fresh, ThreadStages, FilesSettled, InOrder
  <2>4. QED
    BY <2>1, <2>2, <2>3
<1>16. CASE EnsureJvm
  <2>1. TypeOK'
    BY <1>16 DEF EnsureJvm, TypeOK, Busy, Of, worker, main, thread, java, Absent, Blank, Half, Garbled, Pipes, ThreadStages
  <2>2. Pipes' /\ Current' /\ Owners' /\ Fresh'
    BY <1>16 DEF EnsureJvm, TypeOK, Busy, Of, worker, main, thread, java, Absent, Blank, Half, Garbled, Pipes, Current, AtWork, Owners, Fresh, ThreadStages, FilesSettled, InOrder
  <2>3. ThreadStages' /\ FilesSettled'
    BY <1>16 DEF EnsureJvm, TypeOK, Busy, Of, worker, main, thread, java, Absent, Blank, Half, Garbled, Pipes, Current, AtWork, Owners, Fresh, ThreadStages, FilesSettled, InOrder
  <2>4. QED
    BY <2>1, <2>2, <2>3
<1>17. CASE TellJvm
  <2>1. TypeOK'
    BY <1>17 DEF TellJvm, TypeOK, Busy, Of, worker, main, thread, java, Absent, Blank, Half, Garbled, Pipes, ThreadStages
  <2>2. Pipes' /\ Current' /\ Owners' /\ Fresh'
    BY <1>17 DEF TellJvm, TypeOK, Busy, Of, worker, main, thread, java, Absent, Blank, Half, Garbled, Pipes, Current, AtWork, Owners, Fresh, ThreadStages, FilesSettled, InOrder
  <2>3. ThreadStages' /\ FilesSettled'
    BY <1>17 DEF TellJvm, TypeOK, Busy, Of, worker, main, thread, java, Absent, Blank, Half, Garbled, Pipes, Current, AtWork, Owners, Fresh, ThreadStages, FilesSettled, InOrder
  <2>4. QED
    BY <2>1, <2>2, <2>3
<1>18. CASE Dump
  <2>1. TypeOK'
    BY <1>18 DEF Dump, TypeOK, Busy, Of, worker, main, thread, java, Absent, Blank, Half, Garbled, Pipes, ThreadStages
  <2>2. Pipes' /\ Current' /\ Owners' /\ Fresh'
    BY <1>18 DEF Dump, TypeOK, Busy, Of, worker, main, thread, java, Absent, Blank, Half, Garbled, Pipes, Current, AtWork, Owners, Fresh, ThreadStages, FilesSettled, InOrder
  <2>3. ThreadStages' /\ FilesSettled'
    BY <1>18 DEF Dump, TypeOK, Busy, Of, worker, main, thread, java, Absent, Blank, Half, Garbled, Pipes, Current, AtWork, Owners, Fresh, ThreadStages, FilesSettled, InOrder
  <2>4. QED
    BY <2>1, <2>2, <2>3
<1>19. CASE ReadMarker
  <2>1. TypeOK'
    BY <1>19 DEF ReadMarker, TypeOK, Busy, Of, worker, main, thread, java, Absent, Blank, Half, Garbled, Pipes, ThreadStages
  <2>2. Pipes' /\ Current' /\ Owners' /\ Fresh'
    BY <1>19 DEF ReadMarker, TypeOK, Busy, Of, worker, main, thread, java, Absent, Blank, Half, Garbled, Pipes, Current, AtWork, Owners, Fresh, ThreadStages, FilesSettled, InOrder
  <2>3. ThreadStages' /\ FilesSettled'
    BY <1>19 DEF ReadMarker, TypeOK, Busy, Of, worker, main, thread, java, Absent, Blank, Half, Garbled, Pipes, Current, AtWork, Owners, Fresh, ThreadStages, FilesSettled, InOrder
  <2>4. QED
    BY <2>1, <2>2, <2>3
<1>20. CASE OpenCov
  <2>1. TypeOK'
    BY <1>20 DEF OpenCov, TypeOK, Busy, Of, worker, main, thread, java, Absent, Blank, Half, Garbled, Pipes, ThreadStages
  <2>2. Pipes' /\ Current' /\ Owners' /\ Fresh'
    BY <1>20 DEF OpenCov, TypeOK, Busy, Of, worker, main, thread, java, Absent, Blank, Half, Garbled, Pipes, Current, AtWork, Owners, Fresh, ThreadStages, FilesSettled, InOrder
  <2>3. ThreadStages' /\ FilesSettled'
    BY <1>20 DEF OpenCov, TypeOK, Busy, Of, worker, main, thread, java, Absent, Blank, Half, Garbled, Pipes, Current, AtWork, Owners, Fresh, ThreadStages, FilesSettled, InOrder
  <2>4. QED
    BY <2>1, <2>2, <2>3
<1>21. CASE WriteCov
  <2>1. TypeOK'
    BY <1>21 DEF WriteCov, TypeOK, Busy, Of, worker, main, thread, java, Absent, Blank, Half, Garbled, Written, Pipes, ThreadStages
  <2>2. Pipes' /\ Current' /\ Owners' /\ Fresh'
    BY <1>21 DEF WriteCov, TypeOK, Busy, Of, worker, main, thread, java, Absent, Blank, Half, Garbled, Written, Pipes, Current, AtWork, Owners, Fresh, ThreadStages, FilesSettled, InOrder
  <2>3. ThreadStages' /\ FilesSettled'
    BY <1>21 DEF WriteCov, TypeOK, Busy, Of, worker, main, thread, java, Absent, Blank, Half, Garbled, Written, Pipes, Current, AtWork, Owners, Fresh, ThreadStages, FilesSettled, InOrder
  <2>4. QED
    BY <2>1, <2>2, <2>3
<1>22. CASE ThreadRaises
  <2>1. TypeOK'
    BY <1>22 DEF ThreadRaises, TypeOK, Busy, Of, worker, main, thread, java, Absent, Blank, Half, Garbled, Pipes, ThreadStages
  <2>2. Pipes' /\ Current' /\ Owners' /\ Fresh'
    BY <1>22 DEF ThreadRaises, TypeOK, Busy, Of, worker, main, thread, java, Absent, Blank, Half, Garbled, Pipes, Current, AtWork, Owners, Fresh, ThreadStages, FilesSettled, InOrder
  <2>3. ThreadStages' /\ FilesSettled'
    BY <1>22 DEF ThreadRaises, TypeOK, Busy, Of, worker, main, thread, java, Absent, Blank, Half, Garbled, Pipes, Current, AtWork, Owners, Fresh, ThreadStages, FilesSettled, InOrder
  <2>4. QED
    BY <2>1, <2>2, <2>3
<1>23. CASE PyDies
  <2>1. TypeOK'
    BY <1>23 DEF PyDies, TypeOK, Busy, Of, worker, main, thread, java, Absent, Blank, Half, Garbled, Pipes, ThreadStages
  <2>2. Pipes' /\ Current' /\ Owners' /\ Fresh'
    BY <1>23 DEF PyDies, TypeOK, Busy, Of, worker, main, thread, java, Absent, Blank, Half, Garbled, Pipes, Current, AtWork, Owners, Fresh, ThreadStages, FilesSettled, InOrder
  <2>3. ThreadStages' /\ FilesSettled'
    BY <1>23 DEF PyDies, TypeOK, Busy, Of, worker, main, thread, java, Absent, Blank, Half, Garbled, Pipes, Current, AtWork, Owners, Fresh, ThreadStages, FilesSettled, InOrder
  <2>4. QED
    BY <2>1, <2>2, <2>3
<1>24. CASE JvmDies
  <2>1. TypeOK'
    BY <1>24 DEF JvmDies, TypeOK, Busy, Of, worker, main, thread, java, Absent, Blank, Half, Garbled, Pipes, ThreadStages
  <2>2. Pipes' /\ Current' /\ Owners' /\ Fresh'
    BY <1>24 DEF JvmDies, TypeOK, Busy, Of, worker, main, thread, java, Absent, Blank, Half, Garbled, Pipes, Current, AtWork, Owners, Fresh, ThreadStages, FilesSettled, InOrder
  <2>3. ThreadStages' /\ FilesSettled'
    BY <1>24 DEF JvmDies, TypeOK, Busy, Of, worker, main, thread, java, Absent, Blank, Half, Garbled, Pipes, Current, AtWork, Owners, Fresh, ThreadStages, FilesSettled, InOrder
  <2>4. QED
    BY <2>1, <2>2, <2>3
<1>25. CASE UNCHANGED vars
  BY <1>25 DEF vars, TypeOK, Busy, Of, worker, main, thread, java, Absent, Blank, Half, Garbled, Pipes, Current, AtWork, Owners, Fresh, ThreadStages, FilesSettled, InOrder
<1>26. QED
  BY <1>1, <1>2, <1>3, <1>4, <1>5, <1>6, <1>7, <1>8, <1>9, <1>10, <1>11, <1>12, <1>13, <1>14, <1>15, <1>16, <1>17, <1>18, <1>19, <1>20, <1>21, <1>22, <1>23, <1>24, <1>25 DEF Next, Worker, Main, Thread

THEOREM Invariance == Spec => []Inv
BY InitInv, NextInv, PTL DEF Spec

\* Every variable of the channel keeps its type; at most one DONE is unread.
THEOREM TypeCorrect == Spec => []TypeOK
<1>1. Inv => TypeOK
  BY DEF Inv
<1>2. QED
  BY <1>1, Invariance, PTL

\* The DONE a worker reads is that of its request, and the file it finds then
\* has what this request found out, whichever process dies and however often
\* a name is used again (run_symbolizer, the main loops of the processes).
THEOREM AnswersAlwaysMatch == Spec => []AnswersMatch
<1>1. Inv => AnswersMatch
  BY DEF Inv, TypeOK, Pipes, Owners, Of, FilesSettled, InOrder, AnswersMatch, PipesInStep, CovIsOwn
<1>2. QED
  BY <1>1, Invariance, PTL
=============================================================================
