------------------------- MODULE CodeIndexer_proofs -------------------------
(***************************************************************************)
(* What CodeIndexer promises for all sets of indexers, readers and files.  *)
(*                                                                         *)
(* With kills and reruns only, the lock is lost by no one who builds       *)
(* (Locked), so that one builder at a time goes from an index that is not  *)
(* done, over an empty one, to a complete one (Stages), and done is never  *)
(* taken back under a reader (ReadersSeeDone).  With pauses and overwriting*)
(* several builders work at a time; each that may still delete something   *)
(* has its own write ahead (WriteAhead).                                   *)
(***************************************************************************)
EXTENDS CodeIndexer, TLAPS

Cleaning == {"hash", "sets", "flag", "parse", "write"}

\* Who builds holds the lock, and its watchdog runs.
Locked ==
  \A i \in Indexers :
    /\ pc[i] \in {"check", "release"} \cup Building => lock = i /\ dog[i]
    /\ pc[i] \notin CleaningUp

\* How far a builder is and what lies in Redis.
Stages ==
  /\ done => Complete
  /\ \A i \in Indexers :
       /\ pc[i] \in Cleaning => ~done
       /\ pc[i] \in Cleaning \ {"hash"} => hash = {}
       /\ pc[i] \in {"flag", "parse", "write"} => cands = {}
       /\ pc[i] = "set" => Complete

ReadersSeeDone ==
  \A r \in Readers :
    /\ reader[r] \in {"hget", "smembers"} => done
    /\ reader[r] = "nothing" => wanted[r] \in BadFiles

Crashes == faults \subseteq {"kill", "rerun"}
CrashInv == Crashes => Locked /\ Stages /\ ReadersSeeDone

\* Nothing but what parses is entered, and what is missing will be written.
WriteAhead ==
  /\ hash \subseteq Parsable /\ cands \subseteq Parsable
  /\ \A i \in Indexers : pc[i] \notin CleaningUp
  /\ done \/ (\E i \in Indexers : pc[i] = "set")
       => Complete \/ \E j \in Indexers : pc[j] \in Cleaning

Delays == faults \subseteq {"pause", "overwrite"}
DelayInv == Delays => WriteAhead

IInv == TypeOK /\ CrashInv /\ DelayInv

LEMMA InitIInv == Init => IInv
<1> SUFFICES ASSUME Init PROVE IInv
  OBVIOUS
<1> USE IndexerAssumption DEF Init
<1>1. TypeOK
  <2>1. /\ waits \in [Indexers \cup Readers -> 0..MaxWaits]
        /\ starts \in [Indexers -> 1..MaxStarts]
    OBVIOUS
  <2>2. QED
    BY <2>1 DEF TypeOK, Free
<1>2. CrashInv
  BY DEF CrashInv, Locked, Stages, ReadersSeeDone, Building, CleaningUp, Cleaning
<1>3. DelayInv
  BY DEF DelayInv, WriteAhead, CleaningUp
<1>4. QED
  BY <1>1, <1>2, <1>3 DEF IInv

LEMMA GotoMoves ==
  ASSUME TypeOK, NEW i \in Indexers, NEW next, Goto(i, next)
  PROVE  pc'[i] = next /\ \A j \in Indexers \ {i} : pc'[j] = pc[j]
<1>1. QED
  BY DEF TypeOK, Goto

Places == {"try"} \cup Holding \cup Ended

LEMMA GotoType ==
  ASSUME TypeOK, NEW i \in Indexers, NEW next \in Places, Goto(i, next)
  PROVE  pc' \in [Indexers -> Places]
<1>1. QED
  BY DEF TypeOK, Goto, Places

LEMMA CodePlaces ==
  /\ {"try", "check", "release", "fail", "returned", "raised", "exited", "dead"} \subseteq Places
  /\ Building \cup CleaningUp \subseteq Places
<1>1. QED
  BY DEF Places, Holding, Ended

LEMMA WaitsType ==
  ASSUME TypeOK, NEW x \in Indexers \cup Readers,
         \/ waits' = waits
         \/ waits[x] < MaxWaits /\ waits' = [waits EXCEPT ![x] = @ + 1]
         \/ waits' = [waits EXCEPT ![x] = 0]
  PROVE  waits' \in [Indexers \cup Readers -> 0..MaxWaits]
<1>1. MaxWaits \in Nat /\ waits \in [Indexers \cup Readers -> 0..MaxWaits]
  BY IndexerAssumption DEF TypeOK
<1>2. waits[x] \in 0..MaxWaits
  BY <1>1
<1>3. 0 \in 0..MaxWaits /\ (waits[x] < MaxWaits => waits[x] + 1 \in 0..MaxWaits)
  BY <1>1, <1>2
<1>4. QED
  BY <1>1, <1>3

\* Types: every step leads to a place of the code.
LEMMA NextType == TypeOK /\ [Next]_vars => TypeOK'
<1> SUFFICES ASSUME TypeOK, [Next]_vars PROVE TypeOK'
  OBVIOUS
<1> USE GotoType, CodePlaces DEF Places, redisVars, indexVars, readVars
<1>1. ASSUME NEW i \in Indexers, Acquire(i) PROVE TypeOK'
  BY <1>1 DEF Acquire, TypeOK
<1>2. ASSUME NEW i \in Indexers, Wait(i) PROVE TypeOK'
  <2>1. waits' \in [Indexers \cup Readers -> 0..MaxWaits]
    BY <1>2, WaitsType DEF Wait
  <2>2. pc' \in [Indexers -> Places]
    BY <1>2 DEF Wait, TypeOK
  <2>3. QED
    BY <1>2, <2>1, <2>2 DEF Wait, TypeOK
<1>3. ASSUME NEW i \in Indexers, Check(i) PROVE TypeOK'
  BY <1>3 DEF Check, TypeOK, Building
<1>4. ASSUME NEW i \in Indexers, CleanHash(i) \/ CleanSets(i) \/ CleanFlag(i) PROVE TypeOK'
  BY <1>4 DEF CleanHash, CleanSets, CleanFlag, TypeOK, Building, CleaningUp
<1>5. ASSUME NEW i \in Indexers, Parse(i) PROVE TypeOK'
  BY <1>5 DEF Parse, TypeOK, Building
<1>6. ASSUME NEW i \in Indexers, Write(i) PROVE TypeOK'
  BY <1>6 DEF Write, Parsable, TypeOK, Building
<1>7. ASSUME NEW i \in Indexers, SetDone(i) PROVE TypeOK'
  BY <1>7 DEF SetDone, TypeOK
<1>8. ASSUME NEW i \in Indexers, Release(i) PROVE TypeOK'
  BY <1>8 DEF Release, Unlocked, TypeOK
<1>9. ASSUME NEW i \in Indexers, Exit(i) PROVE TypeOK'
  BY <1>9 DEF Exit, DogAfterExit, TypeOK
<1>10. ASSUME NEW i \in Indexers, RedisFails(i) PROVE TypeOK'
  <2>1. Handler(i) \in {"undo hash", "fail", "raised"}
    BY <1>10 DEF RedisFails, Handler, TypeOK, Holding, Ended
  <2>2. Handler(i) \in Places
    BY <2>1 DEF CleaningUp
  <2>3. QED
    BY <1>10, <2>2 DEF RedisFails, TypeOK
<1>11. ASSUME NEW i \in Indexers, Kill(i) \/ DogEnds(i) PROVE TypeOK'
  BY <1>11 DEF Kill, DogEnds, TypeOK
<1>12. ASSUME NEW i \in Indexers, Start(i) PROVE TypeOK'
  <2>1. waits' \in [Indexers \cup Readers -> 0..MaxWaits]
    BY <1>12, WaitsType DEF Start
  <2>2. starts' \in [Indexers -> 1..MaxStarts]
    <3>1. starts[i] \in 1..MaxStarts /\ starts[i] < MaxStarts /\ MaxStarts \in Nat
      BY <1>12, IndexerAssumption DEF Start, TypeOK
    <3>2. starts[i] + 1 \in 1..MaxStarts
      BY <3>1
    <3>3. QED
      BY <1>12, <3>2 DEF Start, TypeOK
  <2>3. QED
    BY <1>12, <2>1, <2>2 DEF Start, TypeOK
<1>13. CASE Expire
  BY <1>13 DEF Expire, TypeOK
<1>14. ASSUME NEW r \in Readers, ReaderStep(r) PROVE TypeOK'
  <2>1. waits' \in [Indexers \cup Readers -> 0..MaxWaits]
    BY <1>14, WaitsType DEF ReaderStep, IsIndexingDone, Hget, SearchCandidates
  <2>2. reader' \in [Readers -> {"check", "hget", "check sets", "smembers",
                                 "found", "nothing", "timeout"}]
    BY <1>14, Zenon DEF ReaderStep, IsIndexingDone, Hget, SearchCandidates, ReaderAt, TypeOK
  <2>3. UNCHANGED <<redisVars, indexVars, wanted, faults>>
    BY <1>14, Zenon DEF ReaderStep, IsIndexingDone, Hget, SearchCandidates
  <2>4. QED
    BY <2>1, <2>2, <2>3 DEF TypeOK
<1>15. CASE UNCHANGED vars
  BY <1>15 DEF vars, TypeOK
<1>16. QED
  BY <1>1, <1>2, <1>3, <1>4, <1>5, <1>6, <1>7, <1>8, <1>9, <1>10, <1>11, <1>12, <1>13,
     <1>14, <1>15 DEF Next, IndexerStep

\* A reader changes nothing an indexer looks at.
LEMMA ReadersOnlyRead ==
  ASSUME NEW r \in Readers, ReaderStep(r)
  PROVE  UNCHANGED <<lock, done, hash, cands, pc, dog>>
<1>1. QED
  BY Zenon DEF ReaderStep, IsIndexingDone, Hget, SearchCandidates, redisVars, indexVars

\* Which faults a behaviour shows is fixed.
LEMMA FaultsFixed == [Next]_vars => faults' = faults
<1>1. ASSUME NEW i \in Indexers, IndexerStep(i) PROVE faults' = faults
  BY <1>1 DEF IndexerStep, Acquire, Wait, Check, CleanHash, CleanSets, CleanFlag, Parse, Write,
              SetDone, Release, Exit, readVars
<1>2. ASSUME NEW i \in Indexers, RedisFails(i) \/ Kill(i) \/ Start(i) \/ DogEnds(i)
      PROVE  faults' = faults
  BY <1>2 DEF RedisFails, Kill, Start, DogEnds, readVars
<1>3. ASSUME NEW r \in Readers, ReaderStep(r) PROVE faults' = faults
  BY <1>3 DEF ReaderStep, IsIndexingDone, Hget, SearchCandidates
<1>4. CASE Expire \/ UNCHANGED vars
  BY <1>4 DEF Expire, vars, readVars
<1>5. QED
  BY <1>1, <1>2, <1>3, <1>4 DEF Next

\* With kills and reruns: who builds keeps the lock.
LEMMA NextLocked == TypeOK /\ Crashes /\ Locked /\ [Next]_vars => Locked'
<1> SUFFICES ASSUME TypeOK, Crashes, Locked, [Next]_vars PROVE Locked'
  OBVIOUS
<1>0. "error" \notin faults /\ "pause" \notin faults
  BY DEF Crashes
<1>d. dog \in [Indexers -> BOOLEAN] /\ lock \in Indexers \cup {Free} /\ Free \notin Indexers
  BY IndexerAssumption DEF TypeOK, Free
<1> USE <1>d, GotoMoves DEF Locked, Building, CleaningUp, redisVars, indexVars
<1>1. ASSUME NEW i \in Indexers, Acquire(i) PROVE Locked'
  BY <1>1 DEF Acquire
<1>2. ASSUME NEW i \in Indexers, Wait(i) \/ Check(i) PROVE Locked'
  <2>1. CASE Wait(i)
    BY <2>1, ZenonT(40) DEF Wait
  <2>2. CASE Check(i)
    BY <2>2 DEF Check
  <2>3. QED
    BY <1>2, <2>1, <2>2
<1>3. ASSUME NEW i \in Indexers, CleanHash(i) \/ CleanSets(i) \/ CleanFlag(i) PROVE Locked'
  BY <1>3, ZenonT(40) DEF CleanHash, CleanSets, CleanFlag
<1>4. ASSUME NEW i \in Indexers, Parse(i) \/ Write(i) \/ SetDone(i) PROVE Locked'
  BY <1>4, ZenonT(40) DEF Parse, Write, SetDone
<1>5. ASSUME NEW i \in Indexers, Release(i) PROVE Locked'
  <2>1. /\ pc'[i] \in {"returned", "raised"}
        /\ \A j \in Indexers \ {i} : pc'[j] = pc[j] /\ dog'[j] = dog[j]
    BY <1>5 DEF Release
  <2>2. \A j \in Indexers \ {i} : lock = j => lock' = j
    BY <1>5 DEF Release, Unlocked
  <2>3. QED
    BY <2>1, <2>2
<1>6. ASSUME NEW i \in Indexers, Exit(i) \/ Kill(i) \/ Start(i) PROVE Locked'
  <2>1. /\ pc'[i] \in {"exited", "dead", "try"} /\ lock' = lock
        /\ \A j \in Indexers \ {i} : pc'[j] = pc[j] /\ dog'[j] = dog[j]
    BY <1>6, GotoMoves DEF Exit, Kill, Start
  <2>2. QED
    BY <2>1
<1>7. ASSUME NEW i \in Indexers, DogEnds(i) \/ RedisFails(i) PROVE Locked'
  BY <1>0, <1>7 DEF DogEnds, RedisFails
<1>8. CASE Expire
  BY <1>0, <1>8 DEF Expire
<1>9. ASSUME NEW r \in Readers, ReaderStep(r) PROVE Locked'
  BY <1>9, ReadersOnlyRead
<1>10. CASE UNCHANGED vars
  BY <1>10 DEF vars
<1>11. QED
  BY <1>1, <1>2, <1>3, <1>4, <1>5, <1>6, <1>7, <1>8, <1>9, <1>10 DEF Next, IndexerStep

\* With kills and reruns: the one builder goes from nothing to a whole index.
LEMMA NextStages == TypeOK /\ Crashes /\ Locked /\ Stages /\ [Next]_vars => Stages'
<1> SUFFICES ASSUME TypeOK, Crashes, Locked, Stages, [Next]_vars PROVE Stages'
  OBVIOUS
<1>0. "error" \notin faults /\ "overwrite" \notin faults
  BY DEF Crashes
<1>a. \A i, j \in Indexers : pc[i] \in Building /\ pc[j] \in Building => i = j
  BY DEF Locked
<1> USE <1>a, GotoMoves DEF Stages, Complete, Building, CleaningUp, Cleaning, redisVars, indexVars
<1>1. ASSUME NEW i \in Indexers, Acquire(i) \/ Wait(i) PROVE Stages'
  BY <1>1 DEF Acquire, Wait
<1>2. ASSUME NEW i \in Indexers, Check(i) PROVE Stages'
  BY <1>0, <1>2 DEF Check
<1>3. ASSUME NEW i \in Indexers, CleanHash(i) PROVE Stages'
  BY <1>3, ZenonT(40) DEF CleanHash, Locked
<1>4. ASSUME NEW i \in Indexers, CleanSets(i) PROVE Stages'
  BY <1>4 DEF CleanSets, Locked
<1>5. ASSUME NEW i \in Indexers, CleanFlag(i) PROVE Stages'
  BY <1>5 DEF CleanFlag, Locked
<1>6. ASSUME NEW i \in Indexers, Parse(i) PROVE Stages'
  BY <1>6 DEF Parse, Parsable
<1>7. ASSUME NEW i \in Indexers, Write(i) PROVE Stages'
  BY <1>7 DEF Write
<1>8. ASSUME NEW i \in Indexers, SetDone(i) PROVE Stages'
  BY <1>8 DEF SetDone
<1>9. ASSUME NEW i \in Indexers, Release(i) \/ Exit(i) \/ Kill(i) \/ Start(i) PROVE Stages'
  BY <1>9 DEF Release, Exit, Kill, Start
<1>10. ASSUME NEW i \in Indexers, DogEnds(i) \/ RedisFails(i) PROVE Stages'
  <2>1. UNCHANGED <<done, hash, cands, pc>>
    BY <1>0, <1>10 DEF DogEnds, RedisFails
  <2>2. QED
    BY <2>1
<1>11. CASE Expire \/ UNCHANGED vars
  BY <1>11 DEF Expire, vars
<1>12. ASSUME NEW r \in Readers, ReaderStep(r) PROVE Stages'
  BY <1>12, ReadersOnlyRead
<1>13. QED
  BY <1>1, <1>2, <1>3, <1>4, <1>5, <1>6, <1>7, <1>8, <1>9, <1>10, <1>11, <1>12
     DEF Next, IndexerStep

\* With kills and reruns: what a reader has seen done stays done.
LEMMA NextReaders ==
  TypeOK /\ Crashes /\ Locked /\ Stages /\ ReadersSeeDone /\ [Next]_vars => ReadersSeeDone'
<1> SUFFICES ASSUME TypeOK, Crashes, Locked, Stages, ReadersSeeDone, [Next]_vars
             PROVE  ReadersSeeDone'
  OBVIOUS
<1>0. "error" \notin faults
  BY DEF Crashes
<1> USE DEF ReadersSeeDone, redisVars, indexVars, readVars
<1>1. ASSUME NEW i \in Indexers, IndexerStep(i)
      PROVE  (done => done') /\ reader' = reader /\ wanted' = wanted
  <2>1. CASE CleanFlag(i)
    BY <2>1 DEF CleanFlag, Locked, Stages, Cleaning, CleaningUp
  <2>2. CASE SetDone(i)
    BY <2>2 DEF SetDone
  <2>3. CASE Acquire(i) \/ Wait(i) \/ Check(i)
    <3>1. UNCHANGED <<done, reader, wanted>>
      BY <2>3, Zenon DEF Acquire, Wait, Check
    <3>2. QED
      BY <3>1
  <2>4. CASE CleanHash(i) \/ CleanSets(i) \/ Parse(i) \/ Write(i) \/ Release(i) \/ Exit(i)
    <3>1. UNCHANGED <<done, reader, wanted>>
      BY <2>4 DEF CleanHash, CleanSets, Parse, Write, Release, Exit
    <3>2. QED
      BY <3>1
  <2>5. QED
    BY <1>1, <2>1, <2>2, <2>3, <2>4 DEF IndexerStep
<1>2. ASSUME NEW i \in Indexers, RedisFails(i) \/ Kill(i) \/ Start(i) \/ DogEnds(i)
      PROVE  done' = done /\ reader' = reader /\ wanted' = wanted
  BY <1>0, <1>2 DEF RedisFails, Kill, Start, DogEnds
<1>3. ASSUME NEW r \in Readers, IsIndexingDone(r) PROVE ReadersSeeDone'
  BY <1>3 DEF IsIndexingDone, ReaderAt, TypeOK
<1>4. ASSUME NEW r \in Readers, Hget(r) PROVE ReadersSeeDone'
  BY <1>4 DEF Hget, ReaderAt, TypeOK
<1>5. ASSUME NEW r \in Readers, SearchCandidates(r) PROVE ReadersSeeDone'
  BY <1>5 DEF SearchCandidates, ReaderAt, TypeOK, Stages, Complete, Parsable
<1>6. CASE Expire \/ UNCHANGED vars
  BY <1>6 DEF Expire, vars
<1>7. QED
  BY <1>1, <1>2, <1>3, <1>4, <1>5, <1>6 DEF Next, ReaderStep

LEMMA NextCrash == TypeOK /\ CrashInv /\ [Next]_vars => CrashInv'
<1>1. [Next]_vars => (Crashes' <=> Crashes)
  BY FaultsFixed DEF Crashes
<1>2. QED
  BY <1>1, NextLocked, NextStages, NextReaders DEF CrashInv

\* WriteAhead stands when nothing is written and no one gives up a write.
LEMMA AheadKept ==
  ASSUME WriteAhead, UNCHANGED <<done, hash, cands>>,
         \A j \in Indexers : /\ pc[j] \in Cleaning => pc'[j] \in Cleaning
                             /\ pc'[j] \in CleaningUp => pc[j] \in CleaningUp
                             /\ pc'[j] = "set" => pc[j] = "set"
  PROVE  WriteAhead'
<1>1. Parsable' = Parsable
  BY DEF Parsable
<1>2. QED
  BY <1>1 DEF WriteAhead, Complete

\* With pauses and overwriting: what was deleted will be written.
LEMMA NextDelay == TypeOK /\ DelayInv /\ [Next]_vars => DelayInv'
<1> SUFFICES ASSUME TypeOK, WriteAhead, [Next]_vars, Delays PROVE WriteAhead'
  BY FaultsFixed DEF DelayInv, Delays
<1>0. "error" \notin faults /\ "kill" \notin faults /\ "rerun" \notin faults
  BY DEF Delays
<1> USE GotoMoves DEF Cleaning, CleaningUp, redisVars, indexVars
<1>1. ASSUME NEW i \in Indexers, Acquire(i) \/ Wait(i) PROVE WriteAhead'
  <2>1. /\ UNCHANGED <<done, hash, cands>> /\ pc[i] = "try"
        /\ pc' = pc \/ Goto(i, "check") \/ Goto(i, "fail")
    BY <1>1, Zenon DEF Acquire, Wait
  <2>2. QED
    BY <2>1, AheadKept
<1>2. ASSUME NEW i \in Indexers, Check(i) PROVE WriteAhead'
  BY <1>2, AheadKept DEF Check
<1>3. ASSUME NEW i \in Indexers, CleanHash(i) \/ CleanSets(i) \/ CleanFlag(i) PROVE WriteAhead'
  BY <1>3 DEF CleanHash, CleanSets, CleanFlag, WriteAhead, Complete
<1>4. ASSUME NEW i \in Indexers, Parse(i) PROVE WriteAhead'
  BY <1>4 DEF Parse, Parsable, WriteAhead, Complete
<1>5. ASSUME NEW i \in Indexers, Write(i) PROVE WriteAhead'
  BY <1>5 DEF Write, WriteAhead, Complete
<1>6. ASSUME NEW i \in Indexers, SetDone(i) PROVE WriteAhead'
  BY <1>6 DEF SetDone, WriteAhead, Complete
<1>7. ASSUME NEW i \in Indexers, Release(i) \/ Exit(i) PROVE WriteAhead'
  <2>1. /\ UNCHANGED <<done, hash, cands>>
        /\ pc[i] \in {"release", "fail", "returned", "raised"}
        /\ \E next \in {"returned", "raised", "exited"} : Goto(i, next)
    BY <1>7 DEF Release, Exit
  <2>2. QED
    BY <2>1, AheadKept
<1>8. ASSUME NEW i \in Indexers, RedisFails(i) \/ Kill(i) \/ Start(i) \/ DogEnds(i)
      PROVE  WriteAhead'
  <2>1. UNCHANGED <<done, hash, cands, pc>>
    BY <1>0, <1>8 DEF RedisFails, Kill, Start, DogEnds
  <2>2. QED
    BY <2>1, AheadKept
<1>9. CASE Expire \/ UNCHANGED vars
  <2>1. UNCHANGED <<done, hash, cands, pc>>
    BY <1>9 DEF Expire, vars
  <2>2. QED
    BY <2>1, AheadKept
<1>10. ASSUME NEW r \in Readers, ReaderStep(r) PROVE WriteAhead'
  BY <1>10, ReadersOnlyRead, AheadKept
<1>11. QED
  BY <1>1, <1>2, <1>3, <1>4, <1>5, <1>6, <1>7, <1>8, <1>9, <1>10 DEF Next, IndexerStep

LEMMA IInvHolds == Spec => []IInv
<1>1. IInv /\ [Next]_vars => IInv'
  BY NextType, NextCrash, NextDelay DEF IInv
<1>2. QED
  BY InitIInv, <1>1, PTL DEF Spec

\* Every variable keeps its type; no one waits past indexing_timeout.
THEOREM TypeCorrect == Spec => []TypeOK
<1>1. IInv => TypeOK
  BY DEF IInv
<1>2. QED
  BY <1>1, IInvHolds, PTL

\* However builders are killed and started again, and whenever readers look
\* (build_index, search_function): done means complete, and a search that
\* finds nothing was for a function that could not be parsed.
THEOREM ReadersCanRely == Spec => []IndexReliable
<1>1. IInv => IndexReliable
  BY DEF IInv, CrashInv, Crashes, Stages, ReadersSeeDone, IndexReliable, DoneMeansComplete,
         NothingMeansBad
<1>2. QED
  BY <1>1, IInvHolds, PTL

\* Whatever builders work side by side after the lock was lost, or over a
\* finished index: once they are through, done means complete.
THEOREM QuietIsComplete == Spec => []QuietMeansComplete
<1>1. IInv => QuietMeansComplete
  <2> SUFFICES ASSUME IInv, Delays, done,
                      \A i \in Indexers : pc[i] \notin Building \cup CleaningUp
               PROVE  Complete
    BY DEF QuietMeansComplete, Delays
  <2>1. ~\E j \in Indexers : pc[j] \in Cleaning
    BY DEF Building, Cleaning
  <2>2. QED
    BY <2>1 DEF IInv, DelayInv, WriteAhead
<1>2. QED
  BY <1>1, IInvHolds, PTL

\* Both together, as the runs check them: killed or delayed, no builder makes an
\* index that is called done and lacks what it could hold (build_index).
THEOREM IndexIsSound == Spec => []IndexSound
<1>1. IndexReliable /\ QuietMeansComplete => IndexSound
  BY DEF IndexSound
<1>2. QED
  BY <1>1, ReadersCanRely, QuietIsComplete, PTL
=============================================================================
