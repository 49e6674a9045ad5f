---------------------------- MODULE CodeIndexer ----------------------------
(***************************************************************************)
(* The code index of MLLA (mlla/codeindexer/codeindexer.py): processes     *)
(* build one index in Redis under a lock with a short time to live that a  *)
(* watchdog thread keeps extending; others, and readers, rely on the done  *)
(* flag.  A file stands for the functions parsed from it: the exact hash   *)
(* and the candidate sets are the sets of files entered in them.           *)
(***************************************************************************)
EXTENDS Naturals, FiniteSets

CONSTANTS
  Indexers,    \* processes that call build_index
  Readers,     \* processes that search
  Files,       \* files with functions
  BadFiles,    \* files whose parser raises
  MaxWaits,    \* bound: waits of a second before indexing_timeout
  MaxStarts,   \* bound: starts of an indexer
  FaultSets    \* the sets of things that may happen in one behaviour:
               \* "kill" of a process, a "rerun" of one that ended, a "pause"
               \* longer than a lock lives, an "error" of Redis, overwrite=True

ASSUME IndexerAssumption ==
  /\ BadFiles \subseteq Files
  /\ MaxWaits \in Nat /\ MaxStarts \in Nat \ {0}
  /\ FaultSets \subseteq
       SUBSET {"kill", "rerun", "pause", "error", "overwrite"}
  /\ "free" \notin Indexers

Free == "free"
Parsable == Files \ BadFiles

VARIABLES
  lock,   \* flag-indexing: the token of its owner, or Free
  done,   \* flag-done
  hash,   \* files entered in the project's hash
  cands,  \* files entered in the candidate sets
  pc,     \* where each indexer stands
  dog,    \* whether its watchdog runs
  waits,  \* seconds an indexer or a reader has waited
  starts, \* starts of an indexer
  reader, \* where a reader stands
  wanted, \* the file whose function it searches
  faults  \* the member of FaultSets this behaviour shows

redisVars == <<lock, done, hash, cands>>
indexVars == <<pc, dog, starts>>
readVars == <<reader, wanted, faults>>
vars == <<redisVars, indexVars, waits, readVars>>

Building == {"hash", "sets", "flag", "parse", "write", "set"}
CleaningUp == {"undo hash", "undo sets", "undo flag"}
Holding == {"check", "release", "fail"} \cup Building \cup CleaningUp
Ended == {"returned", "raised", "exited", "dead"}

Init ==
  /\ lock = Free /\ done = FALSE /\ hash = {} /\ cands = {}
  /\ pc = [i \in Indexers |-> "try"]
  /\ dog = [i \in Indexers |-> FALSE]
  /\ waits = [x \in Indexers \cup Readers |-> 0]
  /\ starts = [i \in Indexers |-> 1]
  /\ reader = [r \in Readers |-> "check"]
  /\ wanted \in [Readers -> Files] /\ faults \in FaultSets

(***************************************************************************)
(* build_index                                                             *)
(***************************************************************************)
Goto(i, next) == pc' = [pc EXCEPT ![i] = next]

\* A token is fresh for every acquire; a process that has lost the lock and
\* one that holds it are told apart by the owner's name.
Acquire(i) ==
  /\ pc[i] = "try" /\ lock = Free
  /\ lock' = i
  /\ dog' = [dog EXCEPT ![i] = TRUE]
  /\ Goto(i, "check")
  /\ UNCHANGED <<done, hash, cands, starts, waits, readVars>>

\* Mutant: the timeout is looked at after the wait.
Wait_OneMore(i) ==
  /\ pc[i] = "try" /\ lock # Free
  /\ IF waits[i] <= MaxWaits
     THEN waits' = [waits EXCEPT ![i] = @ + 1] /\ UNCHANGED pc
     ELSE Goto(i, "fail") /\ UNCHANGED waits
  /\ UNCHANGED <<redisVars, dog, starts, readVars>>

\* Locked by another: a second's wait, or TimeoutError.
Wait(i) ==
  /\ pc[i] = "try" /\ lock # Free
  /\ IF waits[i] < MaxWaits
     THEN waits' = [waits EXCEPT ![i] = @ + 1] /\ UNCHANGED pc
     ELSE Goto(i, "fail") /\ UNCHANGED waits
  /\ UNCHANGED <<redisVars, dog, starts, readVars>>

Check(i) ==
  /\ pc[i] = "check"
  /\ Goto(i, IF ~done \/ "overwrite" \in faults THEN "hash" ELSE "release")
  /\ UNCHANGED <<redisVars, dog, starts, waits, readVars>>

\* _cleanup_indexed_data, before an index is built and after it failed.
CleanHash(i) ==
  /\ pc[i] \in {"hash", "undo hash"}
  /\ hash' = {}
  /\ Goto(i, IF pc[i] = "hash" THEN "sets" ELSE "undo sets")
  /\ UNCHANGED <<lock, done, cands, dog, starts, waits, readVars>>

CleanSets(i) ==
  /\ pc[i] \in {"sets", "undo sets"}
  /\ cands' = {}
  /\ Goto(i, IF pc[i] = "sets" THEN "flag" ELSE "undo flag")
  /\ UNCHANGED <<lock, done, hash, dog, starts, waits, readVars>>

CleanFlag(i) ==
  /\ pc[i] \in {"flag", "undo flag"}
  /\ done' = FALSE
  /\ Goto(i, IF pc[i] = "flag" THEN "parse" ELSE "fail")
  /\ UNCHANGED <<lock, hash, cands, dog, starts, waits, readVars>>

\* Mutant: the flag is set before the results are written.
Parse_FlagFirst(i) ==
  /\ pc[i] = "parse"
  /\ Goto(i, "write")
  /\ done' = TRUE
  /\ UNCHANGED <<lock, hash, cands, dog, starts, waits, readVars>>

\* All files are parsed; without any file the flag is all there is to set.
Parse(i) ==
  /\ pc[i] = "parse"
  /\ Goto(i, IF Files = {} THEN "set" ELSE "write")
  /\ UNCHANGED <<redisVars, dog, starts, waits, readVars>>

\* Mutant: another process that has finished meanwhile spares the write.
Write_SkipIfDone(i) ==
  /\ pc[i] = "write"
  /\ hash' = IF done THEN hash ELSE hash \cup Parsable
  /\ cands' = IF done THEN cands ELSE cands \cup Parsable
  /\ Goto(i, "set")
  /\ UNCHANGED <<lock, done, dog, starts, waits, readVars>>

\* One pipeline, which Redis executes as a whole; files whose parser raised
\* are passed over.
Write(i) ==
  /\ pc[i] = "write"
  /\ hash' = hash \cup Parsable /\ cands' = cands \cup Parsable
  /\ Goto(i, "set")
  /\ UNCHANGED <<lock, done, dog, starts, waits, readVars>>

SetDone(i) ==
  /\ pc[i] = "set"
  /\ done' = TRUE
  /\ Goto(i, "release")
  /\ UNCHANGED <<lock, hash, cands, dog, starts, waits, readVars>>

\* release() compares the token.
Unlocked(i) == IF lock = i THEN Free ELSE lock

\* The lock is released when owned, the watchdog stopped, also in except.
Release(i) ==
  /\ pc[i] \in {"release", "fail"}
  /\ lock' = Unlocked(i)
  /\ dog' = [dog EXCEPT ![i] = FALSE]
  /\ Goto(i, IF pc[i] = "release" THEN "returned" ELSE "raised")
  /\ UNCHANGED <<done, hash, cands, starts, waits, readVars>>

\* Where a call that raises leads: into the cleanup of what was built, out of
\* a failed cleanup, and out of the handler with the watchdog still at work.
Handler(i) ==
  CASE pc[i] \in Building -> "undo hash"
    [] pc[i] \in CleaningUp \cup {"try", "check", "release"} -> "fail"
    [] pc[i] = "fail" -> "raised"

\* The call raises, whether Redis has executed it or not: the done flag may
\* be set all the same.
RedisFails(i) ==
  /\ "error" \in faults /\ pc[i] \notin Ended
  /\ Goto(i, Handler(i))
  /\ done' \in IF pc[i] = "set" THEN {done, TRUE} ELSE {done}
  /\ UNCHANGED <<lock, hash, cands, dog, starts, waits, readVars>>

\* Mutant: the watchdog thread keeps the process.
DogAfterExit_Stays(i) == dog[i]

\* A daemon thread.
DogAfterExit(i) == FALSE

Exit(i) ==
  /\ pc[i] \in {"returned", "raised"}
  /\ Goto(i, "exited")
  /\ dog' = [dog EXCEPT ![i] = DogAfterExit(i)]
  /\ UNCHANGED <<redisVars, starts, waits, readVars>>

Kill(i) ==
  /\ "kill" \in faults /\ pc[i] \notin Ended
  /\ Goto(i, "dead")
  /\ dog' = [dog EXCEPT ![i] = FALSE]
  /\ UNCHANGED <<redisVars, starts, waits, readVars>>

\* The next run of the pipeline, once the lock of the last one has run out
\* (its token would be another, its name here is the same).
Start(i) ==
  /\ pc[i] \in {"exited", "dead"} /\ lock # i /\ starts[i] < MaxStarts
  /\ "rerun" \in faults
  /\ starts' = [starts EXCEPT ![i] = @ + 1]
  /\ waits' = [waits EXCEPT ![i] = 0]
  /\ Goto(i, "try")
  /\ UNCHANGED <<redisVars, dog, readVars>>

(***************************************************************************)
(* The lock                                                                *)
(***************************************************************************)
\* The watchdog ends by itself when the lock is lost, or a call raises.
DogEnds(i) ==
  /\ dog[i] /\ (lock # i \/ "error" \in faults)
  /\ dog' = [dog EXCEPT ![i] = FALSE]
  /\ UNCHANGED <<redisVars, pc, starts, waits, readVars>>

\* The time to live runs out: no one extends it, or its process stood still.
Expire ==
  /\ lock # Free /\ (~dog[lock] \/ "pause" \in faults)
  /\ lock' = Free
  /\ UNCHANGED <<done, hash, cands, indexVars, waits, readVars>>

(***************************************************************************)
(* search_function                                                         *)
(***************************************************************************)
ReaderAt(r, next) == reader' = [reader EXCEPT ![r] = next]

\* is_indexing_done, before the hash is read and again before the sets are.
IsIndexingDone(r) ==
  /\ reader[r] \in {"check", "check sets"}
  /\ \/ done /\ ReaderAt(r, IF reader[r] = "check" THEN "hget" ELSE "smembers")
             /\ UNCHANGED waits
     \/ ~done /\ waits[r] < MaxWaits
              /\ waits' = [waits EXCEPT ![r] = @ + 1] /\ UNCHANGED reader
     \/ ~done /\ waits[r] = MaxWaits /\ ReaderAt(r, "timeout") /\ UNCHANGED waits
  /\ UNCHANGED <<redisVars, indexVars, wanted, faults>>

Hget(r) ==
  /\ reader[r] = "hget"
  /\ ReaderAt(r, IF wanted[r] \in hash THEN "found" ELSE "check sets")
  /\ waits' = [waits EXCEPT ![r] = 0]
  /\ UNCHANGED <<redisVars, indexVars, wanted, faults>>

SearchCandidates(r) ==
  /\ reader[r] = "smembers"
  /\ ReaderAt(r, IF wanted[r] \in cands THEN "found" ELSE "nothing")
  /\ UNCHANGED <<redisVars, indexVars, waits, wanted, faults>>

IndexerStep(i) ==
  \/ Acquire(i) \/ Wait(i) \/ Check(i)
  \/ CleanHash(i) \/ CleanSets(i) \/ CleanFlag(i)
  \/ Parse(i) \/ Write(i) \/ SetDone(i) \/ Release(i) \/ Exit(i)

ReaderStep(r) == IsIndexingDone(r) \/ Hget(r) \/ SearchCandidates(r)

Next ==
  \/ Expire
  \/ \E i \in Indexers :
       IndexerStep(i) \/ RedisFails(i) \/ Kill(i) \/ Start(i) \/ DogEnds(i)
  \/ \E r \in Readers : ReaderStep(r)

Spec == Init /\ [][Next]_vars

\* Processes run, and Redis lets keys expire.
FairSpec ==
  /\ Spec
  /\ WF_vars(Expire)
  /\ \A i \in Indexers : WF_vars(IndexerStep(i))
  /\ \A r \in Readers : WF_vars(ReaderStep(r))

(***************************************************************************)
(* Properties                                                              *)
(***************************************************************************)
\* Types of the variables.
TypeOK ==
  /\ lock \in Indexers \cup {Free} /\ done \in BOOLEAN
  /\ hash \subseteq Files /\ cands \subseteq Files
  /\ pc \in [Indexers -> {"try"} \cup Holding \cup Ended]
  /\ dog \in [Indexers -> BOOLEAN]
  /\ waits \in [Indexers \cup Readers -> 0..MaxWaits]
  /\ starts \in [Indexers -> 1..MaxStarts]
  /\ reader \in [Readers -> {"check", "hget", "check sets", "smembers",
                             "found", "nothing", "timeout"}]
  /\ wanted \in [Readers -> Files]
  /\ faults \in FaultSets

Complete == hash = Parsable /\ cands = Parsable

\* The done flag stands only over an index with every function that could be
\* parsed, at every moment, however builders are killed and restarted: a
\* killed builder leaves the flag down, and the next one cleans up before it
\* parses.
DoneMeansComplete ==
  faults \subseteq {"kill", "rerun"} => (done => Complete)

\* A search that finds nothing searched for a function of a file that cannot
\* be parsed: no reader looks into an index in the making, although it looks
\* at the flag and then at the hash and the sets.
NothingMeansBad ==
  faults \subseteq {"kill", "rerun"} =>
    \A r \in Readers : reader[r] = "nothing" => wanted[r] \in BadFiles

\* Whoever reads while builders are killed and restarted can rely on the answer.
IndexReliable == DoneMeansComplete /\ NothingMeansBad

\* Even when a process sleeps past its lock and two build side by side, or
\* one builds over a finished index, what is called done once nobody builds
\* is a complete index.
QuietMeansComplete ==
  faults \subseteq {"pause", "overwrite"} =>
    (done /\ (\A i \in Indexers : pc[i] \notin Building \cup CleaningUp)
       => Complete)

\* What an index promises its readers, whichever faults there are.
IndexSound == IndexReliable /\ QuietMeansComplete

\* A lock whose holder has ended, by whatever way, becomes free again: the
\* next run of the pipeline does not wait for a process that is gone.
LockFreed ==
  \A i \in Indexers : (lock = i /\ pc[i] \in Ended) ~> (lock # i)

=============================================================================
