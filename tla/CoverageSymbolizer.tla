------------------------- MODULE CoverageSymbolizer -------------------------
(***************************************************************************)
(* How a worker of uniafl has the coverage of a file symbolized.  The      *)
(* worker writes the raw coverage, sends two lines to a Python process of  *)
(* its own and reads until it gets DONE; the process has a thread of a     *)
(* pool write NAME.cov and gives up waiting for it after 9 minutes and 30  *)
(* seconds.  The thread is not ended then: it goes on beside the fallback, *)
(* and the process takes no other request before it is over.               *)
(*                                                                         *)
(* The process is symbolizer.py with its BinSymbolizer, symbolizer.py with *)
(* a JvmSymbolizer, which has a Java process dump the coverage, or         *)
(* harness_coverage_runner.py.  Either process may die at any time.        *)
(*                                                                         *)
(* Coverage is the number of the request that wrote it.  File names are    *)
(* used again: execute_one_file always asks for the same one.              *)
(***************************************************************************)
EXTENDS Integers, Sequences

CONSTANTS
  Tools,      \* what runs: subset of {"bin", "jvm", "runner"}
  Names,      \* names of the files whose coverage is saved
  MaxReqs     \* bound: requests of the worker

ASSUME SymbolizerAssumption ==
  /\ Tools \subseteq {"bin", "jvm", "runner"}
  /\ MaxReqs \in Nat

\* What NAME.cov may be, other than the coverage of a request: absent, "{}",
\* opened and not yet written, or written over by two writers.
Absent  == 0
Blank   == -1
Half    == -2
Garbled == -3

VARIABLES
  tool,
  upc, name, asked,     \* worker: location, its file, history of the names
  raw, cov,             \* files: NAME and NAME.cov
  py, inq, outq,        \* process, and its two pipes
  mpc, job, lost,       \* main thread: location, NAME, fallback has failed
  tpc, got,             \* pool thread: location, coverage it holds
  late,                 \* history: main has given up on the thread
  jvm, json             \* Java process, and the dump it has announced

worker  == <<upc, name, asked>>
main    == <<mpc, job, lost, late>>
thread  == <<tpc, got>>
java    == <<jvm, json>>
vars    == <<tool, worker, raw, cov, py, inq, outq, main, thread, java>>

Reqs == 1 .. Len(asked)

TypeOK ==
  /\ tool \in Tools
  /\ upc \in {"idle", "raw", "ready", "read"}
  /\ name \in Names /\ asked \in Seq(Names) /\ Len(asked) <= MaxReqs
  /\ raw \in [Names -> 0 .. MaxReqs]
  /\ cov \in [Names -> {Absent, Blank, Half, Garbled} \cup 1 .. MaxReqs]
  /\ py \in {"off", "up", "dead"}
  /\ inq \in Seq(Names) /\ outq \in Nat
  /\ mpc \in {"input", "wait", "fallback", "write", "print", "join"}
  /\ job \in Names /\ lost \in BOOLEAN /\ late \in BOOLEAN
  /\ tpc \in {"none", "start", "tell", "marker", "open", "write", "over", "failed"}
  /\ got \in 0 .. MaxReqs
  /\ jvm \in {"up", "dead"} /\ json \in 0 .. MaxReqs

Init ==
  /\ tool \in Tools
  /\ upc = "idle" /\ name \in Names /\ asked = <<>>
  /\ raw = [n \in Names |-> 0] /\ cov = [n \in Names |-> Absent]
  /\ py = "off" /\ inq = <<>> /\ outq = 0
  /\ mpc = "input" /\ job = name /\ lost = FALSE /\ late = FALSE
  /\ tpc = "none" /\ got = 0 /\ jvm = "dead" /\ json = 0

-----------------------------------------------------------------------------
(* The worker: save_coverage and run_symbolizer. *)

\* save_coverage: the raw coverage is written (and, by execute_one_file, the
\* input copied to NAME before).
Request(n) ==
  /\ upc = "idle" /\ Len(asked) < MaxReqs
  /\ upc' = "raw" /\ name' = n /\ asked' = Append(asked, n)
  /\ raw' = [raw EXCEPT ![n] = Len(asked')]
  /\ UNCHANGED <<tool, cov, py, inq, outq, main, thread, java>>

\* ensure_running_symbolizer: a process that is not there, or has ended, is
\* replaced, with new pipes and, for a JvmSymbolizer, a new Java process.
Ensure ==
  /\ upc = "raw"
  /\ upc' = "ready"
  /\ \/ py = "up" /\ UNCHANGED <<py, inq, outq, main, thread, java>>
     \/ /\ py # "up" /\ py' = "up"
        /\ inq' = <<>> /\ outq' = 0
        /\ mpc' = "input" /\ lost' = FALSE /\ late' = FALSE
        /\ tpc' = "none" /\ jvm' = "up" /\ json' = 0
        /\ UNCHANGED <<job, got>>
  /\ UNCHANGED <<tool, name, asked, raw, cov>>

\* The two lines are sent; that this fails is not looked at.
Send ==
  /\ upc = "ready"
  /\ upc' = "read"
  /\ inq' = IF py = "up" THEN Append(inq, name) ELSE inq
  /\ UNCHANGED <<tool, name, asked, raw, cov, py, outq, main, thread, java>>

\* a read that does not wait, so that DONE is still to come
ReadDone_NoWait ==
  /\ upc = "read"
  /\ outq' = outq - 1 /\ upc' = "idle"
  /\ UNCHANGED <<tool, name, asked, raw, cov, py, inq, main, thread, java>>

\* read_exact of the five bytes.  It blocks the only task of the runtime, so
\* the timeout around it never gets to run.
ReadDone ==
  /\ upc = "read" /\ outq > 0
  /\ outq' = outq - 1 /\ upc' = "idle"
  /\ UNCHANGED <<tool, name, asked, raw, cov, py, inq, main, thread, java>>

\* an end of the pipe that is waited over
ReadEof_Ignored ==
  /\ upc = "read" /\ outq = 0 /\ py = "dead"
  /\ UNCHANGED vars

\* an end of the pipe after which the file is left as it was
ReadEof_KeepsFile ==
  /\ upc = "read" /\ outq = 0 /\ py = "dead"
  /\ upc' = "idle"
  /\ UNCHANGED <<tool, name, asked, raw, cov, py, inq, outq, main, thread, java>>

\* The pipe has ended: write_empty_cov.
ReadEof ==
  /\ upc = "read" /\ outq = 0 /\ py = "dead"
  /\ cov' = [cov EXCEPT ![name] = Blank] /\ upc' = "idle"
  /\ UNCHANGED <<tool, name, asked, raw, py, inq, outq, main, thread, java>>

Worker == Ensure \/ Send \/ ReadDone \/ ReadEof

-----------------------------------------------------------------------------
(* The process. *)

\* The main loop has read both lines and hands them to the pool.
TakeRequest ==
  /\ py = "up" /\ mpc = "input" /\ inq # <<>>
  /\ inq' = Tail(inq) /\ job' = Head(inq)
  /\ mpc' = "wait" /\ late' = FALSE /\ tpc' = "start"
  /\ UNCHANGED <<tool, worker, raw, cov, py, outq, lost, got, java>>

\* future.result: the thread is over, has raised, or has taken too long
Result ==
  /\ py = "up" /\ mpc = "wait" /\ tpc = "over"
  /\ mpc' = "print"
  /\ UNCHANGED <<tool, worker, raw, cov, py, inq, outq, job, lost, late, thread, java>>

Raised ==
  /\ py = "up" /\ mpc = "wait" /\ tpc = "failed"
  /\ mpc' = "fallback"
  /\ UNCHANGED <<tool, worker, raw, cov, py, inq, outq, job, lost, late, thread, java>>

GiveUp ==
  /\ py = "up" /\ mpc = "wait" /\ tpc \notin {"over", "failed"}
  /\ mpc' = "fallback" /\ late' = TRUE
  /\ UNCHANGED <<tool, worker, raw, cov, py, inq, outq, job, lost, thread, java>>

\* The handler of symbolizer.py writes "{}": NAME.cov is opened, which empties it.
OpenFallback ==
  /\ py = "up" /\ mpc = "fallback" /\ tool # "runner"
  /\ mpc' = "write" /\ cov' = [cov EXCEPT ![job] = Half]
  /\ UNCHANGED <<tool, worker, raw, py, inq, outq, job, lost, late, thread, java>>

\* What a file holds after one of its two writers wrote: a writer starts at the
\* beginning, and covers what another wrote meanwhile if that was only "{}".
Written(old, new) ==
  IF old = Half \/ (old = Blank /\ new > 0) THEN new ELSE Garbled

WriteFallback ==
  /\ py = "up" /\ mpc = "write"
  /\ mpc' = "print"
  /\ cov' = [cov EXCEPT ![job] = Written(@, Blank)]
  /\ UNCHANGED <<tool, worker, raw, py, inq, outq, job, lost, late, thread, java>>

\* The handler raises: DONE is printed all the same, and then the process ends.
\* That of harness_coverage_runner.py always does, for it asks a self that the
\* main program does not have, and NAME.cov stays as it is.
FallbackFails ==
  /\ py = "up" /\ mpc \in {"fallback", "write"}
  /\ mpc' = "print" /\ lost' = TRUE
  /\ UNCHANGED <<tool, worker, raw, cov, py, inq, outq, job, late, thread, java>>

\* DONE printed in the handler and once more in the finally
PrintDone_Twice ==
  /\ py = "up" /\ mpc = "print"
  /\ outq' = IF late THEN outq + 2 ELSE outq + 1
  /\ mpc' = "join"
  /\ UNCHANGED <<tool, worker, raw, cov, py, inq, job, lost, late, thread, java>>

PrintDone ==
  /\ py = "up" /\ mpc = "print"
  /\ outq' = outq + 1 /\ mpc' = "join"
  /\ UNCHANGED <<tool, worker, raw, cov, py, inq, job, lost, late, thread, java>>

\* The end of the with block waits for the thread, however long it takes.
Join ==
  /\ py = "up" /\ mpc = "join" /\ tpc \in {"over", "failed"}
  /\ mpc' = "input" /\ tpc' = "none"
  /\ py' = IF lost THEN "dead" ELSE "up"
  /\ UNCHANGED <<tool, worker, raw, cov, inq, outq, job, lost, late, got, java>>

Main ==
  \/ TakeRequest \/ Result \/ Raised \/ GiveUp \/ OpenFallback \/ WriteFallback
  \/ FallbackFails \/ PrintDone \/ Join

-----------------------------------------------------------------------------
(* The pool's thread, and the Java process it asks. *)

\* The addresses are translated, or the input is run for its line coverage.
Symbolize ==
  /\ tpc = "start" /\ tool # "jvm"
  /\ got' = raw[job] /\ tpc' = "open"
  /\ UNCHANGED <<tool, worker, raw, cov, py, inq, outq, main, java>>

\* __ensure_symbolizer, then the path is written, which raises on a broken pipe.
EnsureJvm ==
  /\ tpc = "start" /\ tool = "jvm"
  /\ jvm' = "up" /\ json' = 0 /\ tpc' = "tell"
  /\ UNCHANGED <<tool, worker, raw, cov, py, inq, outq, main, got>>

TellJvm ==
  /\ tpc = "tell"
  /\ tpc' = IF jvm = "up" THEN "marker" ELSE "failed"
  /\ UNCHANGED <<tool, worker, raw, cov, py, inq, outq, main, got, java>>

\* dump: the coverage is written next to NAME, then the marker is printed.
Dump ==
  /\ tpc = "marker" /\ jvm = "up" /\ json = 0
  /\ json' = raw[job]
  /\ UNCHANGED <<tool, worker, raw, cov, py, inq, outq, main, thread, jvm>>

\* Lines are read until one has the marker; at the end of the pipe readline
\* returns an empty line for ever.
ReadMarker ==
  /\ tpc = "marker" /\ json > 0
  /\ got' = json /\ tpc' = "open"
  /\ UNCHANGED <<tool, worker, raw, cov, py, inq, outq, main, java>>

OpenCov ==
  /\ tpc = "open"
  /\ cov' = [cov EXCEPT ![job] = Half] /\ tpc' = "write"
  /\ UNCHANGED <<tool, worker, raw, py, inq, outq, main, got, java>>

WriteCov ==
  /\ tpc = "write"
  /\ cov' = [cov EXCEPT ![job] = Written(@, got)] /\ tpc' = "over"
  /\ UNCHANGED <<tool, worker, raw, py, inq, outq, main, got, java>>

\* Whatever the thread does may raise, except waiting for the marker.
ThreadRaises ==
  /\ tpc \in {"start", "open", "write"}
  /\ tpc' = "failed"
  /\ UNCHANGED <<tool, worker, raw, cov, py, inq, outq, main, got, java>>

Thread ==
  \/ Symbolize \/ EnsureJvm \/ TellJvm \/ ReadMarker \/ OpenCov \/ WriteCov

-----------------------------------------------------------------------------
(* Faults. *)

\* The process ends, with both threads.
PyDies ==
  /\ py = "up"
  /\ py' = "dead"
  /\ mpc' = "input" /\ tpc' = "none" /\ got' = 0 /\ json' = 0
  /\ UNCHANGED <<tool, worker, raw, cov, inq, outq, job, lost, late, jvm>>

\* The Java process ends; a marker it has printed can still be read.
JvmDies ==
  /\ tool = "jvm" /\ jvm = "up"
  /\ jvm' = "dead"
  /\ UNCHANGED <<tool, worker, raw, cov, py, inq, outq, main, thread, json>>

Next ==
  \/ \E n \in Names : Request(n)
  \/ Worker \/ Main \/ Thread \/ Dump \/ ThreadRaises \/ PyDies \/ JvmDies

Spec == Init /\ [][Next]_vars

\* Every process and thread is scheduled, and the timer of future.result runs
\* out.  The runs of the target and of the tools end: libFuzzer's -timeout and
\* the hour of run_harness_coverage see to that.  Nothing makes a process die,
\* a thread raise or a worker ask.
Fairness == WF_vars(Worker) /\ WF_vars(Main) /\ WF_vars(Thread) /\ WF_vars(Dump)

FairSpec == Spec /\ Fairness

-----------------------------------------------------------------------------
(* Properties. *)

\* When the worker waits for nothing, both pipes are empty: the next DONE it
\* reads is not that of an earlier request (run_symbolizer, the main loop).
PipesInStep == upc # "read" => outq = 0 /\ (py = "up" => inq = <<>>)

\* NAME.cov never holds the coverage of another file.  When the worker goes on,
\* it holds what this request found out or nothing, never what an earlier one
\* left there under the same name; and it is whole, unless the main thread has
\* given up on a thread that still writes.  Only a fallback that fails itself
\* leaves the file as it is (run_symbolizer, write_empty_cov, the main loop).
CovIsOwn ==
  /\ \A n \in Names : cov[n] > 0 => asked[cov[n]] = n
  /\ upc = "idle" /\ asked # <<>> /\ ~lost =>
       \/ cov[name] \in {Len(asked), Blank}
       \/ cov[name] \in {Half, Garbled} /\ late

\* An answer is that of the request, and so is the file (the two lines, DONE).
AnswersMatch == PipesInStep /\ CovIsOwn

\* The request has not been taken, because the thread of an earlier one waits
\* for the marker of a Java process that has ended.
Stuck == mpc = "join" /\ outq = 0 /\ tpc = "marker" /\ json = 0 /\ jvm = "dead"

\* run_symbolizer returns, whichever process dies, raises or takes too long; the
\* one exception is that the thread of an earlier request never ends (the main
\* loop's finally, read_exact at the end of the pipe, symbolize of the JVM).
SaveReturns == upc = "read" ~> (upc # "read" \/ Stuck)

\* symbolizer.py:155 calls its own limit 30 seconds shorter than the timeout of
\* uniafl, which would let run_symbolizer return in any case.
UniaflTimesOut == upc = "read" ~> upc # "read"
=============================================================================
