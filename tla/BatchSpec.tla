------------------------------ MODULE BatchSpec ------------------------------
(***************************************************************************)
(* What the execution channel promises the stage that uses it, with the    *)
(* semaphores, the shared memory and the dying processes left out.         *)
(*                                                                         *)
(* A worker owns its block of input slots.  It loads inputs, hands the     *)
(* block over (let_go), and gets it back.  In between every loaded input   *)
(* is run exactly once, in the order it was loaded, or, when the fuzzer    *)
(* was asked to mutate on its own, fresh inputs are appended.              *)
(***************************************************************************)
EXTENDS Integers, FiniteSets

CONSTANT Cap        \* slots in the block of one worker (INPUT_PER_WORKER)

VARIABLES
  phase,            \* who holds the block: "own" (the stage) or "running"
  given,            \* TRUE: the stage provides the inputs (EXECUTE_INPUT)
  pending,          \* slots loaded and not yet run
  done              \* slots whose input was run, or produced, by this batch

vars == <<phase, given, pending, done>>

Slots == 0 .. Cap - 1

Init == phase = "own" /\ given = FALSE /\ pending = {} /\ done = {}

\* A new batch starts from an empty block.
Prepare ==
  /\ phase = "own"
  /\ given' \in BOOLEAN
  /\ pending' = {} /\ done' = {}
  /\ UNCHANGED phase

Load(i) ==
  /\ phase = "own" /\ given /\ done = {}
  /\ pending = 0 .. i - 1
  /\ pending' = pending \cup {i}
  /\ UNCHANGED <<phase, given, done>>

Submit ==
  /\ phase = "own"
  /\ phase' = "running"
  /\ UNCHANGED <<given, pending, done>>

\* The next loaded input is run; it is never run again.
Run(i) ==
  /\ phase = "running" /\ given
  /\ i \in pending /\ \A j \in pending : i <= j
  /\ pending' = pending \ {i}
  /\ done' = done \cup {i}
  /\ UNCHANGED <<phase, given>>

\* The fuzzer appends an input of its own behind the last one.
Emit(i) ==
  /\ phase = "running" /\ ~given
  /\ done = 0 .. i - 1
  /\ done' = done \cup {i}
  /\ UNCHANGED <<phase, given, pending>>

\* The block comes back only when nothing that was loaded is left.
Return ==
  /\ phase = "running" /\ pending = {}
  /\ phase' = "own"
  /\ UNCHANGED <<given, pending, done>>

Next ==
  \/ Prepare
  \/ Submit
  \/ Return
  \/ \E i \in Slots : Load(i) \/ Run(i) \/ Emit(i)

Spec == Init /\ [][Next]_vars
==============================================================================
