--------------------------- MODULE InputGenRpc_proofs ---------------------------
(***************************************************************************)
(* What holds between a worker thread and its input generator for every    *)
(* number of workers, slots, blobs and spare tokens: block and record are  *)
(* handed over cleanly, an answer is that of the command it was asked for, *)
(* and every blob is run once, under its parent's id, with its callback.   *)
(*                                                                         *)
(* The hand-over (IInv): while the process lives, a worker that waits has  *)
(* one token, which is in startSem, with the server thread, or in endSem.  *)
(* A worker that does not wait has none (Token).  When the process has     *)
(* died the token may be gone or left in endSem, where it still stands for *)
(* the answer given (Left), until --reset has put Empty in the answer's    *)
(* place; only then do the spare tokens come (Cleared).                    *)
(*                                                                         *)
(* The blobs (BlobsOf): the blobs of a chain are numbered, so that what is *)
(* run, loaded and left over are three spans of numbers in a row.  A round *)
(* takes them from Between (or New) to Loaded, Marked and Between again;   *)
(* where a worker is in the round follows from its location, from the      *)
(* command and from whether the server thread has done it (Worked).  What  *)
(* outlives the process is that an answer given stands for blobs which     *)
(* have not been run (GivenLoaded).                                        *)
(*                                                                         *)
(* The end (EndInv): the tokens --reset leaves for a worker are as many as *)
(* the commands it may still send (Need), each of which gets Empty, and it *)
(* begins no new chain because its status is BOOTED (Closed).              *)
(***************************************************************************)
EXTENDS InputGenRpc, TLAPS

\* Types of the variables the hand-over is about.
RpcTypes ==
  /\ result \in [Workers -> Results] /\ ans \in [Workers -> Results]
  /\ startSem \in [Workers -> Nat] /\ endSem \in [Workers -> Nat]
  /\ cpc \in [Workers -> {"idle", "batch", "cmd", "post", "wait", "read", "exec", "done"}]
  /\ spc \in [Workers -> {"boot", "wait", "take", "work", "hung", "answer", "post", "exited"}]
  /\ given \in [Workers -> Results \cup {"none"}]
  /\ server \in {"up", "dead", "gone"} /\ rw \in 1 .. NWorkers + 1
  /\ rstep \in {"status", "result", "post"}

\* Where --reset is.
Progress ==
  /\ server = "up" => rw = 1 /\ rstep = "status"
  /\ server = "gone" => rw = NWorkers + 1

\* Places of the server thread where it has the token.
Serving == {"take", "work", "hung", "answer", "post"}

Token(w) ==
  IF server # "up" THEN spc[w] = "exited" ELSE
    /\ cpc[w] # "wait" => startSem[w] = 0 /\ endSem[w] = 0 /\ spc[w] \in {"boot", "wait"}
    /\ cpc[w] = "wait" =>
         \/ startSem[w] = 1 /\ endSem[w] = 0 /\ spc[w] \in {"boot", "wait"}
         \/ startSem[w] = 0 /\ endSem[w] = 0 /\ spc[w] \in Serving
         \/ startSem[w] = 0 /\ endSem[w] = 1 /\ spc[w] \in {"boot", "wait"}
    /\ spc[w] = "post" => result[w] = given[w]

\* --reset has put Empty in place of the answer to worker w.
Cleared(w) == server # "up" /\ (w < rw \/ (w = rw /\ rstep = "post"))

Left(w) ==
  IF Cleared(w)
  THEN result[w] = "Empty"
  ELSE /\ endSem[w] \in {0, 1}
       /\ endSem[w] = 1 => cpc[w] = "wait" /\ result[w] = given[w]
       /\ cpc[w] = "read" => result[w] = given[w]

IInv == RpcTypes /\ Progress /\ \A w \in Workers : Token(w) /\ Left(w)

LEMMA InitIInv == Init => IInv
<1> SUFFICES ASSUME Init PROVE IInv
  OBVIOUS
<1> USE RpcAssumption DEF Init
<1>1. RpcTypes
  BY DEF RpcTypes, Results
<1>2. Progress
  BY DEF Progress
<1>3. \A w \in Workers : Token(w)
  BY DEF Token
<1>4. \A w \in Workers : Left(w)
  BY DEF Left, Cleared
<1>5. QED
  BY <1>1, <1>2, <1>3, <1>4 DEF IInv

-----------------------------------------------------------------------------
(* The worker thread. *)

\* What the client leaves alone, whichever step it takes.
ClientFrame == UNCHANGED <<server, rw, rstep, spc, ans, result>>

LEMMA ClientKeeps ==
  ASSUME IInv, NEW w \in Workers, Client(w)
  PROVE  RpcTypes' /\ Progress' /\ Token(w)' /\ Left(w)'
<1>0. RpcTypes /\ Progress /\ Token(w) /\ Left(w)
  BY DEF IInv
<1>1. ClientFrame
  BY Zenon DEF Client, Begin, Prepare, SetCmd, PostStart, WaitEnd, ReadResult, Execute, EndChain,
     ClientFrame, shared, thread, proc, NewChain
<1>2. Progress'
  BY <1>0, <1>1 DEF Progress, ClientFrame
<1>3. Cleared(w)' <=> Cleared(w)
  BY <1>1 DEF Cleared, ClientFrame
\* The steps that touch neither a semaphore nor the history of answers.
<1>4. CASE Begin(w) \/ Prepare(w) \/ ReadResult(w) \/ Execute(w) \/ EndChain(w)
  <2>1. /\ UNCHANGED <<startSem, endSem, given>>
        /\ \E c \in {"idle", "batch", "cmd", "exec", "done"} : cpc' = [cpc EXCEPT ![w] = c]
        /\ cpc[w] # "wait"
    BY <1>4, Zenon DEF Begin, Prepare, ReadResult, Execute, EndChain, LoopOn, NewChain, shared, hist
  <2>2. /\ cpc'[w] \in {"idle", "batch", "cmd", "exec", "done"}
        /\ cpc' \in [Workers -> {"idle", "batch", "cmd", "post", "wait", "read", "exec", "done"}]
    BY <1>0, <2>1 DEF RpcTypes
  <2>3. RpcTypes'
    BY <1>0, <1>1, <2>1, <2>2 DEF RpcTypes, ClientFrame
  <2>4. Token(w)'
    BY <1>0, <1>1, <2>1, <2>2 DEF Token, ClientFrame
  <2>5. Left(w)'
    BY <1>0, <1>1, <1>3, <2>1, <2>2 DEF Left, ClientFrame
  <2>6. QED
    BY <1>2, <2>3, <2>4, <2>5
<1>5. CASE SetCmd(w)
  <2>1. /\ UNCHANGED <<startSem, endSem>>
        /\ cpc[w] = "cmd" /\ cpc' = [cpc EXCEPT ![w] = "post"]
        /\ given' = [given EXCEPT ![w] = "none"]
    BY <1>5, Zenon DEF SetCmd
  <2>2. cpc'[w] = "post" /\ RpcTypes'
    BY <1>0, <1>1, <2>1 DEF RpcTypes, ClientFrame
  <2>3. Token(w)'
    BY <1>0, <1>1, <2>1, <2>2 DEF Token, ClientFrame
  <2>4. Left(w)'
    BY <1>0, <1>1, <1>3, <2>1, <2>2 DEF Left, ClientFrame
  <2>5. QED
    BY <1>2, <2>2, <2>3, <2>4
<1>6. CASE PostStart(w)
  <2>1. /\ UNCHANGED <<endSem, given>>
        /\ cpc[w] = "post" /\ cpc' = [cpc EXCEPT ![w] = "wait"]
        /\ startSem' = [startSem EXCEPT ![w] = startSem[w] + 1]
    BY <1>6, Zenon DEF PostStart, hist
  <2>2. cpc'[w] = "wait" /\ startSem'[w] = startSem[w] + 1 /\ RpcTypes'
    BY <1>0, <1>1, <2>1 DEF RpcTypes, ClientFrame
  <2>3. Token(w)'
    BY <1>0, <1>1, <2>1, <2>2 DEF Token, ClientFrame
  <2>4. Left(w)'
    BY <1>0, <1>1, <1>3, <2>1, <2>2 DEF Left, ClientFrame
  <2>5. QED
    BY <1>2, <2>2, <2>3, <2>4
<1>7. CASE WaitEnd(w)
  <2>1. /\ UNCHANGED <<startSem, given>>
        /\ cpc[w] = "wait" /\ cpc' = [cpc EXCEPT ![w] = "read"]
        /\ endSem[w] > 0 /\ endSem' = [endSem EXCEPT ![w] = endSem[w] - 1]
    BY <1>7, Zenon DEF WaitEnd, hist
  <2>2. cpc'[w] = "read" /\ endSem'[w] = endSem[w] - 1 /\ endSem[w] \in Nat /\ RpcTypes'
    BY <1>0, <1>1, <2>1 DEF RpcTypes, ClientFrame
  <2>3. Token(w)'
    BY <1>0, <1>1, <2>1, <2>2 DEF Token, ClientFrame
  <2>4. Left(w)'
    BY <1>0, <1>1, <1>3, <2>1, <2>2 DEF Left, ClientFrame
  <2>5. QED
    BY <1>2, <2>2, <2>3, <2>4
<1>8. QED
  BY <1>4, <1>5, <1>6, <1>7 DEF Client

-----------------------------------------------------------------------------
(* The server thread. *)

ServerFrame == UNCHANGED <<server, rw, rstep, cpc>>

LEMMA ServerKeeps ==
  ASSUME IInv, NEW w \in Workers, Server(w) \/ Hang(w)
  PROVE  RpcTypes' /\ Progress' /\ Token(w)' /\ Left(w)'
<1>0. RpcTypes /\ Progress /\ Token(w) /\ Left(w)
  BY DEF IInv
<1>1. ServerFrame /\ spc[w] # "exited"
  BY Zenon DEF Server, Boot, TakeStart, ReadCmd, MakeBlobs, GetRemain, InvokeCallbacks, Publish,
     PostEnd, Hang, ServerFrame, client, proc
<1>2. Progress' /\ server = "up" /\ server' = "up" /\ cpc' = cpc
  BY <1>0, <1>1 DEF Progress, ServerFrame, Token
<1>3. ~Cleared(w) /\ ~Cleared(w)'
  BY <1>2 DEF Cleared
\* The thread comes up, or works on the command.
<1>4. CASE Boot(w) \/ ReadCmd(w) \/ MakeBlobs(w) \/ GetRemain(w) \/ InvokeCallbacks(w) \/ Hang(w)
  <2>1. /\ UNCHANGED <<result, startSem, endSem, given>>
        /\ \/ spc[w] = "boot" /\ spc' = [spc EXCEPT ![w] = "wait"]
           \/ /\ spc[w] \in {"take", "work"}
              /\ \E c \in {"work", "hung", "answer"} : spc' = [spc EXCEPT ![w] = c]
    BY <1>4, Zenon DEF Boot, ReadCmd, MakeBlobs, GetRemain, InvokeCallbacks, Hang, shared, hist
  <2>2. ans' \in [Workers -> Results]
    <3>1. ans' = ans \/ \E r \in Results : ans' = [ans EXCEPT ![w] = r]
      BY <1>4 DEF Boot, ReadCmd, MakeBlobs, GetRemain, InvokeCallbacks, Hang, Finalize, Results
    <3>2. QED
      BY <1>0, <3>1 DEF RpcTypes
  <2>3. /\ spc' \in [Workers -> {"boot", "wait", "take", "work", "hung", "answer", "post", "exited"}]
        /\ \/ spc[w] = "boot" /\ spc'[w] = "wait"
           \/ spc[w] \in {"take", "work"} /\ spc'[w] \in {"work", "hung", "answer"}
    BY <1>0, <2>1 DEF RpcTypes
  <2>4. RpcTypes'
    BY <1>0, <1>1, <2>1, <2>2, <2>3 DEF RpcTypes, ServerFrame
  <2>5. Token(w)'
    BY <1>0, <1>2, <2>1, <2>3 DEF Token, Serving
  <2>6. Left(w)'
    BY <1>0, <1>2, <1>3, <2>1 DEF Left
  <2>7. QED
    BY <1>2, <2>4, <2>5, <2>6
<1>5. CASE TakeStart(w)
  <2>1. /\ UNCHANGED <<result, ans, endSem, given>>
        /\ spc[w] = "wait" /\ spc' = [spc EXCEPT ![w] = "take"]
        /\ startSem[w] > 0 /\ startSem' = [startSem EXCEPT ![w] = startSem[w] - 1]
    BY <1>5, Zenon DEF TakeStart, hist
  <2>2. spc'[w] = "take" /\ startSem'[w] = startSem[w] - 1 /\ startSem[w] \in Nat /\ RpcTypes'
    BY <1>0, <1>1, <2>1 DEF RpcTypes, ServerFrame
  <2>3. Token(w)'
    BY <1>0, <1>2, <2>1, <2>2 DEF Token, Serving
  <2>4. Left(w)'
    BY <1>0, <1>2, <1>3, <2>1 DEF Left
  <2>5. QED
    BY <1>2, <2>2, <2>3, <2>4
<1>6. CASE Publish(w)
  <2>1. /\ UNCHANGED <<ans, startSem, endSem>>
        /\ spc[w] = "answer" /\ spc' = [spc EXCEPT ![w] = "post"]
        /\ result' = [result EXCEPT ![w] = ans[w]]
        /\ given' = [given EXCEPT ![w] = ans[w]]
    BY <1>6, Zenon DEF Publish
  <2>2. spc'[w] = "post" /\ result'[w] = ans[w] /\ given'[w] = ans[w] /\ RpcTypes'
    BY <1>0, <1>1, <2>1 DEF RpcTypes, ServerFrame
  <2>3. Token(w)'
    BY <1>0, <1>2, <2>1, <2>2 DEF Token, Serving
  <2>4. Left(w)'
    BY <1>0, <1>2, <1>3, <2>1, <2>2 DEF Left
  <2>5. QED
    BY <1>2, <2>2, <2>3, <2>4
<1>7. CASE PostEnd(w)
  <2>1. /\ UNCHANGED <<result, ans, startSem, given>>
        /\ spc[w] = "post" /\ spc' = [spc EXCEPT ![w] = "wait"]
        /\ endSem' = [endSem EXCEPT ![w] = endSem[w] + 1]
    BY <1>7, Zenon DEF PostEnd, hist
  <2>2. spc'[w] = "wait" /\ endSem'[w] = endSem[w] + 1 /\ RpcTypes'
    BY <1>0, <1>1, <2>1 DEF RpcTypes, ServerFrame
  <2>3. endSem[w] = 0 /\ startSem[w] = 0 /\ cpc[w] = "wait" /\ result[w] = given[w]
    BY <1>0, <1>2, <2>1 DEF Token, Serving
  <2>4. Token(w)'
    BY <1>2, <2>1, <2>2, <2>3 DEF Token
  <2>5. Left(w)'
    BY <1>2, <1>3, <2>1, <2>2, <2>3 DEF Left
  <2>6. QED
    BY <1>2, <2>2, <2>4, <2>5
<1>8. QED
  BY <1>4, <1>5, <1>6, <1>7 DEF Server

-----------------------------------------------------------------------------
(* The other workers, and the process. *)

\* A step of worker w is no concern of worker v.
LEMMA OthersStay ==
  ASSUME IInv, NEW w \in Workers, NEW v \in Workers, v # w, Client(w) \/ Server(w) \/ Hang(w)
  PROVE  Token(v)' /\ Left(v)'
<1>1. \/ /\ UNCHANGED <<spc, result>>
         /\ \E c : cpc' = [cpc EXCEPT ![w] = c]
         /\ startSem' = startSem \/ \E n : startSem' = [startSem EXCEPT ![w] = n]
         /\ endSem' = endSem \/ \E n : endSem' = [endSem EXCEPT ![w] = n]
         /\ given' = given \/ \E g : given' = [given EXCEPT ![w] = g]
      \/ /\ UNCHANGED cpc
         /\ \E c : spc' = [spc EXCEPT ![w] = c]
         /\ startSem' = startSem \/ \E n : startSem' = [startSem EXCEPT ![w] = n]
         /\ endSem' = endSem \/ \E n : endSem' = [endSem EXCEPT ![w] = n]
         /\ given' = given \/ \E g : given' = [given EXCEPT ![w] = g]
         /\ result' = result \/ \E r : result' = [result EXCEPT ![w] = r]
  <2>1. CASE Client(w)
    BY <2>1, Zenon DEF Client, Begin, Prepare, SetCmd, PostStart, WaitEnd, ReadResult, Execute,
       EndChain, LoopOn, NewChain, shared, thread, hist
  <2>2. CASE Server(w) \/ Hang(w)
    BY <2>2, Zenon DEF Server, Boot, TakeStart, ReadCmd, MakeBlobs, GetRemain, InvokeCallbacks,
       Publish, PostEnd, Hang, shared, client, hist
  <2>3. QED
    BY <2>1, <2>2
<1>2. UNCHANGED <<server, rw, rstep>>
  BY Zenon DEF Client, Begin, Prepare, SetCmd, PostStart, WaitEnd, ReadResult, Execute, EndChain,
     Server, Boot, TakeStart, ReadCmd, MakeBlobs, GetRemain, InvokeCallbacks, Publish, PostEnd,
     Hang, proc
<1>3. /\ cpc'[v] = cpc[v] /\ spc'[v] = spc[v] /\ startSem'[v] = startSem[v]
      /\ endSem'[v] = endSem[v] /\ given'[v] = given[v] /\ result'[v] = result[v]
  BY <1>1 DEF IInv, RpcTypes
<1>4. Token(v)'
  BY <1>2, <1>3 DEF IInv, Token
<1>5. Left(v)'
  BY <1>2, <1>3 DEF IInv, Left, Cleared
<1>6. QED
  BY <1>4, <1>5

\* What a dead process leaves behind.
LEMMA ExitKeeps ==
  ASSUME IInv, server = "up", ProcessExit
  PROVE  IInv'
<1>1. /\ UNCHANGED <<result, startSem, endSem, cpc, rw, rstep, given>>
      /\ server' = "dead" /\ spc' = [w \in Workers |-> "exited"]
      /\ ans' = [w \in Workers |-> "Empty"]
  BY Zenon DEF ProcessExit, client, hist
<1>2. rw = 1 /\ rstep = "status"
  BY DEF IInv, Progress
<1>3. RpcTypes'
  BY <1>1 DEF IInv, RpcTypes, Results
<1>4. Progress'
  BY <1>1 DEF Progress
<1>5. \A w \in Workers : Token(w)'
  BY <1>1 DEF Token
<1>6. ASSUME NEW w \in Workers PROVE Left(w)'
  <2>1. ~Cleared(w) /\ ~Cleared(w)'
    BY <1>1, <1>2, RpcAssumption DEF Cleared, Workers
  <2>2. QED
    BY <1>1, <2>1 DEF IInv, Left
<1>7. QED
  BY <1>3, <1>4, <1>5, <1>6 DEF IInv

LEMMA ResetKeeps ==
  ASSUME IInv, Reset
  PROVE  IInv'
<1>0. /\ UNCHANGED <<startSem, cpc, spc, ans, given>>
      /\ server = "dead" /\ rw <= NWorkers
  BY Zenon DEF Reset, ResetStatus, ResetResult, ResetPost, ResetFrame, client, thread, hist
<1>1. rw \in Workers
  BY <1>0 DEF IInv, RpcTypes, Workers
<1>2. CASE ResetStatus
  <2>1. UNCHANGED <<result, endSem, server, rw>> /\ rstep = "status" /\ rstep' = "result"
    BY <1>2, Zenon DEF ResetStatus
  <2>2. RpcTypes' /\ Progress'
    BY <1>0, <2>1 DEF IInv, RpcTypes, Progress
  <2>3. \A w \in Workers : Token(w)'
    BY <1>0, <2>1 DEF IInv, Token
  <2>4. \A w \in Workers : Left(w)'
    BY <1>0, <2>1 DEF IInv, Left, Cleared
  <2>5. QED
    BY <2>2, <2>3, <2>4 DEF IInv
<1>3. CASE ResetResult
  <2>1. /\ UNCHANGED <<endSem, server, rw>> /\ rstep = "result" /\ rstep' = "post"
        /\ result' = [result EXCEPT ![rw] = "Empty"]
    BY <1>3, Zenon DEF ResetResult
  <2>2. RpcTypes' /\ Progress'
    BY <1>0, <2>1 DEF IInv, RpcTypes, Progress, Results
  <2>3. \A w \in Workers : Token(w)'
    BY <1>0, <2>1 DEF IInv, Token
  <2>4. ASSUME NEW w \in Workers PROVE Left(w)'
    <3>1. CASE w = rw
      <4>1. result'[w] = "Empty" /\ Cleared(w)'
        BY <1>0, <2>1, <3>1 DEF IInv, RpcTypes, Cleared
      <4>2. QED
        BY <4>1 DEF Left
    <3>2. CASE w # rw
      <4>1. result'[w] = result[w] /\ (Cleared(w)' <=> Cleared(w))
        BY <1>0, <2>1, <3>2 DEF IInv, RpcTypes, Cleared
      <4>2. QED
        BY <1>0, <2>1, <4>1 DEF IInv, Left
    <3>3. QED
      BY <3>1, <3>2
  <2>5. QED
    BY <2>2, <2>3, <2>4 DEF IInv
<1>4. CASE ResetPost
  <2>1. /\ rstep = "post" /\ rstep' = "status" /\ rw' = rw + 1 /\ UNCHANGED result
        /\ endSem' = [endSem EXCEPT ![rw] = endSem[rw] + ResetTokens]
        /\ server' = IF rw = NWorkers THEN "gone" ELSE server
    BY <1>4, Zenon DEF ResetPost
  <2>2. RpcTypes' /\ Progress'
    <3>1. endSem' \in [Workers -> Nat]
      BY <1>1, <2>1, RpcAssumption DEF IInv, RpcTypes
    <3>2. rw' \in 1 .. NWorkers + 1 /\ server' \in {"dead", "gone"}
      BY <1>0, <1>1, <2>1, RpcAssumption DEF Workers
    <3>3. QED
      BY <1>0, <2>1, <3>1, <3>2 DEF IInv, RpcTypes, Progress
  <2>3. \A w \in Workers : Token(w)'
    BY <1>0, <2>1 DEF IInv, Token
  <2>4. ASSUME NEW w \in Workers PROVE Left(w)'
    <3>0. w \in Int /\ rw \in Int /\ server' # "up"
      BY <1>0, <1>1, <2>1, RpcAssumption DEF Workers
    <3>1. CASE w = rw
      <4>1. Cleared(w) /\ Cleared(w)'
        BY <1>0, <2>1, <3>0, <3>1 DEF Cleared
      <4>2. QED
        BY <2>1, <4>1 DEF IInv, Left
    <3>2. CASE w # rw
      <4>1. endSem'[w] = endSem[w]
        BY <1>1, <2>1, <3>2 DEF IInv, RpcTypes
      <4>2. Cleared(w)' <=> Cleared(w)
        BY <1>0, <2>1, <3>0, <3>2 DEF Cleared
      <4>3. QED
        BY <1>0, <2>1, <4>1, <4>2 DEF IInv, Left
    <3>3. QED
      BY <3>1, <3>2
  <2>5. QED
    BY <2>2, <2>3, <2>4 DEF IInv
<1>5. QED
  BY <1>2, <1>3, <1>4 DEF Reset

LEMMA StepIInv == IInv /\ [Next]_vars => IInv'
<1> SUFFICES ASSUME IInv, [Next]_vars PROVE IInv'
  OBVIOUS
<1>1. ASSUME NEW w \in Workers, Client(w) \/ Server(w) \/ Hang(w) PROVE IInv'
  <2>1. RpcTypes' /\ Progress' /\ Token(w)' /\ Left(w)'
    BY <1>1, ClientKeeps, ServerKeeps
  <2>2. \A v \in Workers : v # w => Token(v)' /\ Left(v)'
    BY <1>1, OthersStay
  <2>3. QED
    BY <2>1, <2>2 DEF IInv
<1>2. CASE Crash \/ \E w \in Workers : Timeout(w)
  BY <1>2, ExitKeeps DEF Crash, Timeout
<1>3. CASE Reset
  BY <1>3, ResetKeeps
<1>4. CASE UNCHANGED vars
  BY <1>4 DEF vars, shared, slots, client, thread, proc, hist, IInv, RpcTypes, Progress, Token,
              Left, Cleared
<1>5. QED
  BY <1>1, <1>2, <1>3, <1>4 DEF Next

\* For every number of workers, slots, blobs and spare tokens: worker and
\* server thread never hold the block at the same time, and what a worker reads
\* is the answer to the command it sent, or Empty after the process died
\* (run_cmd, wait_cmd, done_cmd, check_timeout_loop, reset).
THEOREM AnswersAreOwn == Spec => []OwnAnswer
<1>1. IInv => OwnAnswer
  <2> SUFFICES ASSUME IInv PROVE OwnAnswer
    OBVIOUS
  <2>1. BlockExclusive
    BY DEF IInv, Token, BlockExclusive
  <2>2. AnswerIsOwn
    BY DEF IInv, Left, Cleared, AnswerIsOwn
  <2>3. QED
    BY <2>1, <2>2 DEF OwnAnswer
<1>2. QED
  BY InitIInv, StepIInv, <1>1, PTL DEF Spec

-----------------------------------------------------------------------------
(* Blobs in a row: what finalize takes from them and what it leaves.       *)

\* Blobs a+1 to b, in this order.
Span(a, b) == [i \in 1 .. b - a |-> a + i]

LEMMA SpanIs ==
  ASSUME NEW a \in Nat, NEW b \in Nat, a <= b
  PROVE  /\ Len(Span(a, b)) = b - a /\ Elems(Span(a, b)) = a + 1 .. b
         /\ (Span(a, b) = <<>> <=> a = b)
<1>1. Span(a, b) \in Seq(Nat) /\ Len(Span(a, b)) = b - a
  BY DEF Span
<1>2. Elems(Span(a, b)) = a + 1 .. b
  <2>1. \A x \in a + 1 .. b : x - a \in 1 .. b - a /\ Span(a, b)[x - a] = x
    BY DEF Span
  <2>2. \A i \in 1 .. b - a : Span(a, b)[i] \in a + 1 .. b
    BY DEF Span
  <2>3. QED
    BY <1>1, <2>1, <2>2 DEF Elems
<1>3. (Span(a, b) = <<>> <=> a = b)
  BY <1>1
<1>4. QED
  BY <1>1, <1>2, <1>3

LEMMA SpanCut ==
  ASSUME NEW a \in Nat, NEW b \in Nat, a <= b, NEW n \in 0 .. b - a
  PROVE  SubSeq(Span(a, b), 1, n) = Span(a, a + n) /\ Rest(Span(a, b), n) = Span(a + n, b)
<1>1. Span(a, b) \in Seq(Nat) /\ Len(Span(a, b)) = b - a
  BY DEF Span
<1>2. SubSeq(Span(a, b), 1, n) = Span(a, a + n)
  BY <1>1 DEF Span
<1>3. SubSeq(Span(a, b), n + 1, b - a) = Span(a + n, b)
  BY <1>1 DEF Span
<1>4. QED
  BY <1>1, <1>2, <1>3 DEF Rest

LEMMA CutTypes ==
  ASSUME NEW s \in BlobSeqs, NEW n \in 0 .. Len(s)
  PROVE  SubSeq(s, 1, n) \in BlobSeqs /\ Len(SubSeq(s, 1, n)) = n /\ Rest(s, n) \in BlobSeqs
<1>1. PICK m \in 0 .. MaxBlobs : s \in [1 .. m -> Blobs]
  BY DEF BlobSeqs
<1>2. s \in Seq(Blobs) /\ Len(s) = m /\ m \in Nat /\ MaxBlobs \in Nat
  BY <1>1, RpcAssumption
<1>3. SubSeq(s, 1, n) \in Seq(Blobs) /\ Len(SubSeq(s, 1, n)) = n
  BY <1>2
<1>4. SubSeq(s, n + 1, m) \in Seq(Blobs) /\ Len(SubSeq(s, n + 1, m)) = m - n
  BY <1>2
<1>5. \A t \in Seq(Blobs) : Len(t) \in 0 .. MaxBlobs => t \in BlobSeqs
  <2>1. ASSUME NEW t \in Seq(Blobs), Len(t) \in 0 .. MaxBlobs PROVE t \in BlobSeqs
    <3>1. t \in [1 .. Len(t) -> Blobs]
      OBVIOUS
    <3>2. QED
      BY <2>1, <3>1 DEF BlobSeqs
  <2>2. QED
    BY <2>1
<1>6. n \in 0 .. MaxBlobs /\ m - n \in 0 .. MaxBlobs
  BY <1>2
<1>7. QED
  BY <1>2, <1>3, <1>4, <1>5, <1>6 DEF Rest

-----------------------------------------------------------------------------
(* Types of the variables the blobs are about. *)

SlotTypes ==
  /\ block \in [Workers -> BlobSeqs] /\ \A w \in Workers : Len(block[w]) <= Cap
  /\ flags \in [Workers -> SUBSET Slots] /\ slotId \in [Workers -> Ids]

CallTypes ==
  /\ status \in [Workers -> {"BOOTED", "READY", "WIP"}] /\ cmd \in [Workers -> Cmds]
  /\ startTime \in [Workers -> BOOLEAN]
  /\ req \in [Workers -> Cmds] /\ chain \in [Workers -> {"Generate", "Mutate"}]
  /\ res \in [Workers -> Results] /\ scmd \in [Workers -> Cmds]

LocalTypes ==
  /\ outs \in [Workers -> BlobSeqs] /\ rem \in [Workers -> BlobSeqs]
  /\ seedId \in [Workers -> Ids]

HistTypes ==
  /\ want \in [Workers -> Ids] /\ made \in [Workers -> 0 .. MaxBlobs]
  /\ blank \in [Workers -> SUBSET Blobs] /\ ran \in [Workers -> SUBSET Blobs]
  /\ kept \in [Workers -> SUBSET Blobs] /\ called \in [Workers -> SUBSET Blobs]

LEMMA TypesSplit == TypeOK <=> RpcTypes /\ SlotTypes /\ CallTypes /\ LocalTypes /\ HistTypes
BY DEF TypeOK, RpcTypes, SlotTypes, CallTypes, LocalTypes, HistTypes

LEMMA TypesJoined ==
  ASSUME RpcTypes', SlotTypes', CallTypes', LocalTypes', HistTypes'
  PROVE  TypeOK'
BY DEF TypeOK, RpcTypes, SlotTypes, CallTypes, LocalTypes, HistTypes

LEMMA InitTypes == Init => SlotTypes /\ CallTypes /\ LocalTypes /\ HistTypes
<1> SUFFICES ASSUME Init PROVE SlotTypes /\ CallTypes /\ LocalTypes /\ HistTypes
  OBVIOUS
<1>1. <<>> \in BlobSeqs /\ Len(<<>>) = 0 /\ Cap \in Nat /\ MaxBlobs \in Nat
  BY RpcAssumption DEF BlobSeqs
<1> USE DEF Init
<1>2. SlotTypes
  BY <1>1 DEF SlotTypes, Ids
<1>3. CallTypes
  BY DEF CallTypes, Cmds, Results
<1>4. LocalTypes
  BY <1>1 DEF LocalTypes, Ids
<1>5. HistTypes
  BY <1>1 DEF HistTypes, Ids
<1>6. QED
  BY <1>2, <1>3, <1>4, <1>5

\* Of the steps of the worker thread, Prepare and Execute have to do with slots
\* and history.
LEMMA ClientTypes ==
  ASSUME SlotTypes, CallTypes, LocalTypes, HistTypes, RpcTypes, NEW w \in Workers, Client(w)
  PROVE  SlotTypes' /\ CallTypes' /\ LocalTypes' /\ HistTypes'
<1>1. LocalTypes'
  <2>1. UNCHANGED <<outs, rem, seedId>>
    BY Zenon DEF Client, Begin, Prepare, SetCmd, PostStart, WaitEnd, ReadResult, Execute, EndChain,
       thread
  <2>2. QED
    BY <2>1 DEF LocalTypes
<1>2. CallTypes'
  <2>1. /\ UNCHANGED <<status, startTime, scmd>>
        /\ cmd' = cmd \/ cmd' = [cmd EXCEPT ![w] = req[w]]
        /\ res' = res \/ res' = [res EXCEPT ![w] = result[w]]
        /\ chain' = chain \/ \E c \in {"Generate", "Mutate"} : chain' = [chain EXCEPT ![w] = c]
        /\ req' = req \/ \E c \in Cmds : req' = [req EXCEPT ![w] = c]
    <3>1. CASE Begin(w)
      <4>1. \E c \in {"Generate", "Mutate"} :
              chain' = [chain EXCEPT ![w] = c] /\ req' = [req EXCEPT ![w] = chain'[w]]
        BY <3>1 DEF Begin
      <4>2. \E c \in Cmds : req' = [req EXCEPT ![w] = c]
        BY <4>1 DEF CallTypes, Cmds
      <4>3. QED
        BY <3>1, <4>1, <4>2 DEF Begin, shared, thread
    <3>2. CASE Prepare(w) \/ SetCmd(w) \/ PostStart(w) \/ WaitEnd(w)
      BY <3>2, Zenon DEF Prepare, SetCmd, PostStart, WaitEnd, shared, thread
    <3>3. CASE ReadResult(w) \/ Execute(w)
      BY <3>3 DEF ReadResult, Execute, LoopOn, shared, thread, Cmds
    <3>4. CASE EndChain(w)
      BY <3>4 DEF EndChain, shared, thread, Cmds
    <3>5. QED
      BY <3>1, <3>2, <3>3, <3>4 DEF Client
  <2>2. QED
    BY <2>1 DEF CallTypes, RpcTypes
<1>3. CASE Begin(w) \/ SetCmd(w) \/ PostStart(w) \/ WaitEnd(w) \/ ReadResult(w) \/ EndChain(w)
  <2>1. UNCHANGED <<slots, want, made, blank, ran, kept, called>>
    BY <1>3, Zenon DEF Begin, SetCmd, PostStart, WaitEnd, ReadResult, EndChain, hist
  <2>2. QED
    BY <1>1, <1>2, <2>1 DEF SlotTypes, HistTypes, slots
<1>4. CASE Prepare(w)
  <2>0. <<>> \in BlobSeqs /\ Len(<<>>) = 0 /\ Cap \in Nat /\ MaxBlobs \in Nat
    BY RpcAssumption DEF BlobSeqs
  <2>1. /\ block' = [block EXCEPT ![w] = <<>>] /\ flags' = flags
        /\ \/ UNCHANGED <<slotId, want, made, blank, ran, kept, called>>
           \/ \E i \in Ids : NewChain(w, i) /\ (slotId' = slotId \/ slotId' = [slotId EXCEPT ![w] = i])
    BY <1>4 DEF Prepare, hist, Ids
  <2>2. SlotTypes'
    <3>1. block' \in [Workers -> BlobSeqs] /\ \A v \in Workers : Len(block'[v]) <= Cap
      BY <2>0, <2>1 DEF SlotTypes
    <3>2. QED
      BY <2>1, <3>1 DEF SlotTypes
  <2>3. HistTypes'
    <3>1. CASE UNCHANGED <<want, made, blank, ran, kept, called>>
      BY <3>1 DEF HistTypes
    <3>2. ASSUME NEW i \in Ids, NewChain(w, i) PROVE HistTypes'
      <4>1. want' \in [Workers -> Ids] /\ made' \in [Workers -> 0 .. MaxBlobs]
        BY <2>0, <3>2 DEF HistTypes, NewChain
      <4>2. /\ blank' \in [Workers -> SUBSET Blobs] /\ ran' \in [Workers -> SUBSET Blobs]
            /\ kept' \in [Workers -> SUBSET Blobs] /\ called' \in [Workers -> SUBSET Blobs]
        BY <3>2 DEF HistTypes, NewChain
      <4>3. QED
        BY <4>1, <4>2 DEF HistTypes
    <3>3. QED
      BY <2>1, <3>1, <3>2
  <2>4. QED
    BY <1>1, <1>2, <2>2, <2>3
<1>5. CASE Execute(w)
  <2>1. /\ UNCHANGED <<block, want, made, blank, called>>
        /\ ran' = [ran EXCEPT ![w] = @ \cup Elems(block[w])]
    BY <1>5, Zenon DEF Execute
  <2>2. PICK K \in SUBSET (1 .. Len(block[w])) :
          /\ flags' = [flags EXCEPT ![w] = @ \cup K]
          /\ slotId' = [slotId EXCEPT ![w] = IF 1 \in K THEN NewId ELSE @]
          /\ kept' = [kept EXCEPT ![w] = @ \cup {block[w][i] : i \in K}]
    BY <1>5, Zenon DEF Execute
  <2>3. K \subseteq Slots /\ {block[w][i] : i \in K} \subseteq Blobs /\ Elems(block[w]) \subseteq Blobs
    <3>1. PICK m \in 0 .. MaxBlobs : block[w] \in [1 .. m -> Blobs]
      BY DEF SlotTypes, BlobSeqs
    <3>2. Len(block[w]) = m /\ m <= Cap /\ Cap \in Nat
      BY <3>1, RpcAssumption DEF SlotTypes
    <3>3. QED
      BY <3>1, <3>2 DEF Slots, Elems
  <2>4. NewId \in Ids
    BY DEF Ids
  <2>5. flags' \in [Workers -> SUBSET Slots] /\ slotId' \in [Workers -> Ids]
    BY <2>2, <2>3, <2>4 DEF SlotTypes
  <2>6. kept' \in [Workers -> SUBSET Blobs] /\ ran' \in [Workers -> SUBSET Blobs]
    <3>1. kept[w] \cup {block[w][i] : i \in K} \in SUBSET Blobs /\ ran[w] \cup Elems(block[w]) \in SUBSET Blobs
      BY <2>3 DEF HistTypes
    <3>2. QED
      BY <2>1, <2>2, <3>1 DEF HistTypes
  <2>7. QED
    BY <1>1, <1>2, <2>1, <2>5, <2>6 DEF SlotTypes, HistTypes
<1>6. QED
  BY <1>3, <1>4, <1>5 DEF Client

\* What finalize leaves, when as many blobs as fit are taken.
LEMMA FinalizeTypes ==
  ASSUME SlotTypes, LocalTypes, NEW w \in Workers, NEW blobs \in BlobSeqs, NEW B, NEW seed \in Ids,
         Finalize(w, blobs, Fitting(blobs), B, seed)
  PROVE  SlotTypes' /\ LocalTypes'
<1> DEFINE n == Fitting(blobs)
<1>1. n \in 0 .. Len(blobs) /\ n <= Cap /\ n \in Nat
  <2>1. Len(blobs) \in Nat /\ Cap \in Nat
    BY RpcAssumption DEF BlobSeqs
  <2>2. QED
    BY <2>1 DEF Fitting
<1>2. SubSeq(blobs, 1, n) \in BlobSeqs /\ Len(SubSeq(blobs, 1, n)) = n /\ Rest(blobs, n) \in BlobSeqs
  BY <1>1, CutTypes
<1> HIDE DEF n
<1>3. /\ block' = [block EXCEPT ![w] = SubSeq(blobs, 1, n)]
      /\ flags' = [flags EXCEPT ![w] = @ \ (1 .. n)]
      /\ slotId' = slotId \/ slotId' = [slotId EXCEPT ![w] = seed]
      /\ outs' = [outs EXCEPT ![w] = SubSeq(blobs, 1, n)]
      /\ rem' = [rem EXCEPT ![w] = Rest(blobs, n)]
      /\ seedId' = [seedId EXCEPT ![w] = seed]
  BY DEF Finalize, ClearedSlots, n, SlotTypes
<1>4. block' \in [Workers -> BlobSeqs] /\ \A v \in Workers : Len(block'[v]) <= Cap
  BY <1>1, <1>2, <1>3 DEF SlotTypes
<1>5. flags' \in [Workers -> SUBSET Slots]
  BY <1>3 DEF SlotTypes
<1>6. slotId' \in [Workers -> Ids]
  BY <1>3 DEF SlotTypes
<1>7. LocalTypes'
  BY <1>2, <1>3 DEF LocalTypes
<1>8. QED
  BY <1>4, <1>5, <1>6, <1>7 DEF SlotTypes

LEMMA ServerTypes ==
  ASSUME SlotTypes, CallTypes, LocalTypes, HistTypes, NEW w \in Workers, Server(w) \/ Hang(w)
  PROVE  SlotTypes' /\ CallTypes' /\ LocalTypes' /\ HistTypes'
<1>1. CallTypes'
  <2>1. /\ UNCHANGED <<cmd, req, chain, res>>
        /\ status' = status \/ \E s \in {"READY", "WIP"} : status' = [status EXCEPT ![w] = s]
        /\ startTime' = startTime \/ \E b \in BOOLEAN : startTime' = [startTime EXCEPT ![w] = b]
        /\ scmd' = scmd \/ scmd' = [scmd EXCEPT ![w] = cmd[w]]
    BY Zenon DEF Server, Boot, TakeStart, ReadCmd, MakeBlobs, GetRemain, InvokeCallbacks, Publish,
       PostEnd, Hang, shared, client
  <2>2. QED
    BY <2>1 DEF CallTypes
<1>2. CASE Boot(w) \/ TakeStart(w) \/ ReadCmd(w) \/ Publish(w) \/ PostEnd(w) \/ Hang(w)
  <2>1. UNCHANGED <<slots, outs, rem, seedId, want, made, blank, ran, kept, called>>
    BY <1>2, Zenon DEF Boot, TakeStart, ReadCmd, Publish, PostEnd, Hang, hist
  <2>2. QED
    BY <1>1, <2>1 DEF SlotTypes, LocalTypes, HistTypes, slots
<1>3. CASE MakeBlobs(w)
  <2>1. PICK n \in 0 .. MaxBlobs : \E B \in SUBSET (1 .. n), seed \in Ids :
          /\ Finalize(w, [i \in 1 .. n |-> i], Fitting([i \in 1 .. n |-> i]), B, seed)
          /\ made' = [made EXCEPT ![w] = n] /\ blank' = [blank EXCEPT ![w] = B]
    <3>1. slotId[w] \in Ids /\ NoSeed \in Ids
      BY DEF SlotTypes, Ids
    <3>2. QED
      BY <1>3, <3>1 DEF MakeBlobs
  <2>2. UNCHANGED <<want, ran, kept, called>>
    BY <1>3 DEF MakeBlobs
  <2>3. 1 .. n \subseteq Blobs /\ MaxBlobs \in Nat
    BY RpcAssumption DEF Blobs
  <2>4. [i \in 1 .. n |-> i] \in BlobSeqs
    BY <2>3 DEF BlobSeqs
  <2>5. SlotTypes' /\ LocalTypes'
    BY <2>1, <2>4, FinalizeTypes
  <2>6. HistTypes'
    BY <2>1, <2>2, <2>3 DEF HistTypes
  <2>7. QED
    BY <1>1, <2>5, <2>6
<1>4. CASE GetRemain(w)
  <2>1. Finalize(w, rem[w], Fitting(rem[w]), blank[w], seedId[w]) /\ UNCHANGED hist
    BY <1>4 DEF GetRemain
  <2>2. SlotTypes' /\ LocalTypes'
    BY <2>1, FinalizeTypes DEF LocalTypes
  <2>3. QED
    BY <1>1, <2>1, <2>2 DEF HistTypes, hist
<1>5. CASE InvokeCallbacks(w)
  <2>1. /\ UNCHANGED <<slots, outs, rem, seedId, want, made, blank, ran, kept>>
        /\ called' = [called EXCEPT ![w] = @ \cup {outs[w][i] : i \in flags[w] \cap (1 .. Len(outs[w]))}]
    BY <1>5, Zenon DEF InvokeCallbacks
  <2>2. PICK m \in 0 .. MaxBlobs : outs[w] \in [1 .. m -> Blobs]
    <3>1. outs[w] \in BlobSeqs
      BY DEF LocalTypes
    <3>2. QED
      BY <3>1 DEF BlobSeqs
  <2>3. Len(outs[w]) = m
    BY <2>2, RpcAssumption
  <2>4. called[w] \cup {outs[w][i] : i \in flags[w] \cap (1 .. Len(outs[w]))} \in SUBSET Blobs
    BY <2>2, <2>3 DEF HistTypes
  <2>5. QED
    BY <1>1, <2>1, <2>4 DEF SlotTypes, LocalTypes, HistTypes, slots
<1>6. QED
  BY <1>2, <1>3, <1>4, <1>5 DEF Server

LEMMA ProcessTypes ==
  ASSUME SlotTypes, CallTypes, LocalTypes, HistTypes, ProcessExit \/ Reset
  PROVE  SlotTypes' /\ CallTypes' /\ LocalTypes' /\ HistTypes'
<1>1. UNCHANGED <<slots, cmd, client, want, made, blank, ran, kept, called>>
  BY Zenon DEF ProcessExit, Reset, ResetStatus, ResetResult, ResetPost, ResetFrame, hist
<1>2. SlotTypes' /\ HistTypes'
  BY <1>1 DEF SlotTypes, HistTypes, slots
<1>3. CASE ProcessExit
  <2>1. <<>> \in BlobSeqs /\ MaxBlobs \in Nat
    BY RpcAssumption DEF BlobSeqs
  <2>2. CallTypes'
    BY <1>1, <1>3 DEF ProcessExit, CallTypes, client, Cmds
  <2>3. LocalTypes'
    BY <1>3, <2>1 DEF ProcessExit, LocalTypes, Ids
  <2>4. QED
    BY <1>2, <2>2, <2>3
<1>4. CASE Reset
  <2>1. UNCHANGED <<thread, startTime>> /\ (status' = status \/ \E v : status' = [status EXCEPT ![v] = "BOOTED"])
    BY <1>4, Zenon DEF Reset, ResetStatus, ResetResult, ResetPost, ResetFrame
  <2>2. QED
    BY <1>1, <1>2, <2>1 DEF CallTypes, LocalTypes, client, thread
<1>5. QED
  BY <1>3, <1>4

-----------------------------------------------------------------------------
(* The blobs of a chain.                                                    *)

\* The server thread has done the command that is open, and what it answers.
Worked(w) ==
  \/ cpc[w] \in {"read", "exec"}
  \/ cpc[w] = "wait" /\ (spc[w] = "answer" \/ given[w] # "none")
Answer(w) == IF spc[w] = "answer" THEN ans[w] ELSE given[w]

\* The command is on its way and not yet done.
Sent(w) == cpc[w] \in {"cmd", "post", "wait"} /\ ~ Worked(w)

\* The command is the same on its way through record and server thread, and
\* there is an answer from the moment the result is published.
Passed(w) ==
  /\ cpc[w] = "post" => given[w] = "none"
  /\ cpc[w] = "exec" => req[w] # "ExecCB" /\ given[w] = res[w] /\ res[w] # "Empty"
  /\ server = "up" =>
       /\ cpc[w] \in {"read", "exec"} => given[w] # "none"
       /\ cpc[w] = "wait" =>
            /\ startSem[w] = 1 \/ spc[w] \in {"take", "work", "hung", "answer"} => given[w] = "none"
            /\ endSem[w] = 1 \/ spc[w] = "post" => given[w] # "none"
       /\ cpc[w] \in {"post", "wait"} => cmd[w] = req[w]
       /\ spc[w] \in {"work", "hung", "answer"} => scmd[w] = req[w]

\* A chain with command c begins, from the seed that lies in the first slot.
New(w, c) ==
  /\ made[w] = 0 /\ blank[w] = {} /\ ran[w] = {} /\ kept[w] = {} /\ called[w] = {}
  /\ want[w] = IF c = "Mutate" THEN slotId[w] ELSE NoSeed

\* Blobs lo+1 to hi are in the slots, those before have been run, those after
\* remain, and the answer is a.
Loaded(w, a, lo, hi) ==
  /\ lo <= hi /\ hi <= made[w]
  /\ block[w] = Span(lo, hi) /\ outs[w] = Span(lo, hi) /\ rem[w] = Span(hi, made[w])
  /\ ran[w] = 1 .. lo /\ kept[w] \subseteq 1 .. lo /\ (HasCb => called[w] = kept[w])
  /\ flags[w] \cap (1 .. hi - lo) = {}
  /\ seedId[w] = want[w] /\ (lo < hi => slotId[w] = want[w])
  /\ a = "Remain" <=> hi < made[w]
  /\ a = "Empty" => lo + 1 .. hi \subseteq blank[w]

\* They have been run, some were kept and their slots are marked; the callbacks
\* are still to come.
Marked(w, r, lo, hi) ==
  /\ lo <= hi /\ hi <= made[w]
  /\ outs[w] = Span(lo, hi) /\ rem[w] = Span(hi, made[w])
  /\ ran[w] = 1 .. hi /\ kept[w] \subseteq 1 .. hi /\ called[w] = kept[w] \cap (1 .. lo)
  /\ \A i \in 1 .. hi - lo : i \in flags[w] <=> lo + i \in kept[w]
  /\ seedId[w] = want[w]
  /\ r = "Remain" <=> hi < made[w]

\* The round is over; the rest is still to be loaded.
Between(w, r, hi) ==
  /\ hi <= made[w] /\ rem[w] = Span(hi, made[w])
  /\ ran[w] = 1 .. hi /\ kept[w] \subseteq 1 .. hi /\ (HasCb => called[w] = kept[w])
  /\ seedId[w] = want[w]
  /\ r = "Remain" <=> hi < made[w]

Over(w) ==
  /\ (1 .. made[w]) \ blank[w] \subseteq ran[w]
  /\ HasCb => called[w] = kept[w]

IsLoaded(w, a) == \E lo, hi \in 0 .. MaxBlobs : Loaded(w, a, lo, hi)
IsMarked(w, r) == \E lo, hi \in 0 .. MaxBlobs : Marked(w, r, lo, hi)
IsBetween(w, r) == \E hi \in 0 .. MaxBlobs : Between(w, r, hi)

\* What is in the slots was not run yet and has its parent's id.
Unrun(w) ==
  \E lo, hi \in 0 .. MaxBlobs :
    /\ block[w] = Span(lo, hi) /\ ran[w] = 1 .. lo
    /\ lo < hi => slotId[w] = want[w]

\* This holds for an answer that was given, also when the process has died.
GivenLoaded(w) ==
  /\ cpc[w] \in {"wait", "read", "exec"} /\ req[w] # "ExecCB" /\ given[w] \in {"Done", "Remain"}
  => Unrun(w)

\* Where a chain stands while the process lives.
Chain(w) ==
  server = "up" =>
    /\ Sent(w) => \A c \in {"Generate", "Mutate"} : req[w] = c => New(w, c)
    /\ Sent(w) /\ req[w] = "ExecCB" =>
         HasCb /\ \A r \in Results : res[w] = r => IsMarked(w, r)
    /\ Worked(w) /\ req[w] # "ExecCB" => \A a \in Results : Answer(w) = a => IsLoaded(w, a)
    /\ \/ Worked(w) /\ req[w] = "ExecCB"
       \/ req[w] = "GetRemain" /\ (Sent(w) \/ cpc[w] = "batch")
       => \A r \in Results : res[w] = r => IsBetween(w, r)
    /\ cpc[w] = "done" => Over(w)

BlobInv == \A w \in Workers : Passed(w) /\ GivenLoaded(w) /\ Chain(w)

\* Steps that touch no blob.
DataSame(w) ==
  /\ block'[w] = block[w] /\ outs'[w] = outs[w] /\ rem'[w] = rem[w] /\ made'[w] = made[w]
  /\ blank'[w] = blank[w] /\ ran'[w] = ran[w] /\ kept'[w] = kept[w] /\ called'[w] = called[w]
  /\ flags'[w] = flags[w] /\ seedId'[w] = seedId[w] /\ slotId'[w] = slotId[w] /\ want'[w] = want[w]

LEMMA DataKept ==
  ASSUME NEW w, DataSame(w)
  PROVE  /\ \A c : New(w, c)' <=> New(w, c)
         /\ \A a : IsLoaded(w, a)' <=> IsLoaded(w, a)
         /\ \A r : IsMarked(w, r)' <=> IsMarked(w, r)
         /\ \A r : IsBetween(w, r)' <=> IsBetween(w, r)
         /\ Unrun(w)' <=> Unrun(w)
         /\ Over(w)' <=> Over(w)
<1> USE DEF DataSame
<1>1. \A c : New(w, c)' <=> New(w, c)
  BY DEF New
<1>2. \A a : IsLoaded(w, a)' <=> IsLoaded(w, a)
  BY DEF IsLoaded, Loaded
<1>3. \A r : IsMarked(w, r)' <=> IsMarked(w, r)
  BY DEF IsMarked, Marked
<1>4. \A r : IsBetween(w, r)' <=> IsBetween(w, r)
  BY DEF IsBetween, Between
<1>5. Unrun(w)' <=> Unrun(w)
  BY DEF Unrun
<1>6. Over(w)' <=> Over(w)
  BY DEF Over
<1>7. QED
  BY <1>1, <1>2, <1>3, <1>4, <1>5, <1>6

\* Worker and server thread of another worker.
SameFor(v) ==
  /\ cpc'[v] = cpc[v] /\ req'[v] = req[v] /\ res'[v] = res[v] /\ cmd'[v] = cmd[v]
  /\ spc'[v] = spc[v] /\ scmd'[v] = scmd[v] /\ ans'[v] = ans[v] /\ given'[v] = given[v]
  /\ startSem'[v] = startSem[v] /\ endSem'[v] = endSem[v]

LEMMA SameKeeps ==
  ASSUME NEW v \in Workers, Passed(v), GivenLoaded(v), Chain(v), SameFor(v), DataSame(v),
         server' = server
  PROVE  Passed(v)' /\ GivenLoaded(v)' /\ Chain(v)'
<1>1. Passed(v)'
  BY DEF SameFor, Passed
<1>2. GivenLoaded(v)'
  BY DataKept DEF SameFor, GivenLoaded
<1>3. /\ Worked(v)' <=> Worked(v)
      /\ Sent(v)' <=> Sent(v)
      /\ Answer(v)' = Answer(v)
  BY DEF SameFor, Worked, Sent, Answer
<1>4. Chain(v)'
  BY <1>3, DataKept DEF SameFor, Chain
<1>5. QED
  BY <1>1, <1>2, <1>4

LEMMA OthersSame ==
  ASSUME TypeOK, NEW w \in Workers, NEW v \in Workers, v # w, Client(w) \/ Server(w) \/ Hang(w)
  PROVE  SameFor(v) /\ DataSame(v) /\ server' = server
<1>0. RpcTypes /\ SlotTypes /\ CallTypes /\ LocalTypes /\ HistTypes
  BY TypesSplit
<1> DEFINE At(f, g) == g = f \/ \E x : g = [f EXCEPT ![w] = x]
<1>1. /\ At(cpc, cpc') /\ At(req, req') /\ At(res, res') /\ At(cmd, cmd') /\ At(spc, spc')
      /\ At(scmd, scmd') /\ At(ans, ans') /\ At(given, given') /\ At(startSem, startSem')
      /\ At(endSem, endSem') /\ At(block, block') /\ At(outs, outs') /\ At(rem, rem')
      /\ At(made, made') /\ At(blank, blank') /\ At(ran, ran') /\ At(kept, kept')
      /\ At(called, called') /\ At(flags, flags') /\ At(seedId, seedId') /\ At(slotId, slotId')
      /\ At(want, want') /\ server' = server
  <2> USE DEF shared, slots, client, thread, proc, hist
  <2>1. CASE Begin(w) \/ SetCmd(w) \/ PostStart(w) \/ WaitEnd(w) \/ ReadResult(w) \/ EndChain(w)
    BY <2>1, Zenon DEF Begin, SetCmd, PostStart, WaitEnd, ReadResult, EndChain, LoopOn
  <2>2. CASE Prepare(w)
    BY <2>2, Zenon DEF Prepare, NewChain
  <2>3. CASE Execute(w)
    BY <2>3, Zenon DEF Execute, LoopOn
  <2>4. CASE MakeBlobs(w)
    BY <2>4, Zenon DEF MakeBlobs, Finalize
  <2>5. CASE GetRemain(w)
    BY <2>5, Zenon DEF GetRemain, Finalize
  <2>6. CASE Boot(w) \/ TakeStart(w) \/ ReadCmd(w) \/ InvokeCallbacks(w) \/ Publish(w) \/ PostEnd(w)
          \/ Hang(w)
    BY <2>6, Zenon DEF Boot, TakeStart, ReadCmd, InvokeCallbacks, Publish, PostEnd, Hang
  <2>7. QED
    BY <2>1, <2>2, <2>3, <2>4, <2>5, <2>6 DEF Client, Server
<1>2. SameFor(v)
  BY <1>0, <1>1 DEF SameFor, RpcTypes, CallTypes
<1>3. DataSame(v)
  BY <1>0, <1>1 DEF DataSame, SlotTypes, LocalTypes, HistTypes
<1>4. QED
  BY <1>1, <1>2, <1>3

\* What IInv says of a worker while the process lives.
LEMMA Handed ==
  ASSUME IInv, NEW w \in Workers
  PROVE  /\ server = "up" /\ cpc[w] # "wait" => spc[w] \in {"boot", "wait"} /\ startSem[w] = 0
         /\ server = "up" /\ spc[w] \in Serving => cpc[w] = "wait" /\ startSem[w] = 0 /\ endSem[w] = 0
         /\ server = "up" /\ endSem[w] > 0 => endSem[w] = 1 /\ startSem[w] = 0 /\ spc[w] \in {"boot", "wait"}
         /\ server = "up" /\ startSem[w] > 0 => cpc[w] = "wait" /\ startSem[w] = 1
         /\ server # "up" => spc[w] = "exited"
         /\ cpc[w] = "read" => result[w] = given[w] \/ (server # "up" /\ result[w] = "Empty")
<1>1. /\ startSem[w] \in Nat /\ endSem[w] \in Nat /\ Token(w) /\ Left(w)
      /\ spc[w] \in {"boot", "wait", "exited"} \cup Serving
  BY DEF IInv, RpcTypes, Serving
<1>2. server = "up" /\ cpc[w] # "wait" => spc[w] \in {"boot", "wait"} /\ startSem[w] = 0
  BY <1>1 DEF Token
<1>3. server = "up" /\ spc[w] \in Serving => cpc[w] = "wait" /\ startSem[w] = 0 /\ endSem[w] = 0
  BY <1>1 DEF Token, Serving
<1>4. server = "up" /\ endSem[w] > 0 => endSem[w] = 1 /\ startSem[w] = 0 /\ spc[w] \in {"boot", "wait"}
  BY <1>1 DEF Token
<1>5. server = "up" /\ startSem[w] > 0 => cpc[w] = "wait" /\ startSem[w] = 1
  BY <1>1 DEF Token
<1>6. server # "up" => spc[w] = "exited"
  BY <1>1 DEF Token
<1>7. cpc[w] = "read" => result[w] = given[w] \/ (server # "up" /\ result[w] = "Empty")
  BY <1>1 DEF Left, Cleared
<1>8. QED
  BY <1>2, <1>3, <1>4, <1>5, <1>6, <1>7

BlobsOf(w) == Passed(w) /\ GivenLoaded(w) /\ Chain(w)

\* The steps of the worker thread that touch no blob, one by one.
LEMMA BeginKeeps ==
  ASSUME IInv, TypeOK, NEW w \in Workers, BlobsOf(w), Begin(w)
  PROVE  BlobsOf(w)'
<1>1. /\ cpc[w] = "idle" /\ cpc'[w] = "batch" /\ req'[w] \in {"Generate", "Mutate"}
      /\ UNCHANGED <<server, spc, scmd, given, startSem, endSem, cmd>>
  BY DEF Begin, TypeOK, shared, thread, proc, hist
<1>2. server = "up" => spc[w] \in {"boot", "wait"}
  BY <1>1, Handed
<1>3. QED
  BY <1>1, <1>2 DEF BlobsOf, Passed, GivenLoaded, Chain, Sent, Worked

LEMMA PrepareKeeps ==
  ASSUME IInv, TypeOK, NEW w \in Workers, BlobsOf(w), Prepare(w)
  PROVE  BlobsOf(w)'
<1>1. /\ cpc[w] = "batch" /\ UNCHANGED <<server, spc, scmd, given, startSem, endSem, cmd, req, res>>
      /\ cpc'[w] \in {"cmd", "idle"}
  BY DEF Prepare, TypeOK, shared, thread, proc, hist, NewChain
<1>2. server = "up" => spc[w] \in {"boot", "wait"}
  BY <1>1, Handed
<1>3. Passed(w)' /\ GivenLoaded(w)' /\ ~ Worked(w)' /\ ~ Worked(w)
  BY <1>1, <1>2 DEF BlobsOf, Passed, GivenLoaded, Worked
<1>4. CASE cpc'[w] = "idle"
  BY <1>1, <1>3, <1>4 DEF BlobsOf, Chain, Sent
<1>5. CASE cpc'[w] = "cmd" /\ req[w] = "GetRemain"
  <2>1. UNCHANGED <<hist, slotId, flags, thread>>
    BY <1>5 DEF Prepare
  <2>2. \A r : IsBetween(w, r) => IsBetween(w, r)'
    BY <2>1 DEF IsBetween, Between, hist, thread
  <2>3. QED
    BY <1>1, <1>3, <1>5, <2>2 DEF BlobsOf, Chain, Sent
<1>6. CASE cpc'[w] = "cmd" /\ req[w] # "GetRemain"
  <2>1. \/ req[w] = "Generate" /\ NewChain(w, NoSeed)
        \/ /\ req[w] = "Mutate"
           /\ \E s \in Seeds : NewChain(w, s) /\ slotId' = [slotId EXCEPT ![w] = s]
    BY <1>1, <1>6 DEF Prepare, TypeOK
  <2>2. /\ made'[w] = 0 /\ blank'[w] = {} /\ ran'[w] = {} /\ kept'[w] = {} /\ called'[w] = {}
        /\ req[w] = "Generate" => want'[w] = NoSeed
        /\ req[w] = "Mutate" => want'[w] = slotId'[w]
    BY <2>1 DEF NewChain, TypeOK
  <2>3. \A c \in {"Generate", "Mutate"} : req'[w] = c => New(w, c)'
    BY <1>1, <2>2 DEF New
  <2>4. QED
    BY <1>1, <1>3, <1>6, <2>1, <2>3 DEF BlobsOf, Chain, Sent
<1>7. QED
  BY <1>1, <1>4, <1>5, <1>6

\* A command on its way to the server thread.
LEMMA SendKeeps ==
  ASSUME IInv, TypeOK, NEW w \in Workers, BlobsOf(w), SetCmd(w) \/ PostStart(w)
  PROVE  BlobsOf(w)'
<1>1. /\ UNCHANGED <<server, spc, scmd, ans, endSem, req, res>> /\ DataSame(w)
      /\ \/ /\ cpc[w] = "cmd" /\ cpc'[w] = "post" /\ given'[w] = "none" /\ cmd'[w] = req[w]
            /\ startSem' = startSem
         \/ /\ cpc[w] = "post" /\ cpc'[w] = "wait" /\ UNCHANGED <<given, cmd>>
  BY DEF SetCmd, PostStart, TypeOK, thread, proc, hist, slots, DataSame
<1>2. server = "up" => spc[w] \in {"boot", "wait"} /\ endSem[w] = 0
  BY <1>1 DEF IInv, Token
<1>3. Passed(w)'
  BY <1>1, <1>2 DEF BlobsOf, Passed
<1>4. given'[w] = "none" /\ ~ Worked(w) /\ (server = "up" => ~ Worked(w)')
  BY <1>1, <1>2 DEF BlobsOf, Passed, Worked
<1>5. GivenLoaded(w)'
  BY <1>4 DEF GivenLoaded
<1>6. Chain(w)'
  BY <1>1, <1>4, DataKept DEF BlobsOf, Chain, Sent
<1>7. QED
  BY <1>3, <1>5, <1>6 DEF BlobsOf

LEMMA WaitEndKeeps ==
  ASSUME IInv, TypeOK, NEW w \in Workers, BlobsOf(w), WaitEnd(w)
  PROVE  BlobsOf(w)'
<1>1. /\ UNCHANGED <<server, spc, scmd, ans, startSem, req, res, given, cmd>> /\ DataSame(w)
      /\ cpc[w] = "wait" /\ cpc'[w] = "read" /\ endSem[w] > 0
  BY DEF WaitEnd, TypeOK, thread, proc, hist, slots, DataSame
<1>2. server = "up" => spc[w] \in {"boot", "wait"} /\ endSem[w] = 1
  BY <1>1, Handed
<1>3. Passed(w)' /\ GivenLoaded(w)'
  BY <1>1, <1>2, DataKept DEF BlobsOf, Passed, GivenLoaded
<1>4. server = "up" => Worked(w) /\ Worked(w)' /\ Answer(w)' = Answer(w)
  BY <1>1, <1>2 DEF BlobsOf, Passed, Worked, Answer
<1>5. Chain(w)'
  BY <1>1, <1>4, DataKept DEF BlobsOf, Chain, Sent
<1>6. QED
  BY <1>3, <1>5 DEF BlobsOf

\* The loop of execute_all ends when nothing remains.
LEMMA LoopEnds ==
  ASSUME TypeOK, NEW w \in Workers, NEW r \in Results, IsBetween(w, r), r # "Remain"
  PROVE  Over(w)
<1>1. PICK hi \in 0 .. MaxBlobs : Between(w, r, hi)
  BY DEF IsBetween
<1>2. hi = made[w]
  BY <1>1, RpcAssumption DEF Between, TypeOK
<1>3. QED
  BY <1>1, <1>2 DEF Between, Over

LEMMA EmptyEnds ==
  ASSUME TypeOK, NEW w \in Workers, IsLoaded(w, "Empty")
  PROVE  Over(w)
<1>1. PICK lo \in 0 .. MaxBlobs, hi \in 0 .. MaxBlobs : Loaded(w, "Empty", lo, hi)
  BY DEF IsLoaded
<1>2. hi = made[w] /\ lo <= hi
  BY <1>1, RpcAssumption DEF Loaded, TypeOK
<1>3. 1 .. hi \subseteq (1 .. lo) \cup (lo + 1 .. hi)
  BY RpcAssumption
<1>4. QED
  BY <1>1, <1>2, <1>3 DEF Loaded, Over

LEMMA ReadResultKeeps ==
  ASSUME IInv, TypeOK, NEW w \in Workers, BlobsOf(w), ReadResult(w)
  PROVE  BlobsOf(w)'
<1>1. /\ UNCHANGED <<server, spc, scmd, ans, startSem, endSem, given, cmd>> /\ DataSame(w)
      /\ cpc[w] = "read"
  BY DEF ReadResult, shared, thread, proc, hist, slots, DataSame
<1>2. /\ server = "up" => spc[w] \in {"boot", "wait"} /\ Answer(w) = result[w]
      /\ result[w] \in Results /\ res[w] \in Results
      /\ result[w] = "Empty" \/ result[w] = given[w]
  BY <1>1, Handed DEF Answer, TypeOK
<1>3. CASE req[w] = "ExecCB"
  <2>1. \/ /\ res[w] = "Remain" /\ req'[w] = "GetRemain" /\ cpc'[w] = "batch" /\ res' = res
        \/ /\ res[w] # "Remain" /\ cpc'[w] = "done" /\ UNCHANGED <<req, res>>
    BY <1>3 DEF ReadResult, LoopOn, TypeOK
  <2>2. server = "up" => IsBetween(w, res[w])
    BY <1>1, <1>2, <1>3 DEF BlobsOf, Chain, Worked
  <2>3. server = "up" /\ res[w] # "Remain" => Over(w)'
    BY <1>1, <1>2, <2>2, LoopEnds, DataKept
  <2>4. server = "up" => \A r \in Results : res[w] = r => IsBetween(w, r)'
    BY <1>1, <2>2, DataKept
  <2>5. Passed(w)' /\ GivenLoaded(w)'
    BY <1>1, <1>2, <2>1 DEF Passed, GivenLoaded
  <2>6. Chain(w)'
    BY <1>1, <2>1, <2>3, <2>4 DEF Chain, Sent, Worked
  <2>7. QED
    BY <2>5, <2>6 DEF BlobsOf
<1>4. CASE req[w] # "ExecCB" /\ result[w] = "Empty"
  <2>1. cpc'[w] = "done" /\ UNCHANGED <<req, res>>
    BY <1>4 DEF ReadResult, TypeOK
  <2>2. server = "up" => IsLoaded(w, "Empty")
    BY <1>1, <1>2, <1>4 DEF BlobsOf, Chain, Worked
  <2>3. server = "up" => Over(w)'
    BY <1>1, <2>2, EmptyEnds, DataKept
  <2>4. Passed(w)' /\ GivenLoaded(w)'
    BY <1>1, <1>2, <2>1 DEF Passed, GivenLoaded
  <2>5. Chain(w)'
    BY <1>1, <2>1, <2>3 DEF Chain, Sent, Worked
  <2>6. QED
    BY <2>4, <2>5 DEF BlobsOf
<1>5. CASE req[w] # "ExecCB" /\ result[w] # "Empty"
  <2>1. cpc'[w] = "exec" /\ req' = req /\ res'[w] = result[w] /\ given[w] = result[w]
    BY <1>2, <1>5 DEF ReadResult, TypeOK
  <2>2. Passed(w)'
    BY <1>1, <1>2, <1>5, <2>1 DEF Passed, Results
  <2>3. GivenLoaded(w)'
    BY <1>1, <2>1, DataKept DEF BlobsOf, GivenLoaded
  <2>4. Worked(w) /\ Worked(w)' /\ Answer(w)' = Answer(w)
    BY <1>1, <2>1 DEF Worked, Answer
  <2>5. Chain(w)'
    BY <1>1, <1>5, <2>1, <2>4, DataKept DEF BlobsOf, Chain, Sent
  <2>6. QED
    BY <2>2, <2>3, <2>5 DEF BlobsOf
<1>6. QED
  BY <1>3, <1>4, <1>5

LEMMA EndChainKeeps ==
  ASSUME IInv, TypeOK, NEW w \in Workers, BlobsOf(w), EndChain(w)
  PROVE  BlobsOf(w)'
<1>1. /\ UNCHANGED <<server, spc, scmd, given, startSem, endSem, cmd>>
      /\ cpc[w] = "done"
      /\ \/ cpc'[w] = "batch" /\ req'[w] = "Mutate"
         \/ cpc'[w] = "idle"
  BY DEF EndChain, TypeOK, shared, thread, proc, hist
<1>2. server = "up" => spc[w] \in {"boot", "wait"}
  BY <1>1, Handed
<1>3. QED
  BY <1>1, <1>2 DEF BlobsOf, Passed, GivenLoaded, Chain, Sent, Worked

\* The blobs that were loaded are run, some of them are kept; then the
\* callbacks are asked for, or the loop goes on.
LEMMA ExecuteKeeps ==
  ASSUME IInv, TypeOK, NEW w \in Workers, BlobsOf(w), Execute(w)
  PROVE  BlobsOf(w)'
<1>1. /\ UNCHANGED <<server, spc, scmd, ans, startSem, endSem, res, given, cmd>>
      /\ cpc[w] = "exec" /\ cpc'[w] \in {"cmd", "batch", "done"}
      /\ outs' = outs /\ rem' = rem /\ seedId' = seedId
      /\ made' = made /\ blank' = blank /\ called' = called /\ want' = want
      /\ ran'[w] = ran[w] \cup Elems(block[w])
  BY DEF Execute, LoopOn, TypeOK, shared, thread, proc
<1>2. /\ HasCb => req'[w] = "ExecCB" /\ cpc'[w] = "cmd"
      /\ ~ HasCb /\ res[w] = "Remain" => req'[w] = "GetRemain" /\ cpc'[w] = "batch"
      /\ ~ HasCb /\ res[w] # "Remain" => cpc'[w] = "done"
  BY DEF Execute, LoopOn, TypeOK
<1>3. PICK K \in SUBSET (1 .. Len(block[w])) :
        /\ flags'[w] = flags[w] \cup K
        /\ kept'[w] = kept[w] \cup {block[w][i] : i \in K}
  BY ZenonT(40) DEF Execute, TypeOK
<1>4. server = "up" => spc[w] \in {"boot", "wait"}
  BY <1>1, Handed
<1>5. Passed(w)'
  BY <1>1, <1>4 DEF Passed
<1>6. GivenLoaded(w)'
  BY <1>1 DEF GivenLoaded
<1>7. server = "up" => \E lo, hi \in 0 .. MaxBlobs : Loaded(w, res[w], lo, hi)
  <2>1. Worked(w) /\ req[w] # "ExecCB" /\ given[w] = res[w] /\ res[w] \in Results
    BY <1>1 DEF Worked, BlobsOf, Passed, TypeOK
  <2>2. server = "up" => Answer(w) = res[w]
    BY <1>4, <2>1 DEF Answer
  <2>3. QED
    BY <2>1, <2>2 DEF BlobsOf, Chain, IsLoaded
<1>8. ASSUME server = "up"
      PROVE  /\ HasCb => \A r \in Results : res[w] = r => IsMarked(w, r)'
             /\ ~ HasCb => \A r \in Results : res[w] = r => IsBetween(w, r)'
  <2>1. PICK lo \in 0 .. MaxBlobs, hi \in 0 .. MaxBlobs : Loaded(w, res[w], lo, hi)
    BY <1>7, <1>8
  <2>2. /\ lo \in Nat /\ hi \in Nat /\ lo <= hi /\ hi <= made[w] /\ block[w] = Span(lo, hi)
        /\ ran[w] = 1 .. lo /\ kept[w] \subseteq 1 .. lo /\ flags[w] \cap (1 .. hi - lo) = {}
    BY <2>1, RpcAssumption DEF Loaded
  <2>3. Elems(block[w]) = lo + 1 .. hi /\ Len(block[w]) = hi - lo
    <3>1. Elems(Span(lo, hi)) = lo + 1 .. hi /\ Len(Span(lo, hi)) = hi - lo
      BY <2>2, SpanIs, Zenon
    <3>2. QED
      BY <2>2, <3>1
  <2>4. K \subseteq 1 .. hi - lo /\ (\A i \in K : block[w][i] = lo + i) /\ {block[w][i] : i \in K} = {lo + i : i \in K}
    BY <2>2, <2>3, ZenonT(40) DEF Span
  <2>5. ran'[w] = 1 .. hi
    BY <1>1, <2>2, <2>3
  <2>6. kept'[w] \subseteq 1 .. hi
    <3>1. kept'[w] = kept[w] \cup {lo + i : i \in K}
      BY <1>3, <2>4
    <3>2. kept[w] \subseteq 1 .. hi
      BY <2>2
    <3>3. \A i \in K : lo + i \in 1 .. hi
      BY <2>2, <2>4
    <3>4. QED
      BY <3>1, <3>2, <3>3
  <2>7. CASE HasCb
    <3>0. kept'[w] = kept[w] \cup {lo + i : i \in K} /\ called'[w] = kept[w]
      BY <1>1, <1>3, <2>1, <2>4, <2>7 DEF Loaded
    <3>1. called'[w] = kept'[w] \cap (1 .. lo)
      <4>1. \A i \in K : lo + i \notin 1 .. lo
        BY <2>2, <2>4
      <4>2. QED
        BY <2>2, <3>0, <4>1
    <3>2. ASSUME NEW i \in 1 .. hi - lo PROVE i \in flags'[w] <=> lo + i \in kept'[w]
      <4>1. lo + i \notin kept[w] /\ i \notin flags[w]
        BY <2>2
      <4>2. lo + i \in {lo + k : k \in K} <=> i \in K
        BY <2>2, <2>4
      <4>3. QED
        BY <1>3, <3>0, <4>1, <4>2
    <3>3. Marked(w, res[w], lo, hi)'
      BY <1>1, <2>1, <2>2, <2>5, <2>6, <3>1, <3>2 DEF Loaded, Marked
    <3>4. QED
      BY <1>1, <2>7, <3>3 DEF IsMarked
  <2>8. CASE ~ HasCb
    <3>1. Between(w, res[w], hi)'
      BY <1>1, <2>1, <2>2, <2>5, <2>6, <2>8 DEF Loaded, Between
    <3>2. QED
      BY <1>1, <2>8, <3>1 DEF IsBetween
  <2>9. QED
    BY <2>7, <2>8
<1>9. Chain(w)'
  <2>1. CASE server = "up" /\ HasCb
    BY <1>1, <1>2, <1>8, <2>1 DEF Chain, Worked, Sent
  <2>2. CASE server = "up" /\ ~ HasCb /\ res[w] = "Remain"
    BY <1>1, <1>2, <1>8, <2>2 DEF Chain, Worked, Sent
  <2>3. CASE server = "up" /\ ~ HasCb /\ res[w] # "Remain"
    <3>1. res[w] \in Results
      BY DEF TypeOK
    <3>2. IsBetween(w, res[w])'
      BY <1>1, <1>8, <2>3, <3>1
    <3>3. Over(w)'
      <4>1. PICK hi \in 0 .. MaxBlobs : Between(w, res[w], hi)'
        BY <3>2 DEF IsBetween
      <4>2. hi = made'[w]
        BY <1>1, <2>3, <4>1, RpcAssumption DEF Between, TypeOK
      <4>3. QED
        BY <4>1, <4>2 DEF Between, Over
    <3>4. QED
      BY <1>1, <1>2, <2>3, <3>3 DEF Chain, Worked, Sent
  <2>4. CASE server # "up"
    BY <1>1, <2>4 DEF Chain
  <2>5. QED
    BY <2>1, <2>2, <2>3, <2>4
<1>10. QED
  BY <1>5, <1>6, <1>9 DEF BlobsOf

-----------------------------------------------------------------------------
(* The server thread.                                                       *)

\* The steps that bring a command to the server thread, or lose it there.
LEMMA TakeKeeps ==
  ASSUME IInv, TypeOK, NEW w \in Workers, BlobsOf(w),
         Boot(w) \/ TakeStart(w) \/ ReadCmd(w) \/ Hang(w) \/ PostEnd(w)
  PROVE  BlobsOf(w)'
<1>1. /\ UNCHANGED <<cpc, req, res, cmd, given, ans, server>> /\ DataSame(w)
      /\ \/ /\ spc[w] = "boot" /\ spc'[w] = "wait" /\ UNCHANGED <<scmd, startSem, endSem>>
         \/ /\ spc[w] = "wait" /\ spc'[w] = "take" /\ UNCHANGED <<scmd, endSem>>
            /\ startSem[w] > 0
         \/ /\ spc[w] = "take" /\ spc'[w] = "work" /\ UNCHANGED <<startSem, endSem>>
            /\ scmd'[w] = cmd[w]
         \/ /\ spc[w] = "work" /\ spc'[w] = "hung" /\ UNCHANGED <<scmd, startSem, endSem>>
         \/ /\ spc[w] = "post" /\ spc'[w] = "wait" /\ UNCHANGED <<scmd, startSem>>
  <2>1. /\ UNCHANGED <<cpc, req, res, cmd, given, ans, server>> /\ DataSame(w)
    BY Zenon DEF Boot, TakeStart, ReadCmd, Hang, PostEnd, shared, client, proc,
       hist, slots, DataSame
  <2>3. CASE Boot(w)
    BY <2>1, <2>3 DEF Boot, TypeOK
  <2>4. CASE TakeStart(w)
    BY <2>1, <2>4 DEF TakeStart, TypeOK
  <2>5. CASE ReadCmd(w)
    BY <2>1, <2>5 DEF ReadCmd, TypeOK
  <2>6. CASE Hang(w)
    BY <2>1, <2>6 DEF Hang, TypeOK, shared
  <2>7. CASE PostEnd(w)
    BY <2>1, <2>7 DEF PostEnd, TypeOK
  <2>8. QED
    BY <2>3, <2>4, <2>5, <2>6, <2>7
<1>2. /\ server = "up"
      /\ spc[w] \in Serving => cpc[w] = "wait" /\ startSem[w] = 0 /\ endSem[w] = 0
      /\ startSem[w] > 0 => cpc[w] = "wait" /\ startSem[w] = 1
      /\ endSem[w] > 0 => spc[w] \in {"boot", "wait"} /\ startSem[w] = 0
  BY <1>1, Handed
<1>3. Worked(w)' <=> Worked(w)
  BY <1>1 DEF Worked
<1>4. Answer(w)' = Answer(w)
  BY <1>1 DEF Answer
<1>5. Passed(w)'
  BY <1>1, <1>2 DEF BlobsOf, Passed, Serving
<1>6. GivenLoaded(w)'
  BY <1>1, DataKept DEF BlobsOf, GivenLoaded
<1>7. Chain(w)'
  BY <1>1, <1>3, <1>4, DataKept DEF BlobsOf, Chain, Sent
<1>8. QED
  BY <1>5, <1>6, <1>7 DEF BlobsOf

LEMMA LoadedUnrun ==
  ASSUME NEW w \in Workers, NEW a, IsLoaded(w, a)
  PROVE  Unrun(w)
BY DEF IsLoaded, Loaded, Unrun

LEMMA PublishKeeps ==
  ASSUME IInv, TypeOK, NEW w \in Workers, BlobsOf(w), Publish(w)
  PROVE  BlobsOf(w)'
<1>1. /\ UNCHANGED <<cpc, req, res, cmd, scmd, ans, server, startSem, endSem>> /\ DataSame(w)
      /\ spc[w] = "answer" /\ spc'[w] = "post" /\ given'[w] = ans[w] /\ ans[w] \in Results
  BY DEF Publish, TypeOK, client, proc, slots, DataSame
<1>2. server = "up" /\ cpc[w] = "wait" /\ startSem[w] = 0 /\ endSem[w] = 0
  BY <1>1, Handed DEF Serving
<1>3. given'[w] \in Results /\ "none" \notin Results
  BY <1>1 DEF Results
<1>4. Worked(w) /\ Worked(w)' /\ Answer(w) = ans[w] /\ Answer(w)' = ans[w]
  BY <1>1, <1>2, <1>3 DEF Worked, Answer
<1>5. Passed(w)'
  BY <1>1, <1>2, <1>3 DEF BlobsOf, Passed
<1>6. GivenLoaded(w)'
  <2>1. req[w] # "ExecCB" => Unrun(w)
    BY <1>1, <1>2, <1>4, LoadedUnrun DEF BlobsOf, Chain
  <2>2. QED
    BY <1>1, <2>1, DataKept DEF GivenLoaded
<1>7. Chain(w)'
  BY <1>1, <1>4, DataKept DEF BlobsOf, Chain, Sent
<1>8. QED
  BY <1>5, <1>6, <1>7 DEF BlobsOf

\* A round is loaded: from blob lo on as many as there are slots.
LEMMA FinalizeLoads ==
  ASSUME TypeOK, NEW w \in Workers, NEW lo \in 0 .. MaxBlobs, NEW top \in 0 .. MaxBlobs, lo <= top,
         NEW B, NEW seed,
         Finalize(w, Span(lo, top), Fitting(Span(lo, top)), B, seed),
         made'[w] = top, blank'[w] = B, want'[w] = seed,
         ran'[w] = 1 .. lo, kept'[w] \subseteq 1 .. lo, HasCb => called'[w] = kept'[w]
  PROVE  IsLoaded(w, ans[w])'
<1> DEFINE blobs == Span(lo, top)
           n     == Fitting(blobs)
           hi    == lo + n
<1>0. lo \in Nat /\ top \in Nat /\ Cap \in Nat /\ MaxBlobs \in Nat /\ lo <= top
  BY RpcAssumption
<1>1. Len(blobs) = top - lo
  BY <1>0, SpanIs
<1>2. n \in 0 .. top - lo
  BY <1>0, <1>1 DEF Fitting
<1> HIDE DEF n
<1>3. hi \in 0 .. MaxBlobs /\ hi \in Nat /\ lo <= hi /\ hi <= top
  BY <1>0, <1>2
<1>4. SubSeq(blobs, 1, n) = Span(lo, hi) /\ Rest(blobs, n) = Span(hi, top)
  BY <1>0, <1>2, SpanCut
<1>5. Elems(Span(lo, hi)) = lo + 1 .. hi /\ ((Span(hi, top) = <<>>) <=> hi = top)
  <2>1. Elems(Span(lo, hi)) = lo + 1 .. hi
    BY <1>0, <1>3, SpanIs, Zenon
  <2>2. (Span(hi, top) = <<>>) <=> hi = top
    BY <1>0, <1>3, SpanIs, Zenon
  <2>3. QED
    BY <2>1, <2>2
<1> HIDE DEF hi, blobs
<1>6. /\ block'[w] = Span(lo, hi) /\ outs'[w] = Span(lo, hi) /\ rem'[w] = Span(hi, top)
      /\ flags'[w] = flags[w] \ (1 .. n) /\ (n > 0 => slotId'[w] = seed) /\ seedId'[w] = seed
  BY <1>4 DEF Finalize, ClearedSlots, TypeOK, blobs, n
<1>7. ans'[w] = IF rem'[w] # <<>> THEN "Remain"
                ELSE IF Elems(outs'[w]) \subseteq B THEN "Empty" ELSE "Done"
  BY DEF Finalize, TypeOK
<1>8. ans'[w] = "Remain" <=> hi < top
  BY <1>0, <1>3, <1>5, <1>6, <1>7
<1>9. ans'[w] = "Empty" => lo + 1 .. hi \subseteq B
  BY <1>5, <1>6, <1>7
<1>10. hi - lo = n
  BY <1>0, <1>2 DEF hi
<1>11. flags'[w] \cap (1 .. hi - lo) = {} /\ (lo < hi => slotId'[w] = seed)
  <2>1. lo < hi => n > 0
    BY <1>0, <1>2 DEF hi
  <2>2. QED
    BY <1>6, <1>10, <2>1
<1>12. Loaded(w, ans[w], lo, hi)'
  BY <1>0, <1>3, <1>6, <1>8, <1>9, <1>11 DEF Loaded, hi, n
<1>13. QED
  BY <1>3, <1>12 DEF IsLoaded

\* What the three commands have in common: the server thread has worked.
LEMMA WorkKeeps ==
  ASSUME IInv, TypeOK, NEW w \in Workers, BlobsOf(w), spc[w] = "work", spc'[w] = "answer",
         UNCHANGED <<cpc, req, res, cmd, scmd, given, server, startSem, endSem>>,
         ans'[w] \in Results,
         req[w] # "ExecCB" => IsLoaded(w, ans[w])',
         req[w] = "ExecCB" => \A r \in Results : res[w] = r => IsBetween(w, r)'
  PROVE  BlobsOf(w)'
<1>1. server = "up" /\ cpc[w] = "wait"
  BY Handed DEF Serving
<1>2. given[w] = "none"
  BY <1>1 DEF BlobsOf, Passed
<1>3. Worked(w)' /\ ~ Sent(w)' /\ Answer(w)' = ans'[w]
  BY <1>1 DEF Worked, Sent, Answer
<1>4. Passed(w)'
  BY <1>1, <1>2 DEF BlobsOf, Passed
<1>5. GivenLoaded(w)'
  BY <1>2 DEF GivenLoaded
<1>6. Chain(w)'
  BY <1>1, <1>3 DEF Chain
<1>7. QED
  BY <1>4, <1>5, <1>6 DEF BlobsOf

LEMMA MakeBlobsKeeps ==
  ASSUME IInv, TypeOK, NEW w \in Workers, BlobsOf(w), MakeBlobs(w), TypeOK'
  PROVE  BlobsOf(w)'
<1>1. /\ UNCHANGED <<cpc, req, res, cmd, scmd, given, server, startSem, endSem>>
      /\ UNCHANGED <<want, ran, kept, called>>
      /\ spc[w] = "work" /\ spc'[w] = "answer" /\ scmd[w] \in {"Mutate", "Generate"}
  BY DEF MakeBlobs, TypeOK, client, proc, shared
<1>2. server = "up" /\ cpc[w] = "wait" /\ endSem[w] = 0
  BY <1>1, Handed DEF Serving
<1>3. scmd[w] = req[w] /\ given[w] = "none"
  BY <1>1, <1>2 DEF BlobsOf, Passed
<1>4. Sent(w)
  BY <1>1, <1>2, <1>3 DEF Sent, Worked
<1>5. New(w, scmd[w])
  BY <1>1, <1>2, <1>3, <1>4 DEF BlobsOf, Chain
<1>6. PICK n \in 0 .. MaxBlobs : \E B \in SUBSET (1 .. n) :
        /\ Finalize(w, [i \in 1 .. n |-> i], Fitting([i \in 1 .. n |-> i]), B,
                    IF scmd[w] = "Mutate" THEN slotId[w] ELSE NoSeed)
        /\ made' = [made EXCEPT ![w] = n] /\ blank' = [blank EXCEPT ![w] = B]
  BY DEF MakeBlobs
<1>7. PICK B \in SUBSET (1 .. n) :
        /\ Finalize(w, [i \in 1 .. n |-> i], Fitting([i \in 1 .. n |-> i]), B,
                    IF scmd[w] = "Mutate" THEN slotId[w] ELSE NoSeed)
        /\ made' = [made EXCEPT ![w] = n] /\ blank' = [blank EXCEPT ![w] = B]
  BY <1>6
<1>8. want[w] = (IF scmd[w] = "Mutate" THEN slotId[w] ELSE NoSeed)
  BY <1>5 DEF New
<1>9. [i \in 1 .. n |-> i] = Span(0, n)
  BY RpcAssumption DEF Span
<1>10. Finalize(w, Span(0, n), Fitting(Span(0, n)), B, want[w])
  BY <1>7, <1>8, <1>9
<1>11. made'[w] = n /\ blank'[w] = B
  BY <1>7 DEF TypeOK
<1>12. /\ want'[w] = want[w] /\ ran'[w] = 1 .. 0 /\ kept'[w] \subseteq 1 .. 0
       /\ called'[w] = kept'[w] /\ 0 \in 0 .. MaxBlobs /\ 0 <= n
  BY <1>1, <1>5, RpcAssumption DEF New
<1>13. IsLoaded(w, ans[w])'
  BY <1>10, <1>11, <1>12, FinalizeLoads
<1>14. ans'[w] \in Results
  BY DEF TypeOK
<1>15. req[w] # "ExecCB"
  BY <1>1, <1>3
<1>16. QED
  BY <1>1, <1>13, <1>14, <1>15, WorkKeeps

LEMMA GetRemainKeeps ==
  ASSUME IInv, TypeOK, NEW w \in Workers, BlobsOf(w), GetRemain(w), TypeOK'
  PROVE  BlobsOf(w)'
<1>1. /\ UNCHANGED <<cpc, req, res, cmd, scmd, given, server, startSem, endSem>>
      /\ UNCHANGED <<want, ran, kept, called, made, blank>>
      /\ spc[w] = "work" /\ spc'[w] = "answer" /\ scmd[w] = "GetRemain"
      /\ Finalize(w, rem[w], Fitting(rem[w]), blank[w], seedId[w])
  BY DEF GetRemain, TypeOK, client, proc, shared, hist
<1>2. server = "up" /\ cpc[w] = "wait" /\ endSem[w] = 0
  BY <1>1, Handed DEF Serving
<1>3. scmd[w] = req[w] /\ given[w] = "none"
  BY <1>1, <1>2 DEF BlobsOf, Passed
<1>4. Sent(w)
  BY <1>1, <1>2, <1>3 DEF Sent, Worked
<1>5. res[w] \in Results /\ ans'[w] \in Results
  BY DEF TypeOK
<1>6. PICK hi \in 0 .. MaxBlobs : Between(w, res[w], hi)
  BY <1>1, <1>2, <1>3, <1>4, <1>5 DEF BlobsOf, Chain, IsBetween
<1>7. PICK top \in 0 .. MaxBlobs : made[w] = top
  BY DEF TypeOK
<1>8. PICK seed, B : seed = seedId[w] /\ B = blank[w]
  OBVIOUS
<1>9. /\ Finalize(w, Span(hi, top), Fitting(Span(hi, top)), B, seed) /\ hi <= top
      /\ made'[w] = top /\ blank'[w] = B /\ want'[w] = seed /\ ran'[w] = 1 .. hi
      /\ kept'[w] \subseteq 1 .. hi /\ (HasCb => called'[w] = kept'[w])
  BY <1>1, <1>6, <1>7, <1>8 DEF Between
<1>10. IsLoaded(w, ans[w])'
  BY <1>9, FinalizeLoads
<1>11. QED
  BY <1>1, <1>3, <1>5, <1>10, WorkKeeps

LEMMA InvokeCallbacksKeeps ==
  ASSUME IInv, TypeOK, NEW w \in Workers, BlobsOf(w), InvokeCallbacks(w)
  PROVE  BlobsOf(w)'
<1>1. /\ UNCHANGED <<cpc, req, res, cmd, scmd, given, server, startSem, endSem>>
      /\ UNCHANGED <<want, ran, kept, made, blank, rem, seedId>>
      /\ spc[w] = "work" /\ spc'[w] = "answer" /\ scmd[w] = "ExecCB" /\ ans'[w] = "Empty"
      /\ called'[w] = called[w] \cup {outs[w][i] : i \in flags[w] \cap (1 .. Len(outs[w]))}
  BY DEF InvokeCallbacks, TypeOK, client, proc, shared
<1>2. server = "up" /\ cpc[w] = "wait" /\ endSem[w] = 0
  BY <1>1, Handed DEF Serving
<1>3. scmd[w] = req[w] /\ given[w] = "none"
  BY <1>1, <1>2 DEF BlobsOf, Passed
<1>4. Sent(w)
  BY <1>1, <1>2, <1>3 DEF Sent, Worked
<1>5. res[w] \in Results
  BY DEF TypeOK
<1>6. PICK lo \in 0 .. MaxBlobs, hi \in 0 .. MaxBlobs : Marked(w, res[w], lo, hi)
  BY <1>1, <1>2, <1>3, <1>4, <1>5 DEF BlobsOf, Chain, IsMarked
<1>7. /\ lo \in Nat /\ hi \in Nat /\ lo <= hi /\ outs[w] = Span(lo, hi)
      /\ kept[w] \subseteq 1 .. hi
  BY <1>6, RpcAssumption DEF Marked
<1>8. Len(outs[w]) = hi - lo /\ \A i \in 1 .. hi - lo : outs[w][i] = lo + i
  BY <1>7, SpanIs DEF Span
<1>9. {outs[w][i] : i \in flags[w] \cap (1 .. Len(outs[w]))} = kept[w] \cap (lo + 1 .. hi)
  <2>1. ASSUME NEW i \in flags[w] \cap (1 .. hi - lo)
        PROVE  outs[w][i] \in kept[w] \cap (lo + 1 .. hi)
    BY <1>6, <1>7, <1>8 DEF Marked
  <2>2. ASSUME NEW x \in kept[w] \cap (lo + 1 .. hi)
        PROVE  x - lo \in flags[w] \cap (1 .. hi - lo) /\ outs[w][x - lo] = x
    <3>1. x \in Int /\ lo + 1 <= x /\ x <= hi
      BY <1>7
    <3>2. x - lo \in 1 .. hi - lo /\ lo + (x - lo) = x
      BY <1>7, <3>1
    <3>3. x - lo \in flags[w]
      BY <1>6, <2>2, <3>2 DEF Marked
    <3>4. QED
      BY <1>8, <3>2, <3>3
  <2>3. {outs[w][i] : i \in flags[w] \cap (1 .. hi - lo)} = kept[w] \cap (lo + 1 .. hi)
    BY <2>1, <2>2
  <2>4. QED
    BY <1>8, <2>3
<1>10. called'[w] = kept[w]
  BY <1>1, <1>6, <1>7, <1>9 DEF Marked
<1>11. Between(w, res[w], hi)'
  BY <1>1, <1>6, <1>10 DEF Marked, Between
<1>12. \A r \in Results : res[w] = r => IsBetween(w, r)'
  BY <1>1, <1>11 DEF IsBetween
<1>13. ans'[w] \in Results /\ req[w] = "ExecCB"
  BY <1>1, <1>3 DEF Results
<1>14. QED
  BY <1>1, <1>12, <1>13, WorkKeeps

-----------------------------------------------------------------------------
(* The process, and the whole.                                              *)

\* What is left when the process is dead: answers that were given, and what
\* lies in the slots.
LEMMA ProcessKeeps ==
  ASSUME IInv, TypeOK, NEW w \in Workers, BlobsOf(w), ProcessExit \/ Reset
  PROVE  BlobsOf(w)'
<1>1. UNCHANGED <<block, slotId, cpc, req, res, given, ran, want>> /\ server' # "up"
  <2>1. CASE ProcessExit
    BY <2>1 DEF ProcessExit, client, slots, hist
  <2>2. CASE Reset
    BY <2>2 DEF Reset, ResetStatus, ResetResult, ResetPost, ResetFrame, client, slots, hist
  <2>3. QED
    BY <2>1, <2>2
<1>2. Passed(w)'
  BY <1>1 DEF BlobsOf, Passed
<1>3. GivenLoaded(w)'
  BY <1>1 DEF BlobsOf, GivenLoaded, Unrun
<1>4. Chain(w)'
  BY <1>1 DEF Chain
<1>5. QED
  BY <1>2, <1>3, <1>4 DEF BlobsOf

LEMMA InitBlobs == ASSUME Init, NEW w \in Workers PROVE BlobsOf(w)
BY DEF Init, BlobsOf, Passed, GivenLoaded, Chain, Sent, Worked

\* All that holds of the record, the slots and the history.
RpcInv == IInv /\ TypeOK /\ \A w \in Workers : BlobsOf(w)

LEMMA InitRpcInv == Init => RpcInv
<1>1. Init => TypeOK
  BY InitIInv, InitTypes, TypesSplit DEF IInv
<1>2. QED
  BY <1>1, InitIInv, InitBlobs DEF RpcInv

LEMMA StepTypes == RpcInv /\ [Next]_vars => TypeOK'
<1> SUFFICES ASSUME RpcInv, [Next]_vars PROVE TypeOK'
  OBVIOUS
<1>1. RpcTypes /\ SlotTypes /\ CallTypes /\ LocalTypes /\ HistTypes
  BY TypesSplit DEF RpcInv
<1>2. RpcTypes'
  BY StepIInv DEF RpcInv, IInv
<1>3. SlotTypes' /\ CallTypes' /\ LocalTypes' /\ HistTypes'
  <2>1. CASE \E w \in Workers : Client(w)
    BY <1>1, <2>1, ClientTypes
  <2>2. CASE \E w \in Workers : Server(w) \/ Hang(w)
    BY <1>1, <2>2, ServerTypes
  <2>3. CASE ProcessExit \/ Reset
    BY <1>1, <2>3, ProcessTypes
  <2>4. CASE UNCHANGED vars
    BY <1>1, <2>4 DEF vars, shared, slots, client, thread, proc, hist, SlotTypes, CallTypes,
       LocalTypes, HistTypes
  <2>5. QED
    BY <2>1, <2>2, <2>3, <2>4 DEF Next, Timeout, Crash
<1>4. QED
  BY <1>2, <1>3, TypesJoined

LEMMA StepRpcInv == RpcInv /\ [Next]_vars => RpcInv'
<1> SUFFICES ASSUME RpcInv, [Next]_vars PROVE RpcInv'
  OBVIOUS
<1>1. IInv /\ TypeOK /\ IInv' /\ TypeOK' /\ \A w \in Workers : BlobsOf(w)
  BY StepIInv, StepTypes DEF RpcInv
<1>2. ASSUME NEW v \in Workers PROVE BlobsOf(v)'
  <2>1. CASE \E w \in Workers : w # v /\ (Client(w) \/ Server(w) \/ Hang(w))
    <3>1. SameFor(v) /\ DataSame(v) /\ server' = server
      BY <1>1, <2>1, OthersSame
    <3>2. QED
      BY <1>1, <3>1, SameKeeps DEF BlobsOf
  <2>2. CASE Client(v)
    BY <1>1, <2>2, BeginKeeps, PrepareKeeps, SendKeeps, WaitEndKeeps, ReadResultKeeps, ExecuteKeeps,
       EndChainKeeps DEF Client
  <2>3. CASE Server(v) \/ Hang(v)
    BY <1>1, <2>3, TakeKeeps, PublishKeeps, MakeBlobsKeeps, GetRemainKeeps, InvokeCallbacksKeeps
    DEF Server
  <2>4. CASE ProcessExit \/ Reset
    BY <1>1, <2>4, ProcessKeeps
  <2>5. CASE UNCHANGED vars
    <3>1. SameFor(v) /\ DataSame(v) /\ server' = server
      BY <2>5 DEF vars, shared, slots, client, thread, proc, hist, SameFor, DataSame
    <3>2. QED
      BY <1>1, <3>1, SameKeeps DEF BlobsOf
  <2>6. QED
    BY <2>1, <2>2, <2>3, <2>4, <2>5 DEF Next, Timeout, Crash
<1>3. QED
  BY <1>1, <1>2 DEF RpcInv

\* Every variable of the record, the slots and the two threads has the type the
\* code gives it, and the block never has more blobs than slots (SharedData,
\* alloc_input).
THEOREM TypeCorrect == Spec => []TypeOK
<1>1. RpcInv => TypeOK
  BY DEF RpcInv
<1>2. QED
  BY InitRpcInv, StepRpcInv, <1>1, PTL DEF Spec

\* However many blobs a generator makes and however few slots there are: every
\* blob but the blank ones is run, none is run twice, each under the id of its
\* parent, and the callback runs for those that were kept and no others (bump,
\* get_remain, finalize, set_is_interesting, invoke_callbacks, execute_all).
THEOREM BlobsAreKept == Spec => []BlobsKept
<1>1. RpcInv => BlobsKept
  <2> SUFFICES ASSUME RpcInv PROVE BlobsKept
    OBVIOUS
  <2>1. AllBlobsRun
    BY DEF RpcInv, BlobsOf, Chain, Over, AllBlobsRun
  <2>2. CallbacksExact
    BY DEF RpcInv, BlobsOf, Chain, Over, CallbacksExact
  <2>3. ASSUME NEW w \in Workers, cpc[w] = "exec" PROVE Unrun(w)
    <3>1. req[w] # "ExecCB" /\ given[w] \in {"Done", "Remain"}
      BY <2>3 DEF RpcInv, BlobsOf, Passed, TypeOK, Results
    <3>2. QED
      BY <2>3, <3>1 DEF RpcInv, BlobsOf, GivenLoaded
  <2>4. ASSUME NEW w \in Workers, cpc[w] = "exec"
        PROVE  /\ Elems(block[w]) \cap ran[w] = {}
               /\ block[w] # <<>> => slotId[w] = want[w]
    <3>1. PICK lo \in 0 .. MaxBlobs, hi \in 0 .. MaxBlobs :
            /\ block[w] = Span(lo, hi) /\ ran[w] = 1 .. lo
            /\ lo < hi => slotId[w] = want[w]
      BY <2>3, <2>4 DEF Unrun
    <3>2. lo \in Nat /\ hi \in Nat
      BY RpcAssumption
    <3>3. CASE lo <= hi
      <4>1. Elems(Span(lo, hi)) = lo + 1 .. hi /\ (Span(lo, hi) = <<>> <=> lo = hi)
        BY <3>2, <3>3, SpanIs, Zenon
      <4>2. QED
        BY <3>1, <3>2, <3>3, <4>1
    <3>4. CASE hi < lo
      <4>1. Span(lo, hi) = <<>>
        BY <3>2, <3>4 DEF Span
      <4>2. Elems(<<>>) = {}
        BY DEF Elems
      <4>3. QED
        BY <3>1, <4>1, <4>2
    <3>5. QED
      BY <3>2, <3>3, <3>4
  <2>5. QED
    BY <2>1, <2>2, <2>4 DEF BlobsKept, NoBlobTwice, ParentKept
<1>2. QED
  BY InitRpcInv, StepRpcInv, <1>1, PTL DEF Spec

-----------------------------------------------------------------------------
(* Whether a worker that waits is ever left to wait.                        *)

\* Commands a worker may still send when every one it waits for is answered
\* with Empty: ExecCB, GetRemain and, after the generator, Mutate.
Mutates(w) == IF chain[w] = "Generate" /\ HasMutator THEN 1 ELSE 0
Rounds(w)  == IF res[w] = "Remain" THEN 1 + Mutates(w) ELSE Mutates(w)

\* Tokens it will take for them, the one of the open command among them.
Need(w) ==
  CASE cpc[w] = "idle" -> 0
    [] cpc[w] = "done" -> Mutates(w)
    [] cpc[w] = "exec" -> IF HasCb THEN 1 + Rounds(w) ELSE Rounds(w)
    [] cpc[w] = "read" -> IF req[w] = "ExecCB" THEN Rounds(w) ELSE Mutates(w)
    [] OTHER -> 1 + (IF req[w] = "ExecCB" THEN Rounds(w) ELSE Mutates(w))

\* Once --reset has been at worker w its stage finds the generator not ready
\* and begins no new chain, and the tokens it left are enough for the old one.
Closed(w) ==
  server # "up" /\ (w < rw \/ (w = rw /\ rstep # "status")) => status[w] = "BOOTED"
Supplied(w) == server # "up" /\ w < rw => endSem[w] >= Need(w)

\* check_timeout_loop sees every command a server thread is at.
Timed(w) == spc[w] \in {"work", "hung", "answer", "post"} => startTime[w]

EndInv == \A w \in Workers : Closed(w) /\ Supplied(w) /\ Timed(w)

\* A worker that waits has its token, or somebody is about to post it: the
\* server thread, which check_timeout_loop watches, or --reset.
NoneStranded ==
  \A w \in Workers : cpc[w] = "wait" =>
    \/ endSem[w] > 0
    \/ server = "up" /\ (startSem[w] = 1 \/ spc[w] \in {"take", "answer"})
    \/ server = "up" /\ spc[w] \in {"work", "hung", "post"} /\ startTime[w]
    \/ server = "dead" /\ rw <= w

LEMMA NeedIs ==
  ASSUME TypeOK, NEW w \in Workers
  PROVE  /\ Mutates(w) \in {0, 1} /\ Rounds(w) \in {Mutates(w), 1 + Mutates(w)}
         /\ Need(w) \in 0 .. 3
<1>1. Mutates(w) \in {0, 1} /\ Rounds(w) \in {Mutates(w), 1 + Mutates(w)}
  BY DEF Mutates, Rounds
<1>2. Need(w) \in 0 .. 3
  <2>1. cpc[w] \in {"idle", "batch", "cmd", "post", "wait", "read", "exec", "done"}
    BY DEF TypeOK
  <2> HIDE DEF TypeOK
  <2>2. QED
    BY <1>1, <2>1 DEF Need
<1>3. QED
  BY <1>1, <1>2

\* What the tokens of a worker depend on.
SameNeed(w) ==
  /\ cpc'[w] = cpc[w] /\ req'[w] = req[w] /\ res'[w] = res[w] /\ chain'[w] = chain[w]

LEMMA NeedKept == ASSUME NEW w, SameNeed(w) PROVE Need(w)' = Need(w)
<1>1. Mutates(w)' = Mutates(w) /\ Rounds(w)' = Rounds(w)
  BY DEF SameNeed, Mutates, Rounds
<1>2. QED
  BY <1>1 DEF SameNeed, Need

\* A worker whose answer is Empty sends no more than it was counted for.
LEMMA ClientNeed ==
  ASSUME TypeOK, NEW w \in Workers, Client(w), status[w] = "BOOTED",
         cpc[w] = "read" => result[w] = "Empty"
  PROVE  IF WaitEnd(w) THEN endSem'[w] = endSem[w] - 1 /\ Need(w)' = Need(w) - 1
                       ELSE endSem'[w] = endSem[w] /\ Need(w)' <= Need(w)
<1>0. /\ cpc \in [Workers -> {"idle", "batch", "cmd", "post", "wait", "read", "exec", "done"}]
      /\ endSem \in [Workers -> Nat] /\ req \in [Workers -> Cmds] /\ res \in [Workers -> Results]
      /\ chain \in [Workers -> {"Generate", "Mutate"}]
  BY DEF TypeOK
<1>n. /\ Mutates(w) \in {0, 1} /\ Rounds(w) \in {Mutates(w), 1 + Mutates(w)}
  BY NeedIs
<1> HIDE DEF TypeOK
<1>1. CASE Prepare(w)
  <2>1. /\ cpc[w] = "batch" /\ UNCHANGED <<endSem, req, res, chain>>
        /\ cpc' = [cpc EXCEPT ![w] = "cmd"] \/ cpc' = [cpc EXCEPT ![w] = "idle"]
    BY <1>1, Zenon DEF Prepare, shared
  <2>2. cpc'[w] \in {"cmd", "idle"}
    BY <1>0, <2>1
  <2>3. Mutates(w)' = Mutates(w) /\ Rounds(w)' = Rounds(w)
    BY <2>1 DEF Mutates, Rounds
  <2>4. ~ WaitEnd(w)
    BY <2>1 DEF WaitEnd
  <2>5. QED
    BY <1>n, <2>1, <2>2, <2>3, <2>4 DEF Need
<1>2. CASE SetCmd(w) \/ PostStart(w)
  <2>1. /\ cpc[w] \in {"cmd", "post"} /\ UNCHANGED <<endSem, req, res, chain>>
        /\ cpc' = [cpc EXCEPT ![w] = "post"] \/ cpc' = [cpc EXCEPT ![w] = "wait"]
    BY <1>2, Zenon DEF SetCmd, PostStart
  <2>2. cpc'[w] \in {"post", "wait"}
    BY <1>0, <2>1
  <2>3. Mutates(w)' = Mutates(w) /\ Rounds(w)' = Rounds(w)
    BY <2>1 DEF Mutates, Rounds
  <2>4. ~ WaitEnd(w)
    BY <2>1 DEF WaitEnd
  <2>5. QED
    BY <1>n, <2>1, <2>2, <2>3, <2>4 DEF Need
<1>3. CASE WaitEnd(w)
  <2>1. /\ cpc[w] = "wait" /\ UNCHANGED <<req, res, chain>> /\ cpc' = [cpc EXCEPT ![w] = "read"]
        /\ endSem' = [endSem EXCEPT ![w] = endSem[w] - 1]
    BY <1>3, Zenon DEF WaitEnd
  <2>2. cpc'[w] = "read" /\ endSem'[w] = endSem[w] - 1
    BY <1>0, <2>1
  <2>3. Mutates(w)' = Mutates(w) /\ Rounds(w)' = Rounds(w)
    BY <2>1 DEF Mutates, Rounds
  <2>4. QED
    BY <1>3, <1>n, <2>1, <2>2, <2>3 DEF Need
<1>4. CASE ReadResult(w)
  <2>1. /\ cpc[w] = "read" /\ UNCHANGED <<endSem, res, chain>>
        /\ \/ req[w] = "ExecCB" /\ LoopOn(w, res[w])
           \/ req[w] # "ExecCB" /\ req' = req /\ cpc' = [cpc EXCEPT ![w] = "done"]
    BY <1>4 DEF ReadResult, shared
  <2>2. Mutates(w)' = Mutates(w) /\ Rounds(w)' = Rounds(w)
    BY <2>1 DEF Mutates, Rounds
  <2>3. ~ WaitEnd(w)
    BY <2>1 DEF WaitEnd
  <2>4. CASE req[w] = "ExecCB" /\ LoopOn(w, res[w])
    <3>1. IF res[w] = "Remain" THEN req'[w] = "GetRemain" /\ cpc'[w] = "batch"
                               ELSE cpc'[w] = "done"
      BY <1>0, <2>4 DEF LoopOn
    <3>2. QED
      BY <1>n, <2>1, <2>2, <2>3, <2>4, <3>1 DEF Need, Rounds
  <2>5. CASE req[w] # "ExecCB" /\ req' = req /\ cpc' = [cpc EXCEPT ![w] = "done"]
    <3>1. cpc'[w] = "done"
      BY <1>0, <2>5
    <3>2. QED
      BY <1>n, <2>1, <2>2, <2>3, <2>5, <3>1 DEF Need
  <2>6. QED
    BY <2>1, <2>4, <2>5
<1>5. CASE Execute(w)
  <2>1. /\ cpc[w] = "exec" /\ UNCHANGED <<endSem, res, chain>>
        /\ IF HasCb THEN req' = [req EXCEPT ![w] = "ExecCB"] /\ cpc' = [cpc EXCEPT ![w] = "cmd"]
                    ELSE LoopOn(w, res[w])
    BY <1>5, Zenon DEF Execute, shared
  <2>2. Mutates(w)' = Mutates(w) /\ Rounds(w)' = Rounds(w)
    BY <2>1 DEF Mutates, Rounds
  <2>3. ~ WaitEnd(w)
    BY <2>1 DEF WaitEnd
  <2>4. CASE HasCb
    <3>1. req'[w] = "ExecCB" /\ cpc'[w] = "cmd"
      BY <1>0, <2>1, <2>4
    <3>2. QED
      BY <1>n, <2>1, <2>2, <2>3, <2>4, <3>1 DEF Need
  <2>5. CASE ~ HasCb
    <3>1. IF res[w] = "Remain" THEN req'[w] = "GetRemain" /\ cpc'[w] = "batch"
                               ELSE cpc'[w] = "done"
      BY <1>0, <2>1, <2>5 DEF LoopOn
    <3>2. QED
      BY <1>n, <2>1, <2>2, <2>3, <2>5, <3>1 DEF Need, Rounds
  <2>6. QED
    BY <2>4, <2>5
<1>6. CASE EndChain(w)
  <2>1. /\ cpc[w] = "done" /\ UNCHANGED <<endSem, res>>
        /\ IF chain[w] = "Generate" /\ HasMutator
           THEN /\ chain' = [chain EXCEPT ![w] = "Mutate"] /\ req' = [req EXCEPT ![w] = "Mutate"]
                /\ cpc' = [cpc EXCEPT ![w] = "batch"]
           ELSE cpc' = [cpc EXCEPT ![w] = "idle"]
    BY <1>6, Zenon DEF EndChain, shared
  <2>2. ~ WaitEnd(w)
    BY <2>1 DEF WaitEnd
  <2>3. CASE chain[w] = "Generate" /\ HasMutator
    <3>1. chain'[w] = "Mutate" /\ req'[w] = "Mutate" /\ cpc'[w] = "batch"
      BY <1>0, <2>1, <2>3
    <3>2. Need(w)' = 1 /\ Need(w) = 1
      BY <2>1, <2>3, <3>1 DEF Need, Mutates
    <3>3. QED
      BY <2>1, <2>2, <3>2
  <2>4. CASE ~ (chain[w] = "Generate" /\ HasMutator)
    <3>1. cpc'[w] = "idle"
      BY <1>0, <2>1, <2>4
    <3>2. QED
      BY <1>n, <2>1, <2>2, <3>1 DEF Need
  <2>5. QED
    BY <2>3, <2>4
<1>7. ~ Begin(w)
  BY DEF Begin
<1>8. QED
  BY <1>1, <1>2, <1>3, <1>4, <1>5, <1>6, <1>7 DEF Client

LEMMA EndOfClient ==
  ASSUME IInv, TypeOK, EndInv, NEW w \in Workers, Client(w)
  PROVE  Closed(w)' /\ Supplied(w)' /\ Timed(w)'
<1>1. UNCHANGED <<status, startTime, spc, server, rw, rstep>>
  BY Zenon DEF Client, Begin, Prepare, SetCmd, PostStart, WaitEnd, ReadResult, Execute, EndChain,
     shared, thread, proc
<1>2. Closed(w)' /\ Timed(w)'
  BY <1>1 DEF EndInv, Closed, Timed
<1>3. ASSUME server # "up", w < rw PROVE endSem'[w] >= Need(w)'
  <2>1. status[w] = "BOOTED" /\ endSem[w] >= Need(w)
    BY <1>3 DEF EndInv, Closed, Supplied
  <2>2. result[w] = "Empty"
    BY <1>3 DEF IInv, Left, Cleared
  <2>3. endSem[w] \in Nat /\ Need(w) \in 0 .. 3 /\ Need(w)' \in 0 .. 3
    <3>1. TypeOK'
      BY ClientTypes, ClientKeeps, TypesSplit, TypesJoined
    <3>2. Need(w)' \in 0 .. 3
      BY <3>1, NeedIs DEF Need, Mutates, Rounds, TypeOK
    <3>3. QED
      BY <3>2, NeedIs DEF TypeOK
  <2>4. QED
    BY <2>1, <2>2, <2>3, ClientNeed
<1>4. Supplied(w)'
  BY <1>1, <1>3 DEF Supplied
<1>5. QED
  BY <1>2, <1>4

LEMMA EndOfServer ==
  ASSUME IInv, TypeOK, EndInv, NEW w \in Workers, Server(w) \/ Hang(w)
  PROVE  Closed(w)' /\ Supplied(w)' /\ Timed(w)'
<1>1. UNCHANGED server /\ spc[w] # "exited"
  BY Zenon DEF Server, Boot, TakeStart, ReadCmd, MakeBlobs, GetRemain, InvokeCallbacks, Publish,
     PostEnd, Hang, proc
<1>2. server = "up" /\ server' = "up"
  BY <1>1 DEF IInv, Token
<1>3. Closed(w)' /\ Supplied(w)'
  BY <1>2 DEF Closed, Supplied
<1>4. \/ startTime' = startTime /\ spc[w] \in {"work", "answer"}
      \/ startTime' = [startTime EXCEPT ![w] = TRUE]
      \/ \E c \in {"wait", "take"} : spc' = [spc EXCEPT ![w] = c]
  BY Zenon DEF Server, Boot, TakeStart, ReadCmd, MakeBlobs, GetRemain, InvokeCallbacks, Publish,
     PostEnd, Hang, shared
<1>5. Timed(w)'
  BY <1>4 DEF EndInv, Timed, TypeOK
<1>6. QED
  BY <1>3, <1>5

LEMMA EndOfOthers ==
  ASSUME TypeOK, EndInv, NEW w \in Workers, NEW v \in Workers, v # w,
         Client(w) \/ Server(w) \/ Hang(w)
  PROVE  Closed(v)' /\ Supplied(v)' /\ Timed(v)'
<1> DEFINE At(f, g) == g = f \/ \E x : g = [f EXCEPT ![w] = x]
<1>1. /\ At(chain, chain') /\ At(status, status') /\ At(startTime, startTime')
      /\ UNCHANGED <<rw, rstep>>
  BY Zenon DEF Client, Begin, Prepare, SetCmd, PostStart, WaitEnd, ReadResult, Execute, EndChain,
     Server, Boot, TakeStart, ReadCmd, MakeBlobs, GetRemain, InvokeCallbacks, Publish, PostEnd,
     Hang, shared, client, proc
<1>2. chain'[v] = chain[v] /\ status'[v] = status[v] /\ startTime'[v] = startTime[v]
  BY <1>1 DEF TypeOK
<1>3. SameFor(v) /\ server' = server
  BY OthersSame
<1>4. SameNeed(v)
  BY <1>2, <1>3 DEF SameFor, SameNeed
<1>5. Need(v)' = Need(v)
  BY <1>4, NeedKept
<1>6. QED
  BY <1>1, <1>2, <1>3, <1>5 DEF EndInv, Closed, Supplied, Timed, SameFor

LEMMA EndOfProcess ==
  ASSUME ResetTokens >= 3, IInv, TypeOK, EndInv, NEW w \in Workers, (ProcessExit /\ server = "up") \/ Reset
  PROVE  Closed(w)' /\ Supplied(w)' /\ Timed(w)'
<1>1. CASE ProcessExit /\ server = "up"
  <2>1. rw' = 1 /\ rstep' = "status" /\ spc' = [v \in Workers |-> "exited"]
    BY <1>1 DEF IInv, Progress, ProcessExit
  <2>2. ~ (w < 1)
    BY RpcAssumption DEF Workers
  <2>3. QED
    BY <2>1, <2>2 DEF Closed, Supplied, Timed
<1>2. CASE Reset
  <2>0. /\ UNCHANGED <<spc, startTime, cpc, req, res, chain>> /\ server = "dead" /\ rw <= NWorkers
        /\ server' # "up"
    BY <1>2 DEF Reset, ResetStatus, ResetResult, ResetPost, ResetFrame, client, thread
  <2>1. Timed(w)'
    BY <2>0 DEF EndInv, Timed
  <2>2. Need(w)' = Need(w)
    BY <2>0, NeedKept DEF SameNeed
  <2>3. w \in Int /\ rw \in Workers /\ rw \in Int
    BY <2>0, RpcAssumption DEF TypeOK, Workers
  <2>4. CASE ResetStatus
    <3>1. /\ rstep = "status" /\ rstep' = "result" /\ UNCHANGED <<endSem, rw>>
          /\ status' = [status EXCEPT ![rw] = "BOOTED"]
      BY <2>4, Zenon DEF ResetStatus
    <3>2. Closed(w)'
      BY <2>0, <2>3, <3>1 DEF EndInv, Closed, TypeOK
    <3>3. Supplied(w)'
      BY <2>0, <2>2, <3>1 DEF EndInv, Supplied
    <3>4. QED
      BY <2>1, <3>2, <3>3
  <2>5. CASE ResetResult
    <3>1. rstep = "result" /\ rstep' = "post" /\ UNCHANGED <<status, endSem, rw>>
      BY <2>5, Zenon DEF ResetResult
    <3>2. QED
      BY <2>0, <2>1, <2>2, <3>1 DEF EndInv, Closed, Supplied
  <2>6. CASE ResetPost
    <3>1. /\ rstep = "post" /\ rstep' = "status" /\ rw' = rw + 1 /\ UNCHANGED status
          /\ endSem' = [endSem EXCEPT ![rw] = endSem[rw] + ResetTokens]
      BY <2>6, Zenon DEF ResetPost
    <3>2. Closed(w)'
      BY <2>0, <2>3, <3>1 DEF EndInv, Closed
    <3>3. CASE w = rw
      <4>1. endSem'[w] = endSem[w] + ResetTokens /\ endSem[w] \in Nat /\ ResetTokens \in Nat
        BY <2>3, <3>1, <3>3, RpcAssumption DEF TypeOK
      <4>2. Need(w) \in 0 .. 3
        BY NeedIs
      <4>3. QED
        BY <2>1, <2>2, <3>2, <4>1, <4>2 DEF Supplied
    <3>4. CASE w # rw
      <4>1. endSem'[w] = endSem[w]
        BY <2>3, <3>1, <3>4 DEF TypeOK
      <4>2. w < rw' => w < rw
        BY <2>3, <3>1, <3>4
      <4>3. QED
        BY <2>0, <2>1, <2>2, <3>2, <4>1, <4>2 DEF EndInv, Supplied
    <3>5. QED
      BY <3>3, <3>4
  <2>7. QED
    BY <1>2, <2>4, <2>5, <2>6 DEF Reset
<1>3. QED
  BY <1>1, <1>2

LEMMA StepEndInv ==
  ASSUME ResetTokens >= 3, RpcInv, EndInv, [Next]_vars
  PROVE  EndInv'
<1>1. IInv /\ TypeOK
  BY DEF RpcInv
<1>2. ASSUME NEW v \in Workers PROVE Closed(v)' /\ Supplied(v)' /\ Timed(v)'
  <2>1. CASE \E w \in Workers : w # v /\ (Client(w) \/ Server(w) \/ Hang(w))
    BY <1>1, <2>1, EndOfOthers
  <2>2. CASE Client(v)
    BY <1>1, <2>2, EndOfClient
  <2>3. CASE Server(v) \/ Hang(v)
    BY <1>1, <2>3, EndOfServer
  <2>4. CASE (ProcessExit /\ server = "up") \/ Reset
    BY <1>1, <2>4, EndOfProcess
  <2>5. CASE UNCHANGED vars
    <3>1. Need(v)' = Need(v)
      BY <2>5, NeedKept DEF vars, client, SameNeed
    <3>2. QED
      BY <2>5, <3>1 DEF vars, shared, client, thread, proc, EndInv, Closed, Supplied, Timed
  <2>6. QED
    BY <2>1, <2>2, <2>3, <2>4, <2>5 DEF Next, Timeout, Crash
<1>3. QED
  BY <1>2 DEF EndInv

\* No worker is left to wait for ever, whenever the generator hangs or dies:
\* either its token is there, or the server thread has still to post it and is
\* watched, or --reset has.  Three spare tokens for each worker are enough, for
\* ExecCB, GetRemain and Mutate; reset posts 100 (run_cmd, check_timeout_loop,
\* done_cmd, reset).
THEOREM NobodyStranded ==
  ASSUME ResetTokens >= 3
  PROVE  Spec => []NoneStranded
<1>1. Init => EndInv
  BY DEF Init, EndInv, Closed, Supplied, Timed
<1>2. RpcInv /\ EndInv /\ [Next]_vars => EndInv'
  BY StepEndInv
<1>3. RpcInv /\ EndInv => NoneStranded
  <2> SUFFICES ASSUME IInv, TypeOK, EndInv, NEW w \in Workers, cpc[w] = "wait", ~ (endSem[w] > 0)
               PROVE  \/ server = "up" /\ (startSem[w] = 1 \/ spc[w] \in {"take", "answer"})
                      \/ server = "up" /\ spc[w] \in {"work", "hung", "post"} /\ startTime[w]
                      \/ server = "dead" /\ rw <= w
    BY DEF RpcInv, NoneStranded
  <2>1. CASE server = "up"
    BY <2>1 DEF IInv, Token, Serving, EndInv, Timed
  <2>2. CASE server # "up"
    <3>1. w \in 1 .. NWorkers /\ NWorkers \in Nat /\ rw \in 1 .. NWorkers + 1 /\ endSem[w] \in Nat
      BY RpcAssumption DEF TypeOK, Workers
    <3>2. Need(w) \in 1 .. 3
      <4>1. Need(w) = 1 + (IF req[w] = "ExecCB" THEN Rounds(w) ELSE Mutates(w))
        BY DEF Need
      <4>2. QED
        BY <4>1, NeedIs
    <3>3. ~ (w < rw)
      <4>1. w < rw => endSem[w] >= Need(w)
        BY <2>2 DEF EndInv, Supplied
      <4>2. QED
        BY <3>1, <3>2, <4>1
    <3>4. server = "dead"
      BY <2>2, <3>1, <3>3 DEF IInv, Progress, TypeOK
    <3>5. QED
      BY <3>1, <3>3, <3>4
  <2>3. QED
    BY <2>1, <2>2
<1>4. QED
  BY <1>1, <1>2, <1>3, InitRpcInv, StepRpcInv, PTL DEF Spec
=============================================================================
