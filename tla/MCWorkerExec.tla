---------------------------- MODULE MCWorkerExec ----------------------------
(***************************************************************************)
(* WorkerExec for TLC, with kills everywhere but in the windows in which a *)
(* kill loses a token or a result.                                         *)
(***************************************************************************)
EXTENDS WorkerExec

\* A kill in "entering" or "post" loses the only token of the batch; one in
\* "share" or "store" leaves a slot that is counted and not filled.
KillOutsideWindows == Locs \ {"dead", "entering", "post", "share", "store"}
=============================================================================
