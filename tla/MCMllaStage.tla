----------------------------- MODULE MCMllaStage -----------------------------
(***************************************************************************)
(* MllaStage for TLC: workers and files are model values.  The agents      *)
(* write two blobs and a script, or a blob, a report and a script that     *)
(* does not load.                                                          *)
(***************************************************************************)
EXTENDS MllaStage

CONSTANTS w0, w1, c0, b0, b1, s0, s1, r0

MCYields == {{b0, b1, s0}, {b0, r0, s1}}
=============================================================================
