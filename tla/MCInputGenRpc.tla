---------------------------- MODULE MCInputGenRpc ----------------------------
(***************************************************************************)
(* InputGenRpc for TLC: the seeds are model values.                        *)
(***************************************************************************)
EXTENDS InputGenRpc

CONSTANTS s1, s2
=============================================================================
