--------------------------- MODULE MCReverserSync ---------------------------
(***************************************************************************)
(* ReverserSync for TLC: the workers are model values.                     *)
(***************************************************************************)
EXTENDS ReverserSync

CONSTANTS w1, w2
=============================================================================
