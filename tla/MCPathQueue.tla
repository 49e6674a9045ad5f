---------------------------- MODULE MCPathQueue ----------------------------
(***************************************************************************)
(* One harness with two consumers over two paths.                          *)
(***************************************************************************)
EXTENDS PathQueue
CONSTANTS w1, w2, p1, p2
=============================================================================
