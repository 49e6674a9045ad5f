---------------------------- MODULE MCCorpusState ----------------------------
(***************************************************************************)
(* CorpusState for TLC: three inputs, one of which covers what the others  *)
(* do; two of them crash in the same place, found with different raw logs. *)
(***************************************************************************)
EXTENDS CorpusState, TLC

CONSTANTS w0, w1, a, b, c, x, y, l1, l2, raw

MCCov    == a :> {x} @@ b :> {y} @@ c :> {x, y}
MCRawLog == a :> l1 @@ b :> raw @@ c :> raw
MCPovLog == a :> l1 @@ b :> l1 @@ c :> l2
=============================================================================
