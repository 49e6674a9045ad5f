--------------------------- MODULE MCCodeIndexer ---------------------------
(***************************************************************************)
(* Two builders and a reader over two files, one of which may not parse.   *)
(***************************************************************************)
EXTENDS CodeIndexer
CONSTANTS i1, i2
MCFaultSets == 
  {{"kill", "rerun"}, {"pause"}, {"overwrite"}, {"kill", "error"}}
=============================================================================
