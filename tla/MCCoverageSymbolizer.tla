------------------------ MODULE MCCoverageSymbolizer ------------------------
(***************************************************************************)
(* CoverageSymbolizer for TLC: file names are model values.                *)
(***************************************************************************)
EXTENDS CoverageSymbolizer

CONSTANTS seed, tmp
=============================================================================
