-------------------------- MODULE MCMakeCallGraph --------------------------
(***************************************************************************)
(* Two roots: each calls the other, or one calls the other, or one calls   *)
(* a function that is no root.                                             *)
(***************************************************************************)
EXTENDS MakeCallGraph
CONSTANTS main, init, parse

MCFns == {main, init, parse}
MCRoots == {main, init}
Mutual == [f \in MCFns |-> IF f = parse THEN {} ELSE MCRoots \ {f}]
Chain == [f \in MCFns |-> IF f = main THEN {parse} ELSE {}]
Leaf == [f \in MCFns |-> IF f = main THEN {init} ELSE {}]
MCGraphs == {Mutual, Chain, Leaf}
=============================================================================
