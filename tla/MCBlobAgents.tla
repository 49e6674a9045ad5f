---------------------------- MODULE MCBlobAgents ----------------------------
(***************************************************************************)
(* Two contexts and one slot; one kind of agents at a time, as they share  *)
(* nothing with other kinds.                                               *)
(***************************************************************************)
EXTENDS BlobAgents
CONSTANTS c1, c2

MCUseSets == {{k} : k \in Kinds}
MCLimit == [k \in Kinds |-> IF k = "generator" THEN 100 ELSE 25]
=============================================================================
