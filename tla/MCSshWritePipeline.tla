------------------------- MODULE MCSshWritePipeline -------------------------
(***************************************************************************)
(* The parts of the view for TLC: the first operation edits one, the later *)
(* ones another; or all of them edit the same.                             *)
(***************************************************************************)
EXTENDS SshWritePipeline

CONSTANTS keys, hosts

MCPartOf == [op \in Ops |-> IF op = 1 THEN keys ELSE hosts]

MCOnePart == [op \in Ops |-> keys]
=============================================================================
