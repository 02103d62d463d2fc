---------------------------- MODULE MCPushallGate ----------------------------
(* PushallGate on small instances. *)
EXTENDS PushallGate, TLC

Symmetry == Permutations(Snapshots)
=============================================================================
