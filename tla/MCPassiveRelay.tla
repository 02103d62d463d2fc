--------------------------- MODULE MCPassiveRelay ---------------------------
(* PassiveRelay on small instances. *)
EXTENDS PassiveRelay, TLC

Symmetry == Permutations(Sessions) \cup Permutations(Relays) \cup Permutations(Clients)
=============================================================================
