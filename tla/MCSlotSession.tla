--------------------------- MODULE MCSlotSession ---------------------------
(* SlotSession on small instances. *)
EXTENDS SlotSession, TLC

(* Every command at the same priority. *)
MCOnePriority == {10}
=============================================================================
