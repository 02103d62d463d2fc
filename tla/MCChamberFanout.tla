--------------------------- MODULE MCChamberFanout ---------------------------
(* ChamberFanout on small instances. *)
EXTENDS ChamberFanout

CONSTANTS a1, a2

(* The first two viewers have one address between them. *)
TwoAddresses == <<a1, a1, a2>>
=============================================================================
