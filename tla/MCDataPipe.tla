----------------------------- MODULE MCDataPipe -----------------------------
(* DataPipe on small instances. *)
EXTENDS DataPipe
=============================================================================
