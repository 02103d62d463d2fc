------------------------------ MODULE MCProgram ------------------------------
(* Program on small instances. *)
EXTENDS Program
=============================================================================
