--------------------------- MODULE MCSessionReplay ---------------------------
(* SessionReplay on small instances. *)
EXTENDS SessionReplay

MCSettings == {"TYPE", "PROT"}
MCValues == {"default", "other", "third"}
MCNames == {"cache", "model"}
=============================================================================
