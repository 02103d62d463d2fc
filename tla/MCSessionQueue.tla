--------------------------- MODULE MCSessionQueue ---------------------------
(* SessionQueue on small instances. *)
EXTENDS SessionQueue, TLC

(* PRIORITY_UPLOAD and PRIORITY_NORMAL (ftp_queue.py:23-24). *)
MCPriorities == {0, 10}
=============================================================================
