------------------------------ MODULE Transfer ------------------------------
(***************************************************************************)
(* A transfer as the control session sees it: the relay of its data        *)
(* connection (DataPipe), and the wait for the printer's completion reply  *)
(* once the preliminary reply has been passed on.  From ftp_proxy:         *)
(* _await_completion, the end of _handle_upstream, and _data_moved, which  *)
(* the relay leaves for it.                                                *)
(*                                                                         *)
(* The printer is external: its reply may come at any time or never, and   *)
(* the control connection may be lost.  TRANSFER_COMPLETION_TIMEOUT (an    *)
(* hour) is left out: it is what the two graces are there to avoid.        *)
(***************************************************************************)
EXTENDS DataPipe

VARIABLES
    reply,    \* from the printer: "none", "ready", "lost" with the connection
    moved,    \* _data_moved
    waiter    \* _await_completion: "first" of reply and data channel, a grace
              \* ("commit", "short"), then "answered", "aborted", "cancelled"

transferVars == <<reply, moved, waiter>>
allVars == <<vars, transferVars>>

Over == {"answered", "aborted", "cancelled"}

TransferTypeOK ==
    /\ TypeOK
    /\ reply \in {"none", "ready", "lost"}
    /\ moved \in 0..MaxUnits
    /\ waiter \in {"first", "commit", "short"} \cup Over

TransferInit ==
    /\ Init
    /\ reply = "none" /\ moved = 0
    /\ waiter = "first"

-----------------------------------------------------------------------------
(* The relay's steps *)

(* Mutant of PipeReturns: the figure is set by a handler that is done. *)
PipeReturnsUncounted == Gathered /\ UNCHANGED transferVars

(* What one direction carried more than the other: a handshake is about    *)
(* even, a transfer is not.                                                *)
Asymmetry == IF Carrier("client") THEN read["client"] - read["printer"]
                                  ELSE read["printer"] - read["client"]

(* _pipe_both_ways returns the asymmetry: it is noted before the sockets   *)
(* are closed, and not at all by a relay that is cancelled, be it while it *)
(* gathers its pumps.                                                      *)
PipeReturns ==
    /\ Gathered
    /\ moved' = IF waiter = "cancelled" THEN moved ELSE Asymmetry
    /\ UNCHANGED <<reply, waiter>>

(* The session is torn down, and its relay with it, or lets go of a relay  *)
(* that outlived its command.                                              *)
SessionTornDown ==
    /\ TornDown \/ (phase = "done" /\ UNCHANGED vars)
    /\ waiter' = "cancelled"
    /\ UNCHANGED <<reply, moved>>

OtherRelayStep ==
    /\ Stall \/ Waits \/ Closes \/ Collected \/ \E s \in Sides : PeerStep(s) \/ PumpStep(s)
    /\ UNCHANGED transferVars

-----------------------------------------------------------------------------
(* The completion reply *)

Replies ==
    /\ reply = "none"
    /\ reply' = "ready"
    /\ UNCHANGED <<vars, moved, waiter>>

ControlLost ==
    /\ reply = "none"
    /\ reply' = "lost"
    /\ UNCHANGED <<vars, moved, waiter>>

(* reply_task is done, whether or not the data channel is: its result is   *)
(* passed on, or 426 and the printer session is given up.                  *)
ReplyDone ==
    /\ waiter \in {"first", "commit", "short"}
    /\ reply # "none"
    /\ waiter' = IF reply = "ready" THEN "answered" ELSE "aborted"
    /\ UNCHANGED <<vars, reply, moved>>

(* Mutant of DataDone: the reply alone is waited for. *)
DataIgnored == FALSE

(* The data channel ends first: a grace for the reply, long if there was   *)
(* anything to commit.                                                     *)
DataDone ==
    /\ waiter = "first" /\ phase = "done"
    /\ reply = "none"
    /\ waiter' = IF moved > 0 THEN "commit" ELSE "short"
    /\ UNCHANGED <<vars, reply, moved>>

GraceOver ==
    /\ waiter \in {"commit", "short"}
    /\ reply = "none"
    /\ waiter' = "aborted"
    /\ UNCHANGED <<vars, reply, moved>>

CompletionStep == ReplyDone \/ DataDone \/ GraceOver

TransferNext ==
    \/ PipeReturns \/ SessionTornDown \/ OtherRelayStep
    \/ Replies \/ ControlLost
    \/ CompletionStep

TransferSpec == TransferInit /\ [][TransferNext]_allVars

(* As for DataPipe; tasks that are ready run and the graces end. *)
FairTransferSpec ==
    /\ TransferSpec
    /\ \A s \in Sides : WF_allVars(PumpStep(s) /\ UNCHANGED transferVars)
    /\ WF_allVars(Stall /\ UNCHANGED transferVars)
    /\ WF_allVars(PipeReturns \/ ((Waits \/ Closes) /\ UNCHANGED transferVars))
    /\ WF_allVars(CompletionStep)

-----------------------------------------------------------------------------
(* Properties *)

(* The printer gets the short grace only when both directions carried the  *)
(* same, as a mere handshake does: the relay's figure is there by the time *)
(* its data channel is over, and nothing is read after it is taken.        *)
CommitIsWaitedFor ==
    waiter = "short" => \A s \in Sides : ~Carrier(s)

(* A printer that never answers, to a client that does nothing any more,   *)
(* does not hold the session, and with it the only slot: the transfer ends.*)
TransferEnds == <>(waiter \in Over)
=============================================================================
