------------------------------ MODULE DataPipe ------------------------------
(***************************************************************************)
(* The relay of one data connection: two pumps, the watchdog, the task     *)
(* that waits for them and closes both sockets.  From ftp_proxy:           *)
(* _pipe_both_ways, _force_reset, the handler's finally in                 *)
(* _open_passive_relay, and helper.close_writer.                           *)
(*                                                                         *)
(* A direction is named by its source.  Bytes are counted in units, the    *)
(* ones of a TLS handshake included: the proxy does not look inside.  A    *)
(* socket's kernel buffers belong to the peer, the transport's own buffer  *)
(* to the proxy: what the peer has taken reaches it before any end of      *)
(* file, what is still in the transport may be dropped.  On the way in,    *)
(* the StreamReader's buffer and the network are one: what is sent and not *)
(* yet read by the pump is lost with the connection, wherever it is.       *)
(*                                                                         *)
(* Time: a ready task runs long before a timeout expires, so the watchdog  *)
(* and the grace of a silent direction fire only when nothing can move.    *)
(***************************************************************************)
EXTENDS Integers

CONSTANTS
    MaxUnits,      \* bound on what either side sends
    BufferLimit    \* the transport's high-water mark, set by _limit_buffering

ASSUME DataPipeAssumption == MaxUnits \in Nat /\ BufferLimit \in Nat

Sides == {"client", "printer"}
Other(s) == IF s = "client" THEN "printer" ELSE "client"

VARIABLES
    sent,      \* sent[s]: what side s has sent
    end,       \* end[s]: s's stream is "open", it sent "fin", or its connection "broke"
    read,      \* read[s]: moved[direction], what the pump of s has read
    got,       \* got[s]: what the other side has taken of that
    pump,      \* pump[s]: "running", "cancelled", then "eof" or "stopped"
    out,       \* out[s]: s's socket: "open", "ending" (half-closed or closed,
               \* once the buffer is flushed), "dropped" or "reset"
    stalled,   \* the watchdog has returned
    phase,     \* where the relaying task waits
    before     \* before, in its last loop

vars == <<sent, end, read, got, pump, out, stalled, phase, before>>

peerVars == <<sent, end>>
pipeVars == <<stalled, phase, before>>

Phases == {"first", "idle", "progress", "gather", "client", "printer", "done"}
Waiting == {"first", "idle", "progress"}
Live == {s \in Sides : pump[s] = "running"}
Ended(s) == pump[s] \in {"eof", "stopped"}
Flushed(s) == got[Other(s)] = read[Other(s)]

TypeOK ==
    /\ sent \in [Sides -> 0..MaxUnits]
    /\ end \in [Sides -> {"open", "fin", "broke"}]
    /\ pump \in [Sides -> {"running", "cancelled", "eof", "stopped"}]
    /\ out \in [Sides -> {"open", "ending", "dropped", "reset"}]
    /\ stalled \in BOOLEAN
    /\ phase \in Phases
    /\ before \in 0..MaxUnits
    /\ read \in [Sides -> 0..MaxUnits] /\ got \in [Sides -> 0..MaxUnits]
    /\ \A s \in Sides : got[s] <= read[s] /\ read[s] <= sent[s]

Init ==
    /\ sent = [s \in Sides |-> 0]
    /\ end = [s \in Sides |-> "open"]
    /\ read = [s \in Sides |-> 0]
    /\ got = [s \in Sides |-> 0]
    /\ pump = [s \in Sides |-> "running"]
    /\ out = [s \in Sides |-> "open"]
    /\ stalled = FALSE
    /\ phase = "first"
    /\ before = 0

-----------------------------------------------------------------------------
(* The peers, and the network between them and the proxy *)

Send(s) ==
    /\ end[s] = "open"
    /\ sent[s] < MaxUnits
    /\ sent' = [sent EXCEPT ![s] = @ + 1]
    /\ UNCHANGED <<end, read, got, pump, out, pipeVars>>

Finish(s) ==
    /\ end[s] = "open"
    /\ end' = [end EXCEPT ![s] = "fin"]
    /\ UNCHANGED <<sent, read, got, pump, out, pipeVars>>

Break(s) ==
    /\ end[s] # "broke"
    /\ end' = [end EXCEPT ![s] = "broke"]
    /\ UNCHANGED <<sent, read, got, pump, out, pipeVars>>

(* The other side takes what its transport holds. *)
Take(s) ==
    /\ got[s] < read[s]
    /\ end[Other(s)] # "broke"
    /\ out[Other(s)] \in {"open", "ending"}
    /\ got' = [got EXCEPT ![s] = @ + 1]
    /\ UNCHANGED <<peerVars, read, pump, out, pipeVars>>

-----------------------------------------------------------------------------
(* pump *)

(* drain() returns. *)
Drained(s) == read[s] - got[s] <= BufferLimit

(* src.read returns data at once. *)
CanRead(s) ==
    /\ pump[s] = "running"
    /\ Drained(s)
    /\ read[s] < sent[s]
    /\ end[s] # "broke"

(* The socket is closed so that its peer sees a reset. *)
ForceReset(s) == out' = [out EXCEPT ![s] = "reset"]

(* Mutants of Abandon: the peer always sees an end of file, or every       *)
(* upload that did not see one is reset.                                   *)
AbandonCleanly(s, moved) ==
    /\ pump' = [pump EXCEPT ![s] = "stopped"]
    /\ out' = [out EXCEPT ![Other(s)] = "ending"]

AbandonUploads(s, moved) ==
    /\ pump' = [pump EXCEPT ![s] = "stopped"]
    /\ out' = [out EXCEPT ![Other(s)] = IF s = "client" THEN "reset" ELSE @]

(* pump's finally without an end of file: the direction that carried more  *)
(* than the other one resets its destination.                              *)
Abandon(s, moved) ==
    /\ pump' = [pump EXCEPT ![s] = "stopped"]
    /\ IF moved[s] > moved[Other(s)] THEN ForceReset(Other(s)) ELSE UNCHANGED out

PumpReads(s) ==
    /\ CanRead(s)
    /\ end[Other(s)] # "broke"
    /\ read' = [read EXCEPT ![s] = @ + 1]
    /\ UNCHANGED <<peerVars, got, pump, out, pipeVars>>

(* The end of file is passed on as a half-close.  A socket the proxy has   *)
(* aborted ends as well, as far as its reader can tell.                    *)
PumpEof(s) ==
    /\ pump[s] = "running"
    /\ Drained(s)
    /\ \/ end[s] = "fin" /\ read[s] = sent[s]
       \/ out[s] = "reset"
    /\ pump' = [pump EXCEPT ![s] = "eof"]
    /\ out' = [out EXCEPT ![Other(s)] = IF @ = "open" THEN "ending" ELSE @]
    /\ UNCHANGED <<peerVars, read, got, pipeVars>>

(* Reading from a broken connection, or writing to one, fails. *)
PumpFails(s) ==
    \/ /\ pump[s] = "running"
       /\ \/ end[s] = "broke"
          \/ end[Other(s)] = "broke" /\ ~Drained(s)
       /\ Abandon(s, read)
       /\ UNCHANGED <<peerVars, read, got, pipeVars>>
    \/ /\ CanRead(s)
       /\ end[Other(s)] = "broke"
       /\ read' = [read EXCEPT ![s] = @ + 1]
       /\ Abandon(s, read')
       /\ UNCHANGED <<peerVars, got, pipeVars>>

PumpCancelled(s) ==
    /\ pump[s] = "cancelled"
    /\ Abandon(s, read)
    /\ UNCHANGED <<peerVars, read, got, pipeVars>>

PumpStep(s) == PumpReads(s) \/ PumpEof(s) \/ PumpFails(s) \/ PumpCancelled(s)

(* watchdog: nothing was read for DATA_STALL_TIMEOUT. *)
Stall ==
    /\ phase \in Waiting
    /\ ~stalled
    /\ \A s \in Sides : ~CanRead(s)
    /\ stalled' = TRUE
    /\ UNCHANGED <<peerVars, read, got, pump, out, phase, before>>

-----------------------------------------------------------------------------
(* The relaying task *)

(* Into the finally: whatever still runs is cancelled. *)
CancelAll ==
    /\ phase' = "gather"
    /\ pump' = [s \in Sides |-> IF s \in Live THEN "cancelled" ELSE pump[s]]
    /\ UNCHANGED <<peerVars, read, got, out, stalled, before>>

(* Mutant of FirstStalls: the watchdog is not waited for. *)
FirstUnwatched == phase = "first" /\ stalled /\ Live = {} /\ CancelAll

FirstStalls == phase = "first" /\ stalled /\ CancelAll

(* One pump has ended: how the other one is waited for depends on whether  *)
(* it has carried anything yet.                                            *)
FirstEnds(s) ==
    /\ phase = "first" /\ ~stalled
    /\ Live = {s}
    /\ phase' = IF read[s] = 0 THEN "idle" ELSE "progress"
    /\ before' = read[s]
    /\ UNCHANGED <<peerVars, read, got, pump, out, stalled>>

(* DATA_DRAIN_GRACE for a direction that was idle when the other ended. *)
IdleOver ==
    /\ phase = "idle"
    /\ CancelAll

(* DATA_DRAIN_GRACE without progress, or the watchdog. *)
Silent ==
    /\ phase = "progress"
    /\ stalled \/ \A s \in Live : read[s] = before /\ ~CanRead(s)
    /\ CancelAll

(* DATA_DRAIN_GRACE with progress: another round. *)
Progresses(s) ==
    /\ phase = "progress" /\ ~stalled
    /\ Live = {s}
    /\ read[s] # before
    /\ before' = read[s]
    /\ UNCHANGED <<peerVars, read, got, pump, out, stalled, phase>>

BothEnded ==
    /\ phase \in Waiting
    /\ Live = {}
    /\ CancelAll

(* _cancel_data_relay or the supervisor cancels the handler, once or       *)
(* again.  In the gather that changes nothing here: it still waits for the *)
(* pumps, and raises then.  In close_writer it ends the task without the   *)
(* abort, and before the printer's socket is closed if it was the client's *)
(* turn.                                                                   *)
TornDown ==
    \/ phase \in Waiting /\ CancelAll
    \/ phase = "gather" /\ UNCHANGED vars
    \/ /\ phase \in {"client", "printer"}
       /\ phase' = "done"
       /\ UNCHANGED <<peerVars, read, got, pump, out, stalled, before>>

(* writer.close(), unless the socket is gone already. *)
Close(s) == out' = [out EXCEPT ![s] = IF @ = "open" THEN "ending" ELSE @]

(* gather returns; the handler closes the client's socket first. *)
Gathered ==
    /\ phase = "gather"
    /\ \A s \in Sides : Ended(s)
    /\ phase' = "client"
    /\ Close("client")
    /\ UNCHANGED <<peerVars, read, got, pump, stalled, before>>

(* What close_writer leaves of a socket it has closed: it returns once the *)
(* buffer is flushed or the connection gone, and aborts the transport      *)
(* after its timeout, which drops the buffer and still ends the stream     *)
(* with an end of file.                                                    *)
CloseWriter(s) ==
    IF Flushed(s) \/ end[s] = "broke" \/ out[s] = "reset" THEN out[s] ELSE "dropped"

ClientClosed ==
    /\ phase = "client"
    /\ phase' = "printer"
    /\ out' = [out EXCEPT !["client"] = CloseWriter("client"),
                          !["printer"] = IF @ = "open" THEN "ending" ELSE @]
    /\ UNCHANGED <<peerVars, read, got, pump, stalled, before>>

PrinterClosed ==
    /\ phase = "printer"
    /\ phase' = "done"
    /\ out' = [out EXCEPT !["printer"] = CloseWriter("printer")]
    /\ UNCHANGED <<peerVars, read, got, pump, stalled, before>>

(* A StreamWriter that nobody refers to any more closes its transport. *)
Collected ==
    /\ phase = "done"
    /\ out["printer"] = "open"
    /\ Close("printer")
    /\ UNCHANGED <<peerVars, read, got, pump, pipeVars>>

-----------------------------------------------------------------------------

PeerStep(s) == Send(s) \/ Finish(s) \/ Break(s) \/ Take(s)

Waits == FirstStalls \/ (\E s \in Sides : FirstEnds(s) \/ Progresses(s))
         \/ IdleOver \/ Silent \/ BothEnded
Closes == ClientClosed \/ PrinterClosed
Relaying == Waits \/ Gathered \/ Closes

Next ==
    \/ \E s \in Sides : PeerStep(s) \/ PumpStep(s)
    \/ Stall
    \/ Relaying
    \/ TornDown
    \/ Collected

Spec == Init /\ [][Next]_vars

(* The event loop runs ready tasks and timeouts expire.  The peers may do  *)
(* nothing at all, and nobody need tear the session down.                  *)
FairSpec ==
    /\ Spec
    /\ \A s \in Sides : WF_vars(PumpStep(s))
    /\ WF_vars(Stall)
    /\ WF_vars(Relaying)

-----------------------------------------------------------------------------
(* Properties *)

Carrier(s) == read[s] > read[Other(s)]

(* All that s had to send was taken, up to the end of file s sent itself. *)
Complete(s) == pump[s] = "eof" /\ end[s] # "open" /\ got[s] = sent[s]

(* A half-close or close that reaches the receiver of a transfer as an end *)
(* of file tells the truth, whatever was cancelled, stalled or broken: what*)
(* it received is all there was (comments in pump and _force_reset).  The  *)
(* end of file of an abort in close_writer, "dropped", is excepted: it is  *)
(* not true.                                                               *)
NeverTruncated ==
    \A s \in Sides :
        (phase = "done" /\ Carrier(s) /\ out[Other(s)] = "ending"
            /\ got[s] = read[s] /\ end[Other(s)] # "broke") => Complete(s)

(* A transfer that reached its end of file is not punished with a reset,   *)
(* unless a connection broke: not the printer that waits to send 226 after *)
(* a download, nor the client after an upload (TestDownloadEndsCleanly).   *)
NoUndueReset ==
    \A s \in Sides :
        (phase = "done" /\ Carrier(s) /\ pump[s] = "eof"
            /\ \A p \in Sides : end[p] # "broke") =>
        \A p \in Sides : out[p] # "reset"

(* The relay ends although nobody sends, reads or closes any more: a       *)
(* vanished client does not keep the printer's slot (DATA_STALL_TIMEOUT).  *)
PipeEnds == <>(phase = "done")

=============================================================================
