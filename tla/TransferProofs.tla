--------------------------- MODULE TransferProofs ---------------------------
(***************************************************************************)
(* The relay of a data connection tells the truth about where a transfer   *)
(* ended, for any amount sent and any buffering, and the wait for the      *)
(* printer's completion reply rests on its figure.                         *)
(*                                                                         *)
(* What is reset is remembered together with why: RelayInv says that a     *)
(* pump that was stopped short of its end of file while it was the larger  *)
(* direction has reset its destination, and that a reset either came with  *)
(* a broken connection or hit the smaller direction for good.              *)
(***************************************************************************)
EXTENDS Transfer, TLAPS

(* When pumps are cancelled: once, on the way into the finally. *)
PumpsInv ==
    /\ phase \in Waiting => \A s \in Sides : pump[s] # "cancelled"
    /\ phase \notin Waiting => \A s \in Sides : pump[s] # "running"
    /\ phase \in {"client", "printer", "done"} => \A s \in Sides : Ended(s)

RelayInv ==
    \A s \in Sides :
        /\ pump[s] = "stopped" /\ Carrier(s) => out[Other(s)] = "reset"
        /\ pump[s] = "eof" =>
              \/ end[s] # "open" /\ read[s] = sent[s]
              \/ end[Other(s)] = "broke"
              \/ ~Carrier(s)
        /\ out[s] = "reset" =>
              /\ pump[Other(s)] = "stopped"
              /\ \/ end[Other(s)] = "broke"
                 \/ /\ read[s] < read[Other(s)]
                    /\ end[s] = "broke" \/ pump[s] # "running"

PipeInv == TypeOK /\ PumpsInv /\ RelayInv

LEMMA TwoSides ==
    /\ Other("client") = "printer" /\ Other("printer") = "client"
    /\ "client" \in Sides /\ "printer" \in Sides
    /\ \A s \in Sides : Other(s) \in Sides /\ Other(s) # s /\ Other(Other(s)) = s
BY DEF Sides, Other

LEMMA PipeInitially == Init => PipeInv
<1> USE DataPipeAssumption, TwoSides DEF Init
<1>1. Init => TypeOK
  <2>1. 0 \in 0..MaxUnits
    OBVIOUS
  <2>2. Init => /\ sent \in [Sides -> 0..MaxUnits]
                /\ read \in [Sides -> 0..MaxUnits] /\ got \in [Sides -> 0..MaxUnits]
                /\ before \in 0..MaxUnits
    BY <2>1
  <2>3. Init => \A s \in Sides : got[s] = 0 /\ read[s] = 0 /\ sent[s] = 0
    OBVIOUS
  <2>4. Init => stalled \in BOOLEAN
    BY Zenon
  <2>5. Init => phase \in Phases
    BY DEF Phases
  <2>6. Init => /\ end \in [Sides -> {"open", "fin", "broke"}]
                /\ pump \in [Sides -> {"running", "cancelled", "eof", "stopped"}]
                /\ out \in [Sides -> {"open", "ending", "dropped", "reset"}]
    OBVIOUS
  <2>7. QED
    BY ONLY <2>1, <2>2, <2>3, <2>4, <2>5, <2>6 DEF TypeOK
<1>2. Init => PumpsInv /\ RelayInv
  BY DEF PumpsInv, RelayInv, Waiting
<1>3. QED
  BY <1>1, <1>2 DEF PipeInv

-----------------------------------------------------------------------------
(* The relay's steps *)

LEMMA PeerKeeps ==
    ASSUME PipeInv, NEW s \in Sides, PeerStep(s)
    PROVE  PipeInv'
<1> USE DataPipeAssumption, TwoSides
    DEF PipeInv, TypeOK, PumpsInv, RelayInv, pipeVars, peerVars, Carrier, Ended, Waiting
<1>1. CASE Send(s)
  BY <1>1 DEF Send
<1>2. CASE Finish(s)
  BY <1>2 DEF Finish
<1>3. CASE Break(s)
  BY <1>3 DEF Break
<1>4. CASE Take(s)
  BY <1>4 DEF Take
<1>5. QED
  BY <1>1, <1>2, <1>3, <1>4 DEF PeerStep

(* A pump that stops short: its destination is reset if, as things stand,  *)
(* it was the larger direction.  They stand so for good, but for what the  *)
(* other pump may still carry.                                             *)
LEMMA AbandonKeeps ==
    ASSUME PipeInv, NEW s \in Sides, NEW more \in {0, 1},
           pump[s] \in {"running", "cancelled"},
           more = 1 => CanRead(s),
           read' = [read EXCEPT ![s] = @ + more],
           Abandon(s, read'),
           pump[s] = "cancelled" \/ end[s] = "broke" \/ end[Other(s)] = "broke",
           UNCHANGED <<peerVars, got, pipeVars>>
    PROVE  PipeInv'
<1> USE DataPipeAssumption, TwoSides DEF PipeInv, pipeVars, peerVars
<1> DEFINE o == Other(s)
<1>1. TypeOK'
  BY DEF TypeOK, Abandon, ForceReset, CanRead, Drained
<1>2. PumpsInv'
  BY DEF PumpsInv, Abandon, TypeOK, Ended
<1>3. /\ pump' = [pump EXCEPT ![s] = "stopped"]
      /\ read'[o] = read[o] /\ read[s] <= read'[s]
      /\ out'[s] = out[s]
      /\ IF read'[s] > read'[o] THEN out'[o] = "reset" ELSE out'[o] = out[o]
  BY DEF Abandon, ForceReset, TypeOK
<1>4. pump[s] = "cancelled" => pump[o] # "running"
  BY DEF PumpsInv, Waiting
<1>5. read[s] = read'[s] \/ (pump[s] = "running" /\ end[s] # "broke")
  BY DEF CanRead, TypeOK
<1>6. QED
  <2>1. RelayInv!(s)'
    BY <1>3, <1>4, <1>5 DEF RelayInv, Carrier, TypeOK
  <2>2. RelayInv!(o)'
    BY <1>3, <1>4, <1>5 DEF RelayInv, Carrier, TypeOK
  <2>3. \A t \in Sides : t = s \/ t = o
    BY DEF Sides, Other
  <2>4. QED
    BY <1>1, <1>2, <2>1, <2>2, <2>3 DEF RelayInv

LEMMA PumpKeeps ==
    ASSUME PipeInv, NEW s \in Sides, PumpStep(s)
    PROVE  PipeInv'
<1> USE DataPipeAssumption, TwoSides DEF PipeInv, pipeVars, peerVars
<1>1. CASE PumpReads(s)
  <2>1. TypeOK' /\ PumpsInv'
    BY <1>1 DEF PumpReads, CanRead, Drained, TypeOK, PumpsInv, Ended
  <2>2. RelayInv'
    BY <1>1 DEF PumpReads, CanRead, RelayInv, Carrier, TypeOK
  <2>3. QED
    BY <2>1, <2>2
<1>2. CASE PumpEof(s)
  <2>1. TypeOK' /\ PumpsInv'
    BY <1>2 DEF PumpEof, TypeOK, PumpsInv, Ended
  <2>2. RelayInv'
    BY <1>2 DEF PumpEof, RelayInv, Carrier, TypeOK
  <2>3. QED
    BY <2>1, <2>2
<1>3. CASE PumpFails(s)
  <2>1. read = [read EXCEPT ![s] = @ + 0]
    BY DEF TypeOK
  <2>2. QED
    BY <1>3, <2>1, AbandonKeeps DEF PumpFails, CanRead
<1>4. CASE PumpCancelled(s)
  <2>1. read = [read EXCEPT ![s] = @ + 0]
    BY DEF TypeOK
  <2>2. QED
    BY <1>4, <2>1, AbandonKeeps DEF PumpCancelled
<1>5. QED
  BY <1>1, <1>2, <1>3, <1>4 DEF PumpStep

LEMMA CancelAllKeeps ==
    ASSUME PipeInv, phase \in Waiting, CancelAll
    PROVE  PipeInv'
<1> USE DataPipeAssumption, TwoSides DEF PipeInv
<1>1. TypeOK' /\ PumpsInv'
  BY DEF TypeOK, PumpsInv, Live, Phases, Waiting, Ended, CancelAll, peerVars
<1>2. \A s \in Sides :
          /\ pump'[s] # "running"
          /\ pump'[s] \in {"eof", "stopped"} => pump'[s] = pump[s]
          /\ pump[s] = "stopped" => pump'[s] = "stopped"
  BY DEF Live, TypeOK, CancelAll
<1>3. UNCHANGED <<sent, end, read, out>>
  BY DEF CancelAll, peerVars
<1>4. RelayInv'
  <2>1. SUFFICES ASSUME NEW s \in Sides PROVE RelayInv!(s)'
    BY DEF RelayInv
  <2>2. RelayInv!(s) /\ Other(s) \in Sides
    BY DEF RelayInv
  <2>3. QED
    BY <1>2, <1>3, <2>2 DEF Carrier
<1>5. QED
  BY <1>1, <1>4

(* What is closed in order was not reset, and what was reset stays so. *)
LEMMA ClosingKeeps ==
    ASSUME PipeInv, Gathered \/ ClientClosed \/ PrinterClosed \/ Collected
    PROVE  PipeInv'
<1> USE DataPipeAssumption, TwoSides DEF PipeInv, peerVars
<1> USE DEF Gathered, ClientClosed, PrinterClosed, Collected, pipeVars
<1>1. TypeOK'
  BY DEF Close, CloseWriter, TypeOK, Phases
<1>2. PumpsInv'
  BY DEF PumpsInv, Ended, Waiting
<1>3. \A s \in Sides : out'[s] = "reset" <=> out[s] = "reset"
  BY DEF Close, CloseWriter, TypeOK, Sides
<1>4. RelayInv'
  BY <1>3 DEF RelayInv, Carrier
<1>5. QED
  BY <1>1, <1>2, <1>4

LEMMA PipePreserved ==
    ASSUME PipeInv, [Next]_vars
    PROVE  PipeInv'
<1> USE DataPipeAssumption, TwoSides
<1>1. CASE UNCHANGED vars
  BY <1>1 DEF vars, PipeInv, TypeOK, PumpsInv, RelayInv, Carrier, Ended
<1>2. CASE Stall \/ \E s \in Sides : FirstEnds(s) \/ Progresses(s)
  <2>1. UNCHANGED <<sent, end, read, got, pump, out>> /\ phase' \in Waiting /\ phase \in Waiting
    BY <1>2 DEF Stall, FirstEnds, Progresses, peerVars, Waiting
  <2>2. TypeOK'
    <3>1. before' \in 0..MaxUnits
      BY <1>2 DEF Stall, FirstEnds, Progresses, PipeInv, TypeOK
    <3>2. stalled' = TRUE \/ stalled' = stalled
      BY <1>2 DEF Stall, FirstEnds, Progresses
    <3>3. stalled' \in BOOLEAN
      BY Zenon, <3>2 DEF PipeInv, TypeOK
    <3>4. QED
      BY <2>1, <3>1, <3>3 DEF PipeInv, TypeOK, Waiting, Phases
  <2>3. PumpsInv' /\ RelayInv'
    BY <2>1 DEF PipeInv, PumpsInv, RelayInv, Carrier, Waiting
  <2>4. QED
    BY <2>2, <2>3 DEF PipeInv
<1>3. CASE FirstStalls \/ IdleOver \/ Silent \/ BothEnded \/ (phase \in Waiting /\ CancelAll)
  BY <1>3, CancelAllKeeps DEF FirstStalls, IdleOver, Silent, BothEnded, Waiting
<1>4. CASE TornDown
  <2>1. CASE /\ phase \in {"client", "printer"} /\ phase' = "done"
             /\ UNCHANGED <<peerVars, read, got, pump, out, stalled, before>>
    BY <2>1 DEF PipeInv, TypeOK, PumpsInv, RelayInv, Carrier, Ended, Waiting, Phases, peerVars
  <2>2. QED
    BY <1>1, <1>3, <1>4, <2>1 DEF TornDown
<1>5. QED
  BY <1>1, <1>2, <1>3, <1>4, PeerKeeps, PumpKeeps, ClosingKeeps DEF Next, Relaying, Waits, Closes

(* What the receiver of a transfer saw of its end was true. *)
LEMMA EndsTrue == PipeInv => NeverTruncated /\ NoUndueReset
<1> SUFFICES ASSUME PipeInv, phase = "done" PROVE NeverTruncated /\ NoUndueReset
  BY DEF NeverTruncated, NoUndueReset
<1>1. \A s \in Sides : Ended(s)
  BY DEF PipeInv, PumpsInv
<1>2. NeverTruncated
  BY <1>1, TwoSides DEF NeverTruncated, Complete, PipeInv, RelayInv, Ended
<1>3. NoUndueReset
  <2>1. SUFFICES ASSUME NEW s \in Sides, Carrier(s), pump[s] = "eof",
                        \A p \in Sides : end[p] # "broke"
                 PROVE  out[s] # "reset" /\ out[Other(s)] # "reset"
    BY DEF NoUndueReset, Sides, Other
  <2>2. out[Other(s)] # "reset"
    BY <2>1, TwoSides DEF PipeInv, RelayInv
  <2>3. out[s] # "reset"
    BY <2>1, TwoSides DEF PipeInv, RelayInv, TypeOK, Carrier
  <2>4. QED
    BY <2>2, <2>3
<1>4. QED
  BY <1>2, <1>3

-----------------------------------------------------------------------------
(* The completion reply *)

(* The relay has left its figure when its sockets are closed, unless the   *)
(* session was torn down with it.                                          *)
CompletionInv ==
    /\ TransferTypeOK
    /\ phase \in {"client", "printer", "done"} /\ waiter # "cancelled" =>
          moved = Asymmetry
    /\ waiter \in {"commit", "short"} => phase = "done"
    /\ waiter = "short" => moved = 0

TransferInv == PipeInv /\ CompletionInv

LEMMA RelaysAsPipe == [TransferNext]_allVars => [Next]_vars
BY DEF TransferNext, PipeReturns, SessionTornDown, OtherRelayStep, Replies, ControlLost,
       CompletionStep, ReplyDone, DataDone, GraceOver, allVars, Next, Relaying

(* Once the pumps have ended there is nothing to add to the figure. *)
LEMMA FigureStands ==
    ASSUME PipeInv, phase \notin Waiting, OtherRelayStep
    PROVE  read' = read
<1>1. \A s \in Sides : pump[s] # "running"
  BY DEF PipeInv, PumpsInv
<1>2. QED
  BY <1>1
  DEF OtherRelayStep, Stall, Waits, FirstStalls, FirstEnds, Progresses, IdleOver, Silent, BothEnded,
      Closes, ClientClosed, PrinterClosed, Collected, PeerStep, Send, Finish, Break, Take, PumpStep, PumpReads,
      PumpEof, PumpFails, PumpCancelled, CanRead, CancelAll, pipeVars, peerVars, Waiting

LEMMA TransferPreserved ==
    ASSUME TransferInv, [TransferNext]_allVars
    PROVE  TransferInv'
<1> USE DEF TransferInv
<1>1. PipeInv'
  BY RelaysAsPipe, PipePreserved
<1>t. TypeOK'
  BY <1>1 DEF PipeInv
<1> USE <1>t DEF CompletionInv, Asymmetry, Carrier, TransferTypeOK, transferVars
<1>2. CASE PipeReturns
  <2>1. phase = "gather" /\ phase' = "client" /\ read' = read /\ waiter' = waiter /\ reply' = reply
    BY <1>2 DEF PipeReturns, Gathered
  <2>2. CASE waiter = "cancelled"
    BY <1>1, <1>2, <2>1, <2>2 DEF PipeReturns, Over
  <2>3. CASE waiter # "cancelled"
    <3>1. moved' = Asymmetry
      BY <1>2, <2>3 DEF PipeReturns
    <3>2. waiter \notin {"commit", "short"}
      BY <2>1
    <3>3. moved' \in 0..MaxUnits
      BY <3>1, TwoSides, DataPipeAssumption DEF Asymmetry, Carrier, PipeInv, TypeOK
    <3>4. QED
      BY <1>1, <2>1, <3>1, <3>2, <3>3 DEF Over
  <2>4. QED
    BY <2>2, <2>3
<1>3. CASE SessionTornDown
  BY <1>1, <1>3 DEF SessionTornDown, Over
<1>4. CASE OtherRelayStep
  <2>1. CASE phase \in Waiting \cup {"gather"}
    <3>1. phase' \in Waiting \cup {"gather"}
      BY <1>4, <2>1
      DEF OtherRelayStep, Stall, Waits, FirstStalls, FirstEnds, Progresses, IdleOver, Silent, BothEnded,
          Closes, ClientClosed, PrinterClosed, Collected, PeerStep, Send, Finish, Break, Take, PumpStep,
          PumpReads, PumpEof, PumpFails, PumpCancelled, CancelAll, pipeVars, Waiting
    <3>2. QED
      BY <1>1, <1>4, <2>1, <3>1 DEF OtherRelayStep, Waiting
  <2>2. CASE phase \in {"client", "printer", "done"}
    <3>1. read' = read /\ (phase = "done" => phase' = "done")
      BY <1>4, <2>2, FigureStands
      DEF OtherRelayStep, Stall, Waits, FirstStalls, FirstEnds, Progresses, IdleOver, Silent, BothEnded,
          Closes, ClientClosed, PrinterClosed, Collected, PeerStep, Send, Finish, Break, Take, PumpStep,
          PumpReads, PumpEof, PumpFails, PumpCancelled, CancelAll, pipeVars, Waiting
    <3>2. QED
      BY <1>1, <1>4, <2>2, <3>1 DEF OtherRelayStep
  <2>3. QED
    BY <2>1, <2>2 DEF PipeInv, TypeOK, Phases, Waiting
<1>5. CASE Replies \/ ControlLost \/ ReplyDone \/ DataDone \/ GraceOver \/ UNCHANGED allVars
  BY <1>1, <1>5 DEF Replies, ControlLost, ReplyDone, DataDone, GraceOver, allVars, vars, Over
<1>6. QED
  BY <1>2, <1>3, <1>4, <1>5 DEF TransferNext, CompletionStep

-----------------------------------------------------------------------------
(* Theorems *)

LEMMA Inductive == TransferSpec => []TransferInv
<1>1. TransferInit => TransferInv
  <2>1. 0 \in 0..MaxUnits
    BY DataPipeAssumption
  <2>2. TransferInit => PipeInv /\ TypeOK /\ phase = "first"
    BY PipeInitially DEF TransferInit, PipeInv, Init
  <2>3. QED
    BY <2>1, <2>2 DEF TransferInit, TransferInv, CompletionInv, TransferTypeOK
<1>2. TransferInv /\ [TransferNext]_allVars => TransferInv'
  BY TransferPreserved
<1>3. QED
  BY <1>1, <1>2, PTL DEF TransferSpec

(* The relay under a control session is the relay of DataPipe. *)
THEOREM ImplementsPipe == TransferSpec => Spec
<1>1. TransferInit => Init
  BY DEF TransferInit
<1>2. [TransferNext]_allVars => [Next]_vars
  BY RelaysAsPipe
<1>3. QED
  BY <1>1, <1>2, PTL DEF TransferSpec, Spec

(* Every reachable state of the relay and of the command is well typed. *)
THEOREM TypeCorrect == TransferSpec => []TransferTypeOK
<1>1. TransferInv => TransferTypeOK
  BY DEF TransferInv, CompletionInv
<1>2. QED
  BY <1>1, Inductive, PTL

(* A half-close or an orderly close by the relay means to the receiver of  *)
(* a transfer that it has everything, wherever the relay was cancelled,    *)
(* stalled or broken, once or again.  It says nothing of the end of file   *)
(* of an abort in close_writer.                                            *)
THEOREM EndOfFileIsTrue == TransferSpec => []NeverTruncated
<1>1. TransferInv => NeverTruncated
  BY EndsTrue DEF TransferInv
<1>2. QED
  BY <1>1, Inductive, PTL

(* A transfer that reached its end of file is not reset. *)
THEOREM ResetIsDue == TransferSpec => []NoUndueReset
<1>1. TransferInv => NoUndueReset
  BY EndsTrue DEF TransferInv
<1>2. QED
  BY <1>1, Inductive, PTL

(* The short grace is given only where both directions carried the same. *)
THEOREM GraceIsRight == TransferSpec => []CommitIsWaitedFor
<1>1. TransferInv => CommitIsWaitedFor
  BY TwoSides DEF TransferInv, CompletionInv, PipeInv, TypeOK, CommitIsWaitedFor, Asymmetry, Carrier, Sides
<1>2. QED
  BY <1>1, Inductive, PTL
=============================================================================
