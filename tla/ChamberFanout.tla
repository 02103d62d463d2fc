---------------------------- MODULE ChamberFanout ----------------------------
(***************************************************************************)
(* The chamber image proxy: one connection to the printer whose frames are *)
(* broadcast to every viewer, through a bounded queue of its own.  From    *)
(* chamber_proxy.py and fanout.py, helper.close_writer, and the shutdown   *)
(* in cli.run_proxy that cancels the upstream task before it calls stop(). *)
(*                                                                         *)
(* Frames are all alike.  A viewer is known by its peer address, which a   *)
(* later viewer may have again once the earlier connection is lost: an     *)
(* earlier handler that could go on has done so by the time the later one  *)
(* has connected and authenticated.  The printer, the viewers and their    *)
(* connections are external.                                               *)
(***************************************************************************)
EXTENDS Naturals, Sequences

CONSTANTS
    Addresses,     \* peer addresses
    AddressOf,     \* that of each viewer: a connection, with a handler of its own
    QueueSize,     \* StreamClient.queue's maxsize
    Nobody         \* no entry in _clients

Viewers == DOMAIN AddressOf

ASSUME ChamberAssumption ==
    /\ AddressOf \in Seq(Addresses)
    /\ QueueSize \in Nat \ {0}
    /\ Nobody \notin Viewers

VARIABLES
    up,         \* upstream task: "connecting", "streaming", "closing", "sleeping", "done"
    cancelled,  \* it has been cancelled
    connected,  \* _upstream_connected
    running,    \* _running
    halt,       \* shutdown: "no", "cancelling", "waiting" in wait_closed, "stopped"
    clients,    \* _clients: the viewer registered under each address
    viewer,     \* where each handler is
    open,       \* StreamClient.connected
    queue,      \* StreamClient.queue
    lost        \* viewers whose connection is gone

upVars == <<up, cancelled, connected, running, halt>>
viewerVars == <<clients, viewer, open, queue, lost>>
vars == <<upVars, viewerVars>>

Frame == "frame"
End == "end"              \* None, the sentinel
Serving == {"receiving", "writing"}

TypeOK ==
    /\ up \in {"connecting", "streaming", "closing", "sleeping", "done"}
    /\ cancelled \in BOOLEAN /\ connected \in BOOLEAN /\ running \in BOOLEAN
    /\ halt \in {"no", "cancelling", "waiting", "stopped"}
    /\ clients \in [Addresses -> Viewers \cup {Nobody}]
    /\ viewer \in [Viewers -> {"none", "auth", "waiting", "released", "closing", "gone"}
                              \cup Serving]
    /\ open \in [Viewers -> BOOLEAN]
    /\ queue \in [Viewers -> Seq({Frame, End})]
    /\ \A v \in Viewers : Len(queue[v]) <= QueueSize
    /\ lost \subseteq Viewers

Init ==
    /\ up = "connecting" /\ cancelled = FALSE
    /\ connected = FALSE /\ running = TRUE
    /\ halt = "no"
    /\ clients = [a \in Addresses |-> Nobody]
    /\ viewer = [v \in Viewers |-> "none"]
    /\ open = [v \in Viewers |-> FALSE]
    /\ queue = [v \in Viewers |-> <<>>]
    /\ lost = {}

-----------------------------------------------------------------------------
(* StreamFanout *)

Registered(v) == clients[AddressOf[v]] = v
Full(v) == Len(queue[v]) = QueueSize
Put(v, item) == IF Full(v) THEN queue[v] ELSE Append(queue[v], item)

(* stop(): every registered client is marked, and told if its queue has    *)
(* room for it.                                                            *)
DisconnectAll ==
    /\ open' = [v \in Viewers |-> open[v] /\ ~Registered(v)]
    /\ queue' = [v \in Viewers |-> IF Registered(v) THEN Put(v, End) ELSE queue[v]]

(* unregister_client, then close_writer: the entry under the address goes, *)
(* whoever's it is.                                                        *)
Unregister(v) ==
    /\ open' = [open EXCEPT ![v] = FALSE]
    /\ queue' = [queue EXCEPT ![v] = <<>>]    \* never looked at again
    /\ clients' = [clients EXCEPT ![AddressOf[v]] = Nobody]

Leave(v) ==
    /\ viewer' = [viewer EXCEPT ![v] = "closing"]
    /\ Unregister(v)

-----------------------------------------------------------------------------
(* The upstream task *)

(* The event releases those that wait for it, even if it is cleared again  *)
(* before they run.                                                        *)
Connect ==
    /\ up = "connecting"
    /\ up' = "streaming"
    /\ connected' = TRUE
    /\ viewer' = [v \in Viewers |-> IF viewer[v] = "waiting" THEN "released" ELSE viewer[v]]
    /\ UNCHANGED <<cancelled, running, halt, clients, open, queue, lost>>

(* The finally of an attempt that had no connection to close. *)
ConnectFails ==
    /\ up = "connecting"
    /\ up' = "sleeping"
    /\ connected' = FALSE
    /\ DisconnectAll
    /\ UNCHANGED <<cancelled, running, halt, clients, viewer, lost>>

(* A slow viewer misses the frame. *)
Broadcast ==
    /\ up = "streaming"
    /\ queue' = [v \in Viewers |-> IF Registered(v) /\ open[v] THEN Put(v, Frame) ELSE queue[v]]
    /\ UNCHANGED <<upVars, clients, viewer, open, lost>>

(* The connection is lost, silent for too long, or makes no sense. *)
UpstreamLost ==
    /\ up = "streaming"
    /\ up' = "closing"
    /\ connected' = FALSE
    /\ DisconnectAll
    /\ UNCHANGED <<cancelled, running, halt, clients, viewer, lost>>

(* close_writer is over. *)
UpstreamClosed ==
    /\ up = "closing"
    /\ up' = IF cancelled THEN "done" ELSE "sleeping"
    /\ UNCHANGED <<cancelled, connected, running, halt, viewerVars>>

Slept ==
    /\ up = "sleeping"
    /\ up' = "connecting"
    /\ UNCHANGED <<cancelled, connected, running, halt, viewerVars>>

-----------------------------------------------------------------------------
(* Shutdown *)

(* run_proxy cancels the upstream task: its finally runs, unless it sleeps *)
(* or is in it already.                                                    *)
CancelUpstream ==
    /\ halt = "no"
    /\ halt' = "cancelling"
    /\ cancelled' = TRUE
    /\ connected' = FALSE
    /\ CASE up = "connecting" -> up' = "done" /\ DisconnectAll
         [] up = "streaming" -> up' = "closing" /\ DisconnectAll
         [] OTHER -> up' = "done" /\ UNCHANGED <<open, queue>>
    /\ UNCHANGED <<running, clients, viewer, lost>>

(* Mutant of Stop: it trusts the upstream task to have told the viewers. *)
StopTrusting ==
    /\ halt = "cancelling" /\ up = "done"
    /\ running' = FALSE
    /\ halt' = "waiting"
    /\ UNCHANGED <<up, cancelled, connected, viewerVars>>

(* stop(), up to its wait for the connections. *)
Stop ==
    /\ halt = "cancelling" /\ up = "done"
    /\ running' = FALSE
    /\ DisconnectAll
    /\ halt' = "waiting"
    /\ UNCHANGED <<up, cancelled, connected, clients, viewer, lost>>

Stopped ==
    /\ halt = "waiting"
    /\ \A v \in Viewers : viewer[v] \in {"none", "gone"} \/ v \in lost
    /\ halt' = "stopped"
    /\ UNCHANGED <<up, cancelled, connected, running, viewerVars>>

-----------------------------------------------------------------------------
(* _handle_client *)

Earlier(v) == {w \in 1..(v - 1) : AddressOf[w] = AddressOf[v]}
CanGoOn(v) ==
    \/ viewer[v] \in {"released", "writing"}
    \/ viewer[v] = "receiving" /\ queue[v] # <<>>

Accept(v) ==
    /\ viewer[v] = "none"
    /\ halt \in {"no", "cancelling"}
    /\ \A w \in Earlier(v) : viewer[w] = "gone" \/ w \in lost
    /\ viewer' = [viewer EXCEPT ![v] = "auth"]
    /\ UNCHANGED <<upVars, clients, open, queue, lost>>

(* Mutant of Register: an entry that is there already is kept. *)
RegisterUnlessKnown(v) ==
    /\ \A w \in Earlier(v) : ~CanGoOn(w)
    /\ IF running
       THEN /\ clients' = [clients EXCEPT ![AddressOf[v]] = IF @ = Nobody THEN v ELSE @]
            /\ viewer' = [viewer EXCEPT ![v] = "receiving"]
            /\ open' = [open EXCEPT ![v] = TRUE]
            /\ UNCHANGED queue
       ELSE Leave(v)

(* register_client, and the first look at the loop's condition. *)
Register(v) ==
    /\ \A w \in Earlier(v) : ~CanGoOn(w)
    /\ IF running
       THEN /\ clients' = [clients EXCEPT ![AddressOf[v]] = v]
            /\ viewer' = [viewer EXCEPT ![v] = "receiving"]
            /\ open' = [open EXCEPT ![v] = TRUE]
            /\ UNCHANGED queue
       ELSE Leave(v)

Authenticated(v) ==
    /\ viewer[v] = "auth"
    /\ IF connected
       THEN Register(v)
       ELSE viewer' = [viewer EXCEPT ![v] = "waiting"] /\ UNCHANGED <<clients, open, queue>>
    /\ UNCHANGED <<upVars, lost>>

Released(v) ==
    /\ viewer[v] = "released"
    /\ Register(v)
    /\ UNCHANGED <<upVars, lost>>

(* CLIENT_AUTH_TIMEOUT, a wrong access code, CLIENT_UPSTREAM_WAIT_TIMEOUT. *)
Refused(v) ==
    /\ viewer[v] \in {"auth", "waiting"}
    /\ viewer' = [viewer EXCEPT ![v] = "closing"]
    /\ UNCHANGED <<upVars, clients, open, queue, lost>>

Receive(v) ==
    /\ viewer[v] = "receiving" /\ queue[v] # <<>>
    /\ IF Head(queue[v]) = End
       THEN Leave(v)
       ELSE /\ viewer' = [viewer EXCEPT ![v] = "writing"]
            /\ queue' = [queue EXCEPT ![v] = Tail(@)]
            /\ UNCHANGED <<clients, open>>
    /\ UNCHANGED <<upVars, lost>>

(* Mutant of Written: a viewer leaves when it is told to. *)
WrittenDeaf(v) ==
    /\ viewer[v] = "writing" /\ v \notin lost
    /\ viewer' = [viewer EXCEPT ![v] = "receiving"]
    /\ UNCHANGED <<upVars, clients, open, queue, lost>>

(* The frame is written: on to the next, if the loop's condition holds. *)
Written(v) ==
    /\ viewer[v] = "writing" /\ v \notin lost
    /\ IF running /\ open[v]
       THEN viewer' = [viewer EXCEPT ![v] = "receiving"] /\ UNCHANGED <<clients, open, queue>>
       ELSE Leave(v)
    /\ UNCHANGED <<upVars, lost>>

(* The write finds the viewer's connection lost. *)
WriteFails(v) ==
    /\ viewer[v] = "writing" /\ v \in lost
    /\ Leave(v)
    /\ UNCHANGED <<upVars, lost>>

(* close_writer, which aborts after its timeout. *)
Closed(v) ==
    /\ viewer[v] = "closing"
    /\ viewer' = [viewer EXCEPT ![v] = "gone"]
    /\ UNCHANGED <<upVars, clients, open, queue, lost>>

(* The viewer's connection is lost.  Only a write notices. *)
Vanish(v) ==
    /\ viewer[v] \in Serving \cup {"waiting", "released"} /\ v \notin lost
    /\ lost' = lost \cup {v}
    /\ UNCHANGED <<upVars, clients, viewer, open, queue>>

-----------------------------------------------------------------------------

UpstreamStep == Connect \/ ConnectFails \/ UpstreamLost \/ UpstreamClosed \/ Slept
HandlerStep(v) ==
    \/ Authenticated(v) \/ Released(v) \/ Refused(v) \/ Receive(v)
    \/ Written(v) \/ WriteFails(v) \/ Closed(v)

Next ==
    \/ UpstreamStep \/ Broadcast
    \/ CancelUpstream \/ Stop \/ Stopped
    \/ \E v \in Viewers : Accept(v) \/ HandlerStep(v) \/ Vanish(v)

Spec == Init /\ [][Next]_vars

(* The event loop runs every ready task, waits are bounded by their        *)
(* timeouts, and a viewer reads what it is sent or its connection ends:    *)
(* nothing bounds a write in the code.                                     *)
FairSpec ==
    /\ Spec
    /\ WF_vars(UpstreamClosed)
    /\ WF_vars(Stop) /\ WF_vars(Stopped)
    /\ \A v \in Viewers : WF_vars(HandlerStep(v))

-----------------------------------------------------------------------------
(* Properties *)

(* A viewer that has been told to leave never waits for another frame,     *)
(* though a full queue takes no sentinel.                                  *)
Told ==
    \A v \in Viewers : viewer[v] = "receiving" /\ ~open[v] => queue[v] # <<>>

(* A viewer that is there is in the table, so that it gets the frames and  *)
(* is told when they end: no handler's teardown takes another's entry,     *)
(* though it removes whatever is under its address.  And the table holds   *)
(* nobody who has left.                                                    *)
TableIsRight ==
    \A v \in Viewers :
        /\ viewer[v] \in Serving /\ v \notin lost => Registered(v)
        /\ (\E a \in Addresses : clients[a] = v) => viewer[v] \in Serving

(* stop() returns: no viewer, whenever it came, is left waiting.           *)
StopReturns == (halt = "waiting") ~> (halt = "stopped")
=============================================================================
