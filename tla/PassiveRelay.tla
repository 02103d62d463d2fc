---------------------------- MODULE PassiveRelay ----------------------------
(***************************************************************************)
(* The passive data ports of the FTPS proxy: ftp_queue.DataPortPool, and   *)
(* the relay ControlSession opens on a port for each PASV or EPSV, from    *)
(* ftp_proxy._open_passive_relay (the relay and supervise coroutines),     *)
(* _prepare_upstream_data, _cancel_data_relay, _await_completion and       *)
(* close().                                                                *)
(*                                                                         *)
(* A relay is a supervisor task, a listening server, and one handler task  *)
(* per accepted connection.  They share three events and a future with the *)
(* control session, all of them local to one call of _open_passive_relay:  *)
(* a relay is therefore an identity of its own here, not its port, and a   *)
(* session may still refer to a relay whose port serves another one.       *)
(***************************************************************************)
EXTENDS Integers, FiniteSets, SequencesExt

CONSTANTS
    Sessions,    \* the control sessions
    FirstPort,   \* the pool's range: start and end
    LastPort,
    Relays,      \* identities for relays; reused once nothing refers to them
    Clients,     \* connections made by the host of the control session
    Strangers    \* connections made by any other host

VARIABLES
    free,      \* DataPortPool._free
    inUse,     \* DataPortPool._in_use
    pc,        \* pc[s]: where the session's task is, see SessionStates
    data,      \* data[s]: the relay of its _data_* fields, or the one it is
               \* opening, or NoRelay
    victim,    \* victim[s]: the relay its _cancel_data_relay is tearing down
    after,     \* after[s]: what it does when that is over
    relay      \* relay[r]: the relay r, see RelayRecords

vars == <<free, inUse, pc, data, victim, after, relay>>

NoRelay == "none"
Ports == FirstPort..LastPort

ASSUME PortsAssumption ==
    FirstPort \in Nat /\ LastPort \in Nat /\ FirstPort <= LastPort
ASSUME RelaysAssumption == NoRelay \notin Relays
ASSUME ConnsAssumption == Clients \cap Strangers = {}

Conns == Clients \cup Strangers

(***************************************************************************)
(* ended      not connected                                                *)
(* idle       between commands                                             *)
(* binding    _open_passive_relay, in start_server                         *)
(* handlers, task   _cancel_data_relay, awaiting the handlers, the task    *)
(* queued     a transfer command in _ensure_upstream                       *)
(* preparing  _prepare_upstream_data, awaiting the printer's PASV reply    *)
(* transfer   the command was forwarded; awaiting the printer's answers    *)
(***************************************************************************)
SessionStates ==
    {"ended", "idle", "binding", "handlers", "task", "queued", "preparing",
     "transfer"}

(***************************************************************************)
(* The supervisor.  binding: there is none yet, the port is being bound;   *)
(* created: its task has not run yet; phase1 to phase3: the waits so named *)
(* in the code; phase4: awaiting "finished"; closing: its finally,         *)
(* awaiting the handlers and server.wait_closed(); dropped: the task is    *)
(* done without having run, and without its finally.                       *)
(***************************************************************************)
SupStates == {"none", "binding", "created", "phase1", "phase2", "phase3",
              "phase4", "closing", "done", "dropped"}

(***************************************************************************)
(* A connection's handler.  new: accepted, its task has not run yet;       *)
(* refused: being closed at once; parked: awaiting command_seen; waiting:  *)
(* awaiting the endpoint; piping: connecting to it and copying; closing:   *)
(* its finally.                                                            *)
(***************************************************************************)
ConnStates ==
    {"none", "new", "refused", "parked", "waiting", "piping", "closing", "done"}

RelayRecords ==
    [port : Ports \cup {0}, sup : SupStates, listening : BOOLEAN,
     seen : BOOLEAN, endpoint : {"pending", "set", "cancelled"},
     accepted : BOOLEAN, finished : BOOLEAN, conn : [Conns -> ConnStates]]

(* An identity nobody uses. *)
Blank ==
    [port |-> 0, sup |-> "none", listening |-> FALSE, seen |-> FALSE,
     endpoint |-> "pending", accepted |-> FALSE, finished |-> FALSE,
     conn |-> [c \in Conns |-> "none"]]

TypeOK ==
    /\ free \in Seq(Ports)
    /\ inUse \subseteq Ports
    /\ pc \in [Sessions -> SessionStates]
    /\ data \in [Sessions -> Relays \cup {NoRelay}]
    /\ victim \in [Sessions -> Relays \cup {NoRelay}]
    /\ after \in [Sessions -> {"open", "idle", "ended"}]
    /\ relay \in [Relays -> RelayRecords]

Init ==
    /\ free = [i \in 1..(LastPort - FirstPort + 1) |-> FirstPort + i - 1]
    /\ inUse = {}
    /\ pc = [s \in Sessions |-> "ended"]
    /\ data = [s \in Sessions |-> NoRelay]
    /\ victim = [s \in Sessions |-> NoRelay]
    /\ after = [s \in Sessions |-> "idle"]
    /\ relay = [r \in Relays |-> Blank]

Goto(s, l) == pc' = [pc EXCEPT ![s] = l]
Pool == <<free, inUse>>
Fields == <<data, victim, after>>

-----------------------------------------------------------------------------
(* DataPortPool *)

AcquirePort(p) ==
    /\ free # <<>>
    /\ p = Head(free)
    /\ free' = Tail(free)
    /\ inUse' = inUse \cup {p}

(* Mutant of ReleasePort: the port stays marked as in use. *)
ReleasePortMarked(p) ==
    IF p \in inUse THEN free' = Append(free, p) /\ UNCHANGED inUse ELSE UNCHANGED Pool

ReleasePort(p) ==
    IF p \in inUse
    THEN free' = Append(free, p) /\ inUse' = inUse \ {p}
    ELSE UNCHANGED Pool

-----------------------------------------------------------------------------
(* The relay's own tasks.  The operators on a relay record x return the    *)
(* record after a step.                                                    *)

(* The "handlers" set: admitted and not finished. *)
Tracked(x) == {c \in Conns : x.conn[c] \in {"parked", "waiting", "piping", "closing"}}

(* Every accepted connection has been closed. *)
Quiet(x) == \A c \in Conns : x.conn[c] \in {"none", "done"}

(* Cancelling the handlers.  The future a task awaits is cancelled with    *)
(* it, and the endpoint is shared.  A handler already in its finally       *)
(* leaves it without setting "finished".                                   *)
CancelHandlers(x) ==
    [x EXCEPT
        !.endpoint = IF \E c \in Conns : x.conn[c] = "waiting" /\ @ = "pending"
                     THEN "cancelled" ELSE @,
        !.conn = [c \in Conns |->
                    CASE @[c] \in {"parked", "waiting", "piping"} -> "closing"
                      [] @[c] = "closing" -> "done"
                      [] OTHER -> @[c]]]

(* Mutant of BeginClose: the server is not closed. *)
BeginCloseListening(x) == [CancelHandlers(x) EXCEPT !.sup = "closing"]

(* supervise()'s finally, as far as its first await. *)
BeginClose(x) == [CancelHandlers(x) EXCEPT !.sup = "closing", !.listening = FALSE]

SupStart(r) ==
    /\ relay[r].sup = "created"
    /\ relay' = [relay EXCEPT ![r].sup = "phase1"]
    /\ UNCHANGED <<Pool, pc, Fields>>

SupSeen(r) ==
    /\ relay[r].sup = "phase1"
    /\ relay[r].seen
    /\ relay' = [relay EXCEPT ![r].sup = "phase2"]
    /\ UNCHANGED <<Pool, pc, Fields>>

(* Mutant of SupAbandoned: the timeout is not lifted by a command. *)
SupAbandonedAnyway(r) ==
    /\ relay[r].sup \in {"phase1", "phase2"}
    /\ relay' = [relay EXCEPT ![r] = BeginClose(@)]
    /\ UNCHANGED <<Pool, pc, Fields>>

(* DATA_ENDPOINT_TIMEOUT: no transfer command followed. *)
SupAbandoned(r) ==
    /\ relay[r].sup = "phase1"
    /\ ~relay[r].seen
    /\ relay' = [relay EXCEPT ![r] = BeginClose(@)]
    /\ UNCHANGED <<Pool, pc, Fields>>

SupEndpoint(r) ==
    /\ relay[r].sup = "phase2"
    /\ \/ /\ relay[r].endpoint = "set"
          /\ relay' = [relay EXCEPT ![r].sup = "phase3"]
       \/ /\ relay[r].endpoint = "cancelled"
          /\ relay' = [relay EXCEPT ![r] = BeginClose(@)]
    /\ UNCHANGED <<Pool, pc, Fields>>

(* DATA_ACCEPT_TIMEOUT may end the wait before a client connects. *)
SupAccept(r) ==
    /\ relay[r].sup = "phase3"
    /\ relay' = IF relay[r].accepted
                THEN [relay EXCEPT ![r].sup = "phase4"]
                ELSE [relay EXCEPT ![r] = BeginClose(@)]
    /\ UNCHANGED <<Pool, pc, Fields>>

SupFinished(r) ==
    /\ relay[r].sup = "phase4"
    /\ relay[r].finished
    /\ relay' = [relay EXCEPT ![r] = BeginClose(@)]
    /\ UNCHANGED <<Pool, pc, Fields>>

(* The handlers are gathered and wait_closed() has returned. *)
SupClosed(r) ==
    /\ relay[r].sup = "closing"
    /\ Quiet(relay[r])
    /\ ReleasePort(relay[r].port)
    /\ relay' = [relay EXCEPT ![r].sup = "done"]
    /\ UNCHANGED <<pc, Fields>>

(* A connection is accepted: its transport is made, its task created. *)
Connection(r, c) ==
    /\ relay[r].listening
    /\ relay[r].conn[c] = "none"
    /\ relay' = [relay EXCEPT ![r].conn[c] = "new"]
    /\ UNCHANGED <<Pool, pc, Fields>>

(* Mutant of HandlerStart: every connection of the client is admitted. *)
HandlerStartAll(r, c) ==
    /\ relay[r].conn[c] = "new"
    /\ relay' = IF c \in Strangers
                THEN [relay EXCEPT ![r].conn[c] = "refused"]
                ELSE [relay EXCEPT ![r].conn[c] = "parked", ![r].accepted = TRUE]
    /\ UNCHANGED <<Pool, pc, Fields>>

(* relay()'s first step: the peer check and the one-connection rule. *)
HandlerStart(r, c) ==
    /\ relay[r].conn[c] = "new"
    /\ relay' = IF c \in Strangers \/ relay[r].accepted
                THEN [relay EXCEPT ![r].conn[c] = "refused"]
                ELSE [relay EXCEPT ![r].conn[c] = "parked", ![r].accepted = TRUE]
    /\ UNCHANGED <<Pool, pc, Fields>>

HandlerRefused(r, c) ==
    /\ relay[r].conn[c] = "refused"
    /\ relay' = [relay EXCEPT ![r].conn[c] = "done"]
    /\ UNCHANGED <<Pool, pc, Fields>>

HandlerSeen(r, c) ==
    /\ relay[r].conn[c] = "parked"
    /\ relay[r].seen
    /\ relay' = [relay EXCEPT ![r].conn[c] = "waiting"]
    /\ UNCHANGED <<Pool, pc, Fields>>

HandlerEndpoint(r, c) ==
    /\ relay[r].conn[c] = "waiting"
    /\ relay[r].endpoint # "pending"
    /\ relay' = [relay EXCEPT ![r].conn[c] =
                    IF relay[r].endpoint = "set" THEN "piping" ELSE "closing"]
    /\ UNCHANGED <<Pool, pc, Fields>>

(* The transfer is over, or the printer's data port cannot be reached. *)
HandlerPiped(r, c) ==
    /\ relay[r].conn[c] = "piping"
    /\ relay' = [relay EXCEPT ![r].conn[c] = "closing"]
    /\ UNCHANGED <<Pool, pc, Fields>>

HandlerClosed(r, c) ==
    /\ relay[r].conn[c] = "closing"
    /\ relay' = [relay EXCEPT ![r].conn[c] = "done", ![r].finished = TRUE]
    /\ UNCHANGED <<Pool, pc, Fields>>

-----------------------------------------------------------------------------
(* The control session *)

Connect(s) ==
    /\ pc[s] = "ended"
    /\ Goto(s, "idle")
    /\ UNCHANGED <<Pool, Fields, relay>>

(* Mutant of CancelSup: the supervisor is awaited, not cancelled. *)
CancelSupNot(x) == x

(* _cancel_data_relay, as far as its first await.  The fields are cleared  *)
(* first; the supervisor is cancelled at once if there is no handler to    *)
(* wait for.  A task cancelled before its first step never enters its try, *)
(* so that nobody closes the server or gives the port back.                *)
CancelSup(x) ==
    CASE x.sup = "created" -> [x EXCEPT !.sup = "dropped"]
      [] x.sup = "phase2" ->
            BeginClose([x EXCEPT !.endpoint = IF @ = "pending" THEN "cancelled" ELSE @])
      [] x.sup \in {"phase1", "phase3", "phase4"} -> BeginClose(x)
      [] OTHER -> x

(* Mutant of ForceSup: a second cancellation skips the release. *)
ForceSupLeaks(r) ==
    /\ UNCHANGED Pool
    /\ relay' = [relay EXCEPT ![r] =
                    IF @.sup = "closing" THEN [@ EXCEPT !.sup = "done"] ELSE CancelSup(@)]

(* A second cancellation ends the waits of the supervisor's finally. *)
ForceSup(r) ==
    IF relay[r].sup = "closing"
    THEN /\ ReleasePort(relay[r].port)
         /\ relay' = [relay EXCEPT ![r].sup = "done"]
    ELSE /\ UNCHANGED Pool
         /\ relay' = [relay EXCEPT ![r] = CancelSup(@)]

CancelRelay(s, next) ==
    LET r == data[s] IN
    /\ data' = [data EXCEPT ![s] = NoRelay]
    /\ after' = [after EXCEPT ![s] = next]
    /\ victim' = [victim EXCEPT ![s] = r]
    /\ \/ /\ Tracked(relay[r]) # {}
          /\ relay' = [relay EXCEPT ![r] = CancelHandlers(@)]
          /\ Goto(s, "handlers")
          /\ UNCHANGED Pool
       \/ /\ Tracked(relay[r]) = {}
          /\ ForceSup(r)
          /\ Goto(s, "task")

HandlersCancelled(s) ==
    /\ pc[s] = "handlers"
    /\ \A c \in Conns : relay[victim[s]].conn[c] # "closing"
    /\ ForceSup(victim[s])
    /\ Goto(s, "task")
    /\ UNCHANGED Fields

(* The supervisor has ended.  What is left of the relay is forgotten with  *)
(* it, unless a connection or a listener is still there.                   *)
Forgotten(r) ==
    IF Quiet(relay[r]) /\ ~relay[r].listening
    THEN [relay EXCEPT ![r] = Blank] ELSE relay

(* _data_task.done(). *)
SupOver(x) == x.sup \in {"done", "dropped"}

(* A port is taken from the pool, if there is one, and start_server called.*)
Open(s, rest) ==
    \/ /\ free = <<>>
       /\ Goto(s, "idle")
       /\ relay' = rest
       /\ UNCHANGED <<Pool, data>>
    \/ \E p \in Ports, r \in Relays :
          /\ rest[r] = Blank
          /\ AcquirePort(p)
          /\ relay' = [rest EXCEPT ![r] = [Blank EXCEPT !.port = p, !.sup = "binding"]]
          /\ data' = [data EXCEPT ![s] = r]
          /\ Goto(s, "binding")

(* start_server has returned: the task is created and the fields are set.  *)
Bound(s) ==
    /\ pc[s] = "binding"
    /\ relay[data[s]].sup = "binding"
    /\ relay' = [relay EXCEPT ![data[s]] = [@ EXCEPT !.sup = "created", !.listening = TRUE]]
    /\ Goto(s, "idle")
    /\ UNCHANGED <<Pool, Fields>>

(* start_server fails: the except branch gives the port back.              *)
BindFails(s) ==
    /\ pc[s] = "binding"
    /\ relay[data[s]].sup = "binding"
    /\ ReleasePort(relay[data[s]].port)
    /\ relay' = [relay EXCEPT ![data[s]] = Blank]
    /\ data' = [data EXCEPT ![s] = NoRelay]
    /\ Goto(s, "idle")
    /\ UNCHANGED <<victim, after>>

TaskCancelled(s) ==
    /\ pc[s] = "task"
    /\ SupOver(relay[victim[s]])
    /\ victim' = [victim EXCEPT ![s] = NoRelay]
    /\ UNCHANGED after
    /\ \/ after[s] = "open" /\ Open(s, Forgotten(victim[s]))
       \/ /\ after[s] # "open"
          /\ relay' = Forgotten(victim[s])
          /\ Goto(s, after[s])
          /\ UNCHANGED <<Pool, data>>

(* DATA_TEARDOWN_TIMEOUT: wait_for cancels the supervisor once more. *)
TeardownTimeout(s) ==
    /\ pc[s] = "task"
    /\ relay[victim[s]].sup = "closing"
    /\ ForceSup(victim[s])
    /\ UNCHANGED <<pc, Fields>>

(* PASV or EPSV.  A command may be served before the supervisor has run:   *)
(* one the client had sent already does not suspend the session.           *)
PassiveRequest(s) ==
    /\ pc[s] = "idle"
    /\ IF data[s] = NoRelay
       THEN Open(s, relay) /\ UNCHANGED <<victim, after>>
       ELSE CancelRelay(s, "open")

(* STOR, RETR, LIST...: the passive channel must still wait for its        *)
(* endpoint; otherwise the client gets 425 and nothing changes.            *)
Transfer(s) ==
    /\ pc[s] = "idle"
    /\ data[s] # NoRelay
    /\ relay[data[s]].endpoint = "pending"
    /\ relay' = [relay EXCEPT ![data[s]].seen = TRUE]
    /\ Goto(s, "queued")
    /\ UNCHANGED <<Pool, Fields>>

(* _ensure_upstream failed. *)
NotConnected(s) ==
    /\ pc[s] = "queued"
    /\ CancelRelay(s, "idle")

(* _prepare_upstream_data: with the supervisor gone the transfer is        *)
(* refused, else the printer is asked for a port.                          *)
Prepare(s) ==
    /\ pc[s] = "queued"
    /\ IF SupOver(relay[data[s]])
       THEN CancelRelay(s, "idle")
       ELSE Goto(s, "preparing") /\ UNCHANGED <<Pool, Fields, relay>>

Prepared(s) ==
    /\ pc[s] = "preparing"
    /\ relay' = [relay EXCEPT ![data[s]].endpoint = "set"]
    /\ Goto(s, "transfer")
    /\ UNCHANGED <<Pool, Fields>>

(* The printer was lost, or offered no usable port. *)
PrepareFailed(s) ==
    /\ pc[s] = "preparing"
    /\ CancelRelay(s, "idle")

(* The printer refused the command, or completed it, or the grace of       *)
(* _await_completion is over.  The fields stay as they are.                *)
TransferEnds(s) ==
    /\ pc[s] = "transfer"
    /\ Goto(s, "idle")
    /\ UNCHANGED <<Pool, Fields, relay>>

(* The printer was lost when the command was sent. *)
TransferLost(s) ==
    /\ pc[s] = "transfer"
    /\ CancelRelay(s, "idle")

(* QUIT, end of file, or an error on the control connection: close().  The *)
(* answer to a PASV may be what fails, at once, and before the supervisor  *)
(* has run, if the connection broke while the PASV was served.             *)
End(s) ==
    /\ pc[s] \in {"idle", "queued", "preparing", "transfer"}
    /\ IF data[s] = NoRelay
       THEN Goto(s, "ended") /\ UNCHANGED <<Pool, Fields, relay>>
       ELSE CancelRelay(s, "ended")

-----------------------------------------------------------------------------

SupStep(r) ==
    \/ SupStart(r) \/ SupSeen(r) \/ SupAbandoned(r) \/ SupEndpoint(r)
    \/ SupAccept(r) \/ SupFinished(r) \/ SupClosed(r)

HandlerStep(r, c) ==
    \/ HandlerStart(r, c) \/ HandlerRefused(r, c) \/ HandlerSeen(r, c)
    \/ HandlerEndpoint(r, c) \/ HandlerPiped(r, c) \/ HandlerClosed(r, c)

Bind(s) == Bound(s) \/ BindFails(s)

TearDown(s) == HandlersCancelled(s) \/ TaskCancelled(s) \/ TeardownTimeout(s)

Command(s) ==
    \/ Connect(s) \/ PassiveRequest(s) \/ Transfer(s)
    \/ NotConnected(s) \/ Prepare(s) \/ Prepared(s) \/ PrepareFailed(s)
    \/ TransferEnds(s) \/ TransferLost(s) \/ End(s)

Next ==
    \/ \E r \in Relays : SupStep(r)
    \/ \E r \in Relays, c \in Conns : Connection(r, c) \/ HandlerStep(r, c)
    \/ \E s \in Sessions : Bind(s) \/ TearDown(s) \/ Command(s)

Spec == Init /\ [][Next]_vars

(* The event loop runs every task that can run, the timeouts of the waits  *)
(* expire, and the copying ends at the latest by DATA_STALL_TIMEOUT.       *)
(* Nothing obliges a client to do anything.                                *)
Fairness ==
    /\ \A r \in Relays : WF_vars(SupStep(r))
    /\ \A r \in Relays, c \in Conns : WF_vars(HandlerStep(r, c))
    /\ \A s \in Sessions : WF_vars(Bind(s)) /\ WF_vars(TearDown(s))

FairSpec == Spec /\ Fairness

-----------------------------------------------------------------------------
(* Properties *)

(* Every port of the range is either free, once, or in use: teardown from  *)
(* two sides, a bind that fails or a supervisor that is cancelled twice    *)
(* never returns a port twice or drops it.                                 *)
PoolPartition ==
    /\ ToSet(free) \cap inUse = {}
    /\ ToSet(free) \cup inUse = Ports
    /\ IsInjective(free)

(* A port goes back to the pool only when nobody listens on it any more,   *)
(* and two relays never listen on the same port.                           *)
ListenersOwnTheirPort ==
    \A r \in Relays : relay[r].listening =>
        /\ relay[r].port \in inUse
        /\ \A q \in Relays \ {r} : relay[q].listening => relay[q].port # relay[r].port

(* At most one connection per relay is ever spliced into the printer's     *)
(* data channel, it comes from the client's own host, and only after the   *)
(* session sent that relay's transfer command.                             *)
OneSplicePerRelay ==
    \A r \in Relays :
        /\ Cardinality({c \in Conns : relay[r].conn[c] \in
                {"parked", "waiting", "piping", "closing"}}) <= 1
        /\ \A c \in Conns : relay[r].conn[c] = "piping" =>
              c \in Clients /\ relay[r].seen /\ relay[r].endpoint = "set"

(* The endpoint is still unresolved when _prepare_upstream_data resolves   *)
(* it: no teardown that runs while it awaits the printer can have          *)
(* cancelled the future under it (set_result would raise).                 *)
EndpointStillOpen ==
    \A s \in Sessions : pc[s] \in {"queued", "preparing"} =>
        data[s] # NoRelay /\ relay[data[s]].endpoint = "pending"

(* The ports of supervisors that were cancelled before their first step.   *)
Lost == {relay[r].port : r \in {q \in Relays : relay[q].sup = "dropped"}}

(* There is no other way to lose a port: every one in use has a supervisor *)
(* that is still to give it back, however teardowns, timeouts and second   *)
(* cancellations fall.                                                     *)
PortsHaveKeepers ==
    \A p \in inUse \ Lost : \E r \in Relays :
        relay[r].port = p /\ relay[r].sup \notin {"none", "done", "dropped"}

(* The relays a session still serves. *)
InService == {data[s] : s \in Sessions}

(* A relay its session has let go of stops listening, whatever state it    *)
(* was left in, unless its supervisor never ran.                           *)
PortReturns ==
    \A r \in Relays :
        (relay[r].listening /\ r \notin InService)
            ~> (~relay[r].listening \/ relay[r].sup = "dropped")

(* With no session left, every port comes back to the pool but the lost    *)
(* ones: a supervisor stuck in its own teardown does not keep one.         *)
PoolRefills ==
    (<>[](\A s \in Sessions : pc[s] = "ended")) => <>[](inUse \subseteq Lost)

(* "The reserved port must always find its way back to the pool"           *)
(* (tests/test_ftp_queue.py:357): with no session left none is missing.    *)
(* The code refutes it: see Lost.                                          *)
EveryPortReturns ==
    (<>[](\A s \in Sessions : pc[s] = "ended")) => <>[](inUse = {})
=============================================================================
