----------------------------- MODULE PushallGate -----------------------------
(***************************************************************************)
(* The gate on full-state requests to the printer: _pushall_pending, its   *)
(* timer, and the lock under which every publish to the printer happens.   *)
(* From mqtt_proxy.MQTTProxy (_request_pushall, _clear_pushall_pending,    *)
(* _publish_pushall, _send_state_snapshot's wait for the cache, and the    *)
(* upstream loop, which asks once per connection and clears the gate when  *)
(* the connection is lost).                                                *)
(*                                                                         *)
(* Time is abstracted to the expiry of PUSHALL_RETRY_INTERVAL after each   *)
(* request.  aiomqtt's publish is external: it ends confirmed, while its   *)
(* connection is up, or with an MqttError, at the latest when it times     *)
(* out, and a packet that timed out in its queue may still go out while    *)
(* the connection lasts.  Two relations between the code's constants matter: a publish may  *)
(* outlast the wait before the next connection (UPSTREAM_CONNECT_TIMEOUT = *)
(* 10 s, RECONNECT_DELAY = 5 s), a timer does not (PUSHALL_RETRY_INTERVAL  *)
(* = 4 s).                                                                 *)
(***************************************************************************)
EXTENDS Integers, Sequences, FiniteSets, SequencesExt

CONSTANTS
    Snapshots,     \* the snapshot tasks
    MaxRequests    \* bound on the requests remembered at a time

ASSUME MaxRequestsAssumption == MaxRequests \in Nat \ {0}

Main == "upstream"
Other == "publisher"    \* _forward_to_upstream, _request_version
Askers == Snapshots \cup {Main}
Requests == 1..MaxRequests
None == 0

ASSUME SnapshotsAssumption == Main \notin Snapshots /\ Other \notin Snapshots

VARIABLES
    link,      \* the upstream loop: "down", "connected" (client set), "serving"
    primed,    \* _cache_primed
    pending,   \* _pushall_pending
    handle,    \* _pushall_timer: the request whose timer it is
    armed,     \* the requests whose timer will call _clear_pushall_pending
    line,      \* _upstream_lock: its holder and those waiting for it
    sent,      \* sent[t]: the request t is publishing
    recent,    \* what the printer was asked on this connection in the last interval
    stray      \* history: a publish may go out on this connection uncounted,
               \* carried over into it or timed out on it

vars == <<link, primed, pending, handle, armed, line, sent, recent, stray>>

Asking(t) == Contains(line, t)
Holding(t) == line # <<>> /\ Head(line) = t
Publishing(t) == sent[t] # None

TypeOK ==
    /\ link \in {"down", "connected", "serving"}
    /\ primed \in BOOLEAN /\ pending \in BOOLEAN
    /\ handle \in Requests \cup {None}
    /\ armed \subseteq Requests
    /\ line \in Seq(Askers \cup {Other}) /\ IsInjective(line)
    /\ sent \in [Askers -> Requests \cup {None}]
    /\ \A t \in Askers : Publishing(t) => Holding(t)
    /\ recent \subseteq Requests
    /\ stray \in BOOLEAN

Init ==
    /\ link = "down"
    /\ primed = FALSE /\ pending = FALSE
    /\ handle = None /\ armed = {}
    /\ line = <<>>
    /\ sent = [t \in Askers |-> None]
    /\ recent = {}
    /\ stray = FALSE

(* _clear_pushall_pending *)
Clear(timers) ==
    /\ pending' = FALSE
    /\ armed' = timers \ {handle}
    /\ handle' = None

-----------------------------------------------------------------------------
(* _request_pushall *)

(* Mutant of Ask: the flag is only tested. *)
AskUnmarked(t) ==
    /\ ~Asking(t)
    /\ ~pending
    /\ line' = Append(line, t)
    /\ UNCHANGED <<pending, handle, armed, sent, recent>>

(* The flag is tested and set, then the lock is asked for. *)
Ask(t) ==
    /\ ~Asking(t)
    /\ ~pending
    /\ pending' = TRUE
    /\ line' = Append(line, t)
    /\ UNCHANGED <<handle, armed, sent, recent>>

(* The upstream loop asks once per connection, and goes on if it need not. *)
MainAsks ==
    /\ link = "connected"
    /\ link' = "serving"
    /\ \/ Ask(Main)
       \/ pending /\ UNCHANGED <<pending, line, handle, armed, sent, recent>>
    /\ UNCHANGED <<primed, stray>>

(* A snapshot task asks again and again while it waits for a full dump. *)
SnapshotAsks(t) ==
    /\ ~primed
    /\ Ask(t)
    /\ UNCHANGED <<link, primed, stray>>

(* Mutant of NoClient: the flag stays up. *)
NoClientMutes(t) ==
    /\ Holding(t) /\ ~Publishing(t)
    /\ link = "down"
    /\ line' = Tail(line)
    /\ UNCHANGED <<link, primed, pending, handle, armed, sent, recent, stray>>

(* _publish_pushall holds the lock and finds no connection. *)
NoClient(t) ==
    /\ Holding(t) /\ ~Publishing(t)
    /\ link = "down"
    /\ line' = Tail(line)
    /\ pending' = FALSE
    /\ UNCHANGED <<link, primed, handle, armed, sent, recent, stray>>

Unused == Requests \ (armed \cup recent \cup Range(sent))
NextRequest == CHOOSE q \in Unused : TRUE

(* ... or publishes the request. *)
Publish(t) ==
    /\ Holding(t) /\ ~Publishing(t)
    /\ link # "down"
    /\ Unused # {}
    /\ sent' = [sent EXCEPT ![t] = NextRequest]
    /\ recent' = recent \cup {NextRequest}
    /\ UNCHANGED <<link, primed, pending, handle, armed, line, stray>>

(* Confirmed: the flag is left to the timer. *)
Published(t) ==
    /\ Publishing(t)
    /\ sent[t] \in recent
    /\ armed' = armed \cup {sent[t]}
    /\ handle' = sent[t]
    /\ sent' = [sent EXCEPT ![t] = None]
    /\ line' = Tail(line)
    /\ UNCHANGED <<link, primed, pending, recent, stray>>

(* Mutant of PublishFails: the flag stays up. *)
PublishFailsMutes(t) ==
    /\ Publishing(t)
    /\ recent' = recent \ {sent[t]}
    /\ sent' = [sent EXCEPT ![t] = None]
    /\ line' = Tail(line)
    /\ UNCHANGED <<link, primed, pending, handle, armed, stray>>

(* MqttError, and nothing went out: the request is askable again. *)
PublishFails(t) ==
    /\ Publishing(t)
    /\ pending' = FALSE
    /\ recent' = recent \ {sent[t]}
    /\ sent' = [sent EXCEPT ![t] = None]
    /\ line' = Tail(line)
    /\ UNCHANGED <<link, primed, handle, armed, stray>>

(* MqttError, the publish having timed out: the code takes it for the      *)
(* same, but the packet is queued and may yet reach the printer.           *)
PublishLate(t) ==
    /\ Publishing(t)
    /\ sent[t] \in recent
    /\ pending' = FALSE
    /\ sent' = [sent EXCEPT ![t] = None]
    /\ line' = Tail(line)
    /\ stray' = TRUE
    /\ UNCHANGED <<link, primed, handle, armed, recent>>

(* PUSHALL_RETRY_INTERVAL after a request: its timer fires, if it is still *)
(* armed.                                                                  *)
Expire(q) ==
    /\ q \in armed \cup recent
    /\ q \notin Range(sent)
    /\ recent' = recent \ {q}
    /\ IF q \in armed
       THEN Clear(armed \ {q})
       ELSE UNCHANGED <<pending, armed, handle>>
    /\ UNCHANGED <<link, primed, line, sent, stray>>

-----------------------------------------------------------------------------
(* Everything else that publishes holds the lock for as long. *)

OtherAsks ==
    /\ ~Asking(Other)
    /\ link # "down" \/ line # <<>>
    /\ line' = Append(line, Other)
    /\ UNCHANGED <<link, primed, pending, handle, armed, sent, recent, stray>>

OtherDone ==
    /\ Holding(Other)
    /\ line' = Tail(line)
    /\ UNCHANGED <<link, primed, pending, handle, armed, sent, recent, stray>>

-----------------------------------------------------------------------------
(* The upstream loop *)

(* The wait before it is far longer than what a ready task needs to run,   *)
(* and longer than the timers: only a publish can still be under way.      *)
Connect ==
    /\ link = "down"
    /\ line = <<>> \/ Holding(Other) \/ \E t \in Askers : Publishing(t)
    /\ armed = {}
    /\ link' = "connected"
    /\ stray' = (line # <<>>)
    /\ UNCHANGED <<primed, pending, handle, armed, line, sent, recent>>

(* A full dump is merged. *)
Dump ==
    /\ link = "serving" /\ ~Asking(Main)
    /\ ~primed
    /\ primed' = TRUE
    /\ UNCHANGED <<link, pending, handle, armed, line, sent, recent, stray>>

(* The connection is lost: the loop's finally.  What was asked on it will  *)
(* not be answered any more.                                               *)
ConnectionLost ==
    /\ link # "down" /\ ~Asking(Main)
    /\ link' = "down"
    /\ primed' = FALSE
    /\ recent' = {}
    /\ Clear(armed)
    /\ UNCHANGED <<line, sent, stray>>

-----------------------------------------------------------------------------

AskerStep(t) ==
    \/ NoClient(t) \/ Publish(t)
    \/ Published(t) \/ PublishFails(t) \/ PublishLate(t)

Next ==
    \/ MainAsks
    \/ \E t \in Snapshots : SnapshotAsks(t)
    \/ \E t \in Askers : AskerStep(t)
    \/ \E q \in Requests : Expire(q)
    \/ OtherAsks \/ OtherDone
    \/ Connect \/ Dump \/ ConnectionLost

Spec == Init /\ [][Next]_vars

(* The event loop runs every ready task, a publish is bounded by its       *)
(* timeout and a timer fires.  Nothing is assumed of the printer or of the *)
(* connection to it.                                                       *)
FairSpec ==
    /\ Spec
    /\ \A t \in Askers : WF_vars(AskerStep(t))
    /\ \A q \in Requests : WF_vars(Expire(q))
    /\ WF_vars(OtherDone)

-----------------------------------------------------------------------------
(* Properties *)

(* On one connection, never a second request within the interval of the    *)
(* first, however many clients subscribe together and whatever fails or    *)
(* expires meanwhile, if no publisher was carried over into it and no      *)
(* publish timed out on it.                                                *)
AtMostOne == ~stray => Cardinality(recent) <= 1

(* Nor does a timer survive the request it belongs to on such a            *)
(* connection: one that did would clear the flag of a later request        *)
(* (comment in _clear_pushall_pending).                                    *)
NoSurvivingTimer == ~stray => armed \subseteq {handle}

(* The flag is only ever up while something will take it down: the task    *)
(* that set it, or its timer.                                              *)
GateHasOwner ==
    pending => handle \in armed \/ \E t \in Askers : Asking(t)

(* ... and so it is taken down: a request that was lost, or refused, never *)
(* mutes the later ones.                                                   *)
ReAskable == pending ~> ~pending

(* "Ask the printer for a full state dump, at most one at a time"          *)
(* (mqtt_proxy.py:460), on any connection.  The code refutes it: see the   *)
(* exceptions of AtMostOne.                                                *)
OneAtATime == Cardinality(recent) <= 1
=============================================================================
