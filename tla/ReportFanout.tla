---------------------------- MODULE ReportFanout ----------------------------
(***************************************************************************)
(* How the MQTT proxy hands the printer's reports to its clients: the      *)
(* merged state cache, the broadcast of every report through one bounded   *)
(* queue per client, the snapshot replayed to a client that subscribes,    *)
(* and the client that cannot keep up.  From mqtt_proxy.MQTTProxy          *)
(* (_upstream_connection_loop, _broadcast_report, _broadcast_to_clients,   *)
(* _deliver, _send_state_snapshot, _handle_client, _client_send_loop) and  *)
(* state_cache.PrinterStateCache.                                          *)
(*                                                                         *)
(* The reports merged into the cache are numbered in the order the printer *)
(* sends them.  What the cache holds is abstracted to the number of the    *)
(* last one and to whether a full dump is among them.  The other messages  *)
(* of the printer (acks, oversized or malformed ones) have no number and   *)
(* are broadcast all the same.                                             *)
(*                                                                         *)
(* _clients_lock is never held across an await, so taking it never         *)
(* suspends a task.  The one await of a delivery is close_writer, for a    *)
(* client whose queue is full.                                             *)
(***************************************************************************)
EXTENDS Integers, Sequences, FiniteSets, FiniteSetsExt

CONSTANTS
    Clients,
    QueueSize,    \* CLIENT_QUEUE_SIZE
    MaxReports    \* bound on the number of reports

ASSUME QueueSizeAssumption == QueueSize \in Nat \ {0}
ASSUME MaxReportsAssumption == MaxReports \in Nat

VARIABLES
    up,        \* _upstream_connected
    version,   \* merged reports received so far
    cached,    \* the last report merged since the connection was made, 0: none
    complete,  \* whether a full dump is among the merged reports
    primed,    \* _cache_primed
    bcast,     \* the broadcast under way, see Broadcasts
    reg,       \* the keys of _clients, _client_ips and _client_writers
    conn,      \* conn[c]: c's connection: "off", "live", "closing"
    queue,     \* queue[c]: its queue
    snap,      \* snap[c]: its snapshot task: "none", "waiting", "replayed"
    view       \* view[c]: what was written to c's socket, see Views

vars == <<up, version, cached, complete, primed, bcast, reg, conn, queue, snap, view>>

(* An entry of a queue: a report, a snapshot of the reports up to n, or    *)
(* (n = 0) a message that is neither.  addr says whose network address it  *)
(* names, if any.                                                          *)
Items ==
    [n : 0..MaxReports, kind : {"report", "snapshot"}, whole : BOOLEAN,
     addr : {"none", "proxy", "printer"}]

(* The report being delivered, to whom it still has to be, and the slow    *)
(* client whose socket is being closed meanwhile.                          *)
Nobody == "nobody"
Broadcasts ==
    [n : 0..MaxReports, net : BOOLEAN, todo : SUBSET Clients,
     closing : Clients \cup {Nobody}]
Idle == [n |-> 0, net |-> FALSE, todo |-> {}, closing |-> Nobody]

(* The last state a client received, and what it has seen so far. *)
Views ==
    [n : 0..MaxReports, replayed : BOOLEAN, partial : BOOLEAN, exposed : BOOLEAN]
NoView == [n |-> 0, replayed |-> FALSE, partial |-> FALSE, exposed |-> FALSE]

TypeOK ==
    /\ up \in BOOLEAN /\ complete \in BOOLEAN /\ primed \in BOOLEAN
    /\ version \in 0..MaxReports
    /\ cached \in 0..MaxReports
    /\ bcast \in Broadcasts
    /\ reg \subseteq Clients
    /\ conn \in [Clients -> {"off", "live", "closing"}]
    /\ queue \in [Clients -> Seq(Items)]
    /\ \A c \in Clients : Len(queue[c]) <= QueueSize
    /\ snap \in [Clients -> {"none", "waiting", "replayed"}]
    /\ view \in [Clients -> Views]

Init ==
    /\ up = FALSE /\ complete = FALSE /\ primed = FALSE
    /\ version = 0
    /\ cached = 0
    /\ bcast = Idle
    /\ reg = {}
    /\ conn = [c \in Clients |-> "off"]
    /\ queue = [c \in Clients |-> <<>>]
    /\ snap = [c \in Clients |-> "none"]
    /\ view = [c \in Clients |-> NoView]

Upstream == <<up, version, cached, complete, primed>>

-----------------------------------------------------------------------------
(* _deliver *)

Full(c) == Len(queue[c]) >= QueueSize

(* The address is rewritten for a client that is still registered. *)
ReportedAddress(c, net) ==
    IF ~net THEN "none" ELSE IF c \in reg THEN "proxy" ELSE "printer"

ReportFor(c, n, net) ==
    [n |-> n, kind |-> "report", whole |-> FALSE, addr |-> ReportedAddress(c, net)]

Enqueue(S, item) ==
    queue' = [c \in Clients |-> IF c \in S THEN Append(queue[c], item[c]) ELSE queue[c]]

(* Mutant of HangUp: the socket is not closed. *)
HangUpQuietly(S) == reg' = reg \ S /\ UNCHANGED conn

(* QueueFull: the client is forgotten and its socket closed.  Whatever its *)
(* send loop still writes after that is discarded by the transport.        *)
HangUp(S) ==
    /\ reg' = reg \ S
    /\ conn' = [c \in Clients |-> IF c \in S THEN "closing" ELSE conn[c]]

(* Mutant of DeliverTo: the report is skipped for a full client. *)
DeliverSkips(todo, n, net) ==
    /\ Enqueue({c \in todo : ~Full(c)}, [c \in Clients |-> ReportFor(c, n, net)])
    /\ bcast' = Idle
    /\ UNCHANGED <<reg, conn>>

(***************************************************************************)
(* The loop of a broadcast, from one await to the next: it puts the report *)
(* in the queue of one target after the other, up to the first one that is *)
(* full and still registered, whose socket it closes.                      *)
(***************************************************************************)
DeliverTo(todo, n, net) ==
    LET item == [c \in Clients |-> ReportFor(c, n, net)]
        slow == {c \in todo : Full(c) /\ c \in reg}
    IN  \/ /\ slow = {}
           /\ Enqueue({c \in todo : ~Full(c)}, item)
           /\ bcast' = Idle
           /\ UNCHANGED <<reg, conn>>
        \/ \E c \in slow : \E S \in SUBSET (todo \ slow) :
              /\ Enqueue({d \in S : ~Full(d)}, item)
              /\ HangUp({c})
              /\ bcast' = [n |-> n, net |-> net, todo |-> todo \ (S \cup {c}), closing |-> c]

-----------------------------------------------------------------------------
(* The upstream loop *)

UpstreamConnect ==
    /\ ~up
    /\ up' = TRUE
    /\ UNCHANGED <<version, cached, complete, primed, bcast, reg, conn, queue, snap, view>>

(* PrinterStateCache.update: acks, oversized messages and what is no       *)
(* object are not merged.                                                  *)
Merge(merged, full) ==
    /\ version' = IF merged THEN version + 1 ELSE version
    /\ cached' = IF merged THEN version + 1 ELSE cached
    /\ complete' = (complete \/ (merged /\ full))

ClearCache == cached' = 0 /\ complete' = FALSE

(* A message from the printer: merged into the cache, unless it is an ack, *)
(* oversized or no object; then the broadcast begins.                      *)
Report(merged, full, net) ==
    /\ up
    /\ bcast = Idle
    /\ merged => version < MaxReports
    /\ Merge(merged, full)
    /\ primed' = (primed \/ (merged /\ full))
    /\ DeliverTo(reg, IF merged THEN version + 1 ELSE 0, net)
    /\ UNCHANGED <<up, snap, view>>

(* close_writer has returned: the broadcast goes on. *)
BroadcastResumes ==
    /\ bcast.closing # Nobody
    /\ DeliverTo(bcast.todo, bcast.n, bcast.net)
    /\ UNCHANGED <<Upstream, snap, view>>

(* Mutant of UpstreamLost: _cache_primed is not cleared. *)
UpstreamLostPrimed ==
    /\ up
    /\ bcast = Idle
    /\ up' = FALSE
    /\ ClearCache
    /\ UNCHANGED <<version, primed, bcast, reg, conn, queue, snap, view>>

(* The connection to the printer is lost: the loop's finally. *)
UpstreamLost ==
    /\ up
    /\ bcast = Idle
    /\ up' = FALSE
    /\ ClearCache
    /\ primed' = FALSE
    /\ UNCHANGED <<version, bcast, reg, conn, queue, snap, view>>

-----------------------------------------------------------------------------
(* A client *)

(* Authenticated, and registered: the wait for the printer's connection is *)
(* over, and nobody looks again whether it still is up.                    *)
Register(c) ==
    /\ conn[c] = "off"
    /\ c \notin bcast.todo
    /\ reg' = reg \cup {c}
    /\ conn' = [conn EXCEPT ![c] = "live"]
    /\ queue' = [queue EXCEPT ![c] = <<>>]
    /\ snap' = [snap EXCEPT ![c] = "none"]
    /\ view' = [view EXCEPT ![c] = NoView]
    /\ UNCHANGED <<Upstream, bcast>>

(* SUBSCRIBE to the report topic starts a snapshot task. *)
Subscribe(c) ==
    /\ conn[c] = "live"
    /\ snap[c] # "waiting"
    /\ snap' = [snap EXCEPT ![c] = "waiting"]
    /\ UNCHANGED <<Upstream, bcast, reg, conn, queue, view>>

(* PrinterStateCache.snapshots: the merged state, one payload per section, *)
(* here as one entry.                                                      *)
Snapshot == [n |-> cached, kind |-> "snapshot", whole |-> complete, addr |-> "proxy"]

(* Mutants of Replay: the state was serialised before the last report, or  *)
(* a snapshot that does not fit is dropped.                                *)
ReplayStale(c) ==
    /\ snap[c] = "waiting"
    /\ primed
    /\ c \in reg /\ ~Full(c)
    /\ snap' = [snap EXCEPT ![c] = "replayed"]
    /\ queue' = [queue EXCEPT ![c] = Append(@, [Snapshot EXCEPT !.n = @ - 1])]
    /\ UNCHANGED <<Upstream, bcast, reg, conn, view>>

ReplayDrops(c) ==
    /\ snap[c] = "waiting"
    /\ primed
    /\ c \in reg
    /\ snap' = [snap EXCEPT ![c] = "replayed"]
    /\ queue' = IF Full(c) THEN queue ELSE
                [queue EXCEPT ![c] = Append(@, Snapshot)]
    /\ UNCHANGED <<Upstream, bcast, reg, conn, view>>

(* _send_state_snapshot once the cache is primed: the state is serialised  *)
(* and queued without an await in between.                                 *)
Replay(c) ==
    /\ snap[c] = "waiting"
    /\ primed
    /\ snap' = [snap EXCEPT ![c] = "replayed"]
    /\ \/ /\ c \in reg /\ ~Full(c)
          /\ queue' = [queue EXCEPT ![c] = Append(@, Snapshot)]
          /\ UNCHANGED <<reg, conn>>
       \/ /\ c \in reg /\ Full(c)
          /\ HangUp({c})
          /\ UNCHANGED queue
       \/ /\ c \notin reg
          /\ UNCHANGED <<reg, conn, queue>>
    /\ UNCHANGED <<Upstream, bcast, view>>

(* CACHE_PRIMING_TIMEOUT: the client will have to ask for its own dump. *)
ReplayGivenUp(c) ==
    /\ snap[c] = "waiting"
    /\ ~primed
    /\ snap' = [snap EXCEPT ![c] = "none"]
    /\ UNCHANGED <<Upstream, bcast, reg, conn, queue, view>>

(* The send loop writes the next packet. *)
Send(c) ==
    /\ conn[c] # "off"
    /\ queue[c] # <<>>
    /\ queue' = [queue EXCEPT ![c] = Tail(@)]
    /\ LET item == Head(queue[c]) IN
       view' = IF conn[c] = "closing" THEN view ELSE
               [view EXCEPT ![c] =
                  [n |-> IF item.n = 0 THEN @.n ELSE item.n,
                   replayed |-> @.replayed \/ item.kind = "snapshot",
                   partial |-> @.partial \/ (item.kind = "snapshot" /\ ~item.whole),
                   exposed |-> @.exposed \/ item.addr = "printer"]]
    /\ UNCHANGED <<Upstream, bcast, reg, conn, snap>>

(* Either loop of the client ended: _handle_client's finally. *)
ClientEnds(c) ==
    /\ conn[c] # "off"
    /\ reg' = reg \ {c}
    /\ conn' = [conn EXCEPT ![c] = "off"]
    /\ queue' = [queue EXCEPT ![c] = <<>>]
    /\ view' = [view EXCEPT ![c] = NoView]
    /\ UNCHANGED <<Upstream, bcast, snap>>

-----------------------------------------------------------------------------

Next ==
    \/ UpstreamConnect
    \/ UpstreamLost
    \/ \E merged, full, net \in BOOLEAN : Report(merged, full, net)
    \/ BroadcastResumes
    \/ \E c \in Clients :
          \/ Register(c) \/ Subscribe(c)
          \/ Replay(c) \/ ReplayGivenUp(c)
          \/ Send(c) \/ ClientEnds(c)

Spec == Init /\ [][Next]_vars

-----------------------------------------------------------------------------
(* Properties *)

(* A client never applies an older document over a newer one: neither the  *)
(* replay overtaking a broadcast that is under way nor a broadcast         *)
(* overtaking the replay (comment at mqtt_proxy.py:536).                   *)
NoRegress ==
    [][\A c \in Clients :
          conn[c] = "live" /\ conn'[c] = "live" => view'[c].n >= view[c].n]_vars

(* A client that was given the state misses no report afterwards: each one *)
(* it receives is at most one ahead of what it has.                        *)
NoGap ==
    [][\A c \in Clients :
          view[c].replayed /\ view'[c].replayed => view'[c].n <= view[c].n + 1]_vars

(* ... and what is on its way to it is as recent as the cache: a client is *)
(* disconnected when it cannot keep up, never silently left behind.        *)
Newest(c) == Max({view[c].n} \cup {queue[c][i].n : i \in DOMAIN queue[c]})

NeverLeftBehind ==
    \A c \in reg :
        snap[c] = "replayed" /\ c \notin bcast.todo => Newest(c) >= cached

(* Only a full dump is replayed as one: a reconnection between priming and *)
(* replay never lets a partial cache pass for the complete state.          *)
NeverPartial == \A c \in Clients : ~view[c].partial

(* No report naming the printer's own address reaches a client, not even   *)
(* one that is hung up on in the middle of the broadcast.                  *)
NeverExposed == \A c \in Clients : ~view[c].exposed
=============================================================================
