------------------------- MODULE ChamberFanoutProofs -------------------------
(***************************************************************************)
(* The chamber proxy's table of viewers is right, and its viewers are told *)
(* to leave, for any number of viewers, any addresses they share and any   *)
(* size of their queues.                                                   *)
(*                                                                         *)
(* The table is keyed by address and a teardown removes whatever it finds  *)
(* there.  What saves it is an order among the handlers of one address:    *)
(* when a later one serves, an earlier one is past its teardown, or waits  *)
(* on an empty queue that nobody fills any more (StragglersInv).           *)
(***************************************************************************)
EXTENDS ChamberFanout, TLAPS

OrderInv ==
    /\ \A v \in Viewers : viewer[v] = "waiting" => ~connected
    /\ \A v \in lost : viewer[v] \notin {"none", "auth"}
    /\ \A v \in Viewers : \A w \in Earlier(v) :
          /\ viewer[v] # "none" => viewer[w] = "gone" \/ w \in lost
          /\ viewer[v] = "released" => viewer[w] # "waiting"

StragglersInv ==
    \A v \in Viewers : \A w \in Earlier(v) :
        viewer[v] \in Serving =>
            \/ viewer[w] \in {"closing", "gone"}
            \/ viewer[w] = "receiving" /\ queue[w] = <<>> /\ ~Registered(w)

AddressInv == \A a \in Addresses : clients[a] # Nobody => AddressOf[clients[a]] = a

IInv == TypeOK /\ OrderInv /\ StragglersInv /\ AddressInv /\ Told /\ TableIsRight

LEMMA ViewersFacts ==
    /\ Viewers \subseteq Nat
    /\ \A v \in Viewers : AddressOf[v] \in Addresses
    /\ \A v \in Viewers : \A w \in Earlier(v) :
          w \in Viewers /\ w # v /\ AddressOf[w] = AddressOf[v] /\ v \notin Earlier(w)
    /\ \A v, w \in Viewers : AddressOf[v] = AddressOf[w] => v = w \/ v \in Earlier(w) \/ w \in Earlier(v)
BY ChamberAssumption DEF Viewers, Earlier

LEMMA Initially == Init => IInv
<1> USE ViewersFacts DEF Init
<1>1. Init => \A v \in Viewers : /\ viewer[v] = "none" /\ queue[v] = <<>>
                                 /\ ~open[v]
  OBVIOUS
<1>2. Init => \A a \in Addresses : clients[a] = Nobody
  OBVIOUS
<1>3. Init => TypeOK
  <2>1. <<>> \in Seq({Frame, End}) /\ Len(<<>>) = 0
    OBVIOUS
  <2>2. Init => /\ cancelled \in BOOLEAN /\ connected \in BOOLEAN /\ running \in BOOLEAN
                /\ open \in [Viewers -> BOOLEAN]
    BY Zenon
  <2>3. QED
    BY <2>1, <2>2, <1>1, ChamberAssumption DEF TypeOK
<1>4. Nobody \notin Viewers
  BY ChamberAssumption
<1>5. Init => OrderInv /\ StragglersInv /\ Told
  BY <1>1 DEF OrderInv, StragglersInv, Told, Serving
<1>6. Init => AddressInv /\ TableIsRight
  BY <1>1, <1>2, <1>4 DEF AddressInv, TableIsRight, Serving
<1>7. QED
  BY <1>3, <1>5, <1>6 DEF IInv

-----------------------------------------------------------------------------
(* Queues *)

(* Put never leaves a queue empty, and never too long. *)
LEMMA PutFacts ==
    ASSUME TypeOK, NEW v \in Viewers, NEW item \in {Frame, End}
    PROVE  /\ Put(v, item) \in Seq({Frame, End})
           /\ Len(Put(v, item)) <= QueueSize
           /\ Put(v, item) # <<>>
<1>1. queue[v] \in Seq({Frame, End}) /\ Len(queue[v]) <= QueueSize /\ Len(queue[v]) \in Nat
  BY DEF TypeOK
<1>2. CASE Full(v)
  BY <1>1, <1>2, ChamberAssumption DEF Put, Full
<1>3. CASE ~Full(v)
  <2>1. Len(Append(queue[v], item)) = Len(queue[v]) + 1
    BY <1>1
  <2>2. Append(queue[v], item) \in Seq({Frame, End})
    BY <1>1
  <2>3. QED
    BY <1>1, <1>3, <2>1, <2>2, ChamberAssumption DEF Put, Full
<1>4. QED
  BY <1>2, <1>3

(* What telling or feeding the registered viewers does to all of them. *)
Treated(v) ==
    /\ queue'[v] \in Seq({Frame, End}) /\ Len(queue'[v]) <= QueueSize
    /\ open'[v] \in BOOLEAN
    /\ ~Registered(v) => queue'[v] = queue[v] /\ (open'[v] <=> open[v])
    /\ Registered(v) => queue'[v] # <<>> \/ (queue'[v] = queue[v] /\ (open'[v] <=> open[v]))

LEMMA TellingFacts ==
    ASSUME TypeOK,
           \/ DisconnectAll
           \/ UNCHANGED <<open, queue>>
           \/ Broadcast
    PROVE  /\ queue' \in [Viewers -> Seq({Frame, End})] /\ open' \in [Viewers -> BOOLEAN]
           /\ \A v \in Viewers : Treated(v)
<1>1. CASE DisconnectAll
  <2>1. ASSUME NEW v \in Viewers PROVE Treated(v)
    <3>1. open'[v] = (open[v] /\ ~Registered(v))
      BY <1>1 DEF DisconnectAll
    <3>2. queue'[v] = IF Registered(v) THEN Put(v, End) ELSE queue[v]
      BY <1>1 DEF DisconnectAll
    <3>3. open[v] \in BOOLEAN /\ queue[v] \in Seq({Frame, End}) /\ Len(queue[v]) <= QueueSize
      BY DEF TypeOK
    <3>4. open'[v] \in BOOLEAN
      BY Zenon, <3>1
    <3>5. ~Registered(v) => (open'[v] <=> open[v])
      BY Zenon, <3>1, <3>3
    <3>6. /\ Put(v, End) \in Seq({Frame, End}) /\ Len(Put(v, End)) <= QueueSize
          /\ Put(v, End) # <<>>
      BY PutFacts
    <3>7. CASE Registered(v)
      BY <3>2, <3>4, <3>6, <3>7 DEF Treated
    <3>8. CASE ~Registered(v)
      BY <3>2, <3>3, <3>4, <3>5, <3>8 DEF Treated
    <3>9. QED
      BY <3>7, <3>8
  <2>2. QED
    BY <1>1, <2>1 DEF DisconnectAll, Treated
<1>2. CASE Broadcast
  <2>1. ASSUME NEW v \in Viewers PROVE Treated(v)
    <3>1. queue'[v] = IF Registered(v) /\ open[v] THEN Put(v, Frame) ELSE queue[v]
      BY <1>2 DEF Broadcast
    <3>2. open' = open
      BY <1>2 DEF Broadcast
    <3>3. open[v] \in BOOLEAN /\ queue[v] \in Seq({Frame, End}) /\ Len(queue[v]) <= QueueSize
      BY DEF TypeOK
    <3>4. QED
      BY <3>1, <3>2, <3>3, PutFacts DEF Treated
  <2>2. QED
    BY <1>2, <2>1 DEF Broadcast, Treated, TypeOK
<1>3. CASE UNCHANGED <<open, queue>>
  BY <1>3 DEF Treated, TypeOK
<1>4. QED
  BY <1>1, <1>2, <1>3

-----------------------------------------------------------------------------
(* The steps *)

UpTypeOK ==
    /\ up \in {"connecting", "streaming", "closing", "sleeping", "done"}
    /\ cancelled \in BOOLEAN /\ connected \in BOOLEAN /\ running \in BOOLEAN
    /\ halt \in {"no", "cancelling", "waiting", "stopped"}

(* The upstream task and the shutdown move no viewer but those that wait   *)
(* for the connection, and only fill queues.                               *)
LEMMA AroundKeeps ==
    ASSUME IInv, UpTypeOK',
           UNCHANGED <<clients, lost>>,
           queue' \in [Viewers -> Seq({Frame, End})], open' \in [Viewers -> BOOLEAN],
           \A v \in Viewers : Treated(v),
           \/ viewer' = viewer /\ (connected' => connected)
           \/ viewer' = [v \in Viewers |-> IF viewer[v] = "waiting" THEN "released" ELSE viewer[v]]
    PROVE  IInv'
<1> USE ViewersFacts DEF IInv
<1>1. TypeOK'
  <2>1. \A v \in Viewers : Len(queue'[v]) <= QueueSize
    BY DEF Treated
  <2>2. viewer' \in [Viewers -> {"none", "auth", "waiting", "released", "closing", "gone"} \cup Serving]
    BY DEF TypeOK
  <2>3. QED
    BY <2>1, <2>2 DEF TypeOK, UpTypeOK
<1>2. \A v \in Viewers : \/ viewer'[v] = viewer[v]
                         \/ viewer[v] = "waiting" /\ viewer'[v] = "released"
  BY DEF TypeOK
<1>3. OrderInv'
  <2>1. ASSUME NEW v \in Viewers, viewer'[v] = "waiting"
        PROVE  viewer' = viewer /\ viewer[v] = "waiting" /\ (connected' => connected)
    BY <2>1 DEF TypeOK
  <2>2. \A v \in Viewers : viewer'[v] = "waiting" => ~connected'
    BY <2>1 DEF OrderInv
  <2>3. \A v \in lost : viewer'[v] \notin {"none", "auth"}
    BY <1>2 DEF OrderInv, TypeOK
  <2>4. \A v \in Viewers : \A w \in Earlier(v) :
          viewer'[v] # "none" => viewer'[w] = "gone" \/ w \in lost
    BY <1>2 DEF OrderInv
  <2>5. \A v \in Viewers : \A w \in Earlier(v) : viewer'[v] = "released" => viewer'[w] # "waiting"
    BY <2>1 DEF OrderInv
  <2>6. QED
    BY <2>2, <2>3, <2>4, <2>5 DEF OrderInv
<1>4. StragglersInv'
  <2>1. SUFFICES ASSUME NEW v \in Viewers, NEW w \in Earlier(v), viewer'[v] \in Serving
                 PROVE  \/ viewer'[w] \in {"closing", "gone"}
                        \/ viewer'[w] = "receiving" /\ queue'[w] = <<>> /\ clients'[AddressOf[w]] # w
    BY DEF StragglersInv, Registered
  <2>2. viewer[v] \in Serving
    BY <1>2, <2>1 DEF Serving
  <2>3. w \in Viewers
    OBVIOUS
  <2>4. \/ viewer[w] \in {"closing", "gone"}
        \/ viewer[w] = "receiving" /\ queue[w] = <<>> /\ clients[AddressOf[w]] # w
    BY <2>2 DEF StragglersInv, Registered
  <2>5. QED
    BY <1>2, <2>3, <2>4 DEF Treated, Registered
<1>5. AddressInv'
  BY DEF AddressInv
<1>6. Told'
  BY <1>2 DEF Told, Treated
<1>7. TableIsRight'
  BY <1>2 DEF TableIsRight, Serving, Registered
<1>8. QED
  BY <1>1, <1>3, <1>4, <1>5, <1>6, <1>7

LEMMA UpstreamKeeps ==
    ASSUME IInv, UpstreamStep \/ Broadcast \/ CancelUpstream \/ Stop \/ Stopped
    PROVE  IInv'
<1> USE DEF IInv
<1>t. UpTypeOK
  BY DEF TypeOK, UpTypeOK
<1>1. CASE Connect
  <2>1. UpTypeOK' /\ UNCHANGED <<open, queue, clients, lost>>
    BY <1>1, <1>t DEF Connect, UpTypeOK
  <2>2. QED
    BY <1>1, <2>1, AroundKeeps, TellingFacts DEF Connect
<1>2. CASE ConnectFails \/ UpstreamLost \/ CancelUpstream
  <2>1. DisconnectAll \/ UNCHANGED <<open, queue>>
    BY <1>2 DEF ConnectFails, UpstreamLost, CancelUpstream
  <2>2. UNCHANGED <<clients, lost, viewer>> /\ connected' = FALSE
    BY <1>2 DEF ConnectFails, UpstreamLost, CancelUpstream
  <2>3. UpTypeOK'
    BY <1>2, <1>t DEF ConnectFails, UpstreamLost, CancelUpstream, UpTypeOK
  <2>4. QED
    BY <2>1, <2>2, <2>3, AroundKeeps, TellingFacts
<1>3. CASE UpstreamClosed \/ Slept \/ Stopped
  <2>1. UpTypeOK' /\ UNCHANGED <<viewerVars, connected>>
    BY <1>3, <1>t DEF UpstreamClosed, Slept, Stopped, UpTypeOK
  <2>2. QED
    BY <2>1, AroundKeeps, TellingFacts DEF viewerVars
<1>4. CASE Broadcast
  <2>1. UpTypeOK' /\ UNCHANGED <<clients, lost, viewer, connected>>
    BY <1>4, <1>t DEF Broadcast, upVars, UpTypeOK
  <2>2. QED
    BY <1>4, <2>1, AroundKeeps, TellingFacts
<1>5. CASE Stop
  <2>1. UpTypeOK' /\ UNCHANGED <<clients, lost, viewer, connected>> /\ DisconnectAll
    BY <1>5, <1>t DEF Stop, UpTypeOK
  <2>2. QED
    BY <2>1, AroundKeeps, TellingFacts
<1>6. QED
  BY <1>1, <1>2, <1>3, <1>4, <1>5 DEF UpstreamStep

(* A handler's teardown removes its own entry, or none: no other handler   *)
(* of its address serves.                                                  *)
LEMMA LeaveKeeps ==
    ASSUME IInv, NEW v \in Viewers, Leave(v), UNCHANGED <<upVars, lost>>,
           viewer[v] \in {"auth", "released", "receiving", "writing"},
           viewer[v] = "receiving" => queue[v] # <<>>
    PROVE  IInv'
<1> USE ViewersFacts DEF IInv, Leave, Unregister, upVars
<1>1. TypeOK'
  <2>1. <<>> \in Seq({Frame, End}) /\ Len(<<>>) = 0
    OBVIOUS
  <2>2. open' \in [Viewers -> BOOLEAN]
    BY DEF TypeOK
  <2>3. QED
    BY <2>1, <2>2, ChamberAssumption DEF TypeOK
<1>2. /\ viewer'[v] = "closing"
      /\ \A w \in Viewers \ {v} : viewer'[w] = viewer[w] /\ queue'[w] = queue[w] /\ open'[w] = open[w]
      /\ \A a \in Addresses : clients'[a] = IF a = AddressOf[v] THEN Nobody ELSE clients[a]
  BY DEF TypeOK
<1>3. OrderInv'
  BY <1>2 DEF OrderInv
<1>4. Nobody \notin Viewers
  BY ChamberAssumption
<1>5. StragglersInv'
  BY <1>2, <1>4 DEF StragglersInv, Serving, Registered
<1>6. AddressInv'
  BY <1>2 DEF AddressInv
<1>7. Told'
  BY <1>2 DEF Told
<1>8. \A w \in Viewers \ {v} : AddressOf[w] = AddressOf[v] => viewer[w] \notin Serving \/ w \in lost
  BY DEF OrderInv, StragglersInv, Serving
<1>9. TableIsRight'
  <2>1. \A w \in Viewers : viewer'[w] \in Serving /\ w \notin lost' => Registered(w)'
    BY <1>2, <1>8 DEF TableIsRight, Registered, Serving
  <2>2. \A w \in Viewers : (\E a \in Addresses : clients'[a] = w) => viewer'[w] \in Serving
    BY <1>2, <1>4 DEF TableIsRight, AddressInv
  <2>3. QED
    BY <2>1, <2>2 DEF TableIsRight
<1>10. QED
  BY <1>1, <1>3, <1>5, <1>6, <1>7, <1>9

(* A registration overwrites only the entry of a connection that is lost. *)
LEMMA RegisterKeeps ==
    ASSUME IInv, NEW v \in Viewers, Register(v), UNCHANGED <<upVars, lost>>,
           (viewer[v] = "auth" /\ connected) \/ viewer[v] = "released"
    PROVE  IInv'
<1> USE ViewersFacts DEF IInv, upVars
<1>1. CASE ~running
  BY <1>1, LeaveKeeps DEF Register
<1>2. CASE running
  <2>1. TypeOK'
    <3>1. open' \in [Viewers -> BOOLEAN]
      BY <1>2 DEF Register, TypeOK
    <3>2. clients' \in [Addresses -> Viewers \cup {Nobody}]
      BY <1>2 DEF Register, TypeOK
    <3>3. QED
      BY <1>2, <3>1, <3>2 DEF Register, TypeOK, Serving
  <2>2. /\ viewer'[v] = "receiving" /\ open'[v] = TRUE /\ queue' = queue
        /\ \A w \in Viewers \ {v} : viewer'[w] = viewer[w] /\ open'[w] = open[w]
        /\ \A a \in Addresses : clients'[a] = IF a = AddressOf[v] THEN v ELSE clients[a]
    BY <1>2 DEF Register, TypeOK
  <2>3. OrderInv'
    <3>1. v \notin lost \/ viewer[v] # "auth"
      BY DEF OrderInv
    <3>2. \A u \in Viewers : \A w \in Earlier(u) :
            viewer'[u] # "none" => viewer'[w] = "gone" \/ w \in lost
      <4>1. SUFFICES ASSUME NEW u \in Viewers, NEW w \in Earlier(u), viewer'[u] # "none"
                     PROVE  viewer'[w] = "gone" \/ w \in lost
        OBVIOUS
      <4>2. w \in Viewers /\ viewer[u] # "none"
        BY <2>2, <4>1
      <4>3. viewer[w] = "gone" \/ w \in lost
        BY <4>2 DEF OrderInv
      <4>4. QED
        BY <2>2, <4>2, <4>3
    <3>3. ASSUME NEW u \in Viewers, NEW w \in Earlier(u), viewer'[u] = "released"
          PROVE  viewer'[w] # "waiting"
      <4>1. viewer[u] = "released" /\ w \in Viewers
        BY <2>2, <3>3
      <4>2. viewer[w] # "waiting"
        BY <4>1 DEF OrderInv
      <4>3. QED
        BY <2>2, <4>1, <4>2
    <3>4. \A u \in Viewers : viewer'[u] = "waiting" => ~connected'
      BY <2>2 DEF OrderInv
    <3>5. \A u \in lost : viewer'[u] \notin {"none", "auth"}
      BY <2>2 DEF OrderInv, TypeOK
    <3>6. QED
      BY <3>2, <3>3, <3>4, <3>5 DEF OrderInv
  <2>4. \A w \in Earlier(v) : \/ viewer[w] \in {"closing", "gone"}
                              \/ viewer[w] = "receiving" /\ queue[w] = <<>>
    <3>1. SUFFICES ASSUME NEW w \in Earlier(v), viewer[w] # "gone"
                   PROVE  \/ viewer[w] = "closing"
                          \/ viewer[w] = "receiving" /\ queue[w] = <<>>
      OBVIOUS
    <3>2. w \in lost /\ viewer[w] \notin {"none", "auth", "waiting"}
      BY <3>1 DEF OrderInv
    <3>3. ~CanGoOn(w)
      BY <1>2 DEF Register
    <3>4. QED
      BY <3>1, <3>2, <3>3 DEF CanGoOn, TypeOK, Serving
  <2>5. StragglersInv'
    <3>1. ASSUME NEW u \in Viewers, NEW w \in Earlier(u), viewer'[u] \in Serving
          PROVE  \/ viewer'[w] \in {"closing", "gone"}
                 \/ viewer'[w] = "receiving" /\ queue'[w] = <<>> /\ clients'[AddressOf[w]] # w
      <4>1. CASE u = v
        <5>1. \/ viewer[w] \in {"closing", "gone"}
              \/ viewer[w] = "receiving" /\ queue[w] = <<>>
          BY ONLY <2>4, <3>1, <4>1
        <5>2. w \in Viewers /\ w # v /\ AddressOf[w] = AddressOf[v]
          BY <4>1
        <5>3. clients'[AddressOf[w]] = v
          BY <2>2, <5>2
        <5>4. QED
          BY ONLY <2>2, <5>1, <5>2, <5>3
      <4>2. CASE u # v
        <5>1. viewer[u] \in Serving
          BY <2>2, <3>1, <4>2
        <5>2. \/ viewer[w] \in {"closing", "gone"}
              \/ viewer[w] = "receiving" /\ queue[w] = <<>> /\ clients[AddressOf[w]] # w
          BY <5>1 DEF StragglersInv, Registered
        <5>3. w # v /\ w \in Viewers
          BY <5>2
        <5>4. QED
          BY <2>2, <5>2, <5>3
      <4>3. QED
        BY <4>1, <4>2
    <3>2. QED
      BY <3>1 DEF StragglersInv, Registered
  <2>6. AddressInv'
    BY <2>2 DEF AddressInv
  <2>7. Told'
    BY <2>2 DEF Told
  <2>8. TableIsRight'
    <3>1. \A w \in Viewers \ {v} : AddressOf[w] = AddressOf[v] => viewer[w] \notin Serving \/ w \in lost
      BY DEF OrderInv, StragglersInv, Serving
    <3>2. \A w \in Viewers : viewer'[w] \in Serving /\ w \notin lost' => Registered(w)'
      BY <2>2, <3>1 DEF TableIsRight, Registered
    <3>3. \A w \in Viewers : (\E a \in Addresses : clients'[a] = w) => viewer'[w] \in Serving
      BY <2>2 DEF TableIsRight, Serving
    <3>4. QED
      BY <3>2, <3>3 DEF TableIsRight
  <2>9. QED
    BY <2>1, <2>3, <2>5, <2>6, <2>7, <2>8
<1>3. QED
  BY <1>1, <1>2 DEF TypeOK

(* A handler's step that leaves the table alone. *)
LEMMA PlainStepKeeps ==
    ASSUME IInv, NEW v \in Viewers, UNCHANGED <<upVars, clients, open, lost>>,
           NEW to, viewer' = [viewer EXCEPT ![v] = to],
           \/ viewer[v] = "none" /\ to = "auth" /\ UNCHANGED queue
              /\ \A w \in Earlier(v) : viewer[w] = "gone" \/ w \in lost
           \/ viewer[v] = "auth" /\ to = "waiting" /\ ~connected /\ UNCHANGED queue
           \/ viewer[v] \in {"auth", "waiting"} /\ to = "closing" /\ UNCHANGED queue
           \/ viewer[v] = "closing" /\ to = "gone" /\ UNCHANGED queue
           \/ viewer[v] = "writing" /\ to = "receiving" /\ open[v] /\ UNCHANGED queue
              /\ v \notin lost
           \/ viewer[v] = "receiving" /\ to = "writing" /\ queue[v] # <<>>
              /\ queue' = [queue EXCEPT ![v] = Tail(@)]
    PROVE  IInv'
<1> USE ViewersFacts DEF IInv, upVars
<1>1. /\ viewer'[v] = to
      /\ \A w \in Viewers \ {v} : viewer'[w] = viewer[w] /\ queue'[w] = queue[w]
      /\ to # "receiving" => viewer[v] = "receiving" \/ to \notin Serving
      /\ viewer[v] \in Serving <=> to \in Serving
  BY DEF TypeOK, Serving
<1>2. TypeOK'
  <2>1. queue' \in [Viewers -> Seq({Frame, End})] /\ Len(queue'[v]) <= QueueSize
    <3>1. queue[v] \in Seq({Frame, End}) /\ Len(queue[v]) <= QueueSize /\ Len(queue[v]) \in Nat
      BY DEF TypeOK
    <3>2. queue[v] # <<>> => /\ Tail(queue[v]) \in Seq({Frame, End})
                             /\ Len(Tail(queue[v])) = Len(queue[v]) - 1
      BY <3>1
    <3>3. CASE queue' = queue
      BY <3>1, <3>3 DEF TypeOK
    <3>4. CASE queue[v] # <<>> /\ queue' = [queue EXCEPT ![v] = Tail(@)]
      BY <3>1, <3>2, <3>4, ChamberAssumption DEF TypeOK
    <3>5. QED
      BY <3>3, <3>4
  <2>2. QED
    BY <1>1, <2>1 DEF TypeOK, Serving
<1>3. OrderInv'
  <2>1. \A u \in Viewers : viewer'[u] = "waiting" => ~connected'
    BY <1>1 DEF OrderInv
  <2>2. \A u \in lost' : viewer'[u] \notin {"none", "auth"}
    BY <1>1 DEF OrderInv, TypeOK
  <2>3. ASSUME NEW u \in Viewers, NEW w \in Earlier(u), viewer'[u] # "none"
        PROVE  viewer'[w] = "gone" \/ w \in lost
    BY <1>1, <2>3 DEF OrderInv
  <2>4. ASSUME NEW u \in Viewers, NEW w \in Earlier(u), viewer'[u] = "released"
        PROVE  viewer'[w] # "waiting"
    <3>1. viewer[u] = "released" /\ u # v
      BY <1>1, <2>4
    <3>2. viewer[w] # "waiting" /\ (viewer[w] = "gone" \/ w \in lost) /\ w \in Viewers
      BY <3>1 DEF OrderInv
    <3>3. viewer[w] # "auth"
      BY <3>2 DEF OrderInv
    <3>4. QED
      BY <1>1, <3>2, <3>3
  <2>5. QED
    BY <2>1, <2>2, <2>3, <2>4 DEF OrderInv
<1>4. StragglersInv'
  <2>1. ASSUME NEW u \in Viewers, NEW w \in Earlier(u), viewer'[u] \in Serving
        PROVE  \/ viewer'[w] \in {"closing", "gone"}
               \/ viewer'[w] = "receiving" /\ queue'[w] = <<>> /\ clients'[AddressOf[w]] # w
    <3>1. viewer[u] \in Serving /\ w \in Viewers
      BY <1>1, <2>1
    <3>2. \/ viewer[w] \in {"closing", "gone"}
          \/ viewer[w] = "receiving" /\ queue[w] = <<>> /\ clients[AddressOf[w]] # w
      BY <3>1 DEF StragglersInv, Registered
    <3>3. QED
      BY <1>1, <3>1, <3>2
  <2>2. QED
    BY <2>1 DEF StragglersInv, Registered
<1>5. AddressInv'
  BY DEF AddressInv
<1>6. Told'
  BY <1>1 DEF Told
<1>7. TableIsRight'
  BY <1>1 DEF TableIsRight, Registered
<1>8. QED
  BY <1>2, <1>3, <1>4, <1>5, <1>6, <1>7

LEMMA VanishKeeps ==
    ASSUME IInv, NEW v \in Viewers, Vanish(v)
    PROVE  IInv'
BY ViewersFacts
   DEF Vanish, upVars, IInv, TypeOK, OrderInv, StragglersInv, AddressInv, Told, TableIsRight,
       Registered, Serving

LEMMA HandlerKeeps ==
    ASSUME IInv, NEW v \in Viewers, Accept(v) \/ HandlerStep(v) \/ Vanish(v)
    PROVE  IInv'
<1>1. CASE Accept(v)
  BY <1>1, PlainStepKeeps DEF Accept
<1>2. CASE Authenticated(v)
  <2>1. CASE connected
    BY <1>2, <2>1, RegisterKeeps DEF Authenticated
  <2>2. CASE ~connected
    BY <1>2, <2>2, PlainStepKeeps DEF Authenticated
  <2>3. QED
    BY <2>1, <2>2
<1>3. CASE Released(v)
  BY <1>3, RegisterKeeps DEF Released
<1>4. CASE Refused(v) \/ Closed(v)
  BY <1>4, PlainStepKeeps DEF Refused, Closed
<1>5. CASE Receive(v)
  <2>1. CASE Head(queue[v]) = End
    BY <1>5, <2>1, LeaveKeeps DEF Receive
  <2>2. CASE Head(queue[v]) # End
    BY <1>5, <2>2, PlainStepKeeps DEF Receive
  <2>3. QED
    BY <2>1, <2>2
<1>6. CASE Written(v)
  <2>1. CASE running /\ open[v]
    BY <1>6, <2>1, PlainStepKeeps DEF Written
  <2>2. CASE ~(running /\ open[v])
    BY <1>6, <2>2, LeaveKeeps DEF Written
  <2>3. QED
    BY <2>1, <2>2
<1>7. CASE WriteFails(v)
  BY <1>7, LeaveKeeps DEF WriteFails
<1>8. QED
  BY <1>1, <1>2, <1>3, <1>4, <1>5, <1>6, <1>7, VanishKeeps DEF HandlerStep

-----------------------------------------------------------------------------
(* Theorems *)

LEMMA Inductive == Spec => []IInv
<1>1. IInv /\ [Next]_vars => IInv'
  <2>1. ASSUME IInv, UNCHANGED vars PROVE IInv'
    BY <2>1 DEF vars, upVars, viewerVars, IInv, TypeOK, OrderInv, StragglersInv, AddressInv, Told,
                TableIsRight, Registered
  <2>2. QED
    BY <2>1, UpstreamKeeps, HandlerKeeps DEF Next
<1>2. QED
  BY <1>1, Initially, PTL DEF Spec

(* Every variable keeps to its type, and no queue outgrows its bound. *)
THEOREM TypeCorrect == Spec => []TypeOK
<1>1. IInv => TypeOK
  BY DEF IInv
<1>2. QED
  BY <1>1, Inductive, PTL

(* Nobody who was told to leave waits on an empty queue. *)
THEOREM EveryoneIsTold == Spec => []Told
<1>1. IInv => Told
  BY DEF IInv
<1>2. QED
  BY <1>1, Inductive, PTL

(* The table is that of the viewers who are there, whatever addresses come *)
(* again and in whatever order handlers are torn down.                     *)
THEOREM TableStaysRight == Spec => []TableIsRight
<1>1. IInv => TableIsRight
  BY DEF IInv
<1>2. QED
  BY <1>1, Inductive, PTL
=============================================================================
