------------------------- MODULE ReportFanoutProofs -------------------------
(***************************************************************************)
(* What the report fan-out promises its clients, for any number of them,   *)
(* any queue bound and any number of reports.                              *)
(*                                                                         *)
(* What a client will have seen is its view followed by its queue.  The    *)
(* inductive invariant FInv says, of every registered client, that this    *)
(* stream is fit to be shown (Fit), never goes back (Ordered), skips no    *)
(* report once the client was given the state (Unbroken), and that such a  *)
(* client lacks at most the report whose broadcast has yet to reach it     *)
(* (CaughtUp).  None of the six properties is inductive: each looks at the *)
(* socket only, or at a client between two broadcasts.                     *)
(***************************************************************************)
EXTENDS ReportFanout, TLAPS

-----------------------------------------------------------------------------
(* A stream: the queue q behind the view v *)

(* Nothing in it is more recent than the report n, and nothing in it may   *)
(* not be shown.                                                           *)
Fit(q, v, n) ==
    /\ v.n <= n
    /\ \A i \in DOMAIN q :
          /\ q[i].n <= n
          /\ q[i].addr # "printer"
          /\ q[i].kind = "snapshot" => q[i].whole

Ordered(q, v) ==
    /\ \A i \in DOMAIN q : q[i].n = 0 \/ q[i].n >= v.n
    /\ \A i, j \in DOMAIN q : i < j => q[j].n = 0 \/ q[j].n >= q[i].n

(* A snapshot is in the view or among the entries of I. *)
ToldIn(q, v, I) == v.replayed \/ \E i \in I : q[i].kind = "snapshot"

(* Report n is in the view or among the entries of I, or a later one is. *)
Reaches(q, v, I, n) == v.n >= n \/ \E i \in I : q[i].n >= n

Unbroken(q, v) ==
    \A i \in DOMAIN q :
        ToldIn(q, v, 1..(i-1)) => Reaches(q, v, 1..(i-1), q[i].n - 1)

(* A stream with a snapshot reaches report n, or the one before it while   *)
(* the broadcast of n is on its way to it.                                 *)
CaughtUp(q, v, n, awaited) ==
    ToldIn(q, v, DOMAIN q) =>
        \/ Reaches(q, v, DOMAIN q, n)
        \/ awaited /\ Reaches(q, v, DOMAIN q, n - 1)

-----------------------------------------------------------------------------
(* The invariant *)

CacheIsRight ==
    /\ primed => complete /\ cached = version
    /\ cached <= version
    /\ bcast.n \in {0, version}

Registered == \A c \in Clients : c \in reg <=> conn[c] = "live"

Clean == NeverPartial /\ NeverExposed

Served(c) ==
    /\ Fit(queue[c], view[c], version)
    /\ Ordered(queue[c], view[c])
    /\ Unbroken(queue[c], view[c])
    /\ snap[c] = "replayed" => ToldIn(queue[c], view[c], DOMAIN queue[c])
    /\ CaughtUp(queue[c], view[c], version, c \in bcast.todo /\ bcast.n = version)

FInv == CacheIsRight /\ Registered /\ Clean /\ \A c \in reg : Served(c)

-----------------------------------------------------------------------------
(* Streams and the operations on them *)

(* An entry that is the most recent one, or has no number, joins a stream  *)
(* that reached the report before it.                                      *)
LEMMA Joins ==
    ASSUME NEW q \in Seq(Items), NEW v \in Views, NEW x \in Items,
           NEW n \in Nat, NEW m \in Nat, n <= m,
           Fit(q, v, n), Ordered(q, v), Unbroken(q, v),
           x.n = 0 \/ x.n = m,
           x.addr # "printer", x.kind = "snapshot" => x.whole,
           ToldIn(q, v, DOMAIN q) => Reaches(q, v, DOMAIN q, x.n - 1)
    PROVE  /\ Fit(Append(q, x), v, m)
           /\ Ordered(Append(q, x), v)
           /\ Unbroken(Append(q, x), v)
<1> DEFINE r == Append(q, x)
           l == Len(q)
<1>1. /\ l \in Nat /\ DOMAIN q = 1..l /\ DOMAIN r = 1..(l+1)
      /\ \A i \in 1..l : r[i] = q[i]
      /\ r[l+1] = x
  OBVIOUS
<1>2. /\ v.n \in Nat /\ x.n \in Nat /\ \A i \in 1..l : q[i].n \in Nat
  <2>1. \A i \in 1..l : q[i] \in Items
    BY <1>1
  <2> QED
    BY <2>1 DEF Items, Views
<1> HIDE DEF r, l
<1>3. Fit(r, v, m)
  BY <1>1, <1>2 DEF Fit
<1>4. Ordered(r, v)
  <2>1. ASSUME NEW i \in 1..(l+1)
        PROVE  r[i].n = 0 \/ r[i].n >= v.n
    <3>1. CASE i = l + 1
      <4>1. r[i].n = 0 \/ r[i].n = m
        BY <3>1, <1>1
      <4>2. v.n <= m
        BY <1>2 DEF Fit
      <4> QED
        BY <4>1, <4>2, <1>2
    <3>2. CASE i # l + 1
      <4>1. i \in DOMAIN q /\ r[i] = q[i]
        BY <3>2, <1>1
      <4> QED
        BY <4>1 DEF Ordered
    <3> QED
      BY <3>1, <3>2
  <2>2. ASSUME NEW i \in 1..(l+1), NEW j \in 1..(l+1), i < j
        PROVE  r[j].n = 0 \/ r[j].n >= r[i].n
    <3>1. i \in 1..l /\ r[i] = q[i]
      BY <2>2, <1>1
    <3>2. CASE j = l + 1
      <4>1. r[j].n = 0 \/ r[j].n = m
        BY <3>2, <1>1
      <4>2. r[i].n <= m
        BY <3>1, <1>1, <1>2 DEF Fit
      <4> QED
        BY <4>1, <4>2, <3>1, <1>2
    <3>3. CASE j # l + 1
      <4>1. j \in 1..l /\ r[j] = q[j]
        BY <3>3, <1>1
      <4> QED
        BY <4>1, <3>1, <2>2, <1>1 DEF Ordered
    <3> QED
      BY <3>2, <3>3
  <2> QED
    BY <2>1, <2>2, <1>1 DEF Ordered
<1>5. Unbroken(r, v)
  <2> SUFFICES ASSUME NEW i \in 1..(l+1), ToldIn(r, v, 1..(i-1))
               PROVE  Reaches(r, v, 1..(i-1), r[i].n - 1)
    BY <1>1 DEF Unbroken
  <2>1. \A j \in 1..(i-1) : j \in 1..l /\ r[j] = q[j]
    BY <1>1
  <2>2. ToldIn(q, v, 1..(i-1))
    BY <2>1 DEF ToldIn
  <2>3. Reaches(q, v, 1..(i-1), r[i].n - 1)
    <3>1. CASE i = l + 1
      <4>1. 1..(i-1) = DOMAIN q /\ r[i] = x
        BY <3>1, <1>1
      <4> QED
        BY <4>1, <2>2
    <3>2. CASE i # l + 1
      <4>1. i \in DOMAIN q /\ r[i] = q[i]
        BY <3>2, <1>1
      <4> QED
        BY <4>1, <2>2 DEF Unbroken
    <3> QED
      BY <3>1, <3>2
  <2> QED
    BY <2>1, <2>3 DEF Reaches
<1> QED
  BY <1>3, <1>4, <1>5 DEF r

(* What a stream reaches once an entry has joined it. *)
LEMMA JoinReaches ==
    ASSUME NEW q \in Seq(Items), NEW v \in Views, NEW x \in Items, NEW k \in Int
    PROVE  LET r == Append(q, x) IN
           /\ ToldIn(r, v, DOMAIN r) <=>
                 ToldIn(q, v, DOMAIN q) \/ x.kind = "snapshot"
           /\ Reaches(r, v, DOMAIN r, k) <=>
                 Reaches(q, v, DOMAIN q, k) \/ x.n >= k
<1> DEFINE r == Append(q, x)
           l == Len(q)
<1>1. /\ l \in Nat /\ DOMAIN q = 1..l /\ DOMAIN r = 1..(l+1)
      /\ \A i \in 1..l : r[i] = q[i]
      /\ r[l+1] = x
  OBVIOUS
<1> HIDE DEF r, l
<1>2. ToldIn(r, v, DOMAIN r) <=> ToldIn(q, v, DOMAIN q) \/ x.kind = "snapshot"
  BY <1>1 DEF ToldIn
<1>3. Reaches(r, v, DOMAIN r, k) <=> Reaches(q, v, DOMAIN q, k) \/ x.n >= k
  BY <1>1 DEF Reaches
<1> QED
  BY <1>2, <1>3 DEF r

(* The view once the send loop has written an entry. *)
Seen(v, item) ==
    [n |-> IF item.n = 0 THEN v.n ELSE item.n,
     replayed |-> v.replayed \/ item.kind = "snapshot",
     partial |-> v.partial \/ (item.kind = "snapshot" /\ ~item.whole),
     exposed |-> v.exposed \/ item.addr = "printer"]

(* The head of a stream moves from the queue to the view: the stream stays *)
(* as it was, and the view moves forward by one report at most.            *)
LEMMA Moves ==
    ASSUME NEW q \in Seq(Items), q # <<>>, NEW v \in Views, NEW n \in Nat,
           Fit(q, v, n), Ordered(q, v), Unbroken(q, v)
    PROVE  LET w == Seen(v, Head(q)) IN
           /\ Fit(Tail(q), w, n)
           /\ Ordered(Tail(q), w)
           /\ Unbroken(Tail(q), w)
           /\ w.n >= v.n
           /\ v.replayed => w.n <= v.n + 1
           /\ w.partial => v.partial
           /\ w.exposed => v.exposed
<1> DEFINE w == Seen(v, Head(q))
           r == Tail(q)
           h == Head(q)
           l == Len(q)
<1>1. /\ l \in Nat \ {0} /\ DOMAIN q = 1..l /\ DOMAIN r = 1..(l-1)
      /\ \A i \in 1..(l-1) : i + 1 \in 1..l /\ r[i] = q[i+1]
      /\ 1 \in 1..l /\ h = q[1]
  OBVIOUS
<1>2. /\ v.n \in Nat /\ h \in Items /\ h.n \in Nat /\ \A i \in 1..l : q[i].n \in Nat
  <2>1. h \in Items /\ \A i \in 1..l : q[i] \in Items
    BY <1>1
  <2> QED
    BY <2>1 DEF Items, Views
<1>3. /\ w.n = IF h.n = 0 THEN v.n ELSE h.n
      /\ w.replayed <=> v.replayed \/ h.kind = "snapshot"
      /\ w.partial <=> v.partial \/ (h.kind = "snapshot" /\ ~h.whole)
      /\ w.exposed <=> v.exposed \/ h.addr = "printer"
  BY DEF Seen
<1> HIDE DEF w, r, h, l
<1>4. Fit(r, w, n)
  BY <1>1, <1>2, <1>3 DEF Fit
<1>5. (w.partial => v.partial) /\ (w.exposed => v.exposed)
  BY <1>1, <1>3 DEF Fit
<1>6. w.n >= v.n
  <2>1. h.n = 0 \/ h.n >= v.n
    BY <1>1 DEF Ordered
  <2> QED
    BY <2>1, <1>2, <1>3
<1>7. ASSUME v.replayed PROVE w.n <= v.n + 1
  <2>1. Reaches(q, v, 1..0, h.n - 1)
    BY <1>1, <1>7 DEF Unbroken, ToldIn
  <2> QED
    BY <2>1, <1>2, <1>3 DEF Reaches
<1>8. Ordered(r, w)
  <2>1. ASSUME NEW i \in 1..(l-1)
        PROVE  r[i].n = 0 \/ r[i].n >= w.n
    <3>1. i + 1 \in 1..l /\ 1 < i + 1 /\ r[i] = q[i+1]
      BY <1>1
    <3>2. q[i+1].n = 0 \/ q[i+1].n >= v.n
      BY <3>1, <1>1 DEF Ordered
    <3>3. q[i+1].n = 0 \/ q[i+1].n >= h.n
      BY <3>1, <1>1 DEF Ordered
    <3> QED
      BY <3>1, <3>2, <3>3, <1>3
  <2>2. ASSUME NEW i \in 1..(l-1), NEW j \in 1..(l-1), i < j
        PROVE  r[j].n = 0 \/ r[j].n >= r[i].n
    <3>1. i + 1 \in 1..l /\ j + 1 \in 1..l /\ i + 1 < j + 1
      BY <1>1, <2>2
    <3>2. q[j+1].n = 0 \/ q[j+1].n >= q[i+1].n
      BY <3>1, <1>1 DEF Ordered
    <3> QED
      BY <3>2, <1>1
  <2> QED
    BY <2>1, <2>2, <1>1 DEF Ordered
<1>9. Unbroken(r, w)
  <2> SUFFICES ASSUME NEW i \in 1..(l-1), ToldIn(r, w, 1..(i-1))
               PROVE  Reaches(r, w, 1..(i-1), r[i].n - 1)
    BY <1>1 DEF Unbroken
  <2>1. ToldIn(q, v, 1..i)
    BY <1>1, <1>3 DEF ToldIn
  <2>2. Reaches(q, v, 1..i, q[i+1].n - 1)
    BY <2>1, <1>1 DEF Unbroken
  <2>3. CASE v.n >= q[i+1].n - 1
    BY <2>3, <1>1, <1>2, <1>3, <1>6 DEF Reaches
  <2>4. CASE \E j \in 1..i : q[j].n >= q[i+1].n - 1
    <3>1. PICK j \in 1..i : q[j].n >= q[i+1].n - 1
      BY <2>4
    <3>2. CASE j = 1
      BY <3>1, <3>2, <1>1, <1>2, <1>3, <1>6 DEF Reaches
    <3>3. CASE j # 1
      <4>1. j - 1 \in 1..(i-1) /\ r[j-1] = q[j]
        BY <3>3, <1>1
      <4> QED
        BY <4>1, <3>1, <1>1 DEF Reaches
    <3> QED
      BY <3>2, <3>3
  <2> QED
    BY <2>2, <2>3, <2>4 DEF Reaches
<1> QED
  BY <1>4, <1>5, <1>6, <1>7, <1>8, <1>9 DEF w, r, h

(* ... and it reaches what it reached. *)
LEMMA MoveReaches ==
    ASSUME NEW q \in Seq(Items), q # <<>>, NEW v \in Views, NEW k \in Int,
           Ordered(q, v)
    PROVE  LET w == Seen(v, Head(q)) IN
           /\ ToldIn(Tail(q), w, DOMAIN Tail(q)) <=> ToldIn(q, v, DOMAIN q)
           /\ Reaches(q, v, DOMAIN q, k) => Reaches(Tail(q), w, DOMAIN Tail(q), k)
<1> DEFINE w == Seen(v, Head(q))
           r == Tail(q)
           h == Head(q)
           l == Len(q)
<1>1. /\ l \in Nat \ {0} /\ DOMAIN q = 1..l /\ DOMAIN r = 1..(l-1)
      /\ \A i \in 1..(l-1) : i + 1 \in 1..l /\ r[i] = q[i+1]
      /\ 1 \in 1..l /\ h = q[1]
  OBVIOUS
<1>2. /\ v.n \in Nat /\ h.n \in Nat
  <2>1. h \in Items
    BY <1>1
  <2> QED
    BY <2>1 DEF Items, Views
<1>3. /\ w.n = IF h.n = 0 THEN v.n ELSE h.n
      /\ w.replayed <=> v.replayed \/ h.kind = "snapshot"
  BY DEF Seen
<1> HIDE DEF w, r, h, l
<1>4. ToldIn(r, w, DOMAIN r) <=> ToldIn(q, v, DOMAIN q)
  <2>1. ToldIn(r, w, DOMAIN r) => ToldIn(q, v, DOMAIN q)
    BY <1>1, <1>3 DEF ToldIn
  <2>2. ASSUME NEW i \in 1..l, q[i].kind = "snapshot"
        PROVE  w.replayed \/ \E j \in 1..(l-1) : r[j].kind = "snapshot"
    <3>1. CASE i = 1
      BY <2>2, <3>1, <1>1, <1>3
    <3>2. CASE i # 1
      <4>1. i - 1 \in 1..(l-1) /\ r[i-1] = q[i]
        BY <3>2, <1>1
      <4> QED
        BY <4>1, <2>2
    <3> QED
      BY <3>1, <3>2
  <2> QED
    BY <2>1, <2>2, <1>1, <1>3 DEF ToldIn
<1>5. ASSUME Reaches(q, v, DOMAIN q, k) PROVE Reaches(r, w, DOMAIN r, k)
  <2>1. w.n >= v.n /\ w.n >= h.n
    BY <1>1, <1>2, <1>3 DEF Ordered
  <2>2. w.n \in Nat
    BY <1>2, <1>3
  <2>3. CASE v.n >= k
    BY <2>1, <2>2, <2>3, <1>2 DEF Reaches
  <2>4. CASE \E i \in 1..l : q[i].n >= k
    <3>1. PICK i \in 1..l : q[i].n >= k
      BY <2>4
    <3>2. CASE i = 1
      BY <3>1, <3>2, <2>1, <2>2, <1>1, <1>2 DEF Reaches
    <3>3. CASE i # 1
      <4>1. i - 1 \in 1..(l-1) /\ r[i-1] = q[i]
        BY <3>3, <1>1
      <4> QED
        BY <4>1, <3>1, <1>1 DEF Reaches
    <3> QED
      BY <3>2, <3>3
  <2> QED
    BY <2>3, <2>4, <1>5, <1>1 DEF Reaches
<1> QED
  BY <1>4, <1>5 DEF w, r
-----------------------------------------------------------------------------
(* What one stretch of a broadcast does *)

(* Every client that stays registered either has the report put behind its *)
(* queue, or was no target, or is left for the rest of the broadcast.      *)
Delivered(todo, n, net) ==
    /\ reg' \subseteq reg
    /\ bcast'.n \in {0, n}
    /\ \A c \in reg' :
          \/ /\ c \in todo
             /\ queue'[c] = Append(queue[c], ReportFor(c, n, net))
          \/ c \notin todo /\ queue'[c] = queue[c]
          \/ c \in bcast'.todo /\ bcast'.n = n /\ queue'[c] = queue[c]

LEMMA ReportIsItem ==
    ASSUME NEW c \in Clients, NEW n \in 0..MaxReports, NEW net \in BOOLEAN
    PROVE  ReportFor(c, n, net) \in Items
BY DEF ReportFor, ReportedAddress, Items

(* Putting a well-typed report behind queues that are not full. *)
LEMMA EnqueueType ==
    ASSUME TypeOK, NEW S \in SUBSET Clients, \A c \in S : ~Full(c),
           NEW n \in 0..MaxReports, NEW net \in BOOLEAN,
           Enqueue(S, [c \in Clients |-> ReportFor(c, n, net)])
    PROVE  /\ queue' \in [Clients -> Seq(Items)]
           /\ \A c \in Clients : Len(queue'[c]) <= QueueSize
<1>1. \A c \in Clients :
         queue'[c] = IF c \in S THEN Append(queue[c], ReportFor(c, n, net)) ELSE queue[c]
  BY DEF Enqueue
<1>2. DOMAIN queue' = Clients /\ queue' = [c \in Clients |-> queue'[c]]
  BY DEF Enqueue
<1>3. ASSUME NEW c \in Clients
      PROVE  queue'[c] \in Seq(Items) /\ Len(queue'[c]) <= QueueSize
  <2>1. queue[c] \in Seq(Items) /\ Len(queue[c]) <= QueueSize /\ Len(queue[c]) \in Nat
    BY DEF TypeOK
  <2>2. ReportFor(c, n, net) \in Items
    BY ReportIsItem
  <2>3. CASE c \in S
    <3>1. Len(queue[c]) < QueueSize
      BY <2>1, <2>3, QueueSizeAssumption DEF Full
    <3>2. queue'[c] = Append(queue[c], ReportFor(c, n, net))
      BY <1>1, <2>3
    <3> HIDE DEF ReportFor
    <3> QED
      BY <2>1, <2>2, <3>1, <3>2, QueueSizeAssumption
  <2>4. CASE c \notin S
    BY <2>1, <2>4, <1>1
  <2> QED
    BY <2>3, <2>4
<1> QED
  BY <1>2, <1>3

LEMMA DeliverType ==
    ASSUME TypeOK, NEW todo \in SUBSET Clients,
           NEW n \in 0..MaxReports, NEW net \in BOOLEAN,
           DeliverTo(todo, n, net)
    PROVE  /\ bcast' \in Broadcasts
           /\ reg' \subseteq Clients
           /\ conn' \in [Clients -> {"off", "live", "closing"}]
           /\ queue' \in [Clients -> Seq(Items)]
           /\ \A c \in Clients : Len(queue'[c]) <= QueueSize
<1> DEFINE item == [c \in Clients |-> ReportFor(c, n, net)]
           slow == {c \in todo : Full(c) /\ c \in reg}
<1> HIDE DEF item
<1>1. CASE /\ Enqueue({c \in todo : ~Full(c)}, item)
           /\ bcast' = Idle
           /\ UNCHANGED <<reg, conn>>
  <2>1. Idle \in Broadcasts
    BY MaxReportsAssumption DEF Idle, Broadcasts
  <2>2. /\ queue' \in [Clients -> Seq(Items)]
        /\ \A c \in Clients : Len(queue'[c]) <= QueueSize
    BY <1>1, EnqueueType DEF item
  <2> QED
    BY <2>1, <2>2, <1>1 DEF TypeOK
<1>2. CASE \E c \in slow : \E S \in SUBSET (todo \ slow) :
              /\ Enqueue({d \in S : ~Full(d)}, item)
              /\ HangUp({c})
              /\ bcast' = [n |-> n, net |-> net, todo |-> todo \ (S \cup {c}), closing |-> c]
  <2>1. PICK c \in slow : \E S \in SUBSET (todo \ slow) :
              /\ Enqueue({d \in S : ~Full(d)}, item)
              /\ HangUp({c})
              /\ bcast' = [n |-> n, net |-> net, todo |-> todo \ (S \cup {c}), closing |-> c]
    BY <1>2
  <2>2. PICK S \in SUBSET (todo \ slow) :
              /\ Enqueue({d \in S : ~Full(d)}, item)
              /\ HangUp({c})
              /\ bcast' = [n |-> n, net |-> net, todo |-> todo \ (S \cup {c}), closing |-> c]
    BY <2>1
  <2>3. bcast' \in Broadcasts
    BY <2>2 DEF Broadcasts
  <2>4. reg' \subseteq Clients /\ conn' \in [Clients -> {"off", "live", "closing"}]
    BY <2>2 DEF HangUp, TypeOK
  <2>5. /\ queue' \in [Clients -> Seq(Items)]
        /\ \A d \in Clients : Len(queue'[d]) <= QueueSize
    BY <2>2, EnqueueType DEF item
  <2> QED
    BY <2>3, <2>4, <2>5
<1> QED
  BY <1>1, <1>2 DEF DeliverTo, item

LEMMA DeliverDelivers ==
    ASSUME TypeOK, NEW todo \in SUBSET Clients, NEW n, NEW net,
           DeliverTo(todo, n, net)
    PROVE  Delivered(todo, n, net)
<1> DEFINE item == [c \in Clients |-> ReportFor(c, n, net)]
           slow == {c \in todo : Full(c) /\ c \in reg}
<1>0. reg \subseteq Clients
  BY DEF TypeOK
<1>1. CASE /\ slow = {}
           /\ Enqueue({c \in todo : ~Full(c)}, item)
           /\ bcast' = Idle
           /\ UNCHANGED <<reg, conn>>
  <2>1. ASSUME NEW c \in reg'
        PROVE  queue'[c] = IF c \in todo THEN Append(queue[c], ReportFor(c, n, net))
                                         ELSE queue[c]
    <3>1. c \in Clients /\ (c \in todo => ~Full(c))
      BY <1>0, <1>1
    <3> QED
      BY <3>1, <1>1 DEF Enqueue
  <2>2. bcast'.n = 0 /\ reg' = reg
    BY <1>1 DEF Idle
  <2> QED
    BY <2>1, <2>2 DEF Delivered
<1>2. CASE \E c \in slow : \E S \in SUBSET (todo \ slow) :
              /\ Enqueue({d \in S : ~Full(d)}, item)
              /\ HangUp({c})
              /\ bcast' = [n |-> n, net |-> net, todo |-> todo \ (S \cup {c}), closing |-> c]
  <2>1. PICK c \in slow : \E S \in SUBSET (todo \ slow) :
              /\ Enqueue({d \in S : ~Full(d)}, item)
              /\ HangUp({c})
              /\ bcast' = [n |-> n, net |-> net, todo |-> todo \ (S \cup {c}), closing |-> c]
    BY <1>2
  <2>2. PICK S \in SUBSET (todo \ slow) :
              /\ Enqueue({d \in S : ~Full(d)}, item)
              /\ HangUp({c})
              /\ bcast' = [n |-> n, net |-> net, todo |-> todo \ (S \cup {c}), closing |-> c]
    BY <2>1
  <2>3. reg' = reg \ {c} /\ bcast'.n = n /\ bcast'.todo = todo \ (S \cup {c})
    BY <2>2 DEF HangUp
  <2>4. ASSUME NEW d \in reg'
        PROVE  IF d \in S THEN queue'[d] = Append(queue[d], ReportFor(d, n, net))
                          ELSE queue'[d] = queue[d]
    <3>1. d \in Clients /\ (d \in S => ~Full(d))
      BY <1>0, <2>2, <2>3
    <3> QED
      BY <3>1, <2>2 DEF Enqueue
  <2> QED
    BY <2>3, <2>4 DEF Delivered
<1> QED
  BY <1>1, <1>2 DEF DeliverTo
-----------------------------------------------------------------------------
(* Type correctness *)

LEMMA InitType == Init => TypeOK
<1> SUFFICES ASSUME Init PROVE TypeOK
  OBVIOUS
<1>1. 0 \in 0..MaxReports
  BY MaxReportsAssumption
<1>2. bcast \in Broadcasts
  BY <1>1 DEF Init, Idle, Broadcasts
<1>3. view \in [Clients -> Views]
  BY <1>1 DEF Init, NoView, Views
<1>4. queue \in [Clients -> Seq(Items)] /\ \A c \in Clients : Len(queue[c]) <= QueueSize
  BY QueueSizeAssumption DEF Init
<1> QED
  BY <1>1, <1>2, <1>3, <1>4 DEF Init, TypeOK

LEMMA ReportType ==
    ASSUME TypeOK, NEW merged \in BOOLEAN, NEW full \in BOOLEAN, NEW net \in BOOLEAN,
           Report(merged, full, net)
    PROVE  TypeOK'
<1> DEFINE n == IF merged THEN version + 1 ELSE 0
<1>1. n \in 0..MaxReports
  BY MaxReportsAssumption DEF TypeOK, Report
<1>2. reg \in SUBSET Clients /\ DeliverTo(reg, n, net)
  BY DEF TypeOK, Report
<1> HIDE DEF n
<1>3. /\ bcast' \in Broadcasts
      /\ reg' \subseteq Clients
      /\ conn' \in [Clients -> {"off", "live", "closing"}]
      /\ queue' \in [Clients -> Seq(Items)]
      /\ \A c \in Clients : Len(queue'[c]) <= QueueSize
  BY <1>1, <1>2, DeliverType
<1>4. /\ version' \in 0..MaxReports /\ cached' \in 0..MaxReports
      /\ up' \in BOOLEAN /\ complete' \in BOOLEAN /\ primed' \in BOOLEAN
  BY <1>1 DEF n, TypeOK, Report, Merge
<1>5. UNCHANGED <<snap, view>>
  BY DEF Report
<1> QED
  BY <1>3, <1>4, <1>5 DEF TypeOK

LEMMA BroadcastResumesType ==
    ASSUME TypeOK, BroadcastResumes
    PROVE  TypeOK'
<1>1. /\ bcast.todo \in SUBSET Clients /\ bcast.n \in 0..MaxReports
      /\ bcast.net \in BOOLEAN
      /\ DeliverTo(bcast.todo, bcast.n, bcast.net)
  BY DEF TypeOK, Broadcasts, BroadcastResumes
<1>2. /\ bcast' \in Broadcasts
      /\ reg' \subseteq Clients
      /\ conn' \in [Clients -> {"off", "live", "closing"}]
      /\ queue' \in [Clients -> Seq(Items)]
      /\ \A c \in Clients : Len(queue'[c]) <= QueueSize
  BY <1>1, DeliverType
<1>3. UNCHANGED <<up, version, cached, complete, primed, snap, view>>
  BY DEF BroadcastResumes, Upstream
<1> QED
  BY <1>2, <1>3 DEF TypeOK

LEMMA SnapshotIsItem ==
    ASSUME TypeOK
    PROVE  Snapshot \in Items
BY DEF TypeOK, Snapshot, Items

LEMMA ReplayType ==
    ASSUME TypeOK, NEW c \in Clients, Replay(c)
    PROVE  TypeOK'
<1>1. snap' \in [Clients -> {"none", "waiting", "replayed"}]
  BY DEF TypeOK, Replay
<1>2. reg' \subseteq Clients /\ conn' \in [Clients -> {"off", "live", "closing"}]
  BY DEF TypeOK, Replay, HangUp
<1>3. /\ queue' \in [Clients -> Seq(Items)]
      /\ \A d \in Clients : Len(queue'[d]) <= QueueSize
  <2>1. CASE ~Full(c) /\ queue' = [queue EXCEPT ![c] = Append(@, Snapshot)]
    <3>1. Snapshot \in Items
      BY SnapshotIsItem
    <3>2. queue[c] \in Seq(Items) /\ Len(queue[c]) \in Nat /\ Len(queue[c]) < QueueSize
      BY <2>1, QueueSizeAssumption DEF TypeOK, Full
    <3>3. Append(queue[c], Snapshot) \in Seq(Items)
          /\ Len(Append(queue[c], Snapshot)) <= QueueSize
      BY <3>1, <3>2, QueueSizeAssumption
    <3> QED
      BY <2>1, <3>3 DEF TypeOK
  <2>2. CASE queue' = queue
    BY <2>2 DEF TypeOK
  <2> QED
    BY <2>1, <2>2 DEF Replay
<1>4. UNCHANGED <<up, version, cached, complete, primed, bcast, view>>
  BY DEF Replay, Upstream
<1> QED
  BY <1>1, <1>2, <1>3, <1>4 DEF TypeOK

(* What the send loop writes becomes the client's view. *)
LEMMA SendSees ==
    ASSUME TypeOK, NEW c \in Clients, Send(c)
    PROVE  /\ queue[c] \in Seq(Items) /\ queue[c] # <<>>
           /\ view[c] \in Views /\ Seen(view[c], Head(queue[c])) \in Views
           /\ queue' = [queue EXCEPT ![c] = Tail(queue[c])]
           /\ view' = IF conn[c] = "closing" THEN view
                      ELSE [view EXCEPT ![c] = Seen(view[c], Head(queue[c]))]
<1>1. queue[c] \in Seq(Items) /\ queue[c] # <<>> /\ view[c] \in Views
  BY DEF TypeOK, Send
<1>2. Head(queue[c]) \in Items
  BY <1>1
<1>3. Seen(view[c], Head(queue[c])) \in Views
  BY <1>1, <1>2 DEF Seen, Views, Items
<1>4. view' = IF conn[c] = "closing" THEN view
              ELSE [view EXCEPT ![c] = Seen(view[c], Head(queue[c]))]
  BY DEF Send, Seen
<1> QED
  BY <1>1, <1>3, <1>4 DEF Send

LEMMA SendType ==
    ASSUME TypeOK, NEW c \in Clients, Send(c)
    PROVE  TypeOK'
<1>1. view' \in [Clients -> Views]
  BY SendSees DEF TypeOK
<1>2. /\ queue' \in [Clients -> Seq(Items)]
      /\ \A d \in Clients : Len(queue'[d]) <= QueueSize
  <2>1. /\ Tail(queue[c]) \in Seq(Items)
        /\ Len(Tail(queue[c])) \in Nat /\ Len(Tail(queue[c])) <= Len(queue[c])
    BY SendSees
  <2>2. Len(Tail(queue[c])) <= QueueSize
    BY <2>1, QueueSizeAssumption, SendSees DEF TypeOK
  <2>3. queue' = [queue EXCEPT ![c] = Tail(queue[c])]
    BY SendSees
  <2> QED
    BY <2>1, <2>2, <2>3 DEF TypeOK
<1>3. UNCHANGED <<up, version, cached, complete, primed, bcast, reg, conn, snap>>
  BY DEF Send, Upstream
<1> QED
  BY <1>1, <1>2, <1>3 DEF TypeOK

(* A client's connection begins or ends with an empty queue and no view. *)
LEMMA FreshType ==
    ASSUME TypeOK, NEW c \in Clients,
           queue' = [queue EXCEPT ![c] = <<>>], view' = [view EXCEPT ![c] = NoView]
    PROVE  /\ queue' \in [Clients -> Seq(Items)]
           /\ \A d \in Clients : Len(queue'[d]) <= QueueSize
           /\ view' \in [Clients -> Views]
<1>1. NoView \in Views
  BY MaxReportsAssumption DEF NoView, Views
<1>2. <<>> \in Seq(Items) /\ Len(<<>>) <= QueueSize
  BY QueueSizeAssumption
<1> QED
  BY <1>1, <1>2 DEF TypeOK

LEMMA NextType == TypeOK /\ [Next]_vars => TypeOK'
<1> SUFFICES ASSUME TypeOK, [Next]_vars
             PROVE  TypeOK'
  OBVIOUS
<1>1. CASE UpstreamConnect
  BY <1>1 DEF TypeOK, UpstreamConnect
<1>2. CASE UpstreamLost
  <2>1. cached' \in 0..MaxReports
    BY <1>2, MaxReportsAssumption DEF UpstreamLost, ClearCache
  <2> QED
    BY <2>1, <1>2 DEF TypeOK, UpstreamLost, ClearCache
<1>3. CASE \E merged, full, net \in BOOLEAN : Report(merged, full, net)
  BY <1>3, ReportType
<1>4. CASE BroadcastResumes
  BY <1>4, BroadcastResumesType
<1>5. ASSUME NEW c \in Clients, Register(c)
      PROVE  TypeOK'
  <2>1. /\ queue' \in [Clients -> Seq(Items)]
        /\ \A d \in Clients : Len(queue'[d]) <= QueueSize
        /\ view' \in [Clients -> Views]
    BY <1>5, FreshType DEF Register
  <2> QED
    BY <2>1, <1>5 DEF TypeOK, Register, Upstream
<1>6. ASSUME NEW c \in Clients, Subscribe(c)
      PROVE  TypeOK'
  BY <1>6 DEF TypeOK, Subscribe, Upstream
<1>7. ASSUME NEW c \in Clients, Replay(c)
      PROVE  TypeOK'
  BY <1>7, ReplayType
<1>8. ASSUME NEW c \in Clients, ReplayGivenUp(c)
      PROVE  TypeOK'
  BY <1>8 DEF TypeOK, ReplayGivenUp, Upstream
<1>9. ASSUME NEW c \in Clients, Send(c)
      PROVE  TypeOK'
  BY <1>9, SendType
<1>10. ASSUME NEW c \in Clients, ClientEnds(c)
       PROVE  TypeOK'
  <2>1. /\ queue' \in [Clients -> Seq(Items)]
        /\ \A d \in Clients : Len(queue'[d]) <= QueueSize
        /\ view' \in [Clients -> Views]
    BY <1>10, FreshType DEF ClientEnds
  <2> QED
    BY <2>1, <1>10 DEF TypeOK, ClientEnds, Upstream
<1>11. CASE UNCHANGED vars
  BY <1>11 DEF TypeOK, vars
<1> QED
  BY <1>1, <1>2, <1>3, <1>4, <1>5, <1>6, <1>7, <1>8, <1>9, <1>10, <1>11 DEF Next

(* In particular no queue ever holds more than CLIENT_QUEUE_SIZE entries:  *)
(* every put_nowait of the proxy stays within the bound of the queue.      *)
THEOREM TypeCorrect == Spec => []TypeOK
<1>1. Init => TypeOK
  BY InitType
<1>2. TypeOK /\ [Next]_vars => TypeOK'
  BY NextType
<1> QED
  BY <1>1, <1>2, PTL DEF Spec
-----------------------------------------------------------------------------
(* The invariant is inductive *)

LEMMA InitFInv == Init => FInv
BY DEF Init, FInv, CacheIsRight, Registered, Clean, NeverPartial, NeverExposed, Idle, NoView

(* A step that leaves a client's stream alone and receives no report.      *)
LEMMA StaysServed ==
    ASSUME NEW c \in Clients, Served(c),
           queue'[c] = queue[c], view'[c] = view[c], version' = version,
           snap'[c] \in {"none", "waiting", snap[c]},
           bcast' = bcast
    PROVE  Served(c)'
BY DEF Served

(* A broadcast keeps every client served that it finds with all but the    *)
(* report it delivers.                                                     *)
LEMMA DeliveryServes ==
    ASSUME TypeOK, TypeOK', NEW todo \in SUBSET Clients,
           NEW n \in 0..MaxReports, NEW net \in BOOLEAN,
           Delivered(todo, n, net),
           UNCHANGED <<snap, view>>,
           version <= version', n \in {0, version'},
           NEW c \in reg', Served(c),
           CaughtUp(queue[c], view[c], version', c \in todo /\ n = version')
    PROVE  Served(c)'
<1> DEFINE q == queue[c]
           v == view[c]
           m == version'
           x == ReportFor(c, n, net)
<1>1. /\ c \in reg /\ c \in Clients /\ q \in Seq(Items) /\ v \in Views
      /\ version \in Nat /\ m \in Nat /\ n \in Nat
  BY DEF Delivered, TypeOK
<1>2. /\ Fit(q, v, version) /\ Ordered(q, v) /\ Unbroken(q, v)
      /\ snap[c] = "replayed" => ToldIn(q, v, DOMAIN q)
      /\ CaughtUp(q, v, m, c \in todo /\ n = m)
      /\ snap' = snap /\ view' = view
  BY DEF Served
<1>3. CASE c \in todo /\ queue'[c] = Append(q, x)
  <2>1. x \in Items /\ x.n = n /\ x.kind = "report" /\ x.addr # "printer"
    BY <1>1, ReportIsItem DEF ReportFor, ReportedAddress
  <2>2. v.n \in Nat
    BY <1>1 DEF Views
  <2> HIDE DEF q, v, x, m
  <2>3. ToldIn(q, v, DOMAIN q) => Reaches(q, v, DOMAIN q, n - 1)
    <3>1. CASE n = 0
      BY <3>1, <2>2 DEF Reaches
    <3>2. CASE n = m
      <4>1. \A i \in DOMAIN q : q[i].n \in Nat
        <5>1. \A i \in DOMAIN q : q[i] \in Items
          BY <1>1
        <5> QED
          BY <5>1 DEF Items
      <4> QED
        BY <4>1, <3>2, <1>1, <1>2, <2>2 DEF CaughtUp, Reaches
    <3> QED
      BY <3>1, <3>2 DEF m
  <2>4. /\ Fit(Append(q, x), v, m)
        /\ Ordered(Append(q, x), v)
        /\ Unbroken(Append(q, x), v)
    <3>1. version <= m /\ (n = 0 \/ n = m)
      BY DEF m
    <3> QED
      BY <1>1, <1>2, <2>1, <2>3, <3>1, Joins
  <2>5. /\ ToldIn(Append(q, x), v, DOMAIN Append(q, x)) <=> ToldIn(q, v, DOMAIN q)
        /\ Reaches(Append(q, x), v, DOMAIN Append(q, x), m) <=>
              Reaches(q, v, DOMAIN q, m) \/ n >= m
    <3>1. m \in Int
      BY <1>1
    <3>2. /\ ToldIn(Append(q, x), v, DOMAIN Append(q, x)) <=>
                ToldIn(q, v, DOMAIN q) \/ x.kind = "snapshot"
          /\ Reaches(Append(q, x), v, DOMAIN Append(q, x), m) <=>
                Reaches(q, v, DOMAIN q, m) \/ x.n >= m
      BY <1>1, <2>1, <3>1, JoinReaches
    <3> QED
      BY <2>1, <3>2
  <2>6. ToldIn(Append(q, x), v, DOMAIN Append(q, x)) =>
           Reaches(Append(q, x), v, DOMAIN Append(q, x), m)
    BY <1>1, <1>2, <2>5 DEF CaughtUp
  <2>7. queue'[c] = Append(q, x) /\ view'[c] = v /\ snap'[c] = snap[c] /\ version' = m
    BY <1>2, <1>3 DEF v, m
  <2>8. snap[c] = "replayed" => ToldIn(Append(q, x), v, DOMAIN Append(q, x))
    BY <1>2, <2>5
  <2> QED
    BY <2>4, <2>6, <2>7, <2>8 DEF Served, CaughtUp
<1>4. CASE \/ c \notin todo /\ queue'[c] = q
           \/ c \in bcast'.todo /\ bcast'.n = n /\ queue'[c] = q
  <2>1. Fit(q, v, m)
    <3>1. v.n \in Nat /\ \A i \in DOMAIN q : q[i].n \in Nat
      <4>1. \A i \in DOMAIN q : q[i] \in Items
        BY <1>1
      <4> QED
        BY <4>1, <1>1 DEF Items, Views
    <3> QED
      BY <3>1, <1>1, <1>2 DEF Fit
  <2>2. CaughtUp(q, v, m, c \in bcast'.todo /\ bcast'.n = m)
    BY <1>2, <1>4 DEF CaughtUp
  <2>3. queue'[c] = q /\ view'[c] = v /\ snap'[c] = snap[c]
    BY <1>2, <1>4
  <2> QED
    BY <1>2, <2>1, <2>2, <2>3 DEF Served
<1> QED
  BY <1>1, <1>3, <1>4 DEF Delivered

(* The clients a broadcast hangs up on are the ones it forgets.            *)
LEMMA DeliverRegistered ==
    ASSUME TypeOK, Registered, NEW todo \in SUBSET Clients, NEW n, NEW net,
           DeliverTo(todo, n, net)
    PROVE  Registered'
BY DEF DeliverTo, HangUp, Registered, TypeOK

LEMMA ReportFInv ==
    ASSUME TypeOK, TypeOK', FInv,
           NEW merged \in BOOLEAN, NEW full \in BOOLEAN, NEW net \in BOOLEAN,
           Report(merged, full, net)
    PROVE  FInv'
<1> DEFINE n == IF merged THEN version + 1 ELSE 0
<1>1. /\ n \in 0..MaxReports /\ n \in {0, version'}
      /\ version' = (IF merged THEN version + 1 ELSE version)
      /\ version \in Nat /\ version <= version'
  BY MaxReportsAssumption DEF TypeOK, Report, Merge
<1>2. reg \in SUBSET Clients /\ DeliverTo(reg, n, net) /\ UNCHANGED <<snap, view>>
      /\ bcast.todo = {}
  BY DEF TypeOK, Report, Idle
<1>3. n = (IF merged THEN version' ELSE 0)
  BY <1>1
<1> HIDE DEF n
<1>4. Delivered(reg, n, net)
  BY <1>2, DeliverDelivers
<1>5. CacheIsRight'
  <2>1. bcast'.n \in {0, version'}
    BY <1>1, <1>4 DEF Delivered
  <2>2. /\ cached' = (IF merged THEN version + 1 ELSE cached)
        /\ complete' = (complete \/ (merged /\ full))
        /\ primed' = (primed \/ (merged /\ full))
    BY DEF Report, Merge
  <2>3. cached \in Nat /\ cached <= version /\ (primed => complete /\ cached = version)
    BY DEF FInv, CacheIsRight, TypeOK
  <2> QED
    BY <1>1, <2>1, <2>2, <2>3 DEF CacheIsRight
<1>6. Registered'
  BY <1>2, DeliverRegistered DEF FInv
<1>7. Clean'
  BY <1>2 DEF FInv, Clean, NeverPartial, NeverExposed
<1>8. ASSUME NEW c \in reg' PROVE Served(c)'
  <2>1. c \in reg /\ Served(c)
    BY <1>4 DEF Delivered, FInv
  <2>2. CaughtUp(queue[c], view[c], version', c \in reg /\ n = version')
    <3>1. CaughtUp(queue[c], view[c], version, FALSE)
      BY <1>2, <2>1 DEF Served, CaughtUp
    <3>2. CASE merged
      <4>1. version' - 1 = version /\ n = version'
        BY <3>2, <1>1, <1>3
      <4> QED
        BY <3>1, <4>1, <2>1 DEF CaughtUp
    <3>3. CASE ~merged
      BY <3>1, <3>3, <1>1 DEF CaughtUp
    <3> QED
      BY <3>2, <3>3
  <2> QED
    BY <1>1, <1>2, <1>4, <2>1, <2>2, DeliveryServes
<1> QED
  BY <1>5, <1>6, <1>7, <1>8 DEF FInv

LEMMA BroadcastResumesFInv ==
    ASSUME TypeOK, TypeOK', FInv, BroadcastResumes
    PROVE  FInv'
<1>1. /\ bcast.todo \in SUBSET Clients /\ bcast.n \in 0..MaxReports
      /\ bcast.net \in BOOLEAN /\ bcast.n \in {0, version} /\ version \in Nat
      /\ DeliverTo(bcast.todo, bcast.n, bcast.net)
      /\ UNCHANGED <<version, cached, complete, primed, snap, view>>
  BY DEF TypeOK, Broadcasts, BroadcastResumes, Upstream, FInv, CacheIsRight
<1>2. Delivered(bcast.todo, bcast.n, bcast.net)
  BY <1>1, DeliverDelivers
<1>3. CacheIsRight'
  BY <1>1, <1>2 DEF Delivered, FInv, CacheIsRight
<1>4. Registered'
  BY <1>1, DeliverRegistered DEF FInv
<1>5. Clean'
  BY <1>1 DEF FInv, Clean, NeverPartial, NeverExposed
<1>6. ASSUME NEW c \in reg' PROVE Served(c)'
  <2>1. Served(c)
    BY <1>2 DEF Delivered, FInv
  <2>2. CaughtUp(queue[c], view[c], version', c \in bcast.todo /\ bcast.n = version')
    BY <1>1, <2>1 DEF Served
  <2> QED
    BY <1>1, <1>2, <2>1, <2>2, DeliveryServes
<1> QED
  BY <1>3, <1>4, <1>5, <1>6 DEF FInv
(* The connection to the printer comes and goes: only the cache changes.   *)
LEMMA UpstreamFInv ==
    ASSUME TypeOK, FInv, UpstreamConnect \/ UpstreamLost
    PROVE  FInv'
<1>1. UNCHANGED <<version, bcast, reg, conn, queue, snap, view>>
  BY DEF UpstreamConnect, UpstreamLost
<1>2. CacheIsRight'
  BY DEF UpstreamConnect, UpstreamLost, ClearCache, TypeOK, FInv, CacheIsRight
<1>3. Registered' /\ Clean'
  BY <1>1 DEF FInv, Registered, Clean, NeverPartial, NeverExposed
<1>4. ASSUME NEW c \in reg' PROVE Served(c)'
  BY <1>1, <1>4, StaysServed DEF TypeOK, FInv
<1> QED
  BY <1>2, <1>3, <1>4 DEF FInv

(* A new client is told nothing yet.                                       *)
LEMMA RegisterFInv ==
    ASSUME TypeOK, FInv, NEW c \in Clients, Register(c)
    PROVE  FInv'
<1>1. /\ UNCHANGED <<version, cached, complete, primed, bcast>>
      /\ reg' = reg \cup {c} /\ conn' = [conn EXCEPT ![c] = "live"]
      /\ queue' = [queue EXCEPT ![c] = <<>>] /\ view' = [view EXCEPT ![c] = NoView]
      /\ snap' = [snap EXCEPT ![c] = "none"]
  BY DEF Register, Upstream
<1>2. CacheIsRight'
  BY <1>1 DEF FInv, CacheIsRight
<1>3. Registered' /\ Clean'
  BY <1>1 DEF TypeOK, FInv, Registered, Clean, NeverPartial, NeverExposed, NoView
<1>4. ASSUME NEW d \in reg' PROVE Served(d)'
  <2>1. CASE d = c
    <3>1. queue'[d] = <<>> /\ view'[d] = NoView /\ snap'[d] = "none" /\ version' \in Nat
      BY <2>1, <1>1 DEF TypeOK
    <3> QED
      BY <3>1 DEF Served, Fit, Ordered, Unbroken, CaughtUp, ToldIn, NoView
  <2>2. CASE d # c
    <3>1. /\ d \in Clients /\ Served(d)
          /\ queue'[d] = queue[d] /\ view'[d] = view[d] /\ snap'[d] = snap[d]
      BY <2>2, <1>1 DEF TypeOK, FInv
    <3> QED
      BY <3>1, <1>1, StaysServed
  <2> QED
    BY <2>1, <2>2
<1> QED
  BY <1>2, <1>3, <1>4 DEF FInv

(* The snapshot task is started, or gives up.                              *)
LEMMA SnapshotTaskFInv ==
    ASSUME TypeOK, FInv, NEW c \in Clients, Subscribe(c) \/ ReplayGivenUp(c)
    PROVE  FInv'
<1>1. /\ UNCHANGED <<version, cached, complete, primed, bcast, reg, conn, queue, view>>
      /\ \A d \in Clients : snap'[d] \in {"none", "waiting", snap[d]}
  BY DEF Subscribe, ReplayGivenUp, Upstream, TypeOK
<1>2. CacheIsRight' /\ Registered' /\ Clean'
  BY <1>1 DEF FInv, CacheIsRight, Registered, Clean, NeverPartial, NeverExposed
<1>3. ASSUME NEW d \in reg' PROVE Served(d)'
  BY <1>1, <1>3, StaysServed DEF TypeOK, FInv
<1> QED
  BY <1>2, <1>3 DEF FInv

(* The snapshot holds every report merged so far: it is as recent as what  *)
(* is ahead of it in the queue, and the client has caught up with it.      *)
LEMMA ReplayFInv ==
    ASSUME TypeOK, FInv, NEW c \in Clients, Replay(c)
    PROVE  FInv'
<1>1. /\ UNCHANGED <<version, cached, complete, primed, bcast, view>>
      /\ reg' \subseteq reg
      /\ \A d \in Clients : d # c => snap'[d] = snap[d] /\ queue'[d] = queue[d]
  BY DEF Replay, HangUp, Upstream, TypeOK
<1>2. CacheIsRight'
  BY <1>1 DEF FInv, CacheIsRight
<1>3. Registered'
  BY DEF Replay, HangUp, FInv, Registered, TypeOK
<1>4. Clean'
  BY <1>1 DEF FInv, Clean, NeverPartial, NeverExposed
<1>5. ASSUME NEW d \in reg' PROVE Served(d)'
  <2>1. d \in Clients /\ Served(d)
    BY <1>1 DEF TypeOK, FInv
  <2>2. CASE d # c
    BY <2>1, <2>2, <1>1, StaysServed
  <2>3. CASE d = c
    <3> DEFINE q == queue[c]
               v == view[c]
               x == Snapshot
    <3>1. queue'[c] = Append(q, x) /\ snap'[c] = "replayed" /\ primed
      BY <2>3 DEF Replay, HangUp, TypeOK
    <3>2. /\ q \in Seq(Items) /\ v \in Views /\ x \in Items /\ version \in Nat
          /\ version \in Int
      BY SnapshotIsItem DEF TypeOK
    <3>3. x.n = version /\ x.kind = "snapshot" /\ x.whole /\ x.addr = "proxy"
      BY <3>1 DEF Snapshot, FInv, CacheIsRight
    <3>4. /\ Fit(q, v, version) /\ Ordered(q, v) /\ Unbroken(q, v)
          /\ CaughtUp(q, v, version, c \in bcast.todo /\ bcast.n = version)
      BY <2>1, <2>3 DEF Served
    <3> HIDE DEF q, v, x
    <3>5. v.n \in Nat /\ \A i \in DOMAIN q : q[i].n \in Nat
      <4>1. \A i \in DOMAIN q : q[i] \in Items
        BY <3>2
      <4> QED
        BY <4>1, <3>2 DEF Items, Views
    <3>6. ToldIn(q, v, DOMAIN q) => Reaches(q, v, DOMAIN q, x.n - 1)
      BY <3>2, <3>3, <3>4, <3>5 DEF CaughtUp, Reaches
    <3>7. /\ Fit(Append(q, x), v, version)
          /\ Ordered(Append(q, x), v)
          /\ Unbroken(Append(q, x), v)
      <4>1. version <= version /\ (x.n = 0 \/ x.n = version) /\ x.addr # "printer"
        BY <3>2, <3>3
      <4> QED
        BY <4>1, <3>2, <3>3, <3>4, <3>6, Joins
    <3>8. /\ ToldIn(Append(q, x), v, DOMAIN Append(q, x))
          /\ Reaches(Append(q, x), v, DOMAIN Append(q, x), version)
      <4>1. x.n >= version
        BY <3>2, <3>3
      <4> QED
        BY <4>1, <3>2, <3>3, JoinReaches
    <3>9. queue'[d] = Append(q, x) /\ view'[d] = v /\ version' = version
      BY <3>1, <2>3, <1>1 DEF v
    <3> QED
      BY <3>7, <3>8, <3>9 DEF Served, CaughtUp
  <2> QED
    BY <2>2, <2>3
<1> QED
  BY <1>2, <1>3, <1>4, <1>5 DEF FInv

(* Writing the next packet moves the client's stream along.                *)
LEMMA SendFInv ==
    ASSUME TypeOK, FInv, NEW c \in Clients, Send(c)
    PROVE  FInv'
<1>1. /\ UNCHANGED <<version, cached, complete, primed, bcast, reg, conn, snap>>
      /\ \A d \in Clients : d # c => queue'[d] = queue[d] /\ view'[d] = view[d]
  BY DEF Send, Upstream, TypeOK
<1>2. CacheIsRight' /\ Registered'
  BY <1>1 DEF FInv, CacheIsRight, Registered
<1>3. CASE c \in reg
  <2> DEFINE q == queue[c]
             v == view[c]
             w == Seen(v, Head(q))
  <2>1. /\ q \in Seq(Items) /\ q # <<>> /\ v \in Views
        /\ queue'[c] = Tail(q) /\ view'[c] = w
        /\ version \in Nat /\ version \in Int /\ version - 1 \in Int
    <3>1. conn[c] # "closing"
      BY <1>3 DEF FInv, Registered
    <3> QED
      BY <3>1, SendSees DEF TypeOK
  <2>2. Served(c)
    BY <1>3 DEF FInv
  <2>3. /\ Fit(q, v, version) /\ Ordered(q, v) /\ Unbroken(q, v)
        /\ snap[c] = "replayed" => ToldIn(q, v, DOMAIN q)
        /\ CaughtUp(q, v, version, c \in bcast.todo /\ bcast.n = version)
    BY <2>2 DEF Served
  <2>4. ~v.partial /\ ~v.exposed
    BY DEF FInv, Clean, NeverPartial, NeverExposed
  <2> HIDE DEF q, v
  <2>5. /\ Fit(Tail(q), w, version) /\ Ordered(Tail(q), w) /\ Unbroken(Tail(q), w)
        /\ ~w.partial /\ ~w.exposed
    BY <2>1, <2>3, <2>4, Moves
  <2>6. /\ ToldIn(Tail(q), w, DOMAIN Tail(q)) <=> ToldIn(q, v, DOMAIN q)
        /\ Reaches(q, v, DOMAIN q, version) => Reaches(Tail(q), w, DOMAIN Tail(q), version)
        /\ Reaches(q, v, DOMAIN q, version - 1) =>
              Reaches(Tail(q), w, DOMAIN Tail(q), version - 1)
    BY <2>1, <2>3, MoveReaches
  <2> HIDE DEF w
  <2>7. Clean'
    BY <1>1, <2>1, <2>5 DEF FInv, Clean, NeverPartial, NeverExposed
  <2>8. Served(c)'
    BY <1>1, <2>1, <2>3, <2>5, <2>6 DEF Served, CaughtUp
  <2>9. ASSUME NEW d \in reg', d # c PROVE Served(d)'
    BY <1>1, <2>9, StaysServed DEF TypeOK, FInv
  <2> QED
    BY <1>2, <2>7, <2>8, <2>9 DEF FInv
<1>4. CASE c \notin reg
  <2>1. conn[c] = "closing"
    BY <1>4 DEF FInv, Registered, Send, TypeOK
  <2>2. view' = view
    BY <2>1 DEF Send
  <2>3. Clean'
    BY <2>2 DEF FInv, Clean, NeverPartial, NeverExposed
  <2>4. ASSUME NEW d \in reg' PROVE Served(d)'
    BY <1>1, <1>4, <2>4, StaysServed DEF TypeOK, FInv
  <2> QED
    BY <1>2, <2>3, <2>4 DEF FInv
<1> QED
  BY <1>3, <1>4

LEMMA ClientEndsFInv ==
    ASSUME TypeOK, FInv, NEW c \in Clients, ClientEnds(c)
    PROVE  FInv'
<1>1. /\ UNCHANGED <<version, cached, complete, primed, bcast, snap>>
      /\ reg' = reg \ {c} /\ conn' = [conn EXCEPT ![c] = "off"]
      /\ queue' = [queue EXCEPT ![c] = <<>>] /\ view' = [view EXCEPT ![c] = NoView]
  BY DEF ClientEnds, Upstream
<1>2. CacheIsRight'
  BY <1>1 DEF FInv, CacheIsRight
<1>3. Registered' /\ Clean'
  BY <1>1 DEF TypeOK, FInv, Registered, Clean, NeverPartial, NeverExposed, NoView
<1>4. ASSUME NEW d \in reg' PROVE Served(d)'
  <2>1. /\ d \in Clients /\ Served(d) /\ d # c
        /\ queue'[d] = queue[d] /\ view'[d] = view[d] /\ snap'[d] = snap[d]
    BY <1>1 DEF TypeOK, FInv
  <2> QED
    BY <2>1, <1>1, StaysServed
<1> QED
  BY <1>2, <1>3, <1>4 DEF FInv

LEMMA NextFInv == TypeOK /\ FInv /\ [Next]_vars => FInv'
<1> SUFFICES ASSUME TypeOK, FInv, [Next]_vars
             PROVE  FInv'
  OBVIOUS
<1>0. TypeOK'
  BY NextType
<1>1. CASE UpstreamConnect \/ UpstreamLost
  BY <1>1, UpstreamFInv
<1>2. CASE \E merged, full, net \in BOOLEAN : Report(merged, full, net)
  BY <1>0, <1>2, ReportFInv
<1>3. CASE BroadcastResumes
  BY <1>0, <1>3, BroadcastResumesFInv
<1>4. ASSUME NEW c \in Clients, Register(c)
      PROVE  FInv'
  BY <1>4, RegisterFInv
<1>5. ASSUME NEW c \in Clients, Subscribe(c) \/ ReplayGivenUp(c)
      PROVE  FInv'
  BY <1>5, SnapshotTaskFInv
<1>6. ASSUME NEW c \in Clients, Replay(c)
      PROVE  FInv'
  BY <1>6, ReplayFInv
<1>7. ASSUME NEW c \in Clients, Send(c)
      PROVE  FInv'
  BY <1>7, SendFInv
<1>8. ASSUME NEW c \in Clients, ClientEnds(c)
      PROVE  FInv'
  BY <1>8, ClientEndsFInv
<1>9. CASE UNCHANGED vars
  <2>1. CacheIsRight' /\ Registered' /\ Clean'
    BY <1>9 DEF vars, FInv, CacheIsRight, Registered, Clean, NeverPartial, NeverExposed
  <2>2. ASSUME NEW c \in reg' PROVE Served(c)'
    BY <1>9, <2>2, StaysServed DEF vars, TypeOK, FInv
  <2> QED
    BY <2>1, <2>2 DEF FInv
<1> QED
  BY <1>1, <1>2, <1>3, <1>4, <1>5, <1>6, <1>7, <1>8, <1>9 DEF Next

LEMMA FInvHolds == Spec => [](TypeOK /\ FInv)
<1>1. Init => TypeOK /\ FInv
  BY InitType, InitFInv
<1>2. TypeOK /\ FInv /\ [Next]_vars => TypeOK' /\ FInv'
  BY NextType, NextFInv
<1> QED
  BY <1>1, <1>2, PTL DEF Spec

-----------------------------------------------------------------------------
(* What the invariant gives *)

(* Only a full dump is replayed as one, whatever reconnections lie between *)
(* priming the cache and replaying it.                                     *)
THEOREM OnlyWholeStates == Spec => []NeverPartial
<1>1. FInv => NeverPartial
  BY DEF FInv, Clean
<1> QED
  BY <1>1, FInvHolds, PTL

(* No report naming the printer's own address is written to a client.      *)
THEOREM PrinterStaysHidden == Spec => []NeverExposed
<1>1. FInv => NeverExposed
  BY DEF FInv, Clean
<1> QED
  BY <1>1, FInvHolds, PTL

(* A client that was replayed the state and is still registered has the    *)
(* newest report, or it is on its way: no client is silently left behind.  *)
THEOREM NobodyLeftBehind == Spec => []NeverLeftBehind
<1>1. ASSUME TypeOK, FInv
      PROVE  NeverLeftBehind
  <2> SUFFICES ASSUME NEW c \in reg, snap[c] = "replayed", c \notin bcast.todo
               PROVE  Newest(c) >= cached
    BY DEF NeverLeftBehind
  <2> DEFINE q == queue[c]
             v == view[c]
             N == {v.n} \cup {q[i].n : i \in DOMAIN q}
  <2>1. q \in Seq(Items) /\ v \in Views /\ version \in Nat /\ cached \in Nat
    BY <1>1 DEF TypeOK
  <2>2. Fit(q, v, version) /\ Reaches(q, v, DOMAIN q, version) /\ cached <= version
    <3>1. Served(c) /\ cached <= version
      BY <1>1 DEF FInv, CacheIsRight
    <3> QED
      BY <3>1 DEF Served, CaughtUp
  <2>3. v.n \in Nat /\ \A i \in DOMAIN q : q[i].n \in Nat
    <3>1. \A i \in DOMAIN q : q[i] \in Items
      BY <2>1
    <3> QED
      BY <3>1, <2>1 DEF Items, Views
  <2> HIDE DEF q, v
  <2>4. version \in N /\ \A k \in N : k <= version /\ k \in Nat
    BY <2>1, <2>2, <2>3 DEF Fit, Reaches
  <2>5. \A x \in N : version >= x
    BY <2>1, <2>4
  <2> HIDE DEF N
  <2>6. Max(N) \in N /\ \A x \in N : Max(N) >= x
    BY <2>4, <2>5 DEF Max
  <2>7. Max(N) >= version /\ Max(N) \in Nat
    BY <2>4, <2>6
  <2>8. Max(N) >= cached
    <3> DEFINE m == Max(N)
    <3>1. m >= version /\ m \in Nat
      BY <2>7
    <3> HIDE DEF m
    <3>2. m >= cached
      BY <3>1, <2>1, <2>2
    <3> QED
      BY <3>2 DEF m
  <2> QED
    BY <2>8 DEF Newest, N, q, v
<1> QED
  BY <1>1, FInvHolds, PTL

(* A client never applies an older document over a newer one: the step     *)
(* that moves a view is the send loop's, and what it writes next is never  *)
(* older than what it wrote last.                                          *)
THEOREM NeverGoesBack == Spec => NoRegress
<1>1. ASSUME TypeOK, FInv, [Next]_vars, NEW c \in Clients,
             conn[c] = "live", conn'[c] = "live"
      PROVE  view'[c].n >= view[c].n
  <2>1. view[c].n \in Nat
    BY <1>1 DEF TypeOK, Views
  <2>2. ASSUME Send(c)
        PROVE  view'[c].n >= view[c].n
    <3>1. /\ queue[c] \in Seq(Items) /\ queue[c] # <<>>
          /\ view[c] \in Views /\ version \in Nat
          /\ view'[c] = Seen(view[c], Head(queue[c]))
      BY <1>1, <2>2, SendSees DEF TypeOK
    <3>2. Served(c)
      BY <1>1 DEF FInv, Registered
    <3> QED
      BY <3>1, <3>2, Moves DEF Served
  <2>3. ASSUME NEW d \in Clients, Register(d) \/ ClientEnds(d)
        PROVE  view'[c].n >= view[c].n
    <3>1. c # d
      BY <1>1, <2>3 DEF Register, ClientEnds, TypeOK
    <3> QED
      BY <1>1, <3>1, <2>1, <2>3 DEF Register, ClientEnds, TypeOK
  <2>4. ASSUME NEW d \in Clients, Send(d), d # c
        PROVE  view'[c].n >= view[c].n
    BY <1>1, <2>1, <2>4 DEF Send, TypeOK
  <2>5. CASE UNCHANGED view
    BY <2>1, <2>5
  <2> QED
    BY <1>1, <2>2, <2>3, <2>4, <2>5
       DEF Next, UpstreamConnect, UpstreamLost, Report, BroadcastResumes, Subscribe,
           Replay, ReplayGivenUp, vars
<1>2. TypeOK /\ FInv /\ [Next]_vars =>
         [\A c \in Clients :
             conn[c] = "live" /\ conn'[c] = "live" => view'[c].n >= view[c].n]_vars
  BY <1>1
<1> QED
  BY <1>2, FInvHolds, PTL DEF Spec, NoRegress

(* A client that was given the state misses no report afterwards.          *)
THEOREM MissesNothing == Spec => NoGap
<1>1. ASSUME TypeOK, FInv, [Next]_vars, NEW c \in Clients,
             view[c].replayed, view'[c].replayed
      PROVE  view'[c].n <= view[c].n + 1
  <2>1. view[c].n \in Nat
    BY <1>1 DEF TypeOK, Views
  <2>2. ASSUME Send(c), conn[c] # "closing"
        PROVE  view'[c].n <= view[c].n + 1
    <3>1. /\ queue[c] \in Seq(Items) /\ queue[c] # <<>>
          /\ view[c] \in Views /\ version \in Nat
          /\ view'[c] = Seen(view[c], Head(queue[c]))
      BY <1>1, <2>2, SendSees DEF TypeOK
    <3>2. Served(c)
      BY <1>1, <2>2 DEF FInv, Registered, Send, TypeOK
    <3> QED
      BY <1>1, <3>1, <3>2, Moves DEF Served
  <2>3. ASSUME NEW d \in Clients, Register(d) \/ ClientEnds(d)
        PROVE  view'[c].n <= view[c].n + 1
    <3>1. c # d
      BY <1>1, <2>3 DEF Register, ClientEnds, NoView, TypeOK
    <3> QED
      BY <1>1, <3>1, <2>1, <2>3 DEF Register, ClientEnds, TypeOK
  <2>4. ASSUME NEW d \in Clients, Send(d), d # c \/ conn[d] = "closing"
        PROVE  view'[c].n <= view[c].n + 1
    BY <1>1, <2>1, <2>4 DEF Send, TypeOK
  <2>5. CASE UNCHANGED view
    BY <2>1, <2>5
  <2> QED
    BY <1>1, <2>2, <2>3, <2>4, <2>5
       DEF Next, UpstreamConnect, UpstreamLost, Report, BroadcastResumes, Subscribe,
           Replay, ReplayGivenUp, vars
<1>2. TypeOK /\ FInv /\ [Next]_vars =>
         [\A c \in Clients :
             view[c].replayed /\ view'[c].replayed => view'[c].n <= view[c].n + 1]_vars
  BY <1>1
<1> QED
  BY <1>2, FInvHolds, PTL DEF Spec, NoGap

=============================================================================
