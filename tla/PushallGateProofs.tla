------------------------- MODULE PushallGateProofs -------------------------
(***************************************************************************)
(* For any number of snapshot tasks: the gate on full-state requests lets  *)
(* at most one through per interval, and is never left shut.               *)
(*                                                                         *)
(* The invariant is the accounting that the one flag stands for: on a      *)
(* connection no publisher was carried over into and no publish timed out  *)
(* on, the task that asks, the request it is publishing and the timer of   *)
(* the last one are never more than one thing, and the flag is up while    *)
(* there is one.                                                           *)
(***************************************************************************)
EXTENDS PushallGate, FiniteSetTheorems, TLAPS

Tasks == Askers \cup {Other}

GateType ==
    /\ link \in {"down", "connected", "serving"}
    /\ primed \in BOOLEAN /\ pending \in BOOLEAN
    /\ handle \in Requests \cup {None}
    /\ armed \subseteq Requests
    /\ sent \in [Askers -> Requests \cup {None}]
    /\ recent \subseteq Requests
    /\ stray \in BOOLEAN

LineOK ==
    /\ line \in Seq(Tasks)
    /\ IsInjective(line)
    /\ \A t \in Askers : Publishing(t) => Holding(t)

(* On a connection of its own: one asker, or one timer, and the flag.      *)
OneAtWork ==
    link # "down" /\ ~stray =>
        /\ \A t, u \in Askers : Asking(t) /\ Asking(u) => t = u
        /\ \A t \in Askers : Asking(t) => pending /\ armed = {}
        /\ armed # {} => pending /\ armed = {handle}
        /\ recent \subseteq armed \cup {sent[t] : t \in {u \in Askers : Publishing(u)}}

(* Without a connection nothing is outstanding and no timer is left.       *)
NothingLeft ==
    link = "down" => recent = {} /\ (~stray => armed = {})

GInv == GateType /\ LineOK /\ OneAtWork /\ NothingLeft /\ GateHasOwner

-----------------------------------------------------------------------------
(* The lock's line *)

LEMMA TasksDistinct == Other \notin Askers /\ None \notin Requests
BY SnapshotsAssumption, MaxRequestsAssumption DEF Askers, Main, Other, None, Requests

(* A task that joins the line is last in it, and nobody else moves. *)
LEMMA Joined ==
    ASSUME LineOK, NEW e \in Tasks, ~Asking(e), line' = Append(line, e)
    PROVE  /\ line' \in Seq(Tasks) /\ IsInjective(line')
           /\ \A t \in Tasks : Asking(t)' <=> (Asking(t) \/ t = e)
           /\ \A t \in Tasks : Holding(t) => Holding(t)'
<1>1. /\ line \in Seq(Tasks) /\ line' \in Seq(Tasks)
      /\ Len(line') = Len(line) + 1
      /\ \A i \in 1..Len(line) : line'[i] = line[i]
      /\ line'[Len(line) + 1] = e
      /\ Len(line) \in Nat
  BY DEF LineOK
<1>2. IsInjective(line')
  BY <1>1 DEF LineOK, IsInjective, Asking, Contains
<1>3. ASSUME NEW t \in Tasks PROVE Asking(t)' <=> (Asking(t) \/ t = e)
  BY <1>1 DEF Asking, Contains
<1>4. ASSUME NEW t \in Tasks, Holding(t) PROVE Holding(t)'
  BY <1>1, <1>4 DEF Holding
<1>5. QED
  BY <1>1, <1>2, <1>3, <1>4

(* The task at the head of the line leaves it. *)
LEMMA LeftLine ==
    ASSUME LineOK, NEW e \in Tasks, Holding(e), line' = Tail(line)
    PROVE  /\ line' \in Seq(Tasks) /\ IsInjective(line')
           /\ \A t \in Tasks : Asking(t)' <=> (Asking(t) /\ t # e)
<1>1. /\ line \in Seq(Tasks) /\ line # <<>>
      /\ Len(line) \in Nat /\ Len(line) > 0
      /\ line[1] = e
  BY DEF LineOK, Holding
<1>2. /\ line' \in Seq(Tasks)
      /\ Len(line') = Len(line) - 1
      /\ \A i \in 1..Len(line') : line'[i] = line[i + 1]
  BY <1>1
<1>3. \A i, j \in 1..Len(line) : line[i] = line[j] => i = j
  BY <1>1 DEF LineOK, IsInjective
<1>4. IsInjective(line')
  BY <1>1, <1>2, <1>3 DEF IsInjective
<1>5. ASSUME NEW t \in Tasks PROVE Asking(t)' => Asking(t) /\ t # e
  BY <1>1, <1>2, <1>3, <1>5 DEF Asking, Contains
<1>6. ASSUME NEW t \in Tasks, Asking(t), t # e PROVE Asking(t)'
  <2>1. PICK i \in 1..Len(line) : line[i] = t
    BY <1>6 DEF Asking, Contains
  <2>2. i - 1 \in 1..Len(line') /\ line'[i - 1] = t
    BY <1>1, <1>2, <1>6, <2>1
  <2>3. QED
    BY <2>2 DEF Asking, Contains
<1>7. QED
  BY <1>2, <1>4, <1>5, <1>6

(* Whoever holds the lock is in the line. *)
LEMMA HolderAsks ==
    ASSUME LineOK, NEW t \in Tasks, Holding(t)
    PROVE  Asking(t)
<1>1. line \in Seq(Tasks) /\ line # <<>> /\ line[1] = t
  BY DEF LineOK, Holding
<1>2. 1 \in 1..Len(line)
  BY <1>1
<1>3. QED
  BY <1>1, <1>2 DEF Asking, Contains

-----------------------------------------------------------------------------
(* The steps *)

LEMMA InitGInv == Init => GInv
<1> SUFFICES ASSUME Init PROVE GInv
  OBVIOUS
<1>1. GateType
  BY DEF Init, GateType
<1>2. LineOK
  BY DEF Init, LineOK, IsInjective, Publishing
<1>3. OneAtWork /\ NothingLeft /\ GateHasOwner
  BY DEF Init, OneAtWork, NothingLeft, GateHasOwner
<1>4. QED
  BY <1>1, <1>2, <1>3 DEF GInv

(* The flag is tested and set without a pause: while it was down, nobody   *)
(* was at work.                                                            *)
LEMMA AskGInv ==
    ASSUME GInv, NEW t \in Askers, Ask(t), UNCHANGED stray,
           link' \in {"down", "connected", "serving"},
           link' = "down" <=> link = "down",
           primed' \in BOOLEAN
    PROVE  GInv'
<1> USE DEF GInv
<1>1. GateType'
  BY DEF Ask, GateType
<1>2. /\ line' \in Seq(Tasks) /\ IsInjective(line')
      /\ \A u \in Tasks : Asking(u)' <=> (Asking(u) \/ u = t)
      /\ \A u \in Tasks : Holding(u) => Holding(u)'
  BY Joined DEF Ask, Tasks
<1>3. LineOK'
  BY <1>2 DEF Ask, LineOK, Publishing, Tasks
<1>4. OneAtWork'
  BY <1>2 DEF Ask, OneAtWork, Publishing, Tasks
<1>5. NothingLeft' /\ GateHasOwner'
  BY <1>2 DEF Ask, NothingLeft, GateHasOwner, Tasks
<1>6. QED
  BY <1>1, <1>3, <1>4, <1>5

LEMMA MainAsksGInv == GInv /\ MainAsks => GInv'
<1> SUFFICES ASSUME GInv, MainAsks PROVE GInv'
  OBVIOUS
<1>1. CASE Ask(Main)
  BY <1>1, AskGInv DEF MainAsks, GInv, GateType, Askers
<1>2. CASE UNCHANGED <<pending, line, handle, armed, sent, recent>>
  BY <1>2 DEF MainAsks, GInv, GateType, LineOK, OneAtWork, NothingLeft,
              GateHasOwner, Asking, Holding, Publishing
<1>3. QED
  BY <1>1, <1>2 DEF MainAsks

LEMMA NoClientGInv ==
    ASSUME GInv, NEW t \in Askers, NoClient(t)
    PROVE  GInv'
<1> USE DEF GInv
<1>1. GateType'
  BY DEF NoClient, GateType
<1>2. LineOK'
  <2>1. \A u \in Askers : ~Publishing(u)
    BY DEF NoClient, LineOK, Holding
  <2>2. QED
    BY <2>1, LeftLine DEF NoClient, LineOK, Publishing, Tasks
<1>3. OneAtWork' /\ NothingLeft' /\ GateHasOwner'
  BY DEF NoClient, OneAtWork, NothingLeft, GateHasOwner
<1>4. QED
  BY <1>1, <1>2, <1>3

(* The only asker becomes the only publisher. *)
LEMMA PublishGInv ==
    ASSUME GInv, NEW t \in Askers, Publish(t)
    PROVE  GInv'
<1> USE DEF GInv
<1>1. NextRequest \in Requests
  BY DEF Publish, NextRequest, Unused
<1>2. GateType'
  BY <1>1 DEF Publish, GateType
<1>3. LineOK'
  BY DEF Publish, LineOK, Publishing, Holding, GateType
<1>4. Asking(t)
  BY HolderAsks DEF Publish, Tasks
<1>5. ASSUME link # "down", ~stray
      PROVE  recent' \subseteq {sent'[u] : u \in {v \in Askers : Publishing(v)'}}
  <2>1. \A u \in Askers : ~Publishing(u)
    BY DEF Publish, LineOK, Holding
  <2>2. recent = {}
    BY <1>4, <1>5, <2>1 DEF OneAtWork
  <2>3. sent'[t] = NextRequest /\ Publishing(t)'
    BY <1>1, TasksDistinct DEF Publish, GateType, Publishing
  <2>4. QED
    BY <2>2, <2>3 DEF Publish
<1>6. OneAtWork'
  BY <1>5 DEF Publish, OneAtWork, Asking
<1>7. NothingLeft' /\ GateHasOwner'
  BY DEF Publish, NothingLeft, GateHasOwner, Asking
<1>8. QED
  BY <1>2, <1>3, <1>6, <1>7

(* What a publisher leaves, confirmed or not. *)
LEMMA PublisherLeaves ==
    ASSUME GInv, NEW t \in Askers, Publishing(t),
           sent' = [sent EXCEPT ![t] = None], line' = Tail(line)
    PROVE  /\ LineOK'
           /\ \A u \in Askers : ~Publishing(u)'
           /\ \A u \in Tasks : Asking(u)' <=> (Asking(u) /\ u # t)
           /\ Asking(t)
           /\ sent[t] \in Requests
           /\ link # "down" /\ ~stray =>
                 (recent \subseteq {sent[t]} /\ armed = {} /\ \A u \in Askers : ~Asking(u)')
<1> USE DEF GInv
<1>1. Holding(t) /\ t \in Tasks
  BY DEF LineOK, Tasks
<1>2. \A u \in Askers \ {t} : ~Publishing(u)
  BY <1>1 DEF LineOK, Holding
<1>3. \A u \in Askers : ~Publishing(u)'
  BY <1>2 DEF Publishing, GateType
<1>4. /\ line' \in Seq(Tasks) /\ IsInjective(line')
      /\ \A u \in Tasks : Asking(u)' <=> (Asking(u) /\ u # t)
  BY <1>1, LeftLine
<1>5. Asking(t)
  BY <1>1, HolderAsks
<1>6. sent[t] \in Requests
  BY DEF Publishing, GateType
<1>7. ASSUME link # "down", ~stray
      PROVE  recent \subseteq {sent[t]} /\ armed = {} /\ \A u \in Askers : ~Asking(u)'
  BY <1>2, <1>4, <1>5, <1>7 DEF OneAtWork, Tasks
<1>8. QED
  BY <1>3, <1>4, <1>5, <1>6, <1>7 DEF LineOK

(* The publisher hands over to its timer. *)
LEMMA PublishedGInv ==
    ASSUME GInv, NEW t \in Askers, Published(t)
    PROVE  GInv'
<1> USE DEF GInv
<1>1. /\ LineOK'
      /\ \A u \in Askers : ~Publishing(u)'
      /\ sent[t] \in Requests
      /\ link # "down" /\ ~stray =>
            (recent \subseteq {sent[t]} /\ armed = {} /\ \A u \in Askers : ~Asking(u)')
  BY PublisherLeaves DEF Published
<1>2. GateType'
  BY <1>1 DEF Published, GateType
<1>3. link # "down"
  BY DEF Published, NothingLeft
<1>4. link # "down" /\ ~stray => pending
  <2>1. Holding(t)
    BY DEF Published, LineOK
  <2>2. Asking(t)
    BY <2>1, HolderAsks DEF Tasks
  <2>3. QED
    BY <2>2 DEF OneAtWork
<1>5. OneAtWork'
  BY <1>1, <1>3, <1>4 DEF Published, OneAtWork
<1>6. NothingLeft' /\ GateHasOwner'
  BY <1>3 DEF Published, NothingLeft, GateHasOwner
<1>7. QED
  BY <1>1, <1>2, <1>5, <1>6

LEMMA PublishFailsGInv ==
    ASSUME GInv, NEW t \in Askers, PublishFails(t)
    PROVE  GInv'
<1> USE DEF GInv
<1>1. /\ LineOK'
      /\ \A u \in Askers : ~Publishing(u)'
      /\ link # "down" /\ ~stray =>
            (recent \subseteq {sent[t]} /\ armed = {} /\ \A u \in Askers : ~Asking(u)')
  BY PublisherLeaves DEF PublishFails
<1>2. GateType'
  BY DEF PublishFails, GateType
<1>3. OneAtWork'
  BY <1>1 DEF PublishFails, OneAtWork
<1>4. NothingLeft' /\ GateHasOwner'
  BY DEF PublishFails, NothingLeft, GateHasOwner
<1>5. QED
  BY <1>1, <1>2, <1>3, <1>4

(* After a publish that timed out the gate counts no more, but it opens. *)
LEMMA PublishLateGInv ==
    ASSUME GInv, NEW t \in Askers, PublishLate(t)
    PROVE  GInv'
<1> USE DEF GInv
<1>1. LineOK'
  BY PublisherLeaves DEF PublishLate
<1>2. GateType'
  BY DEF PublishLate, GateType
<1>3. link # "down"
  BY DEF PublishLate, NothingLeft
<1>4. OneAtWork' /\ NothingLeft' /\ GateHasOwner'
  BY <1>3 DEF PublishLate, OneAtWork, NothingLeft, GateHasOwner
<1>5. QED
  BY <1>1, <1>2, <1>4

(* The timer that fires is the one the flag waits for, on a connection of  *)
(* its own; elsewhere the flag goes down too early, but it goes down.      *)
LEMMA ExpireGInv ==
    ASSUME GInv, NEW q \in Requests, Expire(q)
    PROVE  GInv'
<1> USE DEF GInv
<1>1. LineOK'
  BY DEF Expire, LineOK, Publishing, Holding
<1>2. GateType'
  BY DEF Expire, Clear, GateType
<1>3. \A t \in Askers : /\ Asking(t)' <=> Asking(t)
                        /\ Publishing(t)' <=> Publishing(t)
                        /\ sent[t] # q
  BY DEF Expire, Asking, Publishing, Range, GateType
<1>4. OneAtWork'
  <2>1. CASE q \in armed
    BY <1>3, <2>1 DEF Expire, Clear, OneAtWork
  <2>2. CASE q \notin armed
    BY <1>3, <2>2 DEF Expire, OneAtWork
  <2>3. QED
    BY <2>1, <2>2
<1>5. NothingLeft' /\ GateHasOwner'
  BY <1>3 DEF Expire, Clear, NothingLeft, GateHasOwner
<1>6. QED
  BY <1>1, <1>2, <1>4, <1>5

(* The other publishers come and go without touching the gate. *)
LEMMA OtherGInv == GInv /\ (OtherAsks \/ OtherDone) => GInv'
<1> SUFFICES ASSUME GInv, OtherAsks \/ OtherDone PROVE GInv'
  OBVIOUS
<1> USE DEF GInv
<1>U. UNCHANGED <<link, primed, pending, handle, armed, sent, recent, stray>>
  BY DEF OtherAsks, OtherDone
<1>1. GateType'
  BY <1>U DEF GateType
<1>2. LineOK' /\ \A t \in Askers : Asking(t)' <=> Asking(t)
  <2>1. CASE OtherAsks
    BY <2>1, <1>U, Joined, TasksDistinct DEF OtherAsks, LineOK, Publishing, Tasks
  <2>2. CASE OtherDone
    <3>1. \A t \in Askers : ~Publishing(t)
      BY <2>2, TasksDistinct DEF OtherDone, LineOK, Holding
    <3>2. QED
      BY <2>2, <3>1, <1>U, LeftLine, TasksDistinct DEF OtherDone, LineOK, Publishing, Tasks
  <2>3. QED
    BY <2>1, <2>2
<1>3. \A t \in Askers : Publishing(t)' <=> Publishing(t)
  BY <1>U DEF Publishing
<1>4. OneAtWork' /\ NothingLeft' /\ GateHasOwner'
  BY <1>U, <1>2, <1>3 DEF OneAtWork, NothingLeft, GateHasOwner
<1>5. QED
  BY <1>1, <1>2, <1>4

LEMMA LinkGInv == GInv /\ (Connect \/ Dump \/ ConnectionLost) => GInv'
<1> SUFFICES ASSUME GInv, Connect \/ Dump \/ ConnectionLost PROVE GInv'
  OBVIOUS
<1> USE DEF GInv
<1>1. LineOK' /\ \A t \in Askers : Asking(t)' <=> Asking(t)
  BY DEF Connect, Dump, ConnectionLost, LineOK, Publishing, Holding, Asking
<1>2. CASE Connect
  <2>1. GateType'
    BY <1>2, Zenon DEF Connect, GateType
  <2>2. ASSUME ~stray' PROVE \A t \in Askers : ~Asking(t) /\ recent = {}
    <3>1. line = <<>> /\ recent = {}
      BY <1>2, <2>2 DEF Connect, NothingLeft
    <3>2. QED
      BY <3>1 DEF Asking, Contains
  <2>3. OneAtWork' /\ NothingLeft' /\ GateHasOwner'
    BY <1>1, <1>2, <2>2 DEF Connect, OneAtWork, NothingLeft, GateHasOwner
  <2>4. QED
    BY <1>1, <2>1, <2>3
<1>3. CASE Dump
  <2>1. \A t \in Askers : Publishing(t)' <=> Publishing(t)
    BY <1>3 DEF Dump, Publishing
  <2>2. QED
    BY <1>1, <1>3, <2>1 DEF Dump, GateType, OneAtWork, NothingLeft, GateHasOwner
<1>4. CASE ConnectionLost
  <2>1. GateType'
    BY <1>4 DEF ConnectionLost, Clear, GateType
  <2>2. OneAtWork' /\ GateHasOwner'
    BY <1>4 DEF ConnectionLost, Clear, OneAtWork, GateHasOwner
  <2>3. NothingLeft'
    BY <1>4 DEF ConnectionLost, Clear, OneAtWork, NothingLeft
  <2>4. QED
    BY <1>1, <2>1, <2>2, <2>3
<1>5. QED
  BY <1>2, <1>3, <1>4

LEMMA NextGInv == GInv /\ [Next]_vars => GInv'
<1> SUFFICES ASSUME GInv, [Next]_vars PROVE GInv'
  OBVIOUS
<1>1. CASE UNCHANGED vars
  BY <1>1 DEF vars, GInv, GateType, LineOK, OneAtWork, NothingLeft, GateHasOwner,
              Asking, Holding, Publishing
<1>2. ASSUME NEW t \in Snapshots, SnapshotAsks(t) PROVE GInv'
  BY <1>2, AskGInv DEF SnapshotAsks, GInv, GateType, Askers
<1>3. ASSUME NEW t \in Askers, AskerStep(t) PROVE GInv'
  BY <1>3, NoClientGInv, PublishGInv, PublishedGInv, PublishFailsGInv, PublishLateGInv
     DEF AskerStep
<1>4. QED
  BY <1>1, <1>2, <1>3, MainAsksGInv, ExpireGInv, OtherGInv, LinkGInv DEF Next

-----------------------------------------------------------------------------

(* Every reachable state of the gate is well typed, and nobody publishes   *)
(* without holding the upstream lock.                                      *)
THEOREM GateTypeCorrect == Spec => []TypeOK
<1>1. GInv => TypeOK
  BY DEF GInv, GateType, LineOK, TypeOK, Tasks
<1>2. QED
  BY <1>1, InitGInv, NextGInv, PTL DEF Spec

(* However many clients subscribe together, and whatever fails or expires, *)
(* the printer is not asked twice within the interval on one connection,   *)
(* unless a publisher was carried over into it or a publish timed out on   *)
(* it.                                                                     *)
THEOREM AskedOnce == Spec => []AtMostOne
<1>1. ASSUME GInv, ~stray PROVE Cardinality(recent) <= 1
  <2>1. \E q : recent \subseteq {q}
    <3>1. CASE link = "down"
      BY <1>1, <3>1 DEF GInv, NothingLeft
    <3>2. CASE link # "down" /\ armed # {}
      BY <1>1, <3>2, HolderAsks DEF GInv, OneAtWork, LineOK, Tasks
    <3>3. CASE link # "down" /\ armed = {}
      <4>1. \A t, u \in Askers : Publishing(t) /\ Publishing(u) => t = u
        BY <1>1 DEF GInv, LineOK, Holding
      <4>2. recent \subseteq {sent[t] : t \in {u \in Askers : Publishing(u)}}
        BY <1>1, <3>3 DEF GInv, OneAtWork
      <4>3. QED
        BY <4>1, <4>2
    <3>4. QED
      BY <3>1, <3>2, <3>3
  <2>2. PICK q : recent \subseteq {q}
    BY <2>1
  <2>3. IsFiniteSet({q}) /\ Cardinality({q}) = 1
    BY FS_Singleton
  <2>4. Cardinality(recent) <= Cardinality({q}) /\ Cardinality(recent) \in Nat
    BY <2>2, <2>3, FS_Subset, FS_CardinalityType
  <2>5. QED
    BY <2>3, <2>4
<1>2. GInv => AtMostOne
  BY <1>1 DEF AtMostOne
<1>3. QED
  BY <1>2, InitGInv, NextGInv, PTL DEF Spec

(* On a connection no publisher was carried over into, and on which no     *)
(* publish timed out, a timer never outlives its request, where it would   *)
(* clear the flag of a later one.                                          *)
THEOREM NoTimerSurvives == Spec => []NoSurvivingTimer
<1>1. GInv => NoSurvivingTimer
  BY DEF GInv, GateType, OneAtWork, NothingLeft, NoSurvivingTimer
<1>2. QED
  BY <1>1, InitGInv, NextGInv, PTL DEF Spec

(* The gate is never shut with nobody left to open it. *)
THEOREM GateNeverOrphaned == Spec => []GateHasOwner
<1>1. GInv => GateHasOwner
  BY DEF GInv
<1>2. QED
  BY <1>1, InitGInv, NextGInv, PTL DEF Spec
=============================================================================
