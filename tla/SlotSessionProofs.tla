------------------------- MODULE SlotSessionProofs -------------------------
(***************************************************************************)
(* For any sessions, limit and priorities: the session queue keeps its     *)
(* books and implements the line of PrinterLine; the control sessions use  *)
(* it as its specification demands, leave no acquire() behind, and never   *)
(* use the printer beyond the limit.                                       *)
(*                                                                         *)
(* The queue's inductive invariant, IInv, adds to its properties what ties *)
(* the heap to the tasks: a live waiter has an entry (so _wake_next cannot *)
(* miss it), an entry belongs to a suspended task (so a newcomer is never  *)
(* already in the heap), and no entry precedes itself (so the entry that   *)
(* is popped really leaves the heap).                                      *)
(*                                                                         *)
(* The sessions' invariant, SlotInv, says for each place a session can be  *)
(* suspended at what its acquire() may be doing and whether _holds_slot is *)
(* set.  From it follows that every release() is an owner's, so that each  *)
(* step is a step of the queue.                                            *)
(***************************************************************************)
EXTENDS SlotSession, FiniteSetTheorems, WellFoundedInduction, TLAPS

OwnsSlot == {"granted", "grantedX", "acquired"}

OwnersIn(a) == {s \in Sessions : a[s] \in OwnsSlot}
PendingIn(a) == {s \in Sessions : a[s] = "pending"}

Irreflexive == \A s \in Sessions : s \notin ahead[s]

IInv ==
    /\ QueueTypeOK
    /\ SlotConservation
    /\ NoIdleSlot
    /\ HeapMatchesTasks
    /\ Irreflexive

-----------------------------------------------------------------------------
(* Counting owners *)

(* The sessions are finitely many, so any group of them can be counted. *)
LEMMA OwnersCountable ==
    ASSUME NEW a
    PROVE  IsFiniteSet(OwnersIn(a)) /\ Cardinality(OwnersIn(a)) \in Nat
<1>1. OwnersIn(a) \subseteq Sessions
  BY DEF OwnersIn
<1>2. IsFiniteSet(OwnersIn(a))
  BY <1>1, SessionsAssumption, FS_Subset
<1>3. QED
  BY <1>2, FS_CardinalityType

(* A session that becomes an owner adds one to their number. *)
LEMMA OwnerAdded ==
    ASSUME NEW a \in [Sessions -> AcqStates], NEW s \in Sessions,
           a[s] \notin OwnsSlot, NEW v \in OwnsSlot
    PROVE  Cardinality(OwnersIn([a EXCEPT ![s] = v])) = Cardinality(OwnersIn(a)) + 1
<1>1. OwnersIn([a EXCEPT ![s] = v]) = OwnersIn(a) \cup {s}
  BY DEF OwnersIn
<1>2. s \notin OwnersIn(a)
  BY DEF OwnersIn
<1>3. QED
  BY <1>1, <1>2, OwnersCountable, FS_AddElement

(* A session that stops being an owner takes one away. *)
LEMMA OwnerRemoved ==
    ASSUME NEW a \in [Sessions -> AcqStates], NEW s \in Sessions,
           a[s] \in OwnsSlot, NEW v, v \notin OwnsSlot
    PROVE  Cardinality(OwnersIn([a EXCEPT ![s] = v])) = Cardinality(OwnersIn(a)) - 1
<1>1. OwnersIn([a EXCEPT ![s] = v]) = OwnersIn(a) \ {s}
  BY DEF OwnersIn
<1>2. s \in OwnersIn(a)
  BY DEF OwnersIn
<1>3. QED
  BY <1>1, <1>2, OwnersCountable, FS_RemoveElement

(* A session that stays an owner, or stays none, changes nothing. *)
LEMMA OwnersKept ==
    ASSUME NEW a \in [Sessions -> AcqStates], NEW s \in Sessions, NEW v,
           v \in OwnsSlot <=> a[s] \in OwnsSlot
    PROVE  OwnersIn([a EXCEPT ![s] = v]) = OwnersIn(a)
BY DEF OwnersIn

-----------------------------------------------------------------------------
(* _wake_next *)

(* Called with the owners counted by n, one of the slots just freed and    *)
(* every live waiter in the heap, _wake_next restores the invariant.       *)
LEMMA WakeNextCorrect ==
    ASSUME ahead \in [Sessions -> SUBSET Sessions],
           prio \in [Sessions -> Priorities],
           Irreflexive,
           NEW n \in Nat, NEW ws \in SUBSET Sessions,
           NEW a \in [Sessions -> AcqStates],
           n = Cardinality(OwnersIn(a)),
           n < MaxConcurrent,
           PendingIn(a) # {} => n + 1 = MaxConcurrent,
           PendingIn(a) \subseteq ws,
           \A s \in ws : a[s] \in {"pending", "pendingX"},
           WakeNext(n, ws, a), prio' = prio
    PROVE  IInv'
<1> USE MaxConcurrentAssumption
<1> DEFINE live == {s \in ws : a[s] = "pending"}
<1>live. live = PendingIn(a)
  BY DEF PendingIn
<1>own. Owners' = OwnersIn(acq') /\ Pending' = PendingIn(acq')
  BY DEF Owners, OwnersIn, OwnsSlot, Pending, PendingIn
<1>ahead. waiters' \subseteq ws =>
             /\ ahead' \in [Sessions -> SUBSET Sessions]
             /\ Irreflexive'
  BY DEF WakeNext, Keep, Irreflexive
<1>1. CASE live = {}
  <2>1. active' = n /\ waiters' = {} /\ acq' = a
    BY <1>1 DEF WakeNext
  <2>2. Pending' = {}
    BY <2>1, <1>1, <1>live, <1>own DEF PendingIn
  <2>3. QED
    BY <2>1, <2>2, <1>own, <1>ahead
    DEF IInv, QueueTypeOK, SlotConservation, NoIdleSlot, HeapMatchesTasks
<1>2. CASE live # {}
  <2>1. PICK s \in live :
            /\ \A t \in live \ {s} : Precedes(s, t)
            /\ active' = n + 1
            /\ waiters' = {t \in ws : Precedes(s, t)}
            /\ acq' = [a EXCEPT ![s] = "granted"]
    BY <1>2 DEF WakeNext
  <2>s. s \in Sessions /\ a[s] = "pending"
    OBVIOUS
  <2>2. n + 1 = MaxConcurrent
    BY <1>2, <1>live
  <2>3. Cardinality(OwnersIn(acq')) = n + 1
    BY <2>1, <2>s, OwnerAdded DEF OwnsSlot
  <2>4. acq' \in [Sessions -> AcqStates]
    BY <2>1 DEF AcqStates
  <2>5. PendingIn(acq') = live \ {s}
    BY <2>1, <1>live DEF PendingIn
  <2>6. ~Precedes(s, s)
    <3>1. prio[s] \in Int
      BY <2>s, PrioritiesAssumption
    <3>2. ~(prio[s] < prio[s])
      BY ONLY <3>1
    <3>3. s \notin ahead[s]
      BY <2>s DEF Irreflexive
    <3>4. QED
      BY <3>2, <3>3 DEF Precedes
  <2>7. HeapMatchesTasks'
    <3>1. Pending' \subseteq waiters'
      BY <2>1, <2>5, <1>own
    <3>2. \A t \in waiters' : acq'[t] \in {"pending", "pendingX"}
      BY <2>1, <2>6
    <3>3. QED
      BY <3>1, <3>2 DEF HeapMatchesTasks
  <2>8. SlotConservation' /\ NoIdleSlot'
    BY <2>1, <2>2, <2>3, <1>own DEF SlotConservation, NoIdleSlot
  <2>9. QueueTypeOK'
    BY <2>1, <2>4, <1>ahead DEF QueueTypeOK
  <2>10. QED
    BY <2>1, <2>7, <2>8, <2>9, <1>ahead DEF IInv
<1>3. QED
  BY <1>1, <1>2

-----------------------------------------------------------------------------
(* One lemma per kind of step *)

LEMMA InitIInv == QueueInit => IInv
<1> SUFFICES ASSUME QueueInit PROVE IInv
  OBVIOUS
<1> USE DEF QueueInit
<1>1. Owners = {} /\ Pending = {}
  BY DEF Owners, Pending
<1>2. QueueTypeOK
  BY DEF QueueTypeOK, AcqStates
<1>3. SlotConservation
  BY <1>1, FS_EmptySet, MaxConcurrentAssumption DEF SlotConservation
<1>4. NoIdleSlot /\ HeapMatchesTasks /\ Irreflexive
  BY <1>1 DEF NoIdleSlot, HeapMatchesTasks, Irreflexive
<1>5. QED
  BY <1>2, <1>3, <1>4 DEF IInv

(* A step that only moves a session between states that own nothing and    *)
(* have no entry, or only between owning states, keeps the books.          *)
LEMMA QuietStep ==
    ASSUME IInv, NEW s \in Sessions, NEW v \in AcqStates \ {"pending"},
           acq' = [acq EXCEPT ![s] = v],
           v \in OwnsSlot <=> acq[s] \in OwnsSlot,
           s \in waiters => v = "pendingX",
           UNCHANGED <<active, waiters, ahead>>,
           prio' \in [Sessions -> Priorities]
    PROVE  IInv'
<1> USE DEF IInv
<1>1. QueueTypeOK'
  BY DEF QueueTypeOK
<1>2. Owners' = Owners
  BY OwnersKept DEF Owners, OwnersIn, OwnsSlot, QueueTypeOK
<1>3. Pending' = Pending \ {s}
  BY DEF Pending, QueueTypeOK
<1>4. HeapMatchesTasks'
  BY <1>3 DEF HeapMatchesTasks, QueueTypeOK
<1>5. SlotConservation' /\ NoIdleSlot' /\ Irreflexive'
  BY <1>2, <1>3 DEF SlotConservation, NoIdleSlot, Irreflexive
<1>6. QED
  BY <1>1, <1>4, <1>5

(* Every step of the acquire() tasks keeps the books. *)
LEMMA TaskStepIInv ==
    ASSUME IInv, NEW s \in Sessions, TaskStep(s)
    PROVE  IInv'
<1> USE DEF IInv
<1>T. QueueTypeOK
  OBVIOUS
<1>O. Owners = OwnersIn(acq) /\ Owners' = OwnersIn(acq')
  BY DEF Owners, OwnersIn, OwnsSlot
<1>P. Pending = PendingIn(acq) /\ Pending' = PendingIn(acq')
  BY DEF Pending, PendingIn
<1>1. CASE TakeFree(s)
  <2> USE <1>1 DEF TakeFree
  <2>1. Cardinality(Owners') = active + 1
    BY <1>T, <1>O, OwnerAdded DEF OwnsSlot, SlotConservation, QueueTypeOK
  <2>2. Pending' = Pending
    BY <1>T DEF Pending, QueueTypeOK
  <2>3. Pending = {}
    BY <1>T, MaxConcurrentAssumption DEF NoIdleSlot, QueueTypeOK
  <2>4. QueueTypeOK'
    BY <1>T DEF QueueTypeOK, AcqStates
  <2>5. SlotConservation' /\ NoIdleSlot'
    BY <1>T, <2>1, <2>2, <2>3, MaxConcurrentAssumption
    DEF SlotConservation, NoIdleSlot, QueueTypeOK
  <2>6. HeapMatchesTasks' /\ Irreflexive'
    BY <1>T, <2>2 DEF HeapMatchesTasks, Irreflexive, QueueTypeOK
  <2>7. QED
    BY <2>4, <2>5, <2>6
<1>2. CASE Enqueue(s)
  <2> USE <1>2 DEF Enqueue
  <2>1. Owners' = Owners
    BY <1>T, <1>O, OwnersKept DEF OwnsSlot, QueueTypeOK
  <2>2. s \notin waiters
    BY DEF HeapMatchesTasks
  <2>3. QueueTypeOK'
    BY <1>T DEF QueueTypeOK, AcqStates
  <2>4. SlotConservation' /\ NoIdleSlot'
    BY <1>T, <2>1, MaxConcurrentAssumption
    DEF SlotConservation, NoIdleSlot, QueueTypeOK
  <2>5. HeapMatchesTasks' /\ Irreflexive'
    BY <1>T, <2>2 DEF HeapMatchesTasks, Irreflexive, Pending, QueueTypeOK
  <2>6. QED
    BY <2>3, <2>4, <2>5
<1>3. CASE Return(s)
  <2>1. s \notin waiters
    BY <1>3 DEF Return, HeapMatchesTasks
  <2>2. QED
    BY <1>3, <1>T, <2>1, QuietStep DEF Return, OwnsSlot, AcqStates, QueueTypeOK
<1>4. CASE NeverStart(s)
  <2>1. s \notin waiters
    BY <1>4 DEF NeverStart, HeapMatchesTasks
  <2>2. QED
    BY <1>4, <1>T, <2>1, QuietStep DEF NeverStart, OwnsSlot, AcqStates, QueueTypeOK
<1>5. CASE Withdraw(s)
  <2> USE <1>5 DEF Withdraw
  <2>1. Owners' = Owners
    BY <1>T, <1>O, OwnersKept DEF OwnsSlot, QueueTypeOK
  <2>2. Pending' = Pending
    BY <1>T DEF Pending, QueueTypeOK
  <2>3. QueueTypeOK'
    BY <1>T DEF QueueTypeOK, AcqStates, Keep
  <2>4. SlotConservation' /\ NoIdleSlot'
    BY <2>1, <2>2 DEF SlotConservation, NoIdleSlot
  <2>5. HeapMatchesTasks'
    BY <1>T, <2>2 DEF HeapMatchesTasks, Pending, QueueTypeOK
  <2>6. Irreflexive'
    BY <1>T DEF Irreflexive, Keep, QueueTypeOK
  <2>7. QED
    BY <2>3, <2>4, <2>5, <2>6
<1>6. CASE HandBack(s)
  <2> DEFINE a == [acq EXCEPT ![s] = "cancelled"]
  <2>1. acq[s] = "grantedX" /\ prio' = prio
        /\ WakeNext(active - 1, waiters \ {s}, a)
    BY <1>6 DEF HandBack
  <2>2. a \in [Sessions -> AcqStates]
    BY <1>T DEF QueueTypeOK, AcqStates
  <2>3. Cardinality(OwnersIn(a)) = active - 1
    BY <1>T, <1>O, <2>1, OwnerRemoved DEF OwnsSlot, SlotConservation, QueueTypeOK
  <2>4. active - 1 \in Nat /\ active - 1 < MaxConcurrent
    BY <1>T, <2>3, OwnersCountable, MaxConcurrentAssumption
    DEF SlotConservation, QueueTypeOK
  <2>5. PendingIn(a) = Pending
    BY <1>T, <1>P, <2>1 DEF PendingIn, QueueTypeOK
  <2>6. /\ PendingIn(a) \subseteq waiters \ {s}
        /\ \A t \in waiters \ {s} : a[t] \in {"pending", "pendingX"}
    BY <1>T, <2>1, <2>5 DEF HeapMatchesTasks, QueueTypeOK, Pending
  <2>active. (active - 1) + 1 = active
    BY <1>T DEF QueueTypeOK
  <2>7. PendingIn(a) # {} => (active - 1) + 1 = MaxConcurrent
    BY ONLY IInv, <2>5, <2>active DEF IInv, NoIdleSlot
  <2> HIDE DEF a
  <2>8. QED
    BY <1>T, <2>1, <2>2, <2>3, <2>4, <2>6, <2>7, WakeNextCorrect DEF QueueTypeOK
<1>7. QED
  BY <1>1, <1>2, <1>3, <1>4, <1>5, <1>6 DEF TaskStep

(* release() keeps the books when the caller owns the slot: the clamp in   *)
(* the code is never needed.                                               *)
LEMMA ReleaseSlotIInv ==
    ASSUME IInv, NEW s \in Sessions, acq[s] = "acquired", ReleaseSlot(s)
    PROVE  IInv'
<1> USE DEF IInv
<1> DEFINE a == [acq EXCEPT ![s] = "none"]
<1>T. QueueTypeOK
  OBVIOUS
<1>P. Pending = PendingIn(acq) /\ Owners = OwnersIn(acq)
  BY DEF Pending, PendingIn, Owners, OwnersIn, OwnsSlot
<1>1. a \in [Sessions -> AcqStates]
  BY <1>T DEF QueueTypeOK, AcqStates
<1>2. Cardinality(OwnersIn(a)) = active - 1
  BY <1>T, <1>P, OwnerRemoved DEF OwnsSlot, SlotConservation, QueueTypeOK
<1>3. active - 1 \in Nat /\ active - 1 < MaxConcurrent
  BY <1>T, <1>2, OwnersCountable, MaxConcurrentAssumption
  DEF SlotConservation, QueueTypeOK
<1>4. WakeNext(active - 1, waiters, a) /\ prio' = prio
  BY <1>3 DEF ReleaseSlot
<1>5. PendingIn(a) = Pending
  BY <1>T, <1>P DEF PendingIn, QueueTypeOK
<1>6. /\ PendingIn(a) \subseteq waiters
      /\ \A t \in waiters : a[t] \in {"pending", "pendingX"}
  BY <1>T, <1>5 DEF HeapMatchesTasks, QueueTypeOK, Pending
<1>active. (active - 1) + 1 = active
  BY <1>T DEF QueueTypeOK
<1>7. PendingIn(a) # {} => (active - 1) + 1 = MaxConcurrent
  BY ONLY IInv, <1>5, <1>active DEF IInv, NoIdleSlot
<1> HIDE DEF a
<1>8. QED
  BY <1>T, <1>1, <1>2, <1>3, <1>4, <1>6, <1>7, WakeNextCorrect DEF QueueTypeOK

(* Calls, cancellations and releases keep the books. *)
LEMMA CallerStepIInv ==
    ASSUME IInv, NEW s \in Sessions, CallerStep(s)
    PROVE  IInv'
<1> USE DEF IInv
<1>T. QueueTypeOK
  OBVIOUS
<1>1. ASSUME NEW p \in Priorities, Call(s, p) PROVE IInv'
  <2>1. s \notin waiters
    BY <1>1 DEF Call, HeapMatchesTasks
  <2>2. prio' \in [Sessions -> Priorities]
    BY <1>1, <1>T DEF Call, QueueTypeOK
  <2>3. QED
    BY <1>1, <1>T, <2>1, <2>2, QuietStep DEF Call, OwnsSlot, AcqStates, QueueTypeOK
<1>2. CASE Cancel(s)
  <2>1. PICK v \in AcqStates \ {"pending"} :
            /\ acq' = [acq EXCEPT ![s] = v]
            /\ v \in OwnsSlot <=> acq[s] \in OwnsSlot
            /\ acq[s] = "pending" <=> v = "pendingX"
    BY <1>2, <1>T DEF Cancel, CancelledForm, OwnsSlot, AcqStates, QueueTypeOK
  <2>2. s \in waiters => v = "pendingX"
    BY <1>2, <2>1 DEF Cancel, HeapMatchesTasks
  <2>3. QED
    BY <1>2, <1>T, <2>1, <2>2, QuietStep DEF Cancel, QueueTypeOK
<1>3. CASE Forget(s)
  <2>1. s \notin waiters
    BY <1>3 DEF Forget, HeapMatchesTasks
  <2>2. QED
    BY <1>3, <1>T, <2>1, QuietStep DEF Forget, OwnsSlot, AcqStates, QueueTypeOK
<1>4. CASE acq[s] = "acquired" /\ ReleaseSlot(s)
  BY <1>4, ReleaseSlotIInv
<1>5. QED
  BY <1>1, <1>2, <1>3, <1>4 DEF CallerStep

-----------------------------------------------------------------------------
(* The queue's theorems *)

(* The invariant is inductive. *)
LEMMA NextIInv == IInv /\ [QueueNext]_queueVars => IInv'
<1> SUFFICES ASSUME IInv, [QueueNext]_queueVars PROVE IInv'
  OBVIOUS
<1>1. CASE UNCHANGED queueVars
  BY <1>1 DEF queueVars, IInv, QueueTypeOK, SlotConservation, NoIdleSlot,
              HeapMatchesTasks, Irreflexive, Owners, Pending
<1>2. CASE QueueNext
  BY <1>2, TaskStepIInv, CallerStepIInv DEF QueueNext
<1>3. QED
  BY <1>1, <1>2

(* The state of the queue keeps its type. *)
THEOREM QueueTypeCorrect == QueueSpec => []QueueTypeOK
<1>1. IInv => QueueTypeOK
  BY DEF IInv
<1>2. QED
  BY <1>1, InitIInv, NextIInv, PTL DEF QueueSpec

(* No slot of the printer is ever lost, invented or counted twice, and     *)
(* never more than max_concurrent are taken: acquire, release and every    *)
(* cancellation in between account for each of them.                       *)
THEOREM SlotsConserved == QueueSpec => []SlotConservation
<1>1. IInv => SlotConservation
  BY DEF IInv
<1>2. QED
  BY <1>1, InitIInv, NextIInv, PTL DEF QueueSpec

(* While anybody waits, every slot is taken: a slot that is given back is  *)
(* never left idle beside a waiter that nobody wakes.                      *)
THEOREM NoSlotIdles == QueueSpec => []NoIdleSlot
<1>1. IInv => NoIdleSlot
  BY DEF IInv
<1>2. QED
  BY <1>1, InitIInv, NextIInv, PTL DEF QueueSpec

-----------------------------------------------------------------------------
(* The queue implements the line *)

(* An entry only remembers entries that are still in the heap. *)
Arrivals == \A s \in Sessions : ahead[s] \subseteq waiters

LineInv == IInv /\ Arrivals

(* The line counts as the queue does. *)
LEMMA CountsAlike == \A S : Line!Cardinality(S) = Cardinality(S)
BY DEF Line!Cardinality, Cardinality

(* Entries only look back at entries. *)
LEMMA NextLineInv == LineInv /\ [QueueNext]_queueVars => LineInv'
<1> SUFFICES ASSUME LineInv, [QueueNext]_queueVars PROVE Arrivals'
  BY NextIInv DEF LineInv
<1> USE DEF LineInv, Arrivals
<1>1. CASE UNCHANGED <<waiters, ahead>>
  BY <1>1
<1>2. ASSUME ahead' = Keep(waiters') PROVE Arrivals'
  BY <1>2 DEF Keep
<1>3. ASSUME NEW s \in Sessions, TaskStep(s) \/ CallerStep(s) PROVE Arrivals'
  <2>1. CASE Enqueue(s)
    BY <2>1 DEF Enqueue, IInv, QueueTypeOK
  <2>2. CASE Withdraw(s)
    BY <2>2, <1>2 DEF Withdraw
  <2>3. CASE HandBack(s) \/ ReleaseSlot(s)
    BY <2>3, <1>2 DEF HandBack, ReleaseSlot, WakeNext
  <2>4. CASE TakeFree(s) \/ Return(s) \/ NeverStart(s)
    BY <2>4, <1>1 DEF TakeFree, Return, NeverStart
  <2>5. CASE Cancel(s) \/ Forget(s) \/ \E p \in Priorities : Call(s, p)
    BY <2>5, <1>1 DEF Cancel, Forget, Call
  <2>6. QED
    BY <1>3, <2>1, <2>2, <2>3, <2>4, <2>5 DEF TaskStep, CallerStep
<1>4. CASE UNCHANGED queueVars
  BY <1>1, <1>4 DEF queueVars
<1>5. QED
  BY <1>3, <1>4 DEF QueueNext

(* A step that leaves owners, live waiters and what these are ordered by   *)
(* alone is no step of the line.                                           *)
LEMMA QuietOnLine ==
    ASSUME Owners' = Owners, Pending' = Pending,
           \A t \in Pending : prio'[t] = prio[t] /\ ahead'[t] \cap Pending = ahead[t] \cap Pending
    PROVE  UNCHANGED Line!lineVars
BY DEF Line!lineVars

(* The line as its members see it, when S leave it. *)
LEMMA LeavesLine ==
    ASSUME NEW S \in SUBSET Pending, Pending' = Pending \ S, prio' = prio,
           \A t \in Pending' : ahead'[t] \cap Pending' = ahead[t] \cap Pending'
    PROVE  Line!LeaveLine(S)
<1>1. Pending \subseteq Sessions
  BY DEF Pending
<1>2. QED
  BY <1>1 DEF Line!LeaveLine, Line!NoRank

(* A slot given back goes, in the same step, to the next in line. *)
LEMMA WakeNextIsFinish ==
    ASSUME LineInv, NEW s \in Owners, NEW v \in AcqStates \ {"pending"}, v \notin OwnsSlot,
           NEW ws \in SUBSET waiters, Pending \subseteq ws,
           WakeNext(active - 1, ws, [acq EXCEPT ![s] = v]), prio' = prio
    PROVE  Line!Finish(s)
<1> DEFINE a == [acq EXCEPT ![s] = v]
           live == {t \in ws : a[t] = "pending"}
<1>T. /\ s \in Sessions /\ acq \in [Sessions -> AcqStates] /\ waiters \subseteq Sessions
      /\ active \in Nat /\ active - 1 < MaxConcurrent
      /\ ahead \in [Sessions -> SUBSET Sessions]
  BY MaxConcurrentAssumption DEF LineInv, IInv, QueueTypeOK, SlotConservation, Owners
<1>1. a \in [Sessions -> AcqStates] /\ live = Pending
      /\ \A t \in Sessions : a[t] = "pending" <=> t \in Pending
  BY <1>T DEF Pending, Owners
<1>2. \A t \in Sessions : a[t] \in OwnsSlot <=> t \in Owners \ {s}
  BY <1>T DEF Owners, OwnsSlot
<1>3. CASE live = {}
  <2>1. acq' = a
    BY <1>3, <1>T DEF WakeNext
  <2>2. Pending = {} /\ Pending' = {} /\ Owners' = Owners \ {s}
    BY <1>1, <1>2, <1>3, <2>1 DEF Pending, Owners, OwnsSlot
  <2>3. QED
    BY <2>2 DEF Line!Finish
<1>4. CASE live # {}
  <2>1. PICK t \in live :
            /\ \A u \in live \ {t} : Precedes(t, u)
            /\ waiters' = {u \in ws : Precedes(t, u)}
            /\ acq' = [a EXCEPT ![t] = "granted"]
            /\ ahead' = Keep(waiters')
    <3>1. ~(active - 1 >= MaxConcurrent)
      BY <1>T, MaxConcurrentAssumption
    <3>2. WakeNext(active - 1, ws, a)
      OBVIOUS
    <3> HIDE DEF a
    <3>3. QED
      BY <1>4, <3>1, <3>2 DEF WakeNext
  <2>2. t \in Pending /\ t \in Sessions
    BY <1>1 DEF Pending
  <2>3. Owners' = (Owners \ {s}) \cup {t}
    BY <1>1, <1>2, <2>1, <2>2 DEF Owners, OwnsSlot
  <2>4. Pending' = Pending \ {t}
    BY <1>1, <2>1, <2>2 DEF Pending
  <2>5. Pending' \subseteq waiters'
    BY <1>1, <2>1, <2>4
  <2>6. \A u \in Pending' : ahead'[u] \cap Pending' = ahead[u] \cap Pending'
    BY <2>1, <2>4, <2>5 DEF Keep, Pending
  <2>7. Line!LeaveLine({t})
    BY <2>2, <2>4, <2>6, LeavesLine
  <2>8. Line!IsNext(t)
    <3>1. ASSUME NEW u \in Pending \ {t} PROVE Line!Sooner(t, u)
      <4>1. Precedes(t, u) /\ u \in Sessions
        BY <1>1, <2>1 DEF Pending
      <4>2. QED
        BY <2>2, <4>1 DEF Precedes, Line!Sooner
    <3>2. QED
      BY <2>2, <3>1 DEF Line!IsNext
  <2>9. QED
    BY <2>2, <2>3, <2>7, <2>8 DEF Line!Finish
<1>5. QED
  BY <1>3, <1>4

(* Every step of an acquire() task is a step of the line, or none. *)
LEMMA TaskStepOnLine ==
    ASSUME LineInv, NEW s \in Sessions, TaskStep(s)
    PROVE  [Line!LineNext]_(Line!lineVars)
<1>T. /\ QueueTypeOK /\ HeapMatchesTasks /\ SlotConservation /\ NoIdleSlot /\ Arrivals
      /\ MaxConcurrent \in Nat
  BY MaxConcurrentAssumption DEF LineInv, IInv
<1> USE DEF QueueTypeOK
<1>1. CASE TakeFree(s)
  <2>1. Owners' = Owners \cup {s} /\ s \notin Owners /\ s \notin Pending
    BY <1>1, <1>T DEF TakeFree, Owners, Pending
  <2>2. Pending = {} /\ Pending' = {}
    BY <1>1, <1>T DEF TakeFree, NoIdleSlot, Pending
  <2>3. Cardinality(Owners) < MaxConcurrent
    BY <1>1, <1>T DEF TakeFree, SlotConservation
  <2>4. Line!TakePlace(s)
    BY <2>1, <2>2, <2>3, CountsAlike DEF Line!TakePlace
  <2>5. QED
    BY <2>4 DEF Line!LineNext
<1>2. CASE Enqueue(s)
  <2>1. Owners' = Owners /\ s \notin Owners /\ s \notin Pending
    BY <1>2, <1>T DEF Enqueue, Owners, Pending
  <2>2. Pending' = Pending \cup {s}
    BY <1>2, <1>T DEF Enqueue, Pending
  <2>3. Cardinality(Owners) = MaxConcurrent
    BY <1>2, <1>T DEF Enqueue, SlotConservation
  <2>4. s \notin waiters
    BY <1>2, <1>T DEF Enqueue, HeapMatchesTasks
  <2>5. ahead'[s] \cap Pending' = Pending
    BY <1>2, <1>T, <2>2, <2>4 DEF Enqueue, HeapMatchesTasks
  <2>6. \A t \in Sessions \ {s} : ahead'[t] \cap Pending' = ahead[t] \cap Pending
    BY <1>2, <1>T, <2>2, <2>4 DEF Enqueue, Arrivals
  <2>7. PICK p \in Priorities : p = prio[s] /\ prio' = prio
    BY <1>2, <1>T DEF Enqueue
  <2>8. Line!Join(s, p)
    BY <2>1, <2>2, <2>3, <2>5, <2>6, <2>7, CountsAlike DEF Line!Join
  <2>9. QED
    BY <2>8 DEF Line!LineNext
<1>3. CASE Return(s) \/ NeverStart(s)
  <2>1. Owners' = Owners /\ Pending' = Pending /\ UNCHANGED <<prio, ahead>>
    BY <1>3, <1>T DEF Return, NeverStart, Owners, Pending
  <2>2. QED
    BY <2>1, QuietOnLine
<1>4. CASE Withdraw(s)
  <2>1. Owners' = Owners /\ Pending' = Pending /\ prio' = prio
    BY <1>4, <1>T DEF Withdraw, Owners, Pending
  <2>2. Pending \subseteq waiters \ {s}
    BY <1>4, <1>T DEF Withdraw, HeapMatchesTasks, Pending
  <2>3. \A t \in Pending : ahead'[t] \cap Pending = ahead[t] \cap Pending
    BY <1>4, <2>2 DEF Withdraw, Keep, Pending
  <2>4. QED
    BY <2>1, <2>3, QuietOnLine
<1>5. CASE HandBack(s)
  <2>1. s \in Owners /\ "cancelled" \in AcqStates \ {"pending"} /\ "cancelled" \notin OwnsSlot
    BY <1>5 DEF HandBack, Owners, AcqStates, OwnsSlot
  <2>2. Pending \subseteq waiters \ {s}
    BY <1>5, <1>T DEF HandBack, HeapMatchesTasks, Pending
  <2>3. Line!Finish(s)
    BY <1>5, <2>1, <2>2, WakeNextIsFinish DEF HandBack
  <2>4. QED
    BY <2>3 DEF Line!LineNext
<1>6. QED
  BY <1>1, <1>2, <1>3, <1>4, <1>5 DEF TaskStep

(* ... and so is every step of a caller. *)
LEMMA CallerStepOnLine ==
    ASSUME LineInv, NEW s \in Sessions, CallerStep(s)
    PROVE  [Line!LineNext]_(Line!lineVars)
<1>T. QueueTypeOK /\ HeapMatchesTasks /\ SlotConservation /\ MaxConcurrent \in Nat
  BY MaxConcurrentAssumption DEF LineInv, IInv
<1> USE DEF QueueTypeOK
<1>1. CASE Forget(s) \/ \E p \in Priorities : Call(s, p)
  <2>1. Owners' = Owners /\ Pending' = Pending /\ ahead' = ahead
    BY <1>1, <1>T DEF Forget, Call, Owners, Pending
  <2>2. \A t \in Pending : prio'[t] = prio[t]
    BY <1>1, <1>T DEF Forget, Call, Pending
  <2>3. QED
    BY <2>1, <2>2, QuietOnLine
<1>2. CASE Cancel(s)
  <2>1. /\ acq[s] = "new" => acq' = [acq EXCEPT ![s] = "newX"]
        /\ acq[s] = "granted" => acq' = [acq EXCEPT ![s] = "grantedX"]
        /\ acq[s] = "pending" => acq' = [acq EXCEPT ![s] = "pendingX"]
        /\ UNCHANGED <<prio, ahead>>
    BY <1>2 DEF Cancel, CancelledForm, AcqStates
  <2>2. Owners' = Owners /\ Pending' = Pending \ {s}
    BY <1>2, <1>T, <2>1 DEF Cancel, Owners, Pending
  <2>3. CASE s \in Pending
    <3>1. Line!LeaveLine({s})
      BY <2>1, <2>2, <2>3, LeavesLine
    <3>2. Line!GiveUp(s)
      BY <2>2, <2>3, <3>1 DEF Line!GiveUp
    <3>3. QED
      BY <3>2 DEF Line!LineNext
  <2>4. CASE s \notin Pending
    BY <2>1, <2>2, <2>4, QuietOnLine
  <2>5. QED
    BY <2>3, <2>4
<1>3. CASE acq[s] = "acquired" /\ ReleaseSlot(s)
  <2>1. s \in Owners /\ "none" \in AcqStates \ {"pending"} /\ "none" \notin OwnsSlot
    BY <1>3 DEF Owners, AcqStates, OwnsSlot
  <2>2. active # 0
    <3>1. IsFiniteSet(Owners) /\ Owners = OwnersIn(acq)
      BY SessionsAssumption, FS_Subset DEF Owners, OwnersIn, OwnsSlot
    <3>2. Cardinality(Owners) # 0
      BY <2>1, <3>1, FS_EmptySet
    <3>3. QED
      BY <1>T, <3>2 DEF SlotConservation
  <2>3. WakeNext(active - 1, waiters, [acq EXCEPT ![s] = "none"]) /\ prio' = prio
    BY <1>3, <1>T, <2>2 DEF ReleaseSlot
  <2>4. Line!Finish(s)
    BY <1>T, <2>1, <2>3, WakeNextIsFinish DEF HeapMatchesTasks
  <2>5. QED
    BY <2>4 DEF Line!LineNext
<1>4. QED
  BY <1>1, <1>2, <1>3 DEF CallerStep

LEMMA InitOnLine == QueueInit => LineInv /\ Line!LineInit
<1> SUFFICES ASSUME QueueInit PROVE LineInv /\ Line!LineInit
  OBVIOUS
<1>1. Owners = {} /\ Pending = {}
  BY DEF QueueInit, Owners, Pending
<1>2. Arrivals
  BY DEF QueueInit, Arrivals
<1>3. Line!LineInit
  BY <1>1 DEF Line!LineInit, Line!NoRank
<1>4. QED
  BY <1>2, <1>3, InitIInv DEF LineInv

(* Whatever the futures, the heap and the cancellations do, the queue is   *)
(* the line of clients PrinterLine describes: uploads first, equal         *)
(* priorities in order of arrival, no place empty while somebody waits.    *)
THEOREM QueueIsLine == QueueSpec => ImplementsLine
<1>1. LineInv /\ [QueueNext]_queueVars => [Line!LineNext]_(Line!lineVars)
  <2> SUFFICES ASSUME LineInv, [QueueNext]_queueVars PROVE [Line!LineNext]_(Line!lineVars)
    OBVIOUS
  <2>1. CASE UNCHANGED queueVars
    <3>1. Owners' = Owners /\ Pending' = Pending /\ UNCHANGED <<prio, ahead>>
      BY <2>1 DEF queueVars, Owners, Pending
    <3>2. QED
      BY <3>1, QuietOnLine
  <2>2. QED
    BY <2>1, TaskStepOnLine, CallerStepOnLine DEF QueueNext
<1>2. QED
  BY <1>1, InitOnLine, NextLineInv, PTL DEF QueueSpec, ImplementsLine, Line!LineSpec

-----------------------------------------------------------------------------
(* One waiter is next *)

(* The counters order the entries of the heap totally. *)
Seniority ==
    /\ \A s, t \in waiters : s # t => s \in ahead[t] \/ t \in ahead[s]
    /\ \A s, t \in waiters : ~(s \in ahead[t] /\ t \in ahead[s])
    /\ \A r, s, t \in waiters : r \in ahead[s] /\ s \in ahead[t] => r \in ahead[t]

(* Entries leave the order as it is; a new one is the last. *)
LEMMA NextSeniority == LineInv /\ Seniority /\ [QueueNext]_queueVars => Seniority'
<1> SUFFICES ASSUME LineInv, Seniority, [QueueNext]_queueVars PROVE Seniority'
  OBVIOUS
<1>T. waiters \subseteq Sessions /\ ahead \in [Sessions -> SUBSET Sessions]
  BY DEF LineInv, IInv, QueueTypeOK
<1>1. ASSUME UNCHANGED <<waiters, ahead>> PROVE Seniority'
  BY <1>1 DEF Seniority
<1>2. ASSUME waiters' \subseteq waiters, ahead' = Keep(waiters') PROVE Seniority'
  <2>1. \A t \in waiters' : ahead'[t] = ahead[t] \cap waiters'
    BY <1>2, <1>T DEF Keep
  <2>2. QED
    BY <1>2, <2>1 DEF Seniority
<1>3. ASSUME NEW s \in Sessions, TaskStep(s) \/ CallerStep(s) PROVE Seniority'
  <2>1. CASE Enqueue(s)
    <3>1. s \notin waiters
      BY <2>1 DEF Enqueue, LineInv, IInv, HeapMatchesTasks
    <3>2. /\ waiters' = waiters \cup {s} /\ ahead'[s] = waiters
          /\ \A t \in waiters : ahead'[t] = ahead[t] /\ s \notin ahead[t]
      BY <2>1, <3>1, <1>T DEF Enqueue, LineInv, Arrivals
    <3>3. QED
      BY <3>1, <3>2 DEF Seniority
  <2>2. CASE Withdraw(s)
    BY <2>2, <1>2 DEF Withdraw
  <2>3. CASE HandBack(s) \/ ReleaseSlot(s)
    <3>1. waiters' \subseteq waiters /\ ahead' = Keep(waiters')
      BY <2>3 DEF HandBack, ReleaseSlot, WakeNext
    <3>2. QED
      BY <3>1, <1>2
  <2>4. CASE TakeFree(s) \/ Return(s) \/ NeverStart(s)
    BY <2>4, <1>1 DEF TakeFree, Return, NeverStart
  <2>5. CASE Cancel(s) \/ Forget(s) \/ \E p \in Priorities : Call(s, p)
    BY <2>5, <1>1 DEF Cancel, Forget, Call
  <2>6. QED
    BY <1>3, <2>1, <2>2, <2>3, <2>4, <2>5 DEF TaskStep, CallerStep
<1>4. CASE UNCHANGED queueVars
  BY <1>1, <1>4 DEF queueVars
<1>5. QED
  BY <1>3, <1>4 DEF QueueNext

(* Priority and counter together order the live waiters totally. *)
LEMMA PrecedesOrders ==
    ASSUME LineInv, Seniority
    PROVE  /\ \A s, t \in Pending : s # t => Precedes(s, t) \/ Precedes(t, s)
           /\ \A s, t \in Pending : ~(Precedes(s, t) /\ Precedes(t, s))
           /\ \A r, s, t \in Pending : Precedes(r, s) /\ Precedes(s, t) => Precedes(r, t)
<1>1. Pending \subseteq waiters /\ \A s \in Pending : prio[s] \in Int
  BY PrioritiesAssumption DEF LineInv, IInv, QueueTypeOK, HeapMatchesTasks, Pending
<1>2. ASSUME NEW s \in Pending, NEW t \in Pending
      PROVE  /\ s # t => Precedes(s, t) \/ Precedes(t, s)
             /\ ~(Precedes(s, t) /\ Precedes(t, s))
  BY <1>1 DEF Precedes, Seniority
<1>3. ASSUME NEW r \in Pending, NEW s \in Pending, NEW t \in Pending,
             Precedes(r, s), Precedes(s, t)
      PROVE  Precedes(r, t)
  BY <1>1, <1>3 DEF Precedes, Seniority
<1>4. QED
  BY <1>2, <1>3

(* A nonempty set of numbers has a least one, and so has what they measure. *)
LEMMA LeastOf ==
    ASSUME NEW T \in SUBSET Nat, T # {}
    PROVE  \E m \in T : \A n \in T : m <= n
<1> DEFINE R == OpToRel(<, Nat)
<1>1. IsWellFoundedOn(R, Nat)
  BY NatLessThanWellFounded
<1>2. \A m, n \in Nat : n < m => <<n, m>> \in R
  BY DEF OpToRel
<1> HIDE DEF R
<1>3. PICK m \in T : \A n \in T : ~ (<<n, m>> \in R)
  BY <1>1, WFMin
<1>4. ASSUME NEW n \in T PROVE m <= n
  <2>1. m \in Nat /\ n \in Nat
    OBVIOUS
  <2>2. ~(n < m)
    BY <2>1, <1>2, <1>3
  <2>3. QED
    BY <2>1, <2>2
<1>5. QED
  BY <1>4

LEMMA LeastMeasured ==
    ASSUME NEW S, S # {}, NEW f, \A s \in S : f[s] \in Nat
    PROVE  \E s \in S : \A t \in S : f[s] <= f[t]
<1> DEFINE T == {f[s] : s \in S}
<1>1. T \in SUBSET Nat /\ T # {}
  OBVIOUS
<1>2. PICK m \in T : \A n \in T : m <= n
  <2> HIDE DEF T
  <2>1. QED
    BY <1>1, LeastOf
<1>3. QED
  BY <1>2

(* The one that the fewest precede is preceded by nobody. *)
LEMMA OrderHasNext ==
    ASSUME LineInv, Seniority
    PROVE  OneIsNext
<1> SUFFICES ASSUME NEW S \in SUBSET Pending, S # {}
             PROVE  \E s \in S : \A t \in S \ {s} : Precedes(s, t) /\ ~Precedes(t, s)
  BY DEF OneIsNext
<1> DEFINE Before(s) == {t \in S : Precedes(t, s)}
           f == [s \in S |-> Cardinality(Before(s))]
<1>1. IsFiniteSet(S)
  BY SessionsAssumption, FS_Subset DEF Pending
<1>2. \A s \in S : IsFiniteSet(Before(s)) /\ Cardinality(Before(s)) \in Nat
  BY <1>1, FS_Subset, FS_CardinalityType
<1>3. PICK s \in S : \A t \in S : f[s] <= f[t]
  <2>1. \A s \in S : f[s] \in Nat
    BY <1>2
  <2> HIDE DEF f
  <2>2. QED
    BY <2>1, LeastMeasured
<1>4. ASSUME NEW t \in S \ {s}
      PROVE  Precedes(s, t) /\ ~Precedes(t, s)
  <2>1. (Precedes(s, t) \/ Precedes(t, s)) /\ ~(Precedes(s, t) /\ Precedes(t, s))
    BY PrecedesOrders
  <2>2. ASSUME Precedes(t, s) PROVE FALSE
    <3>1. Before(t) \subseteq Before(s)
      BY <2>2, PrecedesOrders
    <3>2. t \in Before(s) /\ t \notin Before(t)
      BY <2>2, PrecedesOrders
    <3>3. f[s] = Cardinality(Before(s)) /\ f[t] = Cardinality(Before(t))
      OBVIOUS
    <3> HIDE DEF Before, f
    <3>4. /\ Cardinality(Before(t)) <= Cardinality(Before(s))
          /\ Cardinality(Before(s)) # Cardinality(Before(t))
      BY <1>2, <3>1, <3>2, FS_Subset
    <3>5. QED
      BY <1>2, <1>3, <3>3, <3>4
  <2>3. QED
    BY <2>1, <2>2
<1>5. QED
  BY <1>4

(* Whatever the cancellations leave of the heap, of any group of waiters   *)
(* exactly one is next: a release never finds waiters and wakes none.      *)
THEOREM SomebodyIsNext == QueueSpec => []OneIsNext
<1>1. QueueInit => Seniority
  BY DEF QueueInit, Seniority
<1>2. LineInv /\ Seniority => OneIsNext
  BY OrderHasNext
<1>3. QED
  BY <1>1, <1>2, InitOnLine, NextLineInv, NextSeniority, PTL DEF QueueSpec

-----------------------------------------------------------------------------
(* The sessions *)

Live == {"new", "pending", "granted", "acquired"}
Ending == {"newX", "pendingX", "grantedX", "cancelled"}

(* What a session suspended at l may have: acquire() at a, the flag at h.  *)
Fits(l, a, h) ==
    /\ l \in {"absent", "idle", "leaving", "parted"} => a = "none" /\ ~h
    /\ l \in {"queued", "lost", "cut"} => a \in Live /\ ~h
    /\ l = "won" => a = "acquired" /\ ~h
    /\ l \in {"lostAcq", "cutAcq"} => a \in Ending /\ ~h
    /\ l \in {"opening", "ready", "closing", "parting"} => a = "acquired" /\ h

SessionFits(s) == Fits(pc[s], acq[s], s \in holds)

SlotInv ==
    /\ IInv
    /\ TypeOK
    /\ \A s \in Sessions : SessionFits(s)

(* All that a step of s may do to another session t: wake it. *)
Undisturbed(t) ==
    /\ pc'[t] = pc[t]
    /\ t \in holds' <=> t \in holds
    /\ acq'[t] = acq[t] \/ (acq[t] = "pending" /\ acq'[t] = "granted")

-----------------------------------------------------------------------------
(* The queue's operations, seen from a session *)

(* _wake_next changes nobody's acquire() except one it resolves. *)
LEMMA WakeNextWakes ==
    ASSUME NEW n, NEW ws \in SUBSET Sessions, NEW a \in [Sessions -> AcqStates],
           WakeNext(n, ws, a), NEW t \in Sessions
    PROVE  acq'[t] = a[t] \/ (a[t] = "pending" /\ acq'[t] = "granted")
BY DEF WakeNext

(* release() by a session frees that session, and may wake another. *)
LEMMA ReleaseFrees ==
    ASSUME TypeOK, NEW s \in Sessions, ReleaseSlot(s)
    PROVE  /\ acq'[s] = "none"
           /\ \A t \in Sessions \ {s} :
                 acq'[t] = acq[t] \/ (acq[t] = "pending" /\ acq'[t] = "granted")
<1> DEFINE a == [acq EXCEPT ![s] = "none"]
<1>1. a \in [Sessions -> AcqStates] /\ waiters \in SUBSET Sessions
  BY DEF TypeOK, QueueTypeOK, AcqStates
<1>2. \A t \in Sessions : acq'[t] = a[t] \/ (a[t] = "pending" /\ acq'[t] = "granted")
  BY <1>1, WakeNextWakes DEF ReleaseSlot
<1>3. a[s] = "none" /\ \A t \in Sessions \ {s} : a[t] = acq[t]
  BY DEF TypeOK, QueueTypeOK
<1>4. QED
  BY <1>2, <1>3

(* A session that is not cancelled in its queueing keeps an acquire() that *)
(* is live; one that is, comes to the end of it.                           *)
LEMMA TaskStepMoves ==
    ASSUME TypeOK, NEW s \in Sessions, TaskStep(s)
    PROVE  /\ \/ acq[s] \in {"new", "granted"} /\ acq'[s] \in Live
              \/ acq[s] \in Ending /\ acq'[s] \in Ending
           /\ \A t \in Sessions \ {s} :
                 acq'[t] = acq[t] \/ (acq[t] = "pending" /\ acq'[t] = "granted")
<1> USE DEF Live, Ending
<1>T. acq \in [Sessions -> AcqStates] /\ waiters \in SUBSET Sessions
  BY DEF TypeOK, QueueTypeOK
<1>1. CASE TakeFree(s)
  BY <1>1, <1>T DEF TakeFree
<1>2. CASE Enqueue(s)
  BY <1>2, <1>T DEF Enqueue
<1>3. CASE Return(s)
  BY <1>3, <1>T DEF Return
<1>4. CASE NeverStart(s)
  BY <1>4, <1>T DEF NeverStart
<1>5. CASE Withdraw(s)
  BY <1>5, <1>T DEF Withdraw
<1>6. CASE HandBack(s)
  <2> DEFINE a == [acq EXCEPT ![s] = "cancelled"]
  <2>1. a \in [Sessions -> AcqStates] /\ waiters \ {s} \in SUBSET Sessions
    BY <1>T DEF AcqStates
  <2>2. \A t \in Sessions : acq'[t] = a[t] \/ (a[t] = "pending" /\ acq'[t] = "granted")
    BY <1>6, <2>1, WakeNextWakes DEF HandBack
  <2>3. a[s] = "cancelled" /\ \A t \in Sessions \ {s} : a[t] = acq[t]
    BY <1>T
  <2>4. acq[s] = "grantedX"
    BY <1>6 DEF HandBack
  <2>5. QED
    BY <2>2, <2>3, <2>4
<1>7. QED
  BY <1>1, <1>2, <1>3, <1>4, <1>5, <1>6 DEF TaskStep

(* A session that is merely woken fits where it is. *)
LEMMA WokenFits ==
    ASSUME NEW t \in Sessions, SessionFits(t), Undisturbed(t)
    PROVE  SessionFits(t)'
BY DEF SessionFits, Undisturbed, Fits, Live, Ending

-----------------------------------------------------------------------------
(* Every step is a step of the queue, or none *)

LEMMA DropIsQueueStep ==
    ASSUME SlotInv, NEW s \in Sessions, DropSlot(s)
    PROVE  [QueueNext]_queueVars
<1>1. CASE s \in holds /\ ReleaseSlot(s)
  <2>1. acq[s] = "acquired"
    BY <1>1 DEF SlotInv, TypeOK, SessionFits, Fits, SessionStates
  <2>2. QED
    BY <1>1, <2>1 DEF CallerStep, QueueNext
<1>2. CASE UNCHANGED queueVars
  BY <1>2
<1>3. QED
  BY <1>1, <1>2 DEF DropSlot

LEMMA StepIsQueueStep == SlotInv /\ [Next]_vars => [QueueNext]_queueVars
<1> SUFFICES ASSUME SlotInv, [Next]_vars PROVE [QueueNext]_queueVars
  OBVIOUS
<1>1. CASE UNCHANGED vars \/ Stop
  BY <1>1 DEF vars, Stop
<1>2. ASSUME NEW s \in Sessions, LoopStep(s) PROVE [QueueNext]_queueVars
  <2>1. CASE AcquireTask(s)
    BY <2>1 DEF AcquireTask, QueueNext
  <2>2. CASE WaitWon(s) \/ WaitGone(s) \/ WaitCut(s) \/ TakeSlot(s)
    BY <2>2 DEF WaitWon, WaitGone, WaitCut, TakeSlot
  <2>3. CASE GiveUp(s)
    BY <2>3 DEF GiveUp, CallerStep, QueueNext
  <2>4. CASE GiveUpLate(s)
    BY <2>4 DEF GiveUpLate, CallerStep, QueueNext
  <2>5. CASE GaveUp(s)
    BY <2>5 DEF GaveUp, CallerStep, QueueNext
  <2>6. CASE Closed(s) \/ Parted(s) \/ Unwound(s)
    BY <2>6, DropIsQueueStep DEF Closed, Parted, Unwound
  <2>7. CASE Left(s)
    BY <2>7 DEF Left
  <2>8. QED
    BY <1>2, <2>1, <2>2, <2>3, <2>4, <2>5, <2>6, <2>7 DEF LoopStep
<1>3. ASSUME NEW s \in Sessions, PeerStep(s) PROVE [QueueNext]_queueVars
  <2>1. CASE \E p \in Priorities : Request(s, p)
    BY <2>1 DEF Request, CallerStep, QueueNext
  <2>2. CASE OpenRefused(s)
    BY <2>2, DropIsQueueStep DEF OpenRefused
  <2>3. CASE Connect(s) \/ Disconnect(s) \/ Pipeline(s) \/ ReadNext(s)
    BY <2>3 DEF Connect, Disconnect, Pipeline, ReadNext
  <2>5. CASE Opened(s) \/ Close(s) \/ Leave(s)
    BY <2>5 DEF Opened, Close, Leave
  <2>4. QED
    BY <1>3, <2>1, <2>2, <2>3, <2>5 DEF PeerStep
<1>4. QED
  BY <1>1, <1>2, <1>3 DEF Next

-----------------------------------------------------------------------------
(* The invariant *)

LEMMA InitSlotInv == Init => SlotInv
<1> SUFFICES ASSUME Init PROVE SlotInv
  OBVIOUS
<1>1. IInv
  BY InitIInv DEF Init
<1>2. TypeOK
  BY <1>1 DEF Init, TypeOK, IInv, SessionStates
<1>3. ASSUME NEW s \in Sessions PROVE SessionFits(s)
  BY DEF Init, QueueInit, SessionFits, Fits
<1>4. QED
  BY <1>1, <1>2, <1>3 DEF SlotInv

(* What the session s itself has after one of its steps. *)
LEMMA OwnStepFits ==
    ASSUME SlotInv, NEW s \in Sessions, LoopStep(s) \/ PeerStep(s)
    PROVE  SessionFits(s)' /\ \A t \in Sessions \ {s} : Undisturbed(t)
<1> USE DEF Undisturbed, Goto
<1>T. TypeOK /\ SessionFits(s)
  BY DEF SlotInv
<1>A. /\ acq \in [Sessions -> AcqStates]
      /\ pc \in [Sessions -> SessionStates]
      /\ UNCHANGED acq => \A t \in Sessions : acq'[t] = acq[t]
      /\ UNCHANGED pc => \A t \in Sessions : pc'[t] = pc[t]
  BY <1>T DEF TypeOK, QueueTypeOK
<1>D. ASSUME DropSlot(s)
      PROVE  /\ s \notin holds'
             /\ s \in holds => acq'[s] = "none"
             /\ s \notin holds => acq'[s] = acq[s]
             /\ \A t \in Sessions \ {s} :
                   /\ t \in holds' <=> t \in holds
                   /\ acq'[t] = acq[t] \/ (acq[t] = "pending" /\ acq'[t] = "granted")
  <2>1. CASE s \in holds /\ holds' = holds \ {s} /\ ReleaseSlot(s)
    BY <2>1, <1>T, ReleaseFrees
  <2>2. CASE s \notin holds /\ UNCHANGED <<holds, queueVars>>
    BY <2>2 DEF queueVars
  <2>3. QED
    BY <1>D, <2>1, <2>2 DEF DropSlot
<1>1. CASE AcquireTask(s)
  <2>1. UNCHANGED <<pc, holds>>
    BY <1>1 DEF AcquireTask, sessionVars
  <2>2. TaskStep(s)
    BY <1>1 DEF AcquireTask
  <2>3. QED
    BY <2>1, <2>2, <1>T, TaskStepMoves DEF SessionFits, Fits, Live, Ending
<1>2. CASE WaitWon(s) \/ WaitGone(s) \/ WaitCut(s) \/ TakeSlot(s)
  <2>1. UNCHANGED acq
    BY <1>2 DEF WaitWon, WaitGone, WaitCut, TakeSlot, queueVars
  <2>2. QED
    BY <1>2, <2>1, <1>T, <1>A
       DEF WaitWon, WaitGone, WaitCut, TakeSlot, Resumes, SessionFits, Fits, Live
<1>3. CASE GiveUp(s)
  BY <1>3, <1>T, <1>A
     DEF GiveUp, Cancel, CancelledForm, SessionFits, Fits, Live, Ending, AcqStates
<1>4. CASE GiveUpLate(s)
  <2>1. ReleaseSlot(s) /\ UNCHANGED holds /\ pc[s] \in {"lost", "cut"}
    BY <1>4 DEF GiveUpLate
  <2>2. pc' = [pc EXCEPT ![s] = AfterGivingUp(s)] /\ AfterGivingUp(s) \in {"idle", "leaving"}
    BY <1>4 DEF GiveUpLate, AfterGivingUp
  <2>3. QED
    BY <2>1, <2>2, <1>T, <1>A, ReleaseFrees DEF SessionFits, Fits
<1>5. CASE GaveUp(s)
  <2>1. pc' = [pc EXCEPT ![s] = AfterGivingUp(s)] /\ AfterGivingUp(s) \in {"idle", "leaving"}
    BY <1>5 DEF GaveUp, AfterGivingUp
  <2>2. QED
    BY <1>5, <2>1, <1>T, <1>A DEF GaveUp, Forget, SessionFits, Fits
<1>6. CASE Closed(s) \/ Parted(s) \/ Unwound(s) \/ OpenRefused(s)
  <2>1. /\ DropSlot(s)
        /\ pc[s] \in {"closing", "parting", "leaving", "opening"}
        /\ \E l \in {"idle", "leaving", "parted"} : pc' = [pc EXCEPT ![s] = l]
    BY <1>6 DEF Closed, Parted, Unwound, OpenRefused, Resumes
  <2>2. QED
    BY <2>1, <1>D, <1>T, <1>A DEF SessionFits, Fits
<1>7. CASE \E p \in Priorities : Request(s, p)
  BY <1>7, <1>T, <1>A DEF Request, Call, Resumes, SessionFits, Fits, Live
<1>8. CASE Connect(s) \/ Opened(s) \/ Close(s) \/ Leave(s) \/ Left(s)
  <2>1. UNCHANGED <<acq, holds>>
    BY <1>8 DEF Connect, Opened, Close, Leave, Left, queueVars
  <2>2. QED
    BY <1>8, <2>1, <1>T, <1>A
       DEF Connect, Opened, Close, Leave, Left, Resumes, SessionFits, Fits
<1>9. CASE Disconnect(s) \/ Pipeline(s) \/ ReadNext(s)
  BY <1>9, <1>T, <1>A DEF Disconnect, Pipeline, ReadNext, queueVars, SessionFits
<1>10. QED
  BY <1>1, <1>2, <1>3, <1>4, <1>5, <1>6, <1>7, <1>8, <1>9 DEF LoopStep, PeerStep

(* The variables of the sessions stay well typed. *)
LEMMA StepTypes ==
    ASSUME TypeOK, QueueTypeOK', Next
    PROVE  TypeOK'
<1> USE DEF TypeOK, SessionStates, Goto
<1>1. CASE Stop
  BY <1>1 DEF Stop
<1>2. ASSUME NEW s \in Sessions, DropSlot(s) PROVE holds' \in SUBSET Sessions
  BY <1>2 DEF DropSlot
<1>3. ASSUME NEW s \in Sessions, LoopStep(s) PROVE TypeOK'
  <2>1. CASE AcquireTask(s)
    BY <2>1 DEF AcquireTask, sessionVars
  <2>2. CASE WaitWon(s) \/ WaitGone(s) \/ WaitCut(s) \/ TakeSlot(s)
    BY <2>2 DEF WaitWon, WaitGone, WaitCut, TakeSlot, Resumes, Caught
  <2>3. CASE GiveUp(s) \/ GiveUpLate(s) \/ GaveUp(s)
    BY <2>3 DEF GiveUp, GiveUpLate, GaveUp, AfterGivingUp, Caught
  <2>4. CASE Closed(s) \/ Parted(s) \/ Unwound(s)
    BY <2>4, <1>2 DEF Closed, Parted, Unwound, Caught
  <2>5. CASE Left(s)
    BY <2>5 DEF Left, Caught
  <2>6. QED
    BY <1>3, <2>1, <2>2, <2>3, <2>4, <2>5 DEF LoopStep
<1>4. ASSUME NEW s \in Sessions, PeerStep(s) PROVE TypeOK'
  <2>1. CASE \E p \in Priorities : Request(s, p)
    BY <2>1 DEF Request
  <2>2. CASE OpenRefused(s)
    BY <2>2, <1>2 DEF OpenRefused
  <2>3. CASE Connect(s) \/ Disconnect(s) \/ Pipeline(s) \/ ReadNext(s)
    BY <2>3 DEF Connect, Disconnect, Pipeline, ReadNext
  <2>4. CASE Opened(s) \/ Close(s) \/ Leave(s)
    BY <2>4 DEF Opened, Close, Leave, Caught
  <2>5. QED
    BY <1>4, <2>1, <2>2, <2>3, <2>4 DEF PeerStep
<1>5. QED
  BY <1>1, <1>3, <1>4 DEF Next

LEMMA NextSlotInv == SlotInv /\ [Next]_vars => SlotInv'
<1> SUFFICES ASSUME SlotInv, [Next]_vars PROVE SlotInv'
  OBVIOUS
<1>1. IInv'
  BY StepIsQueueStep, NextIInv DEF SlotInv
<1>2. CASE UNCHANGED vars
  BY <1>1, <1>2 DEF vars, sessionVars, queueVars, SlotInv, TypeOK, QueueTypeOK,
                    IInv, SessionFits
<1>3. CASE Next
  <2>1. TypeOK'
    BY <1>1, <1>3, StepTypes DEF SlotInv, IInv
  <2>2. CASE Stop
    BY <1>1, <2>1, <2>2 DEF Stop, queueVars, SlotInv, SessionFits
  <2>3. ASSUME NEW s \in Sessions, LoopStep(s) \/ PeerStep(s) PROVE SlotInv'
    BY <1>1, <2>1, <2>3, OwnStepFits, WokenFits DEF SlotInv
  <2>4. QED
    BY <1>3, <2>2, <2>3 DEF Next
<1>4. QED
  BY <1>2, <1>3

-----------------------------------------------------------------------------

(* Every reachable state of the sessions around their queue is well typed. *)
THEOREM SlotTypeCorrect == Spec => []TypeOK
<1>1. SlotInv => TypeOK
  BY DEF SlotInv
<1>2. QED
  BY <1>1, InitSlotInv, NextSlotInv, PTL DEF Spec

(* A session that has gone on without a slot, or gone away, has left no    *)
(* acquire() behind that could take one for nobody: _acquire_slot's        *)
(* finally catches every way out of the wait.                              *)
THEOREM NoAcquireIsOrphaned == Spec => []NoOrphanAcquire
<1>1. SlotInv => NoOrphanAcquire
  BY DEF SlotInv, TypeOK, SessionStates, NoOrphanAcquire, SessionFits, Fits
<1>2. QED
  BY <1>1, InitSlotInv, NextSlotInv, PTL DEF Spec

(* The printer has at most max_concurrent sessions, counted from before    *)
(* the first is opened until after the last is closed, by its session or   *)
(* by the teardown of one that ends.                                       *)
THEOREM PrinterNotOverrun == Spec => []PrinterLimit
<1>1. ASSUME SlotInv PROVE PrinterLimit
  <2>1. UsingPrinter \subseteq Owners
    BY <1>1 DEF SlotInv, SessionFits, Fits, UsingPrinter, Owners
  <2>2. IsFiniteSet(Owners)
    BY SessionsAssumption, FS_Subset DEF Owners
  <2>3. /\ Cardinality(UsingPrinter) <= Cardinality(Owners)
        /\ Cardinality(UsingPrinter) \in Nat /\ Cardinality(Owners) \in Nat
    BY <2>1, <2>2, FS_Subset, FS_CardinalityType
  <2>4. Cardinality(Owners) <= MaxConcurrent
    BY <1>1 DEF SlotInv, IInv, SlotConservation
  <2>5. QED
    BY <2>3, <2>4, MaxConcurrentAssumption DEF PrinterLimit
<1>2. QED
  BY <1>1, InitSlotInv, NextSlotInv, PTL DEF Spec

(* The sessions implement the queue's specification: whatever comes over   *)
(* them, acquire, cancel and release are called as the queue expects.      *)
THEOREM SessionsUseQueue == Spec => UsesQueue
<1>1. Init => QueueInit
  BY DEF Init
<1>2. QED
  BY <1>1, InitSlotInv, NextSlotInv, StepIsQueueStep, PTL DEF Spec, UsesQueue, QueueSpec

(* So the books of the queue stay right in the proxy itself, not only for  *)
(* the well-behaved callers of SessionQueue.                               *)
COROLLARY SlotsConservedInProxy == Spec => []SlotConservation
BY SessionsUseQueue, SlotsConserved, PTL DEF UsesQueue

(* ... and the printer is shared among the control sessions as PrinterLine *)
(* promises, however they are cancelled, hung up on or torn down.          *)
THEOREM ProxyIsLine == Spec => ImplementsLine
BY SessionsUseQueue, QueueIsLine, PTL DEF UsesQueue
=============================================================================
