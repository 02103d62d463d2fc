---------------------------- MODULE SessionQueue ----------------------------
(***************************************************************************)
(* ftp_queue.SessionQueue: the priority FIFO that limits how many control  *)
(* sessions may use the printer at once.                                   *)
(*                                                                         *)
(* acquire() runs in a task of its own, one per session, and is cut where  *)
(* the event loop can switch tasks: before its first step, while it awaits *)
(* its future, and between the moment the future is resolved or cancelled  *)
(* and the moment the task runs again.  Everything between two such points *)
(* is one action.                                                          *)
(*                                                                         *)
(* The heap orders its entries by (priority, arrival counter).  The counter*)
(* is unbounded but only compared: "ahead" keeps, for each entry, the      *)
(* entries that came earlier and are still in the heap.                    *)
(***************************************************************************)
EXTENDS Integers, FiniteSets

CONSTANTS
    Sessions,        \* the control sessions that may queue
    MaxConcurrent,   \* max_concurrent
    Priorities       \* the priorities acquire() is called with

ASSUME MaxConcurrentAssumption == MaxConcurrent \in Nat \ {0}
ASSUME PrioritiesAssumption == Priorities \subseteq Int
ASSUME SessionsAssumption == IsFiniteSet(Sessions)

VARIABLES
    active,    \* _active
    waiters,   \* the sessions with an entry in _waiters
    ahead,     \* ahead[s]: the entries with a smaller counter than s's
    prio,      \* prio[s]: the priority of s's last call of acquire
    acq        \* acq[s]: where s's acquire() is, see AcqStates

queueVars == <<active, waiters, ahead, prio, acq>>

(***************************************************************************)
(* none       no acquire() is running and s has no slot                    *)
(* new        the task exists, its first step has not run                  *)
(* newX       ... and it has been cancelled                                *)
(* pending    suspended on its future, which nobody has resolved           *)
(* pendingX   its future was cancelled, the task has not resumed: the      *)
(*            entry is still in the heap unless _wake_next popped it       *)
(* granted    _wake_next resolved its future, the task has not resumed     *)
(* grantedX   ... and it has been cancelled in between                     *)
(* acquired   acquire() returned: the slot is s's until it is released     *)
(* cancelled  acquire() raised CancelledError                              *)
(***************************************************************************)
AcqStates == {"none", "new", "newX", "pending", "pendingX", "granted",
              "grantedX", "acquired", "cancelled"}

Pending == {s \in Sessions : acq[s] = "pending"}

(* Whoever the slots counted by "active" belong to. *)
Owners == {s \in Sessions : acq[s] \in {"granted", "grantedX", "acquired"}}

QueueTypeOK ==
    /\ active \in Nat
    /\ waiters \subseteq Sessions
    /\ ahead \in [Sessions -> SUBSET Sessions]
    /\ prio \in [Sessions -> Priorities]
    /\ acq \in [Sessions -> AcqStates]

-----------------------------------------------------------------------------

(* Mutants of Precedes: the priority is ignored, or taken upside down. *)
PrecedesByArrival(s, t) == s \in ahead[t]
PrecedesLeastUrgent(s, t) ==
    \/ prio[s] > prio[t]
    \/ prio[s] = prio[t] /\ s \in ahead[t]

(* The order of the heap's entries (priority, counter). *)
Precedes(s, t) ==
    \/ prio[s] < prio[t]
    \/ prio[s] = prio[t] /\ s \in ahead[t]

Keep(ws) == [s \in Sessions |-> IF s \in ws THEN ahead[s] \cap ws ELSE {}]

(***************************************************************************)
(* _wake_next, called with _active = n, the entries ws and the futures of  *)
(* a: pops entries while there is a free slot, drops those whose future is *)
(* already done, and stops after resolving the first live one.             *)
(***************************************************************************)
WakeNext(n, ws, a) ==
    LET live == {s \in ws : a[s] = "pending"} IN
    /\ \/ /\ n >= MaxConcurrent
          /\ active' = n
          /\ waiters' = ws
          /\ acq' = a
       \/ /\ n < MaxConcurrent
          /\ live = {}
          /\ active' = n
          /\ waiters' = {}
          /\ acq' = a
       \/ /\ n < MaxConcurrent
          /\ \E s \in live :
                /\ \A t \in live \ {s} : Precedes(s, t)
                /\ active' = n + 1
                /\ waiters' = {t \in ws : Precedes(s, t)}
                /\ acq' = [a EXCEPT ![s] = "granted"]
    /\ ahead' = Keep(waiters')

QueueInit ==
    /\ active = 0
    /\ waiters = {}
    /\ ahead = [s \in Sessions |-> {}]
    /\ prio \in [Sessions -> Priorities]
    /\ acq = [s \in Sessions |-> "none"]

(* A task is created for acquire(p). *)
Call(s, p) ==
    /\ acq[s] = "none"
    /\ acq' = [acq EXCEPT ![s] = "new"]
    /\ prio' = [prio EXCEPT ![s] = p]
    /\ UNCHANGED <<active, waiters, ahead>>

(* acquire's first step: a free slot is taken at once. *)
TakeFree(s) ==
    /\ acq[s] = "new"
    /\ active < MaxConcurrent
    /\ active' = active + 1
    /\ acq' = [acq EXCEPT ![s] = "acquired"]
    /\ UNCHANGED <<waiters, ahead, prio>>

(* Mutant of Enqueue: the counter is not advanced, entries may be equal. *)
EnqueueUncounted(s) ==
    /\ acq[s] = "new"
    /\ active >= MaxConcurrent
    /\ waiters' = waiters \cup {s}
    /\ acq' = [acq EXCEPT ![s] = "pending"]
    /\ UNCHANGED <<active, ahead, prio>>

(* acquire's first step with no slot free: push an entry and suspend. *)
Enqueue(s) ==
    /\ acq[s] = "new"
    /\ active >= MaxConcurrent
    /\ waiters' = waiters \cup {s}
    /\ ahead' = [ahead EXCEPT ![s] = waiters]
    /\ acq' = [acq EXCEPT ![s] = "pending"]
    /\ UNCHANGED <<active, prio>>

(* The task resumes from its resolved future and returns. *)
Return(s) ==
    /\ acq[s] = "granted"
    /\ acq' = [acq EXCEPT ![s] = "acquired"]
    /\ UNCHANGED <<active, waiters, ahead, prio>>

(* task.cancel(): a pending future is cancelled with it, a resolved one    *)
(* leaves a CancelledError to be thrown when the task resumes.             *)
CancelledForm ==
    [a \in AcqStates |->
        CASE a = "new" -> "newX"
          [] a = "pending" -> "pendingX"
          [] a = "granted" -> "grantedX"
          [] OTHER -> a]

Cancel(s) ==
    /\ acq[s] \in {"new", "pending", "granted"}
    /\ acq' = [acq EXCEPT ![s] = CancelledForm[@]]
    /\ UNCHANGED <<active, waiters, ahead, prio>>

(* A task cancelled before its first step never enters acquire(). *)
NeverStart(s) ==
    /\ acq[s] = "newX"
    /\ acq' = [acq EXCEPT ![s] = "cancelled"]
    /\ UNCHANGED <<active, waiters, ahead, prio>>

(* except CancelledError, future cancelled: only the entry is dropped. *)
Withdraw(s) ==
    /\ acq[s] = "pendingX"
    /\ waiters' = waiters \ {s}
    /\ ahead' = Keep(waiters \ {s})
    /\ acq' = [acq EXCEPT ![s] = "cancelled"]
    /\ UNCHANGED <<active, prio>>

(* Mutants of HandBack: the slot is kept, or given back without waking     *)
(* anybody.                                                                *)
HandBackKeeps(s) ==
    /\ acq[s] = "grantedX"
    /\ acq' = [acq EXCEPT ![s] = "cancelled"]
    /\ UNCHANGED <<active, waiters, ahead, prio>>

HandBackQuietly(s) ==
    /\ acq[s] = "grantedX"
    /\ active' = active - 1
    /\ acq' = [acq EXCEPT ![s] = "cancelled"]
    /\ UNCHANGED <<waiters, ahead, prio>>

(* except CancelledError, future already resolved: hand the slot back. *)
HandBack(s) ==
    /\ acq[s] = "grantedX"
    /\ WakeNext(active - 1, waiters \ {s}, [acq EXCEPT ![s] = "cancelled"])
    /\ UNCHANGED prio

(* The caller has seen the CancelledError. *)
Forget(s) ==
    /\ acq[s] = "cancelled"
    /\ acq' = [acq EXCEPT ![s] = "none"]
    /\ UNCHANGED <<active, waiters, ahead, prio>>

(* release(), clamp included.  It has no guard: that s has a slot to give  *)
(* back is up to the caller.                                               *)
ReleaseSlot(s) ==
    /\ WakeNext(IF active - 1 < 0 THEN 0 ELSE active - 1,
                waiters, [acq EXCEPT ![s] = "none"])
    /\ UNCHANGED prio

(* The steps of the acquire() tasks themselves. *)
TaskStep(s) ==
    \/ TakeFree(s)
    \/ Enqueue(s)
    \/ Return(s)
    \/ NeverStart(s)
    \/ Withdraw(s)
    \/ HandBack(s)

(* A caller that uses acquire and release the way slot() does. *)
CallerStep(s) ==
    \/ \E p \in Priorities : Call(s, p)
    \/ Cancel(s)
    \/ Forget(s)
    \/ acq[s] = "acquired" /\ ReleaseSlot(s)

QueueNext == \E s \in Sessions : TaskStep(s) \/ CallerStep(s)

QueueSpec == QueueInit /\ [][QueueNext]_queueVars

(* The event loop runs every task that can run, and a caller whose         *)
(* acquire() was cancelled sees it.  When a slot is released is the        *)
(* callers' affair: no fairness is assumed of it.                          *)
FairQueueSpec ==
    QueueSpec /\ \A s \in Sessions : WF_queueVars(TaskStep(s)) /\ WF_queueVars(Forget(s))

-----------------------------------------------------------------------------
(* Properties *)

(* The counter is exactly the number of sessions a slot belongs to, and it *)
(* never exceeds the limit: no path of acquire, release or a cancellation  *)
(* loses a slot, invents one or counts one twice.                          *)
SlotConservation ==
    /\ active = Cardinality(Owners)
    /\ active <= MaxConcurrent

(* Nobody waits for a slot that is free: a slot given back by release, or  *)
(* by a cancelled acquire, always reaches the line.                        *)
NoIdleSlot == Pending # {} => active = MaxConcurrent

(* Every live waiter has an entry in the heap, and an entry belongs to a   *)
(* task that is still suspended: a popped or withdrawn entry is never left *)
(* for a future nobody awaits.                                             *)
HeapMatchesTasks ==
    /\ Pending \subseteq waiters
    /\ \A s \in waiters : acq[s] \in {"pending", "pendingX"}

(* "Ties break on arrival order": of any group of waiters exactly one is   *)
(* next, whoever joined and withdrew meanwhile.  The counters decide; the  *)
(* heap never has to compare two futures, and _wake_next always has a      *)
(* waiter to wake if there is one.                                         *)
OneIsNext ==
    \A S \in SUBSET Pending : S # {} =>
        \E s \in S : \A t \in S \ {s} : Precedes(s, t) /\ ~Precedes(t, s)

(* The queue implements the line it promises. *)
Line == INSTANCE PrinterLine WITH
    served <- Owners,
    line <- Pending,
    rank <- [s \in Sessions |-> IF s \in Pending THEN prio[s] ELSE <<>>],
    behind <- [s \in Sessions |->
                  IF s \in Pending THEN ahead[s] \cap Pending ELSE {}]

ImplementsLine == Line!LineSpec

(* Whoever has a slot gives it back, again and again. *)
HoldersRelease == \A s \in Sessions : []<>(acq[s] # "acquired")

(* A waiter of the most urgent priority gets its slot, or gives up, however*)
(* many less urgent callers there are and whoever cancels.                 *)
UploadGranted ==
    HoldersRelease =>
        \A s \in Sessions :
            (acq[s] = "pending" /\ \A p \in Priorities : prio[s] <= p)
                ~> acq[s] # "pending"

(* "nothing starves" (docstring of SessionQueue): every waiter gets its    *)
(* slot, or gives up, of whatever priority it is.  The code refutes it:    *)
(* uploads that keep arriving pass a NORMAL waiter for ever.               *)
NothingStarves ==
    HoldersRelease =>
        \A s \in Sessions : acq[s] = "pending" ~> acq[s] # "pending"
=============================================================================
