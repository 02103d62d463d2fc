---------------------------- MODULE SlotSession ----------------------------
(***************************************************************************)
(* The control sessions of the FTPS proxy as users of the session queue:   *)
(* how a session asks for a printer slot, loses interest while it waits,   *)
(* opens, uses and closes its printer session, and is torn down, from      *)
(* ftp_proxy.FTPProxy.stop, _handle_client and ControlSession.run,         *)
(* _ensure_upstream, _acquire_slot, _release_upstream and close.           *)
(*                                                                         *)
(* A session is one task.  Its actions are the stretches between two       *)
(* awaits that can suspend.  What travels over the printer session is left *)
(* to other modules; here it is only opened, used and closed.              *)
(***************************************************************************)
EXTENDS SessionQueue

VARIABLES
    running,   \* FTPProxy._running
    pc,        \* pc[s]: where the session's task is suspended, see SessionStates
    holds,     \* the sessions whose _holds_slot is set
    dead,      \* the sessions whose client's control connection is gone
    unread,    \* the sessions whose reader holds a command not yet read
    cancelled  \* the sessions with a CancelledError on its way

sessionVars == <<running, pc, holds, dead, unread, cancelled>>
vars == <<queueVars, sessionVars>>

(***************************************************************************)
(* absent     not connected                                                *)
(* idle       no printer session; reading or answering commands locally    *)
(* queued     _acquire_slot: in asyncio.wait for the slot or the client    *)
(* won        its finally, awaiting the cancelled "gone" task, slot granted*)
(* lost, cut  the same, not granted: the client left, or a cancellation    *)
(*            is unwinding                                                 *)
(* lostAcq, cutAcq   awaiting the acquire task it has just cancelled       *)
(* opening    connecting, greeting, login, replay                          *)
(* ready      the printer session is open: serving a command or reading    *)
(* closing    _release_upstream of a live session, in close_writer         *)
(* parting    close(): _release_upstream of a live session, in close_writer*)
(* leaving    run() is over and close() is next, with no printer session   *)
(* parted     close() past _release_upstream: the relay, the client's      *)
(*            writer                                                       *)
(***************************************************************************)
SessionStates == {"absent", "idle", "queued", "won", "lost", "cut", "lostAcq",
                  "cutAcq", "opening", "ready", "closing", "parting",
                  "leaving", "parted"}

(* The sessions for which the printer has, or is about to get, a session:  *)
(* until close_writer has returned the printer still has it.               *)
UsingPrinter ==
    {s \in Sessions : pc[s] \in {"opening", "ready", "closing", "parting"}}

TypeOK ==
    /\ QueueTypeOK
    /\ running \in BOOLEAN
    /\ pc \in [Sessions -> SessionStates]
    /\ holds \subseteq Sessions
    /\ dead \subseteq Sessions
    /\ unread \subseteq Sessions
    /\ cancelled \subseteq Sessions

Init ==
    /\ QueueInit
    /\ running = TRUE
    /\ pc = [s \in Sessions |-> "absent"]
    /\ holds = {}
    /\ dead = {}
    /\ unread = {}
    /\ cancelled = {}

Goto(s, l) == pc' = [pc EXCEPT ![s] = l]

(* A CancelledError is thrown wherever the task resumes next, before       *)
(* anything else can happen there.                                         *)
Resumes(s, l) == pc[s] = l /\ s \notin cancelled
Caught(s) == cancelled' = cancelled \ {s}

-----------------------------------------------------------------------------
(* The environment *)

(* The listener accepts a client. *)
Connect(s) ==
    /\ pc[s] = "absent"
    /\ running
    /\ Goto(s, "idle")
    /\ UNCHANGED <<queueVars, running, holds, dead, unread, cancelled>>

(* The client sends a command behind the one being served.  One is enough: *)
(* the reader is at its end only when it holds nothing.                    *)
Pipeline(s) ==
    /\ pc[s] \notin {"absent", "idle", "parting", "leaving", "parted"}
    /\ s \notin dead \cup unread
    /\ unread' = unread \cup {s}
    /\ UNCHANGED <<queueVars, running, pc, holds, dead, cancelled>>

(* run() reads a command that was sent ahead and needs no printer session, *)
(* or has one.                                                             *)
ReadNext(s) ==
    /\ Resumes(s, "idle") \/ Resumes(s, "ready")
    /\ s \in unread
    /\ unread' = unread \ {s}
    /\ UNCHANGED <<queueVars, running, pc, holds, dead, cancelled>>

(* The client's connection closes, and what it had sent is still there to  *)
(* read; or it breaks, and the reader only has its exception to give.      *)
Disconnect(s) ==
    /\ pc[s] # "absent"
    /\ s \notin dead
    /\ dead' = dead \cup {s}
    /\ unread' \in {unread, unread \ {s}}
    /\ UNCHANGED <<queueVars, running, pc, holds, cancelled>>

(* stop(): no new client, and every live session is cancelled. *)
Stop ==
    /\ running
    /\ running' = FALSE
    /\ cancelled' = {s \in Sessions : pc[s] # "absent"}
    /\ UNCHANGED <<queueVars, pc, holds, dead, unread>>

-----------------------------------------------------------------------------
(* _acquire_slot *)

(* A command that needs the printer, with no printer session open. *)
Request(s, p) ==
    /\ Resumes(s, "idle")
    /\ running
    /\ s \in unread \/ s \notin dead
    /\ unread' = unread \ {s}
    /\ Call(s, p)
    /\ Goto(s, "queued")
    /\ UNCHANGED <<running, holds, dead, cancelled>>

(* The wait ends with the acquire task done, whether or not the client is. *)
WaitWon(s) ==
    /\ Resumes(s, "queued")
    /\ acq[s] = "acquired"
    /\ Goto(s, "won")
    /\ UNCHANGED <<queueVars, running, holds, dead, unread, cancelled>>

(* Mutants of WaitGone: the finally that cancels acquire() is missing, or  *)
(* the departure is not watched.                                           *)
WaitGoneAbandons(s) ==
    /\ Resumes(s, "queued")
    /\ s \in dead
    /\ acq[s] # "acquired"
    /\ Goto(s, "idle")
    /\ UNCHANGED <<queueVars, running, holds, dead, unread, cancelled>>

WaitGoneUnwatched(s) == FALSE

(* The wait ends with only the client's departure: the reader is at its    *)
(* end or has an exception.  A command it still holds hides the end.       *)
WaitGone(s) ==
    /\ Resumes(s, "queued")
    /\ s \in dead \ unread
    /\ acq[s] # "acquired"
    /\ Goto(s, "lost")
    /\ UNCHANGED <<queueVars, running, holds, dead, unread, cancelled>>

(* A cancellation of the session interrupts the wait. *)
WaitCut(s) ==
    /\ pc[s] = "queued"
    /\ s \in cancelled
    /\ Caught(s)
    /\ Goto(s, "cut")
    /\ UNCHANGED <<queueVars, running, holds, dead, unread>>

(* "await gone" is over, and a cancellation that came during it has been   *)
(* suppressed with gone's own.  The slot is now the session's.             *)
TakeSlot(s) ==
    /\ pc[s] = "won"
    /\ Caught(s)
    /\ holds' = holds \cup {s}
    /\ Goto(s, "opening")
    /\ UNCHANGED <<queueVars, running, dead, unread>>

AfterGivingUp(s) == IF pc[s] \in {"lost", "lostAcq"} THEN "idle" ELSE "leaving"

(* "await gone" is over and the acquire task is not: cancel it, await it. *)
GiveUp(s) ==
    /\ pc[s] \in {"lost", "cut"}
    /\ Cancel(s)
    /\ Caught(s)
    /\ Goto(s, IF pc[s] = "lost" THEN "lostAcq" ELSE "cutAcq")
    /\ UNCHANGED <<running, holds, dead, unread>>

(* "await gone" is over and the acquire task has won the race meanwhile:   *)
(* the else branch gives its slot back without suspending.                 *)
GiveUpLate(s) ==
    /\ pc[s] \in {"lost", "cut"}
    /\ acq[s] = "acquired"
    /\ ReleaseSlot(s)
    /\ Caught(s)
    /\ Goto(s, AfterGivingUp(s))
    /\ UNCHANGED <<running, holds, dead, unread>>

(* The cancelled acquire task has ended.  Its CancelledError is caught,    *)
(* and so is one aimed at the session in the meantime.                     *)
GaveUp(s) ==
    /\ pc[s] \in {"lostAcq", "cutAcq"}
    /\ Forget(s)
    /\ Caught(s)
    /\ Goto(s, AfterGivingUp(s))
    /\ UNCHANGED <<running, holds, dead, unread>>

-----------------------------------------------------------------------------
(* _ensure_upstream, _release_upstream, close *)

Opened(s) ==
    /\ Resumes(s, "opening")
    /\ Goto(s, "ready")
    /\ UNCHANGED <<queueVars, running, holds, dead, unread, cancelled>>

(* Mutant of DropSlot: the flag is not tested. *)
DropSlotAlways(s) == holds' = holds \ {s} /\ ReleaseSlot(s)

(* "if self._holds_slot": the flag is what makes a second call harmless. *)
DropSlot(s) ==
    \/ s \in holds /\ holds' = holds \ {s} /\ ReleaseSlot(s)
    \/ s \notin holds /\ UNCHANGED <<holds, queueVars>>

(* The connection was refused or timed out: there is no writer to close,   *)
(* so _release_upstream does not suspend.                                  *)
OpenRefused(s) ==
    /\ Resumes(s, "opening")
    /\ DropSlot(s)
    /\ Goto(s, "idle")
    /\ UNCHANGED <<running, dead, unread, cancelled>>

(* Greeting, login or replay failed; or a ready session was idle for too   *)
(* long, lost the printer, or saw its transfer aborted.                    *)
Close(s) ==
    /\ pc[s] \in {"opening", "ready"}
    /\ s \notin cancelled
    /\ Goto(s, "closing")
    /\ UNCHANGED <<queueVars, running, holds, dead, unread, cancelled>>

(* The writer is closed.  If a cancellation interrupted it, the finally    *)
(* still gives the slot back, and close() runs next.                       *)
Closed(s) ==
    /\ pc[s] = "closing"
    /\ DropSlot(s)
    /\ Caught(s)
    /\ Goto(s, IF s \in cancelled THEN "leaving" ELSE "idle")
    /\ UNCHANGED <<running, dead, unread>>

(* Mutant of Leave: "the printer slot goes back first", before the printer *)
(* session it was for is closed.                                           *)
LeaveDropsFirst(s) ==
    /\ pc[s] \in {"idle", "opening", "ready"}
    /\ DropSlot(s)
    /\ Caught(s)
    /\ Goto(s, IF pc[s] = "idle" THEN "leaving" ELSE "parting")
    /\ unread' = unread \ {s}
    /\ UNCHANGED <<running, dead>>

(* run() ends: QUIT, the client is gone or idle, the proxy is not running, *)
(* a write failed, or a cancellation is unwinding.  Nothing is read any    *)
(* more, and close() starts with the printer session, if there is one.     *)
Leave(s) ==
    /\ pc[s] \in {"idle", "opening", "ready"}
    /\ Caught(s)
    /\ Goto(s, IF pc[s] = "idle" THEN "leaving" ELSE "parting")
    /\ unread' = unread \ {s}
    /\ UNCHANGED <<queueVars, running, holds, dead>>

(* Mutant of Parted: the finally that gives the slot back is missing.      *)
PartedKeeps(s) ==
    /\ pc[s] = "parting"
    /\ Caught(s)
    /\ Goto(s, "parted")
    /\ UNCHANGED <<queueVars, running, holds, dead, unread>>

(* The printer session is closed, or a cancellation interrupted that, and  *)
(* the slot goes back.                                                     *)
Parted(s) ==
    /\ pc[s] = "parting"
    /\ DropSlot(s)
    /\ Caught(s)
    /\ Goto(s, "parted")
    /\ UNCHANGED <<running, dead, unread>>

(* close() finds no printer session: its _release_upstream has nothing to  *)
(* wait for, and nothing to give back that was given back before.          *)
Unwound(s) ==
    /\ pc[s] = "leaving"
    /\ DropSlot(s)
    /\ Goto(s, "parted")
    /\ UNCHANGED <<running, dead, unread, cancelled>>

(* close() has let go of the relay and of the client, or was interrupted;  *)
(* the task ends, and the next client of this session is another one.      *)
Left(s) ==
    /\ pc[s] = "parted"
    /\ Caught(s)
    /\ Goto(s, "absent")
    /\ dead' = dead \ {s}
    /\ unread' = unread \ {s}
    /\ UNCHANGED <<queueVars, running, holds>>

-----------------------------------------------------------------------------

AcquireTask(s) == TaskStep(s) /\ UNCHANGED sessionVars

(* The steps the event loop takes on its own, once they are possible. *)
LoopStep(s) ==
    \/ AcquireTask(s)
    \/ WaitWon(s) \/ WaitGone(s) \/ WaitCut(s) \/ TakeSlot(s)
    \/ GiveUp(s) \/ GiveUpLate(s) \/ GaveUp(s)
    \/ Closed(s) \/ Parted(s) \/ Unwound(s) \/ Left(s)

(* What the client or the printer decides. *)
PeerStep(s) ==
    \/ Connect(s) \/ Disconnect(s) \/ Pipeline(s) \/ ReadNext(s)
    \/ \E p \in Priorities : Request(s, p)
    \/ Opened(s) \/ OpenRefused(s) \/ Close(s) \/ Leave(s)

Next == Stop \/ \E s \in Sessions : LoopStep(s) \/ PeerStep(s)

(* Opening is bounded by UPSTREAM_CONNECT_TIMEOUT and the reply deadline.  *)
OpeningEnds(s) == pc[s] = "opening" /\ (Opened(s) \/ OpenRefused(s) \/ Close(s) \/ Leave(s))

(* run() notices a closed connection, a stopped proxy or a cancellation at *)
(* its next read, and a served command ends at its own deadline.           *)
MustLeave(s) == (s \in dead \/ s \in cancelled \/ ~running) /\ Leave(s)

Fairness ==
    \A s \in Sessions :
        /\ WF_vars(LoopStep(s))
        /\ WF_vars(OpeningEnds(s))
        /\ WF_vars(MustLeave(s))

Spec == Init /\ [][Next]_vars
FairSpec == Spec /\ Fairness

-----------------------------------------------------------------------------
(* Properties *)

(* A session that is not waiting has no acquire() left behind, so nothing  *)
(* can take a slot later for a session that has gone on or gone away; and  *)
(* _holds_slot is only set while the slot is the session's.                *)
NoOrphanAcquire ==
    \A s \in Sessions :
        /\ pc[s] \in {"absent", "idle"} => acq[s] = "none" /\ s \notin holds
        /\ s \in holds => acq[s] = "acquired"

(* The printer never sees more than max_concurrent sessions, the ones      *)
(* being opened included, and the ones being closed by their session or by *)
(* its teardown: a slot goes back only when its printer session is over.   *)
PrinterLimit == Cardinality(UsingPrinter) <= MaxConcurrent

(* The sessions use the queue as its own specification expects: a slot is  *)
(* released only by its owner and once, acquire() is called only when the  *)
(* last call is over.                                                      *)
UsesQueue == QueueSpec

(* A client that leaves while it is queued, with nothing sent ahead, loses *)
(* its turn: the session ends without waiting for anybody else's slot.     *)
DeadClientLeaves ==
    \A s \in Sessions :
        (pc[s] = "queued" /\ s \in dead \ unread) ~> pc[s] = "absent"

(* "giving up if the client goes away": no departed client keeps its place *)
(* in the line for ever.  The code refutes it: one that sent a command     *)
(* ahead is not noticed, and waits as long as the holder holds.            *)
LeaversGiveUp ==
    \A s \in Sessions : (pc[s] = "queued" /\ s \in dead) ~> pc[s] # "queued"

(* stop() returns: every session it waits for ends, and no slot is left    *)
(* taken.                                                                  *)
StopReturns ==
    ~running ~> (active = 0 /\ \A s \in Sessions : pc[s] = "absent")
=============================================================================
