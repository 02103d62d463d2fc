---------------------------- MODULE PrinterLine ----------------------------
(***************************************************************************)
(* What the FTPS proxy's session queue promises, without its counter, its  *)
(* heap, its futures or its tasks: a line of clients in front of           *)
(* MaxConcurrent places at the printer.  Uploads are served before         *)
(* everything else, equal priorities in order of arrival, nobody overtakes *)
(* on arrival, and a place never stays empty while somebody is in line.    *)
(* The module docstring of ftp_queue.py and the class docstring of         *)
(* SessionQueue state this contract; SessionQueue.tla implements it.       *)
(***************************************************************************)
EXTENDS Integers, FiniteSets

CONSTANTS
    Sessions,        \* the clients' control sessions
    MaxConcurrent,   \* places at the printer
    Priorities       \* numbers, the lower the sooner

VARIABLES
    served,   \* the sessions that have a place
    line,     \* the sessions that wait for one
    rank,     \* rank[s]: the priority s waits with, <<>> outside the line
    behind    \* behind[s]: who was already in line when s joined it

lineVars == <<served, line, rank, behind>>

NoRank == <<>>

(* s is to be served before t: by priority, then by arrival. *)
Sooner(s, t) ==
    \/ rank[s] < rank[t]
    \/ rank[s] = rank[t] /\ s \in behind[t]

IsNext(s) == s \in line /\ \A t \in line \ {s} : Sooner(s, t)

LeaveLine(S) ==
    /\ line' = line \ S
    /\ rank' = [s \in Sessions |-> IF s \in S THEN NoRank ELSE rank[s]]
    /\ behind' = [s \in Sessions |-> IF s \in S THEN {} ELSE behind[s] \ S]

-----------------------------------------------------------------------------

LineInit ==
    /\ served = {}
    /\ line = {}
    /\ rank = [s \in Sessions |-> NoRank]
    /\ behind = [s \in Sessions |-> {}]

(* A free place is taken at once, and only if nobody was there first. *)
TakePlace(s) ==
    /\ s \notin served \cup line
    /\ Cardinality(served) < MaxConcurrent
    /\ line = {}
    /\ served' = served \cup {s}
    /\ UNCHANGED <<line, rank, behind>>

Join(s, p) ==
    /\ s \notin served \cup line
    /\ Cardinality(served) = MaxConcurrent
    /\ line' = line \cup {s}
    /\ rank' = [rank EXCEPT ![s] = p]
    /\ behind' = [behind EXCEPT ![s] = line]
    /\ UNCHANGED served

GiveUp(s) ==
    /\ s \in line
    /\ LeaveLine({s})
    /\ UNCHANGED served

(* A place that is given back goes, in the same step, to the next in line. *)
Finish(s) ==
    /\ s \in served
    /\ \/ /\ line = {}
          /\ served' = served \ {s}
          /\ UNCHANGED <<line, rank, behind>>
       \/ \E t \in line :
             /\ IsNext(t)
             /\ served' = (served \ {s}) \cup {t}
             /\ LeaveLine({t})

LineNext ==
    \E s \in Sessions :
        \/ TakePlace(s)
        \/ \E p \in Priorities : Join(s, p)
        \/ GiveUp(s)
        \/ Finish(s)

LineSpec == LineInit /\ [][LineNext]_lineVars
=============================================================================
