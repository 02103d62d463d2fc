------------------------- MODULE PassiveRelayProofs -------------------------
(***************************************************************************)
(* For any range of ports and any number of sessions, relays and           *)
(* connections: the pool keeps every port once, a port goes back only when *)
(* nobody listens on it, and a relay splices one connection, of the client *)
(* it was made for.                                                        *)
(*                                                                         *)
(* The invariant calls a relay the owner of its port as long as it listens *)
(* or its supervisor lives: owners have ports that are in use and differ   *)
(* from each other's, so the only release is an owner's and its last act.  *)
(*                                                                         *)
(* Two more invariants rest on that one.  EInv: the endpoint is pending    *)
(* while a session prepares its upstream side, since every teardown that   *)
(* could have cancelled it took the relay from the session before.         *)
(* Keepers: every port in use belongs to a supervisor that has not ended,  *)
(* or that was cancelled before its first step and gives nothing back: the *)
(* only way to lose a port.                                                *)
(***************************************************************************)
EXTENDS PassiveRelay, FiniteSetTheorems, TLAPS

Owns(x) == x.listening \/ x.sup \notin {"none", "done"}

Admitted == {"parked", "waiting", "piping", "closing"}

(* What holds of a relay by itself. *)
Sound(x) ==
    /\ x \in RelayRecords
    /\ x.sup = "closing" => ~x.listening
    /\ x.sup \in {"created", "dropped"} => x.listening
    /\ \A c, d \in Conns : x.conn[c] \in Admitted /\ x.conn[d] \in Admitted => c = d
    /\ \A c \in Conns : x.conn[c] \in Admitted => x.accepted /\ c \in Clients
    /\ \A c \in Conns : x.conn[c] \in {"waiting", "piping"} => x.seen
    /\ \A c \in Conns : x.conn[c] = "piping" => x.endpoint = "set"

(* What holds of the relays rel among each other, with the ports use taken.*)
RelaysOK(rel, use) ==
    /\ rel \in [Relays -> RelayRecords]
    /\ \A r \in Relays : Sound(rel[r])
    /\ \A r \in Relays : Owns(rel[r]) => rel[r].port \in use
    /\ \A r, q \in Relays :
          Owns(rel[r]) /\ Owns(rel[q]) /\ rel[r].port = rel[q].port => r = q

PoolOK ==
    /\ free \in Seq(Ports)
    /\ inUse \in SUBSET Ports
    /\ PoolPartition

SessionsOK ==
    /\ pc \in [Sessions -> SessionStates]
    /\ data \in [Sessions -> Relays \cup {NoRelay}]
    /\ victim \in [Sessions -> Relays \cup {NoRelay}]
    /\ after \in [Sessions -> {"open", "idle", "ended"}]
    /\ \A s \in Sessions :
          /\ pc[s] \in {"handlers", "task"} => victim[s] \in Relays
          /\ pc[s] \in {"binding", "queued", "preparing", "transfer"} => data[s] \in Relays

PInv == PoolOK /\ SessionsOK /\ RelaysOK(relay, inUse)

-----------------------------------------------------------------------------
(* The pool *)

LEMMA FreePorts ==
    ASSUME PoolOK
    PROVE  /\ Len(free) \in Nat
           /\ \A i \in 1..Len(free) : free[i] \in Ports
           /\ ToSet(free) = {free[i] : i \in 1..Len(free)}
           /\ \A i, j \in 1..Len(free) : free[i] = free[j] => i = j
BY DEF PoolOK, PoolPartition, ToSet, IsInjective

(* acquire() moves the first free port over to those in use. *)
LEMMA AcquireKeepsPool ==
    ASSUME PoolOK, NEW p \in Ports, AcquirePort(p)
    PROVE  PoolOK' /\ p \notin inUse /\ inUse' = inUse \cup {p}
<1>1. /\ Len(free) > 0 /\ free[1] = p
      /\ free' \in Seq(Ports)
      /\ Len(free') = Len(free) - 1
      /\ \A i \in 1..Len(free') : free'[i] = free[i + 1]
  BY DEF AcquirePort, PoolOK
<1>2. p \in ToSet(free)
  BY <1>1, FreePorts
<1>3. p \notin inUse
  BY <1>2 DEF PoolOK, PoolPartition
<1>4. IsInjective(free')
  BY <1>1, FreePorts DEF IsInjective
<1>5. ToSet(free') = {free'[i] : i \in 1..Len(free')}
  BY <1>1 DEF ToSet
<1>6. ToSet(free') = ToSet(free) \ {p}
  <2>1. ToSet(free') \subseteq ToSet(free) \ {p}
    BY <1>1, <1>5, FreePorts
  <2>2. ASSUME NEW i \in 1..Len(free), free[i] # p PROVE free[i] \in ToSet(free')
    <3>1. i - 1 \in 1..Len(free') /\ free'[i - 1] = free[i]
      BY <1>1, <2>2, FreePorts
    <3>2. QED
      BY <1>5, <3>1
  <2>3. QED
    BY <2>1, <2>2, FreePorts
<1>7. QED
  BY <1>1, <1>3, <1>4, <1>6 DEF AcquirePort, PoolOK, PoolPartition

(* A port that is free goes to the end of the line of those that are. *)
LEMMA Appended ==
    ASSUME NEW f \in Seq(Ports), IsInjective(f), NEW p \in Ports, p \notin ToSet(f)
    PROVE  /\ Append(f, p) \in Seq(Ports)
           /\ IsInjective(Append(f, p))
           /\ ToSet(Append(f, p)) = ToSet(f) \cup {p}
<1> DEFINE g == Append(f, p)
<1>1. /\ g \in Seq(Ports) /\ Len(g) = Len(f) + 1 /\ Len(f) \in Nat
      /\ \A i \in 1..Len(f) : g[i] = f[i]
      /\ g[Len(f) + 1] = p
  OBVIOUS
<1> HIDE DEF g
<1>2. /\ ToSet(f) = {f[i] : i \in 1..Len(f)}
      /\ ToSet(g) = {g[i] : i \in 1..Len(g)}
  BY <1>1 DEF ToSet
<1>3. IsInjective(g)
  BY <1>1, <1>2 DEF IsInjective
<1>4. ToSet(g) = ToSet(f) \cup {p}
  BY <1>1, <1>2
<1>5. QED
  BY <1>1, <1>3, <1>4 DEF g

LEMMA ReleaseKeepsPool ==
    ASSUME PoolOK, NEW p \in inUse, ReleasePort(p)
    PROVE  PoolOK' /\ inUse' = inUse \ {p}
<1>1. p \in Ports /\ p \notin ToSet(free)
  BY DEF PoolOK, PoolPartition
<1>2. free' = Append(free, p) /\ inUse' = inUse \ {p}
  BY DEF ReleasePort
<1>3. QED
  BY <1>1, <1>2, Appended DEF PoolOK, PoolPartition

-----------------------------------------------------------------------------
(* A relay by itself *)

LEMMA BlankSound == Sound(Blank) /\ ~Owns(Blank)
BY DEF Blank, Sound, Owns, RelayRecords, SupStates, ConnStates, Admitted

(* Cancelling the handlers leaves the relay sound, its port, supervisor    *)
(* and listener as they are.                                               *)
LEMMA CancelHandlersSound ==
    ASSUME NEW x, Sound(x)
    PROVE  /\ Sound(CancelHandlers(x))
           /\ CancelHandlers(x).port = x.port
           /\ CancelHandlers(x).sup = x.sup
           /\ CancelHandlers(x).listening = x.listening
<1> DEFINE y == CancelHandlers(x)
           e == IF \E c \in Conns : x.conn[c] = "waiting" /\ x.endpoint = "pending"
                THEN "cancelled" ELSE x.endpoint
           k == [c \in Conns |->
                    CASE x.conn[c] \in {"parked", "waiting", "piping"} -> "closing"
                      [] x.conn[c] = "closing" -> "done"
                      [] OTHER -> x.conn[c]]
<1>1. x \in RelayRecords
  BY DEF Sound
<1>E. e \in {x.endpoint, "cancelled"}
  OBVIOUS
<1>Y. y = [x EXCEPT !.endpoint = e, !.conn = k]
  BY DEF CancelHandlers
<1>K. k = [c \in Conns |->
              CASE x.conn[c] \in {"parked", "waiting", "piping"} -> "closing"
                [] x.conn[c] = "closing" -> "done"
                [] OTHER -> x.conn[c]]
  OBVIOUS
<1> HIDE DEF y, e, k
<1>2. /\ y.port = x.port /\ y.sup = x.sup /\ y.listening = x.listening
      /\ y.seen = x.seen /\ y.accepted = x.accepted /\ y.finished = x.finished
      /\ y.endpoint \in {x.endpoint, "cancelled"}
      /\ y.conn = [c \in Conns |->
                    CASE x.conn[c] \in {"parked", "waiting", "piping"} -> "closing"
                      [] x.conn[c] = "closing" -> "done"
                      [] OTHER -> x.conn[c]]
      /\ y = [port |-> y.port, sup |-> y.sup, listening |-> y.listening,
              seen |-> y.seen, endpoint |-> y.endpoint, accepted |-> y.accepted,
              finished |-> y.finished, conn |-> y.conn]
  BY <1>1, <1>E, <1>Y, <1>K DEF RelayRecords
<1>3. y.conn \in [Conns -> ConnStates]
  BY <1>1, <1>2 DEF RelayRecords, ConnStates
<1>4. \A c \in Conns :
         /\ y.conn[c] \in Admitted => x.conn[c] \in Admitted
         /\ y.conn[c] \notin {"waiting", "piping"}
  BY <1>1, <1>2 DEF RelayRecords, ConnStates, Admitted
<1>5. y \in RelayRecords
  BY <1>1, <1>2, <1>3 DEF RelayRecords
<1>6. Sound(y)
  BY <1>2, <1>4, <1>5 DEF Sound
<1>7. QED
  BY <1>2, <1>6 DEF y

LEMMA BeginCloseSound ==
    ASSUME NEW x, Sound(x)
    PROVE  /\ Sound(BeginClose(x))
           /\ BeginClose(x).port = x.port
<1> DEFINE y == CancelHandlers(x)
           z == BeginClose(x)
<1>1. Sound(y) /\ y.port = x.port
  BY CancelHandlersSound
<1>2. z = [y EXCEPT !.sup = "closing", !.listening = FALSE]
  BY DEF BeginClose
<1> HIDE DEF y, z
<1>3. /\ z \in RelayRecords /\ z.sup = "closing" /\ z.listening = FALSE
      /\ z.port = y.port /\ z.conn = y.conn /\ z.accepted = y.accepted
      /\ z.seen = y.seen /\ z.endpoint = y.endpoint
  BY <1>1, <1>2 DEF Sound, RelayRecords, SupStates
<1>4. Sound(z) /\ z.port = x.port
  BY <1>1, <1>3 DEF Sound
<1>5. QED
  BY <1>4 DEF z

(* Cancelling the supervisor never makes an owner of a relay. *)
LEMMA CancelSupSound ==
    ASSUME NEW x, Sound(x)
    PROVE  /\ Sound(CancelSup(x))
           /\ CancelSup(x).port = x.port
           /\ Owns(CancelSup(x)) => Owns(x)
<1>1. CASE x.sup = "created"
  <2>1. CancelSup(x) = [x EXCEPT !.sup = "dropped"]
    BY <1>1 DEF CancelSup
  <2>2. QED
    BY <1>1, <2>1 DEF Sound, Owns, RelayRecords, SupStates
<1>2. CASE x.sup = "phase2"
  <2> DEFINE y == [x EXCEPT !.endpoint = IF @ = "pending" THEN "cancelled" ELSE @]
  <2>1. Sound(y) /\ y.port = x.port
    BY DEF Sound, RelayRecords
  <2>2. CancelSup(x) = BeginClose(y)
    BY <1>2 DEF CancelSup
  <2> HIDE DEF y
  <2>3. QED
    BY <1>2, <2>1, <2>2, BeginCloseSound DEF Owns
<1>3. CASE x.sup \in {"phase1", "phase3", "phase4"}
  <2>1. CancelSup(x) = BeginClose(x)
    BY <1>3 DEF CancelSup
  <2>2. QED
    BY <1>3, <2>1, BeginCloseSound DEF Owns
<1>4. CASE x.sup \notin {"created", "phase1", "phase2", "phase3", "phase4"}
  <2>1. CancelSup(x) = x
    BY <1>4 DEF CancelSup
  <2>2. QED
    BY <2>1
<1>5. QED
  BY <1>1, <1>2, <1>3, <1>4

-----------------------------------------------------------------------------
(* The relays among each other *)

(* A relay may change as it likes, if it stays sound and does not become   *)
(* an owner or change the port it owns.                                    *)
LEMMA OneChanges ==
    ASSUME NEW rel, NEW use, RelaysOK(rel, use), NEW r \in Relays, NEW y,
           Sound(y), Owns(y) => Owns(rel[r]) /\ y.port = rel[r].port
    PROVE  RelaysOK([rel EXCEPT ![r] = y], use)
<1>1. y \in RelayRecords
  BY DEF Sound
<1>2. QED
  BY <1>1 DEF RelaysOK

(* An owner that is not one any more may give its port back. *)
LEMMA OneReleases ==
    ASSUME NEW rel, NEW use, RelaysOK(rel, use), NEW r \in Relays, Owns(rel[r]),
           NEW y, Sound(y), ~Owns(y)
    PROVE  /\ rel[r].port \in use
           /\ RelaysOK([rel EXCEPT ![r] = y], use \ {rel[r].port})
<1>1. y \in RelayRecords
  BY DEF Sound
<1>2. QED
  BY <1>1 DEF RelaysOK

LEMMA SupReleases ==
    ASSUME NEW rel, NEW use, RelaysOK(rel, use), NEW r \in Relays,
           rel[r].sup = "closing"
    PROVE  /\ rel[r].port \in use
           /\ RelaysOK([rel EXCEPT ![r].sup = "done"], use \ {rel[r].port})
<1>1. Owns(rel[r])
  BY DEF Owns
<1> DEFINE y == [rel[r] EXCEPT !.sup = "done"]
<1>2. Sound(y) /\ ~Owns(y)
  BY DEF RelaysOK, Sound, Owns, RelayRecords, SupStates
<1>3. [rel EXCEPT ![r].sup = "done"] = [rel EXCEPT ![r] = y]
  BY DEF RelaysOK
<1> HIDE DEF y
<1>4. QED
  BY <1>1, <1>2, <1>3, OneReleases

(* A new relay takes a port nobody has. *)
LEMMA OneOpens ==
    ASSUME NEW rel, NEW use, RelaysOK(rel, use), NEW r \in Relays,
           NEW p \in Ports, p \notin use
    PROVE  RelaysOK([rel EXCEPT ![r] = [Blank EXCEPT !.port = p, !.sup = "binding"]],
                    use \cup {p})
<1> DEFINE y == [Blank EXCEPT !.port = p, !.sup = "binding"]
<1>1. Sound(y) /\ y.port = p
  BY DEF Blank, Sound, RelayRecords, SupStates, ConnStates, Admitted
<1>2. y \in RelayRecords
  BY <1>1 DEF Sound
<1> HIDE DEF y
<1>3. RelaysOK([rel EXCEPT ![r] = y], use \cup {p})
  BY <1>1, <1>2 DEF RelaysOK
<1>4. QED
  BY <1>3 DEF y

(* A relay that is forgotten had nothing left. *)
LEMMA ForgottenOK ==
    ASSUME RelaysOK(relay, inUse), NEW r \in Relays
    PROVE  RelaysOK(Forgotten(r), inUse)
BY OneChanges, BlankSound DEF Forgotten

(* Cancelling a supervisor, once or twice, keeps relays and pool in step.  *)
LEMMA ForceSupOK ==
    ASSUME PInv, NEW r \in Relays, ForceSup(r)
    PROVE  PoolOK' /\ RelaysOK(relay', inUse')
<1>1. CASE relay[r].sup = "closing"
  <2>1. /\ ReleasePort(relay[r].port)
        /\ relay' = [relay EXCEPT ![r].sup = "done"]
    BY <1>1 DEF ForceSup
  <2>2. /\ relay[r].port \in inUse
        /\ RelaysOK(relay', inUse \ {relay[r].port})
    BY <1>1, <2>1, SupReleases DEF PInv
  <2>3. QED
    BY <2>1, <2>2, ReleaseKeepsPool DEF PInv
<1>2. CASE relay[r].sup # "closing"
  <2>1. UNCHANGED <<free, inUse>> /\ relay' = [relay EXCEPT ![r] = CancelSup(relay[r])]
    BY <1>2 DEF ForceSup, Pool
  <2>2. Sound(relay[r])
    BY DEF PInv, RelaysOK
  <2>3. RelaysOK(relay', inUse)
    BY <2>1, <2>2, CancelSupSound, OneChanges DEF PInv
  <2>4. QED
    BY <2>1, <2>3 DEF PInv, PoolOK, PoolPartition
<1>3. QED
  BY <1>1, <1>2

-----------------------------------------------------------------------------
(* The steps *)

LEMMA InitPInv == Init => PInv
<1> SUFFICES ASSUME Init PROVE PInv
  OBVIOUS
<1>1. /\ free \in Seq(Ports) /\ Len(free) = LastPort - FirstPort + 1
      /\ \A i \in 1..Len(free) : free[i] = FirstPort + i - 1
  BY PortsAssumption DEF Init, Ports
<1>2. IsInjective(free)
  BY <1>1, PortsAssumption DEF IsInjective
<1>3. ToSet(free) = Ports
  <2>1. ToSet(free) = {free[i] : i \in 1..Len(free)}
    BY <1>1 DEF ToSet
  <2>2. ASSUME NEW p \in Ports PROVE p \in ToSet(free)
    <3>1. p - FirstPort + 1 \in 1..Len(free) /\ free[p - FirstPort + 1] = p
      BY <1>1, PortsAssumption DEF Ports
    <3>2. QED
      BY <2>1, <3>1
  <2>3. ASSUME NEW i \in 1..Len(free) PROVE free[i] \in Ports
    BY <1>1
  <2>4. ToSet(free) \subseteq Ports
    BY <2>1, <2>3
  <2>5. QED
    BY <2>2, <2>4
<1>4. PoolOK
  BY <1>1, <1>2, <1>3 DEF Init, PoolOK, PoolPartition
<1>5. SessionsOK
  BY DEF Init, SessionsOK, SessionStates
<1>6. RelaysOK(relay, inUse)
  BY BlankSound DEF Init, RelaysOK, Sound
<1>7. QED
  BY <1>4, <1>5, <1>6 DEF PInv

(* A step of the relay r's own tasks that leaves the pool alone. *)
LEMMA RelayStepPInv ==
    ASSUME PInv, NEW r \in Relays, NEW y, relay' = [relay EXCEPT ![r] = y],
           Sound(y), Owns(y) => Owns(relay[r]) /\ y.port = relay[r].port,
           UNCHANGED <<Pool, pc, Fields>>
    PROVE  PInv'
<1>1. RelaysOK(relay', inUse)
  BY OneChanges DEF PInv
<1>2. QED
  BY <1>1 DEF PInv, PoolOK, PoolPartition, SessionsOK, Pool, Fields

LEMMA SupStepPInv ==
    ASSUME PInv, NEW r \in Relays, SupStep(r)
    PROVE  PInv'
<1> DEFINE x == relay[r]
<1>T. /\ relay \in [Relays -> RelayRecords] /\ Sound(x) /\ x \in RelayRecords
  BY DEF PInv, RelaysOK
<1>1. ASSUME NEW v \in {"phase1", "phase2", "phase3", "phase4"},
             x.sup \in {"created", "phase1", "phase2", "phase3"},
             relay' = [relay EXCEPT ![r].sup = v], UNCHANGED <<Pool, pc, Fields>>
      PROVE  PInv'
  <2> DEFINE y == [x EXCEPT !.sup = v]
  <2>1. relay' = [relay EXCEPT ![r] = y]
    BY <1>T, <1>1
  <2>2. Sound(y) /\ y.port = x.port /\ Owns(x)
    BY <1>T, <1>1 DEF Sound, Owns, RelayRecords, SupStates
  <2> HIDE DEF y
  <2>3. QED
    BY <1>1, <2>1, <2>2, RelayStepPInv
<1>2. ASSUME x.sup \in {"phase1", "phase2", "phase3", "phase4"},
             relay' = [relay EXCEPT ![r] = BeginClose(x)], UNCHANGED <<Pool, pc, Fields>>
      PROVE  PInv'
  <2>1. Owns(x)
    BY <1>2 DEF Owns
  <2>2. QED
    BY <1>T, <1>2, <2>1, BeginCloseSound, RelayStepPInv
<1>3. CASE SupStart(r)
  BY <1>1, <1>3 DEF SupStart
<1>4. CASE SupSeen(r)
  BY <1>1, <1>4 DEF SupSeen
<1>5. CASE SupAbandoned(r)
  BY <1>2, <1>5 DEF SupAbandoned
<1>6. CASE SupEndpoint(r)
  BY <1>1, <1>2, <1>6 DEF SupEndpoint
<1>7. CASE SupAccept(r)
  BY <1>1, <1>2, <1>7 DEF SupAccept
<1>8. CASE SupFinished(r)
  BY <1>2, <1>8 DEF SupFinished
<1>9. CASE SupClosed(r)
  <2>1. /\ relay[r].port \in inUse
        /\ RelaysOK(relay', inUse \ {relay[r].port})
    BY <1>9, SupReleases DEF SupClosed, PInv
  <2>2. PoolOK' /\ inUse' = inUse \ {relay[r].port}
    BY <1>9, <2>1, ReleaseKeepsPool DEF SupClosed, PInv
  <2>3. QED
    BY <1>9, <2>1, <2>2 DEF SupClosed, PInv, SessionsOK, Fields
<1>10. QED
  BY <1>3, <1>4, <1>5, <1>6, <1>7, <1>8, <1>9 DEF SupStep

LEMMA ConnStepPInv ==
    ASSUME PInv, NEW r \in Relays, NEW c \in Conns, Connection(r, c) \/ HandlerStep(r, c)
    PROVE  PInv'
<1> DEFINE x == relay[r]
<1>T. /\ relay \in [Relays -> RelayRecords] /\ Sound(x) /\ x \in RelayRecords
  BY DEF PInv, RelaysOK
<1>U. UNCHANGED <<Pool, pc, Fields>>
  BY DEF Connection, HandlerStep, HandlerStart, HandlerRefused, HandlerSeen,
         HandlerEndpoint, HandlerPiped, HandlerClosed
<1>1. ASSUME NEW v \in {"new", "refused", "waiting", "piping", "closing", "done"},
             v \in Admitted => x.conn[c] \in Admitted,
             v \in {"waiting", "piping"} => x.seen,
             v = "piping" => x.endpoint = "set",
             NEW f \in BOOLEAN,
             relay' = [relay EXCEPT ![r].conn[c] = v, ![r].finished = f]
      PROVE  PInv'
  <2> DEFINE y == [x EXCEPT !.conn[c] = v, !.finished = f]
  <2>1. relay' = [relay EXCEPT ![r] = y]
    BY <1>T, <1>1
  <2>2. /\ y \in RelayRecords /\ y.port = x.port /\ y.sup = x.sup
        /\ y.listening = x.listening /\ y.seen = x.seen
        /\ y.endpoint = x.endpoint /\ y.accepted = x.accepted
        /\ y.conn = [x.conn EXCEPT ![c] = v]
    BY <1>T DEF RelayRecords, ConnStates
  <2> HIDE DEF y
  <2>3. \A d \in Conns : y.conn[d] = IF d = c THEN v ELSE x.conn[d]
    BY <1>T, <2>2 DEF RelayRecords
  <2>4. Sound(y)
    BY <1>T, <1>1, <2>2, <2>3 DEF Sound
  <2>5. Owns(y) => Owns(x)
    BY <2>2 DEF Owns
  <2>6. QED
    BY <1>U, <2>1, <2>2, <2>4, <2>5, RelayStepPInv
<1>2. ASSUME NEW v, relay' = [relay EXCEPT ![r].conn[c] = v]
      PROVE  x.finished \in BOOLEAN /\ relay' = [relay EXCEPT ![r].conn[c] = v, ![r].finished = x.finished]
  BY <1>T, <1>2 DEF RelayRecords
<1>3. CASE Connection(r, c)
  BY <1>1, <1>2, <1>3 DEF Connection, Admitted
<1>4. CASE HandlerStart(r, c)
  <2>1. CASE c \in Strangers \/ x.accepted
    BY <1>1, <1>2, <1>4, <2>1 DEF HandlerStart, Admitted
  <2>2. CASE ~(c \in Strangers \/ x.accepted)
    <3> DEFINE y == [x EXCEPT !.conn[c] = "parked", !.accepted = TRUE]
    <3>1. relay' = [relay EXCEPT ![r] = y]
      BY <1>T, <1>4, <2>2 DEF HandlerStart
    <3>2. /\ y \in RelayRecords /\ y.port = x.port /\ y.sup = x.sup
          /\ y.listening = x.listening /\ y.seen = x.seen
          /\ y.endpoint = x.endpoint /\ y.accepted = TRUE
          /\ y.conn = [x.conn EXCEPT ![c] = "parked"]
      BY <1>T DEF RelayRecords, ConnStates
    <3> HIDE DEF y
    <3>3. \A d \in Conns : y.conn[d] = IF d = c THEN "parked" ELSE x.conn[d]
      BY <1>T, <3>2 DEF RelayRecords
    <3>4. c \in Clients /\ \A d \in Conns : x.conn[d] \notin Admitted
      BY <1>T, <2>2 DEF Sound, Conns
    <3>5. Sound(y)
      BY <1>T, <3>2, <3>3, <3>4 DEF Sound
    <3>6. Owns(y) => Owns(x)
      BY <3>2 DEF Owns
    <3>7. QED
      BY <1>U, <3>1, <3>2, <3>5, <3>6, RelayStepPInv
  <2>3. QED
    BY <2>1, <2>2
<1>5. CASE HandlerRefused(r, c)
  BY <1>1, <1>2, <1>5 DEF HandlerRefused, Admitted
<1>6. CASE HandlerSeen(r, c)
  BY <1>1, <1>2, <1>6 DEF HandlerSeen, Admitted
<1>7. CASE HandlerEndpoint(r, c)
  <2>1. x.seen /\ x.conn[c] = "waiting"
    BY <1>T, <1>7 DEF HandlerEndpoint, Sound
  <2>2. QED
    BY <1>1, <1>2, <1>7, <2>1 DEF HandlerEndpoint, Admitted
<1>8. CASE HandlerPiped(r, c)
  BY <1>1, <1>2, <1>8 DEF HandlerPiped, Admitted
<1>9. CASE HandlerClosed(r, c)
  BY <1>1, <1>9 DEF HandlerClosed, Admitted
<1>10. QED
  BY <1>3, <1>4, <1>5, <1>6, <1>7, <1>8, <1>9 DEF HandlerStep

(* The session lets go of its relay. *)
LEMMA CancelRelayPInv ==
    ASSUME PInv, NEW s \in Sessions, data[s] # NoRelay,
           NEW next \in {"open", "idle", "ended"}, CancelRelay(s, next)
    PROVE  PInv'
<1> DEFINE r == data[s]
<1>1. r \in Relays
  BY DEF PInv, SessionsOK
<1>2. SessionsOK'
  <2>1. pc' = [pc EXCEPT ![s] = "handlers"] \/ pc' = [pc EXCEPT ![s] = "task"]
    BY DEF CancelRelay, Goto
  <2>2. QED
    BY <1>1, <2>1 DEF CancelRelay, PInv, SessionsOK, SessionStates
<1>3. PoolOK' /\ RelaysOK(relay', inUse')
  <2>1. CASE relay' = [relay EXCEPT ![r] = CancelHandlers(relay[r])] /\ UNCHANGED Pool
    <3>1. RelaysOK(relay', inUse)
      BY <1>1, <2>1, CancelHandlersSound, OneChanges DEF PInv, RelaysOK, Owns
    <3>2. QED
      BY <2>1, <3>1 DEF PInv, PoolOK, PoolPartition, Pool
  <2>2. CASE ForceSup(r)
    BY <1>1, <2>2, ForceSupOK
  <2>3. QED
    BY <2>1, <2>2 DEF CancelRelay
<1>4. QED
  BY <1>2, <1>3 DEF PInv

(* A new relay, or none, once the old one is forgotten. *)
LEMMA OpenPInv ==
    ASSUME PInv, NEW s \in Sessions, NEW rest, RelaysOK(rest, inUse), Open(s, rest),
           victim' \in [Sessions -> Relays \cup {NoRelay}], UNCHANGED after,
           \A t \in Sessions \ {s} : victim'[t] = victim[t]
    PROVE  PInv'
<1>1. PoolOK' /\ RelaysOK(relay', inUse')
  <2>1. CASE relay' = rest /\ UNCHANGED Pool
    BY <2>1 DEF PInv, PoolOK, PoolPartition, Pool
  <2>2. ASSUME NEW p \in Ports, NEW r \in Relays, AcquirePort(p),
               relay' = [rest EXCEPT ![r] = [Blank EXCEPT !.port = p, !.sup = "binding"]]
        PROVE  PoolOK' /\ RelaysOK(relay', inUse')
    <3>1. PoolOK' /\ p \notin inUse /\ inUse' = inUse \cup {p}
      BY <2>2, AcquireKeepsPool DEF PInv
    <3>2. QED
      BY <2>2, <3>1, OneOpens
  <2>3. QED
    BY <2>1, <2>2 DEF Open
<1>2. /\ pc'[s] \in {"idle", "binding"} /\ pc' = [pc EXCEPT ![s] = pc'[s]]
      /\ data' \in [Sessions -> Relays \cup {NoRelay}]
      /\ pc'[s] = "binding" => data'[s] \in Relays
      /\ \A t \in Sessions \ {s} : data'[t] = data[t]
  <2>1. /\ data \in [Sessions -> Relays \cup {NoRelay}]
        /\ pc \in [Sessions -> SessionStates]
    BY DEF PInv, SessionsOK
  <2>2. \/ pc' = [pc EXCEPT ![s] = "idle"] /\ data' = data
        \/ /\ pc' = [pc EXCEPT ![s] = "binding"]
           /\ \E r \in Relays : data' = [data EXCEPT ![s] = r]
    BY DEF Open, Goto
  <2>3. QED
    BY <2>1, <2>2
<1>3. SessionsOK'
  <2>1. /\ pc' \in [Sessions -> SessionStates]
        /\ pc'[s] \in {"idle", "binding"} /\ \A t \in Sessions \ {s} : pc'[t] = pc[t]
    BY <1>2 DEF PInv, SessionsOK, SessionStates
  <2>2. after' \in [Sessions -> {"open", "idle", "ended"}]
    BY DEF PInv, SessionsOK
  <2>3. ASSUME NEW t \in Sessions
        PROVE  /\ pc'[t] \in {"handlers", "task"} => victim'[t] \in Relays
               /\ pc'[t] \in {"binding", "queued", "preparing", "transfer"} =>
                     data'[t] \in Relays
    <3>1. CASE t = s
      BY <1>2, <2>1, <3>1
    <3>2. CASE t # s
      BY <1>2, <2>1, <3>2 DEF PInv, SessionsOK
    <3>3. QED
      BY <3>1, <3>2
  <2>4. QED
    BY <1>2, <2>1, <2>2, <2>3 DEF SessionsOK
<1>4. QED
  BY <1>1, <1>3 DEF PInv

(* The server is up, or the bind failed and the port goes back. *)
LEMMA BindPInv ==
    ASSUME PInv, NEW s \in Sessions, Bind(s)
    PROVE  PInv'
<1> DEFINE r == data[s]
           x == relay[r]
<1>T. /\ pc[s] = "binding" /\ r \in Relays /\ x.sup = "binding"
      /\ relay \in [Relays -> RelayRecords] /\ Sound(x) /\ x \in RelayRecords
      /\ RelaysOK(relay, inUse)
  BY DEF Bind, Bound, BindFails, PInv, SessionsOK, RelaysOK
<1>1. Owns(x)
  BY <1>T DEF Owns
<1>2. CASE Bound(s)
  <2> DEFINE y == [x EXCEPT !.sup = "created", !.listening = TRUE]
  <2>1. Sound(y) /\ y.port = x.port /\ relay' = [relay EXCEPT ![r] = y]
    BY <1>T, <1>2 DEF Bound, Sound, RelayRecords, SupStates
  <2> HIDE DEF y
  <2>2. RelaysOK(relay', inUse)
    BY <1>T, <1>1, <2>1, OneChanges
  <2>3. QED
    BY <1>2, <2>2 DEF Bound, Goto, PInv, PoolOK, PoolPartition, SessionsOK,
                      SessionStates, Pool, Fields
<1>3. CASE BindFails(s)
  <2>1. ReleasePort(x.port) /\ relay' = [relay EXCEPT ![r] = Blank]
    BY <1>3 DEF BindFails
  <2>2. x.port \in inUse /\ RelaysOK(relay', inUse \ {x.port})
    BY <1>T, <1>1, <2>1, BlankSound, OneReleases
  <2>3. PoolOK' /\ inUse' = inUse \ {x.port}
    BY <2>1, <2>2, ReleaseKeepsPool DEF PInv
  <2>4. SessionsOK'
    BY <1>3 DEF BindFails, Goto, PInv, SessionsOK, SessionStates
  <2>5. QED
    BY <2>2, <2>3, <2>4 DEF PInv
<1>4. QED
  BY <1>2, <1>3 DEF Bind

LEMMA TearDownPInv ==
    ASSUME PInv, NEW s \in Sessions, TearDown(s)
    PROVE  PInv'
<1> USE DEF Goto
<1>1. victim[s] \in Relays
  BY DEF PInv, SessionsOK, TearDown, HandlersCancelled, TaskCancelled, TeardownTimeout
<1>2. CASE HandlersCancelled(s)
  <2>1. PoolOK' /\ RelaysOK(relay', inUse')
    BY <1>1, <1>2, ForceSupOK DEF HandlersCancelled
  <2>2. SessionsOK'
    BY <1>1, <1>2 DEF HandlersCancelled, PInv, SessionsOK, SessionStates, Fields
  <2>3. QED
    BY <2>1, <2>2 DEF PInv
<1>3. CASE TeardownTimeout(s)
  <2>1. PoolOK' /\ RelaysOK(relay', inUse')
    BY <1>1, <1>3, ForceSupOK DEF TeardownTimeout
  <2>2. QED
    BY <1>3, <2>1 DEF TeardownTimeout, PInv, SessionsOK, Fields
<1>4. CASE TaskCancelled(s)
  <2>1. RelaysOK(Forgotten(victim[s]), inUse)
    BY <1>1, ForgottenOK DEF PInv
  <2>2. /\ victim' \in [Sessions -> Relays \cup {NoRelay}] /\ UNCHANGED after
        /\ \A t \in Sessions \ {s} : victim'[t] = victim[t]
    BY <1>4 DEF TaskCancelled, PInv, SessionsOK
  <2>3. CASE Open(s, Forgotten(victim[s]))
    BY <2>1, <2>2, <2>3, OpenPInv
  <2>4. CASE /\ after[s] # "open" /\ relay' = Forgotten(victim[s])
             /\ pc' = [pc EXCEPT ![s] = after[s]] /\ UNCHANGED <<Pool, data>>
    <3>1. after[s] \in {"idle", "ended"}
      BY <2>4 DEF PInv, SessionsOK
    <3>2. SessionsOK'
      BY <2>2, <2>4, <3>1 DEF PInv, SessionsOK, SessionStates
    <3>3. QED
      BY <2>1, <2>4, <3>2 DEF PInv, PoolOK, PoolPartition, Pool
  <2>5. QED
    BY <1>4, <2>3, <2>4 DEF TaskCancelled
<1>5. QED
  BY <1>2, <1>3, <1>4 DEF TearDown

LEMMA CommandPInv ==
    ASSUME PInv, NEW s \in Sessions, Command(s)
    PROVE  PInv'
<1> USE DEF Goto
<1>S. /\ pc \in [Sessions -> SessionStates]
      /\ data \in [Sessions -> Relays \cup {NoRelay}]
      /\ pc[s] \in {"queued", "preparing", "transfer"} => data[s] \in Relays
  BY DEF PInv, SessionsOK
<1>R. pc[s] \in {"queued", "preparing", "transfer"} => data[s] # NoRelay
  BY <1>S, RelaysAssumption
<1>1. ASSUME NEW next \in {"open", "idle", "ended"}, data[s] # NoRelay,
             CancelRelay(s, next)
      PROVE  PInv'
  BY <1>1, CancelRelayPInv
<1>2. ASSUME NEW l \in {"idle", "ended", "preparing"}, pc' = [pc EXCEPT ![s] = l],
             l = "preparing" => data[s] \in Relays,
             UNCHANGED <<Pool, Fields, relay>>
      PROVE  PInv'
  BY <1>2 DEF PInv, PoolOK, PoolPartition, SessionsOK, SessionStates, Pool, Fields
<1>3. CASE PassiveRequest(s)
  <2>1. CASE Open(s, relay) /\ UNCHANGED <<victim, after>>
    BY <2>1, OpenPInv DEF PInv, SessionsOK
  <2>2. CASE data[s] # NoRelay /\ CancelRelay(s, "open")
    BY <1>1, <2>2
  <2>3. QED
    BY <1>3, <2>1, <2>2 DEF PassiveRequest
<1>4. ASSUME NEW r \in Relays, r = data[s], NEW y,
             relay' = [relay EXCEPT ![r] = y],
             Sound(y), Owns(y) => Owns(relay[r]) /\ y.port = relay[r].port,
             NEW l \in {"queued", "transfer"}, pc' = [pc EXCEPT ![s] = l],
             UNCHANGED <<Pool, Fields>>
      PROVE  PInv'
  <2>1. RelaysOK(relay', inUse)
    BY <1>4, OneChanges DEF PInv
  <2>2. SessionsOK'
    BY <1>4 DEF PInv, SessionsOK, SessionStates, Fields
  <2>3. QED
    BY <1>4, <2>1, <2>2 DEF PInv, PoolOK, PoolPartition, Pool
<1>5. CASE Transfer(s)
  <2> DEFINE r == data[s]
             y == [relay[r] EXCEPT !.seen = TRUE]
  <2>1. r \in Relays
    BY <1>S, <1>5 DEF Transfer
  <2>2. Sound(relay[r]) /\ relay[r] \in RelayRecords /\ relay \in [Relays -> RelayRecords]
    BY <2>1 DEF PInv, RelaysOK
  <2>3. relay' = [relay EXCEPT ![r] = y]
    BY <1>5, <2>1, <2>2 DEF Transfer
  <2>4. Sound(y) /\ y.port = relay[r].port /\ (Owns(y) => Owns(relay[r]))
    BY <2>2 DEF Sound, Owns, RelayRecords
  <2> HIDE DEF y
  <2>5. QED
    BY <1>4, <1>5, <2>1, <2>3, <2>4 DEF Transfer
<1>6. CASE Prepared(s)
  <2> DEFINE r == data[s]
             y == [relay[r] EXCEPT !.endpoint = "set"]
  <2>1. r \in Relays
    BY <1>S, <1>6 DEF Prepared
  <2>2. Sound(relay[r]) /\ relay[r] \in RelayRecords /\ relay \in [Relays -> RelayRecords]
    BY <2>1 DEF PInv, RelaysOK
  <2>3. relay' = [relay EXCEPT ![r] = y]
    BY <1>6, <2>1, <2>2 DEF Prepared
  <2>4. Sound(y) /\ y.port = relay[r].port /\ (Owns(y) => Owns(relay[r]))
    BY <2>2 DEF Sound, Owns, RelayRecords
  <2> HIDE DEF y
  <2>5. QED
    BY <1>4, <1>6, <2>1, <2>3, <2>4 DEF Prepared
<1>7. CASE Connect(s) \/ TransferEnds(s)
  BY <1>2, <1>7 DEF Connect, TransferEnds
<1>8. CASE Prepare(s)
  BY <1>1, <1>2, <1>8, <1>S, <1>R DEF Prepare
<1>9. CASE NotConnected(s) \/ PrepareFailed(s) \/ TransferLost(s)
  BY <1>1, <1>9, <1>R DEF NotConnected, PrepareFailed, TransferLost
<1>10. CASE End(s)
  BY <1>1, <1>2, <1>10 DEF End
<1>11. QED
  BY <1>3, <1>5, <1>6, <1>7, <1>8, <1>9, <1>10 DEF Command

LEMMA NextPInv == PInv /\ [Next]_vars => PInv'
<1> SUFFICES ASSUME PInv, [Next]_vars PROVE PInv'
  OBVIOUS
<1>1. CASE UNCHANGED vars
  BY <1>1 DEF vars, PInv, PoolOK, PoolPartition, SessionsOK
<1>2. QED
  BY <1>1, SupStepPInv, ConnStepPInv, BindPInv, TearDownPInv, CommandPInv DEF Next

-----------------------------------------------------------------------------

(* Every reachable state of the pool, the relays and the sessions is well  *)
(* typed.                                                                  *)
THEOREM RelayTypeCorrect == Spec => []TypeOK
<1>1. PInv => TypeOK
  BY DEF PInv, PoolOK, SessionsOK, RelaysOK, TypeOK
<1>2. QED
  BY <1>1, InitPInv, NextPInv, PTL DEF Spec

(* No port of the range is ever lost, handed out twice or returned twice:  *)
(* whatever overlaps of teardown, timeout and cancellation, each is free   *)
(* once or in use.                                                         *)
THEOREM PortsPartitioned == Spec => []PoolPartition
<1>1. PInv => PoolPartition
  BY DEF PInv, PoolOK
<1>2. QED
  BY <1>1, InitPInv, NextPInv, PTL DEF Spec

(* A port never goes back while a relay still listens on it, and two       *)
(* relays never listen on one port.                                        *)
THEOREM ListenersKeepTheirPort == Spec => []ListenersOwnTheirPort
<1>1. PInv => ListenersOwnTheirPort
  BY DEF PInv, RelaysOK, Owns, ListenersOwnTheirPort
<1>2. QED
  BY <1>1, InitPInv, NextPInv, PTL DEF Spec

(* A relay splices at most one connection into the printer's data channel, *)
(* from its own client's host and only after its transfer command.         *)
THEOREM SplicesOne == Spec => []OneSplicePerRelay
<1>1. ASSUME NEW x, Sound(x)
      PROVE  Cardinality({c \in Conns : x.conn[c] \in
                 {"parked", "waiting", "piping", "closing"}}) <= 1
  <2> DEFINE A == {c \in Conns : x.conn[c] \in
                     {"parked", "waiting", "piping", "closing"}}
  <2>1. \A c, d \in A : c = d
    BY <1>1 DEF Sound, Admitted
  <2>2. A = {} \/ \E c : A = {c}
    BY <2>1
  <2> HIDE DEF A
  <2>3. Cardinality(A) \in {0, 1}
    BY <2>2, FS_EmptySet, FS_Singleton
  <2>4. Cardinality(A) <= 1
    BY <2>3
  <2>5. QED
    BY <2>4 DEF A
<1>2. ASSUME PInv, NEW r \in Relays, NEW c \in Conns, relay[r].conn[c] = "piping"
      PROVE  c \in Clients /\ relay[r].seen /\ relay[r].endpoint = "set"
  BY <1>2 DEF PInv, RelaysOK, Sound, Admitted
<1>3. PInv => OneSplicePerRelay
  BY <1>1, <1>2 DEF PInv, RelaysOK, OneSplicePerRelay
<1>4. QED
  BY <1>3, InitPInv, NextPInv, PTL DEF Spec

-----------------------------------------------------------------------------
(* Who refers to which relay *)

(* The relays a session still has to do with. *)
Refs(s) == {data[s], victim[s]} \ {NoRelay}

Tearing == {"handlers", "task"}

(* A relay belongs to one session, which has it or is tearing it down. *)
Apart ==
    \A s \in Sessions :
        /\ \A r \in Refs(s) : relay[r].sup # "none"
        /\ \A t \in Sessions \ {s} : Refs(s) \cap Refs(t) = {}
        /\ pc[s] \in Tearing => data[s] = NoRelay
        /\ pc[s] \notin Tearing => victim[s] = NoRelay

(* The supervisor is past phase 2 only with the endpoint. *)
Settled(x) == x.sup \in {"phase3", "phase4"} => x.endpoint = "set"

(* What a session needs of the relay whose endpoint it is about to set. *)
Awaits(x) == x.seen /\ x.endpoint = "pending"

EInv ==
    /\ Apart
    /\ \A r \in Relays : Settled(relay[r])
    /\ \A s \in Sessions : pc[s] \in {"queued", "preparing"} => Awaits(relay[data[s]])

(* What the tasks of a relay make of it. *)
Tame(x, y) ==
    /\ x.sup # "none" => y.sup # "none"
    /\ Settled(x) => Settled(y)
    /\ Settled(x) /\ Awaits(x) => Awaits(y)

(* A step of a relay's own tasks. *)
LEMMA RelayStepEInv ==
    ASSUME PInv, EInv, NEW r \in Relays, NEW y, relay' = [relay EXCEPT ![r] = y],
           Tame(relay[r], y), UNCHANGED <<pc, Fields>>
    PROVE  EInv'
<1>T. relay \in [Relays -> RelayRecords]
  BY DEF PInv, RelaysOK
<1>1. \A q \in Relays : Tame(relay[q], relay'[q])
  BY <1>T DEF Tame
<1>2. \A s \in Sessions : Refs(s)' = Refs(s) /\ Refs(s) \subseteq Relays
  BY DEF Refs, Fields, PInv, SessionsOK
<1>3. Apart'
  BY <1>1, <1>2 DEF EInv, Apart, Tame, Fields
<1>4. \A q \in Relays : Settled(relay'[q])
  BY <1>1 DEF EInv, Tame
<1>5. \A s \in Sessions : pc'[s] \in {"queued", "preparing"} => Awaits(relay'[data'[s]])
  BY <1>1 DEF EInv, Tame, PInv, SessionsOK, Fields
<1>6. QED
  BY <1>3, <1>4, <1>5 DEF EInv, Settled, Awaits

(* A step of a session: it touches only its own relay, or one that nobody  *)
(* refers to.                                                              *)
LEMMA SessionStepEInv ==
    ASSUME PInv, EInv, NEW s \in Sessions,
           \A r \in Relays : relay'[r] = relay[r] \/ r \in Refs(s) \/ relay[r].sup = "none",
           \A r \in Relays : Settled(relay'[r]),
           \A t \in Sessions \ {s} : pc'[t] = pc[t] /\ data'[t] = data[t] /\ victim'[t] = victim[t],
           \A r \in Refs(s)' : r \in Relays /\ relay'[r].sup # "none"
                               /\ (r \in Refs(s) \/ relay[r].sup = "none"),
           pc'[s] \in Tearing => data'[s] = NoRelay,
           pc'[s] \notin Tearing => victim'[s] = NoRelay,
           pc'[s] \in {"queued", "preparing"} => Awaits(relay'[data'[s]])
    PROVE  EInv'
<1>1. \A t \in Sessions : Refs(t) \subseteq Relays
  BY DEF Refs, PInv, SessionsOK
<1>2. ASSUME NEW t \in Sessions \ {s}
      PROVE  /\ Refs(t)' = Refs(t) /\ Refs(t) \cap Refs(s) = {}
             /\ \A r \in Refs(t) : relay'[r] = relay[r] /\ relay[r].sup # "none"
  <2>1. Refs(t)' = Refs(t)
    BY DEF Refs
  <2>2. Refs(t) \cap Refs(s) = {} /\ \A r \in Refs(t) : relay[r].sup # "none"
    BY DEF EInv, Apart
  <2>3. QED
    BY <1>1, <2>1, <2>2
<1>3. ASSUME NEW t \in Sessions \ {s} PROVE Refs(s)' \cap Refs(t)' = {}
  BY <1>2
<1>4. Apart'
  <2>1. ASSUME NEW t \in Sessions
        PROVE  /\ \A r \in Refs(t)' : relay'[r].sup # "none"
               /\ \A u \in Sessions \ {t} : Refs(t)' \cap Refs(u)' = {}
               /\ pc'[t] \in Tearing => data'[t] = NoRelay
               /\ pc'[t] \notin Tearing => victim'[t] = NoRelay
    <3>1. CASE t = s
      BY <1>3, <3>1
    <3>2. CASE t # s
      <4>1. \A r \in Refs(t)' : relay'[r].sup # "none"
        BY <1>2, <3>2
      <4>2. ASSUME NEW u \in Sessions \ {t} PROVE Refs(t)' \cap Refs(u)' = {}
        BY <1>2, <1>3, <3>2 DEF EInv, Apart
      <4>3. QED
        BY <3>2, <4>1, <4>2 DEF EInv, Apart
    <3>3. QED
      BY <3>1, <3>2
  <2>2. QED
    BY <2>1 DEF Apart
<1>5. ASSUME NEW t \in Sessions, pc'[t] \in {"queued", "preparing"}
      PROVE  Awaits(relay'[data'[t]])
  <2>1. CASE t = s
    BY <1>5, <2>1
  <2>2. CASE t # s
    <3>1. data[t] \in Relays /\ Awaits(relay[data[t]])
      BY <1>5, <2>2 DEF EInv, PInv, SessionsOK
    <3>2. data[t] \in Refs(t)
      BY <3>1, RelaysAssumption DEF Refs
    <3>3. QED
      BY <1>2, <2>2, <3>1, <3>2
  <2>3. QED
    BY <2>1, <2>2
<1>6. QED
  BY <1>4, <1>5 DEF EInv, Settled, Awaits

(* Cancelling handlers or supervisor, seen as a step of the record. *)
LEMMA CancellingRecords ==
    ASSUME NEW x \in RelayRecords
    PROVE  /\ CancelHandlers(x).sup = x.sup /\ BeginClose(x).sup = "closing"
           /\ Settled(x) => Settled(CancelHandlers(x)) /\ Settled(CancelSup(x))
           /\ CancelSup(x).sup =
                 IF x.sup = "created" THEN "dropped"
                 ELSE IF x.sup \in {"phase1", "phase2", "phase3", "phase4"} THEN "closing"
                 ELSE x.sup
<1>1. /\ CancelHandlers(x).sup = x.sup
      /\ x.endpoint = "set" => CancelHandlers(x).endpoint = "set"
  BY DEF RelayRecords, CancelHandlers
<1>2. ASSUME NEW y \in RelayRecords PROVE BeginClose(y).sup = "closing"
  <2>1. DOMAIN CancelHandlers(y) = DOMAIN y /\ DOMAIN y =
           {"port", "sup", "listening", "seen", "endpoint", "accepted", "finished", "conn"}
    BY DEF RelayRecords, CancelHandlers
  <2>2. QED
    BY <2>1 DEF BeginClose
<1>3. CASE x.sup = "phase2"
  <2> DEFINE y == [x EXCEPT !.endpoint = IF @ = "pending" THEN "cancelled" ELSE @]
  <2>1. y \in RelayRecords
    BY DEF RelayRecords
  <2>2. CancelSup(x) = BeginClose(y)
    BY <1>3 DEF CancelSup
  <2> HIDE DEF y
  <2>3. CancelSup(x).sup = "closing"
    BY <1>2, <2>1, <2>2
  <2>4. QED
    BY <1>1, <1>2, <1>3, <2>3 DEF Settled
<1>4. CASE x.sup = "created"
  <2>1. CancelSup(x).sup = "dropped"
    BY <1>4 DEF CancelSup, RelayRecords
  <2>2. QED
    BY <1>1, <1>2, <1>4, <2>1 DEF Settled
<1>5. CASE x.sup \in {"phase1", "phase3", "phase4"}
  <2>1. CancelSup(x).sup = "closing"
    BY <1>2, <1>5 DEF CancelSup
  <2>2. QED
    BY <1>1, <1>2, <1>5, <2>1 DEF Settled
<1>6. CASE x.sup \notin {"created", "phase1", "phase2", "phase3", "phase4"}
  <2>1. CancelSup(x) = x
    BY <1>6 DEF CancelSup
  <2>2. QED
    BY <1>1, <1>2, <1>6, <2>1 DEF Settled
<1>7. QED
  BY <1>3, <1>4, <1>5, <1>6

(* No step of the supervisor disturbs a session that waits for the printer:*)
(* it abandons only a relay that was not asked for, or goes on only with   *)
(* the endpoint.                                                           *)
LEMMA SupStepEInv ==
    ASSUME PInv, EInv, NEW r \in Relays, SupStep(r)
    PROVE  EInv'
<1> DEFINE x == relay[r]
<1>T. /\ relay \in [Relays -> RelayRecords] /\ x \in RelayRecords /\ Settled(x)
  BY DEF PInv, RelaysOK, EInv
<1>C. BeginClose(x).sup = "closing"
  BY <1>T, CancellingRecords
<1>1. PICK y :
          /\ relay' = [relay EXCEPT ![r] = y] /\ y.sup # "none"
          /\ Settled(x) => Settled(y)
          /\ Settled(x) /\ Awaits(x) => Awaits(y)
  <2>1. ASSUME NEW l \in SupStates \ {"none", "phase3", "phase4"},
               relay' = [relay EXCEPT ![r].sup = l]
        PROVE  \E y : /\ relay' = [relay EXCEPT ![r] = y] /\ y.sup # "none"
                      /\ Settled(x) => Settled(y)
                      /\ Settled(x) /\ Awaits(x) => Awaits(y)
    <3> DEFINE y == [x EXCEPT !.sup = l]
    <3>1. y.sup = l /\ y.seen = x.seen /\ y.endpoint = x.endpoint
      BY <1>T DEF RelayRecords
    <3>2. relay' = [relay EXCEPT ![r] = y]
      BY <1>T, <2>1
    <3>3. QED
      BY <3>1, <3>2 DEF Settled, Awaits
  <2>2. ASSUME ~Awaits(x), relay' = [relay EXCEPT ![r] = BeginClose(x)]
        PROVE  \E y : /\ relay' = [relay EXCEPT ![r] = y] /\ y.sup # "none"
                      /\ Settled(x) => Settled(y)
                      /\ Settled(x) /\ Awaits(x) => Awaits(y)
    BY <1>C, <2>2 DEF Settled
  <2>3. ASSUME x.endpoint = "set", NEW l \in {"phase3", "phase4"},
               relay' = [relay EXCEPT ![r].sup = l]
        PROVE  \E y : /\ relay' = [relay EXCEPT ![r] = y] /\ y.sup # "none"
                      /\ Settled(x) => Settled(y)
                      /\ Settled(x) /\ Awaits(x) => Awaits(y)
    <3> DEFINE y == [x EXCEPT !.sup = l]
    <3>1. y.sup = l /\ y.seen = x.seen /\ y.endpoint = x.endpoint
      BY <1>T DEF RelayRecords
    <3>2. relay' = [relay EXCEPT ![r] = y]
      BY <1>T, <2>3
    <3>3. QED
      BY <2>3, <3>1, <3>2 DEF Settled, Awaits
  <2>4. CASE SupStart(r) \/ SupSeen(r) \/ SupClosed(r)
    BY <2>1, <2>4 DEF SupStart, SupSeen, SupClosed, SupStates
  <2>5. CASE SupAbandoned(r)
    BY <1>T, <2>2, <2>5 DEF SupAbandoned, Awaits
  <2>6. CASE SupEndpoint(r)
    BY <1>T, <2>2, <2>3, <2>6 DEF SupEndpoint, Awaits
  <2>7. CASE SupAccept(r)
    BY <1>T, <2>2, <2>3, <2>7 DEF SupAccept, Settled, Awaits
  <2>8. CASE SupFinished(r)
    BY <1>T, <2>2, <2>8 DEF SupFinished, Settled, Awaits
  <2>9. QED
    BY <2>4, <2>5, <2>6, <2>7, <2>8 DEF SupStep
<1>2. UNCHANGED <<pc, Fields>>
  BY DEF SupStep, SupStart, SupSeen, SupAbandoned, SupEndpoint, SupAccept, SupFinished,
         SupClosed
<1>3. QED
  BY <1>1, <1>2, RelayStepEInv DEF Tame

(* A connection changes nothing of what the session waits for. *)
LEMMA ConnStepEInv ==
    ASSUME PInv, EInv, NEW r \in Relays, NEW c \in Conns, Connection(r, c) \/ HandlerStep(r, c)
    PROVE  EInv'
<1> DEFINE x == relay[r]
<1>T. relay \in [Relays -> RelayRecords] /\ x \in RelayRecords
  BY DEF PInv, RelaysOK
<1>1. /\ relay' = [relay EXCEPT ![r] = relay'[r]]
      /\ relay'[r].sup = x.sup /\ relay'[r].seen = x.seen /\ relay'[r].endpoint = x.endpoint
  BY <1>T DEF Connection, HandlerStep, HandlerStart, HandlerRefused, HandlerSeen,
              HandlerEndpoint, HandlerPiped, HandlerClosed, RelayRecords
<1>2. UNCHANGED <<pc, Fields>>
  BY DEF Connection, HandlerStep, HandlerStart, HandlerRefused, HandlerSeen,
         HandlerEndpoint, HandlerPiped, HandlerClosed
<1>3. PICK y : y = relay'[r]
  OBVIOUS
<1>4. Tame(x, y)
  BY <1>1, <1>3 DEF Tame, Settled, Awaits
<1>5. QED
  BY <1>1, <1>2, <1>3, <1>4, RelayStepEInv

-----------------------------------------------------------------------------
(* The sessions' steps *)

LEMMA ForceSupRecord ==
    ASSUME PInv, EInv, NEW r \in Relays, relay[r].sup # "none", ForceSup(r)
    PROVE  /\ \A q \in Relays \ {r} : relay'[q] = relay[q]
           /\ relay'[r].sup # "none" /\ \A q \in Relays : Settled(relay'[q])
<1>T. relay \in [Relays -> RelayRecords] /\ \A q \in Relays : Settled(relay[q])
  BY DEF PInv, RelaysOK, EInv
<1>1. CASE relay[r].sup = "closing"
  <2>1. relay' = [relay EXCEPT ![r].sup = "done"]
    BY <1>1 DEF ForceSup
  <2>2. relay'[r].sup = "done"
    BY <1>T, <2>1 DEF RelayRecords
  <2>3. QED
    BY <1>T, <2>1, <2>2 DEF Settled
<1>2. CASE relay[r].sup # "closing"
  <2>1. relay' = [relay EXCEPT ![r] = CancelSup(relay[r])]
    BY <1>2 DEF ForceSup
  <2>2. relay'[r] = CancelSup(relay[r]) /\ \A q \in Relays \ {r} : relay'[q] = relay[q]
    BY <1>T, <2>1
  <2>3. CancelSup(relay[r]).sup # "none" /\ Settled(CancelSup(relay[r]))
    BY <1>T, CancellingRecords
  <2>4. QED
    BY <1>T, <2>2, <2>3
<1>3. QED
  BY <1>1, <1>2

(* What a session lets go of it goes on referring to until it is torn down.*)
LEMMA CancelRelayEInv ==
    ASSUME PInv, EInv, NEW s \in Sessions, data[s] # NoRelay, pc[s] \notin Tearing,
           NEW next, CancelRelay(s, next)
    PROVE  EInv'
<1> DEFINE r == data[s]
<1>T. /\ relay \in [Relays -> RelayRecords] /\ \A q \in Relays : Settled(relay[q])
      /\ pc \in [Sessions -> SessionStates]
      /\ data \in [Sessions -> Relays \cup {NoRelay}]
      /\ victim \in [Sessions -> Relays \cup {NoRelay}]
  BY DEF PInv, RelaysOK, EInv, SessionsOK
<1>1. r \in Relays /\ Refs(s) = {r} /\ relay[r].sup # "none"
  BY <1>T DEF Refs, EInv, Apart
<1>2. /\ pc'[s] \in Tearing /\ data'[s] = NoRelay /\ victim'[s] = r
      /\ \A t \in Sessions \ {s} : pc'[t] = pc[t] /\ data'[t] = data[t] /\ victim'[t] = victim[t]
  BY <1>T DEF CancelRelay, Goto, Tearing
<1>3. /\ \A q \in Relays \ {r} : relay'[q] = relay[q]
      /\ relay'[r].sup # "none" /\ \A q \in Relays : Settled(relay'[q])
  <2>1. CASE relay' = [relay EXCEPT ![r] = CancelHandlers(relay[r])]
    BY <1>T, <1>1, <2>1, CancellingRecords
  <2>2. CASE ForceSup(r)
    BY <1>1, <2>2, ForceSupRecord
  <2>3. QED
    BY <2>1, <2>2 DEF CancelRelay
<1>4. Refs(s)' = {r}
  BY <1>1, <1>2 DEF Refs
<1>5. pc'[s] \notin {"queued", "preparing"}
  BY <1>2 DEF Tearing
<1>6. QED
  BY <1>1, <1>2, <1>3, <1>4, <1>5, SessionStepEInv

(* A new relay takes an identity nobody refers to. *)
LEMMA OpenEInv ==
    ASSUME PInv, EInv, NEW s \in Sessions, NEW rest \in [Relays -> RelayRecords],
           \A r \in Relays : rest[r] = relay[r] \/ (r \in Refs(s) /\ rest[r] = Blank),
           data[s] = NoRelay, victim'[s] = NoRelay,
           \A t \in Sessions \ {s} : victim'[t] = victim[t],
           Open(s, rest)
    PROVE  EInv'
<1>T. /\ pc \in [Sessions -> SessionStates]
      /\ data \in [Sessions -> Relays \cup {NoRelay}]
  BY DEF PInv, SessionsOK
<1>B. Blank.sup = "none" /\ Settled(Blank)
  BY DEF Blank, Settled
<1>1. /\ pc'[s] \notin Tearing /\ pc'[s] \notin {"queued", "preparing"}
      /\ \A t \in Sessions \ {s} : pc'[t] = pc[t]
  BY <1>T DEF Open, Goto, Tearing
<1>2. \A r \in Relays : Settled(rest[r])
  BY <1>B DEF EInv
<1>3. CASE relay' = rest /\ data' = data
  <2>1. Refs(s)' = {}
    BY <1>3 DEF Refs
  <2>2. QED
    BY <1>1, <1>2, <1>3, <2>1, SessionStepEInv
<1>4. ASSUME NEW p \in Ports, NEW r \in Relays, rest[r] = Blank,
             relay' = [rest EXCEPT ![r] = [Blank EXCEPT !.port = p, !.sup = "binding"]],
             data' = [data EXCEPT ![s] = r]
      PROVE  EInv'
  <2>1. /\ relay'[r].sup = "binding" /\ Settled(relay'[r])
        /\ \A q \in Relays \ {r} : relay'[q] = rest[q]
    BY <1>4 DEF Blank, Settled
  <2>2. r \in Refs(s) \/ relay[r].sup = "none"
    BY <1>4, <1>B
  <2>3. Refs(s)' = {r}
    BY <1>T, <1>4, RelaysAssumption DEF Refs
  <2>4. \A t \in Sessions \ {s} : data'[t] = data[t]
    BY <1>T, <1>4
  <2>5. \A q \in Relays : Settled(relay'[q])
    BY <1>2, <2>1
  <2>6. \A q \in Relays : relay'[q] = relay[q] \/ q \in Refs(s) \/ relay[q].sup = "none"
    BY <2>1, <2>2
  <2>7. QED
    BY <1>1, <2>1, <2>2, <2>3, <2>4, <2>5, <2>6, SessionStepEInv
<1>5. QED
  BY <1>3, <1>4 DEF Open

LEMMA BindEInv ==
    ASSUME PInv, EInv, NEW s \in Sessions, Bind(s)
    PROVE  EInv'
<1> DEFINE r == data[s]
<1>T. /\ pc[s] = "binding" /\ r \in Relays
      /\ relay \in [Relays -> RelayRecords] /\ \A q \in Relays : Settled(relay[q])
      /\ pc \in [Sessions -> SessionStates]
      /\ data \in [Sessions -> Relays \cup {NoRelay}]
  BY DEF Bind, Bound, BindFails, PInv, SessionsOK, RelaysOK, EInv
<1>1. victim[s] = NoRelay /\ Refs(s) = {r}
  BY <1>T, RelaysAssumption DEF EInv, Apart, Tearing, Refs
<1>2. /\ pc'[s] = "idle" /\ victim' = victim
      /\ \A t \in Sessions \ {s} : pc'[t] = pc[t] /\ data'[t] = data[t]
      /\ \A q \in Relays \ {r} : relay'[q] = relay[q]
  BY <1>T DEF Bind, Bound, BindFails, Goto, Fields
<1>3. pc'[s] \notin Tearing /\ pc'[s] \notin {"queued", "preparing"}
  BY <1>2 DEF Tearing
<1>4. CASE Bound(s)
  <2>1. /\ relay' = [relay EXCEPT ![r] =
                        [relay[r] EXCEPT !.sup = "created", !.listening = TRUE]]
        /\ data' = data
    BY <1>4 DEF Bound, Fields
  <2>2. relay'[r].sup = "created"
    BY <1>T, <2>1 DEF RelayRecords
  <2>3. \A q \in Relays : Settled(relay'[q])
    BY <1>T, <1>2, <2>2 DEF Settled
  <2>4. Refs(s)' = {r} /\ relay'[r].sup # "none"
    BY <1>1, <1>2, <2>1, <2>2 DEF Refs
  <2>5. QED
    BY <1>T, <1>1, <1>2, <1>3, <2>3, <2>4, SessionStepEInv
<1>5. CASE BindFails(s)
  <2>1. relay'[r] = Blank /\ data'[s] = NoRelay
    BY <1>T, <1>5 DEF BindFails
  <2>2. \A q \in Relays : Settled(relay'[q])
    BY <1>T, <1>2, <2>1 DEF Settled, Blank
  <2>3. Refs(s)' = {}
    BY <1>1, <1>2, <2>1 DEF Refs
  <2>4. QED
    BY <1>1, <1>2, <1>3, <2>2, <2>3, SessionStepEInv
<1>6. QED
  BY <1>4, <1>5 DEF Bind

LEMMA TearDownEInv ==
    ASSUME PInv, EInv, NEW s \in Sessions, TearDown(s)
    PROVE  EInv'
<1> DEFINE v == victim[s]
<1>T. /\ relay \in [Relays -> RelayRecords] /\ \A q \in Relays : Settled(relay[q])
      /\ pc \in [Sessions -> SessionStates]
      /\ data \in [Sessions -> Relays \cup {NoRelay}]
      /\ victim \in [Sessions -> Relays \cup {NoRelay}]
  BY DEF PInv, RelaysOK, EInv, SessionsOK
<1>1. pc[s] \in Tearing /\ data[s] = NoRelay
  BY DEF TearDown, HandlersCancelled, TaskCancelled, TeardownTimeout, Tearing, EInv, Apart
<1>2. v \in Relays /\ Refs(s) = {v} /\ relay[v].sup # "none"
  <2>1. v \in Relays
    BY <1>1 DEF PInv, SessionsOK, Tearing
  <2>2. Refs(s) = {v}
    BY <1>1, <2>1, RelaysAssumption DEF Refs
  <2>3. QED
    BY <2>1, <2>2 DEF EInv, Apart
<1>3. CASE HandlersCancelled(s) \/ TeardownTimeout(s)
  <2>1. /\ pc'[s] = "task" /\ UNCHANGED <<data, victim>> /\ ForceSup(v)
        /\ \A t \in Sessions \ {s} : pc'[t] = pc[t]
    BY <1>3, <1>T DEF HandlersCancelled, TeardownTimeout, Goto, Fields
  <2>2. /\ \A q \in Relays \ {v} : relay'[q] = relay[q]
        /\ relay'[v].sup # "none" /\ \A q \in Relays : Settled(relay'[q])
    BY <1>2, <2>1, ForceSupRecord
  <2>3. Refs(s)' = {v}
    BY <1>2, <2>1 DEF Refs
  <2>4. pc'[s] \in Tearing /\ pc'[s] \notin {"queued", "preparing"} /\ data'[s] = NoRelay
    BY <1>1, <2>1 DEF Tearing
  <2>5. QED
    BY <1>2, <2>1, <2>2, <2>3, <2>4, SessionStepEInv
<1>4. CASE TaskCancelled(s)
  <2>1. /\ victim'[s] = NoRelay
        /\ \A t \in Sessions \ {s} : victim'[t] = victim[t]
    BY <1>4, <1>T DEF TaskCancelled
  <2>2. /\ Forgotten(v) \in [Relays -> RelayRecords]
        /\ \A r \in Relays : Forgotten(v)[r] = relay[r] \/ (r \in Refs(s) /\ Forgotten(v)[r] = Blank)
    BY <1>T, <1>2, BlankSound DEF Forgotten, Sound
  <2>3. CASE Open(s, Forgotten(v))
    BY <1>1, <2>1, <2>2, <2>3, OpenEInv
  <2>4. CASE /\ after[s] # "open" /\ relay' = Forgotten(v)
             /\ Goto(s, after[s]) /\ data' = data
    <3>1. pc'[s] \in {"idle", "ended"} /\ \A t \in Sessions \ {s} : pc'[t] = pc[t]
      BY <2>4, <1>T DEF Goto, PInv, SessionsOK
    <3>2. Refs(s)' = {}
      BY <1>1, <2>1, <2>4 DEF Refs
    <3>3. \A r \in Relays : Settled(Forgotten(v)[r])
      BY <1>T, <2>2 DEF Settled, Blank
    <3>4. pc'[s] \notin Tearing /\ pc'[s] \notin {"queued", "preparing"}
      BY <3>1 DEF Tearing
    <3>5. QED
      BY <2>1, <2>2, <2>4, <3>1, <3>2, <3>3, <3>4, SessionStepEInv
  <2>5. QED
    BY <1>4, <2>3, <2>4 DEF TaskCancelled
<1>5. QED
  BY <1>3, <1>4 DEF TearDown

LEMMA CommandEInv ==
    ASSUME PInv, EInv, NEW s \in Sessions, Command(s)
    PROVE  EInv'
<1>T. /\ relay \in [Relays -> RelayRecords] /\ \A q \in Relays : Settled(relay[q])
      /\ pc \in [Sessions -> SessionStates]
      /\ data \in [Sessions -> Relays \cup {NoRelay}]
      /\ pc[s] \in {"queued", "preparing", "transfer"} => data[s] \in Relays /\ data[s] # NoRelay
  BY RelaysAssumption DEF PInv, RelaysOK, EInv, SessionsOK
<1>1. pc[s] \notin Tearing /\ victim[s] = NoRelay
  <2>1. pc[s] \notin Tearing
    BY DEF Command, Connect, PassiveRequest, Transfer, NotConnected, Prepare, Prepared,
           PrepareFailed, TransferEnds, TransferLost, End, Tearing
  <2>2. QED
    BY <2>1 DEF EInv, Apart
<1>2. ASSUME data[s] # NoRelay, NEW next, CancelRelay(s, next) PROVE EInv'
  BY <1>1, <1>2, CancelRelayEInv
(* The session moves on, and its relay is told at most. *)
<1>3. ASSUME NEW l \in SessionStates \ Tearing, Goto(s, l), UNCHANGED Fields,
             \A r \in Relays : relay'[r] = relay[r] \/ r \in Refs(s),
             \A r \in Relays : Settled(relay'[r]) /\ relay'[r].sup = relay[r].sup,
             l \in {"queued", "preparing"} => Awaits(relay'[data[s]])
      PROVE  EInv'
  <2>1. pc'[s] = l /\ \A t \in Sessions \ {s} : pc'[t] = pc[t]
    BY <1>T, <1>3 DEF Goto
  <2>2. Refs(s)' = Refs(s) /\ Refs(s) \subseteq Relays /\ UNCHANGED <<data, victim>>
    BY <1>3 DEF Refs, Fields, PInv, SessionsOK
  <2>3. \A r \in Refs(s) : relay'[r].sup # "none"
    BY <1>3, <2>2 DEF EInv, Apart
  <2>4. pc'[s] \notin Tearing
    BY <1>3, <2>1
  <2>5. QED
    BY <1>1, <1>3, <2>1, <2>2, <2>3, <2>4, SessionStepEInv
<1>4. CASE PassiveRequest(s)
  <2>1. CASE data[s] = NoRelay /\ Open(s, relay) /\ UNCHANGED <<victim, after>>
    BY <1>T, <1>1, <2>1, OpenEInv
  <2>2. QED
    BY <1>2, <1>4, <2>1 DEF PassiveRequest
<1>5. CASE Transfer(s)
  <2> DEFINE r == data[s]
  <2>1. r \in Relays /\ r \in Refs(s) /\ relay[r].endpoint = "pending"
    BY <1>T, <1>5 DEF Transfer, Refs
  <2>2. /\ relay' = [relay EXCEPT ![r] = [relay[r] EXCEPT !.seen = TRUE]]
        /\ Goto(s, "queued") /\ UNCHANGED Fields
    BY <1>5 DEF Transfer
  <2>3. /\ relay'[r].seen /\ relay'[r].endpoint = "pending" /\ relay'[r].sup = relay[r].sup
        /\ \A q \in Relays \ {r} : relay'[q] = relay[q]
    BY <1>T, <2>1, <2>2 DEF RelayRecords
  <2>4. /\ \A q \in Relays : relay'[q] = relay[q] \/ q \in Refs(s)
        /\ \A q \in Relays : Settled(relay'[q]) /\ relay'[q].sup = relay[q].sup
        /\ Awaits(relay'[r])
    BY <1>T, <2>1, <2>3 DEF Settled, Awaits
  <2>5. "queued" \in SessionStates \ Tearing
    BY DEF SessionStates, Tearing
  <2>6. QED
    BY <1>3, <2>2, <2>4, <2>5
<1>6. CASE Prepared(s)
  <2> DEFINE r == data[s]
  <2>1. r \in Relays /\ r \in Refs(s)
    BY <1>T, <1>6 DEF Prepared, Refs
  <2>2. /\ relay' = [relay EXCEPT ![r] = [relay[r] EXCEPT !.endpoint = "set"]]
        /\ Goto(s, "transfer") /\ UNCHANGED Fields
    BY <1>6 DEF Prepared
  <2>3. /\ relay'[r].endpoint = "set" /\ relay'[r].sup = relay[r].sup
        /\ \A q \in Relays \ {r} : relay'[q] = relay[q]
    BY <1>T, <2>1, <2>2 DEF RelayRecords
  <2>4. /\ \A q \in Relays : relay'[q] = relay[q] \/ q \in Refs(s)
        /\ \A q \in Relays : Settled(relay'[q]) /\ relay'[q].sup = relay[q].sup
    BY <1>T, <2>1, <2>3 DEF Settled
  <2>5. "transfer" \in SessionStates \ Tearing
    BY DEF SessionStates, Tearing
  <2>6. QED
    BY <1>3, <2>2, <2>4, <2>5
<1>7. ASSUME NEW l \in {"idle", "ended", "preparing"}, Goto(s, l), UNCHANGED <<Fields, relay>>,
             l = "preparing" => pc[s] = "queued"
      PROVE  EInv'
  <2>1. l \in SessionStates \ Tearing
    BY DEF SessionStates, Tearing
  <2>2. l \in {"queued", "preparing"} => Awaits(relay'[data[s]])
    BY <1>7 DEF EInv
  <2>3. QED
    BY <1>T, <1>3, <1>7, <2>1, <2>2
<1>8. CASE Connect(s) \/ TransferEnds(s)
  BY <1>7, <1>8 DEF Connect, TransferEnds
<1>9. CASE Prepare(s)
  BY <1>T, <1>2, <1>7, <1>9 DEF Prepare
<1>10. CASE NotConnected(s) \/ PrepareFailed(s) \/ TransferLost(s)
  BY <1>T, <1>2, <1>10 DEF NotConnected, PrepareFailed, TransferLost
<1>11. CASE End(s)
  BY <1>2, <1>7, <1>11 DEF End
<1>12. QED
  BY <1>4, <1>5, <1>6, <1>8, <1>9, <1>10, <1>11 DEF Command

LEMMA NextEInv == PInv /\ EInv /\ [Next]_vars => EInv'
<1> SUFFICES ASSUME PInv, EInv, [Next]_vars PROVE EInv'
  OBVIOUS
<1>1. CASE UNCHANGED vars
  BY <1>1 DEF vars, EInv, Apart, Refs
<1>2. QED
  BY <1>1, SupStepEInv, ConnStepEInv, BindEInv, TearDownEInv, CommandEInv DEF Next

LEMMA InitEInv == Init => EInv
BY DEF Init, EInv, Apart, Refs, Settled, Tearing, Blank, NoRelay

(* No timeout, second session or teardown ever cancels the endpoint a      *)
(* transfer is about to resolve: set_result never raises.                  *)
THEOREM EndpointAwaited == Spec => []EndpointStillOpen
<1>1. PInv /\ EInv => EndpointStillOpen
  BY RelaysAssumption DEF PInv, SessionsOK, EInv, Awaits, EndpointStillOpen
<1>2. QED
  BY <1>1, InitPInv, NextPInv, InitEInv, NextEInv, PTL DEF Spec

-----------------------------------------------------------------------------
(* Who gives a port back *)

Over == {"none", "done"}

(* Every port in use is the port of a supervisor that has not ended, if it *)
(* was not dropped.                                                        *)
Keepers ==
    \A p \in inUse : \E r \in Relays : relay[r].port = p /\ relay[r].sup \notin Over

(* What a step does to a relay that keeps a port: it stays the keeper, or  *)
(* gives the port back.                                                    *)
Kept(r) ==
    \/ relay'[r].port = relay[r].port /\ relay'[r].sup \notin Over
    \/ relay[r].sup \in Over
    \/ relay[r].port \notin inUse'

LEMMA KeepersKept ==
    ASSUME Keepers, \A r \in Relays : Kept(r), inUse' \subseteq inUse
    PROVE  Keepers'
<1> SUFFICES ASSUME NEW p \in inUse'
             PROVE  \E r \in Relays : relay'[r].port = p /\ relay'[r].sup \notin Over
  BY DEF Keepers
<1>1. PICK r \in Relays : relay[r].port = p /\ relay[r].sup \notin Over
  BY DEF Keepers
<1>2. QED
  BY <1>1 DEF Kept

(* The supervisor that ends by itself gives its port back. *)
LEMMA SupStepKeepers ==
    ASSUME PInv, Keepers, NEW r \in Relays, SupStep(r)
    PROVE  Keepers'
<1> DEFINE x == relay[r]
<1>T. /\ relay \in [Relays -> RelayRecords] /\ x \in RelayRecords /\ Sound(x)
  BY DEF PInv, RelaysOK
<1>C. BeginClose(x).sup = "closing" /\ BeginClose(x).port = x.port
  BY <1>T, CancellingRecords, BeginCloseSound
<1>1. ASSUME NEW l \in SupStates \ Over, relay' = [relay EXCEPT ![r].sup = l], inUse' = inUse
      PROVE  Keepers'
  <2>1. relay'[r].sup = l /\ relay'[r].port = relay[r].port
    BY <1>T, <1>1 DEF RelayRecords
  <2>2. \A q \in Relays \ {r} : relay'[q] = relay[q]
    BY <1>T, <1>1
  <2>3. QED
    BY <1>1, <2>1, <2>2, KeepersKept DEF Kept
<1>2. ASSUME relay' = [relay EXCEPT ![r] = BeginClose(x)], inUse' = inUse
      PROVE  Keepers'
  <2>1. relay'[r].sup = "closing" /\ relay'[r].port = relay[r].port
    BY <1>T, <1>C, <1>2
  <2>2. \A q \in Relays \ {r} : relay'[q] = relay[q]
    BY <1>T, <1>2
  <2>3. QED
    BY <1>2, <2>1, <2>2, KeepersKept DEF Kept, Over
<1>3. CASE SupClosed(r)
  <2>1. relay'[r].sup = "done" /\ \A q \in Relays \ {r} : relay'[q] = relay[q]
    BY <1>T, <1>3 DEF SupClosed, RelayRecords
  <2>2. relay[r].port \notin inUse' /\ inUse' \subseteq inUse
    BY <1>3 DEF SupClosed, ReleasePort, Pool
  <2>3. QED
    BY <2>1, <2>2, KeepersKept DEF Kept
<1>4. CASE SupStart(r) \/ SupSeen(r) \/ SupEndpoint(r) \/ SupAccept(r)
  BY <1>1, <1>2, <1>4
  DEF SupStart, SupSeen, SupEndpoint, SupAccept, SupStates, Over, Pool
<1>5. CASE SupAbandoned(r) \/ SupFinished(r)
  BY <1>2, <1>5 DEF SupAbandoned, SupFinished, Pool
<1>6. QED
  BY <1>3, <1>4, <1>5 DEF SupStep

LEMMA ConnStepKeepers ==
    ASSUME PInv, Keepers, NEW r \in Relays, NEW c \in Conns, Connection(r, c) \/ HandlerStep(r, c)
    PROVE  Keepers'
<1>T. relay \in [Relays -> RelayRecords] /\ relay[r] \in RelayRecords
  BY DEF PInv, RelaysOK
<1>1. /\ \A q \in Relays \ {r} : relay'[q] = relay[q]
      /\ relay'[r].sup = relay[r].sup /\ relay'[r].port = relay[r].port
  BY <1>T DEF Connection, HandlerStep, HandlerStart, HandlerRefused, HandlerSeen,
              HandlerEndpoint, HandlerPiped, HandlerClosed, RelayRecords
<1>2. inUse' = inUse
  BY DEF Connection, HandlerStep, HandlerStart, HandlerRefused, HandlerSeen,
         HandlerEndpoint, HandlerPiped, HandlerClosed, Pool
<1>3. QED
  BY <1>1, <1>2, KeepersKept DEF Kept

(* A cancelled supervisor goes on to its finally, is dropped, or, in its   *)
(* finally, gives the port back at once.                                   *)
LEMMA ForceSupKeeps ==
    ASSUME PInv, NEW r \in Relays, ForceSup(r)
    PROVE  (\A q \in Relays : Kept(q)) /\ inUse' \subseteq inUse
<1>T. /\ relay \in [Relays -> RelayRecords] /\ relay[r] \in RelayRecords /\ Sound(relay[r])
  BY DEF PInv, RelaysOK
<1>1. CASE relay[r].sup = "closing"
  <2>1. relay' = [relay EXCEPT ![r].sup = "done"] /\ ReleasePort(relay[r].port)
    BY <1>1 DEF ForceSup
  <2>2. relay'[r].sup = "done" /\ \A q \in Relays \ {r} : relay'[q] = relay[q]
    BY <1>T, <2>1 DEF RelayRecords
  <2>3. relay[r].port \notin inUse' /\ inUse' \subseteq inUse
    BY <2>1 DEF ReleasePort, Pool
  <2>4. QED
    BY <2>2, <2>3 DEF Kept
<1>2. CASE relay[r].sup # "closing"
  <2>1. relay' = [relay EXCEPT ![r] = CancelSup(relay[r])] /\ inUse' = inUse
    BY <1>2 DEF ForceSup, Pool
  <2>2. relay'[r] = CancelSup(relay[r]) /\ \A q \in Relays \ {r} : relay'[q] = relay[q]
    BY <1>T, <2>1
  <2>3. CancelSup(relay[r]).port = relay[r].port
    BY <1>T, CancelSupSound
  <2>4. CancelSup(relay[r]).sup \in {relay[r].sup, "closing", "dropped"}
    BY <1>T, CancellingRecords
  <2>5. QED
    BY <2>1, <2>2, <2>3, <2>4 DEF Kept, Over
<1>3. QED
  BY <1>1, <1>2

LEMMA CancelRelayKeepers ==
    ASSUME PInv, Keepers, NEW s \in Sessions, data[s] # NoRelay,
           NEW next, CancelRelay(s, next)
    PROVE  Keepers'
<1> DEFINE r == data[s]
<1>1. r \in Relays
  BY DEF PInv, SessionsOK
<1>2. CASE relay' = [relay EXCEPT ![r] = CancelHandlers(relay[r])] /\ UNCHANGED Pool
  <2>1. /\ relay'[r].sup = relay[r].sup /\ relay'[r].port = relay[r].port
        /\ \A q \in Relays \ {r} : relay'[q] = relay[q]
    BY <1>1, <1>2, CancelHandlersSound DEF PInv, RelaysOK
  <2>2. QED
    BY <1>2, <2>1, KeepersKept DEF Kept, Pool
<1>3. CASE ForceSup(r)
  BY <1>1, <1>3, ForceSupKeeps, KeepersKept
<1>4. QED
  BY <1>2, <1>3 DEF CancelRelay

(* A new relay is the keeper of its port, and was nobody's before. *)
LEMMA OpenKeepers ==
    ASSUME PInv, Keepers, NEW s \in Sessions, NEW rest \in [Relays -> RelayRecords],
           \A r \in Relays : rest[r] = relay[r] \/ (rest[r] = Blank /\ relay[r].sup = "done"),
           Open(s, rest)
    PROVE  Keepers'
<1>B. Blank.sup = "none"
  BY DEF Blank
<1>1. CASE relay' = rest /\ inUse' = inUse
  BY <1>1, KeepersKept DEF Kept, Over
<1>2. ASSUME NEW p \in Ports, NEW r \in Relays, rest[r] = Blank, AcquirePort(p),
             relay' = [rest EXCEPT ![r] = [Blank EXCEPT !.port = p, !.sup = "binding"]]
      PROVE  Keepers'
  <2>1. /\ relay'[r].sup = "binding" /\ relay'[r].port = p
        /\ \A q \in Relays \ {r} : relay'[q] = rest[q]
    BY <1>2 DEF Blank
  <2>2. relay[r].sup \in Over
    BY <1>B, <1>2 DEF Over
  <2>3. ASSUME NEW o \in inUse'
        PROVE  \E q \in Relays : relay'[q].port = o /\ relay'[q].sup \notin Over
    <3>1. CASE o = p
      BY <2>1, <3>1 DEF Over
    <3>2. CASE o \in inUse
      <4>1. PICK q \in Relays : relay[q].port = o /\ relay[q].sup \notin Over
        BY <3>2 DEF Keepers
      <4>2. q # r /\ rest[q] = relay[q]
        BY <2>2, <4>1 DEF Over
      <4>3. QED
        BY <2>1, <4>1, <4>2
    <3>3. QED
      BY <1>2, <3>1, <3>2 DEF AcquirePort
  <2>4. QED
    BY <2>3 DEF Keepers
<1>3. QED
  BY <1>1, <1>2 DEF Open, Pool

LEMMA BindKeepers ==
    ASSUME PInv, Keepers, NEW s \in Sessions, Bind(s)
    PROVE  Keepers'
<1> DEFINE r == data[s]
<1>T. /\ relay \in [Relays -> RelayRecords] /\ r \in Relays
  BY DEF Bind, Bound, BindFails, PInv, SessionsOK, RelaysOK
<1>1. CASE Bound(s)
  <2>1. /\ relay'[r].sup = "created" /\ relay'[r].port = relay[r].port
        /\ \A q \in Relays \ {r} : relay'[q] = relay[q]
    BY <1>T, <1>1 DEF Bound, RelayRecords
  <2>2. QED
    BY <1>1, <2>1, KeepersKept DEF Bound, Kept, Over, Pool
<1>2. CASE BindFails(s)
  <2>1. \A q \in Relays \ {r} : relay'[q] = relay[q]
    BY <1>T, <1>2 DEF BindFails
  <2>2. relay[r].port \notin inUse' /\ inUse' \subseteq inUse
    BY <1>2 DEF BindFails, ReleasePort, Pool
  <2>3. QED
    BY <2>1, <2>2, KeepersKept DEF Kept
<1>3. QED
  BY <1>1, <1>2 DEF Bind

(* A supervisor that was dropped left its listener, and is not forgotten.  *)
LEMMA TearDownKeepers ==
    ASSUME PInv, Keepers, NEW s \in Sessions, TearDown(s)
    PROVE  Keepers'
<1> DEFINE v == victim[s]
<1>T. relay \in [Relays -> RelayRecords] /\ v \in Relays
  BY DEF PInv, RelaysOK, SessionsOK, TearDown, HandlersCancelled, TaskCancelled,
         TeardownTimeout
<1>1. CASE HandlersCancelled(s) \/ TeardownTimeout(s)
  BY <1>T, <1>1, ForceSupKeeps, KeepersKept DEF HandlersCancelled, TeardownTimeout
<1>2. CASE TaskCancelled(s)
  <2>1. relay[v].sup = "done" \/ relay[v].listening
    BY <1>T, <1>2 DEF TaskCancelled, SupOver, PInv, RelaysOK, Sound
  <2>2. /\ Forgotten(v) \in [Relays -> RelayRecords]
        /\ \A r \in Relays : Forgotten(v)[r] = relay[r]
                             \/ (Forgotten(v)[r] = Blank /\ relay[r].sup = "done")
    BY <1>T, <2>1, BlankSound DEF Forgotten, Sound
  <2>3. CASE Open(s, Forgotten(v))
    BY <2>2, <2>3, OpenKeepers
  <2>4. CASE relay' = Forgotten(v) /\ UNCHANGED Pool
    BY <2>2, <2>4, KeepersKept DEF Kept, Over, Pool
  <2>5. QED
    BY <1>2, <2>3, <2>4 DEF TaskCancelled
<1>3. QED
  BY <1>1, <1>2 DEF TearDown

LEMMA CommandKeepers ==
    ASSUME PInv, Keepers, NEW s \in Sessions, Command(s)
    PROVE  Keepers'
<1>T. /\ relay \in [Relays -> RelayRecords]
      /\ pc[s] \in {"queued", "preparing", "transfer"} => data[s] # NoRelay
  BY RelaysAssumption DEF PInv, RelaysOK, SessionsOK
<1>1. ASSUME data[s] # NoRelay, NEW next, CancelRelay(s, next) PROVE Keepers'
  BY <1>1, CancelRelayKeepers
<1>2. ASSUME \A r \in Relays : relay'[r].sup = relay[r].sup /\ relay'[r].port = relay[r].port,
             UNCHANGED Pool
      PROVE  Keepers'
  BY <1>2, KeepersKept DEF Kept, Pool
<1>3. CASE PassiveRequest(s)
  BY <1>T, <1>1, <1>3, OpenKeepers DEF PassiveRequest
<1>4. CASE Transfer(s)
  <2>1. \A r \in Relays : relay'[r].sup = relay[r].sup /\ relay'[r].port = relay[r].port
    BY <1>T, <1>4 DEF Transfer, RelayRecords
  <2>2. QED
    BY <1>2, <1>4, <2>1 DEF Transfer
<1>5. CASE Prepared(s)
  <2>1. \A r \in Relays : relay'[r].sup = relay[r].sup /\ relay'[r].port = relay[r].port
    BY <1>T, <1>5 DEF Prepared, RelayRecords
  <2>2. QED
    BY <1>2, <1>5, <2>1 DEF Prepared
<1>6. CASE Connect(s) \/ TransferEnds(s)
  BY <1>2, <1>6 DEF Connect, TransferEnds
<1>7. CASE NotConnected(s) \/ Prepare(s) \/ PrepareFailed(s) \/ TransferLost(s) \/ End(s)
  BY <1>T, <1>1, <1>2, <1>7
  DEF NotConnected, Prepare, PrepareFailed, TransferLost, End
<1>8. QED
  BY <1>3, <1>4, <1>5, <1>6, <1>7 DEF Command

LEMMA NextKeepers == PInv /\ Keepers /\ [Next]_vars => Keepers'
<1> SUFFICES ASSUME PInv, Keepers, [Next]_vars PROVE Keepers'
  OBVIOUS
<1>1. CASE UNCHANGED vars
  BY <1>1 DEF vars, Keepers
<1>2. QED
  BY <1>1, SupStepKeepers, ConnStepKeepers, BindKeepers, TearDownKeepers, CommandKeepers DEF Next

(* A port in use is lost only with a supervisor that was cancelled before  *)
(* its first step; every other one has a supervisor that has not ended and *)
(* does not end without giving it back.                                    *)
THEOREM PortsAreKept == Spec => []PortsHaveKeepers
<1>1. Init => Keepers
  BY DEF Init, Keepers
<1>2. Keepers => PortsHaveKeepers
  BY DEF Keepers, Over, PortsHaveKeepers, Lost
<1>3. QED
  BY <1>1, <1>2, InitPInv, NextPInv, NextKeepers, PTL DEF Spec
=============================================================================
