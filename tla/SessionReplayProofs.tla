------------------------ MODULE SessionReplayProofs ------------------------
(***************************************************************************)
(* For any settings, values, names and depth of directories: a command is  *)
(* only ever forwarded to a printer session that is as the client was told *)
(* it is.                                                                  *)
(*                                                                         *)
(* The invariant compares the record with the client setting by setting,   *)
(* over those that are not lost: agreement as a whole is not kept by the   *)
(* steps, agreement outside _lost_settings is.  Nothing is asked of how a  *)
(* path resolves, only that the proxy, the printer and the client resolve  *)
(* it alike, so the shape of the paths is left out of it.                  *)
(*                                                                         *)
(* That the paths are paths is proved after it.  They are built by a fold, *)
(* so the argument is an induction along the hops, made here by way of the *)
(* first hop at which it would fail.                                       *)
(***************************************************************************)
EXTENDS SessionReplay, SequenceTheorems, NaturalsInduction, WellFoundedInduction, TLAPS

(* What a new session would have for setting c, and where it would be.     *)
WouldBe(c) == IF recorded[c] # Unset THEN recorded[c] ELSE Default

Shape ==
    /\ conn \in {"open", "closed"}
    /\ recorded \in [Settings -> Values \cup {Unset}]
    /\ client = [settings |-> client.settings, cwd |-> client.cwd]
    /\ client.settings \in [Settings -> Values]
    /\ strayed \in BOOLEAN

RecordAgrees ==
    /\ \A c \in Settings \ lost : WouldBe(c) = client.settings[c]
    /\ \A c \in Settings \cap lost : recorded[c] = Unset
    /\ "CWD" \in lost => cwd = Root
    /\ "CWD" \notin lost /\ ~strayed => cwd = client.cwd

RInv ==
    /\ Shape
    /\ RecordAgrees
    /\ RecordMatchesSession

(* What changes neither the record nor the client keeps their agreement.   *)
LEMMA RecordKept ==
    ASSUME RInv, conn' \in {"open", "closed"},
           UNCHANGED <<recorded, cwd, lost, client, strayed>>
    PROVE  (Shape /\ RecordAgrees)'
BY DEF RInv, Shape, RecordAgrees, WouldBe

LEMMA InitRInv == Init => RInv
<1> SUFFICES ASSUME Init PROVE RInv
  OBVIOUS
<1>1. Shape
  BY ValuesAssumption DEF Init, Shape, FreshSession
<1>2. RecordAgrees
  BY DEF Init, RecordAgrees, WouldBe, FreshSession
<1>3. RecordMatchesSession
  BY DEF Init, RecordMatchesSession
<1>4. QED
  BY <1>1, <1>2, <1>3 DEF RInv

LEMMA CloseSessionRInv == RInv /\ CloseSession => RInv'
<1> SUFFICES ASSUME RInv, CloseSession PROVE RInv'
  OBVIOUS
<1>1. RecordMatchesSession'
  BY DEF CloseSession, RecordMatchesSession
<1>2. QED
  BY <1>1, RecordKept DEF CloseSession, RInv

LEMMA AnsweredRInv == RInv /\ Answered => RInv'
<1> SUFFICES ASSUME RInv, Answered PROVE RInv'
  OBVIOUS
<1>1. Replayed' = Replayed
  BY DEF Answered, Replayed
<1>2. Target = Replayed
  BY DEF Target, RInv, RecordMatchesSession
<1>3. RecordMatchesSession'
  BY <1>1, <1>2 DEF Answered, RecordMatchesSession
<1>4. QED
  BY <1>3, RecordKept DEF Answered, RInv

(* Opening fails, before or in the replay.  A refused setting is unset and *)
(* lost at once, so it is compared with nothing.                           *)
LEMMA NotOpenedRInv == RInv /\ NotOpened => RInv'
<1> SUFFICES ASSUME RInv, NotOpened PROVE RInv'
  OBVIOUS
<1>1. CASE OpenFails
  <2>1. RecordMatchesSession'
    BY <1>1 DEF OpenFails, vars, RecordMatchesSession
  <2>2. QED
    BY <1>1, <2>1, RecordKept DEF OpenFails, vars, RInv, Shape
<1>2. ASSUME NEW c \in Replays, ReplayFails(c) PROVE RInv'
  <2>1. Shape'
    BY <1>2 DEF ReplayFails, RInv, Shape
  <2>2. c \in Settings \/ c = "CWD"
    BY <1>2 DEF Replays
  <2>3. RecordAgrees'
    BY <1>2, <2>2, SettingsAssumption DEF ReplayFails, RInv, Shape, RecordAgrees, WouldBe
  <2>4. RecordMatchesSession'
    BY <1>2 DEF ReplayFails, RecordMatchesSession
  <2>5. QED
    BY <2>1, <2>3, <2>4 DEF RInv
<1>3. QED
  BY <1>1, <1>2 DEF NotOpened

(* A setting answered locally, or accepted by the printer, is recorded as  *)
(* the client was told and is lost no more.                                *)
LEMMA SettingRInv ==
    ASSUME RInv, NEW c \in Settings, NEW v \in Values,
           SetLocally(c, v) \/ SetUpstream(c, v)
    PROVE  RInv'
<1>1. CASE /\ recorded' = [recorded EXCEPT ![c] = v]
           /\ lost' = lost \ {c}
           /\ client' = [client EXCEPT !.settings[c] = v]
           /\ UNCHANGED <<conn, cwd, strayed>>
           /\ \/ conn = "closed" /\ UNCHANGED printer
              \/ conn = "open" /\ printer' = [printer EXCEPT !.settings[c] = v]
  <2>1. /\ client'.cwd = client.cwd
        /\ client'.settings = [client.settings EXCEPT ![c] = v]
        /\ client' = [settings |-> client'.settings, cwd |-> client'.cwd]
    BY <1>1 DEF RInv, Shape
  <2>2. Shape'
    BY <1>1, <2>1 DEF RInv, Shape
  <2>3. RecordAgrees'
    BY <1>1, <2>1, ValuesAssumption, SettingsAssumption
       DEF RInv, Shape, RecordAgrees, WouldBe
  <2>4. CASE conn = "closed"
    BY <1>1, <2>2, <2>3, <2>4 DEF RInv, RecordMatchesSession
  <2>5. CASE conn = "open"
    <3>1. printer = Replayed
      BY <2>5 DEF RInv, RecordMatchesSession
    <3>2. printer' = Replayed'
      BY <1>1, <2>5, <3>1, ValuesAssumption DEF RInv, Shape, Replayed
    <3>3. QED
      BY <2>2, <2>3, <3>2 DEF RInv, RecordMatchesSession
  <2>6. QED
    BY <2>4, <2>5 DEF RInv, Shape
<1>2. CASE Answered \/ NoReply
  BY <1>2, AnsweredRInv, CloseSessionRInv DEF NoReply
<1>3. QED
  BY <1>1, <1>2 DEF SetLocally, SetUpstream

(* A directory the printer accepts is resolved from the same place by all  *)
(* three, unless the client's was lost and the argument is relative.       *)
LEMMA ChangeDirRInv ==
    ASSUME RInv, NEW arg \in Arguments, ChangeDir(arg)
    PROVE  RInv'
<1>1. CASE /\ RecordCwd(arg)
           /\ conn' = "open"
           /\ printer' = [Target EXCEPT !.cwd = Resolve(@, arg)]
           /\ client' = [client EXCEPT !.cwd = Resolve(@, arg)]
           /\ strayed' = (~arg.absolute /\ (strayed \/ "CWD" \in lost))
           /\ UNCHANGED recorded
  <2>1. Target = Replayed
    BY DEF Target, RInv, RecordMatchesSession
  <2>2. printer' = Replayed'
    BY <1>1, <2>1 DEF Replayed, RecordCwd
  <2>3. /\ client'.settings = client.settings
        /\ client'.cwd = Resolve(client.cwd, arg)
        /\ client' = [settings |-> client'.settings, cwd |-> client'.cwd]
    BY <1>1 DEF RInv, Shape
  <2>4. strayed' \in BOOLEAN
    BY <1>1, Zenon
  <2>5. Shape'
    BY <1>1, <2>3, <2>4 DEF RInv, Shape
  <2>6. arg.absolute => \A p, q : Resolve(p, arg) = Resolve(q, arg)
    BY DEF Resolve
  <2>7. ~strayed' => Resolve(cwd, arg) = Resolve(client.cwd, arg)
    <3>1. CASE arg.absolute
      BY <2>6, <3>1
    <3>2. CASE ~arg.absolute
      BY <1>1, <3>2 DEF RInv, RecordAgrees
    <3>3. QED
      BY <3>1, <3>2
  <2>8. RecordAgrees'
    BY <1>1, <2>3, <2>7, SettingsAssumption DEF RInv, RecordAgrees, WouldBe, RecordCwd
  <2>9. QED
    BY <1>1, <2>2, <2>5, <2>8 DEF RInv, RecordMatchesSession
<1>2. CASE NotOpened \/ Answered \/ NoReply
  BY <1>2, NotOpenedRInv, AnsweredRInv, CloseSessionRInv DEF NoReply
<1>3. QED
  BY <1>1, <1>2 DEF ChangeDir

LEMMA NextRInv == RInv /\ [Next]_vars => RInv'
<1> SUFFICES ASSUME RInv, [Next]_vars PROVE RInv'
  OBVIOUS
<1>1. CASE UNCHANGED vars
  BY <1>1 DEF vars, RInv, Shape, RecordAgrees, WouldBe, RecordMatchesSession, Replayed
<1>2. CASE Forward
  BY <1>2, NotOpenedRInv, AnsweredRInv, CloseSessionRInv DEF Forward, NoReply
<1>3. CASE IdleRelease
  BY <1>3, CloseSessionRInv DEF IdleRelease
<1>4. QED
  BY <1>1, <1>2, <1>3, SettingRInv, ChangeDirRInv DEF Next

-----------------------------------------------------------------------------

(* No transfer is forwarded to a printer session with other modes, or in   *)
(* another directory, than the client was told, through any sequence of    *)
(* commands, refusals, lost connections and failed replays, except after   *)
(* the client moved on from a lost directory by a relative path.           *)
THEOREM ForwardedAsTold == Spec => []SessionAsTold
<1>1. ASSUME RInv, lost = {}
      PROVE  /\ Target.settings = client.settings
             /\ ~strayed => Target.cwd = client.cwd
  <2>1. Target = Replayed
    BY <1>1 DEF Target, RInv, RecordMatchesSession
  <2>2. Replayed.settings = [c \in Settings |-> WouldBe(c)] /\ Replayed.cwd = cwd
    BY DEF Replayed, WouldBe
  <2>3. \A c \in Settings : WouldBe(c) = client.settings[c]
    BY <1>1 DEF RInv, RecordAgrees
  <2>4. client.settings = [c \in Settings |-> client.settings[c]]
    BY <1>1 DEF RInv, Shape
  <2>5. QED
    BY <1>1, <2>1, <2>2, <2>3, <2>4 DEF RInv, RecordAgrees
<1>2. RInv => SessionAsTold
  BY <1>1 DEF SessionAsTold
<1>3. QED
  BY <1>2, InitRInv, NextRInv, PTL DEF Spec

(* A setting the printer refused in a replay is not replayed again before  *)
(* the client has set it anew, so a refusal cannot lock the client out.    *)
THEOREM RefusedIsNotReplayed == Spec => []LostIsForgotten
<1>1. RInv => LostIsForgotten
  BY SettingsAssumption DEF RInv, RecordAgrees, LostIsForgotten, Replays
<1>2. QED
  BY <1>1, InitRInv, NextRInv, PTL DEF Spec

(* The open session is what a replay onto a new one would make it, so that *)
(* the session of an idle client can be closed at any time.                *)
THEOREM ReopeningIsInvisible == Spec => []RecordMatchesSession
<1>1. RInv => RecordMatchesSession
  BY DEF RInv
<1>2. QED
  BY <1>1, InitRInv, NextRInv, PTL DEF Spec

-----------------------------------------------------------------------------
(* Walking along hops *)

(* How a fold over indices picks the next one. *)
LastIn(s) == CHOOSE x \in s : \A y \in s : x >= y

(* it[s] is where the hops with an index in s lead from p. *)
Folds(it, p, h, S) ==
    it = [s \in SUBSET S |->
            IF s = {} THEN p ELSE Hop(it[s \ {LastIn(s)}], h[LastIn(s)])]

(* A nonempty set of numbers has a least one: what stands for induction. *)
LEMMA LeastOf ==
    ASSUME NEW T \in SUBSET Nat, T # {}
    PROVE  \E m \in T : \A n \in T : m <= n
<1> DEFINE R == OpToRel(<, Nat)
<1>1. IsWellFoundedOn(R, Nat)
  BY NatLessThanWellFounded
<1>2. \A m, n \in Nat : n < m => <<n, m>> \in R
  BY DEF OpToRel
<1> HIDE DEF R
<1>3. PICK m \in T : \A n \in T : ~ (<<n, m>> \in R)
  BY <1>1, WFMin
<1>4. ASSUME NEW n \in T PROVE m <= n
  <2>1. m \in Nat /\ n \in Nat
    OBVIOUS
  <2>2. ~(n < m)
    BY <2>1, <1>2, <1>3
  <2>3. QED
    BY <2>1, <2>2
<1>5. QED
  BY <1>4

(* The index picked is the last one. *)
LEMMA LastOfPrefix ==
    ASSUME NEW n \in Nat, NEW s \in SUBSET (1..(n + 1)), n + 1 \in s
    PROVE  LastIn(s) = n + 1
<1> DEFINE P(x) == \A y \in s : x >= y
<1>1. P(n + 1) /\ \A x \in s : P(x) => x = n + 1
  OBVIOUS
<1>2. QED
  BY <1>1 DEF LastIn

(* Such a function exists for any number of hops: one for n extends to n+1. *)
LEMMA FoldExtends ==
    ASSUME NEW p, NEW h, NEW n \in Nat, NEW f, Folds(f, p, h, 1..n)
    PROVE  \E g : Folds(g, p, h, 1..(n + 1))
<1> DEFINE g == [s \in SUBSET (1..(n + 1)) |->
                    IF n + 1 \in s THEN Hop(f[s \ {n + 1}], h[n + 1]) ELSE f[s]]
<1>1. ASSUME NEW s \in SUBSET (1..(n + 1)), n + 1 \in s
      PROVE  g[s] = Hop(g[s \ {LastIn(s)}], h[LastIn(s)])
  <2>1. LastIn(s) = n + 1
    BY <1>1, LastOfPrefix
  <2>2. s \ {n + 1} \in SUBSET (1..(n + 1)) /\ n + 1 \notin s \ {n + 1}
    OBVIOUS
  <2>3. g[s \ {n + 1}] = f[s \ {n + 1}]
    BY <2>2
  <2>4. QED
    BY <1>1, <2>1, <2>3
<1>2. ASSUME NEW s \in SUBSET (1..(n + 1)), n + 1 \notin s
      PROVE  g[s] = IF s = {} THEN p ELSE Hop(g[s \ {LastIn(s)}], h[LastIn(s)])
  <2>1. s \in SUBSET (1..n)
    BY <1>2
  <2>2. g[s] = f[s]
    BY <1>2
  <2>3. s \ {LastIn(s)} \in SUBSET (1..(n + 1)) /\ n + 1 \notin s \ {LastIn(s)}
    BY <1>2
  <2>4. g[s \ {LastIn(s)}] = f[s \ {LastIn(s)}]
    BY <2>3
  <2>5. f[s] = IF s = {} THEN p ELSE Hop(f[s \ {LastIn(s)}], h[LastIn(s)])
    BY <2>1 DEF Folds
  <2>6. QED
    BY <2>2, <2>4, <2>5
<1>3. \A s \in SUBSET (1..(n + 1)) :
          g[s] = IF s = {} THEN p ELSE Hop(g[s \ {LastIn(s)}], h[LastIn(s)])
  <2>1. TAKE s \in SUBSET (1..(n + 1))
  <2>2. CASE n + 1 \in s
    <3>1. s # {}
      BY <2>2
    <3>2. QED
      BY <2>2, <3>1, <1>1
  <2>3. CASE n + 1 \notin s
    BY <2>3, <1>2
  <2>4. QED
    BY <2>2, <2>3
<1>4. g = [s \in SUBSET (1..(n + 1)) |-> g[s]]
  OBVIOUS
<1> HIDE DEF g
<1>5. Folds(g, p, h, 1..(n + 1))
  BY <1>3, <1>4 DEF Folds
<1>6. QED
  BY <1>5

LEMMA FoldExists ==
    ASSUME NEW p, NEW h, NEW n \in Nat
    PROVE  \E f : Folds(f, p, h, 1..n)
<1> DEFINE Bad == {m \in Nat : ~ \E f : Folds(f, p, h, 1..m)}
<1>1. SUFFICES ASSUME Bad # {} PROVE FALSE
  OBVIOUS
<1>2. PICK m \in Bad : \A k \in Bad : m <= k
  <2>1. Bad \in SUBSET Nat
    OBVIOUS
  <2> HIDE DEF Bad
  <2>2. QED BY <1>1, <2>1, LeastOf
<1>3. m # 0
  <2>1. Folds([s \in SUBSET (1..0) |-> p], p, h, 1..0)
    BY DEF Folds
  <2>2. QED
    BY <2>1, <1>2
<1>4. m - 1 \in Nat /\ m - 1 \notin Bad
  BY <1>2, <1>3
<1>5. PICK f : Folds(f, p, h, 1..(m - 1))
  BY <1>4
<1>6. \E g : Folds(g, p, h, 1..((m - 1) + 1))
  BY <1>4, <1>5, FoldExtends
<1>7. (m - 1) + 1 = m
  BY <1>4
<1>8. QED
  BY <1>6, <1>7, <1>2

(* So Walk is the value of one. *)
LEMMA WalkFolds ==
    ASSUME NEW p, NEW A, NEW h \in Seq(A)
    PROVE  \E it : Folds(it, p, h, 1..Len(h)) /\ Walk(p, h) = it[1..Len(h)]
<1>1. Walk(p, h) = (CHOOSE it : Folds(it, p, h, DOMAIN h))[DOMAIN h]
  BY DEF Walk, FoldLeft, MapThenFoldSet, Max, Folds, LastIn
<1>2. DOMAIN h = 1..Len(h) /\ Len(h) \in Nat
  OBVIOUS
<1>3. \E it : Folds(it, p, h, 1..Len(h))
  BY <1>2, FoldExists
<1>4. QED
  BY <1>1, <1>2, <1>3

LEMMA FrontType ==
    ASSUME NEW A, NEW r \in Seq(A), Len(r) # 0
    PROVE  Front(r) \in Seq(A) /\ Len(Front(r)) = Len(r) - 1
<1>1. Len(r) \in Nat /\ \A i \in 1..(Len(r) - 1) : r[i] \in A
  OBVIOUS
<1>2. ASSUME NEW n \in Nat, n # 0
      PROVE  /\ 1 \in Int /\ n - 1 \in Int
             /\ 1 <= n - 1 => (n - 1) - 1 + 1 = n - 1
             /\ ~(1 <= n - 1) => 0 = n - 1
  BY <1>2
<1>3. /\ Front(r) \in Seq(A)
      /\ Len(Front(r)) = IF 1 <= Len(r) - 1 THEN (Len(r) - 1) - 1 + 1 ELSE 0
  BY <1>1, <1>2, SubSeqProperties DEF Front
<1>4. QED
  BY <1>1, <1>2, <1>3, Zenon

(* A hop leads from paths to paths and keeps the shorter one the shorter. *)
LEMMA HopType ==
    ASSUME NEW p \in Seq(Names), NEW q \in Seq(Names), Len(p) <= Len(q),
           NEW name \in Names \cup {Up}
    PROVE  Hop(p, name) \in Seq(Names) /\ Len(Hop(p, name)) <= Len(Hop(q, name))
<1>1. ASSUME NEW r \in Seq(Names)
      PROVE  /\ Hop(r, name) \in Seq(Names)
             /\ Len(Hop(r, name)) = IF name # Up THEN Len(r) + 1
                                    ELSE IF Len(r) = 0 THEN 0 ELSE Len(r) - 1
  <2>1. CASE name # Up
    BY <2>1 DEF Hop
  <2>2. CASE name = Up /\ r = Root
    BY <2>2 DEF Hop, Root
  <2>3. CASE name = Up /\ r # Root
    <3>1. Len(r) # 0 /\ Len(r) \in Nat
      BY <2>3 DEF Root
    <3>2. Front(r) \in Seq(Names) /\ Len(Front(r)) = Len(r) - 1
      BY <3>1, FrontType
    <3>3. QED
      BY <2>3, <3>1, <3>2 DEF Hop
  <2>4. QED
    BY <2>1, <2>2, <2>3
<1>2. Len(p) \in Nat /\ Len(q) \in Nat
  OBVIOUS
<1>3. QED
  BY <1>1, <1>2

(* Over the first k hops, it is one hop from where the first k-1 lead. *)
LEMMA FoldStep ==
    ASSUME NEW it, NEW p, NEW h, NEW n \in Nat, NEW k \in 0..n, Folds(it, p, h, 1..n)
    PROVE  it[1..k] = IF k = 0 THEN p ELSE Hop(it[1..(k - 1)], h[k])
<1>1. 1..k \in SUBSET (1..n)
  OBVIOUS
<1>2. CASE k = 0
  <2>1. 1..k = {}
    BY <1>2
  <2>2. QED
    BY <1>1, <1>2, <2>1 DEF Folds
<1>3. CASE k # 0
  <2>1. (k - 1) \in Nat /\ (k - 1) + 1 = k
    BY <1>3
  <2>2. LastIn(1..k) = k
    <3>1. 1..k \in SUBSET (1..((k - 1) + 1)) /\ (k - 1) + 1 \in 1..k
      BY <2>1
    <3>2. QED
      BY <2>1, <3>1, LastOfPrefix
  <2>3. (1..k) \ {k} = 1..(k - 1) /\ 1..k # {}
    BY <2>1
  <2>4. QED
    BY <1>1, <1>3, <2>2, <2>3 DEF Folds
<1>4. QED
  BY <1>2, <1>3

(* So does a walk: at no hop is the first failure. *)
LEMMA WalkType ==
    ASSUME NEW p \in Seq(Names), NEW q \in Seq(Names), Len(p) <= Len(q),
           NEW h \in Seq(Names \cup {Up})
    PROVE  Walk(p, h) \in Seq(Names) /\ Len(Walk(p, h)) <= Len(Walk(q, h))
<1>1. PICK f : Folds(f, p, h, 1..Len(h)) /\ Walk(p, h) = f[1..Len(h)]
  BY WalkFolds
<1>2. PICK g : Folds(g, q, h, 1..Len(h)) /\ Walk(q, h) = g[1..Len(h)]
  BY WalkFolds
<1> DEFINE Good(k) == /\ f[1..k] \in Seq(Names)
                      /\ g[1..k] \in Seq(Names)
                      /\ Len(f[1..k]) <= Len(g[1..k])
           Bad == {k \in 0..Len(h) : ~Good(k)}
<1>3. Len(h) \in Nat
  OBVIOUS
<1>4. Good(0)
  BY <1>1, <1>2, <1>3, FoldStep
<1>5. ASSUME NEW k \in 1..Len(h), Good(k - 1) PROVE Good(k)
  <2>1. k \in 0..Len(h) /\ k # 0
    OBVIOUS
  <2>2. h[k] \in Names \cup {Up}
    OBVIOUS
  <2>3. f[1..k] = Hop(f[1..(k - 1)], h[k]) /\ g[1..k] = Hop(g[1..(k - 1)], h[k])
    BY <1>1, <1>2, <1>3, <2>1, FoldStep
  <2>4. f[1..(k - 1)] \in Seq(Names) /\ g[1..(k - 1)] \in Seq(Names)
        /\ Len(f[1..(k - 1)]) <= Len(g[1..(k - 1)])
    BY <1>5
  <2>5. Len(g[1..(k - 1)]) <= Len(g[1..(k - 1)])
    BY <2>4
  <2>6. ASSUME NEW F, NEW G, F \in Seq(Names), G \in Seq(Names), Len(F) <= Len(G)
        PROVE  /\ Hop(F, h[k]) \in Seq(Names)
               /\ Hop(G, h[k]) \in Seq(Names)
               /\ Len(Hop(F, h[k])) <= Len(Hop(G, h[k]))
    <3>1. Len(G) <= Len(G)
      BY <2>6
    <3>2. QED
      BY <2>2, <2>6, <3>1, HopType
  <2>7. QED
    BY <2>3, <2>4, <2>6
<1>6. Bad = {}
  <2>1. SUFFICES ASSUME Bad # {} PROVE FALSE
    OBVIOUS
  <2>2. PICK m \in Bad : \A k \in Bad : m <= k
    <3>1. Bad \in SUBSET Nat
      BY <1>3
    <3> HIDE DEF Bad
    <3>2. QED
      BY <2>1, <3>1, LeastOf
  <2>3. m \in 0..Len(h) /\ ~Good(m)
    OBVIOUS
  <2> HIDE DEF Good
  <2>4. m # 0
    BY <1>4, <2>3
  <2>5. m - 1 \in 0..Len(h) /\ m \in 1..Len(h)
    BY <1>3, <2>3, <2>4
  <2>6. Good(m - 1)
    BY <2>2, <2>5, <1>3
  <2>7. QED
    BY <1>5, <2>3, <2>5, <2>6
<1>7. Good(Len(h))
  BY <1>3, <1>6
<1>8. QED
  BY <1>1, <1>2, <1>7

LEMMA ResolveType ==
    ASSUME NEW p \in Seq(Names), NEW q \in Seq(Names), Len(p) <= Len(q),
           NEW arg \in Arguments
    PROVE  /\ Resolve(p, arg) \in Seq(Names)
           /\ Resolve(q, arg) \in Seq(Names)
           /\ Len(Resolve(p, arg)) <= Len(Resolve(q, arg))
<1>1. arg.hops \in Seq(Names \cup {Up})
  <2>1. \A x \in Paths : x \in Seq(Names \cup {Up})
    <3>1. SUFFICES ASSUME NEW n \in 0..MaxDepth, NEW x \in [1..n -> Names]
                   PROVE  x \in Seq(Names \cup {Up})
      BY DEF Paths
    <3>2. n \in Nat /\ x \in [1..n -> Names \cup {Up}]
      BY MaxDepthAssumption
    <3>3. QED
      BY <3>2
  <2>2. \A n \in Names \cup {Up} : <<n>> \in Seq(Names \cup {Up})
    OBVIOUS
  <2>3. \A n \in Names : <<Up, n>> \in Seq(Names \cup {Up})
    OBVIOUS
  <2>4. CASE \E x \in Paths : arg = [absolute |-> TRUE, hops |-> x]
    BY <2>1, <2>4
  <2>5. CASE \E n \in Names \cup {Up} : arg = [absolute |-> FALSE, hops |-> <<n>>]
    BY <2>2, <2>5
  <2>6. CASE \E n \in Names : arg = [absolute |-> FALSE, hops |-> <<Up, n>>]
    BY <2>3, <2>6
  <2>7. QED
    BY <2>4, <2>5, <2>6 DEF Arguments
<1>2. Root \in Seq(Names) /\ Len(Root) <= Len(Root) /\ Len(q) <= Len(q)
  BY DEF Root
<1>3. QED
  BY <1>1, <1>2, WalkType DEF Resolve

-----------------------------------------------------------------------------
(* Types *)

(* The proxy is never deeper than the client was told: it starts again     *)
(* from the root when the directory is lost.                               *)
PathsOK ==
    /\ cwd \in Seq(Names)
    /\ client.cwd \in Seq(Names)
    /\ Len(cwd) <= Len(client.cwd)
    /\ Len(client.cwd) <= MaxDepth
    /\ lost \subseteq Settings \cup {"CWD"}
    /\ conn = "closed" => printer = FreshSession

LEMMA InitPathsOK == Init => PathsOK
BY MaxDepthAssumption DEF Init, PathsOK, FreshSession, Root

LEMMA CloseSessionPathsOK == PathsOK /\ CloseSession => PathsOK'
BY DEF PathsOK, CloseSession, FreshSession

LEMMA AnsweredPathsOK == PathsOK /\ Answered => PathsOK'
BY DEF PathsOK, Answered

LEMMA NotOpenedPathsOK == PathsOK /\ NotOpened => PathsOK'
<1> SUFFICES ASSUME PathsOK, NotOpened PROVE PathsOK'
  OBVIOUS
<1>1. CASE OpenFails
  BY <1>1 DEF OpenFails, vars, PathsOK, FreshSession
<1>2. ASSUME NEW c \in Replays, ReplayFails(c) PROVE PathsOK'
  <2>1. c \in Settings \cup {"CWD"}
    BY DEF Replays
  <2>2. Root \in Seq(Names) /\ Len(Root) = 0 /\ Len(client.cwd) \in Nat
    BY DEF Root, PathsOK
  <2>3. QED
    BY <1>2, <2>1, <2>2 DEF ReplayFails, PathsOK, FreshSession
<1>3. QED
  BY <1>1, <1>2 DEF NotOpened

LEMMA SettingPathsOK ==
    ASSUME RInv, PathsOK, NEW c \in Settings, NEW v \in Values,
           SetLocally(c, v) \/ SetUpstream(c, v)
    PROVE  PathsOK'
<1>1. [client EXCEPT !.settings[c] = v].cwd = client.cwd
  BY DEF RInv, Shape
<1>2. CASE SetLocally(c, v)
  BY <1>1, <1>2 DEF SetLocally, PathsOK, FreshSession
<1>3. CASE SetUpstream(c, v)
  <2>1. CASE Answered \/ NoReply
    BY <2>1, AnsweredPathsOK, CloseSessionPathsOK DEF NoReply
  <2>2. QED
    BY <1>1, <1>3, <2>1 DEF SetUpstream, PathsOK
<1>4. QED
  BY <1>2, <1>3

LEMMA ChangeDirPathsOK ==
    ASSUME RInv, PathsOK, NEW arg \in Arguments, ChangeDir(arg)
    PROVE  PathsOK'
<1>1. CASE NotOpened \/ Answered \/ NoReply
  BY <1>1, NotOpenedPathsOK, AnsweredPathsOK, CloseSessionPathsOK DEF NoReply
<1>2. CASE /\ RecordCwd(arg)
           /\ conn' = "open"
           /\ client' = [client EXCEPT !.cwd = Resolve(@, arg)]
  <2>1. client'.cwd = Resolve(client.cwd, arg)
    BY <1>2 DEF RInv, Shape
  <2>2. /\ cwd' \in Seq(Names)
        /\ client'.cwd \in Seq(Names)
        /\ Len(cwd') <= Len(client'.cwd)
    BY <1>2, <2>1, ResolveType DEF PathsOK, RecordCwd
  <2>3. Len(client'.cwd) <= MaxDepth
    BY <2>1 DEF ChangeDir
  <2>4. QED
    BY <1>2, <2>2, <2>3 DEF PathsOK, RecordCwd
<1>3. QED
  BY <1>1, <1>2 DEF ChangeDir

LEMMA NextPathsOK == RInv /\ PathsOK /\ [Next]_vars => PathsOK'
<1> SUFFICES ASSUME RInv, PathsOK, [Next]_vars PROVE PathsOK'
  OBVIOUS
<1>1. CASE UNCHANGED vars
  BY <1>1 DEF vars, PathsOK, FreshSession
<1>2. CASE Forward
  BY <1>2, NotOpenedPathsOK, AnsweredPathsOK, CloseSessionPathsOK DEF Forward, NoReply
<1>3. CASE IdleRelease
  BY <1>3, CloseSessionPathsOK DEF IdleRelease
<1>4. QED
  BY <1>1, <1>2, <1>3, SettingPathsOK, ChangeDirPathsOK DEF Next

LEMMA ShortPathsArePaths ==
    ASSUME NEW p \in Seq(Names), Len(p) <= MaxDepth
    PROVE  p \in Paths
<1>1. Len(p) \in 0..MaxDepth /\ p \in [1..Len(p) -> Names]
  BY MaxDepthAssumption
<1>2. QED
  BY <1>1 DEF Paths

(* Every reachable state of a session is well typed: whatever is refused,  *)
(* lost or replayed, what the proxy would replay and what the printer and  *)
(* the client hold are settings and directories that exist.                *)
THEOREM ReplayTypeCorrect == Spec => []TypeOK
<1>1. ASSUME RInv, PathsOK PROVE TypeOK
  <2>1. cwd \in Paths /\ client.cwd \in Paths /\ Root \in Paths
    <3>1. Len(cwd) \in Nat /\ Len(client.cwd) \in Nat
      BY <1>1 DEF PathsOK
    <3>2. Root \in Seq(Names) /\ Len(Root) <= MaxDepth
      BY MaxDepthAssumption DEF Root
    <3>3. QED
      BY <1>1, <3>1, <3>2, MaxDepthAssumption, ShortPathsArePaths DEF PathsOK
  <2>2. client \in Sessions
    BY <1>1, <2>1 DEF RInv, Shape, Sessions
  <2>3. printer \in Sessions
    <3>1. FreshSession \in Sessions
      BY <2>1, ValuesAssumption DEF FreshSession, Sessions
    <3>2. Replayed \in Sessions
      BY <1>1, <2>1, ValuesAssumption DEF RInv, Shape, Replayed, Sessions
    <3>3. QED
      BY <1>1, <3>1, <3>2 DEF RInv, Shape, RecordMatchesSession, PathsOK
  <2>4. QED
    BY <1>1, <2>1, <2>2, <2>3 DEF RInv, Shape, PathsOK, TypeOK
<1>2. RInv /\ PathsOK => TypeOK
  BY <1>1
<1>3. QED
  BY <1>2, InitRInv, NextRInv, InitPathsOK, NextPathsOK, PTL DEF Spec
=============================================================================
