---------------------------- MODULE ProgramProofs ----------------------------
(***************************************************************************)
(* The certificates and the supervision keep their invariants for every    *)
(* supply of keys, every set of addresses, and any number of restarts.     *)
(*                                                                         *)
(* The two halves are nearly independent, and so are their invariants.     *)
(* AuthorityInv and LeafInv say what each phase of a start knows of the    *)
(* files; of a certificate whose issue was interrupted they say that the   *)
(* start it was issued for would refuse the old one again.  ShutdownInv    *)
(* says which fields the driver task may still write when, and that it     *)
(* only launches a child it has seen gone.                                 *)
(***************************************************************************)
EXTENDS Program, TLAPS

(* Why a start s issues a new certificate, its key file apart. *)
Stale(s) ==
    \/ disk.leafCert \notin Leaves
    \/ disk.leafCert.signer # disk.caCert
    \/ s.advertise # Absent /\ s.advertise \notin disk.leafCert.covers
    \/ disk.leafCert.due

AuthorityInv ==
    /\ disk.caCert \in Keys => disk.caKey = disk.caCert
    /\ phase \in {"caKey", "caCert"} => ca \in Keys /\ disk.caCert \notin Keys
    /\ phase = "caCert" => disk.caKey = ca
    /\ phase \in {"check", "leafKey", "leafCert"} => ca \in Keys /\ disk.caCert = ca

LeafInv ==
    /\ disk.leafCert \in Leaves => disk.leafKey # Absent
    /\ disk.leafCert \in Leaves /\ cut = Absent => disk.leafKey = disk.leafCert.key
    /\ cut # Absent => disk.caCert \in Keys /\ Stale(cut)
    /\ phase \in {"leafKey", "leafCert"} =>
          /\ cut = start
          /\ leaf \in Leaves /\ leaf.signer = ca /\ leaf.covers = start.covers
    /\ phase = "leafCert" => disk.leafKey = leaf.key

CertInv == CertTypeOK /\ AuthorityInv /\ LeafInv /\ PairTrusted

-----------------------------------------------------------------------------
(* The certificates *)

(* A fresh directory, and that of an earlier version, hold no authority. *)
LEMMA CertInitially == CertInit => CertInv
<1> USE FilesAssumption
<1> SUFFICES ASSUME CertInit PROVE CertInv
  OBVIOUS
<1>0. SomeKey \in Keys
  BY DEF SomeKey
<1>1. CertTypeOK
  <2>1. \A covers \in SUBSET Addresses : EarlierLeaf(SomeKey, covers) \in Leaves
    BY <1>0 DEF EarlierLeaf, Leaves
  <2>2. NoStart \in Starts /\ ProperStart(NoStart)
    BY DEF NoStart, Starts, ProperStart
  <2>3. disk \in [caKey : Keys \cup Unreadable, caCert : Keys \cup Unreadable,
                 leafKey : Keys \cup Unreadable, leafCert : Leaves \cup Unreadable]
    BY <1>0, <2>1 DEF CertInit, Unreadable
  <2>4. QED
    BY <2>2, <2>3 DEF CertInit, CertTypeOK, Phases
<1>2. disk.caCert = Absent
  BY DEF CertInit, Files
<1>3. disk.leafCert \in Leaves => disk.leafKey = disk.leafCert.key /\ disk.leafKey # Absent
  BY <1>0 DEF CertInit, Files, Unreadable, EarlierLeaf
<1>4. QED
  BY <1>1, <1>2, <1>3 DEF CertInv, CertInit, AuthorityInv, LeafInv, PairTrusted, Unreadable

(* The only steps that write the authority's files are those of create_ca, *)
(* and they are taken before there is a certificate.                       *)
LEMMA AuthorityStep ==
    ASSUME CertInv, CertNext
    PROVE  disk.caCert \in Keys => disk'.caCert = disk.caCert /\ disk'.caKey = disk.caKey
<1> USE FilesAssumption DEF CertInv, CertTypeOK, AuthorityInv
<1>1. CASE Open("caKey") \/ Fill("caKey", ca, "caCert") \/ Open("caCert") \/ Fill("caCert", ca, "check")
  BY <1>1 DEF Open, Fill
<1>2. CASE Open("leafKey") \/ Open("leafCert")
  BY <1>2 DEF Open
<1>3. CASE Fill("leafKey", leaf.key, "leafCert") \/ Fill("leafCert", leaf, "issued")
  BY <1>3 DEF Fill
<1>4. CASE Age
  BY <1>4 DEF Age
<1>5. CASE UNCHANGED disk
  BY <1>5
<1>6. QED
  BY <1>1, <1>2, <1>3, <1>4, <1>5
  DEF CertNext, CertStep, Boot, LoadAuthority, CreateAuthority, WriteAuthority, KeepLeaf,
      IssueLeaf, WriteLeaf, Serve, Die

LEMMA FreshIsAKey == CanGenerate => Fresh \in Keys
BY DEF CanGenerate, Fresh

(* The steps that write no file.  A certificate is kept only if it was not *)
(* the stale one of an interrupted issue, or the start is another.         *)
LEMMA MemoryStep ==
    ASSUME CertInv,
           \/ \E s \in Starts : ProperStart(s) /\ Boot(s)
           \/ LoadAuthority \/ CreateAuthority \/ KeepLeaf \/ IssueLeaf \/ Serve \/ Die
    PROVE  CertInv'
<1> USE FilesAssumption DEF CertInv, Unreadable
<1>1. ASSUME NEW s \in Starts, ProperStart(s), Boot(s) PROVE CertInv'
  <2>1. phase' = "load" /\ start' = s /\ UNCHANGED <<disk, opened, ca, leaf, cut>> /\ ~opened
    BY <1>1 DEF Boot, CertTypeOK, Files
  <2>2. CertTypeOK'
    BY <1>1, <2>1 DEF CertTypeOK, Phases, ProperStart
  <2>3. QED
    BY <2>1, <2>2 DEF AuthorityInv, LeafInv, PairTrusted, Stale
<1>2. CASE LoadAuthority
  <2>1. disk.caCert \in Keys /\ disk.caKey \in Keys
    BY <1>2 DEF LoadAuthority, AuthorityReadable, CertTypeOK
  <2>2. phase' = "check" /\ ca' = disk.caKey /\ UNCHANGED <<disk, opened, start, leaf, cut>> /\ ~opened
    BY <1>2 DEF LoadAuthority, CertTypeOK, Files
  <2>3. CertTypeOK'
    BY <2>1, <2>2 DEF CertTypeOK, Phases, ProperStart
  <2>4. QED
    BY <2>1, <2>2, <2>3 DEF AuthorityInv, LeafInv, PairTrusted, Stale
<1>3. CASE CreateAuthority
  BY <1>3, FreshIsAKey
  DEF CreateAuthority, AuthorityReadable, CertTypeOK, Phases, Files, AuthorityInv, LeafInv,
      PairTrusted, Stale
<1>4. CASE KeepLeaf
  <2>1. PairTrusted'
    <3>1. cut = start => cut # Absent
      BY DEF CertTypeOK
    <3>2. cut # start
      BY <1>4, <3>1 DEF KeepLeaf, Keepable, SignedBy, Covers, ExpiresSoon, LeafInv, Stale
    <3>3. cut = Absent => PairLoads
      BY <1>4 DEF KeepLeaf, Keepable, SignedBy, Covers, ExpiresSoon, LeafInv, PairLoads, Leaves
    <3>4. QED
      BY <1>4, <3>2, <3>3 DEF KeepLeaf, Keepable, SignedBy, Covers, ExpiresSoon, PairTrusted, PairLoads
  <2>2. CertTypeOK'
    BY <1>4 DEF KeepLeaf, CertTypeOK, Phases, Files, ProperStart
  <2>3. AuthorityInv' /\ LeafInv'
    BY <1>4 DEF KeepLeaf, AuthorityInv, LeafInv, Stale
  <2>4. QED
    BY <2>1, <2>2, <2>3
<1>5. CASE IssueLeaf
  <2>1. leaf' \in Leaves /\ leaf'.signer = ca /\ leaf'.covers = start.covers
    BY <1>5, FreshIsAKey DEF IssueLeaf, CertTypeOK, AuthorityInv, Leaves, Starts
  <2>2. Stale(start)
    BY <1>5 DEF IssueLeaf, Keepable, SignedBy, Covers, ExpiresSoon, Stale, LeafInv
  <2>3. start # Absent
    BY DEF CertTypeOK
  <2>4. QED
    BY <1>5, <2>1, <2>2, <2>3
    DEF IssueLeaf, CertTypeOK, Phases, Files, AuthorityInv, LeafInv, PairTrusted, Stale
<1>6. CASE Serve \/ Die
  <2>1. NoStart \in Starts /\ ProperStart(NoStart)
    BY DEF NoStart, Starts, ProperStart
  <2>2. /\ phase' \in {"serving", "down"} /\ opened' = FALSE
        /\ start' = NoStart /\ UNCHANGED <<disk, cut>>
        /\ ca' \in {ca, Absent} /\ leaf' \in {leaf, Absent}
    <3>1. CASE Serve
      <4>1. ~opened
        BY <3>1 DEF Serve, CertTypeOK, Files
      <4>2. QED
        BY <3>1, <4>1 DEF Serve
    <3>2. CASE Die
      BY <3>2 DEF Die
    <3>3. QED
      BY <1>6, <3>1, <3>2
  <2>3. CertTypeOK'
    <3>1. /\ phase' \in Phases /\ opened' \in BOOLEAN /\ ~opened'
          /\ start' \in Starts /\ ProperStart(start)'
      BY <2>1, <2>2 DEF Phases, ProperStart
    <3>2. ca' \in Keys \cup {Absent} /\ leaf' \in Leaves \cup {Absent}
      BY <2>2 DEF CertTypeOK
    <3>3. QED
      BY <2>2, <3>1, <3>2 DEF CertTypeOK
  <2>4. QED
    BY <2>2, <2>3 DEF AuthorityInv, LeafInv, PairTrusted, Stale
<1>7. QED
  BY <1>1, <1>2, <1>3, <1>4, <1>5, <1>6

(* The authority's two files: what is signed afterwards is signed by a key *)
(* whose certificate clients have.                                         *)
LEMMA WriteAuthorityStep ==
    ASSUME CertInv, WriteAuthority
    PROVE  CertInv'
<1> USE FilesAssumption
    DEF CertInv, Unreadable, CertTypeOK, Phases, Files, AuthorityInv, LeafInv, PairTrusted, Stale,
        ProperStart
<1>1. CASE Open("caKey")
  BY <1>1 DEF Open
<1>2. CASE Fill("caKey", ca, "caCert") /\ UNCHANGED <<ca, leaf, cut>>
  BY <1>2 DEF Fill
<1>3. CASE Open("caCert")
  BY <1>3 DEF Open
<1>4. CASE Fill("caCert", ca, "check") /\ UNCHANGED <<ca, leaf, cut>>
  BY <1>4 DEF Fill
<1>5. QED
  BY <1>1, <1>2, <1>3, <1>4 DEF WriteAuthority

(* The proxy's two files: the stale certificate stays stale until it is    *)
(* emptied, and the new one matches the key written before it.             *)
LEMMA WriteLeafStep ==
    ASSUME CertInv, WriteLeaf
    PROVE  CertInv'
<1> USE FilesAssumption DEF CertInv, Unreadable, CertTypeOK, Phases, Files, AuthorityInv, LeafInv, Stale
<1>1. CASE Open("leafKey")
  BY <1>1 DEF Open, PairTrusted, ProperStart
<1>2. CASE Fill("leafKey", leaf.key, "leafCert") /\ UNCHANGED <<ca, leaf, cut>>
  BY <1>2 DEF Fill, PairTrusted, Leaves, ProperStart
<1>3. CASE Open("leafCert")
  BY <1>3 DEF Open, PairTrusted, ProperStart
<1>4. CASE Fill("leafCert", leaf, "issued") /\ ca' = Absent /\ leaf' = Absent /\ cut' = Absent
  <2>1. PairTrusted'
    BY <1>4 DEF Fill, PairTrusted, PairLoads, Leaves, ProperStart
  <2>2. QED
    BY <1>4, <2>1 DEF Fill, Leaves, ProperStart
<1>5. QED
  BY <1>1, <1>2, <1>3, <1>4 DEF WriteLeaf

(* A certificate that comes near its end is only staler. *)
LEMMA AgeStep ==
    ASSUME CertInv, Age
    PROVE  CertInv'
<1> USE FilesAssumption DEF Age, CertInv, Unreadable
<1>1. disk.leafCert \in Leaves /\ disk'.leafCert \in Leaves
  BY DEF CertTypeOK, Leaves
<1>2. /\ disk'.leafCert.key = disk.leafCert.key /\ disk'.leafCert.signer = disk.leafCert.signer
      /\ disk'.leafCert.covers = disk.leafCert.covers /\ disk'.leafCert.due
  BY <1>1 DEF CertTypeOK, Leaves
<1>3. disk'.caKey = disk.caKey /\ disk'.caCert = disk.caCert /\ disk'.leafKey = disk.leafKey
  BY DEF CertTypeOK
<1>4. CertTypeOK'
  BY <1>1, <1>3 DEF CertTypeOK, Phases, Files, ProperStart
<1>5. QED
  BY <1>1, <1>2, <1>3, <1>4 DEF AuthorityInv, LeafInv, PairTrusted, PairLoads, Stale

LEMMA CertPreserved ==
    ASSUME CertInv, CertNext \/ UNCHANGED certVars
    PROVE  CertInv'
<1>1. CASE UNCHANGED certVars
  BY <1>1 DEF certVars, CertInv, CertTypeOK, AuthorityInv, LeafInv, PairTrusted, PairLoads, Stale, ProperStart
<1>2. QED
  BY <1>1, MemoryStep, WriteAuthorityStep, WriteLeafStep, AgeStep DEF CertNext, CertStep

-----------------------------------------------------------------------------
(* The supervision *)

(* A child is launched only when its last one was seen gone: the start     *)
(* launches each once, and the monitor launches one that has exited.       *)
LaunchInv ==
    /\ stray = {}
    /\ cli = "idle" => driver = "off" /\ ~monitoring /\ \A p \in Children : proc[p] = "none"
    /\ \A p \in Children : driver = Launching[p] => proc[p] \in {"none", "exited"}
    /\ \A p \in Children : driver = Draining[p] => monitoring /\ proc[p] = "exited"
    /\ driver = "pause" => monitoring /\ proc["ffmpeg"] = "exited"
    /\ driver = "poll" => monitoring
    /\ driver \in {"launch_mediamtx", "settle"} /\ ~monitoring => proc["ffmpeg"] = "none"
    /\ monitoring => \/ cli \in {"running", "cancelling"}
                     \/ cli \in {"stopping", "ended"} /\ driver = "done"

(* Unless the start was abandoned, nothing is launched once the stops have *)
(* begun, and what they have taken down stays down.                        *)
StopInv ==
    /\ halt = "no" <=> cli \notin {"stopping", "ended"}
    /\ sock = "open" => cli \in {"running", "cancelling"}
    /\ halt = "done" => config = FALSE
    /\ ~abandoned /\ cli \in {"stopping", "ended"} => driver \in {"up", "failed", "done"}
    /\ ~abandoned /\ halt \in {"mediamtx", "logs", "done"} => proc["ffmpeg"] = "none"
    /\ ~abandoned /\ halt \in {"logs", "done"} => proc["mediamtx"] = "none"

SupInv == SupTypeOK /\ LaunchInv /\ StopInv

LEMMA ByChild ==
    /\ Launching["mediamtx"] = "launch_mediamtx" /\ Launching["ffmpeg"] = "launch_ffmpeg"
    /\ Draining["mediamtx"] = "drain_mediamtx" /\ Draining["ffmpeg"] = "drain_ffmpeg"
    /\ Replace["mediamtx"] = "launch_mediamtx" /\ Replace["ffmpeg"] = "pause"
    /\ ThenHalt["mediamtx"] = "logs" /\ ThenHalt["ffmpeg"] = "mediamtx"
BY DEF Launching, Draining, Replace, ThenHalt, Children

LEMMA SupInitially == SupInit => SupInv
BY ByChild DEF SupInit, SupInv, SupTypeOK, LaunchInv, StopInv, Children

(* The start of the services. *)
LEMMA StartStep ==
    ASSUME SupInv, StartServices \/ OthersUp \/ OthersFail \/ AllUp \/ StartFails
    PROVE  SupInv'
<1> USE ByChild
    DEF SupInv, SupTypeOK, LaunchInv, StopInv, Children, driverVars, stopVars, beaconVars, history
<1>1. CASE StartServices
  BY <1>1 DEF StartServices
<1>2. CASE OthersUp \/ OthersFail
  BY <1>2 DEF OthersUp, OthersFail
<1>3. CASE AllUp
  <2>1. SupTypeOK' /\ LaunchInv' /\ halt = "no"
    BY <1>3 DEF AllUp
  <2>2. StopInv'
    BY <1>3, <2>1 DEF AllUp
  <2>3. QED
    BY <2>1, <2>2
<1>4. CASE StartFails
  <2>1. SupTypeOK'
    <3>1. abandoned' \in BOOLEAN
      BY <1>4 DEF StartFails
    <3>2. QED
      BY <1>4, <3>1 DEF StartFails
  <2>2. LaunchInv'
    BY <1>4 DEF StartFails
  <2>3. StopInv'
    BY <1>4 DEF StartFails
  <2>4. QED
    BY <2>1, <2>2, <2>3
<1>5. QED
  BY <1>1, <1>2, <1>3, <1>4

(* The driver task: start(), then the monitor.  Only the launch of a child *)
(* touches what the stops take down; it is over before they begin.         *)
LEMMA DriverKeeps ==
    ASSUME SupInv, DriverStep
    PROVE  SupInv'
<1> USE ByChild DEF SupInv, Children, stopVars, beaconVars, history
<1>active. driver \notin {"off", "up", "failed", "done"}
  BY DEF DriverStep, LaunchDone, LaunchFails, Drain, Poll, Settled, Paused
<1>1. ASSUME NEW p \in Children, LaunchDone(p) PROVE SupInv'
  <2>1. SupTypeOK' /\ driver' \in {"settle", "poll", "up"}
    BY <1>1 DEF LaunchDone, SupTypeOK
  <2>2. stray' = {}
    BY <1>1 DEF LaunchDone, LaunchInv
  <2>3. \A q \in Children : q # p => proc'[q] = proc[q]
    BY <1>1 DEF LaunchDone, SupTypeOK
  <2>4. driver' = "settle" => p = "mediamtx"
    BY <1>1 DEF LaunchDone
  <2>5. LaunchInv'
    BY <1>1, <2>1, <2>2, <2>3, <2>4, <1>active DEF LaunchDone, LaunchInv
  <2>6. StopInv'
    BY <1>1, <1>active DEF LaunchDone, StopInv
  <2>7. QED
    BY <2>1, <2>5, <2>6
<1>2. ASSUME UNCHANGED <<cli, signalled, monitoring, proc, stray, stopVars, beaconVars, history>>,
             log' \in [Children -> {"none", "reading", "done", "broken"}],
             \/ driver' \in {"poll", "failed"} /\ (driver' = "poll" <=> monitoring)
             \/ driver' = "drain_mediamtx" /\ proc["mediamtx"] = "exited" /\ monitoring
             \/ driver' = "drain_ffmpeg" /\ proc["ffmpeg"] = "exited" /\ monitoring
             \/ driver' = "launch_mediamtx" /\ proc["mediamtx"] = "exited" /\ monitoring
             \/ driver' = "pause" /\ proc["ffmpeg"] = "exited" /\ monitoring
             \/ driver' = "launch_ffmpeg" /\ proc["ffmpeg"] \in {"none", "exited"}
      PROVE  SupInv'
  <2>1. SupTypeOK'
    BY <1>2 DEF SupTypeOK
  <2>2. LaunchInv'
    BY <1>2, <1>active DEF LaunchInv
  <2>3. StopInv'
    BY <1>2, <1>active DEF StopInv
  <2>4. QED
    BY <2>1, <2>2, <2>3
<1>3. ASSUME NEW p \in Children, LaunchFails(p) PROVE SupInv'
  BY <1>2, <1>3 DEF LaunchFails, SupTypeOK
<1>4. ASSUME NEW p \in Children, Drain(p) PROVE SupInv'
  <2>1. monitoring /\ proc[p] = "exited"
    BY <1>4 DEF Drain, LaunchInv
  <2>2. QED
    BY <1>2, <1>4, <2>1 DEF Drain, Drained, SupTypeOK
<1>5. CASE Poll
  <2>1. monitoring
    BY <1>5 DEF Poll, LaunchInv
  <2>2. QED
    BY <1>2, <1>5, <2>1 DEF Poll, Examine, ExamineFfmpeg, SupTypeOK
<1>6. CASE Settled
  <2>1. CASE monitoring
    BY <1>2, <1>6, <2>1 DEF Settled, Examine, ExamineFfmpeg, SupTypeOK
  <2>2. CASE ~monitoring
    BY <1>2, <1>6, <2>2 DEF Settled, LaunchInv, SupTypeOK
  <2>3. QED
    BY <2>1, <2>2
<1>7. CASE Paused
  BY <1>2, <1>7 DEF Paused, LaunchInv, SupTypeOK
<1>8. QED
  BY <1>1, <1>3, <1>4, <1>5, <1>6, <1>7 DEF DriverStep

(* What the children, the announcer and the user do. *)
LEMMA SurroundingsKeep ==
    ASSUME SupInv,
           \/ \E p \in Children : Exit(p) \/ LogEnds(p)
           \/ LogBreaks \/ GraceOver \/ Signal
           \/ \E version \in BOOLEAN : Announce(version)
    PROVE  SupInv'
<1> USE ByChild
    DEF SupInv, SupTypeOK, LaunchInv, StopInv, Children, driverVars, stopVars, beaconVars, history
<1>1. ASSUME NEW p \in Children, Exit(p) PROVE SupInv'
  BY <1>1 DEF Exit
<1>2. CASE \E p \in Children : LogEnds(p)
  BY <1>2 DEF LogEnds
<1>3. CASE LogBreaks
  BY <1>3 DEF LogBreaks
<1>4. CASE GraceOver
  BY <1>4 DEF GraceOver
<1>5. CASE Signal
  BY <1>5 DEF Signal
<1>6. CASE \E version \in BOOLEAN : Announce(version)
  BY <1>6 DEF Announce
<1>7. QED
  BY <1>1, <1>2, <1>3, <1>4, <1>5, <1>6

(* The shutdown, and the end of the process. *)
LEMMA ShutdownKeeps ==
    ASSUME SupInv, CancelTasks \/ BeginStops \/ StopStep \/ Forget
    PROVE  SupInv'
<1> USE ByChild
    DEF SupInv, SupTypeOK, LaunchInv, StopInv, Children, driverVars, stopVars, beaconVars, history
<1>1. CASE CancelTasks
  <2>1. SupTypeOK'
    <3>1. CASE driver' = "done" /\ UNCHANGED <<log, stray, swallowed>>
      BY <1>1, <3>1 DEF CancelTasks
    <3>2. ASSUME NEW p \in Children, Drained(p), swallowed' = TRUE, UNCHANGED stray
          PROVE  SupTypeOK'
      <4>1. driver' \in {"poll", "launch_mediamtx", "pause"}
            /\ log' \in [Children -> {"none", "reading", "done", "broken"}]
        BY <3>2 DEF Drained
      <4>2. QED
        BY <1>1, <3>2, <4>1 DEF CancelTasks
    <3>3. QED
      BY <1>1, <3>1, <3>2 DEF CancelTasks, CancelMonitor
  <2>2. LaunchInv'
    BY <1>1 DEF CancelTasks, CancelMonitor, Drained
  <2>3. StopInv'
    BY <1>1 DEF CancelTasks, CancelMonitor
  <2>4. QED
    BY <2>1, <2>2, <2>3
<1>2. CASE BeginStops
  BY <1>2 DEF BeginStops
<1>3. CASE Halt("mediamtx")
  BY <1>3 DEF Halt
<1>4. CASE Halt("ffmpeg")
  BY <1>4 DEF Halt
<1>5. CASE \E p \in Children : HaltEnds(p)
  BY <1>5 DEF HaltEnds
<1>6. CASE HaltLogs
  <2>1. log' \in [Children -> {"none", "reading", "done", "broken"}]
        /\ halt' \in {"raised", "done"} /\ config' \in BOOLEAN
        /\ (halt' = "done" => config' = FALSE)
    <3>1. CASE \E p \in Children : log[p] = "broken"
      BY <1>6, <3>1 DEF HaltLogs
    <3>2. CASE ~\E p \in Children : log[p] = "broken"
      BY <1>6, <3>2 DEF HaltLogs
    <3>3. QED
      BY <3>1, <3>2
  <2>2. SupTypeOK'
    <3>1. UNCHANGED <<cli, signalled, driver, monitoring, proc, stray, others, sock, beacon,
                      swallowed, abandoned>>
      BY <1>6 DEF HaltLogs
    <3>2. QED
      BY <2>1, <3>1
  <2>3. LaunchInv'
    BY <1>6 DEF HaltLogs
  <2>4. StopInv'
    BY <1>6, <2>1 DEF HaltLogs
  <2>5. QED
    BY <2>2, <2>3, <2>4
<1>7. CASE OthersStop
  BY <1>7 DEF OthersStop
<1>8. CASE End
  BY <1>8 DEF End
<1>9. CASE Forget
  BY <1>9 DEF Forget
<1>10. QED
  BY <1>1, <1>2, <1>3, <1>4, <1>5, <1>6, <1>7, <1>8, <1>9 DEF StopStep

LEMMA SupPreserved ==
    ASSUME SupInv,
           \/ StartServices \/ OthersUp \/ OthersFail \/ SupStep \/ Forget
           \/ UNCHANGED supVars
    PROVE  SupInv'
<1>1. CASE UNCHANGED supVars
  BY <1>1
  DEF supVars, driverVars, stopVars, beaconVars, history, SupInv, SupTypeOK, LaunchInv, StopInv
<1>2. QED
  BY <1>1, StartStep, DriverKeeps, SurroundingsKeep, ShutdownKeeps DEF SupStep

(* Orderly stops leave nothing behind. *)
LEMMA StoppedClean == SupInv => LeavesNothing
BY DEF SupInv, LaunchInv, StopInv, LeavesNothing, Children

-----------------------------------------------------------------------------
(* Theorems *)

LEMMA NextOfHalves ==
    ASSUME [Next]_vars
    PROVE  /\ CertNext \/ UNCHANGED certVars
           /\ \/ StartServices \/ OthersUp \/ OthersFail \/ SupStep \/ Forget
              \/ UNCHANGED supVars
BY DEF Next, vars, Restart, Prepare, Start, LoadChain, ChainRefused, Aged, Killed, CertNext

LEMMA Inductive == Spec => [](CertInv /\ SupInv)
<1>1. Init => CertInv /\ SupInv
  BY CertInitially, SupInitially DEF Init
<1>2. CertInv /\ SupInv /\ [Next]_vars => (CertInv /\ SupInv)'
  BY NextOfHalves, CertPreserved, SupPreserved
<1>3. QED
  BY <1>1, <1>2, PTL DEF Spec

(* Every variable of the program keeps to its type. *)
THEOREM TypeCorrect == Spec => []TypeOK
<1>1. CertInv /\ SupInv => TypeOK
  BY DEF CertInv, SupInv, TypeOK
<1>2. QED
  BY <1>1, Inductive, PTL

(* A start that goes on to its services has a certificate whose key it     *)
(* has, signed by the authority clients trust, for the address they dial,  *)
(* whatever was interrupted before: unless an interrupted issue was for    *)
(* other addresses, which a later start cannot see (PairTrusted's cut).    *)
THEOREM CertificateUsable == Spec => []PairTrusted
<1>1. CertInv /\ SupInv => PairTrusted
  BY DEF CertInv
<1>2. QED
  BY <1>1, Inductive, PTL

(* The authority clients were told to trust is never replaced. *)
THEOREM AuthorityIsForever == Spec => AuthorityKept
<1>1. CertInv /\ SupInv /\ [Next]_vars
        => [disk.caCert \in Keys => UNCHANGED <<disk.caCert, disk.caKey>>]_certVars
  BY NextOfHalves, AuthorityStep
<1>2. QED
  BY <1>1, Inductive, PTL DEF Spec, AuthorityKept

(* An orderly shutdown leaves no child, no file and no socket. *)
THEOREM ShutdownIsClean == Spec => []LeavesNothing
<1>1. CertInv /\ SupInv => LeavesNothing
  BY StoppedClean
<1>2. QED
  BY <1>1, Inductive, PTL
=============================================================================
