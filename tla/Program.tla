------------------------------- MODULE Program -------------------------------
(***************************************************************************)
(* cli.run_proxy from one end to the other, and over restarts: the         *)
(* certificates are prepared (CertStore), then the services are started,   *)
(* supervised and stopped (Supervision).  The two meet where the services  *)
(* load the certificate, and where the program dies: the files stay, the   *)
(* rest is gone.                                                           *)
(***************************************************************************)
EXTENDS CertStore, Supervision

vars == <<certVars, supVars>>

Init == CertInit /\ SupInit

Prepare == phase # "serving" /\ CertStep /\ UNCHANGED supVars

Start == phase = "issued" /\ StartServices /\ UNCHANGED certVars

(* chamber, mqtt and ftp call load_cert_chain in their start(). *)
LoadChain == OthersUp /\ Serve
ChainRefused == OthersFail /\ UNCHANGED certVars

Restart(s) == ProperStart(s) /\ Boot(s) /\ UNCHANGED supVars

(* Its dates are looked at once per start: it ages between two. *)
Aged == phase = "down" /\ Age /\ UNCHANGED supVars

Killed == Die /\ Forget

Next ==
    \/ \E s \in Starts : Restart(s)
    \/ Prepare \/ Start \/ LoadChain \/ ChainRefused
    \/ SupStep /\ UNCHANGED certVars
    \/ Aged
    \/ Killed

Spec == Init /\ [][Next]_vars

(* The event loop runs every ready task and sleeps end; children's output  *)
(* ends with them, a launch that is tried again and again succeeds in the  *)
(* end, and so does an announcement that is sent again and again; the      *)
(* starts and stops of the other services end.                             *)
FairSpec ==
    /\ Spec
    /\ WF_vars(DriverStep /\ UNCHANGED certVars)
    /\ \A p \in Children : SF_vars(LaunchDone(p) /\ UNCHANGED certVars)
    /\ \A p \in Children : WF_vars(LogEnds(p) /\ UNCHANGED certVars)
    /\ WF_vars(LoadChain \/ ChainRefused)
    /\ WF_vars((AllUp \/ StartFails) /\ UNCHANGED certVars)
    /\ WF_vars(GraceOver /\ UNCHANGED certVars)
    /\ SF_vars(Announce(FALSE) /\ beacon' = "heard" /\ UNCHANGED certVars)
    /\ WF_vars((CancelTasks \/ BeginStops) /\ UNCHANGED certVars)
    /\ WF_vars(StopStep /\ UNCHANGED certVars)

TypeOK == CertTypeOK /\ SupTypeOK
=============================================================================
