---------------------------- MODULE SessionReplay ----------------------------
(***************************************************************************)
(* What a client of the FTPS proxy was told about its session, and what    *)
(* the printer session that happens to serve it knows: settings are        *)
(* answered locally while no printer session is open, recorded, and        *)
(* replayed onto each new one, because the proxy closes the session of an  *)
(* idle client and reopens it on the next command.  From                   *)
(* ftp_proxy.ControlSession: _handle_local, _handle_upstream, _record_cwd, *)
(* _replay_state, _ensure_upstream, _release_upstream, _read_command.      *)
(*                                                                         *)
(* One control session.  It serves one command at a time and nothing else  *)
(* touches its fields, so a command is one action, with the opening of the *)
(* printer session it may need and every reply the printer may give.       *)
(***************************************************************************)
EXTENDS Integers, FiniteSets, SequencesExt

CONSTANTS
    Settings,      \* of TYPE, PBSZ and PROT, the ones the client uses
    Values,        \* the arguments it sets them to
    Default,       \* what a fresh printer session has for each of them
    Names,         \* directory names
    MaxDepth       \* bound on the depth of the working directory

Unset == "unset"

ASSUME ValuesAssumption == Default \in Values /\ Unset \notin Values
ASSUME SettingsAssumption == "CWD" \notin Settings
ASSUME MaxDepthAssumption == MaxDepth \in Nat

VARIABLES
    conn,      \* "open" or "closed": whether _upstream_writer is set
    recorded,  \* recorded[c]: _state[c], or Unset
    cwd,       \* _cwd, as the sequence of its components
    lost,      \* _lost_settings
    printer,   \* the open printer session: its settings and directory
    client,    \* the same, as the client was told
    strayed    \* history: a relative path was accepted while "CWD" was lost

vars == <<conn, recorded, cwd, lost, printer, client, strayed>>

Up == ".."
Root == <<>>

Paths == UNION {[1..n -> Names] : n \in 0..MaxDepth}

Sessions == [settings : [Settings -> Values], cwd : Paths]

FreshSession == [settings |-> [c \in Settings |-> Default], cwd |-> Root]

TypeOK ==
    /\ conn \in {"open", "closed"}
    /\ recorded \in [Settings -> Values \cup {Unset}]
    /\ cwd \in Paths
    /\ lost \subseteq Settings \cup {"CWD"}
    /\ printer \in Sessions
    /\ client \in Sessions
    /\ strayed \in BOOLEAN

Init ==
    /\ conn = "closed"
    /\ recorded = [c \in Settings |-> Unset]
    /\ cwd = Root
    /\ lost = {}
    /\ printer = FreshSession
    /\ client = FreshSession
    /\ strayed = FALSE

-----------------------------------------------------------------------------
(* Paths *)

(* One hop of normpath: ".." leaves a directory, but not the root. *)
Hop(path, name) ==
    IF name # Up THEN Append(path, name)
    ELSE IF path = Root THEN Root ELSE Front(path)

Walk(path, hops) == FoldLeft(Hop, path, hops)

(* The arguments of CWD; CDUP is CWD "..". *)
Arguments ==
    {[absolute |-> TRUE, hops |-> p] : p \in Paths} \cup
    {[absolute |-> FALSE, hops |-> h] :
        h \in {<<n>> : n \in Names \cup {Up}} \cup {<<Up, n>> : n \in Names}}

Resolve(path, arg) ==
    IF arg.absolute THEN Walk(Root, arg.hops) ELSE Walk(path, arg.hops)

-----------------------------------------------------------------------------
(* Opening a printer session *)

(* What _replay_state sends: the recorded settings, then the directory     *)
(* unless it is the root.                                                  *)
Replays ==
    {c \in Settings : recorded[c] # Unset} \cup (IF cwd # Root THEN {"CWD"} ELSE {})

(* The session after a replay the printer accepted. *)
Replayed ==
    [settings |-> [c \in Settings |->
                      IF recorded[c] # Unset THEN recorded[c] ELSE Default],
     cwd |-> cwd]

(* The session a command would be forwarded to. *)
Target == IF conn = "open" THEN printer ELSE Replayed

(* Connecting, the greeting or the login fails: 421, no session. *)
OpenFails ==
    /\ conn = "closed"
    /\ UNCHANGED vars

(* The printer refuses one of the replayed commands, or does not answer:   *)
(* it is forgotten and remembered as lost, the session is abandoned, 421.  *)
ReplayFails(c) ==
    /\ conn = "closed"
    /\ c \in Replays
    /\ recorded' = [d \in Settings |-> IF d = c THEN Unset ELSE recorded[d]]
    /\ cwd' = IF c = "CWD" THEN Root ELSE cwd
    /\ lost' = lost \cup {c}
    /\ UNCHANGED <<conn, printer, client, strayed>>

NotOpened == OpenFails \/ \E c \in Replays : ReplayFails(c)

(* _release_upstream: the printer session is closed. *)
CloseSession ==
    /\ conn' = "closed"
    /\ printer' = FreshSession
    /\ UNCHANGED <<recorded, cwd, lost, client, strayed>>

(* The printer does not answer a command: its reply is late, broken off in *)
(* the middle, or the connection is gone.  421 or 426.                     *)
NoReply == CloseSession

(* The command changes nothing the proxy knows of: it is refused, or it is *)
(* none of those below.  The session stays.                                *)
Answered ==
    /\ conn' = "open"
    /\ printer' = Target
    /\ UNCHANGED <<recorded, cwd, lost, client, strayed>>

-----------------------------------------------------------------------------
(* Commands *)

(* TYPE, PBSZ or PROT without a printer session: recorded, answered 200. *)
SetLocally(c, v) ==
    /\ conn = "closed"
    /\ recorded' = [recorded EXCEPT ![c] = v]
    /\ lost' = lost \ {c}
    /\ client' = [client EXCEPT !.settings[c] = v]
    /\ UNCHANGED <<conn, cwd, printer, strayed>>

(* With one, the printer decides and only what it accepts is recorded. *)
SetUpstream(c, v) ==
    /\ conn = "open"
    /\ \/ /\ printer' = [printer EXCEPT !.settings[c] = v]
          /\ client' = [client EXCEPT !.settings[c] = v]
          /\ recorded' = [recorded EXCEPT ![c] = v]
          /\ lost' = lost \ {c}
          /\ UNCHANGED <<conn, cwd, strayed>>
       \/ Answered
       \/ NoReply

(* Mutant of RecordCwd: an absolute path is appended. *)
RecordCwdAppends(arg) ==
    /\ lost' = lost \ {"CWD"}
    /\ cwd' = Walk(cwd, arg.hops)

(* _record_cwd, after the printer's 250. *)
RecordCwd(arg) ==
    /\ lost' = lost \ {"CWD"}
    /\ cwd' = Resolve(cwd, arg)

(* CWD and CDUP always need the printer, lost settings or not. *)
ChangeDir(arg) ==
    /\ Len(Resolve(client.cwd, arg)) <= MaxDepth
    /\ \/ NotOpened
       \/ /\ RecordCwd(arg)
          /\ conn' = "open"
          /\ printer' = [Target EXCEPT !.cwd = Resolve(@, arg)]
          /\ client' = [client EXCEPT !.cwd = Resolve(@, arg)]
          /\ strayed' = (~arg.absolute /\ (strayed \/ "CWD" \in lost))
          /\ UNCHANGED recorded
       \/ Answered
       \/ NoReply

(* Any other command is answered 521 while a setting is lost. *)
Forward ==
    /\ lost = {}
    /\ \/ NotOpened
       \/ Answered
       \/ NoReply

(* The client was silent for UPSTREAM_IDLE_TIMEOUT. *)
IdleRelease == conn = "open" /\ CloseSession

Next ==
    \/ \E c \in Settings, v \in Values : SetLocally(c, v) \/ SetUpstream(c, v)
    \/ \E arg \in Arguments : ChangeDir(arg)
    \/ Forward
    \/ IdleRelease

Spec == Init /\ [][Next]_vars

-----------------------------------------------------------------------------
(* Properties *)

(* Whenever the proxy would forward a transfer, the printer session it     *)
(* would run on has every mode the client was told it set: through local   *)
(* answers, refusals, reconnects and failed replays, a binary upload never *)
(* runs in ASCII (comment at ftp_proxy.py:641).  It is also in the         *)
(* directory the client was told it is in, unless that one was lost and    *)
(* the client went on from there by a relative path.                       *)
SessionAsTold ==
    lost = {} =>
        /\ Target.settings = client.settings
        /\ ~strayed => Target.cwd = client.cwd

(* A setting whose replay failed is not replayed again before the client   *)
(* has set it again: a refusal never locks the client out with 421.        *)
LostIsForgotten == lost \cap Replays = {}

(* What the proxy would replay is what the open session has, so closing an *)
(* idle session and replaying onto a new one changes nothing.              *)
RecordMatchesSession == conn = "open" => printer = Replayed

(* "Do not silently relocate the client: it was told 250 for this          *)
(* directory and has no way to learn otherwise" (ftp_proxy.py:636).  The   *)
(* code refutes it: see SessionAsTold's exception.                         *)
NeverRelocated == lost = {} => Target.cwd = client.cwd
=============================================================================
