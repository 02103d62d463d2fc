----------------------------- MODULE Supervision -----------------------------
(***************************************************************************)
(* The life of the running program: cli.run_proxy starts the services      *)
(* together, then the background tasks, waits for a signal, cancels the    *)
(* tasks and stops the services together.  Of the services the RTSP proxy  *)
(* is modelled in detail: its two child processes, the tasks that read     *)
(* what they print, the monitor that restarts them (rtsp_proxy.py), and    *)
(* cancel_task (helper.py); of the SSDP announcer the socket and the wait  *)
(* for a version (ssdp.py).  The others start or fail to, and stop.        *)
(*                                                                         *)
(* A child is external: it exits when it likes, and on SIGTERM or SIGKILL. *)
(* ffmpeg writes its progress with carriage returns and no end of line: a  *)
(* reader of lines gives up after 64 KiB of it (ValueError of readline).   *)
(***************************************************************************)
EXTENDS Naturals

Children == {"mediamtx", "ffmpeg"}

VARIABLES
    cli,       \* run_proxy: "idle", "starting", "running", "cancelling", "stopping", "ended"
    signalled, \* stop_event
    driver,    \* the RTSP task that launches children: start(), then the monitor
    monitoring,\* it is the monitor
    proc,      \* _mediamtx_process, _ffmpeg_process: "none", "alive", "exited", "ending"
    log,       \* their log tasks: "none", "reading", "done", "broken"
    stray,     \* children alive that no field refers to
    config,    \* the MediaMTX configuration file exists
    halt,      \* RTSPProxy.stop(): "no", the child it stops, "logs", "done", "raised"
    others,    \* the other services: "off", "starting", "up", "failed", "stopping", "stopped", "cut"
    sock,      \* the announcer's socket: "none", "open", "closed"
    beacon,    \* the announcer: "silent", "due" (its wait is over), "heard"
    swallowed, \* history: a cancellation was swallowed
    abandoned  \* history: services were stopped while RTSPProxy.start() was under way

driverVars == <<driver, monitoring, proc, log, stray>>
stopVars == <<config, halt, others>>
beaconVars == <<sock, beacon>>
history == <<swallowed, abandoned>>
supVars == <<cli, signalled, driverVars, stopVars, beaconVars, history>>

Launching == [p \in Children |-> IF p = "ffmpeg" THEN "launch_ffmpeg" ELSE "launch_mediamtx"]
Draining == [p \in Children |-> IF p = "ffmpeg" THEN "drain_ffmpeg" ELSE "drain_mediamtx"]
Asleep == {"settle", "poll", "pause"}     \* in asyncio.sleep
Replace == [p \in Children |-> IF p = "ffmpeg" THEN "pause" ELSE "launch_mediamtx"]
ThenHalt == [p \in Children |-> IF p = "ffmpeg" THEN "mediamtx" ELSE "logs"]

SupTypeOK ==
    /\ cli \in {"idle", "starting", "running", "cancelling", "stopping", "ended"}
    /\ signalled \in BOOLEAN
    /\ driver \in {"off", "up", "failed", "done", "settle", "poll", "pause", "launch_mediamtx",
                  "launch_ffmpeg", "drain_mediamtx", "drain_ffmpeg"}
    /\ monitoring \in BOOLEAN
    /\ proc \in [Children -> {"none", "alive", "exited", "ending"}]
    /\ log \in [Children -> {"none", "reading", "done", "broken"}]
    /\ stray \subseteq Children
    /\ config \in BOOLEAN
    /\ halt \in {"no", "logs", "done", "raised"} \cup Children
    /\ others \in {"off", "starting", "up", "failed", "stopping", "stopped", "cut"}
    /\ sock \in {"none", "open", "closed"}
    /\ beacon \in {"silent", "due", "heard"}
    /\ swallowed \in BOOLEAN /\ abandoned \in BOOLEAN

SupInit ==
    /\ cli = "idle" /\ signalled = FALSE
    /\ driver = "off" /\ monitoring = FALSE
    /\ proc = [p \in Children |-> "none"]
    /\ log = [p \in Children |-> "none"]
    /\ stray = {}
    /\ config = FALSE /\ halt = "no" /\ others = "off"
    /\ sock = "none" /\ beacon = "silent"
    /\ swallowed = FALSE /\ abandoned = FALSE

-----------------------------------------------------------------------------
(* Start *)

(* The starts are gathered: each runs up to its first await. *)
StartServices ==
    /\ cli = "idle"
    /\ cli' = "starting"
    /\ others' = "starting"
    /\ config' = TRUE                       \* _create_mediamtx_config
    /\ driver' = Launching["mediamtx"]
    /\ UNCHANGED <<signalled, monitoring, proc, log, stray, halt, beaconVars, history>>

OthersUp ==
    /\ cli = "starting" /\ others = "starting"
    /\ others' = "up"
    /\ UNCHANGED <<cli, signalled, driverVars, config, halt, beaconVars, history>>

OthersFail ==
    /\ cli = "starting" /\ others = "starting"
    /\ others' = "failed"
    /\ UNCHANGED <<cli, signalled, driverVars, config, halt, beaconVars, history>>

(* All are up: the background tasks and the announcer are started. *)
AllUp ==
    /\ cli = "starting" /\ others = "up" /\ driver = "up"
    /\ cli' = "running"
    /\ driver' = "poll" /\ monitoring' = TRUE
    /\ sock' = "open"
    /\ UNCHANGED <<signalled, proc, log, stray, stopVars, beacon, history>>

(* One failed: the others go on starting while every service is stopped.   *)
(* There is no announcer yet.                                              *)
StartFails ==
    /\ cli = "starting"
    /\ others = "failed" \/ driver = "failed"
    /\ cli' = "stopping"
    /\ halt' = "ffmpeg" /\ others' = "stopping"
    /\ abandoned' = (driver \notin {"up", "failed"})
    /\ UNCHANGED <<signalled, driverVars, config, beaconVars, swallowed>>

(* create_subprocess_exec, and the task that reads its output.  The field  *)
(* is overwritten.                                                         *)
LaunchDone(p) ==
    /\ driver = Launching[p]
    /\ proc' = [proc EXCEPT ![p] = "alive"]
    /\ stray' = IF proc[p] = "alive" THEN stray \cup {p} ELSE stray
    /\ log' = [log EXCEPT ![p] = "reading"]
    /\ driver' = IF p = "mediamtx" THEN "settle" ELSE IF monitoring THEN "poll" ELSE "up"
    /\ UNCHANGED <<cli, signalled, monitoring, stopVars, beaconVars, history>>

(* Mutant of LaunchFails: the failure ends the monitor. *)
LaunchFailsForGood(p) ==
    /\ driver = Launching[p]
    /\ driver' = IF monitoring THEN "done" ELSE "failed"
    /\ UNCHANGED <<cli, signalled, monitoring, proc, log, stray, stopVars, beaconVars, history>>

(* The monitor logs the error and tries again at its next round. *)
LaunchFails(p) ==
    /\ driver = Launching[p]
    /\ driver' = IF monitoring THEN "poll" ELSE "failed"
    /\ UNCHANGED <<cli, signalled, monitoring, proc, log, stray, stopVars, beaconVars, history>>

-----------------------------------------------------------------------------
(* Children *)

Exit(p) ==
    /\ proc[p] = "alive"
    /\ proc' = [proc EXCEPT ![p] = "exited"]
    /\ UNCHANGED <<cli, signalled, driver, monitoring, log, stray, stopVars, beaconVars, history>>

(* The output of a child that is gone ends. *)
LogEnds(p) ==
    /\ log[p] = "reading" /\ proc[p] \in {"exited", "none"}
    /\ log' = [log EXCEPT ![p] = "done"]
    /\ UNCHANGED <<cli, signalled, driver, monitoring, proc, stray, stopVars, beaconVars, history>>

(* ... or is more than readline takes. *)
LogBreaks ==
    /\ log["ffmpeg"] = "reading"
    /\ log' = [log EXCEPT !["ffmpeg"] = "broken"]
    /\ UNCHANGED <<cli, signalled, driver, monitoring, proc, stray, stopVars, beaconVars, history>>

-----------------------------------------------------------------------------
(* _monitor_processes *)

(* An exited child's log task is drained with cancel_task, which does not  *)
(* wait for one that is done and passes on the error of one that broke: it *)
(* is caught, and the round is over.                                       *)
Examine(p) ==
    /\ proc[p] = "exited"
    /\ \/ log[p] = "reading" /\ driver' = Draining[p] /\ UNCHANGED log
       \/ log[p] = "broken" /\ driver' = "poll" /\ UNCHANGED log
       \/ log[p] \in {"none", "done"} /\ driver' = Replace[p]
          /\ log' = [log EXCEPT ![p] = "none"]

ExamineFfmpeg ==
    \/ Examine("ffmpeg")
    \/ proc["ffmpeg"] # "exited" /\ driver' = "poll" /\ UNCHANGED log

(* A round, five seconds after the last one. *)
Poll ==
    /\ driver = "poll"
    /\ \/ Examine("mediamtx")
       \/ proc["mediamtx"] # "exited" /\ ExamineFfmpeg
    /\ UNCHANGED <<cli, signalled, monitoring, proc, stray, stopVars, beaconVars, history>>

(* The child's log task is done, or cancelled after its grace. *)
Drained(p) ==
    IF log[p] = "broken"
    THEN driver' = "poll" /\ UNCHANGED log
    ELSE driver' = Replace[p] /\ log' = [log EXCEPT ![p] = "none"]

Drain(p) ==
    /\ driver = Draining[p]
    /\ Drained(p)
    /\ UNCHANGED <<cli, signalled, monitoring, proc, stray, stopVars, beaconVars, history>>

(* Two seconds after MediaMTX was launched, by start() or by the monitor. *)
Settled ==
    /\ driver = "settle"
    /\ IF monitoring THEN ExamineFfmpeg ELSE driver' = Launching["ffmpeg"] /\ UNCHANGED log
    /\ UNCHANGED <<cli, signalled, monitoring, proc, stray, stopVars, beaconVars, history>>

Paused ==
    /\ driver = "pause"
    /\ driver' = Launching["ffmpeg"]
    /\ UNCHANGED <<cli, signalled, monitoring, proc, log, stray, stopVars, beaconVars, history>>

-----------------------------------------------------------------------------
(* SsdpAnnouncer *)

GraceOver ==
    /\ sock = "open" /\ beacon = "silent"
    /\ beacon' = "due"
    /\ UNCHANGED <<cli, signalled, driverVars, stopVars, sock, history>>

(* Mutant of Announce: it waits for a version whatever the time. *)
AnnounceVersionOnly(version) ==
    /\ cli = "running" /\ sock = "open" /\ beacon # "heard"
    /\ version
    /\ beacon' = "heard"
    /\ UNCHANGED <<cli, signalled, driverVars, stopVars, sock, history>>

(* announce_once, with the version MQTT knows or, after the grace,         *)
(* without.  A send that fails is swallowed, and the next round tries      *)
(* again: with several targets, "heard" is the first send that goes out.   *)
Announce(version) ==
    /\ cli = "running" /\ sock = "open" /\ beacon # "heard"
    /\ version \/ beacon = "due"
    /\ beacon' \in {beacon, "heard"}
    /\ UNCHANGED <<cli, signalled, driverVars, stopVars, sock, history>>

-----------------------------------------------------------------------------
(* Shutdown *)

Signal ==
    /\ cli \in {"starting", "running"}
    /\ ~signalled
    /\ signalled' = TRUE
    /\ UNCHANGED <<cli, driverVars, stopVars, beaconVars, history>>

(* Mutant of CancelMonitor: a sleep's cancellation is logged with the other *)
(* errors, and the next round begins.                                      *)
CancelMonitorLogged ==
    \/ /\ driver \in Asleep \cup {Launching[p] : p \in Children}
       /\ driver' = "poll" /\ UNCHANGED <<log, stray, swallowed>>
    \/ \E p \in Children : driver = Draining[p] /\ Drained(p)
                           /\ swallowed' = TRUE /\ UNCHANGED stray

(* task.cancel() on the monitor.  It ends in a sleep, and in a launch,     *)
(* whose child asyncio kills; in cancel_task the cancellation goes to the  *)
(* log task, and the monitor goes on.                                      *)
CancelMonitor ==
    \/ /\ driver \in Asleep \cup {Launching[p] : p \in Children}
       /\ driver' = "done" /\ UNCHANGED <<log, stray, swallowed>>
    \/ \E p \in Children : driver = Draining[p] /\ Drained(p)
                           /\ swallowed' = TRUE /\ UNCHANGED stray

CancelTasks ==
    /\ cli = "running" /\ signalled
    /\ cli' = "cancelling"
    /\ CancelMonitor
    /\ UNCHANGED <<signalled, monitoring, proc, stopVars, beaconVars, abandoned>>

(* All background tasks are over: the stops begin, the announcer's first. *)
BeginStops ==
    /\ cli = "cancelling" /\ driver = "done"
    /\ cli' = "stopping"
    /\ sock' = "closed"
    /\ halt' = "ffmpeg" /\ others' = "stopping"
    /\ UNCHANGED <<signalled, driverVars, config, beacon, history>>

(* RTSPProxy.stop() on a child: terminate() raises ProcessLookupError once *)
(* asyncio is done with it, at the latest when its output has ended.       *)
Halt(p) ==
    /\ halt = p
    /\ \/ proc[p] = "none" /\ halt' = ThenHalt[p] /\ UNCHANGED proc
       \/ proc[p] = "alive" /\ proc' = [proc EXCEPT ![p] = "ending"] /\ UNCHANGED halt
       \/ proc[p] = "exited" /\ halt' = "raised" /\ UNCHANGED proc
       \/ proc[p] = "exited" /\ log[p] \in {"reading", "broken"}
          /\ halt' = ThenHalt[p] /\ proc' = [proc EXCEPT ![p] = "none"]
    /\ UNCHANGED <<cli, signalled, driver, monitoring, log, stray, config, others, beaconVars, history>>

(* Mutant of HaltEnds: a child that does not end in time is given up. *)
HaltGivesUp(p) ==
    /\ halt = p /\ proc[p] = "ending"
    /\ proc' = [proc EXCEPT ![p] = "none"]
    /\ stray' \in {stray, stray \cup {p}}
    /\ halt' = ThenHalt[p]
    /\ UNCHANGED <<cli, signalled, driver, monitoring, log, config, others, beaconVars, history>>

(* The child is gone, or is killed after five seconds. *)
HaltEnds(p) ==
    /\ halt = p /\ proc[p] = "ending"
    /\ proc' = [proc EXCEPT ![p] = "none"]
    /\ halt' = ThenHalt[p]
    /\ UNCHANGED <<cli, signalled, driver, monitoring, log, stray, config, others, beaconVars, history>>

(* The log tasks, with cancel_task, then the configuration file. *)
HaltLogs ==
    /\ halt = "logs"
    /\ IF \E p \in Children : log[p] = "broken"
       THEN halt' = "raised" /\ UNCHANGED <<log, config>>
       ELSE halt' = "done" /\ config' = FALSE /\ log' = [p \in Children |-> "none"]
    /\ UNCHANGED <<cli, signalled, driver, monitoring, proc, stray, others, beaconVars, history>>

OthersStop ==
    /\ others = "stopping"
    /\ others' = "stopped"
    /\ UNCHANGED <<cli, signalled, driverVars, config, halt, beaconVars, history>>

(* The gathered stops return, or one raises; asyncio.run cancels the rest. *)
End ==
    /\ cli = "stopping"
    /\ halt = "raised" \/ (halt = "done" /\ others = "stopped")
    /\ cli' = "ended"
    /\ others' = IF others = "stopping" THEN "cut" ELSE others
    /\ driver' = "done"
    /\ UNCHANGED <<signalled, monitoring, proc, log, stray, config, halt, beaconVars, history>>

(* The process is gone, and starts anew. *)
Forget ==
    /\ cli' = "idle" /\ signalled' = FALSE
    /\ driver' = "off" /\ monitoring' = FALSE
    /\ proc' = [p \in Children |-> "none"]
    /\ log' = [p \in Children |-> "none"]
    /\ stray' = {}
    /\ config' = FALSE /\ halt' = "no" /\ others' = "off"
    /\ sock' = "none" /\ beacon' = "silent"
    /\ swallowed' = FALSE /\ abandoned' = FALSE

-----------------------------------------------------------------------------

DriverStep ==
    \/ \E p \in Children : LaunchDone(p) \/ LaunchFails(p) \/ Drain(p)
    \/ Poll \/ Settled \/ Paused

StopStep ==
    \/ \E p \in Children : Halt(p) \/ HaltEnds(p)
    \/ HaltLogs \/ OthersStop \/ End

SupStep ==
    \/ AllUp \/ StartFails \/ DriverStep
    \/ \E p \in Children : Exit(p) \/ LogEnds(p)
    \/ LogBreaks
    \/ GraceOver
    \/ \E version \in BOOLEAN : Announce(version)
    \/ Signal \/ CancelTasks \/ BeginStops \/ StopStep

-----------------------------------------------------------------------------
(* Properties *)

(* When the program has stopped in order, nothing of it is left behind: no *)
(* child, no file with the access code in it, no socket.  In order means   *)
(* that RTSPProxy.stop() returned, and that its start() had.               *)
LeavesNothing ==
    cli = "ended" =>
        /\ sock # "open"
        /\ (halt = "done" /\ ~abandoned) =>
              /\ \A p \in Children : proc[p] = "none"
              /\ stray = {}
              /\ ~config

(* A signal ends the program, whatever the monitor and the children are    *)
(* doing, unless its cancellation was swallowed.                           *)
SignalEnds == signalled ~> (cli \in {"ended", "idle"} \/ swallowed)

(* A child that exited is replaced, however often that fails at first, as  *)
(* long as its log could be read to the end.                               *)
RestartedIfRead ==
    \A p \in Children :
        (cli = "running" /\ proc[p] = "exited") ~>
            (cli # "running" \/ proc[p] = "alive" \/ log[p] = "broken")

(* A slicer gets to hear of the proxy even if the printer never tells its  *)
(* firmware version (comment in announce_once), if of the sends that are   *)
(* tried one goes out in the end.                                          *)
Discoverable == (cli = "running") ~> (cli # "running" \/ beacon = "heard")

(* "Let cancellation propagate for clean shutdown" (rtsp_proxy.py:348):    *)
(* a signal ends the program.  The code refutes it: see swallowed.         *)
SignalAlwaysEnds == signalled ~> cli \in {"ended", "idle"}

(* "Stop the RTSP proxy." (rtsp_proxy.py:126): when the program has ended  *)
(* and RTSPProxy.stop() had returned, no child of it runs.  The code       *)
(* refutes it: see abandoned.                                              *)
StoppedIsStopped ==
    cli = "ended" /\ halt = "done" => \A p \in Children : proc[p] # "alive"

(* "Monitor FFmpeg and MediaMTX processes, restart if needed."             *)
(* (rtsp_proxy.py:310)                                                     *)
Restarted ==
    \A p \in Children :
        (cli = "running" /\ proc[p] = "exited") ~>
            (cli # "running" \/ proc[p] = "alive")
=============================================================================
