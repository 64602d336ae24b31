--------------------------- MODULE EngineLifecycle ---------------------------
(***************************************************************************)
(* The model server's process under VllmEngine of engine.py: start, the    *)
(* readiness monitor, close and reconfigure, called from coroutines that   *)
(* interleave at every await.  A process stands for its whole group: the   *)
(* launcher, which serves the port, and the workers it spawned, which hold *)
(* the GPU and can outlive it.                                             *)
(***************************************************************************)
EXTENDS Integers, FiniteSets

CONSTANTS
    Callers,    \* requests that may run reconfigure at the same time
    Tunings,    \* values of the settings the engine command is built from
    ToClose,    \* the goal of a caller that starts nothing: it closes, or is at rest
    MaxProcs    \* bound of the model: processes started

ASSUME EngineAssumption == /\ Callers # {} /\ Tunings # {}
                           /\ ToClose \notin Tunings
                           /\ MaxProcs \in Nat \ {0}

Procs == 1..MaxProcs
NoProc == 0

VARIABLES
    engineState,    \* _state
    settings,       \* self.settings
    current,        \* _process and _process_group_id, which change together
    monitorTask,    \* _monitor_task: the process it was started for, NoProc if None
    monitor,        \* per monitor task, where it is and the process it waits for
    procs,          \* per process, its status and the settings it was built from
    call,           \* per caller, where it is, its goal, and the process it handles
    survivors,      \* history: the processes SIGKILL did not end in the time given
    unended         \* history: the processes whose termination raised

history == <<survivors, unended>>
engineVars == <<engineState, settings, current, monitorTask, monitor, procs, call, history>>

Resting(c) == call[c].pc \in {"resting", "failed", "raised"}
Exited(p) == procs[p].status \in {"orphaned", "dead"}
OnGpu(p) == procs[p].status \in {"loading", "serving", "orphaned"}
Unstarted == {p \in Procs : procs[p].status = "none"}

\* lifespan has run start() to its end: one process, and its monitor polling.
EngineInit ==
    /\ engineState = "loading" /\ current = 1 /\ monitorTask = 1
    /\ settings \in Tunings
    /\ procs = [p \in Procs |-> [status |-> IF p = 1 THEN "loading" ELSE "none",
                                 built |-> settings]]
    /\ monitor = [p \in Procs |-> [pc |-> IF p = 1 THEN "polling" ELSE "none",
                                   waits |-> NoProc]]
    /\ call = [c \in Callers |-> [pc |-> "resting", goal |-> ToClose, handles |-> NoProc]]
    /\ survivors = {} /\ unended = {}

-----------------------------------------------------------------------------
(* close, and reconfigure: close, then start.                                *)

At(c, pc, goal, p) == call' = [call EXCEPT ![c] = [pc |-> pc, goal |-> goal, handles |-> p]]
Returns(c, pc) == At(c, pc, ToClose, NoProc)

\* What follows close.  start returns at once when another caller's process is
\* there by then, and begins by counting the GPUs when there is none.
AfterClose(c, goal) ==
    IF goal = ToClose
    THEN /\ Returns(c, "closed")
         /\ UNCHANGED <<engineState, settings>>
    ELSE /\ settings' = goal
         /\ engineState' = IF current' # NoProc THEN "idle" ELSE "loading"
         /\ IF current' # NoProc THEN Returns(c, "resting") ELSE At(c, "probing", goal, NoProc)

\* Fault: a process that has exited needs no closing, whatever its workers do.
TakeRunningProcess(c, goal) ==
    /\ current' = NoProc
    /\ IF current = NoProc \/ Exited(current)
       THEN AfterClose(c, goal)
       ELSE /\ At(c, "terminating", goal, current)
            /\ UNCHANGED <<engineState, settings>>

\* Fault: the new settings are in place before the old engine is gone.
TakeProcessConfigured(c, goal) ==
    /\ current' = NoProc
    /\ IF current = NoProc
       THEN AfterClose(c, goal)
       ELSE /\ At(c, "terminating", goal, current)
            /\ settings' = IF goal = ToClose THEN settings ELSE goal
            /\ UNCHANGED engineState

\* Fault: the new engine is started and the old one left to its own end.
TakeProcessNoWait(c, goal) == current' = NoProc /\ AfterClose(c, goal)

\* close takes the process out of the engine; with none there is nothing to await.
TakeProcess(c, goal) ==
    /\ current' = NoProc
    /\ IF current = NoProc
       THEN AfterClose(c, goal)
       ELSE /\ At(c, "terminating", goal, current)
            /\ UNCHANGED <<engineState, settings>>

\* close cancels the monitor, and awaits its end before it reads _process.
Close(c, goal) ==
    /\ Resting(c)
    /\ monitorTask' = NoProc
    /\ IF monitorTask # NoProc /\ monitor[monitorTask].pc # "ended"
       THEN /\ monitor' = [monitor EXCEPT ![monitorTask].pc = "ended"]
            /\ At(c, "taking", goal, NoProc)
            /\ UNCHANGED <<engineState, settings, current>>
       ELSE /\ TakeProcess(c, goal)
            /\ UNCHANGED monitor
    /\ UNCHANGED <<procs, history>>

MonitorGone(c) ==
    /\ call[c].pc = "taking"
    /\ TakeProcess(c, call[c].goal)
    /\ UNCHANGED <<monitorTask, monitor, procs, history>>

\* _terminate_process_group returns: it sends SIGTERM, SIGKILL when that is not enough, to
\* the launcher and to every worker still in its group, and does not look at how the last
\* waits ended: some may be there still.  What has been killed serves no more, so that a
\* launcher among them counts as exited.
GroupTerminated(c) ==
    /\ call[c].pc = "terminating"
    /\ LET p == call[c].handles IN
       \/ /\ procs' = [procs EXCEPT ![p].status = "dead"]
          /\ UNCHANGED survivors
       \/ /\ OnGpu(p)
          /\ procs' = [procs EXCEPT ![p].status = "orphaned"]
          /\ survivors' = survivors \cup {p}
    /\ current' = current
    /\ AfterClose(c, call[c].goal)
    /\ UNCHANGED <<monitorTask, monitor, unended>>

\* It raises: the listing of the group waits two seconds for ps, and the TimeoutExpired
\* passes through close and reconfigure.  The process has been told to end, no more, and
\* the engine has no record of it any longer.
TerminationRaises(c) ==
    /\ call[c].pc = "terminating"
    /\ unended' = unended \cup {call[c].handles}
    /\ Returns(c, IF call[c].goal = ToClose THEN "closed" ELSE "raised")
    /\ UNCHANGED <<engineState, settings, current, monitorTask, monitor, procs, survivors>>

\* _cuda_device_count is back, and the command built from the settings runs.
Execute(c) ==
    /\ call[c].pc = "probing"
    /\ \E p \in Unstarted :
          /\ \A q \in Unstarted : p <= q
          /\ procs' = [procs EXCEPT ![p] = [status |-> "loading", built |-> settings]]
          /\ At(c, "executing", call[c].goal, p)
    /\ UNCHANGED <<engineState, settings, current, monitorTask, monitor, history>>

\* create_subprocess_exec raises, and reconfigure with it.
ExecuteFails(c) ==
    /\ call[c].pc = "probing"
    /\ engineState' = "error"
    /\ Returns(c, "failed")
    /\ UNCHANGED <<settings, current, monitorTask, monitor, procs, history>>

\* The process is recorded and its monitor begins.
Adopt(c) ==
    /\ call[c].pc = "executing"
    /\ LET p == call[c].handles IN
       /\ current' = p
       /\ monitorTask' = p
       /\ monitor' = [monitor EXCEPT ![p].pc = "polling"]
    /\ Returns(c, "resting")
    /\ UNCHANGED <<engineState, settings, procs, history>>

CallerStep(c) ==
    \/ MonitorGone(c)
    \/ GroupTerminated(c)
    \/ TerminationRaises(c)
    \/ Execute(c)
    \/ ExecuteFails(c)
    \/ Adopt(c)

-----------------------------------------------------------------------------
(* _monitor, started for process m, follows whatever process is current.     *)

Goes(m, pc) == monitor' = [monitor EXCEPT ![m].pc = pc]

\* Fault: the monitor of a process that has exited returns and says nothing.
MonitorLooksAway(m) ==
    /\ monitor[m].pc = "polling"
    /\ Goes(m, IF current = NoProc \/ Exited(current) THEN "ended" ELSE "asking")
    /\ UNCHANGED <<engineState, settings, current, monitorTask, procs, call, history>>

\* The process is looked at before the port is asked.
MonitorLooks(m) ==
    /\ monitor[m].pc = "polling"
    /\ Goes(m, IF current = NoProc \/ Exited(current) THEN "ended" ELSE "asking")
    /\ engineState' = IF current # NoProc /\ Exited(current) THEN "error" ELSE engineState
    /\ UNCHANGED <<settings, current, monitorTask, procs, call, history>>

\* The port answers 200, whichever process holds it, or it does not answer.
PortAnswers(m) ==
    /\ monitor[m].pc = "asking"
    /\ Goes(m, IF \E p \in Procs : procs[p].status = "serving" THEN "answered" ELSE "polling")
    /\ UNCHANGED <<engineState, settings, current, monitorTask, procs, call, history>>

\* startup_timeout_seconds have passed.
MonitorTimesOut(m) ==
    /\ monitor[m].pc = "asking"
    /\ Goes(m, "ended")
    /\ engineState' = "error"
    /\ UNCHANGED <<settings, current, monitorTask, procs, call, history>>

\* Fault: the monitor returns once the engine is ready.
MonitorReadyReturns(m) ==
    /\ monitor[m].pc = "answered"
    /\ engineState' = "ready"
    /\ Goes(m, "ended")
    /\ UNCHANGED <<settings, current, monitorTask, procs, call, history>>

\* From here the monitor waits for the process that is current by then.
MonitorReady(m) ==
    /\ monitor[m].pc = "answered"
    /\ engineState' = "ready"
    /\ monitor' = [monitor EXCEPT ![m] = [pc |-> IF current = NoProc THEN "ended" ELSE "watching",
                                          waits |-> current]]
    /\ UNCHANGED <<settings, current, monitorTask, procs, call, history>>

\* The process waited for has exited; it matters only while it is current.
MonitorNoticesExit(m) ==
    /\ monitor[m].pc = "watching"
    /\ Exited(monitor[m].waits)
    /\ Goes(m, "ended")
    /\ engineState' = IF current = monitor[m].waits THEN "error" ELSE engineState
    /\ UNCHANGED <<settings, current, monitorTask, procs, call, history>>

MonitorStep(m) ==
    \/ MonitorLooks(m)
    \/ PortAnswers(m)
    \/ MonitorTimesOut(m)
    \/ MonitorReady(m)
    \/ MonitorNoticesExit(m)

-----------------------------------------------------------------------------
(* The processes.                                                            *)

\* The model is loaded; the port is free for one process at a time.
FinishLoading(p) ==
    /\ procs[p].status = "loading"
    /\ \A q \in Procs : procs[q].status # "serving"
    /\ procs' = [procs EXCEPT ![p].status = "serving"]
    /\ UNCHANGED <<engineState, settings, current, monitorTask, monitor, call, history>>

\* The launcher exits, alone or with the workers; left alone they may exit later.
Crash(p) ==
    /\ OnGpu(p)
    /\ \E status \in {"orphaned", "dead"} : procs' = [procs EXCEPT ![p].status = status]
    /\ UNCHANGED <<engineState, settings, current, monitorTask, monitor, call, history>>

ProcessStep(p) == FinishLoading(p) \/ Crash(p)

-----------------------------------------------------------------------------
EngineTypeOK ==
    /\ engineState \in {"idle", "loading", "ready", "error"}
    /\ settings \in Tunings
    /\ current \in Procs \cup {NoProc} /\ monitorTask \in Procs \cup {NoProc}
    /\ monitor \in [Procs -> [pc : {"none", "polling", "asking", "answered", "watching", "ended"},
                              waits : Procs \cup {NoProc}]]
    /\ procs \in [Procs -> [status : {"none", "loading", "serving", "orphaned", "dead"},
                            built : Tunings]]
    /\ call \in [Callers -> [pc : {"resting", "failed", "raised", "closed", "taking",
                                   "terminating", "probing", "executing"},
                             goal : Tunings \cup {ToClose},
                             handles : Procs \cup {NoProc}]]
    /\ survivors \subseteq Procs /\ unended \subseteq Procs

\* A process whose termination was given up: SIGKILL had not ended it after the ten seconds
\* the code waits, or the listing of its group raised.
GivenUp(p) == p \in survivors \cup unended

\* The GPU has room for one engine: a restart starts the next one only when nothing of the
\* last is left on it, its orphaned workers included, or its termination was given up.
OneEngineOnGpu ==
    \A p, q \in Procs : OnGpu(p) /\ OnGpu(q) => p = q \/ GivenUp(p) \/ GivenUp(q)

\* A process on the GPU is always one that the engine would terminate on close, or one that
\* a caller is starting or terminating: none is forgotten without SIGTERM, SIGKILL and the
\* waits for both, unless the listing raised.  One that was given up is forgotten for good.
NoStrayProcess ==
    \A p \in Procs :
        OnGpu(p) => \/ p = current
                    \/ \E c \in Callers : call[c].handles = p
                    \/ GivenUp(p)

\* ready is not announced for an engine that is still loading, whatever has answered on its
\* port; unless a termination has raised, whose process may go on answering there.
ReadyIsLoaded ==
    engineState = "ready" /\ current # NoProc /\ unended = {} =>
        procs[current].status # "loading"
=============================================================================
