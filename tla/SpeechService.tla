---------------------------- MODULE SpeechService ----------------------------
(***************************************************************************)
(* The service of main.py around the engine: the gate that admits          *)
(* transcriptions (streams and uploads alike), the runtime settings with   *)
(* their two boundaries, hot and engine-restart, the restart request and   *)
(* the shutdown.  A handler runs without a break from one await to the     *)
(* next; the locks of the gate are never held across one.                  *)
(***************************************************************************)
EXTENDS EngineLifecycle

CONSTANTS
    Clients,        \* who may ask for a transcription
    Delays,         \* values of silence_commit_ms
    BaseStreams,    \* max_active_streams of the environment
    WritesFail      \* whether the settings file may refuse a write

ASSUME ServiceAssumption == /\ IsFiniteSet(Clients) /\ Delays # {} /\ WritesFail \in BOOLEAN
                            /\ BaseStreams \in Nat \ {0}

VARIABLES
    up,         \* the application accepts requests
    active,     \* ActiveRequestGate.active
    capacity,   \* ActiveRequestGate.capacity
    client,     \* per client, where its request is and its model session
    store,      \* RuntimeSettingsStore.values over the environment's
    config,     \* the settings in effect: what /api/settings shows
    snapshot    \* per caller, the hot part of next_config

gate == <<active, capacity, client>>
tuning == <<store, config, snapshot>>
vars == <<up, gate, tuning, engineVars>>

Hot == [delay : Delays, streams : 1..BaseStreams]
Settings == [hot : Hot, cold : Tunings]

Init ==
    /\ EngineInit
    /\ up = TRUE
    /\ active = 0 /\ capacity = BaseStreams
    /\ client = [c \in Clients |-> [pc |-> "away", proc |-> NoProc, chunked |-> settings]]
    /\ \E delay \in Delays :
          store = [hot |-> [delay |-> delay, streams |-> BaseStreams], cold |-> settings]
    /\ config = store
    /\ snapshot = [k \in Callers |-> store.hot]

-----------------------------------------------------------------------------
(* Transcriptions.  A request turned away, busy or refused, changes nothing. *)

\* try_acquire; the upload is read, or the stream started.
Admit(c) ==
    /\ up /\ client[c].pc = "away"
    /\ active < capacity
    /\ active' = active + 1
    /\ client' = [client EXCEPT ![c].pc = "admitted"]
    /\ UNCHANGED <<up, capacity, tuning, engineVars>>

\* open_session: the state is checked, the port asked, the chunk size taken from the
\* engine's settings.
OpenSession(c) ==
    /\ client[c].pc = "admitted"
    /\ engineState = "ready"
    /\ \E p \in Procs :
          /\ procs[p].status = "serving"
          /\ client' = [client EXCEPT ![c] = [pc |-> "open", proc |-> p, chunked |-> settings]]
    /\ UNCHANGED <<up, active, capacity, tuning, engineVars>>

\* A segment is finalized; a stream may go on to another.
EndSegment(c) ==
    /\ client[c].pc = "open"
    /\ client' = [client EXCEPT ![c].pc = "admitted", ![c].proc = NoProc]
    /\ UNCHANGED <<up, active, capacity, tuning, engineVars>>

\* Fault: a request whose engine is not ready returns without its slot.
LeaveUnopened(c) ==
    /\ client[c].pc \in {"admitted", "open"}
    /\ client' = [client EXCEPT ![c].pc = "away", ![c].proc = NoProc]
    /\ active' = IF client[c].pc = "open" THEN active - 1 ELSE active
    /\ UNCHANGED <<up, capacity, tuning, engineVars>>

\* However the request ends, the finally block gives its slot back; that removing the
\* upload's file may itself raise before it does is left out.
Leave(c) ==
    /\ client[c].pc \in {"admitted", "open"}
    /\ client' = [client EXCEPT ![c].pc = "away", ![c].proc = NoProc]
    /\ active' = IF active > 0 THEN active - 1 ELSE 0
    /\ UNCHANGED <<up, capacity, tuning, engineVars>>

-----------------------------------------------------------------------------
(* PUT /api/settings.  update changes the values in memory before it writes  *)
(* the file: when the write raises, only what follows it does not happen.    *)

PutDelay(delay) ==
    /\ up
    /\ store' = [store EXCEPT !.hot.delay = delay]
    /\ \/ config' = [config EXCEPT !.hot.delay = delay]
       \/ WritesFail /\ UNCHANGED config
    /\ UNCHANGED <<up, gate, snapshot, engineVars>>

\* The only value of max_active_streams the request may carry is 1.
PutStreams ==
    /\ up
    /\ store' = [store EXCEPT !.hot.streams = 1]
    /\ \/ config' = [config EXCEPT !.hot.streams = 1] /\ capacity' = 1
       \/ WritesFail /\ UNCHANGED <<config, capacity>>
    /\ UNCHANGED <<up, active, client, snapshot, engineVars>>

\* Fault: an engine setting is shown as in effect before the engine is restarted.
PutColdAtOnce(cold) ==
    /\ up
    /\ store' = [store EXCEPT !.cold = cold]
    /\ config' = [config EXCEPT !.cold = cold]
    /\ UNCHANGED <<up, gate, snapshot, engineVars>>

\* An engine setting is stored, pending until the restart.
PutCold(cold) ==
    /\ up
    /\ store' = [store EXCEPT !.cold = cold]
    /\ UNCHANGED <<up, gate, config, snapshot, engineVars>>

-----------------------------------------------------------------------------
(* POST /api/engine/restart, and the shutdown.                               *)

\* Bound of the model: a restart begins only if there is a process left to start.
ProcessLeft == Cardinality(Unstarted) > Cardinality({k \in Callers : ~Resting(k)})

\* No transcription is active at this moment; next_config is settled here.
RequestRestart(k) ==
    /\ up /\ ProcessLeft
    /\ active = 0
    /\ snapshot' = [snapshot EXCEPT ![k] = store.hot]
    /\ Close(k, store.cold)
    /\ UNCHANGED <<up, gate, store, config>>

\* reconfigure goes on; when it returns, config takes every value of next_config.
Restarting(k) ==
    /\ CallerStep(k)
    /\ IF call'[k].pc = "resting"
       THEN /\ config' = [hot |-> snapshot[k], cold |-> call[k].goal]
            /\ capacity' = snapshot[k].streams
       ELSE UNCHANGED <<config, capacity>>
    /\ UNCHANGED <<up, active, client, store, snapshot>>

\* The server has stopped accepting and its requests have ended: lifespan closes.
Shutdown ==
    /\ up
    /\ \A c \in Clients : client[c].pc = "away"
    /\ \A k \in Callers : Resting(k)
    /\ up' = FALSE
    /\ \E k \in Callers : Close(k, ToClose)
    /\ UNCHANGED <<gate, tuning>>

ClosedDown == \E k \in Callers : call[k].pc = "closed"
Stopped == ClosedDown /\ UNCHANGED vars

Monitoring(m) == MonitorStep(m) /\ UNCHANGED <<up, gate, tuning>>
Engine(p) == ProcessStep(p) /\ UNCHANGED <<up, gate, tuning>>

Next ==
    \/ \E c \in Clients : Admit(c) \/ OpenSession(c) \/ EndSegment(c) \/ Leave(c)
    \/ \E delay \in Delays : PutDelay(delay)
    \/ PutStreams
    \/ \E cold \in Tunings : PutCold(cold)
    \/ \E k \in Callers : RequestRestart(k) \/ Restarting(k)
    \/ \E m \in Procs : Monitoring(m)
    \/ \E p \in Procs : Engine(p)
    \/ Shutdown
    \/ Stopped

Spec == Init /\ [][Next]_vars

(* A coroutine that can run does, and every await of a caller ends: the GPU   *)
(* count, the signals and the poll all have a deadline.  Nothing is assumed   *)
(* of the clients or of the model server.                                     *)
Fairness ==
    /\ \A k \in Callers : WF_vars(Restarting(k))
    /\ \A m \in Procs : WF_vars(Monitoring(m))

\* The poll loop has a deadline: it does not ask for ever.
Deadline == \A m \in Procs : SF_vars(MonitorTimesOut(m) /\ UNCHANGED <<up, gate, tuning>>)

LiveSpec == Spec /\ Fairness /\ Deadline

-----------------------------------------------------------------------------
(* Properties.                                                               *)

\* Every variable of the service and of the engine keeps its type.
TypeOK ==
    /\ EngineTypeOK
    /\ up \in BOOLEAN
    /\ active \in Nat /\ capacity \in 1..BaseStreams
    /\ client \in [Clients -> [pc : {"away", "admitted", "open"},
                               proc : Procs \cup {NoProc}, chunked : Tunings]]
    /\ store \in Settings /\ config \in Settings
    /\ snapshot \in [Callers -> Hot]

\* The gate counts the requests that hold a slot, through every way one can end, and
\* a capacity lowered or put back by a restart never lets in more than the base.
SlotsMatch ==
    /\ active = Cardinality({c \in Clients : client[c].pc # "away"})
    /\ active <= BaseStreams

\* The settings shown as in effect are those the running engine was built from, and
\* so a restart is asked for exactly when the stored ones differ from them.
ShownIsRunning == current # NoProc => procs[current].built = config.cold

\* A session cuts audio with the chunk size of the engine it talks to, even when it
\* was opened while that engine was being closed; unless it talks to a process whose
\* termination has raised and which is still there.
SessionFitsEngine ==
    \A c \in Clients :
        client[c].pc = "open" =>
            \/ client[c].chunked = procs[client[c].proc].built
            \/ client[c].proc \in unended

\* tests/test_engine.py: no worker survives close, whether or not its launcher is
\* still there; unless its termination was given up.
CloseLeavesNothing == ClosedDown => \A p \in Procs : OnGpu(p) => GivenUp(p)

\* A restart whose close has raised: it leaves the state as it was, with no engine and no
\* monitor, until the next restart.
CloseRaised == \E k \in Callers : call[k].pc = "raised"

\* A start comes to an end: the engine is ready or has failed, unless it is closed, or the
\* close of a restart raises.
LoadingEnds == engineState = "loading" ~> (engineState # "loading" \/ ClosedDown \/ CloseRaised)

\* An engine whose launcher has exited is not reported ready for ever, unless the close of a
\* restart raises.
ExitIsNoticed ==
    (engineState = "ready" /\ current # NoProc /\ Exited(current))
        ~> (engineState # "ready" \/ ClosedDown \/ CloseRaised)

\* README: the silence delay applies to the next WebSocket session, the stream limit
\* immediately.  With no restart under way the hot settings in effect are the stored, as
\* long as every write of the settings file succeeds.
HotSettingsApply == (\A k \in Callers : Resting(k)) => config.hot = store.hot
=============================================================================
