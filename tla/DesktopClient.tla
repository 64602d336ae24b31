---------------------------- MODULE DesktopClient ----------------------------
(***************************************************************************)
(* The desktop client of desktop.py: the controller, which runs in the GTK *)
(* thread, the threads that stream a session each and report back through  *)
(* the GTK idle queue, the microphone, and the injector that pastes a      *)
(* finalized segment by way of the clipboard.  To read the clipboard the   *)
(* controller runs the main loop inside the call: whatever the loop has to *)
(* run, a key or a callback, runs in the middle of a start, of the end of  *)
(* a session or of the shutdown.  The callbacks in the queue do not say    *)
(* which session they are of; the model notes it for the properties only.  *)
(***************************************************************************)
EXTENDS Integers, SequencesExt

CONSTANTS
    Copies,         \* what the user may have put on the clipboard
    MaxSessions,    \* bound of the model: recordings started, with the shutdown as one more
    MaxQueued,      \* bound of the model: callbacks queued by live sessions
    MaxMishaps,     \* bound of the model: microphones that fail, and keys while a call waits
    MaxWaits        \* bound of the model: reads of the clipboard inside one another

Dictated == "dictated"      \* what the injector puts on the clipboard
Nothing == "nothing"        \* what has no text, and is read and put back as an empty one

ASSUME ClientAssumption == /\ Copies # {} /\ {Dictated, Nothing} \cap Copies = {}
                           /\ MaxSessions \in Nat /\ MaxQueued \in Nat /\ MaxMishaps \in Nat
                           /\ MaxWaits \in Nat

Texts == Copies \cup {Dictated, Nothing}
Sessions == 1..MaxSessions
None == 0

VARIABLES
    phase,      \* "running", "closing" once shutdown is called, "quitting" or "gone"
    state,      \* "idle", "connecting", "recording" or "finalizing"
    started,    \* recordings started so far; the next session is the next number
    worker,     \* self.worker, or None
    capture,    \* self.capture: the session whose worker it feeds, or None
    mics,       \* how many captures may report a failure, as each does once
    waits,      \* the calls under way, each in wait_for_text, the innermost last
    thread,     \* per session, where its thread is and what it still has to send
    ui,         \* the GTK idle queue
    staged,     \* injector.hypothesis is not empty
    original,   \* injector.original_clipboard
    last,       \* injector.last_clipboard is the text pasted last
    clipboard,
    mishaps,    \* the microphones that have failed, and the keys that came while a call waited
    astray,     \* history: the sessions whose course another session, a microphone or a key has crossed
    unheld,     \* history: a capture has been replaced and not stopped, with no session astray
    mine        \* history: what of the user's is to be on the clipboard after the session

session == <<phase, state, started, worker, capture, mics>>
inject == <<staged, original, last, clipboard, mine>>
history == <<astray, unheld>>
vars == <<session, waits, thread, ui, inject, mishaps, history>>

Fresh == [pc |-> "none", out |-> <<>>, committed |-> FALSE, fed |-> FALSE]
Closed == [Fresh EXCEPT !.pc = "closed"]
Live(w) == thread[w].pc \in {"connecting", "streaming", "ending"}

Init ==
    /\ phase = "running" /\ state = "idle" /\ started = 0
    /\ worker = None /\ capture = None /\ mics = 0
    /\ waits = <<>>
    /\ thread = [w \in Sessions |-> Fresh]
    /\ ui = <<>>
    /\ staged = FALSE /\ last = FALSE
    /\ clipboard = Nothing /\ original = Nothing /\ mine = Nothing
    /\ mishaps = 0
    /\ astray = {} /\ unheld = FALSE

-----------------------------------------------------------------------------
(* The main loop, at the top or inside a call that reads the clipboard.      *)

\* The loop runs, and a key, the tray or another process may call the controller.
Looping == phase \in {"running", "closing"} \/ (phase = "quitting" /\ waits # <<>>)

Mishap == mishaps < MaxMishaps /\ mishaps' = mishaps + 1

\* A key, the tray or another process calls the controller, in a call that waits or not.
Key == Looping /\ IF waits = <<>> THEN UNCHANGED mishaps ELSE Mishap

\* Callbacks of the idle queue give way to the answer of the clipboard, which ends the loop
\* inside the call.
Idle == Looping /\ (waits # <<>> => ~Last(waits).answered)

\* wait_for_text is called.
Waits(call, w) ==
    /\ Len(waits) < MaxWaits
    /\ waits' = Append(waits, [call |-> call, of |-> w, answered |-> FALSE])

\* The innermost call has its answer and goes on.  The call around it may have been answered
\* in the meantime, with any text there was by then.
Returns(call, text) ==
    /\ waits # <<>> /\ Last(waits).call = call
    /\ Last(waits).answered \/ text = clipboard
    /\ waits' = Front(waits) \/ \E i \in 1..(Len(waits) - 1) :
                                  /\ i = Len(waits) - 1
                                  /\ waits' = [Front(waits) EXCEPT ![i].answered = TRUE]

-----------------------------------------------------------------------------
(* The injector.                                                             *)

\* Fault: the clipboard is left as the last paste put it.
InjectorEndKeeps(read) ==
    /\ last' = FALSE /\ staged' = FALSE
    /\ UNCHANGED <<clipboard, original, mine>>

\* The rest of injector.end: text of ours still on the clipboard gives way to what was
\* there, and so does what the user has copied since the clipboard was read.
InjectorEnd(read) ==
    /\ IF last /\ read = Dictated
       THEN clipboard' = original /\ mine' = IF clipboard = Dictated THEN mine ELSE original
       ELSE UNCHANGED <<clipboard, mine>>
    /\ last' = FALSE /\ staged' = FALSE
    /\ UNCHANGED original

\* injector.stage: only when the focus is where the session began, as it may be or not.
InjectorStage ==
    /\ staged' \in {staged, TRUE}
    /\ UNCHANGED <<original, last, clipboard, mine>>

\* insert_finalized_text: the text is on the clipboard, whether one of the helpers sends
\* the paste keys or it is left to the user to do so.  What the user has copied since the
\* session began is gone; what was there then will be put back.
Insert ==
    /\ clipboard' = Dictated /\ last' = TRUE
    /\ mine' = IF clipboard \in {Dictated, original} THEN mine ELSE original

\* injector.commit_segment: what is staged is inserted, if the focus is where the session
\* began.
InjectorCommit ==
    /\ staged' = FALSE
    /\ (staged /\ Insert) \/ UNCHANGED <<clipboard, last, mine>>
    /\ UNCHANGED original

-----------------------------------------------------------------------------
(* The controller: each of these runs to its end, or until it reads the      *)
(* clipboard, in the GTK thread.                                             *)

\* An order to a thread; to one that is over it is lost.
Tell(w, order) ==
    thread' = IF Live(w) THEN [thread EXCEPT ![w].out = Append(@, order)] ELSE thread

\* The sessions whose start has not yet got to its worker.
Begun == {waits[i].of : i \in 1..Len(waits)} \ {None}

\* Fault: the microphone is left open.
FinishSessionKeepsMic ==
    /\ worker' = None
    /\ Waits("end", None)
    /\ UNCHANGED <<phase, started, capture, inject>>

\* _finish_session, of the session that is current, up to injector.end.
FinishSession ==
    /\ worker' = None /\ capture' = None
    /\ Waits("end", None)
    /\ UNCHANGED <<phase, started, inject>>

\* And from there.
FinishReturns ==
    /\ \E text \in Texts : Returns("end", text) /\ InjectorEnd(text)
    /\ state' = "idle"
    /\ UNCHANGED <<phase, started, worker, capture, mics, thread, ui, mishaps, history>>

\* toggle, when idle: from the hotkey, the tray or another process; up to injector.begin.
StartRecording ==
    /\ Key /\ state = "idle" /\ started + (IF phase = "running" THEN 0 ELSE 1) < MaxSessions
    /\ state' = "connecting"
    /\ started' = started + 1
    /\ staged' = FALSE
    /\ Waits("begin", started')
    /\ astray' = IF waits = <<>> THEN astray ELSE astray \cup Begun \cup {started'}
    /\ UNCHANGED <<phase, worker, capture, mics, thread, ui, original, last, clipboard, mine,
                   unheld>>

\* What was on the clipboard is noted, and the worker made and started.
StartReturns ==
    /\ \E text \in Texts : Returns("begin", text) /\ original' = text
    /\ last' = FALSE
    /\ worker' = Last(waits).of
    /\ thread' = [thread EXCEPT ![worker'].pc = "connecting"]
    /\ UNCHANGED <<phase, state, started, capture, mics, ui, staged, clipboard, mine, mishaps,
                   history>>

\* Fault: there is nothing to commit before the session is connected.
StopRecordingConnected ==
    /\ Key /\ state \in {"connecting", "recording"}
    /\ capture' = None
    /\ state' = "finalizing"
    /\ IF worker # None
       THEN /\ IF state = "recording" THEN Tell(worker, "commit") ELSE UNCHANGED thread
            /\ UNCHANGED <<phase, started, worker, waits, inject>>
       ELSE FinishSession /\ UNCHANGED thread
    /\ astray' = astray \cup Begun
    /\ UNCHANGED <<mics, ui, unheld>>

\* Fault: a session that is still connecting is forgotten.
StopRecordingForgets ==
    /\ Key /\ state \in {"connecting", "recording"}
    /\ capture' = None
    /\ state' = "finalizing"
    /\ IF worker # None /\ state = "recording"
       THEN Tell(worker, "commit") /\ UNCHANGED <<phase, started, worker, waits, inject>>
       ELSE FinishSession /\ UNCHANGED thread
    /\ astray' = astray \cup Begun
    /\ UNCHANGED <<mics, ui, unheld>>

\* toggle, when connecting or recording.
StopRecording ==
    /\ Key /\ state \in {"connecting", "recording"}
    /\ capture' = None
    /\ state' = "finalizing"
    /\ IF worker # None
       THEN Tell(worker, "commit") /\ UNCHANGED <<phase, started, worker, waits, inject>>
       ELSE FinishSession /\ UNCHANGED thread
    /\ astray' = astray \cup Begun
    /\ UNCHANGED <<mics, ui, unheld>>

Callback(cb) == Idle /\ ui # <<>> /\ Head(ui).cb = cb /\ ui' = Tail(ui)

\* _start_audio, whatever the state is by now; the microphone may not start.
StartAudio ==
    /\ Callback("connected")
    /\ \/ /\ worker = None
          /\ UNCHANGED <<session, waits, thread, inject, mishaps, history>>
       \/ /\ worker # None
          /\ capture' = worker /\ mics' = mics + 1
          /\ state' = "recording"
          /\ thread' = [thread EXCEPT ![worker].fed = TRUE]
          /\ unheld' = (unheld \/ (capture # None /\ astray = {}))
          /\ UNCHANGED <<phase, started, worker, waits, inject, mishaps, astray>>
       \/ /\ worker # None
          /\ Tell(worker, "cancel")
          /\ FinishSession
          /\ Mishap
          /\ unheld' = (unheld \/ (capture # None /\ astray = {}))
          /\ astray' = astray \cup Begun
          /\ UNCHANGED <<state, mics>>

\* _inject_hypothesis
Hypothesis ==
    /\ Callback("hypothesis")
    /\ InjectorStage
    /\ UNCHANGED <<session, waits, thread, mishaps, history>>

\* _commit_segment
CommitSegment ==
    /\ Callback("segment")
    /\ InjectorCommit
    /\ UNCHANGED <<session, waits, thread, mishaps, history>>

\* _stream_failed and _stream_completed, whichever session it was that ended.
StreamEnds ==
    /\ Callback("failed") \/ Callback("completed")
    /\ FinishSession
    /\ astray' = astray \cup Begun \cup (IF Head(ui).of = worker THEN {} ELSE {worker} \ {None})
    /\ UNCHANGED <<state, mics, thread, mishaps, unheld>>

\* shutdown, up to injector.end: the worker is told to cancel.
Shutdown ==
    /\ Key /\ phase = "running" /\ started < MaxSessions
    /\ phase' = "closing"
    /\ IF worker # None THEN Tell(worker, "cancel") ELSE UNCHANGED thread
    /\ Waits("shutdown", None)
    /\ UNCHANGED <<state, started, worker, capture, mics, ui, inject, history>>

\* The clipboard is given back and the application told to quit.
ShutdownReturns ==
    /\ \E text \in Texts : Returns("shutdown", text) /\ InjectorEnd(text)
    /\ phase' = "quitting"
    /\ UNCHANGED <<state, started, worker, capture, mics, thread, ui, mishaps, history>>

\* The main loop is left once no call is inside it.  What the process kept goes with it, and
\* the threads, which are daemons.
Exit ==
    /\ phase = "quitting" /\ waits = <<>>
    /\ phase' = "gone"
    /\ state' = "idle" /\ worker' = None /\ capture' = None /\ mics' = 0
    /\ thread' = [w \in Sessions |-> Closed]
    /\ ui' = <<>>
    /\ staged' = FALSE /\ last' = FALSE /\ original' = clipboard
    /\ UNCHANGED <<started, waits, clipboard, mine, mishaps, history>>

-----------------------------------------------------------------------------
(* The thread of a session.                                                  *)

Room == Len(ui) < MaxQueued
Queue(w, cb) == ui' = Append(ui, [cb |-> cb, of |-> w])
\* Once the main loop is to be left, what a thread does reaches nobody any more.
Thread(w, pc) == Looping /\ thread[w].pc = pc
Becomes(w, new) == thread' = [thread EXCEPT ![w] = new]
Elsewhere == UNCHANGED <<session, waits, inject, mishaps, history>>

Connects(w) ==
    /\ Thread(w, "connecting") /\ Becomes(w, [thread[w] EXCEPT !.pc = "streaming"])
    /\ Queue(w, "connected")
    /\ Elsewhere

\* The connection is refused, busy or lost; or the server reports an error.
Fails(w) ==
    /\ Thread(w, "connecting") \/ Thread(w, "streaming")
    /\ Becomes(w, Closed)
    /\ Queue(w, "failed")
    /\ Elsewhere

\* The next order of the controller; a cancelled session returns and reports nothing.
Sends(w) ==
    /\ Thread(w, "streaming") /\ thread[w].out # <<>>
    /\ Becomes(w, IF Head(thread[w].out) = "cancel"
                  THEN Closed
                  ELSE [thread[w] EXCEPT !.out = Tail(@), !.committed = TRUE])
    /\ UNCHANGED ui
    /\ Elsewhere

\* A partial, or the text of a final, or the final itself of a segment cut for silence.
Hears(w) ==
    /\ Thread(w, "streaming") /\ thread[w].fed /\ Room
    /\ \E cb \in {"hypothesis", "segment"} : Queue(w, cb)
    /\ UNCHANGED thread
    /\ Elsewhere

\* The final that completes the session, its text told before if it has one.
HearsLast(w) ==
    /\ Thread(w, "streaming") /\ thread[w].committed
    /\ Becomes(w, [thread[w] EXCEPT !.pc = "ending"])
    /\ Queue(w, "segment")
    /\ Elsewhere

\* The socket is closed, and the completion reported.
Ends(w) ==
    /\ Thread(w, "ending") /\ Becomes(w, Closed)
    /\ Queue(w, "completed")
    /\ Elsewhere

-----------------------------------------------------------------------------
(* The microphone and the user.                                              *)

\* A capture reports its failure from its own thread, and only once; also when it has been
\* stopped, if its reader was left behind in a read (AudioCapture!QuietOnceStopped).
MicrophoneFails ==
    /\ Looping /\ mics > 0
    /\ mics' = mics - 1 /\ Mishap
    /\ Queue(None, "failed")
    /\ UNCHANGED <<phase, state, started, worker, capture, waits, thread, inject, history>>

\* The user copies something that is not there already, or has not been put away for later.
UserCopies ==
    /\ Looping /\ clipboard' \in Copies \ {mine} /\ mine' = clipboard'
    /\ UNCHANGED <<session, waits, thread, ui, staged, original, last, mishaps, history>>

RunCallback ==
    \/ StartAudio
    \/ Hypothesis
    \/ CommitSegment
    \/ StreamEnds

WaitEnds ==
    \/ StartReturns
    \/ FinishReturns
    \/ ShutdownReturns
    \/ Exit

Next ==
    \/ StartRecording
    \/ StopRecording
    \/ RunCallback
    \/ Shutdown
    \/ WaitEnds
    \/ \E w \in Sessions : Connects(w) \/ Fails(w) \/ Sends(w) \/ Hears(w) \/ HearsLast(w) \/ Ends(w)
    \/ MicrophoneFails
    \/ UserCopies

Spec == Init /\ [][Next]_vars

(* The GTK loop runs its callbacks, the clipboard answers or GTK gives up     *)
(* waiting, and a thread goes on: it connects or times out, sends what it is  *)
(* told to, hears the final it has asked for (StreamSession!CommitEnds) and   *)
(* closes its socket.                                                         *)
GoesOn(w) ==
    \/ Connects(w)
    \/ thread[w].pc = "connecting" /\ Fails(w)
    \/ Sends(w)
    \/ HearsLast(w)
    \/ Ends(w)

Fairness ==
    /\ WF_vars(RunCallback) /\ WF_vars(WaitEnds)
    /\ \A w \in Sessions : WF_vars(GoesOn(w))

LiveSpec == Spec /\ Fairness

-----------------------------------------------------------------------------
(* Properties.                                                               *)

Frames == [call : {"begin", "end", "shutdown"}, of : Sessions \cup {None}, answered : BOOLEAN]
Callbacks == [cb : {"connected", "hypothesis", "segment", "failed", "completed"},
              of : Sessions \cup {None}]
Threads == [pc : {"none", "connecting", "streaming", "ending", "closed"},
            out : Seq({"commit", "cancel"}), committed : BOOLEAN, fed : BOOLEAN]

\* Every variable of the client keeps its type.
TypeOK ==
    /\ phase \in {"running", "closing", "quitting", "gone"}
    /\ state \in {"idle", "connecting", "recording", "finalizing"}
    /\ started \in 0..MaxSessions
    /\ worker \in Sessions \cup {None} /\ capture \in Sessions \cup {None}
    /\ mics \in Nat /\ mishaps \in 0..MaxMishaps
    /\ waits \in Seq(Frames)
    /\ thread \in [Sessions -> Threads]
    /\ ui \in Seq(Callbacks)
    /\ staged \in BOOLEAN /\ last \in BOOLEAN
    /\ {original, clipboard, mine} \subseteq Texts
    /\ astray \subseteq Sessions /\ unheld \in BOOLEAN

\* A session that has gone astray is over: it may have been started, or stopped, while the
\* controller was waiting for the clipboard, or ended by a microphone or by what another
\* session left in the queue.
Over(w) == ~Live(w) /\ w # worker /\ w \notin Begun /\ \A i \in 1..Len(ui) : ui[i].of # w

MicFollowsState ==
    /\ capture # None => state = "recording"
    /\ state = "recording" => capture # None \/ \E i \in 1..Len(waits) : waits[i].call = "end"

\* The microphone is open exactly while the client says that it records, but for the wait of
\* an end that has closed it; also after sessions that went astray, once they are over.  And
\* no other microphone is left open, as long as no session goes astray.
MicMatchesState == ((\A w \in astray : Over(w)) => MicFollowsState) /\ ~unheld

\* A session's thread ends, or has been told to, before the controller forgets it: the
\* server has one slot, and a forgotten session would keep it.  Unless it went astray.
NothingForgotten ==
    \A w \in Sessions :
        Live(w) => \/ w = worker
                   \/ \E i \in 1..Len(thread[w].out) : thread[w].out[i] = "cancel"
                   \/ w \in astray

\* With no session, or closed, the client has put back what of the user's the session has
\* overwritten, unless a session went astray.
ClipboardGivenBack ==
    astray = {} /\ ((worker = None /\ waits = <<>>) \/ phase = "gone") => clipboard = mine

\* Once stopped, a recording is over: the client is idle again, or has been closed.
FinalizingEnds == state = "finalizing" ~> (state = "idle" \/ phase = "gone")

\* README: "The first shortcut press starts capture; the next commits and stops."  A
\* session that has been stopped does not record again.
StoppedStaysStopped == [][state = "finalizing" => state' # "recording"]_state
=============================================================================
