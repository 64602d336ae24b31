------------------------------ MODULE AudioCapture ------------------------------
(***************************************************************************)
(* The microphone of desktop_audio.py.  A start tries the ways of opening  *)
(* it one after another until one works; audio then comes from a thread of *)
(* its own, PortAudio's that calls back or a reader of the capture's, and  *)
(* a stop, in the client's thread, has to end it.  The audio goes out under*)
(* the callback lock, and a failure is reported once.  A capture is used   *)
(* for one start and one stop (DesktopClient).                             *)
(***************************************************************************)
EXTENDS Integers, Sequences

CONSTANTS
    Candidates,     \* the ways to open it, in the order tried: [api, rate, callback]
    TargetRate      \* TARGET_RATE

ASSUME CandidatesAssumption ==
    Candidates \in Seq([api : {"sounddevice", "pyaudio"}, rate : Nat, callback : BOOLEAN])
ASSUME TargetRateAssumption == TargetRate \in Nat

VARIABLES
    client,     \* where the client's thread is in start or stop
    tried,      \* candidates tried so far
    stream,     \* self.stream: the candidate it was opened as, or None
    pyaudio,    \* self._pyaudio: likewise
    nativeRate, \* _native_rate
    accepting,  \* _accepting_audio
    readerStop, \* _reader_stop
    reported,   \* _failure_reported
    audio,      \* where the audio thread is, and the stream it serves
    opened,     \* outside: the streams PortAudio has open
    libraries,  \* outside: the PyAudio instances not yet terminated
    heard,      \* history: the audio that went out, as <<stream it came from, rate it was taken for>>
    told        \* history: the streams whose failure has been reported

handles == <<stream, pyaudio, opened, libraries>>
flags == <<accepting, readerStop, reported>>
history == <<heard, told>>
vars == <<client, tried, handles, nativeRate, flags, audio, history>>

None == 0
Calls(i) == Candidates[i].callback      \* PortAudio calls back; otherwise a reader reads
NoThread == [pc |-> "none", of |-> None]
At(pc) == audio.pc = pc
Goes(pc) == audio' = [audio EXCEPT !.pc = pc]
InCallback == audio.of # None /\ Calls(audio.of) /\ audio.pc \notin {"none", "done"}
Reading == audio.of # None /\ ~Calls(audio.of) /\ audio.pc \notin {"none", "done"}

Init ==
    /\ client = "opening" /\ tried = 0
    /\ stream = None /\ pyaudio = None /\ opened = {} /\ libraries = {}
    /\ nativeRate = TargetRate
    /\ accepting = FALSE /\ readerStop = FALSE /\ reported = FALSE
    /\ audio = NoThread
    /\ heard = {} /\ told = {}

-----------------------------------------------------------------------------
(* The client's thread: start.                                               *)

Try(i) == client = "opening" /\ i = tried + 1 /\ i <= Len(Candidates) /\ tried' = i

Library(i) ==
    IF Candidates[i].api = "pyaudio"
    THEN pyaudio' = i /\ libraries' = libraries \cup {i}
    ELSE UNCHANGED <<pyaudio, libraries>>

\* The stream cannot be had: the device or the rate is refused.
OpenFails(i) ==
    /\ Try(i)
    /\ Library(i)
    /\ client' = "aborting"
    /\ UNCHANGED <<stream, opened, nativeRate, flags, audio, history>>

\* Fault: a failure reported of an earlier candidate stands for this one's.
OpensReported(i) ==
    /\ Try(i)
    /\ Library(i)
    /\ stream' = i /\ opened' = opened \cup {i}
    /\ nativeRate' = Candidates[i].rate
    /\ accepting' = TRUE
    /\ client' = "starting"
    /\ UNCHANGED <<reported, readerStop, audio, history>>

\* From here on a callback may come, before start has returned.
Opens(i) ==
    /\ Try(i)
    /\ Library(i)
    /\ stream' = i /\ opened' = opened \cup {i}
    /\ nativeRate' = Candidates[i].rate
    /\ reported' = FALSE
    /\ accepting' = TRUE
    /\ client' = "starting"
    /\ UNCHANGED <<readerStop, audio, history>>

\* The stream starts, and the reader if there is to be one.
Starts ==
    /\ client = "starting"
    /\ client' = "started"
    /\ IF Calls(stream)
       THEN UNCHANGED <<readerStop, audio>>
       ELSE readerStop' = FALSE /\ audio' = [pc |-> "reading", of |-> stream]
    /\ UNCHANGED <<tried, handles, nativeRate, accepting, reported, history>>

\* It does not start (or no thread does).
StartRaises ==
    /\ client = "starting"
    /\ client' = "aborting"
    /\ accepting' = FALSE /\ readerStop' = TRUE
    /\ UNCHANGED <<tried, handles, nativeRate, reported, audio, history>>

\* Closing a stream waits for a callback that is under way.
Close ==
    /\ ~InCallback
    /\ stream' = None /\ opened' = opened \ {stream}
    /\ pyaudio' = None /\ libraries' = libraries \ {pyaudio}
    /\ nativeRate' = TargetRate

\* Fault: only a capture that had a stream is taken for one that had an instance.
AbortWithStream ==
    /\ client = "aborting" /\ ~InCallback
    /\ stream' = None /\ opened' = opened \ {stream}
    /\ IF stream # None
       THEN pyaudio' = None /\ libraries' = libraries \ {pyaudio}
       ELSE UNCHANGED <<pyaudio, libraries>>
    /\ nativeRate' = TargetRate
    /\ client' = "opening"
    /\ accepting' = FALSE /\ readerStop' = TRUE
    /\ audio' = NoThread
    /\ UNCHANGED <<tried, reported, history>>

\* The handler of the open that raised, and _abort_open.
Abort ==
    /\ client = "aborting"
    /\ Close
    /\ client' = "opening"
    /\ accepting' = FALSE /\ readerStop' = TRUE
    /\ audio' = NoThread
    /\ UNCHANGED <<tried, reported, history>>

StartFails ==
    /\ client = "opening" /\ tried = Len(Candidates)
    /\ client' = "failed"
    /\ UNCHANGED <<tried, handles, nativeRate, flags, audio, history>>

-----------------------------------------------------------------------------
(* The client's thread: stop.                                                *)

\* Fault: what is still to come is let through while the stream closes.
StopAccepts ==
    /\ client \in {"started", "failed"}
    /\ client' = "joining"
    /\ readerStop' = TRUE
    /\ UNCHANGED <<tried, handles, nativeRate, accepting, reported, audio, history>>

Stop ==
    /\ client \in {"started", "failed"}
    /\ client' = "joining"
    /\ accepting' = FALSE /\ readerStop' = TRUE
    /\ UNCHANGED <<tried, handles, nativeRate, reported, audio, history>>

\* Fault: the reader is waited for, however long its device takes.
JoinsForEver ==
    /\ client = "joining" /\ ~Reading
    /\ client' = "closing"
    /\ UNCHANGED <<tried, handles, nativeRate, flags, audio, history>>

\* The reader has ended; or its device has kept it in a read for a second.  The stream is
\* told to stop: no other callback begins.
Joins ==
    /\ client = "joining" /\ (~Reading \/ At("reading"))
    /\ client' = "closing"
    /\ UNCHANGED <<tried, handles, nativeRate, flags, audio, history>>

StopCloses ==
    /\ client = "closing"
    /\ Close
    /\ client' = "closed"
    /\ UNCHANGED <<tried, flags, audio, history>>

\* Whoever holds the callback lock is waited for.
Stopped ==
    /\ client = "closed" /\ ~At("emitting")
    /\ client' = "stopped"
    /\ UNCHANGED <<tried, handles, nativeRate, flags, audio, history>>

-----------------------------------------------------------------------------
(* The audio thread.                                                         *)

Quietly == UNCHANGED <<client, tried, handles, nativeRate>>

\* PortAudio calls back: _read, _read_pyaudio.
CallsBack ==
    /\ stream # None /\ stream \in opened /\ Calls(stream)
    /\ client \in {"starting", "started", "joining"}
    /\ At("none")
    /\ audio' = [pc |-> "got", of |-> stream]
    /\ Quietly /\ UNCHANGED <<flags, history>>

\* The reader's read returns.
ReadReturns ==
    /\ At("reading")
    /\ Goes("got")
    /\ Quietly /\ UNCHANGED <<flags, history>>

\* The device is gone, or the stream has been closed under the read.
ReadRaises ==
    /\ At("reading")
    /\ Goes("failing")
    /\ Quietly /\ UNCHANGED <<flags, history>>

Over == IF Calls(audio.of) THEN "none" ELSE "done"

\* Fault: whether audio is accepted is not asked again once it is there.
TakesLockUnasked ==
    /\ At("got")
    /\ Goes("emitting")
    /\ Quietly /\ UNCHANGED <<flags, history>>

\* The callback lock is taken.  Audio that is not accepted is dropped, and the reader
\* ends with it.
TakesLock ==
    /\ At("got")
    /\ Goes(IF accepting THEN "emitting" ELSE Over)
    /\ Quietly /\ UNCHANGED <<flags, history>>

\* _emit_pcm: resampled from the native rate, and on to the worker's queue.
Emits ==
    /\ At("emitting")
    /\ heard' = heard \cup {<<audio.of, nativeRate>>}
    /\ Goes(IF ~Calls(audio.of) /\ ~readerStop /\ accepting THEN "reading" ELSE Over)
    /\ Quietly /\ UNCHANGED <<flags, told>>

\* _emit_pcm raises: a block that is no whole number of samples.
EmitRaises ==
    /\ At("emitting")
    /\ Goes("failing")
    /\ Quietly /\ UNCHANGED <<flags, history>>

\* Nothing more is accepted: the first half of every except clause.
Fails ==
    /\ At("failing")
    /\ accepting' = FALSE
    /\ Goes("reporting")
    /\ Quietly /\ UNCHANGED <<readerStop, reported, history>>

\* The failure is reported if none has been, and the thread ends; PortAudio does not
\* call back a stream whose callback has aborted.
Reports ==
    /\ At("reporting")
    /\ reported' = TRUE
    /\ told' = IF reported THEN told ELSE told \cup {audio.of}
    /\ Goes("done")
    /\ Quietly /\ UNCHANGED <<accepting, readerStop, heard>>

Client ==
    \/ \E i \in 1..Len(Candidates) : OpenFails(i) \/ Opens(i)
    \/ Starts
    \/ StartRaises
    \/ Abort
    \/ StartFails
    \/ Stop
    \/ Joins
    \/ StopCloses
    \/ Stopped

Audio ==
    \/ CallsBack
    \/ ReadReturns
    \/ ReadRaises
    \/ TakesLock
    \/ Emits
    \/ EmitRaises
    \/ Fails
    \/ Reports

Next == Client \/ Audio

Spec == Init /\ [][Next]_vars

(* A call of the client's goes on, and so does the audio thread once it has   *)
(* its audio; a read may take for ever, and nobody has to stop.               *)
Fairness ==
    /\ WF_vars(Abort) /\ WF_vars(StartFails) /\ WF_vars(Starts \/ StartRaises)
    /\ \A i \in 1..Len(Candidates) : WF_vars(OpenFails(i) \/ Opens(i))
    /\ WF_vars(Joins) /\ WF_vars(StopCloses) /\ WF_vars(Stopped)
    /\ WF_vars(TakesLock) /\ WF_vars(Emits \/ EmitRaises) /\ WF_vars(Fails) /\ WF_vars(Reports)

LiveSpec == Spec /\ Fairness

-----------------------------------------------------------------------------
(* Properties.                                                               *)

Streams == 1..Len(Candidates)

\* Every variable of the capture keeps its type.
TypeOK ==
    /\ client \in {"opening", "starting", "aborting", "started", "failed",
                   "joining", "closing", "closed", "stopped"}
    /\ tried \in 0..Len(Candidates)
    /\ stream \in Streams \cup {None} /\ pyaudio \in Streams \cup {None}
    /\ opened \subseteq Streams /\ libraries \subseteq Streams
    /\ nativeRate \in {TargetRate} \cup {Candidates[i].rate : i \in Streams}
    /\ accepting \in BOOLEAN /\ readerStop \in BOOLEAN /\ reported \in BOOLEAN
    /\ audio \in [pc : {"none", "reading", "got", "emitting", "failing", "reporting", "done"},
                  of : Streams \cup {None}]
    /\ heard \subseteq Streams \X ({TargetRate} \cup {Candidates[i].rate : i \in Streams})
    /\ told \subseteq Streams

\* Once stop has returned, no audio goes out: no callback is under way, and a reader left
\* behind in a read can drop what it gets, or fail, but finds nothing accepted.
QuietOnceStopped ==
    client = "stopped" => ~InCallback /\ ~At("emitting") /\ ~accepting

\* Audio is resampled from the rate of the stream it came from, though a stop and the
\* next candidate set the native rate without the callback lock.
HeardAtItsRate == \A h \in heard : h[2] = Candidates[h[1]].rate

\* Between candidates, and once start has failed or stop has returned, no stream is open
\* and no PyAudio instance is left, whichever candidates were refused, and where.
NothingLeftOpen ==
    client \in {"opening", "failed", "closed", "stopped"} => opened = {} /\ libraries = {}

\* A capture that has started and accepts no more audio says so, even when the failure of
\* an earlier candidate has been reported before.
SilenceIsReported ==
    client = "started" /\ ~accepting => stream \in told \/ At("reporting")

\* A stop returns, also when the device keeps the reader in a read, and when a callback is
\* under way: stop does not hold the callback lock while the stream closes.
StopReturns == client = "joining" ~> client = "stopped"
=============================================================================
