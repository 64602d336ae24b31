----------------------------- MODULE BrowserCapture -----------------------------
(***************************************************************************)
(* Capture in the browser: MicrophoneStream of stream.ts, and the handlers *)
(* of App.tsx that start, stop, cancel and clear it.  The handlers are     *)
(* asynchronous and nothing keeps one from beginning while another waits;  *)
(* what follows an await at once (a microtask) runs before any other event *)
(* of the page.  The user, the devices and the service are outside.        *)
(***************************************************************************)
EXTENDS Integers, Sequences, FiniteSets

CONSTANTS
    MaxSockets,     \* bound of the model: connections made
    MaxCalls,       \* bound of the model: calls in flight at once
    MaxPending      \* chunks kept for a connection being made (50)

ASSUME BoundsAssumption == /\ MaxSockets \in Nat \ {0} /\ MaxCalls \in Nat \ {0}
                           /\ MaxPending \in Nat \ {0}

Sockets == 1..MaxSockets
Calls == 1..MaxCalls
None == 0

VARIABLES
    app,        \* captureStateRef and acceptStreamEventsRef
    stream,     \* the MicrophoneStream: socket, media, context, pendingPcm, and
                \* whether connection and listeners are set
    call,       \* the asynchronous calls in flight, what each is waiting for, and its socket
    ws,         \* the connections, as the page and the service have them
    mic,        \* the tracks of the microphone, named after the socket of their start
    epoch,      \* starts and clears so far
    overlapped  \* history: a handler has begun while a call was in flight, or even a start
                \* while another was, or while audio was being released

vars == <<app, stream, call, ws, mic, epoch, overlapped>>

NoCall == [op |-> "none", at |-> "none", socket |-> None]
Micro == {"connected", "failed", "cleared", "released", "rejected"}
Calm == \A c \in Calls : call[c].at \notin Micro
InFlight == \E c \in Calls : call[c].at # "none"
Ends(c) == call' = [call EXCEPT ![c] = NoCall]
IsOpen(s) == s # None /\ ws[s].at = "open"
Waits(c, at, s) == call[c].at = at /\ call[c].socket = s

\* A connection not made yet, or closed: nothing of it matters any more.
Socket(at) == [at |-> at, of |-> 0, stale |-> FALSE, committed |-> FALSE, answered |-> FALSE, late |-> FALSE]

Init ==
    /\ app = [state |-> "idle", accept |-> FALSE]
    /\ stream = [given |-> FALSE, socket |-> None, media |-> None, context |-> "none", pending |-> <<>>]
    /\ call = [c \in Calls |-> NoCall]
    /\ ws = [s \in Sockets |-> Socket("none")]
    /\ mic = [s \in Sockets |-> "off"]
    /\ epoch = 0 /\ overlapped = "nothing"

-----------------------------------------------------------------------------
(* What the calls have in common.                                            *)

\* The next call; the user does not begin one for which there is no socket left.
Free(c) == call[c].at = "none" /\ \A d \in Calls : call[d].at = "none" => c <= d
Unused == {s \in Sockets : ws[s].at = "none"}
Clearing == {c \in Calls : call[c].at \in {"clearing", "cleared"}}
SocketLeft == Cardinality(Unused) > Cardinality(Clearing)
Handler(op) ==
    /\ Calm
    /\ overlapped' = IF ~InFlight \/ overlapped = "start" THEN overlapped
                     ELSE IF op = "start" /\ \E c \in Calls : call[c].op = op \/ call[c].at = "releasing"
                          THEN op ELSE "handler"

\* connectSocket, up to its await.
ConnectSocket(c, op, now) ==
    \E s \in Unused :
        /\ \A other \in Unused : s <= other
        /\ ws' = [ws EXCEPT ![s].at = "connecting", ![s].of = epoch']
        /\ stream' = [now EXCEPT !.socket = s]
        /\ call' = [call EXCEPT ![c] = [op |-> op, at |-> "connecting", socket |-> s]]

\* releaseAudio, up to its await; a context that is being closed cannot be closed again.
ReleaseAudio(c, op, now) ==
    /\ mic' = [s \in Sockets |-> IF s = stream.media THEN "off" ELSE mic[s]]
    /\ stream' = [now EXCEPT !.context = IF @ = "running" THEN "closing" ELSE @]
    /\ call' = [call EXCEPT ![c] =
        [op |-> op, socket |-> None,
         at |-> CASE stream.context = "running" -> "releasing"
                  [] stream.context = "closing" -> "rejected"
                  [] stream.context = "none" -> "released"]]

\* A connection is closed by the page, if it is open or being made.
ClosedByPage(s, states) ==
    [t \in Sockets |-> IF t = s /\ ws[t].at \in states THEN [ws[t] EXCEPT !.at = "closing"] ELSE ws[t]]

\* cancel, up to its await.
Cancel(c) ==
    /\ ws' = ClosedByPage(stream.socket, {"open"})
    /\ ReleaseAudio(c, "cancel", [stream EXCEPT !.socket = None])

-----------------------------------------------------------------------------
(* The handlers, up to their first await.                                    *)

\* toggleCapture when idle, and start.
StartCapture(c) ==
    /\ Handler("start") /\ Free(c) /\ SocketLeft
    /\ app.state = "idle"
    /\ app' = [state |-> "connecting", accept |-> TRUE]
    /\ epoch' = epoch + 1
    /\ ConnectSocket(c, "start", [stream EXCEPT !.given = TRUE])
    /\ UNCHANGED mic

\* toggleCapture when recording, and stop.
StopCapture(c) ==
    /\ Handler("stop") /\ Free(c)
    /\ app.state = "recording"
    /\ app' = [app EXCEPT !.state = "finalizing"]
    /\ ReleaseAudio(c, "stop", stream)
    /\ UNCHANGED <<ws, epoch>>

CancelCapture(c) ==
    /\ Handler("cancel") /\ Free(c)
    /\ app.state # "idle"
    /\ app' = [app EXCEPT !.accept = FALSE]
    /\ Cancel(c)
    /\ UNCHANGED epoch

\* clearTranscript when not recording: what still comes is not shown.
ClearText ==
    /\ Handler("clear")
    /\ app.state # "recording" /\ app.accept
    /\ app' = [app EXCEPT !.accept = FALSE]
    /\ UNCHANGED <<stream, call, ws, mic, epoch>>

\* Fault: audio kept for the connection that is given up goes to the next.
ClearSessionKeepsPending(c) ==
    /\ Handler("clear") /\ Free(c) /\ SocketLeft
    /\ app.state = "recording" /\ stream.given
    /\ app' = [app EXCEPT !.accept = FALSE]
    /\ epoch' = epoch + 1
    /\ IF stream.socket = None
       THEN ConnectSocket(c, "clear", stream)
       ELSE /\ ws' = ClosedByPage(stream.socket, {"open", "connecting"})
            /\ stream' = [stream EXCEPT !.socket = None]
            /\ call' = [call EXCEPT ![c] = [op |-> "clear", at |-> "clearing", socket |-> stream.socket]]
    /\ UNCHANGED mic

\* clearTranscript when recording, and clearSession: the connection is closed, which is
\* waited for, and another made.
ClearSession(c) ==
    /\ Handler("clear") /\ Free(c) /\ SocketLeft
    /\ app.state = "recording" /\ stream.given
    /\ app' = [app EXCEPT !.accept = FALSE]
    /\ epoch' = epoch + 1
    /\ IF stream.socket = None
       THEN ConnectSocket(c, "clear", [stream EXCEPT !.pending = <<>>])
       ELSE /\ ws' = ClosedByPage(stream.socket, {"open", "connecting"})
            /\ stream' = [stream EXCEPT !.socket = None, !.pending = <<>>]
            /\ call' = [call EXCEPT ![c] = [op |-> "clear", at |-> "clearing", socket |-> stream.socket]]
    /\ UNCHANGED mic

\* There is no session to clear: the handler goes on at once.
ClearNothing ==
    /\ Handler("clear")
    /\ app.state = "recording" /\ ~stream.given
    /\ app' = [app EXCEPT !.accept = TRUE]
    /\ UNCHANGED <<stream, call, ws, mic, epoch>>

-----------------------------------------------------------------------------
(* What follows an await: these run before any other event.                  *)

Going == UNCHANGED <<epoch, overlapped>>

\* start asks for the microphone; clearTranscript shows what comes again.
Connected(c) ==
    /\ call[c].at = "connected"
    /\ IF call[c].op = "start"
       THEN call' = [call EXCEPT ![c].at = "asking"] /\ UNCHANGED app
       ELSE Ends(c) /\ app' = [app EXCEPT !.accept = TRUE]
    /\ Going /\ UNCHANGED <<stream, ws, mic>>

\* The catch clauses of connectSocket and start.
StartFails(c) ==
    /\ call[c].at = "failed" /\ call[c].op = "start"
    /\ stream' = [stream EXCEPT !.given = FALSE,
                                !.socket = IF @ = call[c].socket THEN None ELSE @]
    /\ app' = [state |-> "idle", accept |-> FALSE]
    /\ Ends(c)
    /\ Going /\ UNCHANGED <<ws, mic>>

\* The catch clauses of connectSocket and clearTranscript, which cancels.
ClearFails(c) ==
    /\ call[c].at = "failed" /\ call[c].op = "clear"
    /\ LET other == IF stream.socket = call[c].socket THEN None ELSE stream.socket IN
       /\ ws' = ClosedByPage(other, {"open"})
       /\ ReleaseAudio(c, "cancel", [stream EXCEPT !.socket = None])
    /\ Going /\ UNCHANGED app

\* The connection cleared is closed, or has taken a second: another one is made, unless
\* the session has been cancelled meanwhile.
ClearGoesOn(c) ==
    /\ Going /\ call[c].at = "cleared"
    /\ \/ stream.given /\ ConnectSocket(c, "clear", stream) /\ UNCHANGED mic
       \/ ~stream.given /\ Cancel(c)
    /\ UNCHANGED app

\* Fault: the connection is let go of with the commit.
StopCommitsForgets(c) ==
    /\ call[c].at = "released" /\ call[c].op = "stop"
    /\ ws' = IF IsOpen(stream.socket) THEN [ws EXCEPT ![stream.socket].committed = TRUE] ELSE ws
    /\ stream' = [stream EXCEPT !.socket = None]
    /\ Ends(c)
    /\ Going /\ UNCHANGED <<app, mic>>

\* stop commits what has been said, if the connection is open by then.
StopCommits(c) ==
    /\ call[c].at = "released" /\ call[c].op = "stop"
    /\ ws' = IF IsOpen(stream.socket) THEN [ws EXCEPT ![stream.socket].committed = TRUE] ELSE ws
    /\ Ends(c)
    /\ Going /\ UNCHANGED <<app, stream, mic>>

\* The end of cancel, and of the handlers that call it.
CancelEnds(c) ==
    /\ call[c].at = "released" /\ call[c].op = "cancel"
    /\ stream' = [stream EXCEPT !.given = FALSE, !.pending = <<>>]
    /\ app' = [app EXCEPT !.state = "idle"]
    /\ Ends(c)
    /\ Going /\ UNCHANGED <<ws, mic>>

\* The end of a start without a microphone.
StartEnds(c) ==
    /\ call[c].at \in {"released", "rejected"} /\ call[c].op = "start"
    /\ app' = [state |-> "idle", accept |-> FALSE]
    /\ Ends(c)
    /\ Going /\ UNCHANGED <<stream, ws, mic>>

\* Nobody waits for the release at a close; and a rejected one ends its handler.
NothingFollows(c) ==
    /\ \/ call[c].at = "released" /\ call[c].op = "closed"
       \/ call[c].at = "rejected" /\ call[c].op # "start"
    /\ Ends(c)
    /\ Going /\ UNCHANGED <<app, stream, ws, mic>>

Microtask(c) ==
    \/ Connected(c)
    \/ StartFails(c)
    \/ ClearFails(c)
    \/ ClearGoesOn(c)
    \/ StopCommits(c)
    \/ CancelEnds(c)
    \/ StartEnds(c)
    \/ NothingFollows(c)

-----------------------------------------------------------------------------
(* Other events of the page.                                                 *)

Event == Calm /\ Going
Wakes(s, from, to) == call' = [c \in Calls |-> IF Waits(c, from, s) THEN [call[c] EXCEPT !.at = to] ELSE call[c]]

\* What was kept is sent, on whatever connection it is that opens.
Opens(s) ==
    /\ Event /\ ws[s].at = "connecting"
    /\ ws' = [ws EXCEPT ![s].at = "open",
                        ![s].stale = \E i \in 1..Len(stream.pending) :
                                        ~stream.pending[i].closing /\ stream.pending[i].of < ws[s].of]
    /\ stream' = [stream EXCEPT !.pending = <<>>]
    /\ Wakes(s, "connecting", "connected")
    /\ UNCHANGED <<app, mic>>

ConnectFails(s) ==
    /\ Event /\ ws[s].at = "connecting"
    /\ ws' = [ws EXCEPT ![s] = Socket("closed")]
    /\ Wakes(s, "connecting", "failed")
    /\ UNCHANGED <<app, stream, mic>>

\* Ten seconds to open, one to close; the connection is left to itself.
TimesOut(c) ==
    /\ Event
    /\ \/ /\ call[c].at = "connecting"
          /\ call' = [call EXCEPT ![c].at = "failed"]
          /\ ws' = [ws EXCEPT ![call[c].socket].late = TRUE]
       \/ /\ call[c].at = "clearing"
          /\ call' = [call EXCEPT ![c].at = "cleared"]
          /\ UNCHANGED ws
    /\ UNCHANGED <<app, stream, mic>>

\* getUserMedia
Granted(c) ==
    /\ Event /\ call[c].at = "asking"
    /\ stream' = [stream EXCEPT !.media = call[c].socket, !.context = "running"]
    /\ mic' = [mic EXCEPT ![call[c].socket] = "on"]
    /\ call' = [call EXCEPT ![c].at = "module"]
    /\ UNCHANGED <<app, ws>>

\* The worklet is there, and wired to the connection there is then.
Recording(c) ==
    /\ Event /\ call[c].at = "module" /\ stream.context # "none"
    /\ mic' = [s \in Sockets |-> IF s = stream.media /\ mic[s] = "on" THEN "wired" ELSE mic[s]]
    /\ app' = [app EXCEPT !.state = "recording"]
    /\ Ends(c)
    /\ UNCHANGED <<stream, ws>>

\* Fault: the microphone is left on.
NoMicrophoneKept(c) ==
    /\ Event /\ call[c].at \in {"asking", "module"}
    /\ ws' = ClosedByPage(call[c].socket, {"open", "connecting"})
    /\ stream' = [stream EXCEPT !.socket = None]
    /\ call' = [call EXCEPT ![c].at = "released"]
    /\ UNCHANGED <<app, mic>>

\* There is no microphone, or no worklet.
NoMicrophone(c) ==
    /\ Event /\ call[c].at \in {"asking", "module"}
    /\ ws' = ClosedByPage(call[c].socket, {"open", "connecting"})
    /\ ReleaseAudio(c, "start", [stream EXCEPT !.socket = None])
    /\ UNCHANGED app

ContextClosed(c) ==
    /\ Event /\ call[c].at = "releasing"
    /\ stream' = [stream EXCEPT !.media = None, !.context = "none"]
    /\ call' = [call EXCEPT ![c].at = "released"]
    /\ UNCHANGED <<app, ws, mic>>

\* A chunk of a microphone while the connection is being made, or is being closed by the
\* service; it is sent at once when that is open, and dropped when there is none.
Chunk ==
    /\ Event /\ \E s \in Sockets : mic[s] = "wired"
    /\ stream.socket # None /\ ~IsOpen(stream.socket)
    /\ LET kept == Append(stream.pending, [of |-> epoch, closing |-> ws[stream.socket].at = "closing"]) IN
       stream' = [stream EXCEPT !.pending = IF Len(kept) > MaxPending THEN Tail(kept) ELSE kept]
    /\ UNCHANGED <<app, call, ws, mic>>

\* The final that completes the session is shown, and close called.
FinalArrives(s) ==
    /\ Event /\ IsOpen(s) /\ ws[s].committed /\ ~ws[s].answered
    /\ ws' = [ws EXCEPT ![s].answered = TRUE]
    /\ IF stream.socket = s /\ stream.given /\ app.accept /\ app.state = "finalizing"
       THEN /\ app' = [app EXCEPT !.state = "idle"]
            /\ stream' = [stream EXCEPT !.socket = None, !.given = FALSE, !.pending = <<>>]
       ELSE UNCHANGED <<app, stream>>
    /\ UNCHANGED <<call, mic>>

\* The service has begun to close the current connection: readyState is CLOSING.
ServiceCloses(s) ==
    /\ Event /\ IsOpen(s) /\ stream.socket = s
    /\ ws' = [ws EXCEPT ![s].at = "closing"]
    /\ UNCHANGED <<app, stream, call, mic>>

\* The close event of the current connection, which the service has closed or which broke.
\* What was kept meanwhile stays for the next connection.
ClosedByService(s, c) ==
    /\ Event /\ ws[s].at \in {"open", "closing"} /\ stream.socket = s /\ Free(c)
    /\ ws' = [ws EXCEPT ![s] = Socket("closed")]
    /\ ReleaseAudio(c, "closed", [stream EXCEPT !.socket = None])
    /\ app' = [app EXCEPT !.state = IF stream.given THEN "idle" ELSE @]

\* Nobody looks at the close of a connection that is not.
Closed(s) ==
    /\ Event /\ ws[s].at \in {"open", "closing"} /\ stream.socket # s
    /\ ws' = [ws EXCEPT ![s] = Socket("closed")]
    /\ call' = [c \in Calls |-> CASE Waits(c, "connecting", s) -> [call[c] EXCEPT !.at = "failed"]
                                  [] Waits(c, "clearing", s) -> [call[c] EXCEPT !.at = "cleared"]
                                  [] OTHER -> call[c]]
    /\ UNCHANGED <<app, stream, mic>>

User(c) == StartCapture(c) \/ StopCapture(c) \/ CancelCapture(c) \/ ClearSession(c)
Waiting(c) == TimesOut(c) \/ Granted(c) \/ Recording(c) \/ NoMicrophone(c) \/ ContextClosed(c)

Next ==
    \/ ClearText
    \/ ClearNothing
    \/ Chunk
    \/ \E c \in Calls : User(c) \/ Microtask(c) \/ Waiting(c)
    \/ \E s \in Sockets : Opens(s) \/ ConnectFails(s) \/ FinalArrives(s) \/ ServiceCloses(s) \/ Closed(s)
    \/ \E s \in Sockets, c \in Calls : ClosedByService(s, c)

Spec == Init /\ [][Next]_vars

(* The page goes on, a connection is made or not, and one that is being closed is closed;  *)
(* and the service answers a commit, or its connection breaks (StreamSession!CommitEnds).  *)
Fairness ==
    /\ \A c \in Calls :
          /\ WF_vars(Microtask(c))
          /\ WF_vars(call[c].at = "module" /\ (Recording(c) \/ NoMicrophone(c)))
          /\ WF_vars(TimesOut(c)) /\ WF_vars(ContextClosed(c))
    /\ \A s \in Sockets :
          /\ WF_vars(ws[s].at = "closing" /\ (Closed(s) \/ \E c \in Calls : ClosedByService(s, c)))
          /\ WF_vars(/\ ws[s].committed /\ ws[s].at = "open"
                     /\ FinalArrives(s) \/ Closed(s) \/ \E c \in Calls : ClosedByService(s, c))

LiveSpec == Spec /\ Fairness

-----------------------------------------------------------------------------
(* Properties.                                                               *)

\* Every variable of the page keeps its type.
TypeOK ==
    /\ app \in [state : {"idle", "connecting", "recording", "finalizing"}, accept : BOOLEAN]
    /\ stream.socket \in Sockets \cup {None} /\ stream.media \in Sockets \cup {None}
    /\ stream.context \in {"none", "running", "closing"} /\ stream.given \in BOOLEAN
    /\ Len(stream.pending) <= MaxPending
    /\ \A i \in 1..Len(stream.pending) : stream.pending[i].of \in Nat /\ stream.pending[i].closing \in BOOLEAN
    /\ overlapped \in {"nothing", "handler", "start"}
    /\ \A c \in Calls : call[c].op \in {"none", "start", "stop", "cancel", "clear", "closed"}
    /\ \A s \in Sockets : ws[s].at \in {"none", "connecting", "open", "closing", "closed"}
                          /\ mic[s] \in {"off", "on", "wired"}

\* When capture is idle and every handler has come to its end, no microphone is on and no
\* session holds the service, however it ended; as long as no handler began while another
\* was waiting, and no connection came later than its ten seconds.
IdleIsQuiet ==
    app.state = "idle" /\ ~InFlight /\ overlapped = "nothing" =>
        \A s \in Sockets : mic[s] = "off" /\ (IsOpen(s) => ws[s].committed \/ ws[s].late)

\* Audio from before a clear, or of an earlier capture, goes to no session begun after it,
\* however the handlers overlap, as long as no start begins while another is in flight or
\* audio is being released: but for what was kept while the service was closing a
\* connection, which the next one gets.
NoStaleAudio == overlapped # "start" => \A s \in Sockets : ~ws[s].stale

\* A capture stopped while it has a session comes to an end, as long as no handler begins
\* while another waits.
StopEnds ==
    app.state = "finalizing" /\ stream.socket # None ~> app.state # "finalizing" \/ overlapped # "nothing"
=============================================================================
