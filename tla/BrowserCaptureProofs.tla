------------------------- MODULE BrowserCaptureProofs -------------------------
(***************************************************************************)
(* Proofs about capture in the browser, for any number of connections,     *)
(* calls in flight and chunks kept: no stale audio as long as no start     *)
(* overlaps another or a release, but for what was kept while the service  *)
(* closed a connection; and quiet when idle as long as no handlers do.     *)
(***************************************************************************)
EXTENDS BrowserCapture, TLAPS

-----------------------------------------------------------------------------
(* The inductive invariant.                                                  *)

Ops == {"none", "start", "stop", "cancel", "clear", "closed"}
Places == {"none", "connecting", "clearing", "asking", "module", "releasing"} \cup Micro
Starting == {"connecting", "connected", "failed", "asking"}
Releasing == {"releasing", "released", "rejected"}

AppType == [state : {"idle", "connecting", "recording", "finalizing"}, accept : BOOLEAN]
Kept == [of : Nat, closing : BOOLEAN]
StreamType == [given : BOOLEAN, socket : Sockets \cup {None}, media : Sockets \cup {None},
               context : {"none", "running", "closing"}, pending : Seq(Kept)]
CallType == [op : Ops, at : Places, socket : Sockets \cup {None}]
SocketType == [at : {"none", "connecting", "open", "closing", "closed"}, of : Nat,
               stale : BOOLEAN, committed : BOOLEAN, answered : BOOLEAN, late : BOOLEAN]

Types ==
    /\ app \in AppType /\ stream \in StreamType
    /\ call \in [Calls -> CallType]
    /\ ws \in [Sockets -> SocketType]
    /\ mic \in [Sockets -> {"off", "on", "wired"}]
    /\ epoch \in Nat /\ overlapped \in {"nothing", "handler", "start"}
    /\ Len(stream.pending) <= MaxPending

\* Where a call can be, after what it was called for.
Fits(r) ==
    /\ r.op = "none" <=> r.at = "none"
    /\ r.op = "start" => r.at \in Starting \cup {"module"} \cup Releasing
    /\ r.op \in {"stop", "cancel", "closed"} => r.at \in Releasing
    /\ r.op = "clear" => r.at \in {"connecting", "connected", "failed", "clearing", "cleared"}
    /\ r.at \in Starting \cup {"module", "clearing", "cleared"} => r.socket # None

CallsFit == \A c \in Calls : Fits(call[c])

\* A start begins when nothing else does: it is the only one, and capture is not on yet.
OneStart ==
    \A c \in Calls : call[c].op = "start" =>
        /\ app.state \in {"idle", "connecting"}
        /\ \A d \in Calls : call[d].op = "start" => c = d
        /\ call[c].at \in Starting => stream.context = "none"

\* The context follows the start that made it, and the one call that is closing it.
ContextFits ==
    /\ stream.context = "running" =>
          app.state = "recording" \/ \E c \in Calls : call[c].op = "start" /\ call[c].at = "module"
    /\ stream.context = "closing" => \E c \in Calls : call[c].at = "releasing"
    /\ \A c \in Calls :
          /\ call[c].at \in {"releasing", "rejected"} => stream.context = "closing"
          /\ call[c].at = "released" => stream.context = "none"
          /\ call[c].at = "releasing" => \A d \in Calls : call[d].at = "releasing" => c = d

\* No microphone is on but the one of the context, and none is wired but when recording.
MicrophoneFits ==
    \A s \in Sockets :
        /\ mic[s] # "off" => s = stream.media /\ stream.context = "running"
        /\ mic[s] = "wired" => app.state = "recording"

\* What is kept for a connection being made is of this start or clear, and gone once it is.
Unsent == \E i \in 1..Len(stream.pending) : ~stream.pending[i].closing
Made(s) == s # None /\ ws[s].at \in {"open", "closing"}
PendingFresh ==
    /\ \A i \in 1..Len(stream.pending) : ~stream.pending[i].closing => stream.pending[i].of = epoch
    /\ \A s \in Sockets : ws[s].of <= epoch
    /\ Unsent => app.state \in {"recording", "finalizing"} /\ ~Made(stream.socket)
    /\ \A s \in Sockets : ~ws[s].stale

\* Without overlaps: one handler at a time, and it knows the connection there is.
HandlerOps == {"start", "stop", "cancel", "clear"}
HandlerFits(c) ==
    /\ call[c].op = "clear" => app.state = "recording"
    /\ call[c].at = "connecting" => ws[call[c].socket].at = "connecting"
    /\ call[c].at \in {"connecting", "connected", "failed"} => stream.socket = call[c].socket
    /\ call[c].at \in {"asking", "module"} => stream.socket \in {None, call[c].socket}
    /\ call[c].at \in {"clearing", "cleared"} => stream.socket = None
    /\ call[c].at \in Releasing /\ call[c].op \in {"start", "cancel"} => stream.socket = None
    /\ call[c].at = "failed" => ws[call[c].socket].late \/ ws[call[c].socket].at = "closed"

OneHandler ==
    \A c \in Calls :
        /\ HandlerFits(c)
        /\ call[c].op \in HandlerOps => \A d \in Calls : call[d].op \in HandlerOps => c = d

\* Every connection is the current one, about to be closed by the service, or late.
NoneForgotten ==
    /\ app.state = "idle" => stream.socket = None
    /\ \A s \in Sockets :
          /\ ws[s].at = "connecting" =>
                ws[s].late \/ \E c \in Calls : call[c].at = "connecting" /\ call[c].socket = s
          /\ ws[s].at = "open" => s = stream.socket \/ ws[s].committed \/ ws[s].late

Starts == OneStart /\ ContextFits /\ MicrophoneFits /\ PendingFresh
Handlers == OneHandler /\ NoneForgotten

IInv ==
    /\ Types /\ CallsFit
    /\ overlapped # "start" => Starts
    /\ overlapped = "nothing" => Handlers

-----------------------------------------------------------------------------
(* What the parts of the state keep.                                         *)

\* A call that is made, goes on or ends leaves the others alone.
LEMMA CallSet ==
  ASSUME call \in [Calls -> CallType], CallsFit, NEW c \in Calls, NEW r \in CallType, Fits(r),
         call' = [call EXCEPT ![c] = r]
  PROVE  /\ call' \in [Calls -> CallType] /\ CallsFit' /\ call'[c] = r
         /\ \A d \in Calls \ {c} : call'[d] = call[d]
<1>1. call' \in [Calls -> CallType] /\ call'[c] = r /\ \A d \in Calls \ {c} : call'[d] = call[d]
  <2> HIDE DEF Calls, CallType
  <2> QED OBVIOUS
<1>2. \A d \in Calls : Fits(call[d]) => Fits(call'[d])
  BY <1>1
<1> QED BY <1>1, <1>2 DEF CallsFit

\* A connection that changes leaves the others alone.
LEMMA SocketSet ==
  ASSUME ws \in [Sockets -> SocketType], NEW s \in Sockets, NEW r \in SocketType,
         ws' = [ws EXCEPT ![s] = r]
  PROVE  /\ ws' \in [Sockets -> SocketType] /\ ws'[s] = r
         /\ \A t \in Sockets \ {s} : ws'[t] = ws[t]
  OBVIOUS

LEMMA NoCallFits == NoCall \in CallType /\ Fits(NoCall) /\ NoCall.op = "none" /\ NoCall.at = "none"
  BY DEF NoCall, CallType, Ops, Places, None, Fits, Starting, Releasing

LEMMA ClosedSocket ==
  ASSUME NEW at \in {"none", "connecting", "open", "closing", "closed"}
  PROVE  /\ Socket(at) \in SocketType /\ Socket(at).at = at /\ Socket(at).of = 0
         /\ Socket(at).stale = FALSE
  BY DEF Socket, SocketType

LEMMA StreamFields ==
  ASSUME stream \in StreamType
  PROVE  /\ stream.given \in BOOLEAN /\ stream.socket \in Sockets \cup {None}
         /\ stream.media \in Sockets \cup {None} /\ stream.context \in {"none", "running", "closing"}
         /\ stream.pending \in Seq(Kept)
  BY DEF StreamType

LEMMA AppFields ==
  ASSUME app \in AppType
  PROVE  app.state \in {"idle", "connecting", "recording", "finalizing"} /\ app.accept \in BOOLEAN
  BY DEF AppType

\* What is left of the invariants about starts when calls other than starts come and go.
LEMMA OneStartKept ==
  ASSUME OneStart,
         \A d \in Calls : call'[d].op = "start" =>
            /\ call[d].op = "start"
            /\ call'[d].at \in Starting => call[d].at \in Starting,
         stream.context = "none" => stream'.context = "none",
         app.state \in {"idle", "connecting"} => app'.state \in {"idle", "connecting"}
  PROVE  OneStart'
  BY DEF OneStart

LEMMA SocketCommits ==
  ASSUME NEW w \in SocketType
  PROVE  LET r == [w EXCEPT !.committed = TRUE]
         IN  /\ r \in SocketType /\ r.of = w.of /\ r.stale = w.stale /\ r.committed = TRUE
             /\ r.late = w.late /\ r.at = w.at
  BY DEF SocketType

\* A connection the page closes keeps all but its state.
LEMMA PageCloses ==
  ASSUME ws \in [Sockets -> SocketType], NEW s \in Sockets \cup {None}, NEW states,
         ws' = ClosedByPage(s, states)
  PROVE  /\ ws' \in [Sockets -> SocketType]
         /\ \A t \in Sockets :
               /\ ws'[t].of = ws[t].of /\ ws'[t].stale = ws[t].stale
               /\ ws'[t].committed = ws[t].committed /\ ws'[t].late = ws[t].late
               /\ ws'[t].at = IF t = s /\ ws[t].at \in states THEN "closing" ELSE ws[t].at
<1>1. \A t \in Sockets : ws'[t] = IF t = s /\ ws[t].at \in states THEN [ws[t] EXCEPT !.at = "closing"] ELSE ws[t]
  BY DEF ClosedByPage
<1>2. \A t \in Sockets : [ws[t] EXCEPT !.at = "closing"] \in SocketType
  BY DEF SocketType
<1>3. \A t \in Sockets : ws'[t] \in SocketType
  BY <1>1, <1>2
<1>4. ws' \in [Sockets -> SocketType]
  BY <1>3 DEF ClosedByPage
<1>5. \A t \in Sockets : LET q == [ws[t] EXCEPT !.at = "closing"]
                         IN  /\ q.of = ws[t].of /\ q.stale = ws[t].stale
                             /\ q.committed = ws[t].committed /\ q.late = ws[t].late /\ q.at = "closing"
  BY DEF SocketType
<1> QED BY <1>1, <1>4, <1>5

\* releaseAudio, for a call that was not already waiting for the context to close.
LEMMA AudioReleased ==
  ASSUME Types, CallsFit, NEW c \in Calls, NEW op \in {"start", "stop", "cancel", "closed"},
         NEW now \in StreamType, now.context = stream.context, now.media = stream.media,
         ReleaseAudio(c, op, now)
  PROVE  /\ call' \in [Calls -> CallType] /\ CallsFit'
         /\ \A d \in Calls \ {c} : call'[d] = call[d]
         /\ call'[c].op = op /\ call'[c].at \in Releasing
         /\ stream.context = "running" => call'[c].at = "releasing" /\ stream'.context = "closing"
         /\ stream.context = "closing" => call'[c].at = "rejected" /\ stream'.context = "closing"
         /\ stream.context = "none" => call'[c].at = "released" /\ stream'.context = "none"
         /\ stream' \in StreamType /\ stream'.given = now.given /\ stream'.socket = now.socket
         /\ stream'.media = now.media /\ stream'.pending = now.pending
         /\ mic' \in [Sockets -> {"off", "on", "wired"}]
         /\ \A s \in Sockets : mic'[s] = IF s = stream.media THEN "off" ELSE mic[s]
<1>0. stream.context \in {"none", "running", "closing"}
  BY StreamFields DEF Types
<1> DEFINE at == CASE stream.context = "running" -> "releasing"
                   [] stream.context = "closing" -> "rejected"
                   [] stream.context = "none" -> "released"
           r == [op |-> op, socket |-> None, at |-> at]
<1>1. /\ stream.context = "running" => at = "releasing"
      /\ stream.context = "closing" => at = "rejected"
      /\ stream.context = "none" => at = "released"
      /\ at \in Releasing
  BY <1>0 DEF Releasing
<1>2. call' = [call EXCEPT ![c] = r]
  BY DEF ReleaseAudio
<1> HIDE DEF at
<1>3. r \in CallType /\ Fits(r) /\ r.op = op /\ r.at = at
  BY <1>1 DEF CallType, Ops, Places, Micro, Fits, Starting, Releasing
<1> HIDE DEF r
<1>4. /\ call' \in [Calls -> CallType] /\ CallsFit' /\ call'[c] = r
      /\ \A d \in Calls \ {c} : call'[d] = call[d]
  BY <1>2, <1>3, CallSet DEF Types
<1>5. /\ stream' \in StreamType /\ stream'.given = now.given /\ stream'.socket = now.socket
      /\ stream'.media = now.media /\ stream'.pending = now.pending
      /\ stream'.context = IF stream.context = "running" THEN "closing" ELSE stream.context
  BY DEF ReleaseAudio, StreamType
<1>6. /\ mic' \in [Sockets -> {"off", "on", "wired"}]
      /\ \A s \in Sockets : mic'[s] = IF s = stream.media THEN "off" ELSE mic[s]
  BY DEF ReleaseAudio, Types
<1> QED BY <1>0, <1>1, <1>3, <1>4, <1>5, <1>6

\* After it no microphone is on, and the context is closing or gone.
LEMMA AudioOff ==
  ASSUME Types, ContextFits, MicrophoneFits, NEW c \in Calls, call[c].at # "releasing",
         \A d \in Calls \ {c} : call'[d] = call[d],
         stream.context = "running" => call'[c].at = "releasing" /\ stream'.context = "closing",
         stream.context = "closing" => call'[c].at = "rejected" /\ stream'.context = "closing",
         stream.context = "none" => call'[c].at = "released" /\ stream'.context = "none",
         \A s \in Sockets : mic'[s] = IF s = stream.media THEN "off" ELSE mic[s]
  PROVE  ContextFits' /\ MicrophoneFits'
<1>1. stream.context \in {"none", "running", "closing"}
  BY StreamFields DEF Types
<1>2. ContextFits'
  BY <1>1 DEF ContextFits
<1>3. MicrophoneFits'
  BY DEF MicrophoneFits
<1> QED BY <1>2, <1>3

\* What is kept stays fresh while it is kept, or is let go of.
LEMMA PendingKept ==
  ASSUME PendingFresh, Types,
         epoch' = epoch,
         \A s \in Sockets : ws'[s].of <= epoch /\ (ws'[s].stale => ws[s].stale),
         \/ stream'.pending = <<>>
         \/ /\ stream'.pending = stream.pending
            /\ Unsent => app'.state \in {"recording", "finalizing"} /\ ~(Made(stream.socket)')
  PROVE  PendingFresh'
<1>1. CASE /\ stream'.pending = stream.pending
           /\ Unsent => app'.state \in {"recording", "finalizing"} /\ ~(Made(stream.socket)')
  <2>1. Unsent' <=> Unsent BY <1>1 DEF Unsent
  <2> QED BY <1>1, <2>1 DEF PendingFresh
<1>2. CASE stream'.pending = <<>>
  <2>1. \A i \in 1..Len(stream'.pending) : FALSE BY <1>2
  <2>2. ~Unsent' BY <2>1 DEF Unsent
  <2> QED BY <2>1, <2>2 DEF PendingFresh
<1> QED BY <1>1, <1>2

\* While a handler is under way the other calls wait for a context only.
LEMMA HandlerAlone ==
  ASSUME Types, OneHandler, NEW c \in Calls, call[c].op \in HandlerOps
  PROVE  \A d \in Calls \ {c} : call[d].op \in {"none", "closed"}
  BY DEF Types, CallType, Ops, OneHandler, HandlerOps

\* It is enough to look at the one handler there is.
LEMMA OnlyHandler ==
  ASSUME CallsFit', NEW c \in Calls, HandlerFits(c)',
         \A d \in Calls \ {c} : call'[d].op \in {"none", "closed"}
  PROVE  OneHandler'
<1>1. \A d \in Calls \ {c} : HandlerFits(d)'
  BY DEF CallsFit, Fits, HandlerFits, Starting, Releasing
<1>2. \A d \in Calls \ {c} : call'[d].op \notin HandlerOps
  BY DEF HandlerOps
<1> QED BY <1>1, <1>2 DEF OneHandler

LEMMA NoHandler ==
  ASSUME CallsFit', \A d \in Calls : call'[d].op \in {"none", "closed"}
  PROVE  OneHandler'
<1>1. \A d \in Calls : HandlerFits(d)'
  BY DEF CallsFit, Fits, HandlerFits, Starting, Releasing
<1> QED BY <1>1 DEF OneHandler, HandlerOps

\* A call that ends.
LEMMA CallEnds ==
  ASSUME Types, CallsFit, NEW c \in Calls, Ends(c)
  PROVE  /\ call' \in [Calls -> CallType] /\ CallsFit'
         /\ call'[c].op = "none" /\ call'[c].at = "none"
         /\ \A d \in Calls \ {c} : call'[d] = call[d]
<1>1. call' = [call EXCEPT ![c] = NoCall]
  BY DEF Ends
<1> QED BY <1>1, NoCallFits, CallSet DEF Types

LEMMA InitInvariant == Init => IInv
<1> SUFFICES ASSUME Init PROVE IInv
  OBVIOUS
<1> USE DEF Init
<1>1. <<>> \in Seq(Kept) /\ Len(<<>>) = 0
  OBVIOUS
<1>2. ws \in [Sockets -> SocketType] /\ \A s \in Sockets : ws[s].at = "none" /\ ws[s].of = 0 /\ ~ws[s].stale
  BY DEF Socket, SocketType
<1>3. call \in [Calls -> CallType] /\ \A c \in Calls : call[c] = NoCall
  BY NoCallFits
<1>4. Types
  BY <1>1, <1>2, <1>3, BoundsAssumption DEF Types, AppType, StreamType, None
<1>5. CallsFit
  BY <1>3, NoCallFits DEF CallsFit
<1>6. Starts
  <2>1. \A i \in 1..Len(stream.pending) : FALSE
    OBVIOUS
  <2>2. OneStart /\ ContextFits /\ MicrophoneFits
    BY <1>2, <1>3, NoCallFits DEF OneStart, ContextFits, MicrophoneFits, Starting
  <2>3. PendingFresh
    BY <1>2, <2>1 DEF PendingFresh, Unsent
  <2> QED BY <2>2, <2>3 DEF Starts
<1>7. Handlers
  BY <1>2, <1>3, NoCallFits DEF Handlers, OneHandler, HandlerOps, HandlerFits, NoneForgotten, Releasing
<1> QED BY <1>4, <1>5, <1>6, <1>7 DEF IInv

-----------------------------------------------------------------------------
(* What follows an await.                                                    *)

LEMMA ConnectedInvariant == \A c \in Calls : IInv /\ Connected(c) => IInv'
<1> SUFFICES ASSUME NEW c \in Calls, IInv, Connected(c) PROVE IInv'
  OBVIOUS
<1>0. Types /\ CallsFit
  BY DEF IInv
<1>1. call[c].at = "connected" /\ call[c].op \in {"start", "clear"} /\ UNCHANGED <<stream, ws, mic, epoch, overlapped>>
  BY <1>0 DEF Connected, Going, Types, CallsFit, Fits, CallType, Ops, Starting, Releasing
<1>2. CASE call[c].op = "start"
  <2> DEFINE r == [call[c] EXCEPT !.at = "asking"]
  <2>1. r \in CallType /\ Fits(r) /\ r.at = "asking" /\ r.op = "start" /\ r.socket = call[c].socket
    BY <1>0, <1>1, <1>2 DEF Types, CallType, CallsFit, Fits, Starting, Releasing, Places
  <2>2. call' = [call EXCEPT ![c] = r] /\ UNCHANGED app
    BY <1>2 DEF Connected
  <2> HIDE DEF r
  <2>3. /\ call' \in [Calls -> CallType] /\ CallsFit' /\ call'[c] = r
        /\ \A d \in Calls \ {c} : call'[d] = call[d]
    BY <1>0, <2>1, <2>2, CallSet DEF Types
  <2>4. Types' /\ CallsFit'
    BY <1>0, <1>1, <2>2, <2>3 DEF Types
  <2>5. ASSUME Starts PROVE Starts'
    <3>1. OneStart'
      BY <1>1, <1>2, <2>1, <2>2, <2>3, <2>5 DEF Starts, OneStart, Starting
    <3>2. ContextFits'
      BY <1>1, <1>2, <2>1, <2>2, <2>3, <2>5 DEF Starts, ContextFits
    <3>3. MicrophoneFits' /\ PendingFresh'
      BY <1>1, <2>2, <2>5 DEF Starts, MicrophoneFits, PendingFresh, Unsent, Made
    <3> QED BY <3>1, <3>2, <3>3 DEF Starts
  <2>6. ASSUME Handlers PROVE Handlers'
    <3>1. OneHandler'
      BY <1>1, <1>2, <2>1, <2>2, <2>3, <2>6 DEF Handlers, OneHandler, HandlerOps, HandlerFits, Releasing
    <3>2. NoneForgotten'
      BY <1>1, <1>2, <2>1, <2>2, <2>3, <2>6 DEF Handlers, NoneForgotten
    <3> QED BY <3>1, <3>2 DEF Handlers
  <2> QED BY <1>1, <2>4, <2>5, <2>6 DEF IInv
<1>3. CASE call[c].op = "clear"
  <2>1. call' = [call EXCEPT ![c] = NoCall] /\ app' = [app EXCEPT !.accept = TRUE]
    BY <1>3 DEF Connected, Ends
  <2>2. app' \in AppType /\ app'.state = app.state
    BY <1>0, <2>1 DEF Types, AppType
  <2>3. /\ call' \in [Calls -> CallType] /\ CallsFit' /\ call'[c] = NoCall
        /\ \A d \in Calls \ {c} : call'[d] = call[d]
    BY <1>0, <2>1, CallSet, NoCallFits DEF Types
  <2>4. Types' /\ CallsFit'
    BY <1>0, <1>1, <2>2, <2>3 DEF Types
  <2>5. ASSUME Starts PROVE Starts'
    <3>1. OneStart'
      BY <1>1, <1>3, <2>2, <2>3, <2>5, NoCallFits DEF Starts, OneStart, Starting
    <3>2. ContextFits'
      BY <1>1, <1>3, <2>2, <2>3, <2>5, NoCallFits DEF Starts, ContextFits
    <3>3. MicrophoneFits' /\ PendingFresh'
      BY <1>1, <2>2, <2>5 DEF Starts, MicrophoneFits, PendingFresh, Unsent, Made
    <3> QED BY <3>1, <3>2, <3>3 DEF Starts
  <2>6. ASSUME Handlers PROVE Handlers'
    <3>1. OneHandler'
      BY <1>1, <1>3, <2>2, <2>3, <2>6, NoCallFits DEF Handlers, OneHandler, HandlerOps, HandlerFits, Releasing
    <3>2. NoneForgotten'
      BY <1>1, <1>3, <2>2, <2>3, <2>6, NoCallFits DEF Handlers, NoneForgotten
    <3> QED BY <3>1, <3>2 DEF Handlers
  <2> QED BY <1>1, <2>4, <2>5, <2>6 DEF IInv
<1> QED BY <1>1, <1>2, <1>3

LEMMA StartFailsInvariant == \A c \in Calls : IInv /\ StartFails(c) => IInv'
<1> SUFFICES ASSUME NEW c \in Calls, IInv, StartFails(c) PROVE IInv'
  OBVIOUS
<1>0. Types /\ CallsFit
  BY DEF IInv
<1>1. /\ call[c].at = "failed" /\ call[c].op = "start" /\ Ends(c)
      /\ app' = [state |-> "idle", accept |-> FALSE]
      /\ UNCHANGED <<ws, mic, epoch, overlapped>>
  BY DEF StartFails, Going
<1>2. /\ call' \in [Calls -> CallType] /\ CallsFit'
      /\ call'[c].op = "none" /\ call'[c].at = "none"
      /\ \A d \in Calls \ {c} : call'[d] = call[d]
  BY <1>0, <1>1, CallEnds
<1>3. /\ stream' \in StreamType /\ stream'.media = stream.media /\ stream'.context = stream.context
      /\ stream'.pending = stream.pending
      /\ stream'.socket = IF stream.socket = call[c].socket THEN None ELSE stream.socket
  BY <1>0 DEF StartFails, Types, StreamType
<1>4. app' \in AppType /\ app'.state = "idle"
  BY <1>1 DEF AppType
<1>5. Types'
  BY <1>0, <1>1, <1>2, <1>3, <1>4 DEF Types
<1>6. ASSUME Starts PROVE Starts'
  <2>1. stream.context = "none" /\ app.state \in {"idle", "connecting"}
    BY <1>1, <1>6 DEF Starts, OneStart, Starting
  <2>2. ~Unsent
    BY <2>1, <1>6 DEF Starts, PendingFresh
  <2>3. OneStart'
    BY <1>2, <1>3, <1>4, <1>6, OneStartKept DEF Starts
  <2>4. ContextFits' /\ MicrophoneFits'
    BY <1>1, <1>2, <1>3, <1>6, <2>1 DEF Starts, ContextFits, MicrophoneFits
  <2>5. PendingFresh'
    BY <1>0, <1>1, <1>3, <1>6, <2>2, PendingKept DEF Starts, PendingFresh
  <2> QED BY <2>3, <2>4, <2>5 DEF Starts
<1>7. ASSUME Handlers PROVE Handlers'
  <2>1. /\ stream.socket = call[c].socket /\ stream'.socket = None
        /\ ws[stream.socket].late \/ ws[stream.socket].at = "closed"
    BY <1>1, <1>3, <1>7 DEF Handlers, OneHandler, HandlerFits
  <2>2. OneHandler'
    BY <1>0, <1>1, <1>2, <1>7, HandlerAlone, NoHandler DEF Handlers, HandlerOps
  <2>3. NoneForgotten'
    BY <1>1, <1>2, <1>4, <1>7, <2>1 DEF Handlers, NoneForgotten
  <2> QED BY <2>2, <2>3 DEF Handlers
<1> QED BY <1>1, <1>2, <1>5, <1>6, <1>7 DEF IInv

LEMMA ClearFailsInvariant == \A c \in Calls : IInv /\ ClearFails(c) => IInv'
<1> SUFFICES ASSUME NEW c \in Calls, IInv, ClearFails(c) PROVE IInv'
  OBVIOUS
<1>0. Types /\ CallsFit
  BY DEF IInv
<1> DEFINE other == IF stream.socket = call[c].socket THEN None ELSE stream.socket
           now == [stream EXCEPT !.socket = None]
<1>1. /\ call[c].at = "failed" /\ call[c].op = "clear"
      /\ ws' = ClosedByPage(other, {"open"}) /\ ReleaseAudio(c, "cancel", now)
      /\ UNCHANGED <<app, epoch, overlapped>>
  BY DEF ClearFails, Going
<1>2. /\ now \in StreamType /\ now.context = stream.context /\ now.media = stream.media
      /\ now.pending = stream.pending /\ now.socket = None
  BY <1>0 DEF Types, StreamType
<1>3. other \in Sockets \cup {None}
  BY <1>0, StreamFields DEF Types
<1> HIDE DEF now, other
<1>4. /\ call' \in [Calls -> CallType] /\ CallsFit'
      /\ \A d \in Calls \ {c} : call'[d] = call[d]
      /\ call'[c].op = "cancel" /\ call'[c].at \in Releasing
      /\ stream.context = "running" => call'[c].at = "releasing" /\ stream'.context = "closing"
      /\ stream.context = "closing" => call'[c].at = "rejected" /\ stream'.context = "closing"
      /\ stream.context = "none" => call'[c].at = "released" /\ stream'.context = "none"
      /\ stream' \in StreamType /\ stream'.socket = None
      /\ stream'.media = stream.media /\ stream'.pending = stream.pending
      /\ mic' \in [Sockets -> {"off", "on", "wired"}]
      /\ \A s \in Sockets : mic'[s] = IF s = stream.media THEN "off" ELSE mic[s]
  BY <1>0, <1>1, <1>2, AudioReleased
<1>5. /\ ws' \in [Sockets -> SocketType]
      /\ \A t \in Sockets :
            /\ ws'[t].of = ws[t].of /\ ws'[t].stale = ws[t].stale
            /\ ws'[t].committed = ws[t].committed /\ ws'[t].late = ws[t].late
            /\ ws'[t].at = IF t = other /\ ws[t].at \in {"open"} THEN "closing" ELSE ws[t].at
  BY <1>0, <1>1, <1>3, PageCloses DEF Types
<1>6. Types'
  BY <1>0, <1>1, <1>4, <1>5 DEF Types
<1>7. ASSUME Starts PROVE Starts'
  <2>1. OneStart'
    BY <1>1, <1>4, <1>7, OneStartKept DEF Starts
  <2>2. ContextFits' /\ MicrophoneFits'
    BY <1>0, <1>1, <1>4, <1>7, AudioOff DEF Starts
  <2>3. ~(Made(stream.socket)')
    BY <1>4 DEF Made
  <2>4. PendingFresh'
    BY <1>0, <1>1, <1>4, <1>5, <1>7, <2>3, PendingKept DEF Starts, PendingFresh
  <2> QED BY <2>1, <2>2, <2>4 DEF Starts
<1>8. ASSUME Handlers PROVE Handlers'
  <2>1. /\ stream.socket = call[c].socket
        /\ ws[stream.socket].late \/ ws[stream.socket].at = "closed"
    BY <1>1, <1>8 DEF Handlers, OneHandler, HandlerFits
  <2>2. HandlerFits(c)'
    BY <1>4 DEF HandlerFits, Releasing
  <2>3. OneHandler'
    BY <1>0, <1>1, <1>4, <1>8, <2>2, HandlerAlone, OnlyHandler DEF Handlers, HandlerOps
  <2>4. NoneForgotten'
    BY <1>1, <1>4, <1>5, <1>8, <2>1 DEF Handlers, NoneForgotten
  <2> QED BY <2>3, <2>4 DEF Handlers
<1> QED BY <1>1, <1>4, <1>6, <1>7, <1>8 DEF IInv

LEMMA StopCommitsInvariant == \A c \in Calls : IInv /\ StopCommits(c) => IInv'
<1> SUFFICES ASSUME NEW c \in Calls, IInv, StopCommits(c) PROVE IInv'
  OBVIOUS
<1>0. Types /\ CallsFit
  BY DEF IInv
<1>1. /\ call[c].at = "released" /\ call[c].op = "stop" /\ Ends(c)
      /\ UNCHANGED <<app, stream, mic, epoch, overlapped>>
  BY DEF StopCommits, Going
<1>2. /\ call' \in [Calls -> CallType] /\ CallsFit'
      /\ call'[c].op = "none" /\ call'[c].at = "none"
      /\ \A d \in Calls \ {c} : call'[d] = call[d]
  BY <1>0, <1>1, CallEnds
<1>3. /\ ws' \in [Sockets -> SocketType]
      /\ \A t \in Sockets :
            /\ ws'[t].of = ws[t].of /\ ws'[t].stale = ws[t].stale
            /\ ws[t].committed => ws'[t].committed
            /\ ws'[t].late = ws[t].late /\ ws'[t].at = ws[t].at
  <2>1. CASE ws' = ws
    BY <1>0, <2>1 DEF Types
  <2>2. CASE IsOpen(stream.socket) /\ ws' = [ws EXCEPT ![stream.socket].committed = TRUE]
    <3>1. stream.socket \in Sockets
      BY <1>0, <2>2, StreamFields DEF Types, IsOpen
    <3> DEFINE r == [ws[stream.socket] EXCEPT !.committed = TRUE]
    <3>2. /\ r \in SocketType /\ r.of = ws[stream.socket].of /\ r.stale = ws[stream.socket].stale
          /\ r.committed = TRUE /\ r.late = ws[stream.socket].late /\ r.at = ws[stream.socket].at
      <4>1. ws[stream.socket] \in SocketType
        BY <1>0, <3>1 DEF Types
      <4> QED BY <4>1, SocketCommits
    <3>3. ws' = [ws EXCEPT ![stream.socket] = r]
      BY <2>2
    <3> HIDE DEF r
    <3>4. /\ ws' \in [Sockets -> SocketType] /\ ws'[stream.socket] = r
          /\ \A t \in Sockets \ {stream.socket} : ws'[t] = ws[t]
      BY <1>0, <3>1, <3>2, <3>3, SocketSet DEF Types
    <3> QED BY <3>2, <3>4
  <2> QED BY <2>1, <2>2 DEF StopCommits
<1>4. Types'
  BY <1>0, <1>1, <1>2, <1>3 DEF Types
<1>5. ASSUME Starts PROVE Starts'
  <2>1. OneStart'
    BY <1>1, <1>2, <1>5, OneStartKept DEF Starts
  <2>2. ContextFits' /\ MicrophoneFits'
    BY <1>1, <1>2, <1>5 DEF Starts, ContextFits, MicrophoneFits
  <2>3. PendingFresh'
    BY <1>0, <1>1, <1>3, <1>5 DEF Starts, PendingFresh, Unsent, Made, Types, StreamType
  <2> QED BY <2>1, <2>2, <2>3 DEF Starts
<1>6. ASSUME Handlers PROVE Handlers'
  <2>1. OneHandler'
    BY <1>0, <1>1, <1>2, <1>6, HandlerAlone, NoHandler DEF Handlers, HandlerOps
  <2>2. NoneForgotten'
    BY <1>1, <1>2, <1>3, <1>6 DEF Handlers, NoneForgotten
  <2> QED BY <2>1, <2>2 DEF Handlers
<1> QED BY <1>1, <1>2, <1>4, <1>5, <1>6 DEF IInv

LEMMA CancelEndsInvariant == \A c \in Calls : IInv /\ CancelEnds(c) => IInv'
<1> SUFFICES ASSUME NEW c \in Calls, IInv, CancelEnds(c) PROVE IInv'
  OBVIOUS
<1>0. Types /\ CallsFit
  BY DEF IInv
<1>1. /\ call[c].at = "released" /\ call[c].op = "cancel" /\ Ends(c)
      /\ UNCHANGED <<ws, mic, epoch, overlapped>>
  BY DEF CancelEnds, Going
<1>2. /\ call' \in [Calls -> CallType] /\ CallsFit'
      /\ call'[c].op = "none" /\ call'[c].at = "none"
      /\ \A d \in Calls \ {c} : call'[d] = call[d]
  BY <1>0, <1>1, CallEnds
<1>3. /\ stream' \in StreamType /\ stream'.media = stream.media /\ stream'.context = stream.context
      /\ stream'.pending = <<>> /\ stream'.socket = stream.socket
      /\ Len(stream'.pending) = 0
  <2>1. <<>> \in Seq(Kept) /\ Len(<<>>) = 0
    OBVIOUS
  <2> HIDE DEF Sockets
  <2> QED BY <1>0, <2>1 DEF CancelEnds, Types, StreamType
<1>4. app' \in AppType /\ app'.state = "idle"
  BY <1>0 DEF CancelEnds, Types, AppType
<1>5. Types'
  BY <1>0, <1>1, <1>2, <1>3, <1>4, BoundsAssumption DEF Types
<1>6. ASSUME Starts PROVE Starts'
  <2>1. stream.context = "none"
    BY <1>1, <1>6 DEF Starts, ContextFits
  <2>2. OneStart'
    BY <1>2, <1>3, <1>4, <1>6, OneStartKept DEF Starts
  <2>3. ContextFits' /\ MicrophoneFits'
    BY <1>1, <1>2, <1>3, <1>6, <2>1 DEF Starts, ContextFits, MicrophoneFits
  <2>4. PendingFresh'
    BY <1>0, <1>1, <1>3, <1>6, PendingKept DEF Starts, PendingFresh
  <2> QED BY <2>2, <2>3, <2>4 DEF Starts
<1>7. ASSUME Handlers PROVE Handlers'
  <2>1. stream'.socket = None
    BY <1>1, <1>3, <1>7 DEF Handlers, OneHandler, HandlerFits, Releasing, Micro
  <2>2. OneHandler'
    BY <1>0, <1>1, <1>2, <1>7, HandlerAlone, NoHandler DEF Handlers, HandlerOps
  <2>3. NoneForgotten'
    BY <1>1, <1>2, <1>3, <1>4, <1>7, <2>1 DEF Handlers, NoneForgotten
  <2> QED BY <2>2, <2>3 DEF Handlers
<1> QED BY <1>1, <1>2, <1>5, <1>6, <1>7 DEF IInv

LEMMA StartEndsInvariant == \A c \in Calls : IInv /\ StartEnds(c) => IInv'
<1> SUFFICES ASSUME NEW c \in Calls, IInv, StartEnds(c) PROVE IInv'
  OBVIOUS
<1>0. Types /\ CallsFit
  BY DEF IInv
<1>1. /\ call[c].at \in {"released", "rejected"} /\ call[c].op = "start" /\ Ends(c)
      /\ app' = [state |-> "idle", accept |-> FALSE]
      /\ UNCHANGED <<stream, ws, mic, epoch, overlapped>>
  BY DEF StartEnds, Going
<1>2. /\ call' \in [Calls -> CallType] /\ CallsFit'
      /\ call'[c].op = "none" /\ call'[c].at = "none"
      /\ \A d \in Calls \ {c} : call'[d] = call[d]
  BY <1>0, <1>1, CallEnds
<1>3. app' \in AppType /\ app'.state = "idle"
  BY <1>1 DEF AppType
<1>4. Types'
  BY <1>0, <1>1, <1>2, <1>3 DEF Types
<1>5. ASSUME Starts PROVE Starts'
  <2>1. stream.context # "running" /\ app.state \in {"idle", "connecting"}
    BY <1>1, <1>5 DEF Starts, OneStart, ContextFits
  <2>2. ~Unsent
    BY <2>1, <1>5 DEF Starts, PendingFresh
  <2>3. OneStart'
    BY <1>1, <1>2, <1>3, <1>5, OneStartKept DEF Starts
  <2>4. ContextFits' /\ MicrophoneFits'
    BY <1>1, <1>2, <1>5, <2>1 DEF Starts, ContextFits, MicrophoneFits
  <2>5. PendingFresh'
    BY <1>0, <1>1, <1>5, <2>2, PendingKept DEF Starts, PendingFresh
  <2> QED BY <2>3, <2>4, <2>5 DEF Starts
<1>6. ASSUME Handlers PROVE Handlers'
  <2>1. stream.socket = None
    BY <1>1, <1>6 DEF Handlers, OneHandler, HandlerFits, Releasing
  <2>2. OneHandler'
    BY <1>0, <1>1, <1>2, <1>6, HandlerAlone, NoHandler DEF Handlers, HandlerOps
  <2>3. NoneForgotten'
    BY <1>1, <1>2, <1>3, <1>6, <2>1 DEF Handlers, NoneForgotten
  <2> QED BY <2>2, <2>3 DEF Handlers
<1> QED BY <1>1, <1>2, <1>4, <1>5, <1>6 DEF IInv

LEMMA NothingFollowsInvariant == \A c \in Calls : IInv /\ NothingFollows(c) => IInv'
<1> SUFFICES ASSUME NEW c \in Calls, IInv, NothingFollows(c) PROVE IInv'
  OBVIOUS
<1>0. Types /\ CallsFit
  BY DEF IInv
<1>1. /\ call[c].at \in {"released", "rejected"} /\ Ends(c)
      /\ UNCHANGED <<app, stream, ws, mic, epoch, overlapped>>
  BY DEF NothingFollows, Going
<1>2. /\ call' \in [Calls -> CallType] /\ CallsFit'
      /\ call'[c].op = "none" /\ call'[c].at = "none"
      /\ \A d \in Calls \ {c} : call'[d] = call[d]
  BY <1>0, <1>1, CallEnds
<1>3. Types'
  BY <1>0, <1>1, <1>2 DEF Types
<1>4. ASSUME Starts PROVE Starts'
  <2>1. OneStart'
    BY <1>1, <1>2, <1>4, OneStartKept DEF Starts
  <2>2. ContextFits' /\ MicrophoneFits'
    BY <1>1, <1>2, <1>4 DEF Starts, ContextFits, MicrophoneFits
  <2>3. PendingFresh'
    BY <1>1, <1>4 DEF Starts, PendingFresh, Unsent, Made
  <2> QED BY <2>1, <2>2, <2>3 DEF Starts
<1>5. ASSUME Handlers PROVE Handlers'
  <2>1. OneHandler'
    BY <1>1, <1>2, <1>5 DEF Handlers, OneHandler, HandlerOps, HandlerFits, Releasing
  <2>2. NoneForgotten'
    BY <1>1, <1>2, <1>5 DEF Handlers, NoneForgotten
  <2> QED BY <2>1, <2>2 DEF Handlers
<1> QED BY <1>1, <1>2, <1>3, <1>4, <1>5 DEF IInv

-----------------------------------------------------------------------------
(* The handlers.                                                             *)

\* What a handler finds when it begins.
LEMMA HandlerBegins ==
  ASSUME NEW op, Types, CallsFit, Handler(op)
  PROVE  /\ overlapped' \in {"nothing", "handler", "start"}
         /\ overlapped' # "start" => overlapped # "start"
         /\ overlapped' # "start" /\ op = "start" => \A d \in Calls : call[d].op # "start" /\ call[d].at # "releasing"
         /\ overlapped' = "nothing" =>
               overlapped = "nothing" /\ \A d \in Calls : call[d].at = "none" /\ call[d].op = "none"
<1>1. ~InFlight => \A d \in Calls : call[d].at = "none" /\ call[d].op = "none"
  BY DEF InFlight, CallsFit, Fits
<1>2. overlapped' = IF ~InFlight \/ overlapped = "start" THEN overlapped
                    ELSE IF op = "start" /\ \E c \in Calls : call[c].op = op \/ call[c].at = "releasing"
                         THEN op ELSE "handler"
  BY DEF Handler
<1> QED BY <1>1, <1>2 DEF Types

LEMMA FreeCall ==
  ASSUME NEW c \in Calls, CallsFit, Free(c)
  PROVE  call[c].at = "none" /\ call[c].op = "none"
  BY DEF Free, CallsFit, Fits

\* A connection that is begun.
LEMMA SocketMade ==
  ASSUME Types, CallsFit, NEW c \in Calls, NEW op \in {"start", "clear"}, NEW now \in StreamType,
         epoch' \in Nat, ConnectSocket(c, op, now)
  PROVE  \E s \in Sockets :
            /\ ws[s].at = "none" /\ ws'[s].at = "connecting" /\ ws'[s].of = epoch'
            /\ ws'[s].stale = ws[s].stale
            /\ ws' \in [Sockets -> SocketType] /\ \A t \in Sockets \ {s} : ws'[t] = ws[t]
            /\ stream' \in StreamType /\ stream'.socket = s /\ stream'.given = now.given
            /\ stream'.media = now.media /\ stream'.context = now.context /\ stream'.pending = now.pending
            /\ call' \in [Calls -> CallType] /\ CallsFit'
            /\ call'[c].op = op /\ call'[c].at = "connecting" /\ call'[c].socket = s
            /\ \A d \in Calls \ {c} : call'[d] = call[d]
<1>1. PICK s \in Unused :
        /\ ws' = [ws EXCEPT ![s].at = "connecting", ![s].of = epoch']
        /\ stream' = [now EXCEPT !.socket = s]
        /\ call' = [call EXCEPT ![c] = [op |-> op, at |-> "connecting", socket |-> s]]
  BY DEF ConnectSocket
<1>2. s \in Sockets /\ ws[s].at = "none" /\ s # None
  BY DEF Unused, Sockets, None
<1> DEFINE w == [ws[s] EXCEPT !.at = "connecting", !.of = epoch']
           r == [op |-> op, at |-> "connecting", socket |-> s]
<1>3. w \in SocketType /\ w.at = "connecting" /\ w.of = epoch' /\ w.stale = ws[s].stale
  <2>1. ws[s] \in SocketType
    BY <1>2 DEF Types
  <2> QED BY <2>1 DEF SocketType
<1>4. ws' = [ws EXCEPT ![s] = w]
  BY <1>1, <1>2 DEF Types
<1>5. r \in CallType /\ Fits(r) /\ r.op = op /\ r.at = "connecting" /\ r.socket = s
  BY <1>2 DEF CallType, Ops, Places, Fits, Starting, Releasing
<1> HIDE DEF w, r
<1>6. /\ ws' \in [Sockets -> SocketType] /\ ws'[s] = w
      /\ \A t \in Sockets \ {s} : ws'[t] = ws[t]
  BY <1>2, <1>3, <1>4, SocketSet DEF Types
<1>7. /\ call' \in [Calls -> CallType] /\ CallsFit' /\ call'[c] = r
      /\ \A d \in Calls \ {c} : call'[d] = call[d]
  BY <1>1, <1>5, CallSet DEF Types, r
<1>8. /\ stream' \in StreamType /\ stream'.socket = s /\ stream'.given = now.given
      /\ stream'.media = now.media /\ stream'.context = now.context /\ stream'.pending = now.pending
  <2>1. s \in Sockets \cup {None}
    BY <1>2
  <2> HIDE DEF Sockets
  <2> QED BY <1>1, <2>1 DEF StreamType
<1> QED BY <1>2, <1>3, <1>5, <1>6, <1>7, <1>8

LEMMA StartCaptureInvariant == \A c \in Calls : IInv /\ StartCapture(c) => IInv'
<1> SUFFICES ASSUME NEW c \in Calls, IInv, StartCapture(c) PROVE IInv'
  OBVIOUS
<1>0. Types /\ CallsFit
  BY DEF IInv
<1> DEFINE now == [stream EXCEPT !.given = TRUE]
<1>1. /\ Handler("start") /\ Free(c) /\ app.state = "idle"
      /\ app' = [state |-> "connecting", accept |-> TRUE]
      /\ epoch' = epoch + 1 /\ epoch' \in Nat /\ epoch \in Nat
      /\ ConnectSocket(c, "start", now) /\ mic' = mic
  BY <1>0 DEF StartCapture, Types
<1>2. /\ now \in StreamType /\ now.context = stream.context /\ now.media = stream.media
      /\ now.pending = stream.pending
  BY <1>0 DEF Types, StreamType
<1> HIDE DEF now
<1>3. /\ overlapped' \in {"nothing", "handler", "start"}
      /\ overlapped' # "start" => overlapped # "start" /\ \A d \in Calls : call[d].op # "start" /\ call[d].at # "releasing"
      /\ overlapped' = "nothing" =>
            overlapped = "nothing" /\ \A d \in Calls : call[d].at = "none" /\ call[d].op = "none"
  BY <1>0, <1>1, HandlerBegins
<1>4. PICK s \in Sockets :
        /\ ws[s].at = "none" /\ ws'[s].at = "connecting" /\ ws'[s].of = epoch'
        /\ ws'[s].stale = ws[s].stale
        /\ ws' \in [Sockets -> SocketType] /\ \A t \in Sockets \ {s} : ws'[t] = ws[t]
        /\ stream' \in StreamType /\ stream'.socket = s
        /\ stream'.media = stream.media /\ stream'.context = stream.context /\ stream'.pending = stream.pending
        /\ call' \in [Calls -> CallType] /\ CallsFit'
        /\ call'[c].op = "start" /\ call'[c].at = "connecting" /\ call'[c].socket = s
        /\ \A d \in Calls \ {c} : call'[d] = call[d]
  BY <1>0, <1>1, <1>2, SocketMade
<1>5. app' \in AppType /\ app'.state = "connecting"
  BY <1>1 DEF AppType
<1>6. Types'
  BY <1>0, <1>1, <1>3, <1>4, <1>5 DEF Types
<1>7. ASSUME overlapped' # "start", Starts PROVE Starts'
  <2>1. \A d \in Calls : call[d].op # "start" /\ call[d].at # "releasing"
    BY <1>3, <1>7
  <2>2. stream.context = "none"
    <3>1. stream.context \in {"none", "running", "closing"}
      BY <1>0, StreamFields DEF Types
    <3> QED BY <1>1, <1>7, <2>1, <3>1 DEF Starts, ContextFits
  <2>3. ~Unsent
    BY <1>1, <1>7 DEF Starts, PendingFresh
  <2>4. OneStart'
    BY <1>4, <1>5, <2>1, <2>2 DEF OneStart
  <2>5. ContextFits' /\ MicrophoneFits'
    BY <1>1, <1>4, <1>7, <2>1, <2>2 DEF Starts, ContextFits, MicrophoneFits
  <2>6. PendingFresh'
    <3>1. \A t \in Sockets : ws[t].of \in Nat /\ ws[t].of <= epoch
      BY <1>0, <1>7 DEF Types, SocketType, Starts, PendingFresh
    <3>2. \A t \in Sockets : ws'[t].of <= epoch'
      BY <1>1, <1>4, <3>1
    <3>3. \A i \in 1..Len(stream'.pending) : stream'.pending[i].closing
      BY <1>4, <2>3 DEF Unsent
    <3> QED BY <1>4, <1>7, <3>2, <3>3 DEF Starts, PendingFresh, Unsent
  <2> QED BY <2>4, <2>5, <2>6 DEF Starts
<1>8. ASSUME overlapped' = "nothing", Handlers PROVE Handlers'
  <2>1. \A d \in Calls : call[d].at = "none" /\ call[d].op = "none"
    BY <1>3, <1>8
  <2>2. stream.socket = None
    BY <1>1, <1>8 DEF Handlers, NoneForgotten
  <2>3. HandlerFits(c)'
    BY <1>4 DEF HandlerFits, Releasing
  <2>4. OneHandler'
    BY <1>4, <2>1, <2>3, OnlyHandler
  <2>5. NoneForgotten'
    <3>1. \A t \in Sockets : t # None
      BY DEF Sockets, None
    <3> QED BY <1>4, <1>5, <1>8, <2>1, <2>2, <3>1 DEF Handlers, NoneForgotten
  <2> QED BY <2>4, <2>5 DEF Handlers
<1> QED BY <1>3, <1>4, <1>6, <1>7, <1>8 DEF IInv

LEMMA StopCaptureInvariant == \A c \in Calls : IInv /\ StopCapture(c) => IInv'
<1> SUFFICES ASSUME NEW c \in Calls, IInv, StopCapture(c) PROVE IInv'
  OBVIOUS
<1>0. Types /\ CallsFit
  BY DEF IInv
<1>1. /\ Handler("stop") /\ Free(c) /\ app.state = "recording"
      /\ app' = [app EXCEPT !.state = "finalizing"]
      /\ ReleaseAudio(c, "stop", stream)
      /\ UNCHANGED <<ws, epoch>>
  BY DEF StopCapture
<1>2. /\ overlapped' \in {"nothing", "handler", "start"}
      /\ overlapped' # "start" => overlapped # "start"
      /\ overlapped' = "nothing" =>
            overlapped = "nothing" /\ \A d \in Calls : call[d].at = "none" /\ call[d].op = "none"
  BY <1>0, <1>1, HandlerBegins
<1>3. /\ call' \in [Calls -> CallType] /\ CallsFit'
      /\ \A d \in Calls \ {c} : call'[d] = call[d]
      /\ call'[c].op = "stop" /\ call'[c].at \in Releasing
      /\ stream.context = "running" => call'[c].at = "releasing" /\ stream'.context = "closing"
      /\ stream.context = "closing" => call'[c].at = "rejected" /\ stream'.context = "closing"
      /\ stream.context = "none" => call'[c].at = "released" /\ stream'.context = "none"
      /\ stream' \in StreamType /\ stream'.socket = stream.socket
      /\ stream'.media = stream.media /\ stream'.pending = stream.pending
      /\ mic' \in [Sockets -> {"off", "on", "wired"}]
      /\ \A s \in Sockets : mic'[s] = IF s = stream.media THEN "off" ELSE mic[s]
  BY <1>0, <1>1, AudioReleased DEF Types
<1>4. app' \in AppType /\ app'.state = "finalizing"
  BY <1>0, <1>1 DEF Types, AppType
<1>5. call[c].at = "none" /\ call[c].op = "none"
  BY <1>0, <1>1, FreeCall
<1>6. Types'
  BY <1>0, <1>1, <1>2, <1>3, <1>4 DEF Types
<1>7. ASSUME Starts PROVE Starts'
  <2>1. \A d \in Calls : call[d].op # "start"
    BY <1>1, <1>7 DEF Starts, OneStart
  <2>2. OneStart'
    BY <1>3, <2>1 DEF OneStart
  <2>3. ContextFits' /\ MicrophoneFits'
    BY <1>0, <1>3, <1>5, <1>7, AudioOff DEF Starts
  <2>4. PendingFresh'
    BY <1>0, <1>1, <1>3, <1>4, <1>7, PendingKept DEF Starts, PendingFresh, Unsent, Made
  <2> QED BY <2>2, <2>3, <2>4 DEF Starts
<1>8. ASSUME overlapped' = "nothing", Handlers PROVE Handlers'
  <2>1. \A d \in Calls : call[d].at = "none" /\ call[d].op = "none"
    BY <1>2, <1>8
  <2>2. HandlerFits(c)'
    BY <1>3 DEF HandlerFits, Releasing
  <2>3. OneHandler'
    BY <1>3, <2>1, <2>2, OnlyHandler
  <2>4. NoneForgotten'
    BY <1>1, <1>3, <1>4, <1>8, <2>1 DEF Handlers, NoneForgotten
  <2> QED BY <2>3, <2>4 DEF Handlers
<1> QED BY <1>2, <1>3, <1>6, <1>7, <1>8 DEF IInv

\* cancel, by the user or when what was to follow a clear is not wanted any more.
LEMMA CancelKeeps ==
  ASSUME IInv, NEW c \in Calls, call[c].at \in {"none", "cleared"}, Cancel(c),
         app' \in AppType, app'.state = app.state, epoch' = epoch,
         overlapped' \in {"nothing", "handler", "start"},
         overlapped' # "start" => overlapped # "start",
         overlapped' = "nothing" =>
            /\ overlapped = "nothing" /\ \A d \in Calls \ {c} : call[d].op \in {"none", "closed"}
  PROVE  IInv'
<1>0. Types /\ CallsFit
  BY DEF IInv
<1> DEFINE now == [stream EXCEPT !.socket = None]
<1>1. ws' = ClosedByPage(stream.socket, {"open"}) /\ ReleaseAudio(c, "cancel", now)
  BY DEF Cancel
<1>2. /\ now \in StreamType /\ now.context = stream.context /\ now.media = stream.media
      /\ now.pending = stream.pending /\ now.socket = None
      /\ stream.socket \in Sockets \cup {None}
  BY <1>0 DEF Types, StreamType
<1> HIDE DEF now
<1>3. /\ call' \in [Calls -> CallType] /\ CallsFit'
      /\ \A d \in Calls \ {c} : call'[d] = call[d]
      /\ call'[c].op = "cancel" /\ call'[c].at \in Releasing
      /\ stream.context = "running" => call'[c].at = "releasing" /\ stream'.context = "closing"
      /\ stream.context = "closing" => call'[c].at = "rejected" /\ stream'.context = "closing"
      /\ stream.context = "none" => call'[c].at = "released" /\ stream'.context = "none"
      /\ stream' \in StreamType /\ stream'.socket = None
      /\ stream'.media = stream.media /\ stream'.pending = stream.pending
      /\ mic' \in [Sockets -> {"off", "on", "wired"}]
      /\ \A s \in Sockets : mic'[s] = IF s = stream.media THEN "off" ELSE mic[s]
  BY <1>0, <1>1, <1>2, AudioReleased
<1>4. /\ ws' \in [Sockets -> SocketType]
      /\ \A t \in Sockets :
            /\ ws'[t].of = ws[t].of /\ ws'[t].stale = ws[t].stale
            /\ ws'[t].committed = ws[t].committed /\ ws'[t].late = ws[t].late
            /\ ws'[t].at = IF t = stream.socket /\ ws[t].at \in {"open"} THEN "closing" ELSE ws[t].at
  <2> DEFINE current == stream.socket
  <2>1. current \in Sockets \cup {None} /\ ws' = ClosedByPage(current, {"open"})
        /\ ws \in [Sockets -> SocketType]
    BY <1>0, <1>1, <1>2 DEF Types
  <2> HIDE DEF current
  <2>2. /\ ws' \in [Sockets -> SocketType]
        /\ \A t \in Sockets :
              /\ ws'[t].of = ws[t].of /\ ws'[t].stale = ws[t].stale
              /\ ws'[t].committed = ws[t].committed /\ ws'[t].late = ws[t].late
              /\ ws'[t].at = IF t = current /\ ws[t].at \in {"open"} THEN "closing" ELSE ws[t].at
    BY <2>1, PageCloses
  <2> QED BY <2>2 DEF current
<1>5. Types'
  BY <1>0, <1>3, <1>4 DEF Types
<1>6. ASSUME Starts PROVE Starts'
  <2>1. OneStart'
    BY <1>3, <1>6, OneStartKept DEF Starts
  <2>2. ContextFits' /\ MicrophoneFits'
    BY <1>0, <1>3, <1>6, AudioOff DEF Starts
  <2>3. ~(Made(stream.socket)')
    BY <1>3 DEF Made
  <2>4. PendingFresh'
    BY <1>0, <1>3, <1>4, <1>6, <2>3, PendingKept DEF Starts, PendingFresh
  <2> QED BY <2>1, <2>2, <2>4 DEF Starts
<1>7. ASSUME overlapped' = "nothing", Handlers PROVE Handlers'
  <2>1. \A d \in Calls \ {c} : call[d].op \in {"none", "closed"} /\ call'[d] = call[d]
    BY <1>3, <1>7
  <2>2. \A d \in Calls : call[d].at # "connecting"
    BY <1>0, <2>1 DEF CallsFit, Fits, Releasing
  <2>3. HandlerFits(c)'
    BY <1>3 DEF HandlerFits, Releasing
  <2>4. OneHandler'
    BY <1>3, <2>1, <2>3, OnlyHandler
  <2>5. NoneForgotten'
    BY <1>3, <1>4, <1>7, <2>2 DEF Handlers, NoneForgotten
  <2> QED BY <2>4, <2>5 DEF Handlers
<1> QED BY <1>3, <1>5, <1>6, <1>7 DEF IInv

LEMMA CancelCaptureInvariant == \A c \in Calls : IInv /\ CancelCapture(c) => IInv'
<1> SUFFICES ASSUME NEW c \in Calls, IInv, CancelCapture(c) PROVE IInv'
  OBVIOUS
<1>0. Types /\ CallsFit
  BY DEF IInv
<1>1. /\ Handler("cancel") /\ Free(c) /\ Cancel(c) /\ epoch' = epoch
      /\ app' = [app EXCEPT !.accept = FALSE]
  BY DEF CancelCapture
<1>2. /\ overlapped' \in {"nothing", "handler", "start"}
      /\ overlapped' # "start" => overlapped # "start"
      /\ overlapped' = "nothing" => overlapped = "nothing" /\ \A d \in Calls : call[d].op = "none"
  BY <1>0, <1>1, HandlerBegins
<1>3. app' \in AppType /\ app'.state = app.state /\ call[c].at = "none"
  BY <1>0, <1>1, FreeCall DEF Types, AppType
<1> QED BY <1>1, <1>2, <1>3, CancelKeeps

LEMMA ClearGoesOnInvariant == \A c \in Calls : IInv /\ ClearGoesOn(c) => IInv'
<1> SUFFICES ASSUME NEW c \in Calls, IInv, ClearGoesOn(c) PROVE IInv'
  OBVIOUS
<1>0. /\ Types /\ CallsFit /\ epoch \in Nat /\ stream \in StreamType
      /\ overlapped \in {"nothing", "handler", "start"} /\ app \in AppType
  BY DEF IInv, Types
<1>1. /\ call[c].at = "cleared" /\ call[c].op = "clear" /\ UNCHANGED <<epoch, overlapped, app>>
  BY <1>0 DEF ClearGoesOn, Going, CallsFit, Fits, Types, CallType, Ops, Starting, Releasing
<1>2. CASE Cancel(c)
  <2>1. overlapped = "nothing" => \A d \in Calls \ {c} : call[d].op \in {"none", "closed"}
    BY <1>0, <1>1, HandlerAlone DEF IInv, Handlers, HandlerOps
  <2> QED BY <1>0, <1>1, <1>2, <2>1, CancelKeeps
<1>3. CASE ConnectSocket(c, "clear", stream) /\ mic' = mic
  <2>1. PICK s \in Sockets :
          /\ ws[s].at = "none" /\ ws'[s].at = "connecting" /\ ws'[s].of = epoch
          /\ ws'[s].stale = ws[s].stale
          /\ ws' \in [Sockets -> SocketType] /\ \A t \in Sockets \ {s} : ws'[t] = ws[t]
          /\ stream' \in StreamType /\ stream'.socket = s
          /\ stream'.media = stream.media /\ stream'.context = stream.context /\ stream'.pending = stream.pending
          /\ call' \in [Calls -> CallType] /\ CallsFit'
          /\ call'[c].op = "clear" /\ call'[c].at = "connecting" /\ call'[c].socket = s
          /\ \A d \in Calls \ {c} : call'[d] = call[d]
    BY <1>0, <1>1, <1>3, SocketMade
  <2>2. Types'
    BY <1>0, <1>1, <1>3, <2>1 DEF Types
  <2>3. ASSUME Starts PROVE Starts'
    <3>1. OneStart'
      BY <1>1, <2>1, <2>3, OneStartKept DEF Starts
    <3>2. ContextFits' /\ MicrophoneFits'
      BY <1>1, <1>3, <2>1, <2>3 DEF Starts, ContextFits, MicrophoneFits
    <3>3. ~(Made(stream.socket)')
      BY <2>1 DEF Made
    <3>4. \A t \in Sockets : ws'[t].of <= epoch /\ (ws'[t].stale => ws[t].stale)
      BY <1>0, <2>1, <2>3 DEF Starts, PendingFresh
    <3>5. PendingFresh'
      BY <1>0, <1>1, <2>1, <2>3, <3>3, <3>4, PendingKept DEF Starts, PendingFresh
    <3> QED BY <3>1, <3>2, <3>5 DEF Starts
  <2>4. ASSUME Handlers PROVE Handlers'
    <3>1. stream.socket = None /\ app.state = "recording"
      BY <1>1, <2>4 DEF Handlers, OneHandler, HandlerFits
    <3>2. \A d \in Calls \ {c} : call[d].op \in {"none", "closed"}
      BY <1>0, <1>1, <2>4, HandlerAlone DEF Handlers, HandlerOps
    <3>3. HandlerFits(c)'
      BY <1>1, <2>1, <3>1 DEF HandlerFits, Releasing
    <3>4. OneHandler'
      BY <2>1, <3>2, <3>3, OnlyHandler
    <3>5. NoneForgotten'
      <4>1. \A t \in Sockets : t # None
        BY DEF Sockets, None
      <4>2. \A t \in Sockets \ {s} : ws[t].at = "connecting" => ws[t].late
        BY <1>0, <1>1, <2>4, <3>2 DEF Handlers, NoneForgotten, CallsFit, Fits, Releasing
      <4> QED BY <1>1, <2>1, <2>4, <3>1, <4>1, <4>2 DEF Handlers, NoneForgotten
    <3> QED BY <3>4, <3>5 DEF Handlers
  <2> QED BY <1>1, <2>1, <2>2, <2>3, <2>4 DEF IInv
<1> QED BY <1>2, <1>3 DEF ClearGoesOn

LEMMA ClearSessionInvariant == \A c \in Calls : IInv /\ ClearSession(c) => IInv'
<1> SUFFICES ASSUME NEW c \in Calls, IInv, ClearSession(c) PROVE IInv'
  OBVIOUS
<1>0. Types /\ CallsFit
  BY DEF IInv
<1> DEFINE now == [stream EXCEPT !.pending = <<>>]
           r == [op |-> "clear", at |-> "clearing", socket |-> stream.socket]
<1>1. /\ Handler("clear") /\ Free(c) /\ app.state = "recording"
      /\ app' = [app EXCEPT !.accept = FALSE]
      /\ epoch' = epoch + 1 /\ epoch' \in Nat /\ epoch \in Nat /\ mic' = mic
  BY <1>0 DEF ClearSession, Types
<1>2. /\ overlapped' \in {"nothing", "handler", "start"}
      /\ overlapped' # "start" => overlapped # "start"
      /\ overlapped' = "nothing" =>
            overlapped = "nothing" /\ \A d \in Calls : call[d].at = "none" /\ call[d].op = "none"
  BY <1>0, <1>1, HandlerBegins
<1>3. app' \in AppType /\ app'.state = "recording"
  BY <1>0, <1>1 DEF Types, AppType
<1>4. call[c].at = "none" /\ call[c].op = "none"
  BY <1>0, <1>1, FreeCall
<1>5. Starts => /\ \A d \in Calls : call[d].op # "start"
                /\ \A t \in Sockets : ws[t].of <= epoch'
                /\ \A t \in Sockets : ~ws[t].stale
  <2>1. \A t \in Sockets : ws[t].of \in Nat
    BY <1>0 DEF Types, SocketType
  <2> QED BY <1>1, <2>1 DEF Starts, OneStart, PendingFresh
<1>6. CASE stream.socket = None /\ ConnectSocket(c, "clear", now)
  <2>1. now \in StreamType /\ now.context = stream.context /\ now.media = stream.media /\ now.pending = <<>>
    <3>1. <<>> \in Seq(Kept)
      OBVIOUS
    <3> HIDE DEF Sockets
    <3> QED BY <1>0, <3>1 DEF Types, StreamType
  <2> HIDE DEF now
  <2>2. PICK s \in Sockets :
          /\ ws[s].at = "none" /\ ws'[s].at = "connecting" /\ ws'[s].of = epoch'
          /\ ws'[s].stale = ws[s].stale
          /\ ws' \in [Sockets -> SocketType] /\ \A t \in Sockets \ {s} : ws'[t] = ws[t]
          /\ stream' \in StreamType /\ stream'.socket = s
          /\ stream'.media = stream.media /\ stream'.context = stream.context /\ stream'.pending = <<>>
          /\ call' \in [Calls -> CallType] /\ CallsFit'
          /\ call'[c].op = "clear" /\ call'[c].at = "connecting" /\ call'[c].socket = s
          /\ \A d \in Calls \ {c} : call'[d] = call[d]
    BY <1>0, <1>1, <1>6, <2>1, SocketMade
  <2>3. Types'
    BY <1>0, <1>1, <1>2, <1>3, <2>2, BoundsAssumption DEF Types
  <2>4. ASSUME Starts PROVE Starts'
    <3>1. OneStart'
      BY <1>5, <2>2, <2>4 DEF OneStart
    <3>2. ContextFits' /\ MicrophoneFits'
      BY <1>1, <1>3, <1>4, <2>2, <2>4 DEF Starts, ContextFits, MicrophoneFits
    <3>3. PendingFresh'
      <4>1. \A t \in Sockets : ws'[t].of <= epoch' /\ ~ws'[t].stale
        BY <1>1, <1>5, <2>2, <2>4
      <4>2. \A i \in 1..Len(stream'.pending) : FALSE
        BY <2>2
      <4> QED BY <4>1, <4>2 DEF PendingFresh, Unsent
    <3> QED BY <3>1, <3>2, <3>3 DEF Starts
  <2>5. ASSUME overlapped' = "nothing", Handlers PROVE Handlers'
    <3>1. \A d \in Calls : call[d].at = "none" /\ call[d].op = "none"
      BY <1>2, <2>5
    <3>2. HandlerFits(c)'
      BY <1>3, <2>2 DEF HandlerFits, Releasing
    <3>3. OneHandler'
      BY <2>2, <3>1, <3>2, OnlyHandler
    <3>4. NoneForgotten'
      <4>1. \A t \in Sockets : t # None
        BY DEF Sockets, None
      <4> QED BY <1>3, <1>6, <2>2, <2>5, <3>1, <4>1 DEF Handlers, NoneForgotten
    <3> QED BY <3>3, <3>4 DEF Handlers
  <2> QED BY <1>2, <2>2, <2>3, <2>4, <2>5 DEF IInv
<1>7. CASE /\ stream.socket # None
           /\ ws' = ClosedByPage(stream.socket, {"open", "connecting"})
           /\ stream' = [stream EXCEPT !.socket = None, !.pending = <<>>]
           /\ call' = [call EXCEPT ![c] = r]
  <2>1. r \in CallType /\ Fits(r) /\ r.op = "clear" /\ r.at = "clearing"
    BY <1>0, <1>7, StreamFields DEF Types, CallType, Ops, Places, Fits, Starting, Releasing
  <2> HIDE DEF r, now
  <2>2. /\ call' \in [Calls -> CallType] /\ CallsFit' /\ call'[c] = r
        /\ \A d \in Calls \ {c} : call'[d] = call[d]
    BY <1>0, <1>7, <2>1, CallSet DEF Types
  <2>3. /\ stream' \in StreamType /\ stream'.socket = None /\ stream'.pending = <<>>
        /\ stream'.media = stream.media /\ stream'.context = stream.context
        /\ Len(stream'.pending) = 0
    <3>1. <<>> \in Seq(Kept) /\ Len(<<>>) = 0
      OBVIOUS
    <3> HIDE DEF Sockets
    <3> QED BY <1>0, <1>7, <3>1 DEF Types, StreamType
  <2>4. /\ ws' \in [Sockets -> SocketType]
        /\ \A t \in Sockets :
              /\ ws'[t].of = ws[t].of /\ ws'[t].stale = ws[t].stale
              /\ ws'[t].committed = ws[t].committed /\ ws'[t].late = ws[t].late
              /\ ws'[t].at = IF t = stream.socket /\ ws[t].at \in {"open", "connecting"}
                             THEN "closing" ELSE ws[t].at
    <3> DEFINE current == stream.socket
    <3>1. current \in Sockets \cup {None} /\ ws' = ClosedByPage(current, {"open", "connecting"})
          /\ ws \in [Sockets -> SocketType]
      BY <1>0, <1>7, StreamFields DEF Types
    <3> HIDE DEF current
    <3>2. /\ ws' \in [Sockets -> SocketType]
          /\ \A t \in Sockets :
                /\ ws'[t].of = ws[t].of /\ ws'[t].stale = ws[t].stale
                /\ ws'[t].committed = ws[t].committed /\ ws'[t].late = ws[t].late
                /\ ws'[t].at = IF t = current /\ ws[t].at \in {"open", "connecting"}
                               THEN "closing" ELSE ws[t].at
      BY <3>1, PageCloses
    <3> QED BY <3>2 DEF current
  <2>5. Types'
    BY <1>0, <1>1, <1>2, <1>3, <2>2, <2>3, <2>4, BoundsAssumption DEF Types
  <2>6. ASSUME Starts PROVE Starts'
    <3>1. OneStart'
      BY <1>5, <2>1, <2>2, <2>6 DEF OneStart
    <3>2. ContextFits' /\ MicrophoneFits'
      BY <1>1, <1>3, <1>4, <2>1, <2>2, <2>3, <2>6 DEF Starts, ContextFits, MicrophoneFits
    <3>3. PendingFresh'
      <4>1. \A t \in Sockets : ws'[t].of <= epoch' /\ ~ws'[t].stale
        BY <1>1, <1>5, <2>4, <2>6
      <4>2. \A i \in 1..Len(stream'.pending) : FALSE
        BY <2>3
      <4> QED BY <4>1, <4>2 DEF PendingFresh, Unsent
    <3> QED BY <3>1, <3>2, <3>3 DEF Starts
  <2>7. ASSUME overlapped' = "nothing", Handlers PROVE Handlers'
    <3>1. \A d \in Calls : call[d].at = "none" /\ call[d].op = "none"
      BY <1>2, <2>7
    <3>2. HandlerFits(c)'
      BY <1>3, <2>1, <2>2, <2>3 DEF HandlerFits, Releasing
    <3>3. OneHandler'
      BY <2>2, <3>1, <3>2, OnlyHandler
    <3>4. NoneForgotten'
      BY <1>3, <2>3, <2>4, <2>7, <3>1 DEF Handlers, NoneForgotten
    <3> QED BY <3>3, <3>4 DEF Handlers
  <2> QED BY <1>2, <2>2, <2>5, <2>6, <2>7 DEF IInv
<1> QED BY <1>6, <1>7 DEF ClearSession

\* A clear that waits for nothing changes only what is shown.
LEMMA ShownInvariant ==
  ASSUME IInv, Handler("clear"), app' \in AppType, app'.state = app.state,
         UNCHANGED <<stream, call, ws, mic, epoch>>
  PROVE  IInv'
<1>1. /\ overlapped' \in {"nothing", "handler", "start"}
      /\ overlapped' # "start" => overlapped # "start"
      /\ overlapped' = "nothing" => overlapped = "nothing"
  BY HandlerBegins DEF IInv
<1>2. Types' /\ CallsFit'
  BY <1>1 DEF IInv, Types, CallsFit
<1>3. ASSUME Starts PROVE Starts'
  BY <1>3 DEF Starts, OneStart, ContextFits, MicrophoneFits, PendingFresh, Unsent, Made
<1>4. ASSUME Handlers PROVE Handlers'
  BY <1>4 DEF Handlers, OneHandler, HandlerFits, NoneForgotten
<1> QED BY <1>1, <1>2, <1>3, <1>4 DEF IInv

LEMMA ClearTextInvariant == IInv /\ (ClearText \/ ClearNothing) => IInv'
<1> SUFFICES ASSUME IInv, ClearText \/ ClearNothing PROVE IInv'
  OBVIOUS
<1>1. app' \in AppType /\ app'.state = app.state
  BY DEF ClearText, ClearNothing, IInv, Types, AppType
<1>2. Handler("clear") /\ UNCHANGED <<stream, call, ws, mic, epoch>>
  BY DEF ClearText, ClearNothing
<1> QED BY <1>1, <1>2, ShownInvariant

-----------------------------------------------------------------------------
(* Other events of the page.                                                 *)

LEMMA ChunkInvariant == IInv /\ Chunk => IInv'
<1> SUFFICES ASSUME IInv, Chunk PROVE IInv'
  OBVIOUS
<1>0. Types /\ CallsFit /\ epoch \in Nat /\ stream.pending \in Seq(Kept) /\ Len(stream.pending) <= MaxPending
      /\ MaxPending \in Nat \ {0} /\ stream \in StreamType
  BY StreamFields, BoundsAssumption DEF IInv, Types
<1> DEFINE new == [of |-> epoch, closing |-> ws[stream.socket].at = "closing"]
           kept == Append(stream.pending, new)
           left == IF Len(kept) > MaxPending THEN Tail(kept) ELSE kept
           Fresh(chunk) == ~chunk.closing => chunk.of = epoch /\ ~Made(stream.socket)
<1>1. /\ UNCHANGED <<app, call, ws, mic, epoch, overlapped>>
      /\ \E s \in Sockets : mic[s] = "wired"
      /\ stream.socket # None /\ ~IsOpen(stream.socket)
      /\ stream' = [stream EXCEPT !.pending = left]
  BY DEF Chunk, Event, Going
<1>n. new \in Kept /\ Fresh(new)
  BY <1>0, <1>1 DEF Kept, Made, IsOpen
<1> HIDE DEF new, Fresh
<1>2. /\ left \in Seq(Kept) /\ Len(left) <= MaxPending
      /\ (\A i \in 1..Len(stream.pending) : Fresh(stream.pending[i])) => \A i \in 1..Len(left) : Fresh(left[i])
  <2> DEFINE q == stream.pending  k == Append(q, new)
  <2>1. k \in Seq(Kept) /\ Len(k) = Len(q) + 1 /\ k[Len(q) + 1] = new /\ \A i \in 1..Len(q) : k[i] = q[i]
    BY <1>0, <1>n
  <2>2. Len(q) \in Nat /\ Len(q) <= MaxPending
    BY <1>0
  <2> HIDE DEF q, k
  <2>3. k # <<>> => Tail(k) \in Seq(Kept) /\ Len(Tail(k)) = Len(k) - 1 /\ \A i \in 1..Len(Tail(k)) : Tail(k)[i] = k[i + 1]
    BY <2>1
  <2>4. k # <<>>
    BY <2>1, <2>2
  <2>5. (\A i \in 1..Len(q) : Fresh(q[i])) => \A i \in 1..Len(k) : Fresh(k[i])
    <3>1. \A i \in 1..Len(k) : i \in 1..Len(q) \/ i = Len(q) + 1
      BY <2>1, <2>2
    <3> QED BY <1>n, <2>1, <3>1
  <2> DEFINE l == IF Len(k) > MaxPending THEN Tail(k) ELSE k
  <2>6. l \in Seq(Kept) /\ Len(l) <= MaxPending
    BY <1>0, <2>1, <2>2, <2>3, <2>4
  <2>7. (\A i \in 1..Len(k) : Fresh(k[i])) => \A i \in 1..Len(l) : Fresh(l[i])
    <3>1. \A i \in 1..Len(Tail(k)) : i + 1 \in 1..Len(k) /\ Tail(k)[i] = k[i + 1]
      BY <2>1, <2>2, <2>3, <2>4
    <3> QED BY <3>1
  <2> QED BY <2>5, <2>6, <2>7 DEF q, k
<1> HIDE DEF left, kept
<1>3. /\ stream' \in StreamType /\ stream'.socket = stream.socket /\ stream'.media = stream.media
      /\ stream'.context = stream.context /\ stream'.pending = left
  BY <1>0, <1>1, <1>2 DEF StreamType
<1>4. Types' /\ CallsFit'
  BY <1>0, <1>1, <1>2, <1>3 DEF Types, CallsFit
<1>5. ASSUME Starts PROVE Starts'
  <2>1. app.state = "recording"
    BY <1>1, <1>5 DEF Starts, MicrophoneFits
  <2>2. OneStart' /\ ContextFits' /\ MicrophoneFits'
    BY <1>1, <1>3, <1>5 DEF Starts, OneStart, ContextFits, MicrophoneFits
  <2>3. \A i \in 1..Len(left) : Fresh(left[i])
    BY <1>2, <1>5 DEF Starts, PendingFresh, Unsent, Fresh
  <2>4. Made(stream.socket)' <=> Made(stream.socket)
    BY <1>1, <1>3 DEF Made
  <2>5. PendingFresh'
    BY <1>1, <1>3, <1>5, <2>1, <2>3, <2>4 DEF Starts, PendingFresh, Unsent, Fresh
  <2> QED BY <2>2, <2>5 DEF Starts
<1>6. ASSUME Handlers PROVE Handlers'
  BY <1>1, <1>3, <1>6 DEF Handlers, OneHandler, HandlerFits, NoneForgotten
<1> QED BY <1>1, <1>4, <1>5, <1>6 DEF IInv

LEMMA RecordingInvariant == \A c \in Calls : IInv /\ Recording(c) => IInv'
<1> SUFFICES ASSUME NEW c \in Calls, IInv, Recording(c) PROVE IInv'
  OBVIOUS
<1>0. Types /\ CallsFit
  BY DEF IInv
<1>1. /\ call[c].at = "module" /\ stream.context # "none" /\ Ends(c)
      /\ UNCHANGED <<stream, ws, epoch, overlapped>>
  BY DEF Recording, Event, Going
<1>2. call[c].op = "start"
  BY <1>0, <1>1 DEF CallsFit, Fits, Types, CallType, Ops, Releasing
<1>3. /\ call' \in [Calls -> CallType] /\ CallsFit'
      /\ call'[c].op = "none" /\ call'[c].at = "none"
      /\ \A d \in Calls \ {c} : call'[d] = call[d]
  BY <1>0, <1>1, CallEnds
<1>4. app' \in AppType /\ app'.state = "recording"
  BY <1>0 DEF Recording, Types, AppType
<1>5. /\ mic' \in [Sockets -> {"off", "on", "wired"}]
      /\ \A s \in Sockets : mic'[s] # "off" => mic[s] # "off"
  BY <1>0 DEF Recording, Types
<1>6. Types'
  BY <1>0, <1>1, <1>3, <1>4, <1>5 DEF Types
<1>7. ASSUME Starts PROVE Starts'
  <2>1. app.state \in {"idle", "connecting"} /\ \A d \in Calls \ {c} : call[d].op # "start"
    BY <1>2, <1>7 DEF Starts, OneStart
  <2>2. ~Unsent
    BY <2>1, <1>7 DEF Starts, PendingFresh
  <2>3. OneStart'
    BY <1>3, <2>1 DEF OneStart
  <2>4. ContextFits' /\ MicrophoneFits'
    BY <1>1, <1>3, <1>4, <1>5, <1>7 DEF Starts, ContextFits, MicrophoneFits
  <2>5. PendingFresh'
    BY <1>0, <1>1, <1>7, <2>2, PendingKept DEF Starts, PendingFresh
  <2> QED BY <2>3, <2>4, <2>5 DEF Starts
<1>8. ASSUME Handlers PROVE Handlers'
  <2>1. OneHandler'
    BY <1>0, <1>2, <1>3, <1>8, HandlerAlone, NoHandler DEF Handlers, HandlerOps
  <2>2. NoneForgotten'
    BY <1>1, <1>3, <1>4, <1>8 DEF Handlers, NoneForgotten
  <2> QED BY <2>1, <2>2 DEF Handlers
<1> QED BY <1>1, <1>3, <1>6, <1>7, <1>8 DEF IInv

LEMMA NoMicrophoneInvariant == \A c \in Calls : IInv /\ NoMicrophone(c) => IInv'
<1> SUFFICES ASSUME NEW c \in Calls, IInv, NoMicrophone(c) PROVE IInv'
  OBVIOUS
<1>0. Types /\ CallsFit
  BY DEF IInv
<1> DEFINE now == [stream EXCEPT !.socket = None]
           made == call[c].socket
<1>1. /\ call[c].at \in {"asking", "module"}
      /\ ws' = ClosedByPage(made, {"open", "connecting"}) /\ ReleaseAudio(c, "start", now)
      /\ UNCHANGED <<app, epoch, overlapped>>
  BY DEF NoMicrophone, Event, Going
<1>2. /\ now \in StreamType /\ now.context = stream.context /\ now.media = stream.media
      /\ now.pending = stream.pending /\ now.socket = None
  BY <1>0 DEF Types, StreamType
<1>3. call[c].op = "start" /\ made \in Sockets \cup {None}
  BY <1>0, <1>1 DEF CallsFit, Fits, Types, CallType, Ops, Releasing
<1>4. /\ ws' \in [Sockets -> SocketType]
      /\ \A t \in Sockets :
            /\ ws'[t].of = ws[t].of /\ ws'[t].stale = ws[t].stale
            /\ ws'[t].committed = ws[t].committed /\ ws'[t].late = ws[t].late
            /\ ws'[t].at = IF t = call[c].socket /\ ws[t].at \in {"open", "connecting"}
                           THEN "closing" ELSE ws[t].at
  <2>1. made \in Sockets \cup {None} /\ ws' = ClosedByPage(made, {"open", "connecting"})
        /\ ws \in [Sockets -> SocketType]
    BY <1>0, <1>1, <1>3 DEF Types
  <2> HIDE DEF made, now
  <2>2. /\ ws' \in [Sockets -> SocketType]
        /\ \A t \in Sockets :
              /\ ws'[t].of = ws[t].of /\ ws'[t].stale = ws[t].stale
              /\ ws'[t].committed = ws[t].committed /\ ws'[t].late = ws[t].late
              /\ ws'[t].at = IF t = made /\ ws[t].at \in {"open", "connecting"}
                             THEN "closing" ELSE ws[t].at
    BY <2>1, PageCloses
  <2> QED BY <2>2 DEF made
<1> HIDE DEF now, made
<1>5. /\ call' \in [Calls -> CallType] /\ CallsFit'
      /\ \A d \in Calls \ {c} : call'[d] = call[d]
      /\ call'[c].op = "start" /\ call'[c].at \in Releasing
      /\ stream.context = "running" => call'[c].at = "releasing" /\ stream'.context = "closing"
      /\ stream.context = "closing" => call'[c].at = "rejected" /\ stream'.context = "closing"
      /\ stream.context = "none" => call'[c].at = "released" /\ stream'.context = "none"
      /\ stream' \in StreamType /\ stream'.socket = None
      /\ stream'.media = stream.media /\ stream'.pending = stream.pending
      /\ mic' \in [Sockets -> {"off", "on", "wired"}]
      /\ \A s \in Sockets : mic'[s] = IF s = stream.media THEN "off" ELSE mic[s]
  BY <1>0, <1>1, <1>2, AudioReleased
<1>6. Types'
  BY <1>0, <1>1, <1>4, <1>5 DEF Types
<1>7. ASSUME Starts PROVE Starts'
  <2>1. call'[c].at \notin Starting
    BY <1>5 DEF Releasing, Starting
  <2>2. OneStart'
    BY <1>1, <1>3, <1>5, <1>7, <2>1, OneStartKept DEF Starts
  <2>3. ContextFits' /\ MicrophoneFits'
    BY <1>0, <1>1, <1>5, <1>7, AudioOff DEF Starts
  <2>4. ~(Made(stream.socket)')
    BY <1>5 DEF Made
  <2>5. PendingFresh'
    BY <1>0, <1>1, <1>4, <1>5, <1>7, <2>4, PendingKept DEF Starts, PendingFresh
  <2> QED BY <2>2, <2>3, <2>5 DEF Starts
<1>8. ASSUME Handlers PROVE Handlers'
  <2>1. stream.socket \in {None, call[c].socket}
    BY <1>1, <1>8 DEF Handlers, OneHandler, HandlerFits
  <2>2. \A d \in Calls \ {c} : call[d].op \in {"none", "closed"}
    BY <1>0, <1>3, <1>8, HandlerAlone DEF Handlers, HandlerOps
  <2>3. HandlerFits(c)'
    BY <1>5 DEF HandlerFits, Releasing
  <2>4. OneHandler'
    BY <1>5, <2>2, <2>3, OnlyHandler
  <2>5. NoneForgotten'
    <3>1. \A d \in Calls : call[d].at # "connecting"
      BY <1>0, <1>1, <2>2 DEF CallsFit, Fits, Releasing
    <3>2. \A t \in Sockets : t # None
      BY DEF Sockets, None
    <3> QED BY <1>1, <1>4, <1>5, <1>8, <2>1, <3>1, <3>2 DEF Handlers, NoneForgotten
  <2> QED BY <2>4, <2>5 DEF Handlers
<1> QED BY <1>1, <1>5, <1>6, <1>7, <1>8 DEF IInv

LEMMA GrantedInvariant == \A c \in Calls : IInv /\ Granted(c) => IInv'
<1> SUFFICES ASSUME NEW c \in Calls, IInv, Granted(c) PROVE IInv'
  OBVIOUS
<1>0. Types /\ CallsFit
  BY DEF IInv
<1> DEFINE made == call[c].socket
           r == [call[c] EXCEPT !.at = "module"]
<1>1. /\ Calm /\ call[c].at = "asking"
      /\ stream' = [stream EXCEPT !.media = made, !.context = "running"]
      /\ mic' = [mic EXCEPT ![made] = "on"]
      /\ call' = [call EXCEPT ![c] = r]
      /\ UNCHANGED <<app, ws, epoch, overlapped>>
  BY DEF Granted, Event, Going
<1>2. call[c].op = "start" /\ made \in Sockets
  BY <1>0, <1>1 DEF CallsFit, Fits, Types, CallType, Ops, Releasing, Starting
<1>3. r \in CallType /\ Fits(r) /\ r.op = "start" /\ r.at = "module" /\ r.socket = made
  BY <1>0, <1>1, <1>2 DEF Types, CallType, CallsFit, Fits, Starting, Releasing, Places
<1> HIDE DEF r
<1>4. /\ call' \in [Calls -> CallType] /\ CallsFit' /\ call'[c] = r
      /\ \A d \in Calls \ {c} : call'[d] = call[d]
  BY <1>0, <1>1, <1>3, CallSet DEF Types
<1>5. /\ stream' \in StreamType /\ stream'.socket = stream.socket /\ stream'.media = made
      /\ stream'.context = "running" /\ stream'.pending = stream.pending
  <2> HIDE DEF made, Sockets
  <2> QED BY <1>0, <1>1, <1>2 DEF Types, StreamType
<1>6. /\ mic' \in [Sockets -> {"off", "on", "wired"}] /\ mic'[made] = "on"
      /\ \A s \in Sockets \ {made} : mic'[s] = mic[s]
  BY <1>0, <1>1, <1>2 DEF Types
<1>7. Types'
  BY <1>0, <1>1, <1>4, <1>5, <1>6 DEF Types
<1>8. ASSUME Starts PROVE Starts'
  <2>1. stream.context = "none" /\ \A d \in Calls \ {c} : call[d].op # "start"
    BY <1>1, <1>2, <1>8 DEF Starts, OneStart, Starting
  <2>2. \A d \in Calls : call[d].at \notin {"releasing", "released", "rejected"}
    BY <1>1, <1>8, <2>1 DEF Starts, ContextFits, Calm, Micro
  <2>3. app.state \in {"idle", "connecting"}
    BY <1>2, <1>8 DEF Starts, OneStart
  <2>4. OneStart'
    BY <1>1, <1>3, <1>4, <2>1, <2>3 DEF OneStart, Starting
  <2>5. ContextFits'
    BY <1>3, <1>4, <1>5, <2>2 DEF ContextFits
  <2>6. MicrophoneFits'
    BY <1>5, <1>6, <1>8, <2>1 DEF Starts, MicrophoneFits
  <2>7. PendingFresh'
    BY <1>1, <1>5, <1>8 DEF Starts, PendingFresh, Unsent, Made
  <2> QED BY <2>4, <2>5, <2>6, <2>7 DEF Starts
<1>9. ASSUME Handlers PROVE Handlers'
  <2>1. \A d \in Calls \ {c} : call[d].op \in {"none", "closed"}
    BY <1>0, <1>2, <1>9, HandlerAlone DEF Handlers, HandlerOps
  <2>2. stream.socket \in {None, made}
    BY <1>1, <1>9 DEF Handlers, OneHandler, HandlerFits
  <2>3. HandlerFits(c)'
    BY <1>3, <1>4, <1>5, <2>2 DEF HandlerFits, Releasing
  <2>4. OneHandler'
    BY <1>4, <2>1, <2>3, OnlyHandler
  <2>5. NoneForgotten'
    BY <1>1, <1>4, <1>5, <1>9 DEF Handlers, NoneForgotten
  <2> QED BY <2>4, <2>5 DEF Handlers
<1> QED BY <1>1, <1>4, <1>7, <1>8, <1>9 DEF IInv

LEMMA ContextClosedInvariant == \A c \in Calls : IInv /\ ContextClosed(c) => IInv'
<1> SUFFICES ASSUME NEW c \in Calls, IInv, ContextClosed(c) PROVE IInv'
  OBVIOUS
<1>0. Types /\ CallsFit
  BY DEF IInv
<1> DEFINE r == [call[c] EXCEPT !.at = "released"]
<1>1. /\ Calm /\ call[c].at = "releasing"
      /\ stream' = [stream EXCEPT !.media = None, !.context = "none"]
      /\ call' = [call EXCEPT ![c] = r]
      /\ UNCHANGED <<app, ws, mic, epoch, overlapped>>
  BY DEF ContextClosed, Event, Going
<1>2. r \in CallType /\ Fits(r) /\ r.op = call[c].op /\ r.at = "released" /\ r.socket = call[c].socket
  BY <1>0, <1>1 DEF Types, CallType, CallsFit, Fits, Starting, Releasing, Places, Micro
<1> HIDE DEF r
<1>3. /\ call' \in [Calls -> CallType] /\ CallsFit' /\ call'[c] = r
      /\ \A d \in Calls \ {c} : call'[d] = call[d]
  BY <1>0, <1>1, <1>2, CallSet DEF Types
<1>4. /\ stream' \in StreamType /\ stream'.socket = stream.socket
      /\ stream'.context = "none" /\ stream'.pending = stream.pending
  <2> HIDE DEF Sockets
  <2> QED BY <1>0, <1>1 DEF Types, StreamType
<1>5. Types'
  BY <1>0, <1>1, <1>3, <1>4 DEF Types
<1>6. ASSUME Starts PROVE Starts'
  <2>1. stream.context = "closing" /\ \A d \in Calls \ {c} : call[d].at # "releasing"
    BY <1>1, <1>6 DEF Starts, ContextFits
  <2>2. \A d \in Calls : call[d].at # "rejected"
    BY <1>1 DEF Calm, Micro
  <2>3. OneStart'
    BY <1>1, <1>2, <1>3, <1>4, <1>6, OneStartKept DEF Starts, Starting
  <2>4. ContextFits'
    BY <1>2, <1>3, <1>4, <2>1, <2>2 DEF ContextFits
  <2>5. MicrophoneFits'
    BY <1>1, <1>6, <2>1 DEF Starts, MicrophoneFits
  <2>6. PendingFresh'
    BY <1>1, <1>4, <1>6 DEF Starts, PendingFresh, Unsent, Made
  <2> QED BY <2>3, <2>4, <2>5, <2>6 DEF Starts
<1>7. ASSUME Handlers PROVE Handlers'
  <2>1. OneHandler'
    BY <1>1, <1>2, <1>3, <1>4, <1>7 DEF Handlers, OneHandler, HandlerOps, HandlerFits, Releasing
  <2>2. NoneForgotten'
    BY <1>1, <1>2, <1>3, <1>4, <1>7 DEF Handlers, NoneForgotten
  <2> QED BY <2>1, <2>2 DEF Handlers
<1> QED BY <1>1, <1>3, <1>5, <1>6, <1>7 DEF IInv

\* Calls that go on because their connection has changed: each from where it waited.
Woken(c, s) ==
    /\ call[c].at \in {"connecting", "clearing"} /\ call[c].socket = s
    /\ call'[c].op = call[c].op /\ call'[c].socket = call[c].socket
    /\ call'[c].at = IF call[c].at = "clearing" THEN "cleared" ELSE call'[c].at
    /\ call'[c].at \in {"connected", "failed", "cleared"}
    /\ call[c].at = "connecting" => call'[c].at # "cleared"

\* They stay what they were called for, and no start is made or ended by it.
LEMMA WokenFits ==
  ASSUME call \in [Calls -> CallType], CallsFit, NEW s \in Sockets,
         DOMAIN call' = Calls, call' = [d \in Calls |-> call'[d]],
         \A d \in Calls : call'[d] = call[d] \/ (Woken(d, s) /\ call'[d] \in CallType)
  PROVE  /\ call' \in [Calls -> CallType] /\ CallsFit'
         /\ \A d \in Calls : /\ call'[d].op = call[d].op /\ call'[d].socket = call[d].socket
                             /\ call'[d].at \in Starting => call[d].at \in Starting
                             /\ call'[d].at # call[d].at => Woken(d, s)
<1>1. call' \in [Calls -> CallType]
  OBVIOUS
<1>2. \A d \in Calls : Woken(d, s) => Fits(call'[d])
  BY DEF Woken, CallsFit, Fits, Starting, Releasing
<1>3. CallsFit'
  BY <1>2 DEF CallsFit
<1>4. ASSUME NEW d \in Calls
      PROVE  /\ call'[d].op = call[d].op /\ call'[d].socket = call[d].socket
             /\ call'[d].at \in Starting => call[d].at \in Starting
             /\ call'[d].at # call[d].at => Woken(d, s)
  <2>1. CASE call'[d] = call[d]
    BY <2>1
  <2>2. CASE Woken(d, s)
    BY <2>2 DEF Woken, Starting
  <2> QED BY <2>1, <2>2
<1> QED BY <1>1, <1>3, <1>4

\* One call that goes on where it is told to.
LEMMA Goes ==
  ASSUME call \in [Calls -> CallType], NEW d \in Calls, NEW to \in {"connected", "failed", "cleared"}
  PROVE  LET r == [call[d] EXCEPT !.at = to]
         IN  r \in CallType /\ r.op = call[d].op /\ r.at = to /\ r.socket = call[d].socket
<1>1. call[d] \in CallType
  OBVIOUS
<1>2. to \in Places
  BY DEF Places, Micro
<1> QED BY <1>1, <1>2 DEF CallType

\* What is left of the invariants about starts when calls go on so.
LEMMA WokenStarts ==
  ASSUME OneStart, ContextFits, MicrophoneFits, NEW s \in Sockets,
         \A d \in Calls : /\ call'[d].op = call[d].op
                          /\ call'[d].at \in Starting => call[d].at \in Starting
                          /\ call'[d].at # call[d].at => Woken(d, s),
         stream'.context = stream.context, stream'.media = stream.media,
         app' = app, mic' = mic
  PROVE  OneStart' /\ ContextFits' /\ MicrophoneFits'
<1>1. OneStart'
  BY OneStartKept
<1>2. \A d \in Calls : call'[d].at # call[d].at =>
         /\ call[d].at \in {"connecting", "clearing"}
         /\ call'[d].at \in {"connected", "failed", "cleared"}
  BY DEF Woken
<1>3. ContextFits'
  BY <1>2 DEF ContextFits
<1>4. MicrophoneFits'
  BY DEF MicrophoneFits
<1> QED BY <1>1, <1>3, <1>4

\* No connection is forgotten when one that was being made is settled.
LEMMA SettledNotForgotten ==
  ASSUME NoneForgotten, NEW s \in Sockets, app' = app, stream'.socket = stream.socket,
         \A t \in Sockets \ {s} : ws'[t] = ws[t], ws'[s].at # "connecting",
         ws'[s].at = "open" => s = stream.socket \/ ws'[s].late,
         \A d \in Calls : call[d].socket # s => call'[d] = call[d]
  PROVE  NoneForgotten'
<1>1. ASSUME NEW t \in Sockets, t # s
      PROVE  /\ ws'[t].at = "connecting" =>
                   ws'[t].late \/ \E d \in Calls : call'[d].at = "connecting" /\ call'[d].socket = t
             /\ ws'[t].at = "open" => t = stream'.socket \/ ws'[t].committed \/ ws'[t].late
  <2>1. ws'[t] = ws[t]
    BY <1>1
  <2>2. ASSUME ws[t].at = "connecting", ~ws[t].late
        PROVE  \E d \in Calls : call'[d].at = "connecting" /\ call'[d].socket = t
    <3>1. PICK d \in Calls : call[d].at = "connecting" /\ call[d].socket = t
      BY <2>2 DEF NoneForgotten
    <3> QED BY <1>1, <3>1
  <2>3. ws[t].at = "open" => t = stream'.socket \/ ws[t].committed \/ ws[t].late
    BY DEF NoneForgotten
  <2> QED BY <2>1, <2>2, <2>3
<1> QED BY <1>1 DEF NoneForgotten

LEMMA OpensInvariant == \A s \in Sockets : IInv /\ Opens(s) => IInv'
<1> SUFFICES ASSUME NEW s \in Sockets, IInv, Opens(s) PROVE IInv'
  OBVIOUS
<1>0. Types /\ CallsFit /\ call \in [Calls -> CallType] /\ stream.pending \in Seq(Kept)
  BY StreamFields DEF IInv, Types
<1>1. /\ Calm /\ ws[s].at = "connecting" /\ UNCHANGED <<app, mic, epoch, overlapped>>
      /\ call' = [d \in Calls |-> IF Waits(d, "connecting", s) THEN [call[d] EXCEPT !.at = "connected"] ELSE call[d]]
  BY DEF Opens, Event, Going, Wakes
<1>2. /\ ws' \in [Sockets -> SocketType] /\ ws'[s].at = "open"
      /\ ws'[s].stale = (\E i \in 1..Len(stream.pending) : ~stream.pending[i].closing /\ stream.pending[i].of < ws[s].of)
      /\ ws'[s].of = ws[s].of /\ ws'[s].late = ws[s].late
      /\ \A t \in Sockets \ {s} : ws'[t] = ws[t]
  <2> DEFINE old == \E i \in 1..Len(stream.pending) : ~stream.pending[i].closing /\ stream.pending[i].of < ws[s].of
             r == [ws[s] EXCEPT !.at = "open", !.stale = old]
  <2>1. ws[s] \in SocketType /\ old \in BOOLEAN
    BY <1>0 DEF Types
  <2>2. ws' = [ws EXCEPT ![s] = r]
    BY <1>0 DEF Opens, Types
  <2> HIDE DEF old
  <2>3. r \in SocketType /\ r.at = "open" /\ r.stale = old /\ r.of = ws[s].of /\ r.late = ws[s].late
    BY <2>1 DEF SocketType
  <2> HIDE DEF r
  <2>4. ws' \in [Sockets -> SocketType] /\ ws'[s] = r /\ \A t \in Sockets \ {s} : ws'[t] = ws[t]
    BY <1>0, <2>2, <2>3, SocketSet DEF Types
  <2> QED BY <2>3, <2>4 DEF old
<1>3. /\ stream' \in StreamType /\ stream'.socket = stream.socket /\ stream'.media = stream.media
      /\ stream'.context = stream.context /\ stream'.pending = <<>> /\ Len(stream'.pending) = 0
  <2>1. <<>> \in Seq(Kept) /\ Len(<<>>) = 0
    OBVIOUS
  <2> HIDE DEF Sockets
  <2> QED BY <1>0, <2>1 DEF Opens, Types, StreamType
<1>4. \A d \in Calls :
        /\ call[d].at = "connecting" /\ call[d].socket = s =>
              /\ call'[d] \in CallType /\ call'[d].op = call[d].op /\ call'[d].socket = s
              /\ call'[d].at = "connected"
        /\ ~(call[d].at = "connecting" /\ call[d].socket = s) => call'[d] = call[d]
  BY <1>0, <1>1, Goes DEF Waits
<1>5. /\ call' \in [Calls -> CallType] /\ CallsFit'
      /\ \A d \in Calls : /\ call'[d].op = call[d].op /\ call'[d].socket = call[d].socket
                          /\ call'[d].at \in Starting => call[d].at \in Starting
                          /\ call'[d].at # call[d].at => Woken(d, s)
  <2>1. DOMAIN call' = Calls /\ call' = [d \in Calls |-> call'[d]]
    BY <1>1
  <2>2. \A d \in Calls : call'[d] = call[d] \/ (Woken(d, s) /\ call'[d] \in CallType)
    BY <1>4 DEF Woken
  <2> HIDE DEF Calls, Sockets
  <2> QED BY <1>0, <2>1, <2>2, WokenFits
<1>6. Types'
  BY <1>0, <1>1, <1>2, <1>3, <1>5, BoundsAssumption DEF Types
<1>7. ASSUME Starts PROVE Starts'
  <2>1. OneStart' /\ ContextFits' /\ MicrophoneFits'
    BY <1>1, <1>3, <1>5, <1>7, WokenStarts DEF Starts
  <2>2. ~ws'[s].stale
    <3>1. epoch \in Nat /\ ws[s].of \in Nat /\ ws[s].of <= epoch
      BY <1>0, <1>7 DEF Types, SocketType, Starts, PendingFresh
    <3>2. \A i \in 1..Len(stream.pending) : stream.pending[i].closing \/ ~(stream.pending[i].of < ws[s].of)
      BY <1>7, <3>1 DEF Starts, PendingFresh
    <3> QED BY <1>2, <3>2
  <2>3. \A t \in Sockets : ws'[t].of <= epoch' /\ ~ws'[t].stale
    <3>1. \A t \in Sockets : ws[t].of <= epoch /\ ~ws[t].stale
      BY <1>7 DEF Starts, PendingFresh
    <3> QED BY <1>1, <1>2, <2>2, <3>1
  <2>4. \A i \in 1..Len(stream'.pending) : FALSE
    BY <1>3
  <2>5. PendingFresh'
    BY <2>3, <2>4 DEF PendingFresh, Unsent
  <2> QED BY <2>1, <2>5 DEF Starts
<1>8. ASSUME Handlers PROVE Handlers'
  <2>1. ASSUME NEW d \in Calls PROVE HandlerFits(d)'
    <3>1. HandlerFits(d) /\ call[d].at \notin {"connected", "failed"}
      BY <1>1, <1>8 DEF Handlers, OneHandler, Calm, Micro
    <3>2. CASE call[d].at = "connecting" /\ call[d].socket = s
      BY <1>1, <1>3, <1>4, <3>1, <3>2 DEF HandlerFits, Releasing
    <3>3. CASE ~(call[d].at = "connecting" /\ call[d].socket = s)
      <4>1. call'[d] = call[d]
        BY <1>4, <3>3
      <4>2. call[d].at = "connecting" => ws'[call[d].socket].at = "connecting"
        <5>1. call[d].at = "connecting" => call[d].socket \in Sockets \ {s}
          BY <1>0, <3>3 DEF CallsFit, Fits, Starting, CallType
        <5> QED BY <1>2, <3>1, <5>1 DEF HandlerFits
      <4> QED BY <1>1, <1>3, <3>1, <4>1, <4>2 DEF HandlerFits
    <3> QED BY <3>2, <3>3
  <2>2. OneHandler'
    BY <1>5, <1>8, <2>1 DEF Handlers, OneHandler
  <2>3. ws[s].late \/ stream.socket = s
    BY <1>1, <1>8 DEF Handlers, NoneForgotten, OneHandler, HandlerFits
  <2>4. NoneForgotten'
    BY <1>1, <1>2, <1>3, <1>4, <1>8, <2>3, SettledNotForgotten DEF Handlers
  <2> QED BY <2>2, <2>4 DEF Handlers
<1> QED BY <1>1, <1>5, <1>6, <1>7, <1>8 DEF IInv

LEMMA ConnectFailsInvariant == \A s \in Sockets : IInv /\ ConnectFails(s) => IInv'
<1> SUFFICES ASSUME NEW s \in Sockets, IInv, ConnectFails(s) PROVE IInv'
  OBVIOUS
<1>0. Types /\ CallsFit /\ call \in [Calls -> CallType] /\ epoch \in Nat
  BY DEF IInv, Types
<1>1. /\ Calm /\ ws[s].at = "connecting" /\ UNCHANGED <<app, stream, mic, epoch, overlapped>>
      /\ ws' = [ws EXCEPT ![s] = Socket("closed")]
      /\ call' = [d \in Calls |-> IF Waits(d, "connecting", s) THEN [call[d] EXCEPT !.at = "failed"] ELSE call[d]]
  BY DEF ConnectFails, Event, Going, Wakes
<1>2. /\ ws' \in [Sockets -> SocketType] /\ ws'[s].at = "closed" /\ ws'[s].of = 0 /\ ~ws'[s].stale
      /\ \A t \in Sockets \ {s} : ws'[t] = ws[t]
  BY <1>0, <1>1, ClosedSocket, SocketSet DEF Types
<1>4. \A d \in Calls :
        /\ call[d].at = "connecting" /\ call[d].socket = s =>
              /\ call'[d] \in CallType /\ call'[d].op = call[d].op /\ call'[d].socket = s
              /\ call'[d].at = "failed"
        /\ ~(call[d].at = "connecting" /\ call[d].socket = s) => call'[d] = call[d]
  BY <1>0, <1>1, Goes DEF Waits
<1>5. /\ call' \in [Calls -> CallType] /\ CallsFit'
      /\ \A d \in Calls : /\ call'[d].op = call[d].op /\ call'[d].socket = call[d].socket
                          /\ call'[d].at \in Starting => call[d].at \in Starting
                          /\ call'[d].at # call[d].at => Woken(d, s)
  <2>1. DOMAIN call' = Calls /\ call' = [d \in Calls |-> call'[d]]
    BY <1>1
  <2>2. \A d \in Calls : call'[d] = call[d] \/ (Woken(d, s) /\ call'[d] \in CallType)
    BY <1>4 DEF Woken
  <2> HIDE DEF Calls, Sockets
  <2> QED BY <1>0, <2>1, <2>2, WokenFits
<1>6. Types'
  BY <1>0, <1>1, <1>2, <1>5 DEF Types
<1>7. ASSUME Starts PROVE Starts'
  <2>1. OneStart' /\ ContextFits' /\ MicrophoneFits'
    BY <1>1, <1>5, <1>7, WokenStarts DEF Starts
  <2>2. \A t \in Sockets : ws'[t].of <= epoch /\ (ws'[t].stale => ws[t].stale)
    BY <1>0, <1>2, <1>7 DEF Starts, PendingFresh
  <2>3. ~Made(stream.socket) => ~(Made(stream.socket)')
    <3>1. stream.socket \in Sockets \cup {None} /\ stream' = stream
      BY <1>0, <1>1, StreamFields DEF Types
    <3>2. \A t \in Sockets : ws'[t] = ws[t] \/ ws'[t].at = "closed"
      BY <1>2
    <3> QED BY <3>1, <3>2 DEF Made
  <2>4. PendingFresh'
    BY <1>0, <1>1, <1>7, <2>2, <2>3, PendingKept DEF Starts, PendingFresh
  <2> QED BY <2>1, <2>4 DEF Starts
<1>8. ASSUME Handlers PROVE Handlers'
  <2>1. ASSUME NEW d \in Calls PROVE HandlerFits(d)'
    <3>1. HandlerFits(d) /\ call[d].at \notin {"connected", "failed"}
      BY <1>1, <1>8 DEF Handlers, OneHandler, Calm, Micro
    <3>2. CASE call[d].at = "connecting" /\ call[d].socket = s
      BY <1>1, <1>2, <1>4, <3>1, <3>2 DEF HandlerFits, Releasing
    <3>3. CASE ~(call[d].at = "connecting" /\ call[d].socket = s)
      <4>1. call'[d] = call[d]
        BY <1>4, <3>3
      <4>2. call[d].at = "connecting" => ws'[call[d].socket].at = "connecting"
        <5>1. call[d].at = "connecting" => call[d].socket \in Sockets \ {s}
          BY <1>0, <3>3 DEF CallsFit, Fits, Starting, CallType
        <5> QED BY <1>2, <3>1, <5>1 DEF HandlerFits
      <4> QED BY <1>1, <3>1, <4>1, <4>2 DEF HandlerFits
    <3> QED BY <3>2, <3>3
  <2>2. OneHandler'
    BY <1>5, <1>8, <2>1 DEF Handlers, OneHandler
  <2>3. NoneForgotten'
    BY <1>1, <1>2, <1>4, <1>8, SettledNotForgotten DEF Handlers
  <2> QED BY <2>2, <2>3 DEF Handlers
<1> QED BY <1>1, <1>5, <1>6, <1>7, <1>8 DEF IInv

LEMMA TimesOutInvariant == \A c \in Calls : IInv /\ TimesOut(c) => IInv'
<1> SUFFICES ASSUME NEW c \in Calls, IInv, TimesOut(c) PROVE IInv'
  OBVIOUS
<1>0. Types /\ CallsFit /\ call \in [Calls -> CallType] /\ epoch \in Nat
  BY DEF IInv, Types
<1> DEFINE s == call[c].socket
<1>1. Calm /\ UNCHANGED <<app, stream, mic, epoch, overlapped>> /\ call[c].at \in {"connecting", "clearing"}
  BY DEF TimesOut, Event, Going
<1>2. s \in Sockets
  BY <1>0, <1>1 DEF CallsFit, Fits, Starting, CallType
<1>3. PICK to \in {"failed", "cleared"} :
        /\ call' = [call EXCEPT ![c] = [call[c] EXCEPT !.at = to]]
        /\ call[c].at = "connecting" => to = "failed" /\ ws' = [ws EXCEPT ![s].late = TRUE]
        /\ call[c].at = "clearing" => to = "cleared" /\ ws' = ws
  BY <1>0, <1>1 DEF TimesOut
<1>4. /\ ws' \in [Sockets -> SocketType]
      /\ call[c].at = "connecting" => ws'[s].late
      /\ \A t \in Sockets : /\ ws'[t].at = ws[t].at /\ ws'[t].of = ws[t].of
                            /\ ws'[t].stale = ws[t].stale /\ ws'[t].committed = ws[t].committed
                            /\ ws[t].late => ws'[t].late
  <2>1. CASE call[c].at = "clearing"
    BY <1>0, <1>3, <2>1 DEF Types
  <2>2. CASE call[c].at = "connecting"
    <3> DEFINE r == [ws[s] EXCEPT !.late = TRUE]
    <3>1. ws[s] \in SocketType
      BY <1>0, <1>2 DEF Types
    <3>2. /\ r \in SocketType /\ r.at = ws[s].at /\ r.of = ws[s].of /\ r.stale = ws[s].stale
          /\ r.committed = ws[s].committed /\ r.late = TRUE
      <4> HIDE DEF s
      <4> QED BY <3>1 DEF SocketType
    <3>3. ws' = [ws EXCEPT ![s] = r]
      BY <1>3, <2>2
    <3> HIDE DEF r
    <3>4. ws' \in [Sockets -> SocketType] /\ ws'[s] = r /\ \A t \in Sockets \ {s} : ws'[t] = ws[t]
      <4> HIDE DEF s
      <4> QED BY <1>0, <1>2, <3>2, <3>3, SocketSet DEF Types
    <3> QED BY <3>2, <3>4
  <2> QED BY <1>1, <2>1, <2>2
<1>5. /\ call'[c] \in CallType /\ call'[c].op = call[c].op /\ call'[c].socket = s /\ call'[c].at = to
      /\ \A d \in Calls \ {c} : call'[d] = call[d]
      /\ DOMAIN call' = Calls /\ call' = [d \in Calls |-> call'[d]]
  <2>1. LET r == [call[c] EXCEPT !.at = to]
        IN  r \in CallType /\ r.op = call[c].op /\ r.at = to /\ r.socket = call[c].socket
    BY <1>0, Goes
  <2>2. /\ call'[c] = [call[c] EXCEPT !.at = to] /\ \A d \in Calls \ {c} : call'[d] = call[d]
        /\ DOMAIN call' = Calls /\ call' = [d \in Calls |-> call'[d]]
    BY <1>0, <1>3
  <2> QED BY <2>1, <2>2
<1>6. /\ call' \in [Calls -> CallType] /\ CallsFit'
      /\ \A d \in Calls : /\ call'[d].op = call[d].op /\ call'[d].socket = call[d].socket
                          /\ call'[d].at \in Starting => call[d].at \in Starting
                          /\ call'[d].at # call[d].at => Woken(d, s)
  <2>1. \A d \in Calls : call'[d] = call[d] \/ (Woken(d, s) /\ call'[d] \in CallType)
    BY <1>1, <1>3, <1>5 DEF Woken
  <2> HIDE DEF Calls, Sockets, s
  <2> QED BY <1>0, <1>2, <1>5, <2>1, WokenFits
<1>7. Types'
  BY <1>0, <1>1, <1>4, <1>6 DEF Types
<1>8. ASSUME Starts PROVE Starts'
  <2>1. OneStart' /\ ContextFits' /\ MicrophoneFits'
    <3> HIDE DEF s
    <3> QED BY <1>1, <1>2, <1>6, <1>8, WokenStarts DEF Starts
  <2>2. PendingFresh'
    BY <1>0, <1>1, <1>4, <1>8, StreamFields DEF Starts, PendingFresh, Unsent, Made, Types
  <2> QED BY <2>1, <2>2 DEF Starts
<1>9. ASSUME Handlers PROVE Handlers'
  <2>1. ASSUME NEW d \in Calls \ {c} PROVE HandlerFits(d)'
    <3>1. HandlerFits(d) /\ call[d].at \notin {"connected", "failed"} /\ call'[d] = call[d]
      BY <1>1, <1>5, <1>9 DEF Handlers, OneHandler, Calm, Micro
    <3>2. call[d].at = "connecting" => call[d].socket \in Sockets
      BY <1>0 DEF CallsFit, Fits, Starting, CallType
    <3> QED BY <1>1, <1>4, <3>1, <3>2 DEF HandlerFits
  <2>2. HandlerFits(c)'
    <3>1. HandlerFits(c)
      BY <1>9 DEF Handlers, OneHandler
    <3> QED BY <1>1, <1>3, <1>4, <1>5, <3>1 DEF HandlerFits, Releasing
  <2>3. OneHandler'
    BY <1>6, <1>9, <2>1, <2>2 DEF Handlers, OneHandler
  <2>4. NoneForgotten'
    BY <1>1, <1>3, <1>4, <1>5, <1>9 DEF Handlers, NoneForgotten
  <2> QED BY <2>3, <2>4 DEF Handlers
<1> QED BY <1>1, <1>6, <1>7, <1>8, <1>9 DEF IInv

\* A final that is taken leaves the connections where they are.
LEMMA FinalArrivesInvariant == \A s \in Sockets : IInv /\ FinalArrives(s) => IInv'
<1> SUFFICES ASSUME NEW s \in Sockets, IInv, FinalArrives(s) PROVE IInv'
  OBVIOUS
<1>0. Types /\ CallsFit
  BY DEF IInv
<1>1. Calm /\ IsOpen(s) /\ ws[s].committed /\ UNCHANGED <<call, mic, epoch, overlapped>>
  BY DEF FinalArrives, Event, Going
<1>2. /\ ws' \in [Sockets -> SocketType]
      /\ \A t \in Sockets :
            /\ ws'[t].at = ws[t].at /\ ws'[t].of = ws[t].of /\ ws'[t].stale = ws[t].stale
            /\ ws'[t].committed = ws[t].committed /\ ws'[t].late = ws[t].late
  <2> DEFINE r == [ws[s] EXCEPT !.answered = TRUE]
  <2>1. ws[s] \in SocketType
    BY <1>0 DEF Types
  <2>2. /\ r \in SocketType /\ r.at = ws[s].at /\ r.of = ws[s].of /\ r.stale = ws[s].stale
        /\ r.committed = ws[s].committed /\ r.late = ws[s].late
    BY <2>1 DEF SocketType
  <2>3. ws' = [ws EXCEPT ![s] = r]
    BY DEF FinalArrives
  <2> HIDE DEF r
  <2>4. ws' \in [Sockets -> SocketType] /\ ws'[s] = r /\ \A t \in Sockets \ {s} : ws'[t] = ws[t]
    BY <1>0, <2>2, <2>3, SocketSet DEF Types
  <2> QED BY <2>2, <2>4
<1>3. CASE stream.socket = s /\ stream.given /\ app.accept /\ app.state = "finalizing"
  <2>1. app' \in AppType /\ app'.state = "idle"
    BY <1>0, <1>3 DEF FinalArrives, Types, AppType
  <2>2. /\ stream' \in StreamType /\ stream'.socket = None /\ stream'.context = stream.context
        /\ stream'.media = stream.media /\ stream'.pending = <<>> /\ Len(stream'.pending) = 0
    <3>1. <<>> \in Seq(Kept) /\ Len(<<>>) = 0 /\ None \in Sockets \cup {None}
      OBVIOUS
    <3>2. stream' = [stream EXCEPT !.socket = None, !.given = FALSE, !.pending = <<>>]
      BY <1>3 DEF FinalArrives
    <3> HIDE DEF Sockets
    <3> QED BY <1>0, <3>1, <3>2 DEF Types, StreamType
  <2>3. Types' /\ CallsFit'
    BY <1>0, <1>1, <1>2, <2>1, <2>2, BoundsAssumption DEF Types, CallsFit
  <2>4. ASSUME Starts PROVE Starts'
    <3>1. \A d \in Calls : call[d].op # "start"
      BY <1>3, <2>4 DEF Starts, OneStart
    <3>2. \A d \in Calls : call[d].at # "module"
      BY <1>0, <3>1 DEF CallsFit, Fits, Types, CallType, Ops, Releasing
    <3>3. stream.context # "running"
      BY <1>3, <2>4, <3>2 DEF Starts, ContextFits
    <3>4. OneStart' /\ ContextFits' /\ MicrophoneFits'
      BY <1>1, <2>2, <2>4, <3>1, <3>3 DEF Starts, OneStart, ContextFits, MicrophoneFits
    <3>5. \A t \in Sockets : ws'[t].of <= epoch' /\ ~ws'[t].stale
      BY <1>1, <1>2, <2>4 DEF Starts, PendingFresh
    <3>6. \A i \in 1..Len(stream'.pending) : FALSE
      BY <2>2
    <3>7. PendingFresh'
      BY <3>5, <3>6 DEF PendingFresh, Unsent
    <3> QED BY <3>4, <3>7 DEF Starts
  <2>5. ASSUME Starts, Handlers PROVE Handlers'
    <3>1. \A d \in Calls : call[d].op \notin {"start", "clear"}
      BY <1>3, <2>5 DEF Starts, Handlers, OneStart, OneHandler, HandlerFits
    <3>2. \A d \in Calls : call'[d].at \in Releasing \cup {"none"}
      BY <1>0, <1>1, <3>1 DEF CallsFit, Fits, Types, CallType, Ops
    <3>3. OneHandler'
      BY <1>1, <2>2, <2>5, <3>1, <3>2 DEF Handlers, OneHandler, HandlerFits, Releasing
    <3>4. NoneForgotten'
      BY <1>1, <1>2, <1>3, <2>2, <2>5 DEF Handlers, NoneForgotten
    <3> QED BY <3>3, <3>4 DEF Handlers
  <2> QED BY <1>1, <2>3, <2>4, <2>5 DEF IInv
<1>4. CASE UNCHANGED <<app, stream>>
  <2>1. Types' /\ CallsFit'
    BY <1>0, <1>1, <1>2, <1>4 DEF Types, CallsFit
  <2>2. ASSUME Starts PROVE Starts'
    <3>1. OneStart' /\ ContextFits' /\ MicrophoneFits'
      BY <1>1, <1>4, <2>2 DEF Starts, OneStart, ContextFits, MicrophoneFits
    <3>2. PendingFresh'
      BY <1>0, <1>1, <1>2, <1>4, <2>2, StreamFields DEF Starts, PendingFresh, Unsent, Made, Types
    <3> QED BY <3>1, <3>2 DEF Starts
  <2>3. ASSUME Handlers PROVE Handlers'
    <3>1. \A d \in Calls : call[d].at = "connecting" \/ call[d].at = "failed" => call[d].socket \in Sockets
      BY <1>0 DEF CallsFit, Fits, Starting, Types, CallType
    <3>2. OneHandler'
      BY <1>1, <1>2, <1>4, <2>3, <3>1 DEF Handlers, OneHandler, HandlerFits
    <3>3. NoneForgotten'
      BY <1>1, <1>2, <1>4, <2>3 DEF Handlers, NoneForgotten
    <3> QED BY <3>2, <3>3 DEF Handlers
  <2> QED BY <1>1, <2>1, <2>2, <2>3 DEF IInv
<1> QED BY <1>3, <1>4 DEF FinalArrives

LEMMA ClosedInvariant == \A s \in Sockets : IInv /\ Closed(s) => IInv'
<1> SUFFICES ASSUME NEW s \in Sockets, IInv, Closed(s) PROVE IInv'
  OBVIOUS
<1>0. Types /\ CallsFit /\ call \in [Calls -> CallType] /\ epoch \in Nat
  BY DEF IInv, Types
<1>1. /\ Calm /\ ws[s].at \in {"open", "closing"} /\ stream.socket # s
      /\ UNCHANGED <<app, stream, mic, epoch, overlapped>>
      /\ ws' = [ws EXCEPT ![s] = Socket("closed")]
      /\ call' = [c \in Calls |-> CASE Waits(c, "connecting", s) -> [call[c] EXCEPT !.at = "failed"]
                                    [] Waits(c, "clearing", s) -> [call[c] EXCEPT !.at = "cleared"]
                                    [] OTHER -> call[c]]
  BY DEF Closed, Event, Going
<1>2. /\ ws' \in [Sockets -> SocketType] /\ ws'[s].at = "closed" /\ ws'[s].of = 0 /\ ~ws'[s].stale
      /\ \A t \in Sockets \ {s} : ws'[t] = ws[t]
  BY <1>0, <1>1, ClosedSocket, SocketSet DEF Types
<1>3. ASSUME NEW d \in Calls
      PROVE  /\ call[d].at = "connecting" /\ call[d].socket = s =>
                   /\ call'[d] \in CallType /\ call'[d].op = call[d].op /\ call'[d].socket = s
                   /\ call'[d].at = "failed"
             /\ call[d].at = "clearing" /\ call[d].socket = s =>
                   /\ call'[d] \in CallType /\ call'[d].op = call[d].op /\ call'[d].socket = s
                   /\ call'[d].at = "cleared"
             /\ ~(call[d].at \in {"connecting", "clearing"} /\ call[d].socket = s) => call'[d] = call[d]
  <2>1. CASE Waits(d, "connecting", s)
    <3>1. call'[d] = [call[d] EXCEPT !.at = "failed"] /\ call[d].at # "clearing"
      BY <1>1, <2>1 DEF Waits
    <3> QED BY <1>0, <2>1, <3>1, Goes DEF Waits
  <2>2. CASE Waits(d, "clearing", s)
    <3>1. call'[d] = [call[d] EXCEPT !.at = "cleared"] /\ call[d].at # "connecting"
      BY <1>1, <2>2 DEF Waits
    <3> QED BY <1>0, <2>2, <3>1, Goes DEF Waits
  <2>3. CASE ~Waits(d, "connecting", s) /\ ~Waits(d, "clearing", s)
    BY <1>1, <2>3 DEF Waits
  <2> QED BY <2>1, <2>2, <2>3
<1>4. /\ call' \in [Calls -> CallType] /\ CallsFit'
      /\ \A d \in Calls : /\ call'[d].op = call[d].op /\ call'[d].socket = call[d].socket
                          /\ call'[d].at \in Starting => call[d].at \in Starting
                          /\ call'[d].at # call[d].at => Woken(d, s)
  <2>1. DOMAIN call' = Calls /\ call' = [d \in Calls |-> call'[d]]
    BY <1>1
  <2>2. \A d \in Calls : call'[d] = call[d] \/ (Woken(d, s) /\ call'[d] \in CallType)
    BY <1>3 DEF Woken
  <2> HIDE DEF Calls, Sockets
  <2> QED BY <1>0, <2>1, <2>2, WokenFits
<1>5. Types'
  BY <1>0, <1>1, <1>2, <1>4 DEF Types
<1>6. ASSUME Starts PROVE Starts'
  <2>1. OneStart' /\ ContextFits' /\ MicrophoneFits'
    BY <1>1, <1>4, <1>6, WokenStarts DEF Starts
  <2>2. \A t \in Sockets : ws'[t].of <= epoch /\ (ws'[t].stale => ws[t].stale)
    BY <1>0, <1>2, <1>6 DEF Starts, PendingFresh
  <2>3. ~Made(stream.socket) => ~(Made(stream.socket)')
    <3>1. stream.socket \in Sockets \cup {None} /\ stream' = stream
      BY <1>0, <1>1, StreamFields DEF Types
    <3>2. \A t \in Sockets : ws'[t] = ws[t] \/ ws'[t].at = "closed"
      BY <1>2
    <3> QED BY <3>1, <3>2 DEF Made
  <2>4. PendingFresh'
    BY <1>0, <1>1, <1>6, <2>2, <2>3, PendingKept DEF Starts, PendingFresh
  <2> QED BY <2>1, <2>4 DEF Starts
<1>7. ASSUME Handlers PROVE Handlers'
  <2>1. ASSUME NEW d \in Calls PROVE HandlerFits(d)'
    <3>1. HandlerFits(d) /\ call[d].at \notin {"connected", "failed"}
      BY <1>1, <1>7 DEF Handlers, OneHandler, Calm, Micro
    <3>2. ~(call[d].at = "connecting" /\ call[d].socket = s)
      BY <1>1, <3>1 DEF HandlerFits
    <3>3. CASE call[d].at = "clearing" /\ call[d].socket = s
      BY <1>1, <1>3, <3>1, <3>3 DEF HandlerFits, Releasing
    <3>4. CASE ~(call[d].at = "clearing" /\ call[d].socket = s)
      <4>1. call'[d] = call[d]
        BY <1>3, <3>2, <3>4
      <4>2. call[d].at = "connecting" => ws'[call[d].socket].at = "connecting"
        <5>1. call[d].at = "connecting" => call[d].socket \in Sockets \ {s}
          BY <1>0, <3>2 DEF CallsFit, Fits, Starting, CallType
        <5> QED BY <1>2, <3>1, <5>1 DEF HandlerFits
      <4> QED BY <1>1, <3>1, <4>1, <4>2 DEF HandlerFits
    <3> QED BY <3>3, <3>4
  <2>2. OneHandler'
    BY <1>4, <1>7, <2>1 DEF Handlers, OneHandler
  <2>3. NoneForgotten'
    BY <1>1, <1>2, <1>3, <1>7, SettledNotForgotten DEF Handlers
  <2> QED BY <2>2, <2>3 DEF Handlers
<1> QED BY <1>1, <1>4, <1>5, <1>6, <1>7 DEF IInv

\* The close frame of the current connection.
LEMMA ServiceClosesInvariant == \A s \in Sockets : IInv /\ ServiceCloses(s) => IInv'
<1> SUFFICES ASSUME NEW s \in Sockets, IInv, ServiceCloses(s) PROVE IInv'
  OBVIOUS
<1>0. Types /\ CallsFit
  BY DEF IInv
<1>1. /\ ws[s].at = "open" /\ stream.socket = s /\ s # None
      /\ UNCHANGED <<app, stream, call, mic, epoch, overlapped>>
  BY DEF ServiceCloses, Event, Going, IsOpen
<1>2. /\ ws' \in [Sockets -> SocketType]
      /\ \A t \in Sockets :
            /\ ws'[t].of = ws[t].of /\ ws'[t].stale = ws[t].stale
            /\ ws'[t].committed = ws[t].committed /\ ws'[t].late = ws[t].late
            /\ ws'[t].at = IF t = s THEN "closing" ELSE ws[t].at
  <2> DEFINE r == [ws[s] EXCEPT !.at = "closing"]
  <2>1. ws[s] \in SocketType
    BY <1>0 DEF Types
  <2>2. /\ r \in SocketType /\ r.at = "closing" /\ r.of = ws[s].of /\ r.stale = ws[s].stale
        /\ r.committed = ws[s].committed /\ r.late = ws[s].late
    BY <2>1 DEF SocketType
  <2>3. ws' = [ws EXCEPT ![s] = r]
    BY DEF ServiceCloses
  <2> HIDE DEF r
  <2>4. ws' \in [Sockets -> SocketType] /\ ws'[s] = r /\ \A t \in Sockets \ {s} : ws'[t] = ws[t]
    BY <1>0, <2>2, <2>3, SocketSet DEF Types
  <2> QED BY <2>2, <2>4
<1>3. Types' /\ CallsFit'
  BY <1>0, <1>1, <1>2 DEF Types, CallsFit
<1>4. ASSUME Starts PROVE Starts'
  <2>1. OneStart' /\ ContextFits' /\ MicrophoneFits'
    BY <1>1, <1>4 DEF Starts, OneStart, ContextFits, MicrophoneFits
  <2>2. Made(stream.socket)
    BY <1>1 DEF Made
  <2>3. ~Unsent
    BY <1>4, <2>2 DEF Starts, PendingFresh
  <2>4. \A t \in Sockets : ws'[t].of <= epoch /\ (ws'[t].stale => ws[t].stale)
    BY <1>2, <1>4 DEF Starts, PendingFresh
  <2>5. PendingFresh'
    BY <1>0, <1>1, <1>4, <2>3, <2>4, PendingKept DEF Starts
  <2> QED BY <2>1, <2>5 DEF Starts
<1>5. ASSUME Handlers PROVE Handlers'
  <2>1. \A d \in Calls : call[d].at \in {"connecting", "failed"} => call[d].socket \in Sockets
    BY <1>0 DEF CallsFit, Fits, Starting, Types, CallType
  <2>2. OneHandler'
    BY <1>1, <1>2, <1>5, <2>1 DEF Handlers, OneHandler, HandlerFits
  <2>3. NoneForgotten'
    BY <1>1, <1>2, <1>5 DEF Handlers, NoneForgotten
  <2> QED BY <2>2, <2>3 DEF Handlers
<1> QED BY <1>1, <1>3, <1>4, <1>5 DEF IInv

\* And its close event.
LEMMA ClosedByServiceInvariant == \A s \in Sockets, c \in Calls : IInv /\ ClosedByService(s, c) => IInv'
<1> SUFFICES ASSUME NEW s \in Sockets, NEW c \in Calls, IInv, ClosedByService(s, c) PROVE IInv'
  OBVIOUS
<1>0. Types /\ CallsFit /\ epoch \in Nat
  BY DEF IInv, Types
<1> DEFINE now == [stream EXCEPT !.socket = None]
<1>1. /\ Calm /\ ws[s].at \in {"open", "closing"} /\ Made(stream.socket) /\ stream.socket = s /\ s # None
      /\ call[c].at = "none"
      /\ ws' = [ws EXCEPT ![s] = Socket("closed")] /\ ReleaseAudio(c, "closed", now)
      /\ UNCHANGED <<epoch, overlapped>>
  <2>1. s # None BY DEF Sockets, None
  <2> QED BY <2>1 DEF ClosedByService, Event, Going, Made, Free
<1>2. app' \in AppType /\ app'.state \in {app.state, "idle"}
  BY <1>0 DEF ClosedByService, Types, AppType
<1>3. /\ now \in StreamType /\ now.context = stream.context /\ now.media = stream.media
      /\ now.pending = stream.pending /\ now.socket = None
  BY <1>0 DEF Types, StreamType
<1> HIDE DEF now
<1>4. /\ call' \in [Calls -> CallType] /\ CallsFit'
      /\ \A d \in Calls \ {c} : call'[d] = call[d]
      /\ call'[c].op = "closed" /\ call'[c].at \in Releasing
      /\ stream.context = "running" => call'[c].at = "releasing" /\ stream'.context = "closing"
      /\ stream.context = "closing" => call'[c].at = "rejected" /\ stream'.context = "closing"
      /\ stream.context = "none" => call'[c].at = "released" /\ stream'.context = "none"
      /\ stream' \in StreamType /\ stream'.socket = None
      /\ stream'.media = stream.media /\ stream'.pending = stream.pending
      /\ mic' \in [Sockets -> {"off", "on", "wired"}]
      /\ \A t \in Sockets : mic'[t] = IF t = stream.media THEN "off" ELSE mic[t]
  BY <1>0, <1>1, <1>3, AudioReleased
<1>5. /\ ws' \in [Sockets -> SocketType] /\ ws'[s].at = "closed" /\ ws'[s].of = 0 /\ ~ws'[s].stale
      /\ \A t \in Sockets \ {s} : ws'[t] = ws[t]
  BY <1>0, <1>1, ClosedSocket, SocketSet DEF Types
<1>6. Types'
  BY <1>0, <1>1, <1>2, <1>4, <1>5 DEF Types
<1>7. ASSUME Starts PROVE Starts'
  <2>1. OneStart'
    <3>1. stream.context = "none" => stream'.context = "none"
      BY <1>4
    <3>2. \A d \in Calls : call'[d].op = "start" => call'[d] = call[d]
      BY <1>4
    <3> QED BY <1>2, <1>7, <3>1, <3>2, OneStartKept DEF Starts
  <2>2. ContextFits' /\ MicrophoneFits'
    BY <1>0, <1>1, <1>4, <1>7, AudioOff DEF Starts
  <2>3. \A t \in Sockets : ws'[t].of <= epoch /\ (ws'[t].stale => ws[t].stale)
    BY <1>0, <1>5, <1>7 DEF Starts, PendingFresh
  <2>4. ~Unsent
    BY <1>1, <1>7 DEF Starts, PendingFresh
  <2>5. PendingFresh'
    BY <1>0, <1>1, <1>4, <1>7, <2>3, <2>4, PendingKept DEF Starts
  <2> QED BY <2>1, <2>2, <2>5 DEF Starts
<1>8. ASSUME Handlers PROVE Handlers'
  <2>1. ASSUME NEW d \in Calls \ {c}
        PROVE  HandlerFits(d) /\ call[d].op # "clear" /\ call[d].at \notin {"connecting", "connected", "failed", "clearing", "cleared"}
    <3>1. HandlerFits(d) /\ call[d].at \notin Micro
      BY <1>1, <1>8 DEF Handlers, OneHandler, Calm
    <3>2. call[d].at \notin {"connecting", "clearing"}
      BY <1>1, <3>1 DEF HandlerFits
    <3> QED BY <1>0, <3>1, <3>2 DEF CallsFit, Fits, Micro
  <2>2. \A d \in Calls \ {c} : HandlerFits(d)'
    BY <1>4, <2>1 DEF HandlerFits
  <2>3. HandlerFits(c)'
    BY <1>4 DEF HandlerFits, Releasing
  <2>4. OneHandler'
    BY <1>4, <1>8, <2>2, <2>3 DEF Handlers, OneHandler, HandlerOps
  <2>5. ASSUME NEW t \in Sockets, t # s
        PROVE  /\ ws'[t].at = "connecting" =>
                     ws'[t].late \/ \E d \in Calls : call'[d].at = "connecting" /\ call'[d].socket = t
               /\ ws'[t].at = "open" => ws'[t].committed \/ ws'[t].late
    <3>1. ws'[t] = ws[t]
      BY <1>5, <2>5
    <3>2. ASSUME ws[t].at = "connecting", ~ws[t].late
          PROVE  \E d \in Calls : call'[d].at = "connecting" /\ call'[d].socket = t
      <4>1. PICK d \in Calls : call[d].at = "connecting" /\ call[d].socket = t
        BY <1>8, <3>2 DEF Handlers, NoneForgotten
      <4> QED BY <1>1, <1>4, <4>1
    <3>3. ws[t].at = "open" => ws[t].committed \/ ws[t].late
      BY <1>1, <1>8, <2>5 DEF Handlers, NoneForgotten
    <3> QED BY <3>1, <3>2, <3>3
  <2>6. NoneForgotten'
    BY <1>4, <1>5, <2>5 DEF NoneForgotten
  <2> QED BY <2>4, <2>6 DEF Handlers
<1> QED BY <1>1, <1>4, <1>6, <1>7, <1>8 DEF IInv

-----------------------------------------------------------------------------
(* The theorems.                                                             *)

LEMMA NextInvariant == IInv /\ [Next]_vars => IInv'
<1> SUFFICES ASSUME IInv, [Next]_vars PROVE IInv'
  OBVIOUS
<1>1. CASE ClearText \/ ClearNothing
  BY <1>1, ClearTextInvariant
<1>2. CASE Chunk
  BY <1>2, ChunkInvariant
<1>3. ASSUME NEW c \in Calls, User(c) PROVE IInv'
  BY <1>3, StartCaptureInvariant, StopCaptureInvariant, CancelCaptureInvariant, ClearSessionInvariant DEF User
<1>4. ASSUME NEW c \in Calls, Microtask(c) PROVE IInv'
  BY <1>4, ConnectedInvariant, StartFailsInvariant, ClearFailsInvariant, ClearGoesOnInvariant,
     StopCommitsInvariant, CancelEndsInvariant, StartEndsInvariant, NothingFollowsInvariant DEF Microtask
<1>5. ASSUME NEW c \in Calls, Waiting(c) PROVE IInv'
  BY <1>5, TimesOutInvariant, GrantedInvariant, RecordingInvariant, NoMicrophoneInvariant,
     ContextClosedInvariant DEF Waiting
<1>6. ASSUME NEW s \in Sockets, Opens(s) \/ ConnectFails(s) \/ FinalArrives(s) \/ ServiceCloses(s) \/ Closed(s)
      PROVE  IInv'
  BY <1>6, OpensInvariant, ConnectFailsInvariant, FinalArrivesInvariant, ServiceClosesInvariant, ClosedInvariant
<1>7. ASSUME NEW s \in Sockets, NEW c \in Calls, ClosedByService(s, c) PROVE IInv'
  BY <1>7, ClosedByServiceInvariant
<1>8. CASE UNCHANGED vars
  <2>1. Types' /\ CallsFit'
    BY <1>8 DEF vars, IInv, Types, CallsFit
  <2>2. Starts => Starts'
    BY <1>8 DEF vars, Starts, OneStart, ContextFits, MicrophoneFits, PendingFresh, Unsent, Made
  <2>3. Handlers => Handlers'
    BY <1>8 DEF vars, Handlers, OneHandler, HandlerFits, NoneForgotten
  <2> QED BY <1>8, <2>1, <2>2, <2>3 DEF vars, IInv
<1> QED BY <1>1, <1>2, <1>3, <1>4, <1>5, <1>6, <1>7, <1>8 DEF Next

\* Whatever the user, the devices and the service do, and however many connections and
\* calls there are, the strengthened invariant of stream.ts and App.tsx is kept.
THEOREM CaptureInvariant == Spec => []IInv
<1>1. Init => IInv
  BY InitInvariant
<1>2. IInv /\ [Next]_vars => IInv'
  BY NextInvariant
<1> QED BY <1>1, <1>2, PTL DEF Spec

\* Every variable of the page keeps its type, and no more chunks are kept than the limit.
THEOREM TypeCorrect == Spec => []TypeOK
<1>1. IInv => TypeOK
  <2> SUFFICES ASSUME IInv PROVE TypeOK
    OBVIOUS
  <2>1. app \in [state : {"idle", "connecting", "recording", "finalizing"}, accept : BOOLEAN]
    BY DEF IInv, Types, AppType
  <2>2. \A c \in Calls : call[c].op \in {"none", "start", "stop", "cancel", "clear", "closed"}
    BY DEF IInv, Types, CallType, Ops
  <2>3. \A s \in Sockets : ws[s].at \in {"none", "connecting", "open", "closing", "closed"}
                           /\ mic[s] \in {"off", "on", "wired"}
    BY DEF IInv, Types, SocketType
  <2>4. \A i \in 1..Len(stream.pending) : stream.pending[i].of \in Nat /\ stream.pending[i].closing \in BOOLEAN
    <3>1. stream.pending \in Seq(Kept)
      BY StreamFields DEF IInv, Types
    <3>2. \A i \in 1..Len(stream.pending) : stream.pending[i] \in Kept
      BY <3>1
    <3> QED BY <3>2 DEF Kept
  <2> QED BY <2>1, <2>2, <2>3, <2>4, StreamFields DEF IInv, Types, TypeOK
<1> QED BY <1>1, CaptureInvariant, PTL

\* Audio from before a clear, or of an earlier capture, goes to no session begun after it,
\* as long as no start begins while another is in flight or audio is being released: what
\* pendingPcm keeps for a connection being made is let go of in time.  What it keeps while
\* the service closes one goes to the next, and is excepted.
THEOREM NoAudioFromBefore == Spec => []NoStaleAudio
<1>1. IInv => NoStaleAudio
  BY DEF IInv, Starts, PendingFresh, NoStaleAudio
<1> QED BY <1>1, CaptureInvariant, PTL

\* When capture is idle and every handler has come to its end, releaseAudio has been run
\* and the connection given up or committed, as long as no two handlers overlapped.
THEOREM QuietWhenIdle == Spec => []IdleIsQuiet
<1>1. IInv => IdleIsQuiet
  <2> SUFFICES ASSUME IInv, app.state = "idle", ~InFlight, overlapped = "nothing", NEW s \in Sockets
               PROVE  mic[s] = "off" /\ (IsOpen(s) => ws[s].committed \/ ws[s].late)
    BY DEF IdleIsQuiet
  <2>1. Types /\ Starts /\ Handlers /\ \A c \in Calls : call[c].at = "none"
    BY DEF IInv, InFlight
  <2>2. stream.context # "running"
    BY <2>1 DEF Starts, ContextFits
  <2>3. mic[s] = "off"
    BY <2>1, <2>2 DEF Starts, MicrophoneFits
  <2>4. stream.socket = None
    BY <2>1 DEF Handlers, NoneForgotten
  <2>5. IsOpen(s) => ws[s].committed \/ ws[s].late
    BY <2>1, <2>4 DEF Handlers, NoneForgotten, IsOpen
  <2> QED BY <2>3, <2>5
<1> QED BY <1>1, CaptureInvariant, PTL
=============================================================================
