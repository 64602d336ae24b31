------------------------- MODULE DesktopClientProofs -------------------------
(* Proofs of the safety properties of DesktopClient, for any number of       *)
(* recordings, callbacks, mishaps and calls inside one another.              *)
EXTENDS DesktopClient, TLAPS

Terminal == {"failed", "completed"}
Ready == {"connected", "hypothesis"}

-----------------------------------------------------------------------------
(* The inductive invariant.                                                  *)

\* The calls that wait: each start is of a session of its own, and there is one shutdown.
\* Only the first call can start a session that has not gone astray.
CallsNested ==
    /\ \A i \in 1..Len(waits) :
          /\ waits[i].call = "begin" <=> waits[i].of # None
          /\ waits[i].call = "begin" => thread[waits[i].of].pc = "none" /\ waits[i].of <= started
          /\ waits[i].call = "begin" /\ i # 1 => waits[i].of \in astray
          /\ waits[i].call = "shutdown" => phase # "running"
    /\ \A i, j \in 1..Len(waits) :
          /\ waits[i].of = waits[j].of /\ waits[i].of # None => i = j
          /\ waits[i].call = "shutdown" /\ waits[j].call = "shutdown" => i = j
    /\ \A w \in Sessions : phase # "gone" /\ w > started => thread[w].pc = "none"
    /\ phase = "gone" => waits = <<>> /\ worker = None /\ ui = <<>>
    /\ phase = "quitting" /\ waits = <<>> => ~last
    /\ phase = "gone" => ~last

\* A session that is current while another begins or ends has gone astray, and so has one
\* that begins while another ends.
WorkerWaits ==
    /\ \A i \in 1..Len(waits) : waits[i].call # "shutdown" => worker = None \/ worker \in astray
    /\ \A i \in 1..Len(waits) : waits[i].call = "begin" /\ waits[i].of \notin astray =>
          /\ state # "idle"
          /\ \A j \in 1..Len(waits) : waits[j].call # "end"
    /\ state = "idle" => worker = None \/ worker \in astray

\* The queue: nothing of a session that has not connected, nothing after its end.
QueueOrder ==
    /\ \A i \in 1..Len(ui) : ui[i].of = None => ui[i].cb = "failed"
    /\ \A i \in 1..Len(ui) : ui[i].of # None => thread[ui[i].of].pc \notin {"none", "connecting"}
    /\ \A i \in 1..Len(ui) : ui[i].of # None /\ ui[i].cb \in Terminal =>
          /\ thread[ui[i].of].pc = "closed"
          /\ \A j \in 1..Len(ui) : j > i => ui[j].of # ui[i].of

\* With no session astray: what a session has still to hear of, and has been fed, is of the
\* session that is current.
Current ==
    /\ \A i \in 1..Len(ui) : ui[i].cb \in Ready => ui[i].of = worker
    /\ \A i \in 1..Len(ui) : ui[i].cb = "connected" =>
          /\ ~thread[ui[i].of].fed /\ capture = None
          /\ \A j \in 1..Len(ui) : j # i => ui[j].cb \notin Ready
    /\ \A w \in Sessions : thread[w].pc = "connecting" => w = worker /\ capture = None
    /\ \A w \in Sessions : thread[w].pc \in {"none", "connecting"} => ~thread[w].fed
    /\ \A w \in Sessions : Live(w) /\ thread[w].fed => w = worker
    /\ capture \in {None, worker}

\* With no session astray: text of ours is on the clipboard only while it is known to be,
\* and what is to be put back is the user's.
Clip ==
    /\ mine # Dictated
    /\ ~last \/ clipboard # Dictated => clipboard = mine
    /\ last /\ clipboard = Dictated => original = mine
    /\ last \/ staged => original # Dictated
    /\ Looping /\ worker # None => original # Dictated
    /\ worker = None /\ (\A i \in 1..Len(waits) : waits[i].call # "end") => ~last /\ ~staged
    /\ \A i \in 1..Len(waits) : waits[i].answered => worker = None /\ ~last /\ ~staged
    /\ \A i \in 1..Len(waits) : waits[i].answered /\ waits[i].call = "begin" => phase = "quitting"

\* And, while no session has gone astray, what is heard and fed, the microphone and the
\* clipboard.
Faithful ==
    /\ astray = {} => Current /\ MicFollowsState /\ Clip
    /\ ~unheld

-----------------------------------------------------------------------------
(* What becomes of a queue, of the calls that wait, and of the threads.      *)

\* Sessions are numbers, and None is none of them.
LEMMA SessionsAreNumbers == None \notin Sessions /\ Sessions \subseteq Nat
BY ClientAssumption DEF Sessions, None

\* One more at the end of a sequence.
LEMMA Appended ==
    ASSUME NEW S, NEW s \in Seq(S), NEW e \in S, NEW t, t = Append(s, e)
    PROVE  /\ t \in Seq(S) /\ Len(t) = Len(s) + 1 /\ Len(s) \in Nat /\ t[Len(s) + 1] = e
           /\ \A i \in 1..Len(s) : i \in 1..Len(t) /\ t[i] = s[i]
           /\ \A i \in 1..Len(t) : (i \in 1..Len(s) /\ t[i] = s[i]) \/ (i = Len(s) + 1 /\ t[i] = e)
OBVIOUS

\* One less at its beginning.
LEMMA Taken ==
    ASSUME NEW S, NEW s \in Seq(S), s # <<>>, NEW t, t = Tail(s)
    PROVE  /\ t \in Seq(S) /\ Len(t) = Len(s) - 1 /\ Len(s) \in Nat \ {0}
           /\ 1 \in 1..Len(s) /\ Head(s) = s[1]
           /\ \A i \in 1..Len(t) : i + 1 \in 1..Len(s) /\ i + 1 > 1 /\ t[i] = s[i + 1]
OBVIOUS

\* What a call that waits leaves when it has returned.
LEMMA Returned ==
    ASSUME waits \in Seq(Frames), NEW call, NEW text, Returns(call, text)
    PROVE  /\ waits' \in Seq(Frames) /\ Len(waits) \in Nat \ {0} /\ Len(waits') = Len(waits) - 1
           /\ Len(waits) \in 1..Len(waits) /\ waits[Len(waits)].call = call
           /\ Last(waits) = waits[Len(waits)]
           /\ waits[Len(waits)].answered \/ text = clipboard
           /\ \A i \in 1..Len(waits') :
                 /\ i \in 1..Len(waits) /\ i # Len(waits)
                 /\ waits'[i].call = waits[i].call /\ waits'[i].of = waits[i].of
                 /\ waits'[i].answered => waits[i].answered \/ i = Len(waits')
           /\ waits' = <<>> <=> Len(waits) = 1
<1>1. Len(waits) \in Nat \ {0} /\ Last(waits) = waits[Len(waits)] /\ waits[Len(waits)].call = call
  BY DEF Returns, Last
<1>2. /\ Front(waits) \in Seq(Frames) /\ Len(Front(waits)) = Len(waits) - 1
      /\ \A i \in 1..Len(Front(waits)) : Front(waits)[i] = waits[i]
  <2>1. Front(waits) = [i \in 1..(Len(waits) - 1) |-> waits[i]] BY DEF Front
  <2>2. \A i \in 1..(Len(waits) - 1) : waits[i] \in Frames BY <1>1
  <2> QED BY <1>1, <2>1, <2>2
<1>3. CASE waits' = Front(waits)
  BY <1>1, <1>2, <1>3 DEF Returns
<1>4. ASSUME NEW k \in 1..(Len(waits) - 1), k = Len(waits) - 1,
             waits' = [Front(waits) EXCEPT ![k].answered = TRUE]
      PROVE  /\ waits' \in Seq(Frames) /\ Len(waits') = Len(waits) - 1
             /\ \A i \in 1..Len(waits') :
                   /\ waits'[i].call = waits[i].call /\ waits'[i].of = waits[i].of
                   /\ waits'[i].answered => waits[i].answered \/ i = Len(waits')
  <2>1. Front(waits)[k] \in Frames BY <1>2, <1>4
  <2>2. [Front(waits)[k] EXCEPT !.answered = TRUE] \in Frames BY <2>1 DEF Frames
  <2>3. waits' \in Seq(Frames) /\ Len(waits') = Len(waits) - 1 BY <1>1, <1>2, <1>4, <2>2
  <2>4. ASSUME NEW i \in 1..Len(waits')
        PROVE  /\ waits'[i].call = waits[i].call /\ waits'[i].of = waits[i].of
               /\ waits'[i].answered => waits[i].answered \/ i = Len(waits')
    <3>1. CASE i = k
      <4>1. k \in DOMAIN Front(waits) /\ Front(waits)[k] = waits[k] BY <1>1, <1>2, <1>4
      <4>3. waits'[k] = [Front(waits)[k] EXCEPT !.answered = TRUE] BY <1>4, <4>1
      <4>2. waits[k] \in Frames BY <1>1
      <4> QED BY <1>4, <2>3, <3>1, <4>1, <4>2, <4>3 DEF Frames
    <3>2. CASE i # k
      <4>1. waits'[i] = waits[i] BY <1>1, <1>2, <1>4, <2>3, <3>2
      <4> QED BY <4>1
    <3> QED BY <3>1, <3>2
  <2> QED BY <2>3, <2>4
<1>5. /\ waits' \in Seq(Frames) /\ Len(waits') = Len(waits) - 1
      /\ \A i \in 1..Len(waits') :
            /\ waits'[i].call = waits[i].call /\ waits'[i].of = waits[i].of
            /\ waits'[i].answered => waits[i].answered \/ i = Len(waits')
  BY <1>1, <1>2, <1>3, <1>4 DEF Returns
<1>6. \A i \in 1..Len(waits') : i \in 1..Len(waits) /\ i # Len(waits) BY <1>1, <1>5
<1>7. waits' = <<>> <=> Len(waits) = 1 BY <1>1, <1>5
<1>8. waits[Len(waits)].answered \/ text = clipboard BY <1>1 DEF Returns
<1> QED BY <1>1, <1>5, <1>6, <1>7, <1>8

\* What becomes of a thread in one step.
LEMMA ThreadChanges ==
    ASSUME thread \in [Sessions -> Threads], NEW w \in Sessions
    PROVE  /\ \A pc \in {"connecting", "streaming", "ending", "closed"} :
                 /\ [thread EXCEPT ![w].pc = pc] \in [Sessions -> Threads]
                 /\ [thread[w] EXCEPT !.pc = pc] \in Threads
           /\ \A order \in {"commit", "cancel"} :
                 [thread EXCEPT ![w].out = Append(@, order)] \in [Sessions -> Threads]
           /\ [thread EXCEPT ![w].fed = TRUE] \in [Sessions -> Threads]
           /\ thread[w].out # <<>> =>
                 [thread[w] EXCEPT !.out = Tail(@), !.committed = TRUE] \in Threads
           /\ Fresh \in Threads /\ Closed \in Threads
<1>1. \A order \in {"commit", "cancel"} : Append(thread[w].out, order) \in Seq({"commit", "cancel"})
  BY DEF Threads
<1>2. thread[w].out # <<>> => Tail(thread[w].out) \in Seq({"commit", "cancel"}) BY DEF Threads
<1>3. Fresh \in Threads BY <<>> \in Seq({"commit", "cancel"}) DEF Fresh, Threads
<1>4. Closed \in Threads BY <1>3 DEF Closed, Threads
<1> QED BY <1>1, <1>2, <1>3, <1>4 DEF Threads

\* An order told to the worker is appended, and nothing else is changed.
LEMMA Told ==
    ASSUME thread \in [Sessions -> Threads], NEW w \in Sessions, NEW order \in {"commit", "cancel"},
           Tell(w, order)
    PROVE  /\ thread' \in [Sessions -> Threads]
           /\ \A v \in Sessions : thread'[v].pc = thread[v].pc /\ thread'[v].fed = thread[v].fed
           /\ \A v \in Sessions : v # w => thread'[v].out = thread[v].out
           /\ thread'[w].out = IF Live(w) THEN Append(thread[w].out, order) ELSE thread[w].out
BY ThreadChanges DEF Tell, Threads

\* What goes into the queue.
LEMMA Queued ==
    ASSUME TypeOK, NEW w \in Sessions \cup {None},
           NEW cb \in {"connected", "hypothesis", "segment", "failed", "completed"}, Queue(w, cb)
    PROVE  /\ ui' \in Seq(Callbacks) /\ Len(ui') = Len(ui) + 1 /\ Len(ui) \in Nat
           /\ \A i \in 1..Len(ui) : i \in 1..Len(ui') /\ ui'[i] = ui[i]
           /\ \A i \in 1..Len(ui') : \/ i \in 1..Len(ui) /\ ui'[i] = ui[i]
                                     \/ i = Len(ui) + 1 /\ ui'[i].cb = cb /\ ui'[i].of = w
<1>1. [cb |-> cb, of |-> w] \in Callbacks BY DEF Callbacks
<1>2. ui \in Seq(Callbacks) BY DEF TypeOK
<1> QED BY <1>1, <1>2, Appended DEF Queue

\* What is taken from it.
LEMMA CalledBack ==
    ASSUME TypeOK, NEW cb, Callback(cb)
    PROVE  /\ ui' \in Seq(Callbacks) /\ Len(ui') = Len(ui) - 1 /\ Len(ui) \in Nat \ {0}
           /\ 1 \in 1..Len(ui) /\ Head(ui) = ui[1] /\ ui[1].cb = cb /\ ui[1] \in Callbacks
           /\ \A i \in 1..Len(ui') : i + 1 \in 1..Len(ui) /\ i + 1 > 1 /\ ui'[i] = ui[i + 1]
<1>1. ui \in Seq(Callbacks) BY DEF TypeOK
<1>2. ui # <<>> /\ ui' = Tail(ui) /\ Head(ui).cb = cb BY DEF Callback
<1>3. /\ ui' \in Seq(Callbacks) /\ Len(ui') = Len(ui) - 1 /\ Len(ui) \in Nat \ {0}
      /\ 1 \in 1..Len(ui) /\ Head(ui) = ui[1]
      /\ \A i \in 1..Len(ui') : i + 1 \in 1..Len(ui) /\ i + 1 > 1 /\ ui'[i] = ui[i + 1]
  BY <1>1, <1>2, Taken
<1> QED BY <1>1, <1>2, <1>3

\* A call that begins to wait.
LEMMA Waited ==
    ASSUME TypeOK, NEW call \in {"begin", "end", "shutdown"}, NEW w \in Sessions \cup {None},
           Waits(call, w)
    PROVE  /\ waits' \in Seq(Frames) /\ Len(waits') = Len(waits) + 1 /\ Len(waits) \in Nat
           /\ Len(waits') \in 1..Len(waits')
           /\ waits'[Len(waits')] = [call |-> call, of |-> w, answered |-> FALSE]
           /\ \A i \in 1..Len(waits) : i \in 1..Len(waits') /\ waits'[i] = waits[i]
           /\ \A i \in 1..Len(waits') :
                 \/ i \in 1..Len(waits) /\ i # Len(waits') /\ waits'[i] = waits[i]
                 \/ /\ i = Len(waits') /\ waits'[i].call = call /\ waits'[i].of = w
                    /\ ~waits'[i].answered
<1>1. [call |-> call, of |-> w, answered |-> FALSE] \in Frames BY DEF Frames
<1>2. waits \in Seq(Frames) BY DEF TypeOK
<1>3. waits' = Append(waits, [call |-> call, of |-> w, answered |-> FALSE]) BY DEF Waits
<1>4. /\ waits' \in Seq(Frames) /\ Len(waits') = Len(waits) + 1 /\ Len(waits) \in Nat
      /\ waits'[Len(waits) + 1] = [call |-> call, of |-> w, answered |-> FALSE]
      /\ \A i \in 1..Len(waits) : i \in 1..Len(waits') /\ waits'[i] = waits[i]
      /\ \A i \in 1..Len(waits') :
            \/ i \in 1..Len(waits) /\ waits'[i] = waits[i]
            \/ i = Len(waits) + 1 /\ waits'[i] = [call |-> call, of |-> w, answered |-> FALSE]
  BY <1>1, <1>2, <1>3, Appended
<1> QED BY <1>4

-----------------------------------------------------------------------------
(* Types.                                                                    *)

\* The types hold at the start.
LEMMA TypesInit == Init => TypeOK
<1> SUFFICES ASSUME Init PROVE TypeOK OBVIOUS
<1>1. thread \in [Sessions -> Threads] BY ThreadChanges DEF Init, Fresh, Threads
<1>2. mishaps \in 0..MaxMishaps /\ started \in 0..MaxSessions BY ClientAssumption DEF Init
<1>3. waits \in Seq(Frames) /\ ui \in Seq(Callbacks) BY DEF Init
<1>4. {original, clipboard, mine} \subseteq Texts BY DEF Init, Texts
<1> QED BY <1>1, <1>2, <1>3, <1>4 DEF Init, TypeOK

\* The calls that begin to wait, and those that return.
LEMMA CallTypes ==
    ASSUME TypeOK,
           StartRecording \/ StopRecording \/ Shutdown \/ StartReturns \/ FinishReturns
             \/ ShutdownReturns \/ Exit
    PROVE  TypeOK'
<1> USE DEF session, inject, history
<1>t. thread \in [Sessions -> Threads] /\ waits \in Seq(Frames) BY DEF TypeOK
<1>k. Key => mishaps' \in 0..MaxMishaps BY ClientAssumption DEF Key, Mishap, TypeOK
<1>b. Begun \subseteq Sessions
  <2>1. \A i \in 1..Len(waits) : waits[i] \in Frames BY <1>t
  <2> QED BY <2>1 DEF Begun, Frames
<1>1. CASE StartRecording
  <2>1. started' \in Sessions /\ started' \in 0..MaxSessions
    <3>1. started \in Nat /\ MaxSessions \in Nat BY ClientAssumption DEF TypeOK
    <3>2. started + (IF phase = "running" THEN 0 ELSE 1) < MaxSessions /\ started' = started + 1
      BY <1>1 DEF StartRecording
    <3>3. started < MaxSessions BY <3>1, <3>2
    <3> QED BY <3>1, <3>2, <3>3 DEF Sessions
  <2>2. waits' \in Seq(Frames) BY <1>1, <2>1, Waited DEF StartRecording
  <2>3. astray' \subseteq Sessions BY <1>1, <1>b, <2>1 DEF StartRecording, TypeOK
  <2> QED BY <1>1, <1>k, <2>1, <2>2, <2>3 DEF StartRecording, TypeOK
<1>2. CASE StopRecording
  <2>1. CASE worker # None
    <3>1. worker \in Sessions BY <2>1 DEF TypeOK
    <3>2. thread' \in [Sessions -> Threads] BY <1>2, <1>t, <2>1, <3>1, Told DEF StopRecording
    <3> QED BY <1>2, <1>b, <1>k, <2>1, <3>2 DEF StopRecording, TypeOK
  <2>2. CASE worker = None
    <3>1. waits' \in Seq(Frames) BY <1>2, <2>2, Waited DEF StopRecording, FinishSession
    <3> QED BY <1>2, <1>b, <1>k, <2>2, <3>1 DEF StopRecording, FinishSession, TypeOK
  <2> QED BY <2>1, <2>2
<1>3. CASE Shutdown
  <2>1. waits' \in Seq(Frames) BY <1>3, Waited DEF Shutdown
  <2>2. thread' \in [Sessions -> Threads] BY <1>3, <1>t, Told DEF Shutdown, TypeOK
  <2> QED BY <1>3, <1>k, <2>1, <2>2 DEF Shutdown, TypeOK
<1>4. CASE StartReturns
  <2>1. PICK text \in Texts : Returns("begin", text) /\ original' = text BY <1>4 DEF StartReturns
  <2>2. waits' \in Seq(Frames) BY <1>t, <2>1, Returned
  <2>3. worker' \in Sessions \cup {None}
    <3>1. Last(waits) \in Frames BY <1>t, <2>1, Returned
    <3> QED BY <1>4, <3>1 DEF StartReturns, Frames
  <2>4. thread' \in [Sessions -> Threads]
    <3>1. CASE worker' \in Sessions BY <1>4, <1>t, <3>1, ThreadChanges DEF StartReturns
    <3>2. CASE worker' \notin Sessions
      <4>1. thread' = thread BY <1>4, <1>t, <3>2 DEF StartReturns
      <4> QED BY <1>t, <4>1
    <3> QED BY <3>1, <3>2
  <2> QED BY <1>4, <2>1, <2>2, <2>3, <2>4 DEF StartReturns, TypeOK
<1>5. CASE FinishReturns
  <2>1. PICK text \in Texts : Returns("end", text) /\ InjectorEnd(text) BY <1>5 DEF FinishReturns
  <2>2. waits' \in Seq(Frames) BY <1>t, <2>1, Returned
  <2> QED BY <1>5, <2>1, <2>2 DEF FinishReturns, InjectorEnd, TypeOK
<1>6. CASE ShutdownReturns
  <2>1. PICK text \in Texts : Returns("shutdown", text) /\ InjectorEnd(text) BY <1>6 DEF ShutdownReturns
  <2>2. waits' \in Seq(Frames) BY <1>t, <2>1, Returned
  <2> QED BY <1>6, <2>1, <2>2 DEF ShutdownReturns, InjectorEnd, TypeOK
<1>7. CASE Exit
  <2>1. ui' \in Seq(Callbacks) BY <1>7 DEF Exit
  <2>2. thread' \in [Sessions -> Threads]
    <3>1. Closed \in Threads
      <4>1. <<>> \in Seq({"commit", "cancel"}) OBVIOUS
      <4> QED BY <4>1 DEF Closed, Fresh, Threads
    <3> QED BY <1>7, <3>1 DEF Exit
  <2>3. waits' \in Seq(Frames) BY <1>7, <1>t DEF Exit
  <2> QED BY <1>7, <2>1, <2>2, <2>3 DEF Exit, TypeOK
<1> QED BY <1>1, <1>2, <1>3, <1>4, <1>5, <1>6, <1>7

\* The callbacks.
LEMMA CallbackTypes == ASSUME TypeOK, RunCallback PROVE TypeOK'
<1> USE DEF session, inject, history
<1>t. thread \in [Sessions -> Threads] /\ waits \in Seq(Frames) BY DEF TypeOK
<1>m. Mishap => mishaps' \in 0..MaxMishaps BY ClientAssumption DEF Mishap, TypeOK
<1>b. Begun \subseteq Sessions
  <2>1. \A i \in 1..Len(waits) : waits[i] \in Frames BY <1>t
  <2> QED BY <2>1 DEF Begun, Frames
<1>1. CASE StartAudio
  <2>1. ui' \in Seq(Callbacks) BY <1>1, CalledBack DEF StartAudio
  <2>2. CASE UNCHANGED <<session, waits, thread, inject, mishaps, history>>
    BY <2>1, <2>2 DEF TypeOK
  <2>3. CASE /\ worker # None
             /\ capture' = worker /\ mics' = mics + 1
             /\ state' = "recording"
             /\ thread' = [thread EXCEPT ![worker].fed = TRUE]
             /\ unheld' = (unheld \/ (capture # None /\ astray = {}))
             /\ UNCHANGED <<phase, started, worker, waits, inject, mishaps, astray>>
    <3>1. worker \in Sessions BY <2>3 DEF TypeOK
    <3>2. thread' \in [Sessions -> Threads] BY <1>t, <2>3, <3>1, ThreadChanges
    <3> QED BY <2>1, <2>3, <3>2 DEF TypeOK
  <2>4. CASE /\ worker # None
             /\ Tell(worker, "cancel")
             /\ FinishSession
             /\ Mishap
             /\ unheld' = (unheld \/ (capture # None /\ astray = {}))
             /\ astray' = astray \cup Begun
             /\ UNCHANGED <<state, mics>>
    <3>1. worker \in Sessions BY <2>4 DEF TypeOK
    <3>2. thread' \in [Sessions -> Threads] BY <1>t, <2>4, <3>1, Told
    <3>3. waits' \in Seq(Frames) BY <2>4, Waited DEF FinishSession
    <3> QED BY <1>b, <1>m, <2>1, <2>4, <3>2, <3>3 DEF TypeOK, FinishSession
  <2> QED BY <1>1, <2>2, <2>3, <2>4 DEF StartAudio
<1>2. CASE Hypothesis
  BY <1>2, CalledBack DEF Hypothesis, InjectorStage, TypeOK
<1>3. CASE CommitSegment
  <2>1. ui' \in Seq(Callbacks) BY <1>3, CalledBack DEF CommitSegment
  <2> QED BY <1>3, <2>1 DEF CommitSegment, InjectorCommit, Insert, TypeOK, Texts
<1>4. CASE StreamEnds
  <2>1. ui' \in Seq(Callbacks) BY <1>4, CalledBack DEF StreamEnds
  <2>2. waits' \in Seq(Frames) BY <1>4, Waited DEF StreamEnds, FinishSession
  <2>3. astray' \subseteq Sessions BY <1>4, <1>b DEF StreamEnds, TypeOK
  <2> QED BY <1>4, <2>1, <2>2, <2>3 DEF StreamEnds, FinishSession, TypeOK
<1> QED BY <1>1, <1>2, <1>3, <1>4 DEF RunCallback

\* The threads.
LEMMA ThreadTypes ==
    ASSUME TypeOK, NEW w \in Sessions,
           \/ Connects(w) \/ Fails(w) \/ Sends(w) \/ Hears(w) \/ HearsLast(w) \/ Ends(w)
    PROVE  TypeOK'
<1> USE DEF session, inject, history, Elsewhere
<1>t. thread \in [Sessions -> Threads] BY DEF TypeOK
<1>1. ASSUME NEW new \in Threads, Becomes(w, new) PROVE thread' \in [Sessions -> Threads]
  BY <1>1, <1>t DEF Becomes
<1>2. CASE Connects(w)
  <2>1. thread' \in [Sessions -> Threads] BY <1>1, <1>2, <1>t, ThreadChanges DEF Connects
  <2>2. ui' \in Seq(Callbacks) BY <1>2, Queued DEF Connects
  <2> QED BY <1>2, <2>1, <2>2 DEF Connects, TypeOK
<1>3. CASE Fails(w)
  <2>1. thread' \in [Sessions -> Threads] BY <1>1, <1>3, <1>t, ThreadChanges DEF Fails
  <2>2. ui' \in Seq(Callbacks) BY <1>3, Queued DEF Fails
  <2> QED BY <1>3, <2>1, <2>2 DEF Fails, TypeOK
<1>4. CASE Sends(w)
  <2>1. thread' \in [Sessions -> Threads] BY <1>1, <1>4, <1>t, ThreadChanges DEF Sends
  <2> QED BY <1>4, <2>1 DEF Sends, TypeOK
<1>5. CASE Hears(w) BY <1>5, Queued DEF Hears, TypeOK
<1>6. CASE HearsLast(w)
  <2>1. thread' \in [Sessions -> Threads] BY <1>1, <1>6, <1>t, ThreadChanges DEF HearsLast
  <2>2. ui' \in Seq(Callbacks) BY <1>6, Queued DEF HearsLast
  <2> QED BY <1>6, <2>1, <2>2 DEF HearsLast, TypeOK
<1>7. CASE Ends(w)
  <2>1. thread' \in [Sessions -> Threads] BY <1>1, <1>7, <1>t, ThreadChanges DEF Ends
  <2>2. ui' \in Seq(Callbacks) BY <1>7, Queued DEF Ends
  <2> QED BY <1>7, <2>1, <2>2 DEF Ends, TypeOK
<1> QED BY <1>2, <1>3, <1>4, <1>5, <1>6, <1>7

\* And are kept.
LEMMA TypesStep == TypeOK /\ [Next]_vars => TypeOK'
<1> SUFFICES ASSUME TypeOK, [Next]_vars PROVE TypeOK' OBVIOUS
<1>1. CASE \/ StartRecording \/ StopRecording \/ Shutdown \/ StartReturns \/ FinishReturns
           \/ ShutdownReturns \/ Exit
  BY <1>1, CallTypes
<1>2. CASE RunCallback BY <1>2, CallbackTypes
<1>3. ASSUME NEW w \in Sessions,
             Connects(w) \/ Fails(w) \/ Sends(w) \/ Hears(w) \/ HearsLast(w) \/ Ends(w)
      PROVE  TypeOK'
  BY <1>3, ThreadTypes
<1>4. CASE MicrophoneFails \/ UserCopies \/ UNCHANGED vars
  <2>1. CASE MicrophoneFails
    <3>1. ui' \in Seq(Callbacks) BY <2>1, Queued DEF MicrophoneFails
    <3>2. mishaps' \in 0..MaxMishaps BY <2>1, ClientAssumption DEF MicrophoneFails, Mishap, TypeOK
    <3>3. mics' \in Nat BY <2>1 DEF MicrophoneFails, TypeOK
    <3> QED BY <2>1, <3>1, <3>2, <3>3 DEF MicrophoneFails, TypeOK, history, inject
  <2>2. CASE UserCopies BY <2>2 DEF UserCopies, TypeOK, Texts, session, history
  <2>3. CASE UNCHANGED vars BY <2>3 DEF vars, TypeOK, session, inject, history
  <2> QED BY <1>4, <2>1, <2>2, <2>3
<1> QED BY <1>1, <1>2, <1>3, <1>4 DEF Next, WaitEnds

\* Every variable of the client keeps its type, for any number of recordings, callbacks,
\* mishaps and calls inside one another.
THEOREM TypeCorrect == Spec => []TypeOK
BY TypesInit, TypesStep, PTL DEF Spec

-----------------------------------------------------------------------------
(* The calls that wait.                                                      *)

\* Sessions only go astray.
LEMMA AstrayGrows == [Next]_vars => astray \subseteq astray'
BY DEF Next, RunCallback, WaitEnds, StartRecording, StopRecording, StartAudio, Hypothesis, CommitSegment,
   StreamEnds, Shutdown, StartReturns, FinishReturns, ShutdownReturns, Exit, Connects, Fails, Sends, Hears,
   HearsLast, Ends, Elsewhere, MicrophoneFails, UserCopies, vars, history

\* A frame, by its type.
LEMMA FrameType ==
    ASSUME TypeOK, NEW i \in 1..Len(waits)
    PROVE  waits[i] \in Frames /\ waits[i].call \in {"begin", "end", "shutdown"}
           /\ waits[i].of \in Sessions \cup {None}
<1>1. waits[i] \in Frames BY DEF TypeOK
<1> QED BY <1>1 DEF Frames

\* The sessions that begin are those of the calls that wait.
LEMMA BegunBy == ASSUME TypeOK, NEW i \in 1..Len(waits), waits[i].of # None PROVE waits[i].of \in Begun
BY DEF Begun

\* Nothing waits at the start.
LEMMA CallsNestedInit == Init => CallsNested
BY DEF Init, CallsNested, Sessions, Fresh

\* Where nothing begins to wait or returns, and no thread that has not started is touched.
LEMMA CallsNestedElsewhere ==
    ASSUME TypeOK, CallsNested, astray \subseteq astray', UNCHANGED <<phase, waits, started>>,
           phase = "gone" => worker' = None /\ ui' = <<>>,
           (phase = "quitting" /\ waits = <<>>) \/ phase = "gone" => UNCHANGED last,
           \A w \in Sessions : thread[w].pc = "none" => thread'[w].pc = "none"
    PROVE  CallsNested'
<1>1. ASSUME NEW i \in 1..Len(waits), waits[i].call = "begin"
      PROVE  thread'[waits[i].of].pc = "none" /\ waits[i].of <= started
  <2>1. waits[i].of \in Sessions BY <1>1, FrameType DEF CallsNested
  <2> QED BY <1>1, <2>1 DEF CallsNested
<1> QED BY <1>1 DEF CallsNested

\* Where a call begins to wait that ends a session or the client.
LEMMA CallsNestedWait ==
    ASSUME TypeOK, CallsNested, astray \subseteq astray', NEW call \in {"end", "shutdown"}, Waits(call, None),
           UNCHANGED started, phase # "gone", phase' # "gone",
           phase # "running" => phase' # "running",
           call = "shutdown" => phase = "running" /\ phase' # "running",
           \A w \in Sessions : thread'[w].pc = thread[w].pc
    PROVE  CallsNested'
<1>1. /\ waits' \in Seq(Frames) /\ Len(waits') = Len(waits) + 1 /\ Len(waits) \in Nat
      /\ \A i \in 1..Len(waits') :
            \/ i \in 1..Len(waits) /\ i # Len(waits') /\ waits'[i] = waits[i]
            \/ i = Len(waits') /\ waits'[i].call = call /\ waits'[i].of = None
  BY Waited
<1>2. waits' # <<>> BY <1>1
<1>3. ASSUME NEW i \in 1..Len(waits')
      PROVE  /\ waits'[i].call = "begin" <=> waits'[i].of # None
             /\ waits'[i].call = "begin" => thread'[waits'[i].of].pc = "none" /\ waits'[i].of <= started'
             /\ waits'[i].call = "begin" /\ i # 1 => waits'[i].of \in astray'
             /\ waits'[i].call = "shutdown" => phase' # "running"
  <2>1. CASE i \in 1..Len(waits) /\ waits'[i] = waits[i]
    <3>1. waits[i].of \in Sessions \cup {None} BY <2>1, FrameType
    <3> QED BY <2>1, <3>1 DEF CallsNested
  <2>2. CASE waits'[i].call = call /\ waits'[i].of = None BY <2>2
  <2> QED BY <1>1, <2>1, <2>2
<1>4. ASSUME NEW i \in 1..Len(waits'), NEW j \in 1..Len(waits')
      PROVE  /\ waits'[i].of = waits'[j].of /\ waits'[i].of # None => i = j
             /\ waits'[i].call = "shutdown" /\ waits'[j].call = "shutdown" => i = j
  BY <1>1 DEF CallsNested
<1> QED BY <1>2, <1>3, <1>4 DEF CallsNested

\* Where one returns.
LEMMA CallsNestedReturn ==
    ASSUME TypeOK, CallsNested, astray' = astray, NEW call, NEW text, Returns(call, text),
           UNCHANGED started, phase' \in {phase, "quitting"}, ~last',
           \A w \in Sessions : w # waits[Len(waits)].of => thread'[w].pc = thread[w].pc
    PROVE  CallsNested'
<1>1. /\ waits' \in Seq(Frames) /\ Len(waits) \in Nat \ {0} /\ Len(waits') = Len(waits) - 1
      /\ Len(waits) \in 1..Len(waits)
      /\ \A i \in 1..Len(waits') :
            /\ i \in 1..Len(waits) /\ i # Len(waits)
            /\ waits'[i].call = waits[i].call /\ waits'[i].of = waits[i].of
  BY Returned DEF TypeOK
<1>2. phase # "gone" /\ phase' # "gone" BY <1>1 DEF CallsNested
<1>3. ASSUME NEW i \in 1..Len(waits')
      PROVE  /\ waits'[i].call = "begin" <=> waits'[i].of # None
             /\ waits'[i].call = "begin" => thread'[waits'[i].of].pc = "none" /\ waits'[i].of <= started'
             /\ waits'[i].call = "begin" /\ i # 1 => waits'[i].of \in astray'
             /\ waits'[i].call = "shutdown" => phase' # "running"
  <2>1. waits[i].of \in Sessions \cup {None} BY <1>1, FrameType
  <2>2. waits[i].of # None => waits[i].of # waits[Len(waits)].of BY <1>1 DEF CallsNested
  <2>3. i \in 1..Len(waits) /\ waits'[i].call = waits[i].call /\ waits'[i].of = waits[i].of
    BY <1>1
  <2>4. /\ waits[i].call = "begin" <=> waits[i].of # None
        /\ waits[i].call = "begin" => thread[waits[i].of].pc = "none" /\ waits[i].of <= started
        /\ waits[i].call = "begin" /\ i # 1 => waits[i].of \in astray
        /\ waits[i].call = "shutdown" => phase # "running"
    BY <2>3 DEF CallsNested
  <2>5. waits[i].call = "begin" => thread'[waits[i].of].pc = "none"
    BY <2>1, <2>2, <2>4
  <2> QED BY <2>3, <2>4, <2>5
<1>4. ASSUME NEW i \in 1..Len(waits'), NEW j \in 1..Len(waits')
      PROVE  /\ waits'[i].of = waits'[j].of /\ waits'[i].of # None => i = j
             /\ waits'[i].call = "shutdown" /\ waits'[j].call = "shutdown" => i = j
  <2>1. /\ i \in 1..Len(waits) /\ waits'[i].call = waits[i].call /\ waits'[i].of = waits[i].of
        /\ j \in 1..Len(waits) /\ waits'[j].call = waits[j].call /\ waits'[j].of = waits[j].of
    BY <1>1
  <2> QED BY <2>1 DEF CallsNested
<1>5. ASSUME NEW w \in Sessions, w > started' PROVE thread'[w].pc = "none"
  <2>1. waits[Len(waits)].call = "begin" => waits[Len(waits)].of <= started BY <1>1 DEF CallsNested
  <2>2. waits[Len(waits)].of \in Sessions \cup {None} BY <1>1, FrameType
  <2>3. w # waits[Len(waits)].of
    <3>1. CASE waits[Len(waits)].of = None BY <3>1, SessionsAreNumbers
    <3>2. CASE waits[Len(waits)].of \in Sessions
      <4>1. waits[Len(waits)].of <= started BY <1>1, <2>1, <3>2, SessionsAreNumbers DEF CallsNested
      <4>2. started \in Nat /\ w \in Nat /\ waits[Len(waits)].of \in Nat
        <5>1. w \in Nat /\ waits[Len(waits)].of \in Nat BY <3>2, SessionsAreNumbers
        <5>2. started \in 0..MaxSessions /\ MaxSessions \in Nat BY ClientAssumption DEF TypeOK
        <5> QED BY <5>1, <5>2
      <4>3. w > started BY <1>5
      <4>4. ASSUME w = waits[Len(waits)].of PROVE FALSE
        <5>1. w <= started BY <4>1, <4>4
        <5> QED BY <4>2, <4>3, <5>1
      <4> QED BY <4>4
    <3> QED BY <2>2, <3>1, <3>2
  <2> QED BY <1>2, <1>5, <2>3 DEF CallsNested
<1> QED BY <1>2, <1>3, <1>4, <1>5 DEF CallsNested

\* Where a recording is started.
LEMMA CallsNestedStart == ASSUME TypeOK, CallsNested, StartRecording PROVE CallsNested'
<1>1. /\ Waits("begin", started') /\ UNCHANGED <<phase, thread>> /\ started' = started + 1
      /\ astray' = IF waits = <<>> THEN astray ELSE astray \cup Begun \cup {started'}
      /\ phase # "gone"
  BY DEF StartRecording, Key, Looping
<1>2. started \in Nat /\ started' \in Sessions /\ started' # None /\ started' > started
  <2>1. started \in 0..MaxSessions /\ MaxSessions \in Nat BY ClientAssumption DEF TypeOK
  <2>2. started + (IF phase = "running" THEN 0 ELSE 1) < MaxSessions BY DEF StartRecording
  <2>3. started < MaxSessions BY <2>1, <2>2
  <2> QED BY <1>1, <2>1, <2>3 DEF Sessions, None
<1>3. /\ waits' \in Seq(Frames) /\ Len(waits') = Len(waits) + 1 /\ Len(waits) \in Nat
      /\ \A i \in 1..Len(waits') :
            \/ i \in 1..Len(waits) /\ i # Len(waits') /\ waits'[i] = waits[i]
            \/ i = Len(waits') /\ waits'[i].call = "begin" /\ waits'[i].of = started'
  BY <1>1, <1>2, Waited
<1>4. thread[started'].pc = "none" BY <1>1, <1>2 DEF CallsNested
<1>5. waits \in Seq(Frames) BY DEF TypeOK
<1>6. ASSUME NEW i \in 1..Len(waits')
      PROVE  /\ waits'[i].call = "begin" <=> waits'[i].of # None
             /\ waits'[i].call = "begin" => thread'[waits'[i].of].pc = "none" /\ waits'[i].of <= started'
             /\ waits'[i].call = "begin" /\ i # 1 => waits'[i].of \in astray'
             /\ waits'[i].call = "shutdown" => phase' # "running"
  <2>1. CASE i \in 1..Len(waits) /\ waits'[i] = waits[i]
    <3>1. /\ waits[i].call = "begin" <=> waits[i].of # None
          /\ waits[i].call = "begin" => thread[waits[i].of].pc = "none" /\ waits[i].of <= started
          /\ waits[i].call = "begin" /\ i # 1 => waits[i].of \in astray
          /\ waits[i].call = "shutdown" => phase # "running"
      BY <2>1 DEF CallsNested
    <3>2. waits[i].call = "begin" => waits[i].of <= started'
      <4>1. waits[i].of \in Sessions \cup {None} BY <2>1, FrameType
      <4>2. waits[i].of \in Nat BY <4>1, SessionsAreNumbers DEF None
      <4> QED BY <1>1, <1>2, <3>1, <4>2
    <3>3. astray \subseteq astray' BY <1>1
    <3> QED BY <1>1, <2>1, <3>1, <3>2, <3>3
  <2>2. CASE i = Len(waits') /\ waits'[i].call = "begin" /\ waits'[i].of = started'
    <3>1. i # 1 => started' \in astray' BY <1>1, <1>3, <1>5, <2>2
    <3>2. started' <= started' BY <1>1, <1>2
    <3> QED BY <1>1, <1>2, <1>4, <2>2, <3>1, <3>2
  <2> QED BY <1>3, <2>1, <2>2
<1>7. ASSUME NEW i \in 1..Len(waits') PROVE waits'[i].of = started' => i = Len(waits')
  <2>1. CASE i \in 1..Len(waits) /\ waits'[i] = waits[i]
    <3>1. waits[i].of \in Sessions \cup {None} BY <2>1, FrameType
    <3>2. waits[i].of \in Nat BY <3>1, SessionsAreNumbers DEF None
    <3>3. waits[i].of # None => waits[i].of <= started BY <2>1 DEF CallsNested
    <3>4. waits[i].of # started' BY <1>2, <3>2, <3>3
    <3> QED BY <2>1, <3>4
  <2> QED BY <1>3, <2>1
<1>8. ASSUME NEW i \in 1..Len(waits'), NEW j \in 1..Len(waits')
      PROVE  /\ waits'[i].of = waits'[j].of /\ waits'[i].of # None => i = j
             /\ waits'[i].call = "shutdown" /\ waits'[j].call = "shutdown" => i = j
  <2>1. CASE i \in 1..Len(waits) /\ waits'[i] = waits[i] /\ j \in 1..Len(waits) /\ waits'[j] = waits[j]
    BY <2>1 DEF CallsNested
  <2> QED BY <1>3, <1>7, <2>1
<1>9. \A w \in Sessions : w > started' => thread'[w].pc = "none"
  <2>1. ASSUME NEW w \in Sessions, w > started' PROVE w > started
    BY <1>2, <2>1, SessionsAreNumbers
  <2> QED BY <1>1, <2>1 DEF CallsNested
<1>10. waits' # <<>> BY <1>3
<1> QED BY <1>1, <1>6, <1>8, <1>9, <1>10 DEF CallsNested

\* The calls stay nested, whatever runs inside them.
LEMMA CallsNestedStep == TypeOK /\ CallsNested /\ [Next]_vars => CallsNested'
<1> SUFFICES ASSUME TypeOK, CallsNested, [Next]_vars PROVE CallsNested' OBVIOUS
<1>a. astray \subseteq astray' BY AstrayGrows
<1>t. thread \in [Sessions -> Threads] BY DEF TypeOK
<1>l. Looping => phase # "gone" /\ (phase = "quitting" => waits # <<>>) BY DEF Looping
<1> USE DEF session, inject, history
<1>1. CASE StartRecording BY <1>1, CallsNestedStart
<1>2. CASE StopRecording
  <2>1. CASE worker # None
    <3>1. worker \in Sessions BY <2>1 DEF TypeOK
    <3>2. \A w \in Sessions : thread'[w].pc = thread[w].pc BY <1>2, <1>t, <2>1, <3>1, Told DEF StopRecording
    <3> QED BY <1>2, <1>a, <1>l, <2>1, <3>2, CallsNestedElsewhere DEF StopRecording, Key
  <2>2. CASE worker = None
    BY <1>2, <1>a, <1>l, <2>2, CallsNestedWait DEF StopRecording, FinishSession, Key
  <2> QED BY <2>1, <2>2
<1>3. CASE StartAudio
  <2>1. Looping BY <1>3 DEF StartAudio, Callback, Idle
  <2>2. CASE UNCHANGED <<session, waits, thread, inject, mishaps, history>>
    BY <1>a, <1>l, <2>1, <2>2, CallsNestedElsewhere
  <2>3. CASE /\ worker # None
             /\ thread' = [thread EXCEPT ![worker].fed = TRUE]
             /\ UNCHANGED <<phase, started, worker, waits, inject>>
    <3>1. worker \in Sessions BY <2>3 DEF TypeOK
    <3>2. \A w \in Sessions : thread'[w].pc = thread[w].pc BY <1>t, <2>3, <3>1 DEF Threads
    <3> QED BY <1>a, <1>l, <2>1, <2>3, <3>2, CallsNestedElsewhere
  <2>4. CASE worker # None /\ Tell(worker, "cancel") /\ FinishSession
    <3>1. worker \in Sessions BY <2>4 DEF TypeOK
    <3>2. \A w \in Sessions : thread'[w].pc = thread[w].pc BY <1>t, <2>4, <3>1, Told
    <3> QED BY <1>a, <1>l, <2>1, <2>4, <3>2, CallsNestedWait DEF FinishSession
  <2> QED BY <1>3, <2>2, <2>3, <2>4 DEF StartAudio
<1>4. CASE Hypothesis \/ CommitSegment
  <2>1. Looping /\ UNCHANGED <<session, waits, thread>>
    BY <1>4 DEF Hypothesis, CommitSegment, Callback, Idle
  <2> QED BY <1>a, <1>l, <2>1, CallsNestedElsewhere
<1>5. CASE StreamEnds
  <2>1. Looping /\ FinishSession /\ UNCHANGED thread BY <1>5 DEF StreamEnds, Callback, Idle
  <2> QED BY <1>a, <1>l, <2>1, CallsNestedWait DEF FinishSession
<1>6. CASE Shutdown
  <2>1. \A w \in Sessions : thread'[w].pc = thread[w].pc
    BY <1>6, <1>t, Told DEF Shutdown, TypeOK
  <2> QED BY <1>6, <1>a, <1>l, <2>1, CallsNestedWait DEF Shutdown, Key
<1>7. CASE StartReturns
  <2>1. PICK text \in Texts : Returns("begin", text) BY <1>7 DEF StartReturns
  <2>2. Last(waits) = waits[Len(waits)] BY <2>1, Returned DEF TypeOK
  <2>3. \A w \in Sessions : w # waits[Len(waits)].of => thread'[w].pc = thread[w].pc
    BY <1>7, <1>t, <2>2 DEF StartReturns
  <2> QED BY <1>7, <2>1, <2>3, CallsNestedReturn DEF StartReturns
<1>8. CASE FinishReturns
  <2>1. PICK text \in Texts : Returns("end", text) /\ InjectorEnd(text) BY <1>8 DEF FinishReturns
  <2> QED BY <1>8, <2>1, CallsNestedReturn DEF FinishReturns, InjectorEnd
<1>9. CASE ShutdownReturns
  <2>1. PICK text \in Texts : Returns("shutdown", text) /\ InjectorEnd(text) BY <1>9 DEF ShutdownReturns
  <2> QED BY <1>9, <2>1, CallsNestedReturn DEF ShutdownReturns, InjectorEnd
<1>10. CASE Exit
  <2>1. waits' = <<>> /\ worker' = None /\ ui' = <<>> /\ phase' = "gone" /\ ~last' BY <1>10 DEF Exit
  <2>2. \A i \in 1..Len(waits') : FALSE BY <2>1
  <2> QED BY <2>1, <2>2 DEF CallsNested
<1>11. ASSUME NEW w \in Sessions,
              Connects(w) \/ Fails(w) \/ Sends(w) \/ Hears(w) \/ HearsLast(w) \/ Ends(w)
       PROVE  CallsNested'
  <2>1. Looping /\ UNCHANGED <<session, waits, inject>>
    BY <1>11 DEF Connects, Fails, Sends, Hears, HearsLast, Ends, Elsewhere, Thread
  <2>2. \A v \in Sessions : thread[v].pc = "none" => thread'[v].pc = "none"
    BY <1>11, <1>t DEF Connects, Fails, Sends, Hears, HearsLast, Ends, Becomes, Thread
  <2> QED BY <1>a, <1>l, <2>1, <2>2, CallsNestedElsewhere
<1>12. CASE MicrophoneFails \/ UserCopies
  <2>1. Looping /\ UNCHANGED <<phase, waits, started, worker, thread, last>>
    BY <1>12 DEF MicrophoneFails, UserCopies
  <2> QED BY <1>a, <1>l, <2>1, CallsNestedElsewhere
<1>13. CASE UNCHANGED vars BY <1>13 DEF vars, CallsNested
<1> QED BY <1>1, <1>2, <1>3, <1>4, <1>5, <1>6, <1>7, <1>8, <1>9, <1>10, <1>11, <1>12, <1>13
        DEF Next, RunCallback, WaitEnds

-----------------------------------------------------------------------------
(* The worker while a call waits.                                            *)

\* Where no call begins to wait or returns, and the client does not become idle.
LEMMA WorkerWaitsElsewhere ==
    ASSUME WorkerWaits, astray \subseteq astray', UNCHANGED <<waits, worker>>,
           state' = "idle" => state = "idle"
    PROVE  WorkerWaits'
BY DEF WorkerWaits

\* Where a session ends: the sessions that begin have gone astray.
LEMMA WorkerWaitsEnd ==
    ASSUME TypeOK, CallsNested, WorkerWaits, Begun \subseteq astray', Waits("end", None), worker' = None
    PROVE  WorkerWaits'
<1>1. \A i \in 1..Len(waits') : waits'[i].call = "begin" => waits'[i].of \in astray'
  <2> SUFFICES ASSUME NEW i \in 1..Len(waits'), waits'[i].call = "begin" PROVE waits'[i].of \in astray'
    OBVIOUS
  <2>1. i \in 1..Len(waits) /\ waits'[i] = waits[i] BY Waited
  <2>2. waits[i].of # None BY <2>1 DEF CallsNested
  <2>3. waits[i].of \in Begun BY <2>1, <2>2, BegunBy
  <2> QED BY <2>1, <2>3
<1> QED BY <1>1 DEF WorkerWaits

\* No session is current while another begins or ends, unless it has gone astray.
LEMMA WorkerWaitsStep == TypeOK /\ CallsNested /\ WorkerWaits /\ [Next]_vars => WorkerWaits'
<1> SUFFICES ASSUME TypeOK, CallsNested, WorkerWaits, [Next]_vars PROVE WorkerWaits' OBVIOUS
<1>a. astray \subseteq astray' BY AstrayGrows
<1>w. waits \in Seq(Frames) BY DEF TypeOK
<1> USE DEF session, inject, history
<1>1. CASE StartRecording
  <2>1. Waits("begin", started') /\ worker' = worker /\ state = "idle" /\ state' = "connecting"
    BY <1>1 DEF StartRecording
  <2>2. astray' = IF waits = <<>> THEN astray ELSE astray \cup Begun \cup {started'}
    BY <1>1 DEF StartRecording
  <2>3. started' \in Sessions /\ started' \in 0..MaxSessions
    BY <1>1, TypesStep DEF Next, TypeOK, StartRecording, Sessions, None
  <2>4. /\ Len(waits') = Len(waits) + 1 /\ Len(waits) \in Nat
        /\ \A i \in 1..Len(waits') :
              \/ i \in 1..Len(waits) /\ i # Len(waits') /\ waits'[i] = waits[i]
              \/ i = Len(waits') /\ waits'[i].call = "begin" /\ waits'[i].of = started'
    BY <2>1, <2>3, Waited
  <2>5. worker = None \/ worker \in astray BY <2>1 DEF WorkerWaits
  <2>6. CASE waits = <<>>
    <3>1. \A i \in 1..Len(waits') : waits'[i].call = "begin" BY <2>4, <2>6
    <3> QED BY <1>a, <2>1, <2>5, <3>1 DEF WorkerWaits
  <2>7. CASE waits # <<>>
    <3>1. \A i \in 1..Len(waits') : waits'[i].call = "begin" => waits'[i].of \in astray'
      <4> SUFFICES ASSUME NEW i \in 1..Len(waits'), waits'[i].call = "begin" PROVE waits'[i].of \in astray'
        OBVIOUS
      <4>1. CASE i \in 1..Len(waits) /\ waits'[i] = waits[i]
        <5>1. waits[i].of # None BY <4>1 DEF CallsNested
        <5> QED BY <2>2, <2>7, <4>1, <5>1, BegunBy
      <4> QED BY <2>2, <2>4, <2>7, <4>1
    <3> QED BY <1>a, <2>1, <2>5, <3>1 DEF WorkerWaits
  <2> QED BY <2>6, <2>7
<1>2. CASE StopRecording
  <2>1. CASE worker # None BY <1>2, <1>a, <2>1, WorkerWaitsElsewhere DEF StopRecording
  <2>2. CASE worker = None BY <1>2, <2>2, WorkerWaitsEnd DEF StopRecording, FinishSession
  <2> QED BY <2>1, <2>2
<1>3. CASE StartAudio
  <2>1. CASE FinishSession /\ astray' = astray \cup Begun BY <2>1, WorkerWaitsEnd DEF FinishSession
  <2> QED BY <1>3, <1>a, <2>1, WorkerWaitsElsewhere DEF StartAudio
<1>4. CASE Hypothesis \/ CommitSegment
  BY <1>4, <1>a, WorkerWaitsElsewhere DEF Hypothesis, CommitSegment
<1>5. CASE StreamEnds BY <1>5, WorkerWaitsEnd DEF StreamEnds, FinishSession
<1>6. CASE Shutdown
  <2>1. Waits("shutdown", None) /\ worker' = worker /\ state' = state BY <1>6 DEF Shutdown
  <2>2. \A i \in 1..Len(waits') :
              \/ i \in 1..Len(waits) /\ waits'[i] = waits[i]
              \/ waits'[i].call = "shutdown"
    BY <2>1, Waited
  <2> QED BY <1>a, <2>1, <2>2 DEF WorkerWaits
<1>7. ASSUME NEW call, NEW text, Returns(call, text)
      PROVE  /\ Len(waits) \in 1..Len(waits) /\ waits[Len(waits)].call = call
             /\ Last(waits) = waits[Len(waits)]
             /\ \A i \in 1..Len(waits') :
                   /\ i \in 1..Len(waits) /\ Len(waits) # 1
                   /\ waits'[i].call = waits[i].call /\ waits'[i].of = waits[i].of
  BY <1>7, <1>w, Returned
<1>8. CASE StartReturns
  <2>1. PICK text \in Texts : Returns("begin", text) BY <1>8 DEF StartReturns
  <2>2. worker' = waits[Len(waits)].of /\ state' = state /\ astray' = astray
    BY <1>7, <1>8, <2>1 DEF StartReturns
  <2>3. waits[Len(waits)].call = "begin" /\ Len(waits) \in 1..Len(waits) BY <1>7, <2>1
  <2>4. Len(waits) # 1 => worker' \in astray BY <2>2, <2>3 DEF CallsNested
  <2>5. state = "idle" => worker' \in astray BY <2>2, <2>3 DEF WorkerWaits
  <2> QED BY <1>7, <2>1, <2>2, <2>4, <2>5 DEF WorkerWaits
<1>9. CASE FinishReturns
  <2>1. PICK text \in Texts : Returns("end", text) BY <1>9 DEF FinishReturns
  <2>2. worker' = worker /\ state' = "idle" /\ astray' = astray BY <1>9 DEF FinishReturns
  <2>3. waits[Len(waits)].call = "end" /\ Len(waits) \in 1..Len(waits) BY <1>7, <2>1
  <2>4. worker = None \/ worker \in astray BY <2>3 DEF WorkerWaits
  <2>5. \A i \in 1..Len(waits) : waits[i].call = "begin" => waits[i].of \in astray BY <2>3 DEF WorkerWaits
  <2> QED BY <1>7, <2>1, <2>2, <2>4, <2>5 DEF WorkerWaits
<1>10. CASE ShutdownReturns
  <2>1. PICK text \in Texts : Returns("shutdown", text) BY <1>10 DEF ShutdownReturns
  <2>2. UNCHANGED <<worker, state, astray>> BY <1>10 DEF ShutdownReturns
  <2> QED BY <1>7, <2>1, <2>2 DEF WorkerWaits
<1>11. CASE Exit
  <2>1. waits' = <<>> /\ worker' = None BY <1>11 DEF Exit
  <2>2. \A i \in 1..Len(waits') : FALSE BY <2>1
  <2> QED BY <2>1, <2>2 DEF WorkerWaits
<1>12. ASSUME NEW w \in Sessions,
              Connects(w) \/ Fails(w) \/ Sends(w) \/ Hears(w) \/ HearsLast(w) \/ Ends(w)
       PROVE  WorkerWaits'
  BY <1>12, <1>a, WorkerWaitsElsewhere DEF Connects, Fails, Sends, Hears, HearsLast, Ends, Elsewhere
<1>13. CASE MicrophoneFails \/ UserCopies \/ UNCHANGED vars
  BY <1>13, <1>a, WorkerWaitsElsewhere DEF MicrophoneFails, UserCopies, vars
<1> QED BY <1>1, <1>2, <1>3, <1>4, <1>5, <1>6, <1>8, <1>9, <1>10, <1>11, <1>12, <1>13
        DEF Next, RunCallback, WaitEnds

-----------------------------------------------------------------------------
(* The queue.                                                                *)

\* Where something is taken from the queue, or it is left alone.
LEMMA QueueOrderTaken ==
    ASSUME TypeOK, QueueOrder,
           ui' = ui \/ (\E cb \in {"connected", "hypothesis", "segment", "failed", "completed"} : Callback(cb)),
           \A w \in Sessions : thread'[w].pc = thread[w].pc
    PROVE  QueueOrder'
<1>1. \A i \in 1..Len(ui) : ui[i] \in Callbacks BY DEF TypeOK
<1>2. \A i \in 1..Len(ui) : ui[i].of # None => ui[i].of \in Sessions BY <1>1 DEF Callbacks
<1>3. CASE ui' = ui BY <1>2, <1>3 DEF QueueOrder
<1>4. ASSUME NEW cb \in {"connected", "hypothesis", "segment", "failed", "completed"}, Callback(cb)
      PROVE  QueueOrder'
  <2>1. \A i \in 1..Len(ui') : i + 1 \in 1..Len(ui) /\ ui'[i] = ui[i + 1] BY <1>4, CalledBack
  <2>2. \A i \in 1..Len(ui') : ui'[i].of # None => thread'[ui'[i].of].pc = thread[ui'[i].of].pc
    BY <1>2, <2>1
  <2>3. ASSUME NEW i \in 1..Len(ui'), ui'[i].of # None, ui'[i].cb \in Terminal
        PROVE  /\ thread'[ui'[i].of].pc = "closed"
               /\ \A j \in 1..Len(ui') : j > i => ui'[j].of # ui'[i].of
    <3>1. ui[i + 1].of # None /\ ui[i + 1].cb \in Terminal /\ i + 1 \in 1..Len(ui) BY <2>1, <2>3
    <3>2. \A j \in 1..Len(ui) : j > i + 1 => ui[j].of # ui[i + 1].of BY <3>1 DEF QueueOrder
    <3>3. ASSUME NEW j \in 1..Len(ui'), j > i PROVE ui'[j].of # ui'[i].of
      <4>1. j + 1 \in 1..Len(ui) /\ ui'[j] = ui[j + 1] BY <2>1
      <4>2. j + 1 > i + 1 BY <3>3
      <4> QED BY <2>1, <3>2, <4>1, <4>2
    <3>4. thread[ui[i + 1].of].pc = "closed" BY <3>1 DEF QueueOrder
    <3>5. ui'[i] = ui[i + 1] BY <2>1
    <3>6. thread'[ui'[i].of].pc = thread[ui'[i].of].pc BY <2>2, <2>3
    <3>7. thread'[ui'[i].of].pc = "closed" BY <3>4, <3>5, <3>6
    <3> QED BY <3>3, <3>7
  <2>4. ASSUME NEW i \in 1..Len(ui')
        PROVE  /\ ui'[i].of = None => ui'[i].cb = "failed"
               /\ ui'[i].of # None => thread'[ui'[i].of].pc \notin {"none", "connecting"}
    <3>1. ui'[i] = ui[i + 1] /\ i + 1 \in 1..Len(ui) BY <2>1
    <3>2. /\ ui[i + 1].of = None => ui[i + 1].cb = "failed"
          /\ ui[i + 1].of # None => thread[ui[i + 1].of].pc \notin {"none", "connecting"}
      BY <3>1 DEF QueueOrder
    <3>3. ui'[i].of # None => thread'[ui'[i].of].pc = thread[ui'[i].of].pc BY <2>2
    <3> QED BY <3>1, <3>2, <3>3
  <2> QED BY <2>3, <2>4 DEF QueueOrder
<1> QED BY <1>3, <1>4

\* Where a session that is alive, or a microphone, adds to it.
LEMMA QueueOrderAdded ==
    ASSUME TypeOK, QueueOrder, NEW w \in Sessions \cup {None}, w # None => Live(w),
           NEW cb \in {"connected", "hypothesis", "segment", "failed", "completed"}, Queue(w, cb),
           w = None => cb = "failed",
           w # None => /\ thread'[w].pc \in {"streaming", "ending", "closed"}
                       /\ cb \in Terminal => thread'[w].pc = "closed",
           \A v \in Sessions : v # w => thread'[v].pc = thread[v].pc
    PROVE  QueueOrder'
<1>1. \A i \in 1..Len(ui) : ui[i] \in Callbacks BY DEF TypeOK
<1>2. \A i \in 1..Len(ui) : ui[i].of # None => ui[i].of \in Sessions BY <1>1 DEF Callbacks
<1>3. /\ Len(ui') = Len(ui) + 1 /\ Len(ui) \in Nat
      /\ \A i \in 1..Len(ui') : \/ i \in 1..Len(ui) /\ ui'[i] = ui[i]
                                \/ i = Len(ui) + 1 /\ ui'[i].cb = cb /\ ui'[i].of = w
  BY Queued
<1>4. \A i \in 1..Len(ui) : ui[i].of # None /\ ui[i].cb \in Terminal => ui[i].of # w
  BY DEF QueueOrder, Live
<1>5. ASSUME NEW i \in 1..Len(ui')
      PROVE  /\ ui'[i].of = None => ui'[i].cb = "failed"
             /\ ui'[i].of # None => thread'[ui'[i].of].pc \notin {"none", "connecting"}
             /\ ui'[i].of # None /\ ui'[i].cb \in Terminal =>
                   /\ thread'[ui'[i].of].pc = "closed"
                   /\ \A j \in 1..Len(ui') : j > i => ui'[j].of # ui'[i].of
  <2>1. CASE i \in 1..Len(ui) /\ ui'[i] = ui[i]
    <3>1. ui[i].of # None /\ ui[i].of # w => thread'[ui[i].of].pc = thread[ui[i].of].pc BY <1>2, <2>1
    <3>2. ASSUME ui[i].of # None, ui[i].cb \in Terminal
          PROVE  \A j \in 1..Len(ui') : j > i => ui'[j].of # ui'[i].of
      BY <1>3, <1>4, <2>1, <3>2 DEF QueueOrder
    <3> QED BY <1>4, <2>1, <3>1, <3>2 DEF QueueOrder
  <2>2. CASE i = Len(ui) + 1 /\ ui'[i].cb = cb /\ ui'[i].of = w
    <3>1. \A j \in 1..Len(ui') : ~(j > i) BY <1>3, <2>2
    <3> QED BY <2>2, <3>1
  <2> QED BY <1>3, <2>1, <2>2
<1> QED BY <1>5 DEF QueueOrder

\* What a thread that goes on does to itself and to the queue.
LEMMA ThreadGoesOn ==
    ASSUME TypeOK, NEW w \in Sessions,
           Connects(w) \/ Fails(w) \/ Sends(w) \/ Hears(w) \/ HearsLast(w) \/ Ends(w)
    PROVE  /\ Live(w) /\ w # None /\ Looping
           /\ \A v \in Sessions : v # w => thread'[v] = thread[v]
           /\ thread'[w].pc \in {"streaming", "ending", "closed"}
           /\ thread'[w].fed => thread[w].fed
           /\ UNCHANGED <<session, waits, inject, mishaps, history>>
<1>1. thread \in [Sessions -> Threads] BY DEF TypeOK
<1>2. w # None BY SessionsAreNumbers
<1>3. Closed.pc = "closed" /\ ~Closed.fed BY DEF Closed, Fresh
<1>4. CASE Hears(w) BY <1>2, <1>4 DEF Hears, Live, Thread, Elsewhere
<1>5. CASE Connects(w) \/ Fails(w) \/ Sends(w) \/ HearsLast(w) \/ Ends(w)
  <2>1. Live(w) /\ Looping /\ UNCHANGED <<session, waits, inject, mishaps, history>>
    BY <1>5 DEF Connects, Fails, Sends, HearsLast, Ends, Live, Thread, Elsewhere
  <2>2. PICK new \in {[thread[w] EXCEPT !.pc = "streaming"], [thread[w] EXCEPT !.pc = "ending"], Closed,
                      [thread[w] EXCEPT !.out = Tail(@), !.committed = TRUE]} : Becomes(w, new)
    BY <1>5 DEF Connects, Fails, Sends, HearsLast, Ends
  <2>3. \A v \in Sessions : v # w => thread'[v] = thread[v] BY <1>1, <2>2 DEF Becomes
  <2>4. thread'[w] = new BY <1>1, <2>2 DEF Becomes
  <2>5. CASE Connects(w) \/ Fails(w) \/ HearsLast(w) \/ Ends(w)
    <3>1. thread'[w] \in {[thread[w] EXCEPT !.pc = "streaming"], [thread[w] EXCEPT !.pc = "ending"], Closed}
      BY <1>1, <2>5 DEF Connects, Fails, HearsLast, Ends, Becomes
    <3>2. thread[w] \in Threads BY <1>1
    <3> QED BY <1>2, <1>3, <2>1, <2>3, <3>1, <3>2 DEF Threads
  <2>6. CASE Sends(w)
    <3>1. thread'[w] \in {Closed, [thread[w] EXCEPT !.out = Tail(@), !.committed = TRUE]}
      BY <1>1, <2>6 DEF Sends, Becomes
    <3>2. thread[w].pc = "streaming" /\ thread[w] \in Threads BY <1>1, <2>6 DEF Sends, Thread
    <3> QED BY <1>2, <1>3, <2>1, <2>3, <3>1, <3>2 DEF Threads
  <2> QED BY <1>5, <2>5, <2>6
<1> QED BY <1>4, <1>5

\* The queue keeps its order.
LEMMA QueueOrderStep == TypeOK /\ CallsNested /\ QueueOrder /\ [Next]_vars => QueueOrder'
<1> SUFFICES ASSUME TypeOK, CallsNested, QueueOrder, [Next]_vars PROVE QueueOrder' OBVIOUS
<1>t. thread \in [Sessions -> Threads] BY DEF TypeOK
<1>n. ui' = ui /\ (\A w \in Sessions : thread'[w].pc = thread[w].pc) => QueueOrder' BY QueueOrderTaken
<1> USE DEF session, inject, history
<1>1. CASE StartRecording BY <1>1, <1>n DEF StartRecording
<1>2. CASE StopRecording \/ Shutdown
  <2>1. \A w \in Sessions : thread'[w].pc = thread[w].pc
    BY <1>2, <1>t, Told DEF StopRecording, Shutdown, TypeOK
  <2> QED BY <1>2, <1>n, <2>1 DEF StopRecording, Shutdown
<1>3. CASE StartAudio
  <2>1. \A w \in Sessions : thread'[w].pc = thread[w].pc
    <3>1. CASE worker # None /\ Tell(worker, "cancel") BY <1>t, <3>1, Told DEF TypeOK
    <3>2. CASE worker # None /\ thread' = [thread EXCEPT ![worker].fed = TRUE]
      BY <1>t, <3>2 DEF TypeOK, Threads
    <3> QED BY <1>3, <3>1, <3>2 DEF StartAudio
  <2> QED BY <1>3, <2>1, QueueOrderTaken DEF StartAudio
<1>4. CASE Hypothesis \/ CommitSegment
  BY <1>4, QueueOrderTaken DEF Hypothesis, CommitSegment
<1>5. CASE StreamEnds BY <1>5, QueueOrderTaken DEF StreamEnds
<1>6. CASE StartReturns
  <2>1. PICK text \in Texts : Returns("begin", text) BY <1>6 DEF StartReturns
  <2>2. Len(waits) \in 1..Len(waits) /\ waits[Len(waits)].call = "begin" /\ worker' = waits[Len(waits)].of
    BY <1>6, <2>1, Returned DEF TypeOK, StartReturns
  <2>3. thread[worker'].pc = "none" BY <2>2 DEF CallsNested
  <2>4. \A w \in Sessions : w # worker' => thread'[w].pc = thread[w].pc BY <1>6, <1>t DEF StartReturns
  <2>5. \A i \in 1..Len(ui) : ui[i].of # None => ui[i].of # worker' BY <2>3 DEF QueueOrder
  <2>6. \A i \in 1..Len(ui) : ui[i].of \in Sessions \cup {None}
    <3>1. \A i \in 1..Len(ui) : ui[i] \in Callbacks BY DEF TypeOK
    <3> QED BY <3>1 DEF Callbacks
  <2>7. ui' = ui BY <1>6 DEF StartReturns
  <2>8. \A i \in 1..Len(ui) : ui[i].of # None => thread'[ui[i].of].pc = thread[ui[i].of].pc
    BY <2>4, <2>5, <2>6
  <2> QED BY <2>7, <2>8 DEF QueueOrder
<1>7. CASE FinishReturns \/ ShutdownReturns BY <1>7, <1>n DEF FinishReturns, ShutdownReturns
<1>8. CASE Exit
  <2>1. ui' = <<>> BY <1>8 DEF Exit
  <2>2. \A i \in 1..Len(ui') : FALSE BY <2>1
  <2> QED BY <2>2 DEF QueueOrder
<1>9. ASSUME NEW w \in Sessions,
             Connects(w) \/ Fails(w) \/ Sends(w) \/ Hears(w) \/ HearsLast(w) \/ Ends(w)
      PROVE  QueueOrder'
  <2>1. /\ Live(w) /\ w # None /\ \A v \in Sessions : v # w => thread'[v].pc = thread[v].pc
        /\ thread'[w].pc \in {"streaming", "ending", "closed"}
    BY <1>9, ThreadGoesOn
  <2>2. CASE Sends(w)
    <3>1. ui' = ui BY <2>2 DEF Sends
    <3>2. \A i \in 1..Len(ui) : ui[i].of # None /\ ui[i].cb \in Terminal => ui[i].of # w
      BY <2>1 DEF QueueOrder, Live
    <3>3. \A i \in 1..Len(ui) : ui[i].of \in Sessions \cup {None}
      <4>1. \A i \in 1..Len(ui) : ui[i] \in Callbacks BY DEF TypeOK
      <4> QED BY <4>1 DEF Callbacks
    <3> QED BY <2>1, <3>1, <3>2, <3>3 DEF QueueOrder
  <2>3. ASSUME NEW cb \in {"connected", "hypothesis", "segment"}, Queue(w, cb) PROVE QueueOrder'
    BY <2>1, <2>3, QueueOrderAdded DEF Terminal
  <2>4. CASE Fails(w) \/ Ends(w)
    <3>1. thread'[w].pc = "closed" BY <1>t, <2>4 DEF Fails, Ends, Becomes, Closed, Fresh
    <3> QED BY <2>1, <2>4, <3>1, QueueOrderAdded DEF Fails, Ends
  <2> QED BY <1>9, <2>2, <2>3, <2>4 DEF Connects, Hears, HearsLast
<1>10. CASE MicrophoneFails
  <2>1. Queue(None, "failed") /\ thread' = thread BY <1>10 DEF MicrophoneFails
  <2> QED BY <2>1, QueueOrderAdded
<1>11. CASE UserCopies \/ UNCHANGED vars BY <1>11, <1>n DEF UserCopies, vars
<1> QED BY <1>1, <1>2, <1>3, <1>4, <1>5, <1>6, <1>7, <1>8, <1>9, <1>10, <1>11 DEF Next, RunCallback, WaitEnds

-----------------------------------------------------------------------------
(* Sessions are not forgotten.                                               *)

Cancelled(w) == \E i \in 1..Len(thread[w].out) : thread[w].out[i] = "cancel"

\* An order to cancel stays until it is sent.
LEMMA CancelStays ==
    ASSUME NEW s \in Seq({"commit", "cancel"}), NEW order \in {"commit", "cancel"}
    PROVE  /\ (\E i \in 1..Len(s) : s[i] = "cancel") =>
                 \E i \in 1..Len(Append(s, order)) : Append(s, order)[i] = "cancel"
           /\ \E i \in 1..Len(Append(s, "cancel")) : Append(s, "cancel")[i] = "cancel"
           /\ s # <<>> /\ Head(s) # "cancel" /\ (\E i \in 1..Len(s) : s[i] = "cancel") =>
                 \E i \in 1..Len(Tail(s)) : Tail(s)[i] = "cancel"
<1>1. ASSUME NEW i \in 1..Len(s), s[i] = "cancel"
      PROVE  i \in 1..Len(Append(s, order)) /\ Append(s, order)[i] = "cancel"
  BY <1>1
<1>2. Len(s) + 1 \in 1..Len(Append(s, "cancel")) /\ Append(s, "cancel")[Len(s) + 1] = "cancel" OBVIOUS
<1>3. ASSUME s # <<>>, Head(s) # "cancel", NEW i \in 1..Len(s), s[i] = "cancel"
      PROVE  \E k \in 1..Len(Tail(s)) : Tail(s)[k] = "cancel"
  <2>1. i # 1 BY <1>3
  <2>2. i - 1 \in 1..Len(Tail(s)) /\ Tail(s)[i - 1] = s[i] BY <1>3, <2>1
  <2> QED BY <1>3, <2>2
<1> QED BY <1>1, <1>2, <1>3

\* Where no session comes to life, and the one that is current stays so, is over or has gone
\* astray.
LEMMA NothingForgottenKept ==
    ASSUME NothingForgotten, astray \subseteq astray',
           \A v \in Sessions : Live(v)' => Live(v) /\ (Cancelled(v) => Cancelled(v)'),
           \A v \in Sessions : Live(v)' /\ v = worker => v = worker' \/ Cancelled(v)' \/ v \in astray'
    PROVE  NothingForgotten'
BY DEF NothingForgotten, Cancelled

\* An order told leaves every session alive or not, and cancelled if it was.
LEMMA ToldLive ==
    ASSUME TypeOK, NEW w \in Sessions, NEW order \in {"commit", "cancel"}, Tell(w, order)
    PROVE  /\ \A v \in Sessions : Live(v)' => Live(v) /\ (Cancelled(v) => Cancelled(v)')
           /\ order = "cancel" /\ Live(w) => Cancelled(w)'
<1>1. thread \in [Sessions -> Threads] BY DEF TypeOK
<1>2. /\ \A v \in Sessions : thread'[v].pc = thread[v].pc
      /\ \A v \in Sessions : v # w => thread'[v].out = thread[v].out
      /\ thread'[w].out = IF Live(w) THEN Append(thread[w].out, order) ELSE thread[w].out
  BY <1>1, Told
<1>3. thread[w].out \in Seq({"commit", "cancel"}) BY <1>1 DEF Threads
<1>4. \A v \in Sessions : Live(v)' => Live(v) BY <1>2 DEF Live
<1>5. \A v \in Sessions : Cancelled(v) => Cancelled(v)'
  <2> SUFFICES ASSUME NEW v \in Sessions, Cancelled(v) PROVE Cancelled(v)' OBVIOUS
  <2>1. CASE v # w \/ ~Live(w)
    <3>1. thread'[v].out = thread[v].out BY <1>2, <2>1
    <3> QED BY <3>1 DEF Cancelled
  <2>2. CASE v = w /\ Live(w)
    <3>1. thread'[v].out = Append(thread[v].out, order) BY <1>2, <2>2
    <3> QED BY <1>3, <2>2, <3>1, CancelStays DEF Cancelled
  <2> QED BY <2>1, <2>2
<1>6. order = "cancel" /\ Live(w) => Cancelled(w)' BY <1>2, <1>3, CancelStays DEF Cancelled
<1> QED BY <1>4, <1>5, <1>6

\* No step forgets a session that has not gone astray.
LEMMA NothingForgottenStep ==
    TypeOK /\ CallsNested /\ WorkerWaits /\ QueueOrder /\ NothingForgotten /\ [Next]_vars => NothingForgotten'
<1> SUFFICES ASSUME TypeOK, CallsNested, WorkerWaits, QueueOrder, NothingForgotten, [Next]_vars
             PROVE  NothingForgotten'
  OBVIOUS
<1>a. astray \subseteq astray' BY AstrayGrows
<1>t. thread \in [Sessions -> Threads] BY DEF TypeOK
<1>n. thread' = thread => \A v \in Sessions : Live(v)' => Live(v) /\ (Cancelled(v) => Cancelled(v)')
  BY DEF Live, Cancelled
<1>k. UNCHANGED <<worker, thread>> => NothingForgotten' BY <1>a, <1>n, NothingForgottenKept
<1> USE DEF session, inject, history
<1>1. CASE StartRecording \/ FinishReturns \/ ShutdownReturns \/ Hypothesis \/ CommitSegment
  BY <1>1, <1>k DEF StartRecording, FinishReturns, ShutdownReturns, Hypothesis, CommitSegment
<1>2. CASE StopRecording
  <2>1. CASE worker # None
    <3>1. worker \in Sessions /\ Tell(worker, "commit") /\ worker' = worker
      BY <1>2, <2>1 DEF StopRecording, TypeOK
    <3> QED BY <1>a, <3>1, ToldLive, NothingForgottenKept
  <2>2. CASE worker = None
    <3>1. thread' = thread /\ worker' = None BY <1>2, <2>2 DEF StopRecording, FinishSession
    <3> QED BY <1>k, <2>2, <3>1
  <2> QED BY <2>1, <2>2
<1>3. CASE Shutdown
  <2>1. CASE worker # None
    <3>1. worker \in Sessions /\ Tell(worker, "cancel") /\ worker' = worker
      BY <1>3, <2>1 DEF Shutdown, TypeOK
    <3> QED BY <1>a, <3>1, ToldLive, NothingForgottenKept
  <2>2. CASE worker = None BY <1>3, <1>k, <2>2 DEF Shutdown
  <2> QED BY <2>1, <2>2
<1>4. CASE StartAudio
  <2>1. CASE UNCHANGED <<session, waits, thread, inject, mishaps, history>> BY <1>k, <2>1
  <2>2. CASE /\ worker # None /\ worker' = worker
             /\ thread' = [thread EXCEPT ![worker].fed = TRUE]
    <3>1. \A v \in Sessions : thread'[v].pc = thread[v].pc /\ thread'[v].out = thread[v].out
      BY <1>t, <2>2 DEF TypeOK, Threads
    <3> QED BY <1>a, <2>2, <3>1, NothingForgottenKept DEF Live, Cancelled
  <2>3. CASE worker # None /\ Tell(worker, "cancel") /\ FinishSession
    <3>1. worker \in Sessions BY <2>3 DEF TypeOK
    <3> QED BY <1>a, <2>3, <3>1, ToldLive, NothingForgottenKept
  <2> QED BY <1>4, <2>1, <2>2, <2>3 DEF StartAudio
<1>5. CASE StreamEnds
  <2>1. PICK cb \in Terminal : Callback(cb) BY <1>5 DEF StreamEnds, Terminal
  <2>2. 1 \in 1..Len(ui) /\ Head(ui) = ui[1] /\ ui[1].cb = cb BY <2>1, CalledBack
  <2>3. ui[1].of = worker /\ worker # None => ~Live(worker) BY <2>2 DEF QueueOrder, Live
  <2>4. thread' = thread BY <1>5 DEF StreamEnds
  <2>5. Head(ui).of # worker /\ worker # None => worker \in astray' BY <1>5 DEF StreamEnds
  <2>6. \A v \in Sessions : v # None BY SessionsAreNumbers
  <2>7. \A v \in Sessions : Live(v)' /\ v = worker => v \in astray' BY <1>n, <2>2, <2>3, <2>4, <2>5, <2>6
  <2> QED BY <1>a, <1>n, <2>4, <2>7, NothingForgottenKept
<1>6. CASE StartReturns
  <2>1. PICK text \in Texts : Returns("begin", text) BY <1>6 DEF StartReturns
  <2>2. Len(waits) \in 1..Len(waits) /\ waits[Len(waits)].call = "begin" /\ worker' = waits[Len(waits)].of
    BY <1>6, <2>1, Returned DEF TypeOK, StartReturns
  <2>3. worker = None \/ worker \in astray BY <2>2 DEF WorkerWaits
  <2>4. \A v \in Sessions : v # worker' => thread'[v] = thread[v] BY <1>6, <1>t DEF StartReturns
  <2>5. \A v \in Sessions : v # None BY SessionsAreNumbers
  <2>6. ASSUME NEW v \in Sessions, Live(v)', v # worker'
        PROVE  Cancelled(v)' \/ v \in astray'
    <3>1. Live(v) BY <2>4, <2>6 DEF Live
    <3>2. v = worker \/ Cancelled(v) \/ v \in astray BY <3>1 DEF NothingForgotten, Cancelled
    <3>3. Cancelled(v) => Cancelled(v)' BY <2>4, <2>6 DEF Cancelled
    <3> QED BY <1>a, <2>3, <2>5, <3>2, <3>3
  <2> QED BY <2>6 DEF NothingForgotten, Cancelled
<1>7. CASE Exit
  <2>1. \A v \in Sessions : ~Live(v)' BY <1>7 DEF Exit, Live, Closed, Fresh
  <2> QED BY <2>1 DEF NothingForgotten
<1>8. ASSUME NEW w \in Sessions,
             Connects(w) \/ Fails(w) \/ Sends(w) \/ Hears(w) \/ HearsLast(w) \/ Ends(w)
      PROVE  NothingForgotten'
  <2>1. Live(w) /\ worker' = worker /\ \A v \in Sessions : v # w => thread'[v] = thread[v]
    BY <1>8, ThreadGoesOn
  <2>2. Live(w)' /\ Cancelled(w) => Cancelled(w)'
    <3>1. CASE Sends(w)
      <4>1. CASE Head(thread[w].out) = "cancel"
        <5>1. thread'[w].pc = "closed" BY <1>t, <3>1, <4>1 DEF Sends, Becomes, Closed, Fresh
        <5> QED BY <5>1 DEF Live
      <4>2. CASE Head(thread[w].out) # "cancel"
        <5>1. thread[w] \in Threads /\ thread[w].out # <<>> BY <1>t, <3>1 DEF Sends
        <5>2. thread'[w].out = Tail(thread[w].out)
          BY <1>t, <3>1, <4>2, <5>1 DEF Sends, Becomes, Threads
        <5> QED BY <4>2, <5>1, <5>2, CancelStays DEF Cancelled, Threads
      <4> QED BY <4>1, <4>2
    <3>2. CASE Fails(w) \/ Ends(w)
      <4>1. thread'[w].pc = "closed" BY <1>t, <3>2 DEF Fails, Ends, Becomes, Closed, Fresh
      <4> QED BY <4>1 DEF Live
    <3>3. CASE Connects(w) \/ Hears(w) \/ HearsLast(w)
      <4>1. thread'[w].out = thread[w].out
        BY <1>t, <3>3 DEF Connects, Hears, HearsLast, Becomes, Threads
      <4> QED BY <4>1 DEF Cancelled
    <3> QED BY <1>8, <3>1, <3>2, <3>3
  <2>3. \A v \in Sessions : Live(v)' => Live(v) /\ (Cancelled(v) => Cancelled(v)')
    BY <2>1, <2>2 DEF Live, Cancelled
  <2> QED BY <1>a, <2>1, <2>3, NothingForgottenKept
<1>9. CASE MicrophoneFails \/ UserCopies \/ UNCHANGED vars
  BY <1>9, <1>k DEF MicrophoneFails, UserCopies, vars
<1> QED BY <1>1, <1>2, <1>3, <1>4, <1>5, <1>6, <1>7, <1>8, <1>9 DEF Next, RunCallback, WaitEnds

\* What holds of the calls, the queue and the threads, also after sessions that went astray.
LEMMA SessionsHeld == Spec => [](TypeOK /\ CallsNested /\ WorkerWaits /\ QueueOrder /\ NothingForgotten)
<1>1. Init => WorkerWaits /\ QueueOrder /\ NothingForgotten
  BY DEF Init, WorkerWaits, QueueOrder, NothingForgotten, Live, Fresh
<1> QED BY <1>1, TypesInit, CallsNestedInit, TypesStep, CallsNestedStep, WorkerWaitsStep, QueueOrderStep,
           NothingForgottenStep, PTL DEF Spec

\* A session's thread ends, or has been told to, before the controller forgets it, unless
\* the session has gone astray.
THEOREM NoSessionForgotten == Spec => []NothingForgotten
BY SessionsHeld, PTL

-----------------------------------------------------------------------------
(* The session that is current, with no session astray.                      *)

\* Where the controller takes a callback from the queue, or leaves it alone.
LEMMA CurrentKept ==
    ASSUME TypeOK, QueueOrder, Current,
           ui' = ui \/ (\E cb \in {"connected", "hypothesis", "segment", "failed", "completed"} : Callback(cb)),
           worker' = worker, capture' \in {None, capture},
           \A w \in Sessions : thread'[w].pc = thread[w].pc /\ thread'[w].fed = thread[w].fed
    PROVE  Current'
<1>1. \A i \in 1..Len(ui) : ui[i].of # None => ui[i].of \in Sessions
  <2>1. \A i \in 1..Len(ui) : ui[i] \in Callbacks BY DEF TypeOK
  <2> QED BY <2>1 DEF Callbacks
<1>2. \A i \in 1..Len(ui) : ui[i].cb \in Ready => ui[i].of \in Sessions
  BY <1>1 DEF QueueOrder, Ready
<1>3. /\ \A w \in Sessions : thread'[w].pc = "connecting" => w = worker' /\ capture' = None
      /\ \A w \in Sessions : thread'[w].pc \in {"none", "connecting"} => ~thread'[w].fed
      /\ \A w \in Sessions : Live(w)' /\ thread'[w].fed => w = worker'
      /\ capture' \in {None, worker'}
  BY DEF Current, Live
<1>4. CASE ui' = ui
  <2>1. \A i \in 1..Len(ui) : ui[i].cb = "connected" => ~thread'[ui[i].of].fed /\ capture' = None
    BY <1>2 DEF Current, Ready
  <2> QED BY <1>3, <1>4, <2>1 DEF Current
<1>5. ASSUME NEW cb \in {"connected", "hypothesis", "segment", "failed", "completed"}, Callback(cb)
      PROVE  Current'
  <2>1. \A i \in 1..Len(ui') : i + 1 \in 1..Len(ui) /\ ui'[i] = ui[i + 1] BY <1>5, CalledBack
  <2>2. \A i \in 1..Len(ui') : ui'[i].cb \in Ready => ui'[i].of = worker' BY <2>1 DEF Current
  <2>3. ASSUME NEW i \in 1..Len(ui'), ui'[i].cb = "connected"
        PROVE  /\ ~thread'[ui'[i].of].fed /\ capture' = None
               /\ \A j \in 1..Len(ui') : j # i => ui'[j].cb \notin Ready
    <3>1. i + 1 \in 1..Len(ui) /\ ui[i + 1].cb = "connected" /\ ui'[i] = ui[i + 1] BY <2>1, <2>3
    <3>2. /\ ~thread[ui[i + 1].of].fed /\ capture = None
          /\ \A k \in 1..Len(ui) : k # i + 1 => ui[k].cb \notin Ready
      BY <3>1 DEF Current
    <3>3. ui[i + 1].of \in Sessions BY <1>2, <3>1 DEF Ready
    <3>4. ASSUME NEW j \in 1..Len(ui'), j # i PROVE ui'[j].cb \notin Ready
      <4>1. j + 1 \in 1..Len(ui) /\ ui'[j] = ui[j + 1] BY <2>1
      <4>2. j + 1 # i + 1 BY <3>4
      <4> QED BY <3>2, <4>1, <4>2
    <3> QED BY <3>1, <3>2, <3>3, <3>4
  <2> QED BY <1>3, <2>2, <2>3 DEF Current
<1> QED BY <1>4, <1>5

\* Where it adds one that is of no consequence here.
LEMMA CurrentAdded ==
    ASSUME TypeOK, QueueOrder, Current, NEW w \in Sessions \cup {None},
           NEW cb \in {"segment", "failed", "completed"}, Queue(w, cb),
           UNCHANGED <<worker, capture>>,
           \A v \in Sessions : v # w => thread'[v] = thread[v],
           w # None => /\ thread'[w].pc \notin {"none", "connecting"}
                       /\ Live(w)' => Live(w)
                       /\ thread'[w].fed => thread[w].fed
    PROVE  Current'
<1>1. /\ Len(ui') = Len(ui) + 1 /\ Len(ui) \in Nat
      /\ \A i \in 1..Len(ui') : \/ i \in 1..Len(ui) /\ ui'[i] = ui[i]
                                \/ i = Len(ui) + 1 /\ ui'[i].cb = cb
  BY Queued
<1>2. cb \notin Ready BY DEF Ready
<1>3. \A i \in 1..Len(ui') : ui'[i].cb \in Ready => i \in 1..Len(ui) /\ ui'[i] = ui[i] BY <1>1, <1>2
<1>4. \A i \in 1..Len(ui) : ui[i].cb \in Ready => ui[i].of \in Sessions
  <2>1. \A i \in 1..Len(ui) : ui[i] \in Callbacks BY DEF TypeOK
  <2> QED BY <2>1 DEF Callbacks, QueueOrder, Ready
<1>5. \A i \in 1..Len(ui') : ui'[i].cb \in Ready => ui'[i].of = worker' BY <1>3 DEF Current
<1>6. ASSUME NEW i \in 1..Len(ui'), ui'[i].cb = "connected"
      PROVE  /\ ~thread'[ui'[i].of].fed /\ capture' = None
             /\ \A j \in 1..Len(ui') : j # i => ui'[j].cb \notin Ready
  <2>1. i \in 1..Len(ui) /\ ui'[i] = ui[i] /\ ui[i].cb = "connected" BY <1>3, <1>6 DEF Ready
  <2>2. /\ ~thread[ui[i].of].fed /\ capture = None
        /\ \A j \in 1..Len(ui) : j # i => ui[j].cb \notin Ready
    BY <2>1 DEF Current
  <2>3. ui[i].of \in Sessions /\ ui[i].of # None BY <1>4, <2>1, SessionsAreNumbers DEF Ready
  <2>4. ~thread'[ui[i].of].fed BY <2>2, <2>3
  <2> QED BY <1>3, <2>1, <2>2, <2>4
<1>7. \A v \in Sessions : v # None BY SessionsAreNumbers
<1>8. ASSUME NEW v \in Sessions
      PROVE  /\ thread'[v].pc = "connecting" => v = worker' /\ capture' = None
             /\ thread'[v].pc \in {"none", "connecting"} => ~thread'[v].fed
             /\ Live(v)' /\ thread'[v].fed => v = worker'
  <2>1. CASE v = w BY <1>7, <2>1 DEF Current
  <2>2. CASE v # w BY <2>2 DEF Current, Live
  <2> QED BY <2>1, <2>2
<1> QED BY <1>5, <1>6, <1>8 DEF Current

\* Where the session that is current ends, with nothing more to hear of it.
LEMMA CurrentEnds ==
    ASSUME worker' = None, capture' = None,
           \A i \in 1..Len(ui') : ui'[i].cb \notin Ready,
           \A w \in Sessions : /\ thread'[w].pc # "connecting" /\ ~(Live(w)' /\ thread'[w].fed)
                               /\ thread'[w].pc = "none" => ~thread'[w].fed
    PROVE  Current'
BY DEF Current, Ready

\* With no worker there is nothing to hear of.
LEMMA NoneCurrent ==
    ASSUME TypeOK, QueueOrder, Current, worker = None
    PROVE  /\ \A i \in 1..Len(ui) : ui[i].cb \notin Ready
           /\ \A w \in Sessions : thread[w].pc # "connecting" /\ ~(Live(w) /\ thread[w].fed)
           /\ capture = None
BY SessionsAreNumbers DEF Current, QueueOrder, Ready

\* What is heard of and fed stays of the current session, while none goes astray.
LEMMA CurrentStep ==
    ASSUME TypeOK, CallsNested, WorkerWaits, QueueOrder, Current, astray = {}, astray' = {}, [Next]_vars
    PROVE  Current'
<1>t. thread \in [Sessions -> Threads] BY DEF TypeOK
<1>o. \A i \in 1..Len(ui) : ui[i] \in Callbacks BY DEF TypeOK
<1>s. \A w \in Sessions : w # None BY SessionsAreNumbers
<1>k. ui' = ui /\ worker' = worker /\ capture' \in {None, capture}
      /\ (\A w \in Sessions : thread'[w].pc = thread[w].pc /\ thread'[w].fed = thread[w].fed) => Current'
  BY CurrentKept
<1>q. thread' = thread => \A w \in Sessions : thread'[w].pc = thread[w].pc /\ thread'[w].fed = thread[w].fed
  OBVIOUS
<1>e. worker = None /\ worker' = None /\ capture' = None /\ ui' = ui /\ thread' = thread => Current'
  BY <1>q, NoneCurrent, CurrentEnds DEF Current, Live
<1> USE DEF session, inject, history
<1>1. CASE StartRecording BY <1>1, <1>k, <1>q DEF StartRecording
<1>2. CASE StopRecording
  <2>1. CASE worker # None
    <3>1. \A w \in Sessions : thread'[w].pc = thread[w].pc /\ thread'[w].fed = thread[w].fed
      BY <1>2, <1>t, <2>1, Told DEF StopRecording, TypeOK
    <3> QED BY <1>2, <1>k, <2>1, <3>1 DEF StopRecording
  <2>2. CASE worker = None BY <1>2, <1>e, <2>2 DEF StopRecording, FinishSession
  <2> QED BY <2>1, <2>2
<1>3. CASE StartAudio
  <2>1. /\ \A i \in 1..Len(ui') : i + 1 \in 1..Len(ui) /\ i + 1 # 1 /\ ui'[i] = ui[i + 1]
        /\ 1 \in 1..Len(ui) /\ ui[1].cb = "connected"
    BY <1>3, CalledBack DEF StartAudio
  <2>2. ui[1].of = worker /\ ~thread[ui[1].of].fed /\ \A i \in 1..Len(ui) : i # 1 => ui[i].cb \notin Ready
    BY <2>1 DEF Current, Ready
  <2>3. \A i \in 1..Len(ui') : ui'[i].cb \notin Ready BY <2>1, <2>2
  <2>4. worker \in Sessions /\ thread[worker].pc \notin {"none", "connecting"}
    BY <1>o, <2>1, <2>2 DEF QueueOrder, Callbacks
  <2>5. \A w \in Sessions : thread[w].pc # "connecting" /\ ~(Live(w) /\ thread[w].fed)
    BY <2>2, <2>4 DEF Current
  <2>6. CASE /\ capture' = worker /\ worker' = worker
             /\ thread' = [thread EXCEPT ![worker].fed = TRUE]
    <3>1. \A w \in Sessions : /\ thread'[w].pc = thread[w].pc
                              /\ w # worker => thread'[w].fed = thread[w].fed
      BY <1>t, <2>4, <2>6 DEF Threads
    <3>2. \A w \in Sessions : thread'[w].pc \in {"none", "connecting"} => ~thread'[w].fed
      BY <2>4, <3>1 DEF Current
    <3>3. \A w \in Sessions : Live(w)' /\ thread'[w].fed => w = worker'
      BY <2>5, <2>6, <3>1 DEF Live
    <3>4. \A w \in Sessions : thread'[w].pc # "connecting" BY <2>5, <3>1
    <3> QED BY <2>3, <2>6, <3>2, <3>3, <3>4 DEF Current, Ready
  <2>7. CASE Tell(worker, "cancel") /\ FinishSession
    <3>1. \A w \in Sessions : thread'[w].pc = thread[w].pc /\ thread'[w].fed = thread[w].fed
      BY <1>t, <2>4, <2>7, Told
    <3>2. worker' = None /\ capture' = None BY <2>7 DEF FinishSession
    <3>3. \A w \in Sessions : thread'[w].pc = "none" => ~thread'[w].fed BY <3>1 DEF Current
    <3>4. \A w \in Sessions : ~(Live(w)' /\ thread'[w].fed) BY <2>5, <3>1 DEF Live
    <3> QED BY <2>3, <2>5, <3>1, <3>2, <3>3, <3>4, CurrentEnds
  <2> QED BY <1>3, <1>s, <2>4, <2>6, <2>7 DEF StartAudio
<1>4. CASE Hypothesis \/ CommitSegment
  BY <1>4, <1>q, CurrentKept DEF Hypothesis, CommitSegment
<1>5. CASE StreamEnds
  <2>1. PICK cb \in Terminal : Callback(cb) BY <1>5 DEF StreamEnds, Terminal
  <2>2. /\ \A i \in 1..Len(ui') : i + 1 \in 1..Len(ui) /\ i + 1 > 1 /\ ui'[i] = ui[i + 1]
        /\ 1 \in 1..Len(ui) /\ ui[1].cb = cb /\ Head(ui) = ui[1]
    BY <2>1, CalledBack
  <2>3. worker' = None /\ capture' = None /\ thread' = thread BY <1>5 DEF StreamEnds, FinishSession
  <2>4. \A w \in Sessions : thread'[w].pc = "none" => ~thread'[w].fed BY <2>3 DEF Current
  <2>5. CASE worker = None
    <3>1. \A i \in 1..Len(ui') : ui'[i].cb \notin Ready BY <2>2, <2>5, NoneCurrent
    <3> QED BY <2>3, <2>4, <2>5, <3>1, NoneCurrent, CurrentEnds DEF Live
  <2>6. CASE worker # None
    <3>1. ui[1].of = worker BY <1>5, <2>2, <2>6 DEF StreamEnds
    <3>2. /\ thread[worker].pc = "closed"
          /\ \A j \in 1..Len(ui) : j > 1 => ui[j].of # worker
      BY <2>2, <2>6, <3>1 DEF QueueOrder
    <3>3. \A i \in 1..Len(ui') : ui'[i].cb \notin Ready BY <2>2, <3>2 DEF Current
    <3>4. \A w \in Sessions : thread[w].pc # "connecting" /\ ~(Live(w) /\ thread[w].fed)
      BY <3>2 DEF Current, Live
    <3> QED BY <2>3, <2>4, <3>3, <3>4, CurrentEnds DEF Live
  <2> QED BY <2>5, <2>6
<1>6. CASE Shutdown
  <2>1. \A w \in Sessions : thread'[w].pc = thread[w].pc /\ thread'[w].fed = thread[w].fed
    BY <1>6, <1>t, Told DEF Shutdown, TypeOK
  <2> QED BY <1>6, <1>k, <2>1 DEF Shutdown
<1>7. CASE StartReturns
  <2>1. PICK text \in Texts : Returns("begin", text) BY <1>7 DEF StartReturns
  <2>2. Len(waits) \in 1..Len(waits) /\ waits[Len(waits)].call = "begin" /\ worker' = waits[Len(waits)].of
    BY <1>7, <2>1, Returned DEF TypeOK, StartReturns
  <2>3. worker = None BY <2>2 DEF WorkerWaits
  <2>4. thread[worker'].pc = "none" /\ worker' # None BY <2>2 DEF CallsNested
  <2>5. worker' \in Sessions BY <2>2, <2>4, FrameType
  <2>6. /\ \A w \in Sessions : w # worker' => thread'[w] = thread[w]
        /\ thread'[worker'].pc = "connecting" /\ thread'[worker'].fed = thread[worker'].fed
    BY <1>7, <1>t, <2>5 DEF StartReturns, Threads
  <2>7. ui' = ui /\ capture' = capture BY <1>7 DEF StartReturns
  <2>8. ~thread'[worker'].fed BY <2>4, <2>5, <2>6 DEF Current
  <2> QED BY <2>3, <2>6, <2>7, <2>8, NoneCurrent DEF Current, Ready, Live
<1>8. CASE FinishReturns \/ ShutdownReturns BY <1>8, <1>k, <1>q DEF FinishReturns, ShutdownReturns
<1>9. CASE Exit
  <2>1. ui' = <<>> /\ worker' = None /\ capture' = None BY <1>9 DEF Exit
  <2>2. \A w \in Sessions : thread'[w].pc = "closed" /\ ~thread'[w].fed BY <1>9 DEF Exit, Closed, Fresh
  <2>3. \A i \in 1..Len(ui') : FALSE BY <2>1
  <2> QED BY <2>1, <2>2, <2>3, CurrentEnds
<1>10. ASSUME NEW w \in Sessions,
              Connects(w) \/ Fails(w) \/ Sends(w) \/ Hears(w) \/ HearsLast(w) \/ Ends(w)
       PROVE  Current'
  <2>1. /\ Live(w) /\ w # None /\ \A v \in Sessions : v # w => thread'[v] = thread[v]
        /\ thread'[w].pc \in {"streaming", "ending", "closed"}
        /\ thread'[w].fed => thread[w].fed
        /\ UNCHANGED <<worker, capture>>
    BY <1>10, ThreadGoesOn
  <2>2. ASSUME NEW v \in Sessions
        PROVE  /\ thread'[v].pc = "connecting" => v = worker' /\ capture' = None
               /\ thread'[v].pc \in {"none", "connecting"} => ~thread'[v].fed
               /\ Live(v)' /\ thread'[v].fed => v = worker'
    <3>1. CASE v = w BY <2>1, <3>1 DEF Current
    <3>2. CASE v # w BY <2>1, <3>2 DEF Current, Live
    <3> QED BY <3>1, <3>2
  <2>3. CASE Connects(w)
    <3>1. w = worker /\ capture = None /\ ~thread[w].fed BY <2>3 DEF Connects, Thread, Current
    <3>2. \A i \in 1..Len(ui) : ui[i].cb \notin Ready
      BY <2>1, <2>3, <3>1 DEF Connects, Thread, Current, QueueOrder
    <3>3. Queue(w, "connected") BY <2>3 DEF Connects
    <3>4. \A i \in 1..Len(ui') : \/ i \in 1..Len(ui) /\ ui'[i] = ui[i]
                                 \/ i = Len(ui) + 1 /\ ui'[i].cb = "connected" /\ ui'[i].of = w
      BY <3>3, Queued
    <3>5. \A i \in 1..Len(ui') : ui'[i].cb \in Ready => i = Len(ui) + 1 /\ ui'[i].of = w BY <3>2, <3>4
    <3>6. ~thread'[w].fed /\ worker' = w /\ capture' = None BY <2>1, <3>1
    <3>7. \A i \in 1..Len(ui') : ui'[i].cb = "connected" => i = Len(ui) + 1 /\ ui'[i].of = w
      BY <3>5 DEF Ready
    <3> QED BY <2>2, <3>5, <3>6, <3>7 DEF Current
  <2>4. ASSUME NEW cb \in {"segment", "failed", "completed"}, Queue(w, cb) PROVE Current'
    BY <2>1, <2>4, CurrentAdded DEF Live
  <2>5. CASE Hears(w)
    <3>1. CASE Queue(w, "hypothesis")
      <4>1. w = worker /\ thread[w].fed BY <2>1, <2>5 DEF Hears, Current
      <4>2. \A i \in 1..Len(ui) : ui[i].cb # "connected" BY <4>1 DEF Current, Ready
      <4>3. \A i \in 1..Len(ui') : \/ i \in 1..Len(ui) /\ ui'[i] = ui[i]
                                   \/ i = Len(ui) + 1 /\ ui'[i].cb = "hypothesis" /\ ui'[i].of = w
        BY <3>1, Queued
      <4>4. \A i \in 1..Len(ui') : ui'[i].cb # "connected" BY <4>2, <4>3
      <4>5. \A i \in 1..Len(ui') : ui'[i].cb \in Ready => ui'[i].of = worker'
        BY <2>1, <4>1, <4>3 DEF Current
      <4>6. capture' \in {None, worker'} BY <2>1 DEF Current
      <4> QED BY <2>2, <4>4, <4>5, <4>6 DEF Current
    <3> QED BY <2>4, <2>5, <3>1 DEF Hears
  <2>6. CASE Sends(w)
    <3>1. ui' = ui BY <2>6 DEF Sends
    <3>2. ASSUME NEW i \in 1..Len(ui), ui[i].cb = "connected" PROVE ~thread'[ui[i].of].fed
      <4>1. ui[i].of \in Sessions BY <1>o, <3>2 DEF QueueOrder, Callbacks
      <4>2. ~thread[ui[i].of].fed BY <3>2 DEF Current
      <4> QED BY <2>1, <4>1, <4>2
    <3>3. capture' \in {None, worker'} BY <2>1 DEF Current
    <3> QED BY <2>1, <2>2, <3>1, <3>2, <3>3 DEF Current
  <2> QED BY <1>10, <2>3, <2>4, <2>5, <2>6 DEF Fails, HearsLast, Ends
<1>11. CASE MicrophoneFails
  <2>1. Queue(None, "failed") /\ UNCHANGED <<worker, capture, thread>> BY <1>11 DEF MicrophoneFails
  <2> QED BY <2>1, CurrentAdded
<1>12. CASE UserCopies \/ UNCHANGED vars BY <1>12, <1>k, <1>q DEF UserCopies, vars
<1> QED BY <1>1, <1>2, <1>3, <1>4, <1>5, <1>6, <1>7, <1>8, <1>9, <1>10, <1>11, <1>12
        DEF Next, RunCallback, WaitEnds

-----------------------------------------------------------------------------
(* The microphone.                                                           *)

\* A call that ends a session still waits when another has begun to.
LEMMA EndStillWaits ==
    ASSUME TypeOK, NEW call \in {"begin", "end", "shutdown"}, NEW w \in Sessions \cup {None}, Waits(call, w),
           call = "end" \/ \E i \in 1..Len(waits) : waits[i].call = "end"
    PROVE  \E i \in 1..Len(waits') : waits'[i].call = "end"
<1>1. /\ Len(waits') \in 1..Len(waits') /\ waits'[Len(waits')].call = call
      /\ \A i \in 1..Len(waits) : i \in 1..Len(waits') /\ waits'[i] = waits[i]
  BY Waited
<1> QED BY <1>1

\* The microphone follows the state, while no session goes astray.
LEMMA MicStep ==
    ASSUME TypeOK, CallsNested, WorkerWaits, QueueOrder, Current, MicFollowsState, astray = {}, astray' = {},
           [Next]_vars
    PROVE  MicFollowsState'
<1> USE DEF session, history
<1>w. waits \in Seq(Frames) BY DEF TypeOK
<1>k. UNCHANGED <<state, capture, waits>> => MicFollowsState' BY DEF MicFollowsState
<1>e. FinishSession => MicFollowsState'
  <2> SUFFICES ASSUME FinishSession PROVE MicFollowsState' OBVIOUS
  <2>1. capture' = None /\ Waits("end", None) BY DEF FinishSession
  <2>2. \E i \in 1..Len(waits') : waits'[i].call = "end" BY <2>1, EndStillWaits
  <2> QED BY <2>1, <2>2 DEF MicFollowsState
<1>1. CASE StartRecording BY <1>1 DEF StartRecording, MicFollowsState
<1>2. CASE StopRecording BY <1>2 DEF StopRecording, MicFollowsState
<1>3. CASE StartAudio
  <2>1. CASE FinishSession BY <1>e, <2>1
  <2>2. CASE worker # None /\ capture' = worker /\ state' = "recording" BY <2>2 DEF MicFollowsState
  <2> QED BY <1>3, <1>k, <2>1, <2>2 DEF StartAudio
<1>4. CASE StreamEnds BY <1>4, <1>e DEF StreamEnds
<1>5. CASE Shutdown
  <2>1. Waits("shutdown", None) /\ UNCHANGED <<state, capture>> BY <1>5 DEF Shutdown
  <2>2. (\E i \in 1..Len(waits) : waits[i].call = "end") => \E i \in 1..Len(waits') : waits'[i].call = "end"
    BY <2>1, EndStillWaits
  <2> QED BY <2>1, <2>2 DEF MicFollowsState
<1>6. ASSUME NEW call, NEW text, Returns(call, text), call # "end", UNCHANGED <<state, capture>>
      PROVE  MicFollowsState'
  <2>1. /\ waits[Len(waits)].call = call /\ Len(waits) \in Nat \ {0} /\ Len(waits') = Len(waits) - 1
        /\ \A i \in 1..Len(waits') : waits'[i].call = waits[i].call
    BY <1>6, <1>w, Returned
  <2>2. ASSUME NEW i \in 1..Len(waits), waits[i].call = "end"
        PROVE  i \in 1..Len(waits') /\ waits'[i].call = "end"
    <3>1. i # Len(waits) BY <1>6, <2>1, <2>2
    <3> QED BY <2>1, <2>2, <3>1
  <2> QED BY <1>6, <2>2 DEF MicFollowsState
<1>7. CASE StartReturns \/ ShutdownReturns BY <1>6, <1>7 DEF StartReturns, ShutdownReturns
<1>8. CASE FinishReturns
  <2>1. PICK text \in Texts : Returns("end", text) BY <1>8 DEF FinishReturns
  <2>2. Len(waits) \in 1..Len(waits) /\ waits[Len(waits)].call = "end" BY <1>w, <2>1, Returned
  <2>3. worker = None BY <2>2 DEF WorkerWaits
  <2>4. capture = None BY <2>3, NoneCurrent
  <2> QED BY <1>8, <2>4 DEF FinishReturns, MicFollowsState
<1>9. CASE Exit BY <1>9 DEF Exit, MicFollowsState
<1>10. ASSUME NEW w \in Sessions,
              Connects(w) \/ Fails(w) \/ Sends(w) \/ Hears(w) \/ HearsLast(w) \/ Ends(w)
       PROVE  MicFollowsState'
  BY <1>10, <1>k, ThreadGoesOn
<1>11. CASE Hypothesis \/ CommitSegment \/ MicrophoneFails \/ UserCopies \/ UNCHANGED vars
  BY <1>11, <1>k DEF Hypothesis, CommitSegment, MicrophoneFails, UserCopies, vars
<1> QED BY <1>1, <1>2, <1>3, <1>4, <1>5, <1>7, <1>8, <1>9, <1>10, <1>11 DEF Next, RunCallback, WaitEnds

\* A capture is replaced only if a session has gone astray.
LEMMA HeldStep ==
    ASSUME TypeOK, QueueOrder, astray = {} => Current, ~unheld, [Next]_vars
    PROVE  ~unheld'
<1>1. CASE StartAudio
  <2>1. 1 \in 1..Len(ui) /\ ui[1].cb = "connected" BY <1>1, CalledBack DEF StartAudio
  <2>2. astray = {} => capture = None BY <2>1 DEF Current
  <2> QED BY <1>1, <2>2 DEF StartAudio, history
<1>2. CASE ~StartAudio
  BY <1>2 DEF Next, RunCallback, WaitEnds, StartRecording, StopRecording, Hypothesis, CommitSegment,
     StreamEnds, Shutdown, StartReturns, FinishReturns, ShutdownReturns, Exit, Connects, Fails, Sends, Hears,
     HearsLast, Ends, Elsewhere, MicrophoneFails, UserCopies, vars, history
<1> QED BY <1>1, <1>2

-----------------------------------------------------------------------------
(* The clipboard.                                                            *)

\* Where a call that ends a session or the client returns.
LEMMA ClipReturn ==
    ASSUME TypeOK, CallsNested, WorkerWaits, Clip, astray = {}, NEW call \in {"end", "shutdown"},
           NEW text, Returns(call, text), InjectorEnd(text), worker' = worker,
           phase' = IF call = "shutdown" THEN "quitting" ELSE phase
    PROVE  Clip'
<1>1. /\ Len(waits) \in Nat \ {0} /\ Len(waits') = Len(waits) - 1
      /\ Len(waits) \in 1..Len(waits) /\ waits[Len(waits)].call = call
      /\ waits[Len(waits)].answered \/ text = clipboard
      /\ \A i \in 1..Len(waits') :
            /\ i \in 1..Len(waits) /\ i # Len(waits)
            /\ waits'[i].call = waits[i].call /\ waits'[i].of = waits[i].of
            /\ waits'[i].answered => waits[i].answered \/ i = Len(waits')
  BY Returned DEF TypeOK
<1>2. ~last' /\ ~staged' /\ original' = original BY DEF InjectorEnd
<1>3. clipboard' = mine' /\ mine' # Dictated
  <2>1. CASE waits[Len(waits)].answered BY <1>1, <2>1 DEF Clip, InjectorEnd
  <2>2. CASE text = clipboard BY <2>2 DEF Clip, InjectorEnd
  <2> QED BY <1>1, <2>1, <2>2
<1>4. Looping' => Looping
  <2>1. phase # "gone" /\ waits # <<>> BY <1>1 DEF CallsNested
  <2> QED BY <2>1 DEF Looping, TypeOK
<1>5. \A i \in 1..Len(waits') : worker = None
  <2> SUFFICES ASSUME NEW i \in 1..Len(waits') PROVE worker = None OBVIOUS
  <2>1. ~(waits[i].call = "shutdown" /\ waits[Len(waits)].call = "shutdown") BY <1>1 DEF CallsNested
  <2>2. waits[i].call # "shutdown" => worker = None BY <1>1 DEF WorkerWaits
  <2>3. waits[Len(waits)].call # "shutdown" => worker = None BY <1>1 DEF WorkerWaits
  <2> QED BY <2>1, <2>2, <2>3
<1>6. \A i \in 1..Len(waits') : waits'[i].call = "begin" => call = "shutdown"
  <2> SUFFICES ASSUME NEW i \in 1..Len(waits'), waits'[i].call = "begin" PROVE call # "end" OBVIOUS
  <2>1. i \in 1..Len(waits) /\ waits[i].call = "begin" BY <1>1
  <2>2. \A j \in 1..Len(waits) : waits[j].call # "end" BY <2>1 DEF WorkerWaits
  <2> QED BY <1>1, <2>2
<1>7. \A i \in 1..Len(waits') : waits'[i].answered /\ waits'[i].call = "begin" => phase' = "quitting"
  BY <1>6
<1>8. Looping' /\ worker' # None => original' # Dictated BY <1>2, <1>4 DEF Clip
<1> QED BY <1>2, <1>3, <1>5, <1>7, <1>8 DEF Clip

\* The clipboard stays the user's or known to be ours, while no session goes astray.
LEMMA ClipStep ==
    ASSUME TypeOK, CallsNested, WorkerWaits, QueueOrder, Current, Clip, astray = {}, astray' = {}, [Next]_vars
    PROVE  Clip'
<1> USE DEF session, inject, history
<1>w. waits \in Seq(Frames) BY DEF TypeOK
<1>d. Dictated \notin Copies BY ClientAssumption
<1>k. ASSUME UNCHANGED <<waits, inject>>, worker' = worker, phase' = phase PROVE Clip'
  <2>1. /\ waits' = waits /\ staged' = staged /\ original' = original /\ last' = last
        /\ clipboard' = clipboard /\ mine' = mine
    BY <1>k
  <2>2. Looping' <=> Looping BY <1>k, <2>1 DEF Looping
  <2> QED BY <1>k, <2>1, <2>2 DEF Clip
<1>e. FinishSession /\ Looping => Clip'
  <2> SUFFICES ASSUME FinishSession, Looping PROVE Clip' OBVIOUS
  <2>1. worker' = None /\ Waits("end", None) /\ UNCHANGED <<phase, inject>> BY DEF FinishSession
  <2>2. /\ Len(waits') \in 1..Len(waits') /\ waits'[Len(waits')].call = "end"
        /\ \A i \in 1..Len(waits') :
              \/ i \in 1..Len(waits) /\ waits'[i] = waits[i]
              \/ waits'[i].call = "end" /\ ~waits'[i].answered
    BY <2>1, Waited
  <2> QED BY <2>1, <2>2 DEF Clip
<1>1. CASE StartRecording
  <2>1. Waits("begin", started') /\ worker' = worker /\ state = "idle" /\ waits = <<>>
    BY <1>1 DEF StartRecording
  <2>2. worker = None BY <2>1 DEF WorkerWaits
  <2>3. started' \in Sessions
    <3>1. started \in 0..MaxSessions /\ MaxSessions \in Nat BY ClientAssumption DEF TypeOK
    <3>2. started + (IF phase = "running" THEN 0 ELSE 1) < MaxSessions /\ started' = started + 1
      BY <1>1 DEF StartRecording
    <3>3. started < MaxSessions BY <3>1, <3>2
    <3> QED BY <3>1, <3>2, <3>3 DEF Sessions
  <2>4. \A i \in 1..Len(waits') : waits'[i].call = "begin" /\ ~waits'[i].answered
    <3>1. \A i \in 1..Len(waits) : FALSE BY <2>1
    <3> QED BY <2>1, <2>3, <3>1, Waited
  <2>5. ~last /\ ~staged
    <3>1. \A i \in 1..Len(waits) : FALSE BY <2>1
    <3> QED BY <2>2, <3>1 DEF Clip
  <2>6. UNCHANGED <<phase, original, last, clipboard, mine>> /\ staged' = FALSE BY <1>1 DEF StartRecording
  <2> QED BY <2>1, <2>2, <2>4, <2>5, <2>6 DEF Clip
<1>2. CASE StopRecording
  <2>1. CASE worker # None
    <3>1. UNCHANGED <<waits, inject>> /\ worker' = worker /\ phase' = phase
      BY <1>2, <2>1 DEF StopRecording
    <3> QED BY <1>k, <3>1
  <2>2. CASE worker = None BY <1>2, <1>e, <2>2 DEF StopRecording, Key
  <2> QED BY <2>1, <2>2
<1>3. CASE StartAudio
  <2>1. Looping BY <1>3 DEF StartAudio, Callback, Idle
  <2>2. CASE FinishSession BY <1>e, <2>1, <2>2
  <2>3. CASE UNCHANGED <<waits, inject>> /\ worker' = worker /\ phase' = phase BY <1>k, <2>3
  <2>4. FinishSession \/ (UNCHANGED <<waits, inject>> /\ worker' = worker /\ phase' = phase)
    BY <1>3 DEF StartAudio
  <2> QED BY <2>2, <2>3, <2>4
<1>4. CASE Hypothesis
  <2>1. Looping /\ 1 \in 1..Len(ui) /\ ui[1].cb = "hypothesis"
    BY <1>4, CalledBack DEF Hypothesis, Callback, Idle
  <2>2. worker # None BY <2>1, NoneCurrent DEF Ready
  <2>3. original # Dictated BY <2>1, <2>2 DEF Clip
  <2>4. UNCHANGED <<phase, waits, worker, original, last, clipboard, mine>>
    BY <1>4 DEF Hypothesis, InjectorStage
  <2> QED BY <2>2, <2>3, <2>4 DEF Clip, Looping
<1>5. CASE CommitSegment
  <2>1. UNCHANGED <<phase, waits, worker, original>> /\ staged' = FALSE
    BY <1>5 DEF CommitSegment, InjectorCommit
  <2>2. CASE UNCHANGED <<clipboard, last, mine>> BY <2>1, <2>2 DEF Clip, Looping
  <2>3. CASE staged /\ Insert
    <3>1. original # Dictated BY <2>3 DEF Clip
    <3>2. mine' = original /\ mine' # Dictated BY <2>3, <3>1 DEF Clip, Insert
    <3>3. clipboard' = Dictated /\ last' = TRUE BY <2>3 DEF Insert
    <3> QED BY <2>1, <2>3, <3>1, <3>2, <3>3 DEF Clip, Looping
  <2> QED BY <1>5, <2>2, <2>3 DEF CommitSegment, InjectorCommit
<1>6. CASE StreamEnds BY <1>6, <1>e DEF StreamEnds, Callback, Idle
<1>7. CASE Shutdown
  <2>1. Waits("shutdown", None) /\ phase' = "closing" /\ Looping /\ UNCHANGED <<worker, inject>>
    BY <1>7 DEF Shutdown, Key
  <2>2. /\ \A i \in 1..Len(waits) : i \in 1..Len(waits') /\ waits'[i] = waits[i]
        /\ \A i \in 1..Len(waits') :
              \/ i \in 1..Len(waits) /\ waits'[i] = waits[i]
              \/ waits'[i].call = "shutdown" /\ ~waits'[i].answered
    BY <2>1, Waited
  <2>3. phase = "running" BY <1>7 DEF Shutdown
  <2>4. \A i \in 1..Len(waits') : waits'[i].answered /\ waits'[i].call = "begin" => phase' = "quitting"
    BY <2>2, <2>3 DEF Clip
  <2>5. worker = None /\ (\A i \in 1..Len(waits') : waits'[i].call # "end") => ~last /\ ~staged
    BY <2>2 DEF Clip
  <2>6. \A i \in 1..Len(waits') : waits'[i].answered => worker = None /\ ~last /\ ~staged
    BY <2>2 DEF Clip
  <2> QED BY <2>1, <2>4, <2>5, <2>6 DEF Clip
<1>8. CASE StartReturns
  <2>1. PICK text \in Texts : Returns("begin", text) /\ original' = text BY <1>8 DEF StartReturns
  <2>2. /\ Len(waits) \in 1..Len(waits) /\ waits[Len(waits)].call = "begin"
        /\ waits[Len(waits)].answered \/ text = clipboard
        /\ worker' = waits[Len(waits)].of
        /\ waits' = <<>> <=> Len(waits) = 1
    BY <1>8, <1>w, <2>1, Returned DEF StartReturns
  <2>3. Len(waits) = 1 /\ waits' = <<>> BY <2>2 DEF CallsNested
  <2>4. worker = None /\ \A i \in 1..Len(waits) : waits[i].call # "end" BY <2>2 DEF WorkerWaits
  <2>5. ~last /\ ~staged BY <2>4 DEF Clip
  <2>6. clipboard = mine /\ mine # Dictated BY <2>5 DEF Clip
  <2>7. last' = FALSE /\ UNCHANGED <<phase, staged, clipboard, mine>> BY <1>8 DEF StartReturns
  <2>8. worker' # None BY <2>2 DEF CallsNested
  <2>9. Looping' => original' # Dictated
    <3>1. CASE waits[Len(waits)].answered
      <4>1. phase = "quitting" BY <2>2, <3>1 DEF Clip
      <4> QED BY <2>3, <2>7, <4>1 DEF Looping
    <3>2. CASE text = clipboard BY <2>1, <2>6, <3>2
    <3> QED BY <2>2, <3>1, <3>2
  <2>10. \A i \in 1..Len(waits') : FALSE BY <2>3
  <2> QED BY <2>5, <2>6, <2>7, <2>8, <2>9, <2>10 DEF Clip
<1>9. CASE FinishReturns
  <2>1. PICK text \in Texts : Returns("end", text) /\ InjectorEnd(text) BY <1>9 DEF FinishReturns
  <2> QED BY <1>9, <2>1, ClipReturn DEF FinishReturns
<1>10. CASE ShutdownReturns
  <2>1. PICK text \in Texts : Returns("shutdown", text) /\ InjectorEnd(text) BY <1>10 DEF ShutdownReturns
  <2> QED BY <1>10, <2>1, ClipReturn DEF ShutdownReturns
<1>11. CASE Exit
  <2>1. ~last BY <1>11 DEF Exit, CallsNested
  <2>2. /\ phase' = "gone" /\ worker' = None /\ staged' = FALSE /\ last' = FALSE /\ waits' = <<>>
        /\ UNCHANGED <<clipboard, mine>>
    BY <1>11 DEF Exit
  <2>3. \A i \in 1..Len(waits') : FALSE BY <2>2
  <2> QED BY <2>1, <2>2, <2>3 DEF Clip, Looping
<1>12. ASSUME NEW w \in Sessions,
              Connects(w) \/ Fails(w) \/ Sends(w) \/ Hears(w) \/ HearsLast(w) \/ Ends(w)
       PROVE  Clip'
  BY <1>12, <1>k, ThreadGoesOn
<1>13. CASE UserCopies
  <2>1. clipboard' = mine' /\ mine' \in Copies /\ UNCHANGED <<phase, worker, waits, staged, original, last>>
    BY <1>13 DEF UserCopies
  <2>2. mine' # Dictated BY <1>d, <2>1
  <2> QED BY <2>1, <2>2 DEF Clip, Looping
<1>14. CASE MicrophoneFails \/ UNCHANGED vars BY <1>14, <1>k DEF MicrophoneFails, vars
<1> QED BY <1>1, <1>2, <1>3, <1>4, <1>5, <1>6, <1>7, <1>8, <1>9, <1>10, <1>11, <1>12, <1>13, <1>14
        DEF Next, RunCallback, WaitEnds

-----------------------------------------------------------------------------
(* While no session has gone astray.                                         *)

\* What holds until a session goes astray.
LEMMA FaithfulHeld == Spec => [](TypeOK /\ CallsNested /\ Faithful)
<1>1. Init => Faithful
  <2>1. Init => Current BY DEF Init, Current, Live, Fresh
  <2>2. Init => MicFollowsState BY DEF Init, MicFollowsState
  <2>3. Init => Clip BY DEF Init, Clip, Dictated, Nothing
  <2>4. Init => ~unheld BY DEF Init
  <2> QED BY <2>1, <2>2, <2>3, <2>4 DEF Faithful
<1>2. TypeOK /\ CallsNested /\ WorkerWaits /\ QueueOrder /\ Faithful /\ [Next]_vars => Faithful'
  <2> SUFFICES ASSUME TypeOK, CallsNested, WorkerWaits, QueueOrder, Faithful, [Next]_vars PROVE Faithful'
    OBVIOUS
  <2>1. ~unheld' BY HeldStep DEF Faithful
  <2>2. ASSUME astray' = {} PROVE Current' /\ MicFollowsState' /\ Clip'
    <3>1. astray = {} BY <2>2, AstrayGrows
    <3>2. Current /\ MicFollowsState /\ Clip BY <3>1 DEF Faithful
    <3>3. Current' BY <2>2, <3>1, <3>2, CurrentStep
    <3>4. MicFollowsState' BY <2>2, <3>1, <3>2, MicStep
    <3>5. Clip' BY <2>2, <3>1, <3>2, ClipStep
    <3> QED BY <3>3, <3>4, <3>5
  <2> QED BY <2>1, <2>2 DEF Faithful
<1> QED BY <1>1, <1>2, SessionsHeld, PTL DEF Spec

\* While no session has gone astray the microphone is open exactly while the client says
\* that it records, but for the wait of an end that has closed it, and no capture is ever
\* replaced that has not been stopped; whatever runs while a call reads the clipboard.
THEOREM MicrophoneMatches == Spec => []((astray = {} => MicMatchesState) /\ ~unheld)
<1>1. Faithful => (astray = {} => MicMatchesState) /\ ~unheld BY DEF Faithful, MicMatchesState
<1> QED BY <1>1, FaithfulHeld, PTL

\* With no session, or closed, the client has put back what of the user's the session has
\* overwritten, unless a session went astray; whatever the main loop runs inside the calls
\* that read the clipboard.
THEOREM ClipboardReturned == Spec => []ClipboardGivenBack
<1>1. CallsNested /\ Faithful => ClipboardGivenBack
  <2> SUFFICES ASSUME CallsNested, astray = {}, Clip, (worker = None /\ waits = <<>>) \/ phase = "gone"
               PROVE  clipboard = mine
    BY DEF Faithful, ClipboardGivenBack
  <2>1. CASE worker = None /\ waits = <<>>
    <3>1. \A i \in 1..Len(waits) : FALSE BY <2>1
    <3> QED BY <2>1, <3>1 DEF Clip
  <2>2. CASE phase = "gone" BY <2>2 DEF CallsNested, Clip
  <2> QED BY <2>1, <2>2
<1> QED BY <1>1, FaithfulHeld, PTL
=============================================================================
