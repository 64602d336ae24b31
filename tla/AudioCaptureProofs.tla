-------------------------- MODULE AudioCaptureProofs --------------------------
(* Proofs of the safety properties of AudioCapture, for any list of ways to  *)
(* open the microphone.                                                      *)
EXTENDS AudioCapture, TLAPS

(***************************************************************************)
(* The invariant.  What is open is what the capture has a handle on; the   *)
(* native rate is that of its stream; and whoever has audio to emit serves *)
(* that stream.                                                            *)
(***************************************************************************)
HandlesKept ==
    /\ opened = {stream} \ {None} /\ libraries = {pyaudio} \ {None}
    /\ stream # None => nativeRate = Candidates[stream].rate
    /\ client \in {"opening", "failed", "closed", "stopped"} => stream = None /\ pyaudio = None
    /\ client \in {"starting", "started"} => stream # None

\* Audio is accepted only between an open and a stop.
AcceptsWhileStarted == accepting => client \in {"starting", "started"}

\* Where an audio thread that is at work can be, and which stream it serves.
ThreadServes ==
    /\ audio.pc # "none" => audio.of # None
    /\ InCallback => stream = audio.of
    /\ Reading => /\ client \in {"started", "joining", "closing", "closed", "stopped"}
                  /\ client \in {"started", "joining"} => stream = audio.of
                  /\ client \in {"closing", "closed", "stopped"} => ~At("emitting")

\* A failure of this candidate has been reported, or is about to be.
FailureTold ==
    client \in {"starting", "started"} =>
        /\ reported => stream \in told
        /\ ~accepting => stream \in told \/ At("reporting")

IInv == TypeOK /\ HandlesKept /\ AcceptsWhileStarted /\ ThreadServes /\ FailureTold

-----------------------------------------------------------------------------

LEMMA StreamsAreNumbers == None \notin Streams /\ Streams \subseteq Nat
BY CandidatesAssumption DEF Streams, None

\* Whoever emits does so for the stream that is open.
LEMMA EmitterServes == ASSUME IInv, At("emitting") PROVE audio.of \in Streams /\ stream = audio.of
<1>1. audio.of # None /\ audio.of \in Streams
  BY DEF IInv, TypeOK, ThreadServes, At
<1>2. CASE Calls(audio.of)
  BY <1>1, <1>2 DEF IInv, ThreadServes, InCallback, At
<1>3. CASE ~Calls(audio.of)
  BY <1>1, <1>3 DEF IInv, ThreadServes, Reading, At
<1> QED BY <1>1, <1>2, <1>3

\* No thread is at work before an open.
LEMMA OpeningIsQuiet == ASSUME IInv, client \in {"opening", "failed"} PROVE ~InCallback /\ ~Reading
BY DEF IInv, HandlesKept, ThreadServes, InCallback, Reading

LEMMA InitIInv == Init => IInv
<1> SUFFICES ASSUME Init PROVE IInv OBVIOUS
<1>1. 0 \in 0..Len(Candidates) BY CandidatesAssumption
<1>2. TypeOK BY <1>1 DEF Init, TypeOK, NoThread
<1>3. HandlesKept BY DEF Init, HandlesKept
<1>4. ThreadServes BY DEF Init, ThreadServes, NoThread, InCallback, Reading
<1> QED BY <1>2, <1>3, <1>4 DEF Init, IInv, AcceptsWhileStarted, FailureTold

-----------------------------------------------------------------------------
(* The client's thread.                                                      *)

LEMMA StartSteps ==
    ASSUME IInv,
           \/ \E i \in 1..Len(Candidates) : OpenFails(i) \/ Opens(i)
           \/ Starts \/ StartRaises \/ Abort \/ StartFails
    PROVE  IInv'
<1> USE DEF IInv, At, Goes, InCallback, Reading, handles, flags, history
<1>1. ASSUME NEW i \in 1..Len(Candidates), OpenFails(i) PROVE IInv'
  <2>1. i \in Streams /\ i # None /\ tried' \in 0..Len(Candidates)
    BY <1>1, StreamsAreNumbers DEF OpenFails, Try, Streams
  <2>2. TypeOK' BY <1>1, <2>1 DEF OpenFails, Library, TypeOK
  <2>3. HandlesKept' BY <1>1, <2>1 DEF OpenFails, Try, Library, HandlesKept
  <2>4. ThreadServes' BY <1>1, OpeningIsQuiet DEF OpenFails, Try, ThreadServes
  <2> QED BY <1>1, <2>2, <2>3, <2>4 DEF OpenFails, Try, AcceptsWhileStarted, FailureTold
<1>2. ASSUME NEW i \in 1..Len(Candidates), Opens(i) PROVE IInv'
  <2>1. i \in Streams /\ i # None /\ tried' \in 0..Len(Candidates)
    BY <1>2, StreamsAreNumbers DEF Opens, Try, Streams
  <2>2. nativeRate' \in {Candidates[j].rate : j \in Streams} BY <1>2, <2>1 DEF Opens
  <2>3. stream' \in Streams /\ opened' \subseteq Streams BY <1>2, <2>1 DEF Opens, TypeOK
  <2>4. pyaudio' \in Streams \cup {None} /\ libraries' \subseteq Streams
    BY <1>2, <2>1 DEF Opens, Library, TypeOK
  <2>5. TypeOK' BY <1>2, <2>1, <2>2, <2>3, <2>4 DEF Opens, TypeOK, Streams
  <2>6. HandlesKept' BY <1>2, <2>1 DEF Opens, Try, Library, HandlesKept
  <2>7. ThreadServes' BY <1>2, OpeningIsQuiet DEF Opens, Try, ThreadServes
  <2> QED BY <1>2, <2>5, <2>6, <2>7 DEF Opens, AcceptsWhileStarted, FailureTold
<1>3. CASE Starts
  <2>1. stream \in Streams /\ stream # None BY <1>3 DEF Starts, TypeOK, HandlesKept
  <2>2. TypeOK'
    <3>1. audio' \in [pc : {"none", "reading", "got", "emitting", "failing", "reporting", "done"},
                      of : Streams \cup {None}] /\ readerStop' \in BOOLEAN
      <4>1. CASE Calls(stream) BY <1>3, <4>1 DEF Starts, TypeOK
      <4>2. CASE ~Calls(stream)
        <5>1. readerStop' = FALSE /\ audio' = [pc |-> "reading", of |-> stream]
          BY <1>3, <4>2 DEF Starts
        <5> QED BY <2>1, <5>1
      <4> QED BY <4>1, <4>2
    <3> QED BY <1>3, <3>1 DEF Starts, TypeOK, Streams
  <2>3. HandlesKept' BY <1>3 DEF Starts, HandlesKept
  <2>4. ThreadServes' BY <1>3, <2>1 DEF Starts, ThreadServes
  <2>5. FailureTold'
    <3>1. CASE Calls(stream) BY <1>3, <3>1 DEF Starts, FailureTold
    <3>2. CASE ~Calls(stream)
      <4>1. ~At("reporting") BY <1>3, <3>2 DEF Starts, ThreadServes
      <4> QED BY <1>3, <3>2, <4>1 DEF Starts, FailureTold
    <3> QED BY <3>1, <3>2
  <2> QED BY <1>3, <2>2, <2>3, <2>4, <2>5 DEF Starts, AcceptsWhileStarted
<1>4. CASE StartRaises
  <2>1. TypeOK' BY <1>4 DEF StartRaises, TypeOK
  <2>2. HandlesKept' BY <1>4 DEF StartRaises, HandlesKept
  <2>3. ThreadServes' BY <1>4 DEF StartRaises, ThreadServes
  <2> QED BY <1>4, <2>1, <2>2, <2>3 DEF StartRaises, AcceptsWhileStarted, FailureTold
<1>5. CASE Abort
  <2>1. TypeOK' BY <1>5 DEF Abort, Close, TypeOK, NoThread
  <2>2. HandlesKept' BY <1>5 DEF Abort, Close, HandlesKept
  <2>3. ThreadServes' BY <1>5 DEF Abort, Close, ThreadServes, NoThread
  <2> QED BY <1>5, <2>1, <2>2, <2>3 DEF Abort, AcceptsWhileStarted, FailureTold
<1>6. CASE StartFails
  <2>1. TypeOK' BY <1>6 DEF StartFails, TypeOK
  <2>2. HandlesKept' BY <1>6 DEF StartFails, HandlesKept
  <2>3. ThreadServes' BY <1>6, OpeningIsQuiet DEF StartFails, ThreadServes
  <2> QED BY <1>6, <2>1, <2>2, <2>3 DEF StartFails, AcceptsWhileStarted, FailureTold
<1> QED BY <1>1, <1>2, <1>3, <1>4, <1>5, <1>6

LEMMA StopSteps == ASSUME IInv, Stop \/ Joins \/ StopCloses \/ Stopped PROVE IInv'
<1> USE DEF IInv, At, InCallback, Reading, handles, flags, history
<1>1. CASE Stop
  <2>1. TypeOK' BY <1>1 DEF Stop, TypeOK
  <2>2. HandlesKept' BY <1>1 DEF Stop, HandlesKept
  <2>3. ThreadServes' BY <1>1 DEF Stop, ThreadServes
  <2> QED BY <1>1, <2>1, <2>2, <2>3 DEF Stop, AcceptsWhileStarted, FailureTold
<1>2. CASE Joins
  <2>1. TypeOK' BY <1>2 DEF Joins, TypeOK
  <2>2. HandlesKept' BY <1>2 DEF Joins, HandlesKept
  <2>3. ThreadServes' BY <1>2 DEF Joins, ThreadServes
  <2> QED BY <1>2, <2>1, <2>2, <2>3 DEF Joins, AcceptsWhileStarted, FailureTold
<1>3. CASE StopCloses
  <2>1. TypeOK' BY <1>3 DEF StopCloses, Close, TypeOK
  <2>2. HandlesKept' BY <1>3 DEF StopCloses, Close, HandlesKept
  <2>3. ThreadServes' BY <1>3 DEF StopCloses, Close, ThreadServes
  <2> QED BY <1>3, <2>1, <2>2, <2>3 DEF StopCloses, AcceptsWhileStarted, FailureTold
<1>4. CASE Stopped
  <2>1. TypeOK' BY <1>4 DEF Stopped, TypeOK
  <2>2. HandlesKept' BY <1>4 DEF Stopped, HandlesKept
  <2>3. ThreadServes' BY <1>4 DEF Stopped, ThreadServes
  <2> QED BY <1>4, <2>1, <2>2, <2>3 DEF Stopped, AcceptsWhileStarted, FailureTold
<1> QED BY <1>1, <1>2, <1>3, <1>4

-----------------------------------------------------------------------------
(* The audio thread.                                                         *)

LEMMA AudioSteps == ASSUME IInv, Audio PROVE IInv'
<1> USE DEF IInv, At, Goes, InCallback, Reading, Quietly, handles, flags, history
<1>1. CASE CallsBack
  <2>1. stream \in Streams /\ stream # None BY <1>1 DEF CallsBack, TypeOK
  <2>2. TypeOK' BY <1>1, <2>1 DEF CallsBack, TypeOK
  <2>3. ThreadServes' BY <1>1, <2>1 DEF CallsBack, ThreadServes
  <2> QED BY <1>1, <2>2, <2>3 DEF CallsBack, HandlesKept, AcceptsWhileStarted, FailureTold
<1>2. CASE ReadReturns \/ ReadRaises
  <2>1. TypeOK' BY <1>2 DEF ReadReturns, ReadRaises, TypeOK
  <2>2. ThreadServes' BY <1>2 DEF ReadReturns, ReadRaises, ThreadServes, TypeOK
  <2> QED BY <1>2, <2>1, <2>2
      DEF ReadReturns, ReadRaises, HandlesKept, AcceptsWhileStarted, FailureTold
<1>3. CASE TakesLock
  <2>1. TypeOK' BY <1>3 DEF TakesLock, Over, TypeOK
  <2>2. ThreadServes' BY <1>3 DEF TakesLock, Over, ThreadServes, AcceptsWhileStarted, TypeOK
  <2> QED BY <1>3, <2>1, <2>2 DEF TakesLock, HandlesKept, AcceptsWhileStarted, FailureTold
<1>4. CASE Emits
  <2>1. audio.of \in Streams BY <1>4, EmitterServes DEF Emits
  <2>2. TypeOK' BY <1>4, <2>1 DEF Emits, Over, TypeOK
  <2>3. ThreadServes' BY <1>4, <2>1 DEF Emits, Over, ThreadServes, TypeOK
  <2> QED BY <1>4, <2>2, <2>3 DEF Emits, HandlesKept, AcceptsWhileStarted, FailureTold
<1>5. CASE EmitRaises
  <2>1. TypeOK' BY <1>5 DEF EmitRaises, TypeOK
  <2>2. ThreadServes' BY <1>5 DEF EmitRaises, ThreadServes, TypeOK
  <2> QED BY <1>5, <2>1, <2>2 DEF EmitRaises, HandlesKept, AcceptsWhileStarted, FailureTold
<1>6. CASE Fails
  <2>1. TypeOK' BY <1>6 DEF Fails, TypeOK
  <2>2. ThreadServes' BY <1>6 DEF Fails, ThreadServes, TypeOK
  <2>3. FailureTold' BY <1>6 DEF Fails, FailureTold, TypeOK
  <2> QED BY <1>6, <2>1, <2>2, <2>3 DEF Fails, HandlesKept, AcceptsWhileStarted
<1>7. CASE Reports
  <2>1. audio.of \in Streams BY <1>7 DEF Reports, TypeOK, ThreadServes
  <2>2. TypeOK' BY <1>7, <2>1 DEF Reports, TypeOK
  <2>3. ThreadServes' BY <1>7 DEF Reports, ThreadServes, TypeOK
  <2>4. client \in {"starting", "started"} => stream = audio.of
    BY <1>7, <2>1 DEF Reports, ThreadServes, TypeOK
  <2>5. FailureTold' BY <1>7, <2>4 DEF Reports, FailureTold
  <2> QED BY <1>7, <2>2, <2>3, <2>5 DEF Reports, HandlesKept, AcceptsWhileStarted
<1> QED BY <1>1, <1>2, <1>3, <1>4, <1>5, <1>6, <1>7 DEF Audio

-----------------------------------------------------------------------------

LEMMA StepIInv == IInv /\ [Next]_vars => IInv'
<1> SUFFICES ASSUME IInv, [Next]_vars PROVE IInv' OBVIOUS
<1>1. CASE Client BY <1>1, StartSteps, StopSteps DEF Client
<1>2. CASE Audio BY <1>2, AudioSteps
<1>3. CASE UNCHANGED vars
  BY <1>3 DEF vars, handles, flags, history, IInv, TypeOK, HandlesKept, AcceptsWhileStarted,
              ThreadServes, FailureTold, InCallback, Reading, At
<1> QED BY <1>1, <1>2, <1>3 DEF Next

\* The invariant holds throughout.
THEOREM InvariantHolds == Spec => []IInv
BY InitIInv, StepIInv, PTL DEF Spec

\* Every variable of the capture keeps its type, whatever the ways to open it.
THEOREM CaptureTypes == Spec => []TypeOK
<1>1. IInv => TypeOK BY DEF IInv
<1> QED BY <1>1, InvariantHolds, PTL

\* After a stop no audio goes out, whatever the audio thread was doing.
THEOREM StoppedIsQuiet == Spec => []QuietOnceStopped
<1>1. IInv => QuietOnceStopped
  <2> SUFFICES ASSUME IInv, client = "stopped" PROVE ~InCallback /\ ~At("emitting") /\ ~accepting
    BY DEF QuietOnceStopped
  <2>1. ~InCallback BY DEF IInv, HandlesKept, ThreadServes, InCallback
  <2>2. ~At("emitting") BY <2>1, EmitterServes DEF IInv, HandlesKept, ThreadServes, InCallback, Reading, At
  <2> QED BY <2>1, <2>2 DEF IInv, AcceptsWhileStarted
<1> QED BY <1>1, InvariantHolds, PTL

\* After a stop, a start that failed, and between two candidates, nothing is left open.
THEOREM CaptureLeavesNothing == Spec => []NothingLeftOpen
<1>1. IInv => NothingLeftOpen BY DEF IInv, HandlesKept, NothingLeftOpen
<1> QED BY <1>1, InvariantHolds, PTL

\* A capture that has started and gone silent has reported it, or is about to.
THEOREM SilenceIsTold == Spec => []SilenceIsReported
<1>1. IInv => SilenceIsReported BY DEF IInv, FailureTold, SilenceIsReported
<1> QED BY <1>1, InvariantHolds, PTL

\* Audio that goes out is taken for the rate of the stream it came from.
THEOREM RatesAreRight == Spec => []HeardAtItsRate
<1>1. Init => HeardAtItsRate BY DEF Init, HeardAtItsRate
<1>2. IInv /\ HeardAtItsRate /\ [Next]_vars => HeardAtItsRate'
  <2> SUFFICES ASSUME IInv, HeardAtItsRate, [Next]_vars PROVE HeardAtItsRate' OBVIOUS
  <2>1. CASE Emits
    <3>1. stream = audio.of /\ audio.of \in Streams BY <2>1, EmitterServes DEF Emits
    <3>2. nativeRate = Candidates[audio.of].rate
      BY <3>1, StreamsAreNumbers DEF IInv, HandlesKept
    <3> QED BY <2>1, <3>2 DEF Emits, HeardAtItsRate
  <2>2. CASE ~Emits
    <3>1. heard' = heard
      BY <2>2 DEF Next, Client, Audio, vars, history, OpenFails, Opens, Starts, StartRaises, Abort,
         StartFails, Stop, Joins, StopCloses, Stopped, CallsBack, ReadReturns, ReadRaises,
         TakesLock, EmitRaises, Fails, Reports
    <3> QED BY <3>1 DEF HeardAtItsRate
  <2> QED BY <2>1, <2>2
<1> QED BY <1>1, <1>2, InvariantHolds, PTL DEF Spec
=============================================================================
