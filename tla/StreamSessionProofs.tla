------------------------- MODULE StreamSessionProofs -------------------------
(***************************************************************************)
(* Proofs about StreamSession, for every value of its constants: types,    *)
(* the agreement of the flags with the model session and one model session *)
(* at a time; no speech is lost while a session runs; the audio stays in   *)
(* the order it was sent in; the session implements TranscriptStream; a    *)
(* segment is cut for silence when the pause has reached the limit, and at *)
(* most one chunk late.                                                    *)
(***************************************************************************)
EXTENDS StreamSession, SequenceTheorems, WellFoundedInduction, TLAPS
USE SoundsAssumption, LimitsAssumption

\* Before session.started nothing has happened: what the first wait relies on.
StartsEmpty ==
    pc = "start" =>
        /\ upstream = NoUpstream /\ done = {}
        /\ ~speechStarted /\ ~upstreamCommitting /\ ~clientCommitted
        /\ preroll = <<>> /\ rollover = <<>> /\ replay = <<>> /\ spoken = {}

\* The inductive invariant.
Inv == TypeOK /\ FlagsAgree /\ OneModelSession /\ StartsEmpty

\* The initial state satisfies the invariant.
LEMMA InitInv == Init => Inv
<1> SUFFICES ASSUME Init PROVE Inv
    OBVIOUS
<1>1. TypeOK
  <2>1. NoUpstream \in UpstreamType
    BY EmptySeq DEF NoUpstream, UpstreamType
  <2>2. /\ preroll \in Seq(Chunk) /\ rollover \in Seq(Chunk) /\ replay \in Seq(Chunk)
        /\ finals \in Seq([reason : {"silence", "commit"}, complete : BOOLEAN, audio : Seq(Chunk)])
    BY EmptySeq DEF Init
  <2>3. /\ silence \in Nat /\ live \in Nat /\ accepted \in 0..MaxChunks
        /\ closeCode \in {0, 1000, 1013, 4400}
    BY LimitsAssumption DEF Init
  <2>4. /\ done \in SUBSET {"browser", "upstream"} /\ pc \in {"start", "loop", "finally", "closed"}
        /\ spoken \subseteq 1..MaxChunks /\ overflowed \subseteq 1..MaxChunks
    BY DEF Init
  <2>5. clientGone \in BOOLEAN /\ clientCommitted \in BOOLEAN
    /\ upstreamCommitting \in BOOLEAN /\ speechStarted \in BOOLEAN /\ trim \in BOOLEAN
    BY DEF Init
  <2>6. upstream \in UpstreamType BY <2>1 DEF Init
  <2> QED BY <2>6, <2>5, <2>2, <2>3, <2>4 DEF  TypeOK
<1>2. FlagsAgree
    BY DEF Init, FlagsAgree
<1>3. OneModelSession
    BY DEF Init, OneModelSession, NoUpstream
<1>4. StartsEmpty
    BY DEF Init, StartsEmpty
<1> QED BY <1>1, <1>2, <1>3, <1>4 DEF Inv

Event == {"partial", "done", "error"}

\* What a send makes of a model session: its type, and when a done is queued.
LEMMA FedFacts ==
    ASSUME NEW up \in UpstreamType, NEW pcm \in Seq(Chunk), NEW n \in Nat
    PROVE  /\ Fed(up, pcm, n) \in UpstreamType
           /\ Fed(up, pcm, n).open = up.open
           /\ Fed(up, pcm, n).finished = up.finished
           /\ ("done" \in Range(Fed(up, pcm, n).events)) = ("done" \in Range(up.events))
           /\ up.events # <<>> => Fed(up, pcm, n).events # <<>>
<1> DEFINE new == [i \in 1..n |-> "partial"]
<1>1. new \in Seq(Event) /\ Range(new) \subseteq {"partial"}
    BY DEF Event, Range
<1>2. up.events \in Seq(Event) /\ up.heard \in Seq(Chunk)
    BY DEF UpstreamType, Event
<1> HIDE DEF new
<1>3. ("done" \in Range(up.events \o new)) = ("done" \in Range(up.events))
    BY <1>1, <1>2, RangeConcatenation
<1>4. up.events # <<>> => up.events \o new # <<>>
    BY <1>1, <1>2, ConcatEqualIffEmpty
<1>5. up.events \o new \in Seq(Event) /\ up.heard \o pcm \in Seq(Chunk)
    BY <1>1, <1>2, ConcatProperties
<1> QED BY <1>2, <1>3, <1>4, <1>5 DEF Fed, UpstreamType, new, Event

\* A commit leaves a done in the queue of a session that had not finished.
LEMMA CommittedFacts ==
    ASSUME NEW up \in UpstreamType, NEW flush \in BOOLEAN, ~up.finished
    PROVE  /\ Committed(up, flush) \in UpstreamType
           /\ Committed(up, flush).open = up.open
           /\ Committed(up, flush).finished
           /\ "done" \in Range(Committed(up, flush).events)
           /\ Committed(up, flush).events # <<>>
<1> DEFINE tail == IF flush THEN <<"partial", "done">> ELSE <<"done">>
<1>1. /\ <<"partial", "done">> \in Seq(Event) /\ <<"done">> \in Seq(Event)
      /\ "done" \in Range(<<"partial", "done">>) /\ "done" \in Range(<<"done">>)
    BY DEF Event, Range
<1>2. tail \in Seq(Event) /\ "done" \in Range(tail)
    BY <1>1
<1>3. up.events \in Seq(Event)
    BY DEF UpstreamType, Event
<1> HIDE DEF tail
<1>4. up.events \o tail \in Seq(Event) /\ "done" \in Range(up.events \o tail)
    BY <1>2, <1>3, ConcatProperties, RangeConcatenation
<1>5. up.events \o tail # <<>>
    BY <1>4 DEF Range
<1> QED BY <1>4, <1>5 DEF Committed, UpstreamType, tail, Event

\* What is left of a sequence of chunks when its oldest are dropped, and their numbers.
LEMMA DropFacts ==
    ASSUME NEW s \in Seq(Chunk), NEW c \in Chunk, NEW k \in 0..Len(Append(s, c))
    PROVE  /\ DropFirst(Append(s, c), k) \in Seq(Chunk)
           /\ {Append(s, c)[i].id : i \in 1..k} \subseteq 1..MaxChunks
<1>1. Append(s, c) \in Seq(Chunk)
    BY AppendProperties
<1>2. \A i \in 1..Len(Append(s, c)) : Append(s, c)[i] \in Chunk
    BY <1>1
<1>3. DropFirst(Append(s, c), k) \in Seq(Chunk)
    BY <1>1, <1>2, SubSeqProperties DEF DropFirst
<1>4. {Append(s, c)[i].id : i \in 1..k} \subseteq 1..MaxChunks
    BY <1>1, <1>2 DEF Chunk
<1> QED BY <1>3, <1>4

\* process_pcm preserves the types, keeps at most one model session, and when it
\* returns normally leaves the flags in agreement.
LEMMA ProcessPcmFacts ==
    ASSUME Inv, pc = "loop", NEW c \in Chunk, ProcessPcm(c)
    PROVE  /\ pc' \in {"loop", "finally"}
           /\ preroll' \in Seq(Chunk) /\ rollover' \in Seq(Chunk)
           /\ overflowed' \subseteq 1..MaxChunks
           /\ upstreamCommitting' \in BOOLEAN /\ speechStarted' \in BOOLEAN
           /\ silence' \in Nat /\ upstream' \in UpstreamType /\ live' \in Nat
           /\ live' = (IF upstream'.open THEN 1 ELSE 0)
           /\ pc' = "loop" =>
                /\ speechStarted' = upstream'.open
                /\ upstreamCommitting' = upstream'.finished
                /\ upstream'.finished => upstream'.open
                /\ upstream'.finished = ("done" \in Range(upstream'.events))
                /\ rollover' # <<>> => upstreamCommitting'
                /\ speechStarted' => preroll' = <<>>
                /\ EventQueued => EventQueued'
<1> USE DEF Inv
<1>1. CASE HoldForNextSegment(c)
  <2>1. PICK k \in 0..Len(Append(rollover, c)) :
            /\ rollover' = DropFirst(Append(rollover, c), k)
            /\ overflowed' = overflowed \cup {Append(rollover, c)[i].id : i \in 1..k}
    BY <1>1 DEF HoldForNextSegment
  <2>2. rollover \in Seq(Chunk) /\ overflowed \subseteq 1..MaxChunks
    BY DEF TypeOK
  <2>3. /\ DropFirst(Append(rollover, c), k) \in Seq(Chunk)
        /\ {Append(rollover, c)[i].id : i \in 1..k} \subseteq 1..MaxChunks
    BY <2>2, DropFacts
  <2>4. rollover' \in Seq(Chunk) /\ overflowed' \subseteq 1..MaxChunks
    BY <2>1, <2>2, <2>3
  <2>5. /\ pc' = pc /\ preroll' = preroll /\ upstreamCommitting /\ upstreamCommitting' = upstreamCommitting
        /\ speechStarted' = speechStarted /\ silence' = silence
        /\ upstream' = upstream /\ live' = live
    BY <1>1 DEF HoldForNextSegment, model
  <2>6. /\ preroll \in Seq(Chunk) /\ upstreamCommitting \in BOOLEAN /\ speechStarted \in BOOLEAN
        /\ silence \in Nat /\ upstream \in UpstreamType /\ live \in Nat
    BY DEF TypeOK
  <2>7. live' = (IF upstream'.open THEN 1 ELSE 0)
    BY <2>5 DEF OneModelSession
  <2>8. /\ speechStarted' = upstream'.open
        /\ upstreamCommitting' = upstream'.finished
        /\ upstream'.finished => upstream'.open
        /\ upstream'.finished = ("done" \in Range(upstream'.events))
        /\ speechStarted' => preroll' = <<>>
        /\ EventQueued => EventQueued'
    BY <2>5 DEF FlagsAgree, EventQueued
  <2> QED BY <2>4, <2>5, <2>6, <2>7, <2>8
<1>2. CASE HoldInGate(c)
  <2>1. PICK k \in 0..Len(Append(preroll, c)) : preroll' = DropFirst(Append(preroll, c), k)
    BY <1>2 DEF HoldInGate
  <2>2. preroll' \in Seq(Chunk)
    BY <2>1, DropFacts DEF TypeOK
  <2> QED BY <1>2, <2>2 DEF HoldInGate, TypeOK, FlagsAgree, OneModelSession, model, EventQueued
<1>3. CASE OpenFails(c)
    BY <1>3, EmptySeq DEF OpenFails, TypeOK, OneModelSession, model
<1>4. CASE Speak(c)
  <2>1. ~upstreamCommitting /\ ~upstream.finished /\ "done" \notin Range(upstream.events)
    BY <1>4 DEF Speak, GoesToModel, FlagsAgree, TypeOK
  <2>2. /\ Session \in UpstreamType /\ Session.open /\ ~Session.finished
        /\ "done" \notin Range(Session.events)
        /\ EventQueued => Session.events # <<>>
    <3>1. CASE upstream.open
      BY <2>1, <3>1 DEF Session, TypeOK, EventQueued, UpstreamType
    <3>2. CASE ~upstream.open
      <4>1. NewUpstream \in UpstreamType
        BY EmptySeq DEF NewUpstream, NoUpstream, UpstreamType
      <4>2. NewUpstream.open /\ ~NewUpstream.finished /\ "done" \notin Range(NewUpstream.events)
        BY DEF NewUpstream, NoUpstream, Range
      <4> QED BY <3>2, <4>1, <4>2 DEF Session, EventQueued
    <3> QED BY <3>1, <3>2
  <2>3. Append(preroll, c) \in Seq(Chunk)
    BY AppendProperties DEF TypeOK
  <2>4. SilenceAfter(c) \in Nat
    BY DEF SilenceAfter, Chunk, TypeOK
  <2>5. /\ silence' \in Nat /\ speechStarted' = TRUE /\ preroll' = <<>> /\ preroll' \in Seq(Chunk)
        /\ live' = 1
        /\ rollover' = rollover /\ overflowed' = overflowed
    BY <1>4, <2>4, EmptySeq DEF Speak, OneModelSession
  <2>6. rollover = <<>>
    BY <2>1 DEF FlagsAgree
  <2> DEFINE fed(n) == Fed(Session, Append(preroll, c), n)
  <2>7. PICK n \in 0..MaxPartials, flush \in BOOLEAN, cut \in Cuts(SilenceAfter(c)) :
            \/ /\ upstream' = IF cut THEN Committed(fed(n), flush) ELSE fed(n)
               /\ upstreamCommitting' = cut
               /\ pc' = pc
            \/ /\ upstream' = Session /\ upstreamCommitting' = FALSE
               /\ pc' = "finally"
            \/ /\ cut
               /\ upstream' = fed(n) /\ upstreamCommitting' = TRUE
               /\ pc' = "finally"
    BY <1>4 DEF Speak
  <2>8. /\ fed(n) \in UpstreamType /\ fed(n).open /\ ~fed(n).finished
        /\ "done" \notin Range(fed(n).events)
        /\ EventQueued => fed(n).events # <<>>
    <3>1. n \in Nat
      BY LimitsAssumption
    <3> HIDE DEF fed
    <3>2. /\ fed(n) \in UpstreamType
          /\ fed(n).open = Session.open
          /\ fed(n).finished = Session.finished
          /\ ("done" \in Range(fed(n).events)) = ("done" \in Range(Session.events))
          /\ Session.events # <<>> => fed(n).events # <<>>
      BY <2>2, <2>3, <3>1, FedFacts DEF fed
    <3> QED BY <2>2, <3>2
  <2>9. /\ Committed(fed(n), flush) \in UpstreamType
        /\ Committed(fed(n), flush).open = fed(n).open
        /\ Committed(fed(n), flush).finished
        /\ "done" \in Range(Committed(fed(n), flush).events)
        /\ Committed(fed(n), flush).events # <<>>
    <3> HIDE DEF fed
    <3> QED BY <2>8, CommittedFacts
  <2> HIDE DEF fed
  <2>10. cut \in BOOLEAN
    BY DEF Cuts
  <2>11. CASE upstream' = (IF cut THEN Committed(fed(n), flush) ELSE fed(n))
              /\ upstreamCommitting' = cut /\ pc' = pc
    <3>1. upstream' \in UpstreamType /\ upstream'.open /\ upstream'.finished = cut
      BY <2>8, <2>9, <2>10, <2>11 DEF UpstreamType
    <3>2. ("done" \in Range(upstream'.events)) = cut
      BY <2>8, <2>9, <2>10, <2>11
    <3>3. EventQueued => EventQueued'
      BY <2>8, <2>9, <2>11, <3>1 DEF EventQueued
    <3>4. overflowed' \subseteq 1..MaxChunks /\ rollover' = <<>> /\ rollover' \in Seq(Chunk)
      BY <2>5, <2>6, EmptySeq DEF TypeOK
    <3> QED BY <2>5, <2>10, <2>11, <3>1, <3>2, <3>3, <3>4
  <2>12. CASE upstream' = Session /\ upstreamCommitting' = FALSE /\ pc' = "finally"
    <3>1. overflowed' \subseteq 1..MaxChunks /\ rollover' \in Seq(Chunk)
      BY <2>5 DEF TypeOK
    <3> QED BY <2>2, <2>5, <2>12, <3>1
  <2>13. CASE upstream' = fed(n) /\ upstreamCommitting' = TRUE /\ pc' = "finally"
    <3>1. overflowed' \subseteq 1..MaxChunks /\ rollover' \in Seq(Chunk)
      BY <2>5 DEF TypeOK
    <3> QED BY <2>5, <2>8, <2>13, <3>1
  <2> QED BY <2>7, <2>11, <2>12, <2>13
<1> QED BY <1>1, <1>2, <1>3, <1>4 DEF ProcessPcm

\* Every step preserves the invariant.
LEMMA NextInv == Inv /\ [Next]_vars => Inv'
<1> SUFFICES ASSUME Inv, [Next]_vars PROVE Inv'
    OBVIOUS
<1> USE DEF Inv
<1>0. StartsEmpty'
  <2>1. CASE UNCHANGED vars \/ ClientLeaves
    BY <2>1 DEF StartsEmpty, ClientLeaves, vars, audio, state, model, client
  <2>2. CASE Refuse \/ StartSession
    BY <2>2 DEF StartsEmpty, Refuse, StartSession
  <2>3. CASE pc = "loop" /\ pc' # "start"
    BY <2>3 DEF StartsEmpty
  <2>4. CASE BrowserAudio \/ ReplayChunk
    <3>1. pc = "loop" /\ pc' # "start"
      BY <2>4 DEF BrowserAudio, BrowserTurn, ReplayChunk, ProcessPcm, HoldForNextSegment,
                  HoldInGate, OpenFails, Speak
    <3> QED BY <3>1, <2>3
  <2>5. CASE BrowserRejected \/ BrowserCommitEmpty \/ BrowserCommit \/ BrowserEnd \/ BrowserDisconnect
    <3>1. pc = "loop" /\ pc' # "start"
      BY <2>5 DEF BrowserTurn, BrowserRejected, BrowserCommitEmpty, BrowserCommit, BrowserEnd,
                  BrowserDisconnect
    <3> QED BY <3>1, <2>3
  <2>6. CASE Upstream \/ UpstreamBreaks \/ SendRaises \/ WakeUpstream \/ WakeBrowser
    <3>1. pc = "loop" /\ pc' # "start"
      BY <2>6 DEF Upstream, UpstreamTurn, UpstreamPartial, UpstreamDone, UpstreamError,
                  UpstreamBreaks, SendRaises, WakeUpstream, WakeBrowser, Wake
    <3> QED BY <3>1, <2>3
  <2>7. CASE CloseSession
    BY <2>7 DEF StartsEmpty, CloseSession
  <2> QED BY <2>1, <2>2, <2>4, <2>5, <2>6, <2>7 DEF Next, Browser, Closed
<1>1. CASE Refuse
  <2>1. TypeOK'
    BY <1>1 DEF Refuse, TypeOK, audio, state, model, client
  <2>2. FlagsAgree'
    BY <1>1 DEF Refuse, FlagsAgree, audio, state, model, client
  <2>3. OneModelSession'
    BY <1>1 DEF Refuse, OneModelSession, StartsEmpty, NoUpstream, model
  <2> QED BY <1>0, <2>1, <2>2, <2>3
<1>2. CASE StartSession
  <2>1. TypeOK'
    BY <1>2 DEF StartSession, TypeOK, audio, state, model, client
  <2>2. FlagsAgree'
    <3>1. "done" \notin Range(upstream.events)
      BY <1>2 DEF StartSession, StartsEmpty, NoUpstream, Range
    <3>2. /\ speechStarted = FALSE /\ upstreamCommitting = FALSE /\ clientCommitted = FALSE
          /\ upstream.open = FALSE /\ upstream.finished = FALSE
          /\ rollover = <<>> /\ replay = <<>> /\ preroll = <<>> /\ done = {}
      BY <1>2 DEF StartSession, StartsEmpty, NoUpstream, TypeOK
    <3>3. UNCHANGED <<done, audio, state, model>>
      BY <1>2 DEF StartSession
    <3>4. /\ speechStarted' = FALSE /\ upstreamCommitting' = FALSE /\ clientCommitted' = FALSE
          /\ upstream'.open = FALSE /\ upstream'.finished = FALSE
          /\ ("done" \in Range(upstream'.events)) = FALSE
          /\ rollover' = <<>> /\ replay' = <<>> /\ preroll' = <<>> /\ done' = {}
      BY <3>1, <3>2, <3>3 DEF audio, state, model
    <3> QED BY <3>4 DEF FlagsAgree
  <2>3. OneModelSession'
    BY <1>2 DEF StartSession, OneModelSession, StartsEmpty, NoUpstream, model
  <2> QED BY <1>0, <2>1, <2>2, <2>3
<1>3. CASE ClientLeaves
  <2>1. TypeOK'
    BY <1>3 DEF ClientLeaves, TypeOK, audio, state, model, client
  <2>2. FlagsAgree'
    BY <1>3 DEF ClientLeaves, FlagsAgree, audio, state, model, client
  <2>3. OneModelSession'
    BY <1>3 DEF ClientLeaves, OneModelSession, audio, state, model, client
  <2> QED BY <1>0, <2>1, <2>2, <2>3
<1>4. CASE UpstreamBreaks
  <2>1. upstream \in UpstreamType /\ upstream.events \in Seq(Event) /\ "error" \in Event
    BY DEF TypeOK, UpstreamType, Event
  <2>2. /\ Append(upstream.events, "error") \in Seq(Event)
        /\ Append(upstream.events, "error") # <<>>
        /\ Append(upstream.events, "error") = upstream.events \o <<"error">>
    BY <2>1, AppendProperties, AppendIsConcat
  <2> DEFINE error == <<"error">>
  <2>3. error \in Seq(Event) /\ "done" \notin Range(error)
    BY DEF Event, Range
  <2>4. ("done" \in Range(Append(upstream.events, "error"))) = ("done" \in Range(upstream.events))
    <3>1. Append(upstream.events, "error") = upstream.events \o error
      BY <2>2
    <3> HIDE DEF error
    <3>2. Range(upstream.events \o error) = Range(upstream.events) \cup Range(error)
      BY <2>1, <2>3, RangeConcatenation
    <3>3. Range(Append(upstream.events, "error")) = Range(upstream.events) \cup Range(error)
      BY <3>1, <3>2, Zenon
    <3> QED BY <2>3, <3>3, SMT
  <2>5. /\ upstream' \in UpstreamType /\ upstream'.events = Append(upstream.events, "error")
        /\ upstream'.open = upstream.open /\ upstream'.finished = upstream.finished
    BY <1>4, <2>1, <2>2 DEF UpstreamBreaks, UpstreamType, Event
  <2>6. TypeOK'
    BY <1>4, <2>5 DEF UpstreamBreaks, TypeOK, audio, state, client
  <2>7. FlagsAgree'
    BY <1>4, <2>2, <2>4, <2>5 DEF UpstreamBreaks, FlagsAgree, audio, state, client
  <2>8. OneModelSession'
    BY <1>4, <2>5 DEF UpstreamBreaks, OneModelSession
  <2> QED BY <1>0, <2>6, <2>7, <2>8
<1>5. CASE WakeUpstream
  <2>1. TypeOK'
    BY <1>5 DEF WakeUpstream, Wake, EventQueued, TypeOK, audio, state, model, client
  <2>2. FlagsAgree'
    BY <1>5 DEF WakeUpstream, Wake, EventQueued, FlagsAgree, audio, state, model, client
  <2>3. OneModelSession'
    BY <1>5 DEF WakeUpstream, Wake, EventQueued, OneModelSession, audio, state, model, client
  <2> QED BY <1>0, <2>1, <2>2, <2>3
<1>6. CASE WakeBrowser
  <2>1. TypeOK'
    BY <1>6 DEF WakeBrowser, Wake, EventQueued, TypeOK, audio, state, model, client
  <2>2. FlagsAgree'
    BY <1>6 DEF WakeBrowser, Wake, EventQueued, FlagsAgree, audio, state, model, client
  <2>3. OneModelSession'
    BY <1>6 DEF WakeBrowser, Wake, EventQueued, OneModelSession, audio, state, model, client
  <2> QED BY <1>0, <2>1, <2>2, <2>3
<1>7. CASE BrowserAudio
  <2>1. PICK s \in Sounds :
            /\ ProcessPcm([id |-> accepted', speech |-> s.speech, len |-> s.len])
            /\ spoken' = IF s.speech THEN spoken \cup {accepted'} ELSE spoken
    BY <1>7 DEF BrowserAudio
  <2>2. accepted' \in 1..MaxChunks
    BY <1>7, LimitsAssumption DEF BrowserAudio, TypeOK
  <2> DEFINE c == [id |-> accepted', speech |-> s.speech, len |-> s.len]
  <2>3. c \in Chunk
    BY <2>2, SoundsAssumption DEF Chunk
  <2>4. pc = "loop" /\ ProcessPcm(c)
    BY <1>7, <2>1 DEF BrowserAudio, BrowserTurn
  <2> HIDE DEF c
  <2>5. TypeOK'
    BY <1>7, <2>1, <2>2, <2>3, <2>4, ProcessPcmFacts DEF BrowserAudio, BrowserTurn, TypeOK
  <2>6. FlagsAgree'
    <3>1. /\ done # {} /\ done' = done \ {"browser"} /\ replay' = replay
          /\ clientCommitted' = clientCommitted
      BY <1>7 DEF BrowserAudio, BrowserTurn
    <3>2. replay = <<>>
      BY <2>4, <3>1 DEF FlagsAgree
    <3>3. "upstream" \in done => EventQueued
      BY <2>4 DEF FlagsAgree, EventQueued
    <3>4. clientCommitted => upstreamCommitting
      BY <2>4 DEF FlagsAgree
    <3>5. upstreamCommitting => HoldForNextSegment(c)
      BY <2>4 DEF ProcessPcm, HoldInGate, OpenFails, Speak, GoesToModel
    <3>6. upstreamCommitting => upstreamCommitting'
      BY <3>5 DEF HoldForNextSegment
    <3>7. SUFFICES ASSUME pc' = "loop" PROVE FlagsAgree'
      BY DEF FlagsAgree
    <3>8. /\ speechStarted' = upstream'.open
          /\ upstreamCommitting' = upstream'.finished
          /\ upstream'.finished => upstream'.open
          /\ upstream'.finished = ("done" \in Range(upstream'.events))
          /\ rollover' # <<>> => upstreamCommitting'
          /\ speechStarted' => preroll' = <<>>
          /\ EventQueued => EventQueued'
      BY <2>3, <2>4, <3>7, ProcessPcmFacts
    <3>9. "upstream" \in done' => upstream'.open /\ upstream'.events # <<>>
      BY <3>1, <3>3, <3>8 DEF EventQueued
    <3> QED BY <3>1, <3>2, <3>4, <3>6, <3>8, <3>9 DEF FlagsAgree
  <2>7. OneModelSession'
    BY <2>3, <2>4, ProcessPcmFacts DEF OneModelSession
  <2> QED BY <1>0, <2>5, <2>6, <2>7
<1>8. CASE BrowserRejected
  <2>1. TypeOK'
    BY <1>8 DEF BrowserRejected, BrowserTurn, TypeOK, audio, state, model, client
  <2>2. FlagsAgree'
    BY <1>8 DEF BrowserRejected, BrowserTurn, FlagsAgree, audio, state, model, client
  <2>3. OneModelSession'
    BY <1>8 DEF BrowserRejected, BrowserTurn, OneModelSession, audio, state, model, client
  <2> QED BY <1>0, <2>1, <2>2, <2>3
<1>9. CASE BrowserCommitEmpty
  <2>1. finals' \in Seq([reason : {"silence", "commit"}, complete : BOOLEAN, audio : Seq(Chunk)])
    BY <1>9, EmptySeq, AppendProperties DEF BrowserCommitEmpty, TypeOK
  <2>2. TypeOK'
    BY <1>9, <2>1 DEF BrowserCommitEmpty, BrowserTurn, TypeOK, audio, model, client
  <2>3. FlagsAgree'
    BY <1>9 DEF BrowserCommitEmpty, FlagsAgree
  <2>4. OneModelSession'
    BY <1>9 DEF BrowserCommitEmpty, OneModelSession, model
  <2> QED BY <1>0, <2>2, <2>3, <2>4
<1>10. CASE BrowserCommit
  <2>1. /\ upstream' \in UpstreamType /\ upstream'.open /\ pc' \in {"loop", "finally"}
        /\ pc' = "loop" => /\ upstream'.finished /\ "done" \in Range(upstream'.events)
                           /\ upstream'.events # <<>>
    <3>1. CASE upstreamCommitting /\ UNCHANGED <<upstream, pc>>
      <4>1. pc = "loop" /\ upstream.open /\ upstream \in UpstreamType
        BY <1>10 DEF BrowserCommit, BrowserTurn, TypeOK
      <4>2. upstream.finished /\ "done" \in Range(upstream.events)
        BY <3>1, <4>1 DEF FlagsAgree
      <4>3. upstream.events # <<>>
        BY <4>2 DEF Range
      <4> QED BY <3>1, <4>1, <4>2, <4>3
    <3>2. CASE ~upstreamCommitting /\ (\E flush \in BOOLEAN : upstream' = Committed(upstream, flush)) /\ pc' = pc
      <4>1. PICK flush \in BOOLEAN : upstream' = Committed(upstream, flush)
        BY <3>2
      <4>2. pc = "loop" /\ upstream \in UpstreamType /\ upstream.open /\ ~upstream.finished
        BY <1>10, <3>2 DEF BrowserCommit, BrowserTurn, TypeOK, FlagsAgree
      <4> QED BY <3>2, <4>1, <4>2, CommittedFacts
    <3>3. CASE upstream' = upstream /\ pc' = "finally"
      BY <1>10, <3>3 DEF BrowserCommit, TypeOK
    <3> QED BY <1>10, <3>1, <3>2, <3>3 DEF BrowserCommit
  <2>2. TypeOK'
    BY <1>10, <2>1 DEF BrowserCommit, BrowserTurn, TypeOK, audio, client
  <2>3. FlagsAgree'
    <3>1. /\ pc = "loop" /\ done # {} /\ done' = done \ {"browser"} /\ upstream.open
          /\ clientCommitted' = TRUE /\ upstreamCommitting' = TRUE
          /\ UNCHANGED <<preroll, rollover, replay, speechStarted>>
      BY <1>10 DEF BrowserCommit, BrowserTurn, audio
    <3>2. replay = <<>> /\ (speechStarted => preroll = <<>>) /\ speechStarted = upstream.open
      BY <3>1 DEF FlagsAgree
    <3>3. upstream.open = TRUE /\ speechStarted = TRUE /\ preroll = <<>>
      BY <3>1, <3>2 DEF TypeOK, UpstreamType
    <3>4. SUFFICES ASSUME pc' = "loop" PROVE FlagsAgree'
      BY DEF FlagsAgree
    <3>5. /\ upstream'.open = TRUE /\ upstream'.finished = TRUE
          /\ ("done" \in Range(upstream'.events)) = TRUE /\ upstream'.events # <<>>
      BY <2>1, <3>4 DEF UpstreamType
    <3> QED BY <3>1, <3>2, <3>5, <3>3 DEF FlagsAgree
  <2>4. OneModelSession'
    BY <1>10, <2>1 DEF BrowserCommit, OneModelSession
  <2> QED BY <1>0, <2>2, <2>3, <2>4
<1>11. CASE BrowserEnd
  <2>1. TypeOK'
    BY <1>11 DEF BrowserEnd, BrowserTurn, TypeOK, audio, state, model, client
  <2>2. FlagsAgree'
    BY <1>11 DEF BrowserEnd, BrowserTurn, FlagsAgree, audio, state, model, client
  <2>3. OneModelSession'
    BY <1>11 DEF BrowserEnd, BrowserTurn, OneModelSession, audio, state, model, client
  <2> QED BY <1>0, <2>1, <2>2, <2>3
<1>12. CASE BrowserDisconnect
  <2>1. TypeOK'
    BY <1>12 DEF BrowserDisconnect, BrowserTurn, TypeOK, audio, state, model, client
  <2>2. FlagsAgree'
    BY <1>12 DEF BrowserDisconnect, BrowserTurn, FlagsAgree, audio, state, model, client
  <2>3. OneModelSession'
    BY <1>12 DEF BrowserDisconnect, BrowserTurn, OneModelSession, audio, state, model, client
  <2> QED BY <1>0, <2>1, <2>2, <2>3
<1>13. CASE UpstreamPartial
  <2>1. /\ pc = "loop" /\ upstream \in UpstreamType /\ upstream.events \in Seq(Event)
        /\ upstream.events # <<>> /\ Head(upstream.events) = "partial"
    BY <1>13 DEF UpstreamPartial, UpstreamTurn, FlagsAgree, TypeOK, UpstreamType, Event
  <2>2. /\ Tail(upstream.events) \in Seq(Event)
        /\ ("done" \in Range(Tail(upstream.events))) = ("done" \in Range(upstream.events))
    <3>1. upstream.events[1] = "partial" /\ Len(upstream.events) \in Nat /\ Len(upstream.events) > 0
      BY <2>1
    <3>2. /\ Tail(upstream.events) \in Seq(Event)
          /\ Len(Tail(upstream.events)) = Len(upstream.events) - 1
          /\ \A i \in 1..Len(Tail(upstream.events)) : Tail(upstream.events)[i] = upstream.events[i + 1]
      BY <2>1, HeadTailProperties
    <3>3. /\ Range(upstream.events) = {upstream.events[i] : i \in 1..Len(upstream.events)}
          /\ Range(Tail(upstream.events)) = {Tail(upstream.events)[i] : i \in 1..Len(Tail(upstream.events))}
      BY <2>1, <3>2, RangeEquality
    <3>4. ASSUME "done" \in Range(upstream.events) PROVE "done" \in Range(Tail(upstream.events))
      <4>1. PICK i \in 1..Len(upstream.events) : upstream.events[i] = "done"
        BY <3>3, <3>4
      <4>2. i # 1 /\ i - 1 \in 1..Len(Tail(upstream.events))
        BY <3>1, <3>2, <4>1
      <4>3. Tail(upstream.events)[i - 1] = "done"
        BY <3>2, <4>1, <4>2
      <4> QED BY <3>3, <4>2, <4>3
    <3>5. ASSUME "done" \in Range(Tail(upstream.events)) PROVE "done" \in Range(upstream.events)
      <4>1. PICK i \in 1..Len(Tail(upstream.events)) : Tail(upstream.events)[i] = "done"
        BY <3>3, <3>5
      <4>2. i + 1 \in 1..Len(upstream.events) /\ upstream.events[i + 1] = "done"
        BY <3>1, <3>2, <4>1
      <4> QED BY <3>3, <4>2
    <3> QED BY <3>2, <3>4, <3>5
  <2>3. /\ upstream' \in UpstreamType /\ upstream'.events = Tail(upstream.events)
        /\ upstream'.open = upstream.open /\ upstream'.finished = upstream.finished
    BY <1>13, <2>1, <2>2 DEF UpstreamPartial, UpstreamType, Event
  <2>4. TypeOK'
    BY <1>13, <2>3 DEF UpstreamPartial, UpstreamTurn, TypeOK, audio, state, client
  <2>5. FlagsAgree'
    BY <1>13, <2>2, <2>3 DEF UpstreamPartial, UpstreamTurn, FlagsAgree, audio, state
  <2>6. OneModelSession'
    BY <1>13, <2>3 DEF UpstreamPartial, OneModelSession
  <2> QED BY <1>0, <2>4, <2>5, <2>6
<1>14. CASE UpstreamDone
  <2>1. /\ upstream.open /\ upstream \in UpstreamType /\ clientCommitted \in BOOLEAN
        /\ replay = <<>> \/ ~clientCommitted
    BY <1>14 DEF UpstreamDone, UpstreamTurn, FlagsAgree, TypeOK
  <2>2. NoUpstream \in UpstreamType /\ ~NoUpstream.open /\ ~NoUpstream.finished
    BY EmptySeq DEF NoUpstream, UpstreamType
  <2>3. "done" \notin Range(NoUpstream.events)
    BY DEF NoUpstream, Range
  <2>4. finals' \in Seq([reason : {"silence", "commit"}, complete : BOOLEAN, audio : Seq(Chunk)])
    <3>1. upstream.heard \in Seq(Chunk)
      BY <2>1 DEF UpstreamType
    <3> QED BY <1>14, <2>1, <3>1, AppendProperties DEF UpstreamDone, TypeOK
  <2>5. live = 1 /\ live' = 0 /\ upstream' = NoUpstream /\ done' = {}
    BY <1>14, <2>1 DEF UpstreamDone, UpstreamTurn, OneModelSession
  <2>6. CASE clientCommitted
    <3>1. TypeOK'
      BY <1>14, <2>2, <2>4, <2>5, <2>6 DEF UpstreamDone, TypeOK, client
    <3>2. FlagsAgree'
      BY <1>14, <2>6 DEF UpstreamDone, FlagsAgree
    <3>3. OneModelSession'
      BY <1>14, <2>2, <2>5, <2>6 DEF UpstreamDone, OneModelSession
    <3> QED BY <1>0, <3>1, <3>2, <3>3
  <2>7. CASE ~clientCommitted
    <3>1. TypeOK'
      <4>1. /\ upstreamCommitting' = FALSE /\ speechStarted' = FALSE /\ silence' = 0
            /\ preroll' = <<>> /\ replay' = rollover /\ rollover' = <<>> /\ pc' = pc
            /\ UNCHANGED <<closeCode, clientCommitted, trim, overflowed, client>>
        BY <1>14, <2>7 DEF UpstreamDone
      <4>2. preroll' \in Seq(Chunk) /\ rollover' \in Seq(Chunk) /\ replay' \in Seq(Chunk)
        BY <4>1, EmptySeq DEF TypeOK
      <4>3. upstream' \in UpstreamType /\ live' \in Nat /\ done' \in SUBSET {"browser", "upstream"}
        BY <2>2, <2>5
      <4>4. /\ pc' \in {"start", "loop", "finally", "closed"} /\ closeCode' \in {0, 1000, 1013, 4400}
            /\ clientGone' \in BOOLEAN /\ clientCommitted' \in BOOLEAN /\ trim' \in BOOLEAN
            /\ upstreamCommitting' \in BOOLEAN /\ speechStarted' \in BOOLEAN
            /\ accepted' \in 0..MaxChunks /\ spoken' \subseteq 1..MaxChunks
            /\ overflowed' \subseteq 1..MaxChunks /\ silence' \in Nat
        <5>1. silence' \in Nat
          BY <4>1
        <5>2. upstreamCommitting' \in BOOLEAN /\ speechStarted' \in BOOLEAN
          BY <4>1
        <5>3. closeCode' = closeCode /\ closeCode \in {0, 1000, 1013, 4400}
          BY <4>1 DEF TypeOK
        <5>4. /\ clientGone' \in BOOLEAN /\ clientCommitted' \in BOOLEAN /\ trim' \in BOOLEAN
              /\ pc' \in {"start", "loop", "finally", "closed"}
          BY <4>1 DEF TypeOK, client
        <5>5. /\ accepted' \in 0..MaxChunks /\ spoken' \subseteq 1..MaxChunks
              /\ overflowed' \subseteq 1..MaxChunks
          BY <4>1 DEF TypeOK, client
        <5> QED BY <5>1, <5>4, <5>5, <5>2, <5>3
      <4> QED BY <2>4, <4>2, <4>3, <4>4 DEF TypeOK
    <3>2. FlagsAgree'
      <4>1. /\ upstreamCommitting' = FALSE /\ speechStarted' = FALSE /\ clientCommitted' = FALSE
            /\ preroll' = <<>> /\ rollover' = <<>>
        BY <1>14, <2>1, <2>7 DEF UpstreamDone
      <4>2. /\ upstream'.open = FALSE /\ upstream'.finished = FALSE
            /\ ("done" \in Range(upstream'.events)) = FALSE
        BY <2>2, <2>3, <2>5 DEF UpstreamType
      <4> QED BY <2>5, <4>1, <4>2 DEF FlagsAgree
    <3>3. OneModelSession'
      BY <1>14, <2>2, <2>5, <2>7 DEF UpstreamDone, UpstreamTurn, OneModelSession
    <3> QED BY <1>0, <3>1, <3>2, <3>3
  <2> QED BY <2>6, <2>7
<1>15. CASE UpstreamError
  <2>1. TypeOK'
    BY <1>15 DEF UpstreamError, UpstreamTurn, TypeOK, audio, state, model, client
  <2>2. FlagsAgree'
    BY <1>15 DEF UpstreamError, UpstreamTurn, FlagsAgree, audio, state, model, client
  <2>3. OneModelSession'
    BY <1>15 DEF UpstreamError, UpstreamTurn, OneModelSession, audio, state, model, client
  <2> QED BY <1>0, <2>1, <2>2, <2>3
<1>16. CASE ReplayChunk
  <2>1. pc = "loop" /\ replay # <<>> /\ replay \in Seq(Chunk) /\ ProcessPcm(Head(replay))
    BY <1>16 DEF ReplayChunk, TypeOK
  <2>2. Head(replay) \in Chunk /\ Tail(replay) \in Seq(Chunk)
    BY <2>1, HeadTailProperties
  <2>3. done = {} /\ ~clientCommitted
    BY <2>1 DEF FlagsAgree, TypeOK
  <2>4. TypeOK'
    BY <1>16, <2>1, <2>2, ProcessPcmFacts DEF ReplayChunk, TypeOK, client
  <2>5. FlagsAgree'
    BY <1>16, <2>1, <2>2, <2>3, ProcessPcmFacts DEF ReplayChunk, FlagsAgree
  <2>6. OneModelSession'
    BY <2>1, <2>2, ProcessPcmFacts DEF OneModelSession
  <2> QED BY <1>0, <2>4, <2>5, <2>6
<1>17. CASE SendRaises
  <2>1. TypeOK'
    BY <1>17 DEF SendRaises, TypeOK, audio, state, model, client
  <2>2. FlagsAgree'
    BY <1>17 DEF SendRaises, FlagsAgree, audio, state, model, client
  <2>3. OneModelSession'
    BY <1>17 DEF SendRaises, OneModelSession, audio, state, model, client
  <2> QED BY <1>0, <2>1, <2>2, <2>3
<1>18. CASE CloseSession
  <2>1. NoUpstream \in UpstreamType /\ ~NoUpstream.open
    BY EmptySeq DEF NoUpstream, UpstreamType
  <2>2. upstream.open \in BOOLEAN
    BY DEF TypeOK, UpstreamType
  <2>3. live' = 0
    BY <1>18, <2>2 DEF CloseSession, OneModelSession
  <2>4. TypeOK'
    BY <1>18, <2>1, <2>3 DEF CloseSession, TypeOK, audio, state, client
  <2>5. FlagsAgree'
    BY <1>18 DEF CloseSession, FlagsAgree
  <2>6. OneModelSession'
    BY <1>18, <2>1, <2>3 DEF CloseSession, OneModelSession
  <2> QED BY <1>0, <2>4, <2>5, <2>6
<1>19. CASE UNCHANGED vars
  <2>1. TypeOK'
    BY <1>19 DEF vars, TypeOK, audio, state, model, client
  <2>2. FlagsAgree'
    BY <1>19 DEF vars, FlagsAgree, audio, state, model, client
  <2>3. OneModelSession'
    BY <1>19 DEF vars, OneModelSession, audio, state, model, client
  <2> QED BY <1>0, <2>1, <2>2, <2>3
<1> QED
  BY <1>1, <1>2, <1>3, <1>4, <1>5, <1>6, <1>7, <1>8, <1>9, <1>10, <1>11, <1>12, <1>13, <1>14,
     <1>15, <1>16, <1>17, <1>18, <1>19 DEF Next, Browser, Upstream, Closed

\* The invariant holds throughout every session.
THEOREM InvHolds == Spec => []Inv
<1>1. Init => Inv
    BY InitInv
<1>2. Inv /\ [Next]_vars => Inv'
    BY NextInv
<1> QED BY <1>1, <1>2, PTL DEF Spec

\* Every variable of handle_stream keeps its type, whatever the limits and the audio.
THEOREM TypeCorrect == Spec => []TypeOK
<1>1. Inv => TypeOK
    BY DEF Inv
<1> QED BY <1>1, InvHolds, PTL

\* The flags of the loop agree with the model session.
THEOREM FlagsAlwaysAgree == Spec => []FlagsAgree
<1>1. Inv => FlagsAgree
    BY DEF Inv
<1> QED BY <1>1, InvHolds, PTL

\* At most one model session is open, and none once the connection is closed.
THEOREM NoSessionLeaks == Spec => []OneModelSession
<1>1. Inv => OneModelSession
    BY DEF Inv
<1> QED BY <1>1, InvHolds, PTL

-----------------------------------------------------------------------------
(* No speech is lost. *)

\* The elements of a sequence are where it says.
LEMMA RangeTypes ==
    ASSUME NEW S, NEW s \in Seq(S)
    PROVE  \A d \in Range(s) : d \in S
BY RangeEquality

\* The numbers of the chunks of a sequence, through its range.
LEMMA IdsOfRange ==
    ASSUME NEW s \in Seq(Chunk)
    PROVE  Ids(s) = {c.id : c \in Range(s)}
<1>1. Range(s) = {s[i] : i \in 1..Len(s)}
    BY RangeEquality
<1> QED BY <1>1 DEF Ids

\* The numbers in two sequences joined.
LEMMA IdsOfConcat ==
    ASSUME NEW s \in Seq(Chunk), NEW t \in Seq(Chunk)
    PROVE  Ids(s \o t) = Ids(s) \cup Ids(t)
<1>1. s \o t \in Seq(Chunk) /\ Range(s \o t) = Range(s) \cup Range(t)
    BY ConcatProperties, RangeConcatenation
<1>2. Ids(s \o t) = {c.id : c \in Range(s) \cup Range(t)}
    BY <1>1, IdsOfRange
<1>3. Ids(s) = {c.id : c \in Range(s)} /\ Ids(t) = {c.id : c \in Range(t)}
    BY IdsOfRange
<1> QED BY <1>2, <1>3

\* The elements of a sequence with one more.
LEMMA RangeOfAppend ==
    ASSUME NEW S, NEW s \in Seq(S), NEW c \in S
    PROVE  /\ Append(s, c) \in Seq(S)
           /\ Range(Append(s, c)) = Range(s) \cup {c}
<1>1. Append(s, c) \in Seq(S) /\ Append(s, c) = s \o <<c>>
    BY AppendProperties, AppendIsConcat
<1> DEFINE one == <<c>>
<1>2. one \in Seq(S) /\ Range(one) = {c}
    BY DEF Range
<1>3. Append(s, c) = s \o one
    BY <1>1
<1> HIDE DEF one
<1>4. Range(s \o one) = Range(s) \cup Range(one)
    BY <1>2, RangeConcatenation
<1> QED BY <1>1, <1>2, <1>3, <1>4

\* Dropping the oldest chunks leaves the others.
LEMMA RangeOfDrop ==
    ASSUME NEW s \in Seq(Chunk), NEW k \in 0..Len(s)
    PROVE  /\ DropFirst(s, k) \in Seq(Chunk)
           /\ Range(s) = {s[i] : i \in 1..k} \cup Range(DropFirst(s, k))
<1>1. \A i \in (k + 1)..Len(s) : s[i] \in Chunk
    OBVIOUS
<1>2. /\ DropFirst(s, k) \in Seq(Chunk)
      /\ Len(DropFirst(s, k)) = Len(s) - k
      /\ \A i \in 1..(Len(s) - k) : DropFirst(s, k)[i] = s[k + i]
  <2>1. /\ SubSeq(s, k + 1, Len(s)) \in Seq(Chunk)
        /\ Len(SubSeq(s, k + 1, Len(s))) =
                IF k + 1 <= Len(s) THEN Len(s) - (k + 1) + 1 ELSE 0
        /\ \A i \in 1..(Len(s) - (k + 1) + 1) : SubSeq(s, k + 1, Len(s))[i] = s[(k + 1) + i - 1]
    BY <1>1, SubSeqProperties
  <2> QED BY <2>1 DEF DropFirst
<1>3. /\ Range(s) = {s[i] : i \in 1..Len(s)}
      /\ Range(DropFirst(s, k)) = {DropFirst(s, k)[i] : i \in 1..Len(DropFirst(s, k))}
    BY <1>2, RangeEquality
<1>4. Range(DropFirst(s, k)) \subseteq Range(s)
    BY <1>2, <1>3
<1>5. {s[i] : i \in 1..k} \subseteq Range(s)
    BY <1>3
<1>6. ASSUME NEW i \in 1..Len(s), i \notin 1..k PROVE s[i] \in Range(DropFirst(s, k))
  <2>1. i - k \in 1..(Len(s) - k) /\ k + (i - k) = i
    BY <1>6
  <2>2. DropFirst(s, k)[i - k] = s[i]
    BY <1>2, <2>1
  <2> QED BY <1>2, <1>3, <2>1, <2>2
<1>7. Range(s) \subseteq {s[i] : i \in 1..k} \cup Range(DropFirst(s, k))
    BY <1>3, <1>6
<1> QED BY <1>2, <1>4, <1>5, <1>7

\* The chunks of a sequence are its head and those of its tail.
LEMMA RangeOfTail ==
    ASSUME NEW s \in Seq(Chunk), s # <<>>
    PROVE  /\ Head(s) \in Chunk /\ Tail(s) \in Seq(Chunk)
           /\ Range(s) = {Head(s)} \cup Range(Tail(s))
<1>1. 1 \in 0..Len(s) /\ Tail(s) = DropFirst(s, 1) /\ Head(s) = s[1]
    BY TailIsSubSeq DEF DropFirst
<1>2. {s[i] : i \in 1..1} = {s[1]}
    OBVIOUS
<1>3. Head(s) \in Chunk /\ Tail(s) \in Seq(Chunk)
    BY HeadTailProperties
<1>4. Range(s) = {s[i] : i \in 1..1} \cup Range(DropFirst(s, 1))
    BY <1>1, RangeOfDrop
<1> QED BY <1>1, <1>2, <1>3, <1>4

\* What the buffers hold: numbers already given out, marked as speech when they are.
AudioHeld ==
    /\ spoken \subseteq 1..accepted
    /\ ~upstream.open => upstream.heard = <<>>
    /\ \A c \in Range(rollover) \cup Range(replay) :
          c.id <= accepted /\ (c.id \in spoken => c.speech)

\* process_pcm loses none of the audio fed or held, and takes a chunk of speech.
LEMMA ProcessPcmKeepsAudio ==
    ASSUME Inv, AudioHeld, pc = "loop", NEW c \in Chunk, ProcessPcm(c)
    PROVE  /\ ~upstream'.open => upstream'.heard = <<>>
           /\ Range(rollover') \subseteq Range(rollover) \cup {c}
           /\ pc' = "loop" =>
                /\ Ids(upstream.heard) \cup Ids(rollover) \cup overflowed
                        \subseteq Ids(upstream'.heard) \cup Ids(rollover') \cup overflowed'
                /\ c.speech =>
                        c.id \in Ids(upstream'.heard) \cup Ids(rollover') \cup overflowed'
<1>1. /\ rollover \in Seq(Chunk) /\ preroll \in Seq(Chunk)
      /\ upstream \in UpstreamType /\ upstream.heard \in Seq(Chunk)
      /\ upstream.open \in BOOLEAN /\ (~upstream.open => upstream.heard = <<>>)
    BY DEF Inv, TypeOK, UpstreamType, AudioHeld
<1>2. CASE HoldForNextSegment(c)
  <2> DEFINE waiting == Append(rollover, c)
  <2>1. PICK k \in 0..Len(waiting) :
            /\ rollover' = DropFirst(waiting, k)
            /\ overflowed' = overflowed \cup {waiting[i].id : i \in 1..k}
    BY <1>2 DEF HoldForNextSegment
  <2>2. waiting \in Seq(Chunk) /\ Range(waiting) = Range(rollover) \cup {c}
    BY <1>1, RangeOfAppend
  <2> HIDE DEF waiting
  <2>3. /\ rollover' \in Seq(Chunk)
        /\ Range(waiting) = {waiting[i] : i \in 1..k} \cup Range(rollover')
    BY <2>1, <2>2, RangeOfDrop
  <2>4. Ids(waiting) = {d.id : d \in Range(waiting)} /\ Ids(rollover') = {d.id : d \in Range(rollover')}
        /\ Ids(rollover) = {d.id : d \in Range(rollover)}
    BY <1>1, <2>2, <2>3, IdsOfRange
  <2>5. Ids(waiting) \subseteq Ids(rollover') \cup overflowed'
    BY <2>1, <2>3, <2>4
  <2>6. Ids(rollover) \cup {c.id} \subseteq Ids(waiting)
    BY <2>2, <2>4
  <2>7. upstream' = upstream /\ overflowed \subseteq overflowed'
    BY <1>2, <2>1 DEF HoldForNextSegment, model
  <2> QED BY <1>1, <2>2, <2>3, <2>5, <2>6, <2>7
<1>3. CASE HoldInGate(c)
    BY <1>1, <1>3 DEF HoldInGate, model
<1>4. CASE OpenFails(c)
    BY <1>1, <1>4 DEF OpenFails, model
<1>5. CASE Speak(c)
  <2>1. rollover' = rollover /\ overflowed' = overflowed
    BY <1>5 DEF Speak
  <2>2. /\ Session \in [open : BOOLEAN, finished : BOOLEAN, events : Seq(Event), heard : Seq(Chunk)]
        /\ Session.open = TRUE /\ Session.heard = upstream.heard /\ Session.finished = FALSE
    <3>1. upstream.finished = FALSE
      BY <1>5 DEF Speak, GoesToModel, Inv, FlagsAgree, TypeOK, UpstreamType
    <3>2. CASE upstream.open
      BY <1>1, <3>1, <3>2 DEF Session, UpstreamType, Event
    <3>3. CASE ~upstream.open
      BY <1>1, <3>3, EmptySeq DEF Session, NewUpstream, NoUpstream, Event
    <3> QED BY <3>2, <3>3
  <2> DEFINE pcm == Append(preroll, c)
             fed(n) == Fed(Session, pcm, n)
  <2>3. /\ pcm \in Seq(Chunk) /\ Range(pcm) = Range(preroll) \cup {c}
    BY <1>1, RangeOfAppend
  <2>4. PICK n \in 0..MaxPartials, flush \in BOOLEAN, cut \in Cuts(SilenceAfter(c)) :
            \/ /\ upstream' = IF cut THEN Committed(fed(n), flush) ELSE fed(n)
               /\ pc' = pc
            \/ /\ upstream' = Session /\ pc' = "finally"
            \/ /\ upstream' = fed(n) /\ pc' = "finally"
    BY <1>5 DEF Speak
  <2> HIDE DEF pcm
  <2>5. fed(n).open = TRUE /\ fed(n).finished = FALSE /\ fed(n).heard = upstream.heard \o pcm
    BY <2>2 DEF Fed
  <2>6. Committed(fed(n), flush).open = TRUE /\ Committed(fed(n), flush).heard = upstream.heard \o pcm
    <3>1. fed(n) \in [open : BOOLEAN, finished : BOOLEAN, events : Seq(Event), heard : Seq(Chunk)]
      <4>1. n \in Nat /\ Session \in UpstreamType
        BY <2>2, LimitsAssumption DEF UpstreamType, Event
      <4> QED BY <2>3, <4>1, FedFacts DEF UpstreamType, Event
    <3> HIDE DEF fed
    <3> QED BY <2>5, <3>1 DEF Committed
  <2> HIDE DEF fed
  <2>7. Ids(upstream.heard \o pcm) = Ids(upstream.heard) \cup Ids(pcm)
    BY <1>1, <2>3, IdsOfConcat
  <2>8. c.id \in Ids(pcm)
    BY <2>3, IdsOfRange
  <2>9. upstream'.open
    BY <2>2, <2>4, <2>5, <2>6
  <2>10. pc' = "loop" => upstream'.heard = upstream.heard \o pcm
    BY <2>4, <2>5, <2>6
  <2> QED BY <2>1, <2>7, <2>8, <2>9, <2>10
<1> QED BY <1>2, <1>3, <1>4, <1>5 DEF ProcessPcm

AudioInv == Inv /\ AudioHeld /\ NoSpeechLost

\* Nothing has been said at the beginning.
LEMMA InitAudio == Init => AudioInv
<1> SUFFICES ASSUME Init PROVE AudioInv
    OBVIOUS
<1>1. Inv
    BY InitInv
<1>2. AudioHeld
    BY DEF Init, AudioHeld, NoUpstream, Range
<1>3. NoSpeechLost
    BY DEF Init, NoSpeechLost
<1> QED BY <1>1, <1>2, <1>3 DEF AudioInv

\* A final adds the audio of its segment to what has been transcribed.
LEMMA TranscribedGrows ==
    ASSUME TypeOK, NEW final \in [reason : {"silence", "commit"}, complete : BOOLEAN, audio : Seq(Chunk)],
           finals' = Append(finals, final)
    PROVE  Transcribed' = Transcribed \cup Ids(final.audio)
<1>1. /\ Len(finals) \in Nat /\ Len(finals') = Len(finals) + 1
      /\ \A i \in 1..Len(finals) : finals'[i] = finals[i]
      /\ finals'[Len(finals) + 1] = final
    BY AppendProperties DEF TypeOK
<1> DEFINE A(i) == Ids(finals[i].audio)
           B(i) == Ids(finals'[i].audio)
<1>2. \A i \in 1..Len(finals) : B(i) = A(i)
    BY <1>1
<1>3. B(Len(finals) + 1) = Ids(final.audio)
    BY <1>1
<1>4. Transcribed = UNION {A(i) : i \in 1..Len(finals)}
    BY DEF Transcribed
<1>5. Transcribed' = UNION {B(i) : i \in 1..Len(finals')}
    BY DEF Transcribed, Ids
<1> HIDE DEF A, B
<1>6. Transcribed \cup Ids(final.audio) \subseteq Transcribed'
    BY <1>1, <1>2, <1>3, <1>4, <1>5
<1>7. ASSUME NEW x \in Transcribed' PROVE x \in Transcribed \cup Ids(final.audio)
  <2>1. PICK i \in 1..Len(finals') : x \in B(i)
    BY <1>5
  <2>2. i \in 1..Len(finals) \/ i = Len(finals) + 1
    BY <1>1
  <2> QED BY <1>2, <1>3, <1>4, <2>1, <2>2
<1> QED BY <1>6, <1>7

\* A step that leaves the audio, the model session and the finals as they are.
LEMMA AudioUntouched ==
    ASSUME AudioInv, UNCHANGED <<finals, rollover, replay, overflowed, accepted, spoken>>,
           upstream'.heard = upstream.heard, upstream'.open = upstream.open,
           pc' = "loop" => pc = "loop"
    PROVE  AudioHeld' /\ NoSpeechLost'
<1>1. AudioHeld'
    BY DEF AudioInv, AudioHeld, Range
<1>2. Transcribed' = Transcribed
    BY DEF Transcribed, Ids
<1>3. Ids(upstream'.heard) = Ids(upstream.heard)
    BY DEF Ids
<1>4. NoSpeechLost'
    BY <1>2, <1>3 DEF AudioInv, NoSpeechLost, Ids
<1> QED BY <1>1, <1>4

\* Every step keeps the audio.
LEMMA NextAudio == AudioInv /\ [Next]_vars => AudioInv'
<1> SUFFICES ASSUME AudioInv, [Next]_vars PROVE AudioInv'
    OBVIOUS
<1> USE DEF AudioInv
<1>0. Inv'
    BY NextInv
<1>1. CASE Refuse \/ BrowserRejected \/ BrowserEnd \/ BrowserDisconnect \/ UpstreamError
           \/ SendRaises \/ WakeUpstream \/ WakeBrowser \/ ClientLeaves \/ UNCHANGED vars
  <2>1. UNCHANGED <<finals, rollover, replay, overflowed, accepted, spoken, upstream>>
    BY <1>1 DEF Refuse, BrowserRejected, BrowserEnd, BrowserDisconnect, UpstreamError, SendRaises,
                WakeUpstream, WakeBrowser, Wake, ClientLeaves, vars, audio, model, client
  <2>2. pc' = "loop" => pc = "loop"
    BY <1>1 DEF Refuse, BrowserRejected, BrowserEnd, BrowserDisconnect, UpstreamError, SendRaises,
                WakeUpstream, WakeBrowser, Wake, ClientLeaves, vars
  <2> QED BY <1>0, <2>1, <2>2, AudioUntouched
<1>2. CASE StartSession
  <2>1. UNCHANGED <<finals, rollover, replay, overflowed, accepted, spoken, upstream>>
    BY <1>2 DEF StartSession, audio, model, client
  <2>2. AudioHeld'
    BY <2>1 DEF AudioHeld
  <2>3. spoken = {}
    BY <1>2 DEF StartSession, Inv, StartsEmpty
  <2>4. NoSpeechLost'
    BY <2>1, <2>3 DEF NoSpeechLost
  <2> QED BY <1>0, <2>2, <2>4
<1>3. CASE UpstreamBreaks \/ UpstreamPartial
  <2>1. UNCHANGED <<finals, rollover, replay, overflowed, accepted, spoken>>
    BY <1>3 DEF UpstreamBreaks, UpstreamPartial, audio, client
  <2>2. upstream'.heard = upstream.heard /\ upstream'.open = upstream.open /\ pc' = pc
    <3>1. upstream \in UpstreamType
      BY DEF Inv, TypeOK
    <3>2. CASE UpstreamBreaks
      BY <3>1, <3>2 DEF UpstreamBreaks, UpstreamType
    <3>3. CASE UpstreamPartial
      BY <3>1, <3>3 DEF UpstreamPartial, UpstreamType
    <3> QED BY <1>3, <3>2, <3>3
  <2> QED BY <1>0, <2>1, <2>2, AudioUntouched
<1>4. CASE BrowserCommit
  <2>1. UNCHANGED <<finals, rollover, replay, overflowed, accepted, spoken>>
    BY <1>4 DEF BrowserCommit, audio, client
  <2>2. upstream'.heard = upstream.heard /\ upstream'.open = upstream.open
    <3>1. upstream \in UpstreamType
      BY DEF Inv, TypeOK
    <3>2. \A flush \in BOOLEAN : /\ Committed(upstream, flush).heard = upstream.heard
                                 /\ Committed(upstream, flush).open = upstream.open
      BY <3>1 DEF Committed, UpstreamType
    <3> QED BY <1>4, <3>2 DEF BrowserCommit
  <2>3. pc = "loop"
    BY <1>4 DEF BrowserCommit, BrowserTurn
  <2> QED BY <1>0, <2>1, <2>2, <2>3, AudioUntouched
<1>5. CASE BrowserCommitEmpty
  <2>1. UNCHANGED <<rollover, replay, overflowed, accepted, spoken, upstream>> /\ pc' = "finally"
    BY <1>5 DEF BrowserCommitEmpty, audio, model, client
  <2> QED BY <1>0, <2>1 DEF AudioHeld, NoSpeechLost
<1>6. CASE CloseSession
  <2>1. UNCHANGED <<rollover, replay, accepted, spoken>> /\ upstream' = NoUpstream /\ pc' = "closed"
    BY <1>6 DEF CloseSession, audio, client
  <2> QED BY <1>0, <2>1 DEF AudioHeld, NoSpeechLost, NoUpstream
<1>7. CASE BrowserAudio
  <2>1. PICK s \in Sounds :
            /\ ProcessPcm([id |-> accepted', speech |-> s.speech, len |-> s.len])
            /\ spoken' = IF s.speech THEN spoken \cup {accepted'} ELSE spoken
    BY <1>7 DEF BrowserAudio
  <2> DEFINE c == [id |-> accepted', speech |-> s.speech, len |-> s.len]
  <2>2. /\ pc = "loop" /\ ProcessPcm(c) /\ c \in Chunk
        /\ accepted \in Nat /\ accepted' = accepted + 1 /\ finals' = finals /\ replay' = replay
    <3>1. accepted' \in 1..MaxChunks /\ accepted \in Nat
      BY <1>7, LimitsAssumption DEF BrowserAudio, Inv, TypeOK
    <3> QED BY <1>7, <2>1, <3>1, SoundsAssumption DEF BrowserAudio, BrowserTurn, Chunk
  <2>3. /\ c.id = accepted + 1 /\ c.speech = s.speech
        /\ spoken' = (IF c.speech THEN spoken \cup {c.id} ELSE spoken)
    BY <2>1, <2>2
  <2> HIDE DEF c
  <2>4. /\ ~upstream'.open => upstream'.heard = <<>>
        /\ Range(rollover') \subseteq Range(rollover) \cup {c}
    BY <2>2, ProcessPcmKeepsAudio
  <2>5. rollover' \in Seq(Chunk) /\ replay \in Seq(Chunk) /\ rollover \in Seq(Chunk)
    BY <1>0, <2>2 DEF Inv, TypeOK
  <2>6. \A d \in Range(rollover) \cup Range(replay) : d \in Chunk
    BY <2>5, RangeTypes
  <2>7. ASSUME NEW d \in Range(rollover') \cup Range(replay')
        PROVE  d.id <= accepted' /\ (d.id \in spoken' => d.speech)
    <3>1. CASE d = c
      BY <2>2, <2>3, <3>1 DEF AudioHeld
    <3>2. CASE d \in Range(rollover) \cup Range(replay)
      <4>1. d.id \in Nat /\ d.id <= accepted /\ (d.id \in spoken => d.speech)
        BY <2>6, <3>2 DEF AudioHeld, Chunk
      <4>2. d.id # c.id
        BY <2>2, <2>3, <4>1
      <4> QED BY <2>2, <2>3, <4>1, <4>2
    <3> QED BY <2>2, <2>4, <3>1, <3>2
  <2>8. spoken' \subseteq 1..accepted'
    <3>1. spoken \subseteq 1..accepted
      BY DEF AudioHeld
    <3> QED BY <2>2, <2>3, <3>1
  <2>9. AudioHeld'
    BY <2>4, <2>7, <2>8 DEF AudioHeld
  <2>10. Transcribed' = Transcribed /\ Ids(replay)' = Ids(replay)
    BY <2>2 DEF Transcribed, Ids
  <2>11. NoSpeechLost'
    <3> SUFFICES ASSUME pc' = "loop"
                 PROVE  spoken' \subseteq Transcribed' \cup Ids(upstream'.heard) \cup Ids(rollover')
                                               \cup Ids(replay') \cup overflowed'
      BY DEF NoSpeechLost, Ids
    <3>1. /\ Ids(upstream.heard) \cup Ids(rollover) \cup overflowed
                  \subseteq Ids(upstream'.heard) \cup Ids(rollover') \cup overflowed'
          /\ c.speech => c.id \in Ids(upstream'.heard) \cup Ids(rollover') \cup overflowed'
      BY <2>2, ProcessPcmKeepsAudio
    <3>2. spoken \subseteq Transcribed \cup Ids(upstream.heard) \cup Ids(rollover)
                              \cup Ids(replay) \cup overflowed
      BY <2>2 DEF NoSpeechLost
    <3>3. Ids(replay') = Ids(replay)
      BY <2>2
    <3> QED BY <2>3, <2>10, <3>1, <3>2, <3>3
  <2> QED BY <1>0, <2>9, <2>11
<1>8. CASE UpstreamDone
  <2>1. /\ upstream.heard \in Seq(Chunk) /\ clientCommitted \in BOOLEAN /\ pc = "loop"
        /\ done # {} /\ replay = <<>>
    BY <1>8 DEF UpstreamDone, UpstreamTurn, Inv, TypeOK, UpstreamType, FlagsAgree
  <2> DEFINE final == [reason |-> IF clientCommitted THEN "commit" ELSE "silence",
                       complete |-> clientCommitted, audio |-> upstream.heard]
  <2>2. final \in [reason : {"silence", "commit"}, complete : BOOLEAN, audio : Seq(Chunk)]
    BY <2>1
  <2>3. final.audio = upstream.heard /\ finals' = Append(finals, final)
    BY <1>8 DEF UpstreamDone
  <2> HIDE DEF final
  <2>4. Transcribed' = Transcribed \cup Ids(upstream.heard)
    BY <2>2, <2>3, TranscribedGrows DEF Inv
  <2>5. upstream' = NoUpstream /\ upstream'.heard = <<>>
        /\ UNCHANGED <<overflowed, accepted, spoken>>
    BY <1>8 DEF UpstreamDone, NoUpstream, client
  <2>6. CASE clientCommitted
    <3>1. pc' = "finally" /\ UNCHANGED <<rollover, replay>>
      BY <1>8, <2>6 DEF UpstreamDone
    <3> QED BY <1>0, <2>5, <3>1 DEF AudioHeld, NoSpeechLost
  <2>7. CASE ~clientCommitted
    <3>1. replay' = rollover /\ rollover' = <<>>
      BY <1>8, <2>7 DEF UpstreamDone
    <3>2. Range(rollover') = {} /\ Ids(replay) = {} /\ Ids(replay') = Ids(rollover)
      BY <2>1, <3>1 DEF Range, Ids
    <3>3. AudioHeld'
      BY <2>5, <3>1, <3>2 DEF AudioHeld
    <3>4. NoSpeechLost'
      BY <2>1, <2>4, <2>5, <3>2 DEF NoSpeechLost
    <3> QED BY <1>0, <3>3, <3>4
  <2> QED BY <2>6, <2>7
<1>9. CASE ReplayChunk
  <2> DEFINE c == Head(replay)
  <2>1. /\ pc = "loop" /\ ProcessPcm(c) /\ replay # <<>> /\ replay \in Seq(Chunk)
        /\ UNCHANGED <<finals, accepted, spoken>> /\ replay' = Tail(replay)
    BY <1>9 DEF ReplayChunk, Inv, TypeOK, client
  <2>2. c \in Chunk /\ replay' \in Seq(Chunk) /\ Range(replay) = {c} \cup Range(replay')
    BY <2>1, RangeOfTail
  <2> HIDE DEF c
  <2>3. /\ ~upstream'.open => upstream'.heard = <<>>
        /\ Range(rollover') \subseteq Range(rollover) \cup {c}
    BY <2>1, <2>2, ProcessPcmKeepsAudio
  <2>4. AudioHeld'
    BY <2>1, <2>2, <2>3 DEF AudioHeld
  <2>5. NoSpeechLost'
    <3> SUFFICES ASSUME pc' = "loop"
                 PROVE  spoken' \subseteq Transcribed' \cup Ids(upstream'.heard) \cup Ids(rollover')
                                               \cup Ids(replay') \cup overflowed'
      BY DEF NoSpeechLost, Ids
    <3>1. /\ Ids(upstream.heard) \cup Ids(rollover) \cup overflowed
                  \subseteq Ids(upstream'.heard) \cup Ids(rollover') \cup overflowed'
          /\ c.speech => c.id \in Ids(upstream'.heard) \cup Ids(rollover') \cup overflowed'
      BY <2>1, <2>2, ProcessPcmKeepsAudio
    <3>2. spoken \subseteq Transcribed \cup Ids(upstream.heard) \cup Ids(rollover)
                              \cup Ids(replay) \cup overflowed
      BY <2>1 DEF NoSpeechLost
    <3>3. Transcribed' = Transcribed
      BY <2>1 DEF Transcribed, Ids
    <3>4. Ids(replay) = {c.id} \cup Ids(replay')
      <4>1. Ids(replay) = {d.id : d \in Range(replay)} /\ Ids(replay') = {d.id : d \in Range(replay')}
        BY <2>1, <2>2, IdsOfRange
      <4> QED BY <2>2, <4>1
    <3>5. c.id \in spoken => c.speech
      BY <2>2 DEF AudioHeld
    <3> QED BY <2>1, <3>1, <3>2, <3>3, <3>4, <3>5
  <2> QED BY <1>0, <2>4, <2>5
<1> QED BY <1>1, <1>2, <1>3, <1>4, <1>5, <1>6, <1>7, <1>8, <1>9 DEF Next, Browser, Upstream, Closed

\* While a session runs every chunk of speech taken from the client is transcribed, in
\* the open model session or held, unless a full buffer dropped it.
THEOREM SpeechIsKept == Spec => []NoSpeechLost
<1>1. Init => AudioInv
    BY InitAudio
<1>2. AudioInv /\ [Next]_vars => AudioInv'
    BY NextAudio
<1>3. AudioInv => NoSpeechLost
    BY DEF AudioInv
<1> QED BY <1>1, <1>2, <1>3, PTL DEF Spec

-----------------------------------------------------------------------------
(* The audio stays in order.                                                 *)

\* The chunk whose number is highest may be put behind the others.
LEMMA RisingAppend ==
    ASSUME NEW s \in Seq(Chunk), NEW c \in Chunk, Rising(s), \A m \in Ids(s) : m < c.id
    PROVE  /\ Append(s, c) \in Seq(Chunk) /\ Rising(Append(s, c))
           /\ Ids(Append(s, c)) = Ids(s) \cup {c.id}
<1>1. /\ Append(s, c) \in Seq(Chunk) /\ Len(Append(s, c)) = Len(s) + 1
      /\ \A i \in 1..Len(s) : Append(s, c)[i] = s[i]
      /\ Append(s, c)[Len(s) + 1] = c
    BY AppendProperties
<1> DEFINE t == Append(s, c)
<1> HIDE DEF t
<1>2. t \in Seq(Chunk) /\ Len(t) = Len(s) + 1 /\ t[Len(s) + 1] = c /\ \A i \in 1..Len(s) : t[i] = s[i]
    BY <1>1 DEF t
<1>3. Rising(t)
  <2> SUFFICES ASSUME NEW i \in 1..Len(t), NEW j \in 1..Len(t), i < j PROVE t[i].id < t[j].id
    BY DEF Rising
  <2>1. i \in 1..Len(s) /\ t[i] = s[i] /\ s[i].id \in Ids(s)
    BY <1>2 DEF Ids
  <2>2. CASE j \in 1..Len(s)
    BY <1>2, <2>1, <2>2 DEF Rising
  <2>3. CASE j = Len(s) + 1
    BY <1>2, <2>1, <2>3
  <2> QED BY <1>2, <2>2, <2>3
<1>4. Ids(t) = Ids(s) \cup {c.id}
  <2>1. Range(t) = Range(s) \cup {c}
    BY RangeOfAppend DEF t
  <2> QED BY <1>2, <2>1, IdsOfRange
<1> QED BY <1>2, <1>3, <1>4 DEF t

\* So may a sequence whose chunks all come later.
LEMMA RisingConcat ==
    ASSUME NEW s \in Seq(Chunk), NEW t \in Seq(Chunk), Rising(s), Rising(t), Before(s, t)
    PROVE  s \o t \in Seq(Chunk) /\ Rising(s \o t)
<1> DEFINE u == s \o t
<1>1. /\ u \in Seq(Chunk) /\ Len(u) = Len(s) + Len(t)
      /\ \A i \in 1..Len(s) : u[i] = s[i]
      /\ \A i \in (Len(s) + 1)..Len(u) : u[i] = t[i - Len(s)]
    BY ConcatProperties
<1> HIDE DEF u
<1>2. ASSUME NEW i \in 1..Len(u), NEW j \in 1..Len(u), i < j PROVE u[i].id < u[j].id
  <2>1. CASE j \in 1..Len(s)
    BY <1>1, <1>2, <2>1 DEF Rising
  <2>2. CASE i \in 1..Len(s) /\ j \notin 1..Len(s)
    <3>1. j - Len(s) \in 1..Len(t) /\ u[j] = t[j - Len(s)] /\ u[i] = s[i]
      BY <1>1, <2>2
    <3> QED BY <2>2, <3>1 DEF Before, Ids
  <2>3. CASE i \notin 1..Len(s)
    <3>1. /\ j - Len(s) \in 1..Len(t) /\ u[j] = t[j - Len(s)]
          /\ i - Len(s) \in 1..Len(t) /\ u[i] = t[i - Len(s)] /\ i - Len(s) < j - Len(s)
      BY <1>1, <1>2, <2>3
    <3> QED BY <3>1 DEF Rising
  <2> QED BY <1>2, <2>1, <2>2, <2>3
<1> QED BY <1>1, <1>2 DEF Rising, u

\* What is left when the oldest are dropped is in order, and nothing new.
LEMMA RisingDrop ==
    ASSUME NEW s \in Seq(Chunk), NEW k \in 0..Len(s), Rising(s)
    PROVE  /\ DropFirst(s, k) \in Seq(Chunk) /\ Rising(DropFirst(s, k))
           /\ Ids(DropFirst(s, k)) \subseteq Ids(s)
<1>1. \A i \in (k + 1)..Len(s) : s[i] \in Chunk
    OBVIOUS
<1>2. /\ SubSeq(s, k + 1, Len(s)) \in Seq(Chunk)
      /\ Len(SubSeq(s, k + 1, Len(s))) = IF k + 1 <= Len(s) THEN Len(s) - (k + 1) + 1 ELSE 0
      /\ \A i \in 1..(Len(s) - (k + 1) + 1) : SubSeq(s, k + 1, Len(s))[i] = s[(k + 1) + i - 1]
    BY <1>1, SubSeqProperties
<1> DEFINE t == DropFirst(s, k)
<1>3. t \in Seq(Chunk) /\ Len(t) = Len(s) - k /\ \A i \in 1..Len(t) : t[i] = s[k + i]
    BY <1>2 DEF DropFirst
<1> HIDE DEF t
<1>4. Rising(t)
  <2> SUFFICES ASSUME NEW i \in 1..Len(t), NEW j \in 1..Len(t), i < j PROVE t[i].id < t[j].id
    BY DEF Rising
  <2>1. /\ k + i \in 1..Len(s) /\ k + j \in 1..Len(s) /\ k + i < k + j
        /\ t[i] = s[k + i] /\ t[j] = s[k + j]
    BY <1>3
  <2> QED BY <2>1 DEF Rising
<1>5. Ids(t) \subseteq Ids(s)
  <2> SUFFICES ASSUME NEW i \in 1..Len(t) PROVE t[i].id \in Ids(s)
    BY DEF Ids
  <2>1. k + i \in 1..Len(s) /\ t[i] = s[k + i]
    BY <1>3
  <2> QED BY <2>1 DEF Ids
<1> QED BY <1>3, <1>4, <1>5 DEF t

\* The first chunk of a sequence in order comes before the rest.
LEMMA RisingTail ==
    ASSUME NEW s \in Seq(Chunk), s # <<>>, Rising(s)
    PROVE  /\ Tail(s) \in Seq(Chunk) /\ Rising(Tail(s)) /\ Head(s) \in Chunk
           /\ Ids(s) = {Head(s).id} \cup Ids(Tail(s))
           /\ \A m \in Ids(Tail(s)) : Head(s).id < m
<1>1. /\ Tail(s) \in Seq(Chunk) /\ Head(s) \in Chunk /\ Len(Tail(s)) = Len(s) - 1 /\ Head(s) = s[1]
      /\ \A i \in 1..Len(Tail(s)) : Tail(s)[i] = s[i + 1]
  <2>1. /\ Tail(s) \in Seq(Chunk) /\ Head(s) \in Chunk /\ Len(Tail(s)) = Len(s) - 1
        /\ \A i \in 1..Len(Tail(s)) : Tail(s)[i] = s[i + 1]
    BY HeadTailProperties
  <2> QED BY <2>1
<1>2. Ids(s) = {Head(s).id} \cup Ids(Tail(s))
  <2>1. Range(s) = {Head(s)} \cup Range(Tail(s))
    BY RangeOfTail
  <2>2. Ids(s) = {c.id : c \in Range(s)} /\ Ids(Tail(s)) = {c.id : c \in Range(Tail(s))}
    BY <1>1, IdsOfRange
  <2> QED BY <2>1, <2>2
<1>3. \A i \in 1..Len(Tail(s)) : s[1].id < s[i + 1].id
    BY <1>1 DEF Rising
<1>4. \A m \in Ids(Tail(s)) : Head(s).id < m
    BY <1>1, <1>3 DEF Ids
<1>5. Rising(Tail(s))
    BY <1>1 DEF Rising
<1> QED BY <1>1, <1>2, <1>4, <1>5

\* The order of the sequences that hold what is not in a final yet.
HeldInOrder ==
    /\ Rising(upstream.heard) /\ Rising(preroll) /\ Rising(rollover) /\ Rising(replay)
    /\ Before(upstream.heard, preroll) /\ Before(upstream.heard, rollover)
    /\ Before(upstream.heard, replay) /\ Before(preroll, rollover)
    /\ Before(preroll, replay) /\ Before(rollover, replay)

\* process_pcm puts a chunk behind what is held, and lets go of audio only where it is
\* dropped; a session that has begun has heard something.
LEMMA ProcessPcmInOrder ==
    ASSUME Inv, AudioHeld, pc = "loop", NEW c \in Chunk, ProcessPcm(c), pc' = "loop", HeldInOrder,
           \A m \in Ids(upstream.heard) \cup Ids(preroll) \cup Ids(rollover) : m < c.id,
           upstream.open => upstream.heard # <<>>
    PROVE  /\ Rising(upstream'.heard) /\ Rising(preroll') /\ Rising(rollover')
           /\ Before(upstream'.heard, preroll') /\ Before(upstream'.heard, rollover')
           /\ Before(preroll', rollover')
           /\ Ids(upstream'.heard) \cup Ids(preroll') \cup Ids(rollover')
                \subseteq Ids(upstream.heard) \cup Ids(preroll) \cup Ids(rollover) \cup {c.id}
           /\ upstream'.open => upstream'.heard # <<>>
<1>1. /\ rollover \in Seq(Chunk) /\ preroll \in Seq(Chunk) /\ replay \in Seq(Chunk)
      /\ upstream \in UpstreamType /\ upstream.heard \in Seq(Chunk)
      /\ upstream.open \in BOOLEAN /\ (~upstream.open => upstream.heard = <<>>)
    BY DEF Inv, TypeOK, UpstreamType, AudioHeld
<1>2. /\ Rising(upstream.heard) /\ Rising(preroll) /\ Rising(rollover)
      /\ Before(upstream.heard, preroll) /\ Before(upstream.heard, rollover)
      /\ Before(preroll, rollover)
    BY DEF HeldInOrder
<1>3. Ids(<<>>) = {}
    BY DEF Ids
<1>4. CASE HoldForNextSegment(c)
  <2> DEFINE waiting == Append(rollover, c)
  <2>1. PICK k \in 0..Len(waiting) : rollover' = DropFirst(waiting, k)
    BY <1>4 DEF HoldForNextSegment
  <2>2. waiting \in Seq(Chunk) /\ Rising(waiting) /\ Ids(waiting) = Ids(rollover) \cup {c.id}
    BY <1>1, <1>2, RisingAppend
  <2> HIDE DEF waiting
  <2>3. Rising(rollover') /\ Ids(rollover') \subseteq Ids(rollover) \cup {c.id}
    BY <2>1, <2>2, RisingDrop
  <2>4. preroll' = preroll /\ upstream' = upstream
    BY <1>4 DEF HoldForNextSegment, model
  <2>5. Before(upstream'.heard, rollover') /\ Before(preroll', rollover')
    BY <1>2, <2>3, <2>4 DEF Before
  <2> QED BY <1>2, <2>3, <2>4, <2>5
<1>5. CASE HoldInGate(c)
  <2> DEFINE pending == Append(preroll, c)
  <2>1. PICK k \in 0..Len(pending) : preroll' = DropFirst(pending, k)
    BY <1>5 DEF HoldInGate
  <2>2. pending \in Seq(Chunk) /\ Rising(pending) /\ Ids(pending) = Ids(preroll) \cup {c.id}
    BY <1>1, <1>2, RisingAppend
  <2> HIDE DEF pending
  <2>3. Rising(preroll') /\ Ids(preroll') \subseteq Ids(preroll) \cup {c.id}
    BY <2>1, <2>2, RisingDrop
  <2>4. rollover' = rollover /\ rollover = <<>> /\ upstream' = upstream /\ upstream.heard = <<>>
    BY <1>1, <1>5 DEF HoldInGate, model, Inv, FlagsAgree
  <2>5. Before(upstream'.heard, preroll') /\ Before(upstream'.heard, rollover') /\ Before(preroll', rollover')
    BY <1>3, <2>4 DEF Before
  <2> QED BY <1>2, <2>3, <2>4, <2>5
<1>6. CASE OpenFails(c)
    BY <1>6 DEF OpenFails
<1>7. CASE Speak(c)
  <2>1. rollover' = rollover /\ rollover = <<>> /\ preroll' = <<>>
    BY <1>7 DEF Speak, GoesToModel, Inv, FlagsAgree
  <2>2. /\ Session \in [open : BOOLEAN, finished : BOOLEAN, events : Seq(Event), heard : Seq(Chunk)]
        /\ Session.open = TRUE /\ Session.heard = upstream.heard /\ Session.finished = FALSE
    <3>1. upstream.finished = FALSE
      BY <1>7 DEF Speak, GoesToModel, Inv, FlagsAgree, TypeOK, UpstreamType
    <3>2. CASE upstream.open
      BY <1>1, <3>1, <3>2 DEF Session, UpstreamType, Event
    <3>3. CASE ~upstream.open
      BY <1>1, <3>3, EmptySeq DEF Session, NewUpstream, NoUpstream, Event
    <3> QED BY <3>2, <3>3
  <2> DEFINE pcm == Append(preroll, c)
             fed(n) == Fed(Session, pcm, n)
  <2>3. pcm \in Seq(Chunk) /\ Rising(pcm) /\ Ids(pcm) = Ids(preroll) \cup {c.id}
    BY <1>1, <1>2, RisingAppend
  <2>4. PICK n \in 0..MaxPartials, flush \in BOOLEAN, cut \in Cuts(SilenceAfter(c)) :
            upstream' = IF cut THEN Committed(fed(n), flush) ELSE fed(n)
    BY <1>7 DEF Speak
  <2> HIDE DEF pcm
  <2>5. fed(n).open = TRUE /\ fed(n).finished = FALSE /\ fed(n).heard = upstream.heard \o pcm
    BY <2>2 DEF Fed
  <2>6. Committed(fed(n), flush).heard = upstream.heard \o pcm
    <3>1. fed(n) \in [open : BOOLEAN, finished : BOOLEAN, events : Seq(Event), heard : Seq(Chunk)]
      <4>1. n \in Nat /\ Session \in UpstreamType
        BY <2>2, LimitsAssumption DEF UpstreamType, Event
      <4> QED BY <2>3, <4>1, FedFacts DEF UpstreamType, Event
    <3> HIDE DEF fed
    <3> QED BY <2>5, <3>1 DEF Committed
  <2> HIDE DEF fed
  <2>7. upstream'.heard = upstream.heard \o pcm
    BY <2>4, <2>5, <2>6
  <2>8. Before(upstream.heard, pcm)
    BY <1>2, <2>3 DEF Before
  <2>9. Rising(upstream'.heard)
    BY <1>1, <1>2, <2>3, <2>7, <2>8, RisingConcat
  <2>10. Ids(upstream'.heard) = Ids(upstream.heard) \cup Ids(preroll) \cup {c.id}
    BY <1>1, <2>3, <2>7, IdsOfConcat
  <2>11. Rising(preroll')
    BY <2>1 DEF Rising
  <2>12. Ids(preroll') = {} /\ Ids(rollover') = {}
    BY <1>3, <2>1
  <2>13. upstream'.heard # <<>>
    BY <1>3, <2>10
  <2>14. /\ Before(upstream'.heard, preroll') /\ Before(upstream'.heard, rollover')
         /\ Before(preroll', rollover')
    BY <2>12 DEF Before
  <2> QED BY <1>2, <2>1, <2>9, <2>10, <2>11, <2>12, <2>13, <2>14
<1> QED BY <1>4, <1>5, <1>6, <1>7 DEF ProcessPcm

\* The finals are in order among themselves.
FinalsInOrder ==
    \A i \in 1..Len(finals) :
        /\ Rising(finals[i].audio)
        /\ \A j \in (i + 1)..Len(finals) : Before(finals[i].audio, finals[j].audio)

\* The numbers of the chunks that are held.
HeldIds == Ids(upstream.heard) \cup Ids(preroll) \cup Ids(rollover) \cup Ids(replay)

\* The order of all audio; every number has been given out; a session that is open has
\* heard something; and no final has completed the session.
InOrder ==
    /\ FinalsInOrder /\ HeldInOrder
    /\ \A m \in Transcribed, n \in HeldIds : m < n
    /\ Transcribed \cup HeldIds \subseteq 1..accepted
    /\ upstream.open => upstream.heard # <<>>
    /\ finals # <<>> => ~Last(finals).complete

OrderInv ==
    /\ AudioInv
    /\ pc = "start" => finals = <<>>
    /\ pc = "loop" => InOrder

\* An empty sequence has no numbers to put in order.
LEMMA NoIds == Ids(<<>>) = {} /\ Rising(<<>>)
BY DEF Ids, Rising

\* Nothing can be out of order at the beginning.
LEMMA InitOrder == Init => OrderInv
<1> SUFFICES ASSUME Init PROVE OrderInv
    OBVIOUS
<1>1. AudioInv
    BY InitAudio
<1> QED BY <1>1 DEF Init, OrderInv

\* The same audio is in the same order.
LEMMA OrderUntouched ==
    ASSUME OrderInv, UNCHANGED <<finals, preroll, rollover, replay, accepted>>,
           upstream'.heard = upstream.heard, upstream'.open = upstream.open,
           pc' = "loop" => pc = "loop", pc' = "start" => pc = "start"
    PROVE  (pc' = "start" => finals' = <<>>) /\ (pc' = "loop" => InOrder')
<1> SUFFICES ASSUME pc' = "loop" PROVE InOrder'
    BY DEF OrderInv
<1>1. InOrder
    BY DEF OrderInv
<1>2. Transcribed' = Transcribed /\ HeldIds' = HeldIds
    BY DEF Transcribed, HeldIds, Ids
<1>3. FinalsInOrder' /\ HeldInOrder'
    BY <1>1 DEF InOrder, FinalsInOrder, HeldInOrder
<1>4. finals' # <<>> => ~Last(finals').complete
    BY <1>1 DEF InOrder
<1> QED BY <1>1, <1>2, <1>3, <1>4 DEF InOrder

\* A chunk that comes after what is held and before the rest of the replay keeps the order.
LEMMA ProcessPcmKeepsOrder ==
    ASSUME OrderInv, Inv', pc = "loop", NEW c \in Chunk, ProcessPcm(c), pc' = "loop", finals' = finals,
           replay' \in Seq(Chunk), Rising(replay'), Ids(replay') \subseteq Ids(replay),
           \A m \in Ids(replay') : c.id < m,
           \A m \in Ids(upstream.heard) \cup Ids(preroll) \cup Ids(rollover) \cup Transcribed : m < c.id,
           accepted \in Nat, accepted' \in Nat, accepted <= accepted', c.id <= accepted'
    PROVE  InOrder'
<1>1. InOrder /\ AudioHeld /\ Inv
    BY DEF OrderInv, AudioInv
<1> DEFINE before == Ids(upstream.heard) \cup Ids(preroll) \cup Ids(rollover)
           after == Ids(upstream'.heard) \cup Ids(preroll') \cup Ids(rollover')
<1>2. /\ Rising(upstream'.heard) /\ Rising(preroll') /\ Rising(rollover')
      /\ Before(upstream'.heard, preroll') /\ Before(upstream'.heard, rollover')
      /\ Before(preroll', rollover')
      /\ after \subseteq before \cup {c.id}
      /\ upstream'.open => upstream'.heard # <<>>
    BY <1>1, ProcessPcmInOrder DEF InOrder
<1>3. \A m \in before, n \in Ids(replay) : m < n
    BY <1>1 DEF InOrder, HeldInOrder, Before
<1>4. \A m \in after, n \in Ids(replay') : m < n
    BY <1>2, <1>3
<1>5. HeldInOrder'
  <2>1. /\ Before(upstream'.heard, replay') /\ Before(preroll', replay') /\ Before(rollover', replay')
    BY <1>4 DEF Before
  <2> QED BY <1>2, <2>1 DEF HeldInOrder
<1>6. Transcribed' = Transcribed /\ FinalsInOrder'
    BY <1>1 DEF InOrder, FinalsInOrder, Transcribed
<1>7. HeldIds = before \cup Ids(replay) /\ HeldIds' = after \cup Ids(replay')
    BY DEF HeldIds, Ids
<1> HIDE DEF before, after
<1>8. HeldIds' \subseteq HeldIds \cup {c.id}
    BY <1>2, <1>7
<1>9. \A m \in Transcribed', n \in HeldIds' : m < n
    BY <1>1, <1>6, <1>8 DEF InOrder
<1>10. Transcribed' \cup HeldIds' \subseteq 1..accepted'
  <2>1. c.id \in 1..accepted'
    BY DEF Chunk
  <2>2. 1..accepted \subseteq 1..accepted'
    OBVIOUS
  <2> QED BY <1>1, <1>6, <1>8, <2>1, <2>2 DEF InOrder
<1>11. finals' # <<>> => ~Last(finals').complete
    BY <1>1 DEF InOrder
<1> QED BY <1>2, <1>5, <1>6, <1>9, <1>10, <1>11 DEF InOrder

\* A final behind the others keeps them in order.
LEMMA FinalBehind ==
    ASSUME TypeOK, FinalsInOrder, NEW final \in [reason : {"silence", "commit"}, complete : BOOLEAN, audio : Seq(Chunk)],
           finals' = Append(finals, final), Rising(final.audio),
           \A m \in Transcribed, n \in Ids(final.audio) : m < n
    PROVE  FinalsInOrder' /\ finals' # <<>> /\ Last(finals') = final
<1>1. /\ Len(finals) \in Nat /\ Len(finals') = Len(finals) + 1
      /\ \A i \in 1..Len(finals) : finals'[i] = finals[i]
      /\ finals'[Len(finals) + 1] = final
    BY AppendProperties DEF TypeOK
<1>2. \A i \in 1..Len(finals) : Before(finals[i].audio, final.audio)
    BY DEF Before, Transcribed
<1>3. ASSUME NEW i \in 1..Len(finals')
      PROVE  /\ Rising(finals'[i].audio)
             /\ \A j \in (i + 1)..Len(finals') : Before(finals'[i].audio, finals'[j].audio)
  <2>1. CASE i = Len(finals) + 1
    BY <1>1, <2>1
  <2>2. CASE i \in 1..Len(finals)
    <3>1. Rising(finals'[i].audio)
      BY <1>1, <2>2 DEF FinalsInOrder
    <3>2. ASSUME NEW j \in (i + 1)..Len(finals') PROVE Before(finals'[i].audio, finals'[j].audio)
      <4>1. CASE j = Len(finals) + 1
        BY <1>1, <1>2, <2>2, <4>1
      <4>2. CASE j \in (i + 1)..Len(finals)
        BY <1>1, <2>2, <4>2 DEF FinalsInOrder
      <4>3. j = Len(finals) + 1 \/ j \in (i + 1)..Len(finals)
        <5>1. Len(finals') = Len(finals) + 1 /\ Len(finals) \in Nat
          BY <1>1
        <5> QED BY <2>2, <3>2, <5>1
      <4> QED BY <4>1, <4>2, <4>3
    <3> QED BY <3>1, <3>2
  <2> QED BY <1>1, <2>1, <2>2
<1>4. FinalsInOrder'
    BY <1>3 DEF FinalsInOrder, Rising, Before, Ids
<1>5. finals' # <<>> /\ Last(finals') = final
    BY <1>1, EmptySeq DEF Last
<1> QED BY <1>4, <1>5

\* Every step keeps the order: one case for each way audio is moved.
LEMMA NextOrder == OrderInv /\ [Next]_vars => OrderInv'
<1> SUFFICES ASSUME OrderInv, [Next]_vars PROVE OrderInv'
    OBVIOUS
<1>0. AudioInv' /\ Inv' /\ Inv /\ TypeOK /\ AudioHeld
    BY NextAudio DEF OrderInv, AudioInv, Inv
<1>1. CASE Refuse \/ BrowserRejected \/ BrowserEnd \/ BrowserDisconnect \/ UpstreamError
           \/ SendRaises \/ WakeUpstream \/ WakeBrowser \/ ClientLeaves \/ UNCHANGED vars
  <2>1. UNCHANGED <<finals, preroll, rollover, replay, accepted, upstream>>
    BY <1>1 DEF Refuse, BrowserRejected, BrowserEnd, BrowserDisconnect, UpstreamError, SendRaises,
                WakeUpstream, WakeBrowser, Wake, ClientLeaves, vars, audio, model, client
  <2>2. (pc' = "loop" => pc = "loop") /\ (pc' = "start" => pc = "start")
    BY <1>1 DEF Refuse, BrowserRejected, BrowserEnd, BrowserDisconnect, UpstreamError, SendRaises,
                WakeUpstream, WakeBrowser, Wake, ClientLeaves, vars
  <2> QED BY <1>0, <2>1, <2>2, OrderUntouched DEF OrderInv
<1>2. CASE StartSession
  <2>1. UNCHANGED <<finals, preroll, rollover, replay, accepted, upstream>> /\ pc = "start" /\ pc' # "start"
    BY <1>2 DEF StartSession, audio, model, client
  <2>2. /\ finals = <<>> /\ upstream = NoUpstream /\ preroll = <<>> /\ rollover = <<>> /\ replay = <<>>
    BY <1>0, <2>1 DEF OrderInv, Inv, StartsEmpty
  <2>3. /\ finals' = <<>> /\ upstream'.heard = <<>> /\ ~upstream'.open
        /\ preroll' = <<>> /\ rollover' = <<>> /\ replay' = <<>>
    BY <2>1, <2>2 DEF NoUpstream
  <2>4. FinalsInOrder' /\ Transcribed' = {}
    BY <2>3 DEF FinalsInOrder, Transcribed
  <2>5. HeldIds' = {}
    BY <2>3, NoIds DEF HeldIds, Ids
  <2>6. HeldInOrder'
    BY <2>3, NoIds DEF HeldInOrder, Before
  <2>7. InOrder'
    BY <2>3, <2>4, <2>5, <2>6 DEF InOrder
  <2> QED BY <1>0, <2>1, <2>7 DEF OrderInv
<1>3. CASE UpstreamBreaks \/ UpstreamPartial
  <2>1. UNCHANGED <<finals, preroll, rollover, replay, accepted, pc>>
    BY <1>3 DEF UpstreamBreaks, UpstreamPartial, audio, client
  <2>2. upstream'.heard = upstream.heard /\ upstream'.open = upstream.open
    <3>1. upstream \in UpstreamType
      BY <1>0 DEF TypeOK
    <3>2. CASE UpstreamBreaks
      BY <3>1, <3>2 DEF UpstreamBreaks, UpstreamType
    <3>3. CASE UpstreamPartial
      BY <3>1, <3>3 DEF UpstreamPartial, UpstreamType
    <3> QED BY <1>3, <3>2, <3>3
  <2> QED BY <1>0, <2>1, <2>2, OrderUntouched DEF OrderInv
<1>4. CASE BrowserCommit
  <2>1. UNCHANGED <<finals, preroll, rollover, replay, accepted>>
    BY <1>4 DEF BrowserCommit, audio, client
  <2>2. upstream'.heard = upstream.heard /\ upstream'.open = upstream.open
    <3>1. upstream \in UpstreamType
      BY <1>0 DEF TypeOK
    <3>2. \A flush \in BOOLEAN : /\ Committed(upstream, flush).heard = upstream.heard
                                 /\ Committed(upstream, flush).open = upstream.open
      BY <3>1 DEF Committed, UpstreamType
    <3> QED BY <1>4, <3>2 DEF BrowserCommit
  <2>3. pc = "loop" /\ pc' # "start"
    BY <1>4 DEF BrowserCommit, BrowserTurn
  <2> QED BY <1>0, <2>1, <2>2, <2>3, OrderUntouched DEF OrderInv
<1>5. CASE BrowserCommitEmpty \/ CloseSession
  <2>1. pc' \in {"finally", "closed"}
    BY <1>5 DEF BrowserCommitEmpty, CloseSession
  <2> QED BY <1>0, <2>1 DEF OrderInv
<1>6. CASE BrowserAudio
  <2>1. PICK s \in Sounds : ProcessPcm([id |-> accepted', speech |-> s.speech, len |-> s.len])
    BY <1>6 DEF BrowserAudio
  <2> DEFINE c == [id |-> accepted', speech |-> s.speech, len |-> s.len]
  <2>2. /\ pc = "loop" /\ ProcessPcm(c) /\ c \in Chunk /\ c.id = accepted + 1
        /\ accepted \in Nat /\ accepted' = accepted + 1 /\ finals' = finals /\ replay' = replay
        /\ "browser" \in done
    <3>1. accepted' \in 1..MaxChunks /\ accepted \in Nat
      BY <1>0, <1>6, LimitsAssumption DEF BrowserAudio, TypeOK
    <3> QED BY <1>6, <2>1, <3>1, SoundsAssumption DEF BrowserAudio, BrowserTurn, Chunk
  <2> HIDE DEF c
  <2>3. replay' = <<>> /\ replay' \in Seq(Chunk) /\ Ids(replay') = {} /\ Rising(replay')
    BY <1>0, <2>2, NoIds, EmptySeq DEF Inv, FlagsAgree
  <2>4. pc' \in {"loop", "finally"}
    BY <1>0, <2>2, ProcessPcmFacts
  <2>5. \A m \in Ids(upstream.heard) \cup Ids(preroll) \cup Ids(rollover) \cup Transcribed : m < c.id
    BY <2>2 DEF OrderInv, InOrder, HeldIds
  <2>6. ASSUME pc' = "loop" PROVE InOrder'
    BY <1>0, <2>2, <2>3, <2>5, <2>6, ProcessPcmKeepsOrder
  <2> QED BY <1>0, <2>4, <2>6 DEF OrderInv
<1>7. CASE ReplayChunk
  <2> DEFINE c == Head(replay)
  <2>1. /\ pc = "loop" /\ ProcessPcm(c) /\ replay # <<>> /\ replay \in Seq(Chunk)
        /\ UNCHANGED <<finals, accepted>> /\ replay' = Tail(replay) /\ accepted \in Nat
    BY <1>0, <1>7, LimitsAssumption DEF ReplayChunk, TypeOK, client
  <2>2. InOrder
    BY <2>1 DEF OrderInv
  <2>3. /\ replay' \in Seq(Chunk) /\ Rising(replay') /\ c \in Chunk
        /\ Ids(replay) = {c.id} \cup Ids(replay') /\ \A m \in Ids(replay') : c.id < m
    BY <2>1, <2>2, RisingTail DEF InOrder, HeldInOrder
  <2> HIDE DEF c
  <2>4. \A m \in Ids(upstream.heard) \cup Ids(preroll) \cup Ids(rollover) \cup Transcribed : m < c.id
    BY <2>2, <2>3 DEF InOrder, HeldInOrder, Before, HeldIds
  <2>5. c.id <= accepted
    BY <2>1, <2>2, <2>3 DEF InOrder, HeldIds
  <2>6. pc' \in {"loop", "finally"}
    BY <1>0, <2>1, <2>3, ProcessPcmFacts
  <2>7. ASSUME pc' = "loop" PROVE InOrder'
    BY <1>0, <2>1, <2>3, <2>4, <2>5, <2>7, ProcessPcmKeepsOrder
  <2> QED BY <1>0, <2>6, <2>7 DEF OrderInv
<1>8. CASE UpstreamDone
  <2>1. /\ upstream.heard \in Seq(Chunk) /\ clientCommitted \in BOOLEAN /\ pc = "loop"
        /\ done # {} /\ replay = <<>>
    BY <1>0, <1>8 DEF UpstreamDone, UpstreamTurn, Inv, TypeOK, UpstreamType, FlagsAgree
  <2>2. CASE clientCommitted
    BY <1>0, <1>8, <2>2 DEF UpstreamDone, OrderInv
  <2>3. CASE ~clientCommitted
    <3>1. InOrder
      BY <2>1 DEF OrderInv
    <3> DEFINE final == [reason |-> "silence", complete |-> FALSE, audio |-> upstream.heard]
    <3>2. /\ final \in [reason : {"silence", "commit"}, complete : BOOLEAN, audio : Seq(Chunk)]
          /\ final.audio = upstream.heard /\ ~final.complete
      BY <2>1
    <3>3. finals' = Append(finals, final)
      BY <1>8, <2>1, <2>3 DEF UpstreamDone
    <3> HIDE DEF final
    <3>4. Transcribed' = Transcribed \cup Ids(upstream.heard)
      BY <1>0, <3>2, <3>3, TranscribedGrows
    <3>5. FinalsInOrder' /\ finals' # <<>> /\ Last(finals') = final
      BY <1>0, <3>1, <3>2, <3>3, FinalBehind DEF InOrder, HeldInOrder, HeldIds
    <3>6. /\ upstream'.heard = <<>> /\ ~upstream'.open /\ preroll' = <<>> /\ rollover' = <<>>
          /\ replay' = rollover /\ accepted' = accepted /\ pc' = pc
      BY <1>8, <2>3 DEF UpstreamDone, NoUpstream, client
    <3>7. HeldIds' = Ids(rollover)
      BY <3>6, NoIds DEF HeldIds, Ids
    <3>8. HeldInOrder'
      BY <3>1, <3>6, NoIds DEF InOrder, HeldInOrder, Before
    <3>9. \A m \in Transcribed', n \in HeldIds' : m < n
      BY <3>1, <3>4, <3>7 DEF InOrder, HeldInOrder, Before, HeldIds
    <3>10. Transcribed' \cup HeldIds' \subseteq 1..accepted'
      BY <3>1, <3>4, <3>6, <3>7 DEF InOrder, HeldIds
    <3>11. InOrder'
      BY <3>2, <3>5, <3>6, <3>8, <3>9, <3>10 DEF InOrder
    <3> QED BY <1>0, <2>1, <3>6, <3>11 DEF OrderInv
  <2> QED BY <2>1, <2>2, <2>3
<1> QED BY <1>1, <1>2, <1>3, <1>4, <1>5, <1>6, <1>7, <1>8 DEF Next, Browser, Upstream, Closed

\* The sequences AudioInOrder looks at, one after the other.
LEMMA PartsInOrder ==
    ASSUME TypeOK, InOrder
    PROVE  AudioInOrder
<1> DEFINE n == Len(finals)
           first == [i \in 1..n |-> finals[i].audio]
           rest == <<upstream.heard, preroll, rollover, replay>>
           parts == first \o rest
           Chunks == Seq(Chunk)
<1>1. n \in Nat /\ \A i \in 1..n : finals[i].audio \in Chunks
  <2>1. finals \in Seq([reason : {"silence", "commit"}, complete : BOOLEAN, audio : Seq(Chunk)])
    BY DEF TypeOK
  <2>2. \A i \in 1..n : finals[i] \in [reason : {"silence", "commit"}, complete : BOOLEAN, audio : Seq(Chunk)]
    BY <2>1, ElementOfSeq
  <2> QED BY <2>1, <2>2, LenProperties
<1>2. upstream.heard \in Chunks /\ preroll \in Chunks /\ rollover \in Chunks /\ replay \in Chunks
    BY DEF TypeOK, UpstreamType
<1> HIDE DEF n, Chunks
<1>3. first \in Seq(Chunks) /\ Len(first) = n /\ \A i \in 1..n : first[i] = finals[i].audio
    BY <1>1, IsASeq
<1>4. /\ rest \in Seq(Chunks) /\ Len(rest) = 4
      /\ rest[1] = upstream.heard /\ rest[2] = preroll /\ rest[3] = rollover /\ rest[4] = replay
    BY <1>2
<1> HIDE DEF first, rest
<1>5. /\ Len(parts) = n + 4
      /\ \A i \in 1..n : parts[i] = finals[i].audio
      /\ parts[n + 1] = upstream.heard /\ parts[n + 2] = preroll
      /\ parts[n + 3] = rollover /\ parts[n + 4] = replay
  <2>1. /\ Len(parts) = Len(first) + Len(rest)
        /\ \A i \in 1..(Len(first) + Len(rest)) :
              parts[i] = IF i <= Len(first) THEN first[i] ELSE rest[i - Len(first)]
    BY <1>3, <1>4, ConcatProperties
  <2> HIDE DEF parts
  <2>2. \A i \in 1..n : parts[i] = first[i]
    BY <1>1, <1>3, <1>4, <2>1
  <2>3. \A i \in {1, 2, 3, 4} : parts[n + i] = rest[i]
    <3>1. ASSUME NEW i \in {1, 2, 3, 4} PROVE n + i \in 1..(n + 4) /\ ~(n + i <= n) /\ (n + i) - n = i
      BY <1>1, <3>1
    <3> QED BY <1>3, <1>4, <2>1, <3>1
  <2> QED BY <1>3, <1>4, <2>1, <2>2, <2>3
<1> HIDE DEF parts
<1>6. ASSUME NEW p \in 1..Len(parts), NEW q \in (p + 1)..Len(parts)
      PROVE  Before(parts[p], parts[q])
  <2>1. CASE q \in 1..n
    <3>1. p \in 1..n /\ q \in (p + 1)..n
      BY <1>1, <2>1
    <3>2. Before(finals[p].audio, finals[q].audio)
      BY <3>1 DEF InOrder, FinalsInOrder, n
    <3> QED BY <1>5, <2>1, <3>1, <3>2
  <2>2. CASE p \in 1..n /\ q \notin 1..n
    <3>1. Ids(parts[p]) \subseteq Transcribed
      BY <1>5, <2>2 DEF Transcribed, n
    <3>2. q = n + 1 \/ q = n + 2 \/ q = n + 3 \/ q = n + 4
      BY <1>1, <1>5, <2>2
    <3>3. Ids(parts[q]) \subseteq HeldIds
      BY <1>5, <3>2 DEF HeldIds
    <3> QED BY <3>1, <3>3 DEF InOrder, Before
  <2>3. CASE p \notin 1..n
    <3>1. \/ p = n + 1 /\ (q = n + 2 \/ q = n + 3 \/ q = n + 4)
          \/ p = n + 2 /\ (q = n + 3 \/ q = n + 4)
          \/ p = n + 3 /\ q = n + 4
      BY <1>1, <1>5, <2>3
    <3> QED BY <1>5, <3>1 DEF InOrder, HeldInOrder
  <2> QED BY <1>1, <2>1, <2>2, <2>3
<1>7. ASSUME NEW p \in 1..Len(parts) PROVE Rising(parts[p])
  <2>1. CASE p \in 1..n
    BY <1>5, <2>1 DEF InOrder, FinalsInOrder, n
  <2>2. CASE p = n + 1 \/ p = n + 2 \/ p = n + 3 \/ p = n + 4
    BY <1>5, <2>2 DEF InOrder, HeldInOrder
  <2> QED BY <1>1, <1>5, <2>1, <2>2
<1> QED BY <1>6, <1>7 DEF AudioInOrder, parts, first, rest, n

\* Finals, open session and buffers stay in order, with all that this rests on.
THEOREM OrderHolds == Spec => []OrderInv
<1>1. Init => OrderInv
    BY InitOrder
<1>2. OrderInv /\ [Next]_vars => OrderInv'
    BY NextOrder
<1> QED BY <1>1, <1>2, PTL DEF Spec

\* The audio in every final, in the open model session and in the buffers is in the order
\* in which it was sent, through every cut, replay and overflow.
THEOREM AudioStaysInOrder == Spec => []AudioInOrder
<1>1. OrderInv => AudioInOrder
  <2>1. CASE pc = "loop"
    BY <2>1, PartsInOrder DEF OrderInv, AudioInv, Inv
  <2>2. CASE pc # "loop"
    BY <2>2 DEF AudioInOrder
  <2> QED BY <2>1, <2>2
<1> QED BY <1>1, OrderHolds, PTL

-----------------------------------------------------------------------------
(* The session keeps the promise of TranscriptStream.                        *)

\* A final is one more segment, and makes of the session what it says it does.
LEMMA SegmentAdded ==
    ASSUME TypeOK, NEW reason, NEW complete, NEW pcm,
           finals' = Append(finals, [reason |-> reason, complete |-> complete, audio |-> pcm])
    PROVE  /\ Segments' = Append(Segments, [reason |-> reason, audio |-> Ids(pcm)])
           /\ finals' # <<>> /\ Last(finals').complete = complete
<1> DEFINE final == [reason |-> reason, complete |-> complete, audio |-> pcm]
           n == Len(finals)
           segment(f) == [reason |-> f.reason, audio |-> Ids(f.audio)]
<1>1. /\ n \in Nat /\ Len(finals') = n + 1 /\ finals'[n + 1] = final
      /\ \A i \in 1..n : finals'[i] = finals[i]
    BY AppendProperties DEF TypeOK
<1>2. /\ DOMAIN Segments = 1..n /\ Len(Segments) = n
      /\ Segments = [i \in 1..n |-> segment(finals[i])]
      /\ \A i \in 1..n : Segments[i] = segment(finals[i])
    BY <1>1 DEF Segments
<1>3. Segments' = [i \in 1..(n + 1) |-> segment(finals'[i])]
    BY <1>1 DEF Segments, Ids
<1>4. segment(final) = [reason |-> reason, audio |-> Ids(pcm)]
    OBVIOUS
<1> HIDE DEF n, segment, final
<1>5. Append(Segments, segment(final)) = [i \in 1..(n + 1) |-> IF i = n + 1 THEN segment(final) ELSE Segments[i]]
    BY <1>1, <1>2
<1>6. \A i \in 1..(n + 1) : segment(finals'[i]) = IF i = n + 1 THEN segment(final) ELSE Segments[i]
    BY <1>1, <1>2
<1>7. Segments' = Append(Segments, segment(final))
    BY <1>3, <1>5, <1>6
<1>8. finals' # <<>> /\ Last(finals') = final
    BY <1>1, EmptySeq DEF Last
<1> QED BY <1>4, <1>7, <1>8 DEF final

\* What a client is promised does not change with what no client sees.
LEMMA SameSegments == finals' = finals => Segments' = Segments
BY DEF Segments, Ids

\* While the loop runs nothing has ended, and all audio that is not in a final is fresh.
LEMMA StillOpen ==
    ASSUME OrderInv, pc \in {"start", "loop"}
    PROVE  /\ Ended = "no"
           /\ pc = "loop" => Ids(upstream.heard) \subseteq Promise!Fresh
<1>1. finals # <<>> => ~Last(finals).complete
    BY DEF OrderInv, InOrder
<1>2. Ended = "no"
    BY <1>1 DEF Ended
<1>3. ASSUME pc = "loop", NEW k \in Ids(upstream.heard) PROVE k \in Promise!Fresh
  <2>1. k \in 1..accepted /\ \A m \in Transcribed : m < k
    BY <1>3 DEF OrderInv, InOrder, HeldIds
  <2>2. ASSUME NEW i \in DOMAIN Segments, NEW m \in Segments[i].audio PROVE m < k
    <3>1. i \in 1..Len(finals) /\ Segments[i].audio = Ids(finals[i].audio)
      BY DEF Segments
    <3> QED BY <2>1, <2>2, <3>1 DEF Transcribed
  <2> QED BY <2>1, <2>2 DEF Promise!Fresh
<1> QED BY <1>2, <1>3

\* The end without a final is a break; once it is there it stays as it is.
LEMMA BreaksOff ==
    ASSUME OrderInv, pc \in {"start", "loop"}, pc' \in {"finally", "closed"}, finals' = finals,
           accepted' \in {accepted, accepted + 1}
    PROVE  Promise!Break
<1>1. Ended = "no"
    BY StillOpen
<1>2. finals' # <<>> => ~Last(finals').complete
    BY DEF OrderInv, InOrder
<1>3. Ended' = "broken"
    BY <1>2 DEF Ended
<1> QED BY <1>1, <1>3, SameSegments DEF Promise!Break

\* A step that leaves the finals, the chunks taken and the end alone is a stutter.
LEMMA NothingSeen ==
    ASSUME finals' = finals, accepted' = accepted,
           \/ pc' \in {"start", "loop"} /\ pc \in {"start", "loop"}
           \/ pc' \in {"finally", "closed"} /\ pc \in {"finally", "closed"}
    PROVE  UNCHANGED Promise!vars
<1>1. Ended' = Ended
    BY DEF Ended
<1> QED BY <1>1, SameSegments DEF Promise!vars

\* The initial states are those of the promise.
LEMMA InitPromise == Init => Promise!Init
<1> SUFFICES ASSUME Init PROVE Promise!Init
    OBVIOUS
<1>1. accepted = 0 /\ finals = <<>> /\ pc = "start"
    BY DEF Init
<1>2. Segments = <<>>
    BY <1>1 DEF Segments
<1>3. Ended = "no"
    BY <1>1 DEF Ended
<1> QED BY <1>1, <1>2, <1>3 DEF Promise!Init

\* Every step of handle_stream is a step of the promise, or none.
LEMMA NextPromise == OrderInv /\ [Next]_vars => [Promise!Next]_(Promise!vars)
<1> SUFFICES ASSUME OrderInv, [Next]_vars PROVE Promise!Next \/ UNCHANGED Promise!vars
    OBVIOUS
<1>0. TypeOK /\ Inv /\ AudioHeld /\ pc \in {"start", "loop", "finally", "closed"}
    BY DEF OrderInv, AudioInv, Inv, TypeOK
<1>1. CASE Refuse \/ BrowserRejected \/ BrowserEnd \/ BrowserDisconnect \/ UpstreamError
           \/ SendRaises \/ WakeUpstream \/ WakeBrowser \/ ClientLeaves \/ UpstreamBreaks
           \/ UpstreamPartial \/ BrowserCommit \/ StartSession \/ CloseSession \/ UNCHANGED vars
  <2>1. finals' = finals /\ accepted' = accepted
    BY <1>1 DEF Refuse, BrowserRejected, BrowserEnd, BrowserDisconnect, UpstreamError, SendRaises,
                WakeUpstream, WakeBrowser, Wake, ClientLeaves, UpstreamBreaks, UpstreamPartial,
                BrowserCommit, StartSession, CloseSession, vars, client
  <2>2. \/ pc' = pc
        \/ pc \in {"start", "loop"} /\ pc' \in {"finally", "closed"}
        \/ pc = "start" /\ pc' = "loop"
        \/ pc = "finally" /\ pc' = "closed"
    BY <1>1 DEF Refuse, BrowserRejected, BrowserEnd, BrowserDisconnect, UpstreamError, SendRaises,
                WakeUpstream, WakeBrowser, Wake, ClientLeaves, UpstreamBreaks, UpstreamPartial,
                BrowserCommit, StartSession, CloseSession, vars, BrowserTurn, UpstreamTurn
  <2>3. CASE pc \in {"start", "loop"} /\ pc' \in {"finally", "closed"}
    BY <2>1, <2>3, BreaksOff DEF Promise!Next
  <2>4. CASE ~(pc \in {"start", "loop"} /\ pc' \in {"finally", "closed"})
    BY <1>0, <2>1, <2>2, <2>4, NothingSeen
  <2> QED BY <2>3, <2>4
<1>2. CASE BrowserAudio
  <2>1. PICK s \in Sounds : ProcessPcm([id |-> accepted', speech |-> s.speech, len |-> s.len])
    BY <1>2 DEF BrowserAudio
  <2> DEFINE c == [id |-> accepted', speech |-> s.speech, len |-> s.len]
  <2>2. /\ pc = "loop" /\ ProcessPcm(c) /\ c \in Chunk
        /\ accepted' = accepted + 1 /\ finals' = finals
    <3>1. accepted' \in 1..MaxChunks
      BY <1>0, <1>2, LimitsAssumption DEF BrowserAudio, TypeOK
    <3> QED BY <1>2, <2>1, <3>1, SoundsAssumption DEF BrowserAudio, BrowserTurn, Chunk
  <2> HIDE DEF c
  <2>3. pc' \in {"loop", "finally"}
    BY <1>0, <2>2, ProcessPcmFacts
  <2>4. CASE pc' = "finally"
    BY <2>2, <2>4, BreaksOff DEF Promise!Next
  <2>5. CASE pc' = "loop"
    <3>1. Ended = "no"
      BY <2>2, StillOpen
    <3>2. Ended' = "no"
      BY <2>2, <2>5, <3>1 DEF Ended
    <3> QED BY <2>2, <3>1, <3>2, SameSegments DEF Promise!Next, Promise!Hear
  <2> QED BY <2>3, <2>4, <2>5
<1>3. CASE ReplayChunk
  <2>1. /\ pc = "loop" /\ ProcessPcm(Head(replay)) /\ Head(replay) \in Chunk
        /\ accepted' = accepted /\ finals' = finals
    BY <1>0, <1>3, HeadTailProperties DEF ReplayChunk, TypeOK, client
  <2>2. pc' \in {"loop", "finally"}
    BY <1>0, <2>1, ProcessPcmFacts
  <2>3. CASE pc' = "finally"
    BY <2>1, <2>3, BreaksOff DEF Promise!Next
  <2>4. CASE pc' = "loop"
    BY <2>1, <2>4, NothingSeen
  <2> QED BY <2>2, <2>3, <2>4
<1>4. CASE BrowserCommitEmpty
  <2>1. /\ pc = "loop" /\ accepted' = accepted
        /\ finals' = Append(finals, [reason |-> "commit", complete |-> TRUE, audio |-> <<>>])
    BY <1>4 DEF BrowserCommitEmpty, BrowserTurn, client
  <2>2. Ended = "no"
    BY <2>1, StillOpen
  <2>3. /\ Segments' = Append(Segments, [reason |-> "commit", audio |-> Ids(<<>>)])
        /\ finals' # <<>> /\ Last(finals').complete
    BY <1>0, <2>1, SegmentAdded
  <2>4. Ended' = "complete"
    BY <2>3 DEF Ended
  <2>5. Ids(<<>>) \in SUBSET Promise!Fresh
    BY NoIds
  <2>6. Promise!Complete
    BY <2>1, <2>2, <2>3, <2>4, <2>5 DEF Promise!Complete
  <2> QED BY <2>6 DEF Promise!Next
<1>5. CASE UpstreamDone
  <2>1. /\ pc = "loop" /\ accepted' = accepted /\ clientCommitted \in BOOLEAN
        /\ finals' = Append(finals, [reason |-> IF clientCommitted THEN "commit" ELSE "silence",
                                     complete |-> clientCommitted, audio |-> upstream.heard])
        /\ pc' = IF clientCommitted THEN "finally" ELSE "loop"
    BY <1>0, <1>5 DEF UpstreamDone, UpstreamTurn, TypeOK, client
  <2>2. Ended = "no" /\ Ids(upstream.heard) \in SUBSET Promise!Fresh
    BY <2>1, StillOpen
  <2>3. /\ Segments' = Append(Segments, [reason |-> IF clientCommitted THEN "commit" ELSE "silence",
                                         audio |-> Ids(upstream.heard)])
        /\ finals' # <<>> /\ Last(finals').complete = clientCommitted
    BY <1>0, <2>1, SegmentAdded
  <2>4. CASE clientCommitted
    <3>1. Ended' = "complete"
      BY <2>3, <2>4 DEF Ended
    <3>2. Promise!Complete
      BY <2>1, <2>2, <2>3, <2>4, <3>1 DEF Promise!Complete
    <3> QED BY <3>2 DEF Promise!Next
  <2>5. CASE ~clientCommitted
    <3>1. Ended' = "no"
      BY <2>1, <2>3, <2>5 DEF Ended
    <3>2. upstream.open
      BY <1>0, <1>5 DEF UpstreamDone, UpstreamTurn, Inv, FlagsAgree
    <3>3. upstream.heard # <<>> /\ upstream.heard \in Seq(Chunk)
      BY <1>0, <2>1, <3>2 DEF OrderInv, InOrder, TypeOK, UpstreamType
    <3>4. Ids(upstream.heard) # {}
      <4>1. 1 \in 1..Len(upstream.heard)
        BY <3>3
      <4> QED BY <4>1 DEF Ids
    <3>5. Promise!Segment
      BY <2>1, <2>2, <2>3, <2>5, <3>1, <3>4 DEF Promise!Segment
    <3> QED BY <3>5 DEF Promise!Next
  <2> QED BY <2>1, <2>4, <2>5
<1> QED BY <1>1, <1>2, <1>3, <1>4, <1>5 DEF Next, Browser, Upstream, Closed

\* Whatever the client, the model and the network do, a client sees what TranscriptStream
\* promises: segments in the order of the audio, none that overlaps another, and nothing
\* after the final that completes the session.
THEOREM PromiseIsKept == Spec => KeepsPromise
<1>1. Init => Promise!Init
    BY InitPromise
<1>2. OrderInv /\ [Next]_vars => [Promise!Next]_(Promise!vars)
    BY NextPromise
<1> QED BY <1>1, <1>2, OrderHolds, PTL DEF Spec, KeepsPromise, Promise!Spec

-----------------------------------------------------------------------------
(* A segment is cut for silence when the pause is long enough.               *)

\* A set of naturals has a least element.
LEMMA LeastNumber ==
    ASSUME NEW T, T \subseteq Nat, T # {}
    PROVE  \E n \in T : \A m \in T : n <= m
<1>1. PICK n \in T : \A m \in T : <<m, n>> \notin OpToRel(<, Nat)
    BY WFMin, NatLessThanWellFounded
<1>2. \A m \in T : ~(m < n)
    BY <1>1 DEF OpToRel
<1> QED BY <1>2

\* Induction on numbers, for a set instead of an operator.
LEMMA AllNumbers ==
    ASSUME NEW T, 0 \in T, \A n \in Nat : n \in T => n + 1 \in T
    PROVE  Nat \subseteq T
<1> SUFFICES ASSUME Nat \ T # {} PROVE FALSE
    OBVIOUS
<1>1. PICK n \in Nat \ T : \A m \in Nat \ T : n <= m
    BY LeastNumber
<1>2. n - 1 \in Nat /\ n - 1 \notin Nat \ T
    BY <1>1
<1> QED BY <1>1, <1>2

\* The pauses at the ends of the first 0 to n chunks of a sequence.
Pauses(f, s, n) == \A i \in 0..n : f[i] = IF i = 0 \/ s[i].speech THEN 0 ELSE f[i - 1] + s[i].len

\* Every sequence has its pauses.
LEMMA PausesExist ==
    ASSUME NEW s \in Seq(Chunk)
    PROVE  \A n \in Nat : n <= Len(s) => \E f \in [0..n -> Nat] : Pauses(f, s, n)
<1> DEFINE T == {n \in Nat : n <= Len(s) => \E f \in [0..n -> Nat] : Pauses(f, s, n)}
<1>1. 0 \in T
  <2>1. [i \in 0..0 |-> 0] \in [0..0 -> Nat] /\ Pauses([i \in 0..0 |-> 0], s, 0)
    BY DEF Pauses
  <2> QED BY <2>1
<1>2. ASSUME NEW n \in Nat, n \in T PROVE n + 1 \in T
  <2> SUFFICES ASSUME n + 1 <= Len(s) PROVE \E g \in [0..(n + 1) -> Nat] : Pauses(g, s, n + 1)
    OBVIOUS
  <2>1. PICK f \in [0..n -> Nat] : Pauses(f, s, n)
    BY <1>2
  <2> DEFINE x == IF s[n + 1].speech THEN 0 ELSE f[n] + s[n + 1].len
             g == [i \in 0..(n + 1) |-> IF i <= n THEN f[i] ELSE x]
  <2>2. x \in Nat
    <3>1. n + 1 \in 1..Len(s)
      OBVIOUS
    <3>2. s[n + 1] \in Chunk
      BY <3>1
    <3> QED BY <3>2 DEF Chunk
  <2> HIDE DEF x
  <2>3. g \in [0..(n + 1) -> Nat] /\ g[n + 1] = x /\ \A i \in 0..n : g[i] = f[i]
    BY <2>2
  <2> HIDE DEF g
  <2>4. ASSUME NEW i \in 0..(n + 1)
        PROVE  g[i] = IF i = 0 \/ s[i].speech THEN 0 ELSE g[i - 1] + s[i].len
    <3>1. CASE i \in 0..n
      <4>1. i # 0 => i - 1 \in 0..n
        BY <3>1
      <4> QED BY <2>1, <2>3, <3>1, <4>1 DEF Pauses
    <3>2. CASE i = n + 1
      BY <2>3, <3>2 DEF x
    <3> QED BY <3>1, <3>2
  <2> QED BY <2>3, <2>4 DEF Pauses
<1> HIDE DEF T
<1>3. Nat \subseteq T
    BY <1>1, <1>2, AllNumbers
<1> QED BY <1>3 DEF T

\* They depend on those chunks only.
LEMMA PausesUnique ==
    ASSUME NEW f, NEW g, NEW s, NEW t, NEW n \in Nat, Pauses(f, s, n), Pauses(g, t, n),
           \A i \in 1..n : s[i] = t[i]
    PROVE  \A i \in 0..n : f[i] = g[i]
<1> DEFINE T == {i \in Nat : i <= n => f[i] = g[i]}
<1>1. 0 \in T
    BY DEF Pauses
<1>2. ASSUME NEW i \in Nat, i \in T PROVE i + 1 \in T
  <2> SUFFICES ASSUME i + 1 <= n PROVE f[i + 1] = g[i + 1]
    OBVIOUS
  <2>1. f[i] = g[i] /\ s[i + 1] = t[i + 1]
    BY <1>2
  <2>2. /\ i + 1 \in 0..n /\ i + 1 # 0 /\ (i + 1) - 1 = i
    OBVIOUS
  <2>3. /\ f[i + 1] = IF s[i + 1].speech THEN 0 ELSE f[i] + s[i + 1].len
        /\ g[i + 1] = IF t[i + 1].speech THEN 0 ELSE g[i] + t[i + 1].len
    BY <2>2 DEF Pauses
  <2> QED BY <2>1, <2>3
<1> HIDE DEF T
<1>3. Nat \subseteq T
    BY <1>1, <1>2, AllNumbers
<1> QED BY <1>3 DEF T

\* The pause of a sequence is the one at its last chunk.
LEMMA PauseIsLast ==
    ASSUME NEW s \in Seq(Chunk), NEW f \in [0..Len(s) -> Nat], Pauses(f, s, Len(s))
    PROVE  PauseBytes(s) = f[Len(s)]
<1> DEFINE Q(g) == g = [n \in 0..Len(s) |-> IF n = 0 \/ s[n].speech THEN 0 ELSE g[n - 1] + s[n].len]
           p == CHOOSE g : Q(g)
<1>1. Q(f)
    BY DEF Pauses
<1>2. Q(p)
    BY <1>1
<1>3. PauseBytes(s) = p[Len(s)]
    BY DEF PauseBytes
<1> HIDE DEF p
<1>4. Pauses(p, s, Len(s))
    BY <1>2 DEF Pauses
<1>5. \A i \in 0..Len(s) : f[i] = p[i]
    BY <1>4, PausesUnique
<1> QED BY <1>3, <1>5

\* What one more chunk makes of the pause: the count the code keeps.
LEMMA PauseGrows ==
    ASSUME NEW s \in Seq(Chunk), NEW c \in Chunk
    PROVE  /\ PauseBytes(s) \in Nat
           /\ PauseBytes(Append(s, c)) = IF c.speech THEN 0 ELSE PauseBytes(s) + c.len
<1> DEFINE t == Append(s, c)
<1>1. /\ t \in Seq(Chunk) /\ Len(t) = Len(s) + 1 /\ t[Len(s) + 1] = c
      /\ \A i \in 1..Len(s) : s[i] = t[i]
    BY AppendProperties
<1> HIDE DEF t
<1>2. PICK f \in [0..Len(s) -> Nat] : Pauses(f, s, Len(s))
  <2>1. Len(s) \in Nat /\ Len(s) <= Len(s)
    OBVIOUS
  <2> QED BY <2>1, PausesExist
<1>3. PICK g \in [0..Len(t) -> Nat] : Pauses(g, t, Len(t))
  <2>1. Len(t) \in Nat /\ Len(t) <= Len(t)
    BY <1>1
  <2> QED BY <1>1, <2>1, PausesExist
<1>4. PauseBytes(s) = f[Len(s)] /\ PauseBytes(t) = g[Len(t)]
    BY <1>1, <1>2, <1>3, PauseIsLast
<1>5. Pauses(g, t, Len(s))
    BY <1>1, <1>3 DEF Pauses
<1>6. f[Len(s)] = g[Len(s)]
  <2> DEFINE n == Len(s)
  <2>1. n \in Nat /\ n \in 0..n
    OBVIOUS
  <2>2. Pauses(f, s, n) /\ Pauses(g, t, n) /\ \A i \in 1..n : s[i] = t[i]
    BY <1>1, <1>2, <1>5
  <2> HIDE DEF n
  <2>3. \A i \in 0..n : f[i] = g[i]
    BY <2>1, <2>2, PausesUnique
  <2>4. f[n] = g[n]
    BY <2>1, <2>3
  <2> QED BY <2>4 DEF n
<1>7. g[Len(t)] = IF c.speech THEN 0 ELSE g[Len(s)] + c.len
  <2>1. Len(t) \in 0..Len(t) /\ Len(t) # 0 /\ Len(t) - 1 = Len(s) /\ t[Len(t)] = c
    BY <1>1
  <2> QED BY <1>3, <2>1 DEF Pauses
<1> QED BY <1>4, <1>6, <1>7 DEF t

\* Nothing said yet, no pause.
LEMMA NoPause == PauseBytes(<<>>) = 0
<1>1. <<>> \in Seq(Chunk) /\ Len(<<>>) = 0
    BY EmptySeq
<1> DEFINE f == [i \in 0..0 |-> 0]
<1>2. f \in [0..0 -> Nat] /\ Pauses(f, <<>>, 0) /\ f[0] = 0
    BY DEF Pauses
<1> HIDE DEF f
<1> QED BY <1>1, <1>2, PauseIsLast

\* What a chunk was appended to.
LEMMA FrontOfAppend ==
    ASSUME NEW s \in Seq(Chunk), NEW c \in Chunk
    PROVE  Append(s, c) \in Seq(Chunk) /\ Front(Append(s, c)) = s
<1>1. /\ Append(s, c) \in Seq(Chunk) /\ Len(Append(s, c)) = Len(s) + 1
      /\ \A i \in 1..Len(s) : Append(s, c)[i] = s[i]
    BY AppendProperties
<1>2. s = [i \in 1..Len(s) |-> s[i]]
    BY LenProperties
<1>3. Front(Append(s, c)) = [i \in 1..Len(s) |-> s[i]]
    BY <1>1 DEF Front
<1> QED BY <1>1, <1>2, <1>3

\* The count of silence is the pause of what the session has heard; only a session that is
\* cut has a pause of the limit or more, and it was no longer than the limit before its last
\* chunk; the gate holds back
\* chunks only when it trims.
CutNow ==
    /\ preroll # <<>> => trim
    /\ speechStarted => silence = PauseBytes(upstream.heard)
    /\ ~upstreamCommitting => PauseBytes(upstream.heard) <= SilenceLimit
    /\ upstreamCommitting /\ ~clientCommitted =>
          /\ PauseBytes(upstream.heard) >= SilenceLimit
          /\ PauseBytes(Front(upstream.heard)) <= SilenceLimit

FinalsCut ==
    \A i \in 1..Len(finals) :
        finals[i].reason = "silence" =>
            /\ PauseBytes(finals[i].audio) >= SilenceLimit
            /\ PauseBytes(Front(finals[i].audio)) <= SilenceLimit

CutInv == AudioInv /\ FinalsCut /\ (pc = "loop" => CutNow)

\* process_pcm counts the pause and cuts at its end.
LEMMA ProcessPcmCuts ==
    ASSUME Inv, AudioHeld, pc = "loop", NEW c \in Chunk, ProcessPcm(c), pc' = "loop", CutNow,
           clientCommitted' = clientCommitted, trim' = trim
    PROVE  CutNow'
<1>1. /\ preroll \in Seq(Chunk) /\ upstream \in UpstreamType /\ upstream.heard \in Seq(Chunk)
      /\ upstream.open \in BOOLEAN /\ (~upstream.open => upstream.heard = <<>>)
      /\ silence \in Nat /\ c.len \in Nat \ {0} /\ c.speech \in BOOLEAN
    BY DEF Inv, TypeOK, UpstreamType, AudioHeld, Chunk
<1>2. CASE HoldForNextSegment(c)
    BY <1>2 DEF HoldForNextSegment, model, CutNow
<1>3. CASE HoldInGate(c)
    BY <1>3 DEF HoldInGate, model, CutNow
<1>4. CASE OpenFails(c)
    BY <1>4 DEF OpenFails
<1>5. CASE Speak(c)
  <2>1. /\ ~upstreamCommitting /\ ~clientCommitted /\ preroll' = <<>> /\ speechStarted'
        /\ silence' = SilenceAfter(c) /\ speechStarted = upstream.open
        /\ speechStarted \/ ~trim \/ c.speech
    BY <1>5 DEF Speak, GoesToModel, Inv, FlagsAgree
  <2>2. /\ Session \in [open : BOOLEAN, finished : BOOLEAN, events : Seq(Event), heard : Seq(Chunk)]
        /\ Session.open = TRUE /\ Session.heard = upstream.heard /\ Session.finished = FALSE
    <3>1. upstream.finished = FALSE
      BY <2>1 DEF Inv, FlagsAgree, TypeOK, UpstreamType
    <3>2. CASE upstream.open
      BY <1>1, <3>1, <3>2 DEF Session, UpstreamType, Event
    <3>3. CASE ~upstream.open
      BY <1>1, <3>3, EmptySeq DEF Session, NewUpstream, NoUpstream, Event
    <3> QED BY <3>2, <3>3
  <2> DEFINE pcm == Append(preroll, c)
             fed(n) == Fed(Session, pcm, n)
  <2>3. pcm \in Seq(Chunk)
    BY <1>1, AppendProperties
  <2>4. PICK n \in 0..MaxPartials, flush \in BOOLEAN, cut \in Cuts(SilenceAfter(c)) :
            /\ upstream' = IF cut THEN Committed(fed(n), flush) ELSE fed(n)
            /\ upstreamCommitting' = cut
    BY <1>5 DEF Speak
  <2> HIDE DEF pcm
  <2>5. fed(n).open = TRUE /\ fed(n).finished = FALSE /\ fed(n).heard = upstream.heard \o pcm
    BY <2>2 DEF Fed
  <2>6. Committed(fed(n), flush).heard = upstream.heard \o pcm
    <3>1. fed(n) \in [open : BOOLEAN, finished : BOOLEAN, events : Seq(Event), heard : Seq(Chunk)]
      <4>1. n \in Nat /\ Session \in UpstreamType
        BY <2>2, LimitsAssumption DEF UpstreamType, Event
      <4> QED BY <2>3, <4>1, FedFacts DEF UpstreamType, Event
    <3> HIDE DEF fed
    <3> QED BY <2>5, <3>1 DEF Committed
  <2> HIDE DEF fed
  <2>7. upstream'.heard = upstream.heard \o pcm
    BY <2>4, <2>5, <2>6
  <2> DEFINE before == IF speechStarted THEN upstream.heard ELSE preroll
  <2>8. before \in Seq(Chunk) /\ upstream'.heard = Append(before, c)
    <3>1. CASE speechStarted
      <4>1. preroll = <<>>
        BY <3>1 DEF Inv, FlagsAgree
      <4>2. pcm = <<c>>
        BY <4>1 DEF pcm
      <4>3. Append(upstream.heard, c) = upstream.heard \o <<c>>
        BY <1>1, AppendIsConcat
      <4> QED BY <1>1, <2>7, <3>1, <4>2, <4>3
    <3>2. CASE ~speechStarted
      <4>1. upstream.heard = <<>>
        BY <1>1, <2>1, <3>2
      <4>2. <<>> \o pcm = pcm
        BY <2>3, ConcatEmptySeq
      <4> QED BY <1>1, <2>7, <3>2, <4>1, <4>2 DEF pcm
    <3> QED BY <3>1, <3>2
  <2>9. /\ ~c.speech => PauseBytes(before) <= SilenceLimit
        /\ SilenceAfter(c) = IF c.speech THEN 0 ELSE PauseBytes(before) + c.len
    <3>1. CASE speechStarted
      BY <1>1, <2>1, <3>1 DEF CutNow, SilenceAfter
    <3>2. CASE ~speechStarted /\ c.speech
      BY <3>2 DEF SilenceAfter
    <3>3. CASE ~speechStarted /\ ~c.speech
      <4>1. before = <<>>
        BY <2>1, <3>3 DEF CutNow
      <4>2. PauseBytes(before) = 0
        BY <4>1, NoPause
      <4> QED BY <1>1, <3>3, <4>2, LimitsAssumption DEF SilenceAfter
    <3> QED BY <3>1, <3>2, <3>3
  <2> HIDE DEF before
  <2>10. SilenceAfter(c) = PauseBytes(upstream'.heard)
    BY <2>8, <2>9, PauseGrows
  <2>11. PauseBytes(before) \in Nat /\ Front(upstream'.heard) = before
    BY <2>8, PauseGrows, FrontOfAppend
  <2>12. SilenceAfter(c) \in Nat
    BY <1>1, <2>9, <2>11
  <2>13. CASE cut
    <3>0. SilenceAfter(c) >= SilenceLimit
      BY <2>13 DEF Cuts
    <3>1. PauseBytes(upstream'.heard) >= SilenceLimit
      BY <2>10, <3>0
    <3>2. ~c.speech
      BY <2>9, <2>10, <3>1, LimitsAssumption
    <3> QED BY <2>1, <2>4, <2>9, <2>10, <2>11, <2>13, <3>1, <3>2 DEF CutNow
  <2>14. CASE ~cut
    <3>0. ~(SilenceAfter(c) > SilenceLimit)
      BY <2>14 DEF Cuts
    <3>1. PauseBytes(upstream'.heard) <= SilenceLimit
      BY <2>10, <2>12, <3>0, LimitsAssumption
    <3> QED BY <2>1, <2>4, <2>10, <2>14, <3>1 DEF CutNow
  <2>15. cut \in BOOLEAN
    BY DEF Cuts
  <2> QED BY <2>13, <2>14, <2>15
<1> QED BY <1>2, <1>3, <1>4, <1>5 DEF ProcessPcm

\* Nothing has been cut at the beginning.
LEMMA InitCut == Init => CutInv
<1> SUFFICES ASSUME Init PROVE CutInv
    OBVIOUS
<1>1. AudioInv
    BY InitAudio
<1> QED BY <1>1 DEF Init, CutInv, FinalsCut

\* The flags and what has been heard stay as they are.
LEMMA CutUntouched ==
    ASSUME CutInv, UNCHANGED <<finals, preroll, trim, speechStarted, silence, upstreamCommitting, clientCommitted>>,
           upstream'.heard = upstream.heard, pc' = "loop" => pc = "loop"
    PROVE  FinalsCut' /\ (pc' = "loop" => CutNow')
<1>1. FinalsCut'
    BY DEF CutInv, FinalsCut
<1>2. pc' = "loop" => CutNow'
    BY DEF CutInv, CutNow
<1> QED BY <1>1, <1>2

\* Every step keeps the pauses: the sends count them, a final is made of the last.
LEMMA NextCut == CutInv /\ [Next]_vars => CutInv'
<1> SUFFICES ASSUME CutInv, [Next]_vars PROVE CutInv'
    OBVIOUS
<1>0. AudioInv' /\ Inv /\ TypeOK /\ AudioHeld
    BY NextAudio DEF CutInv, AudioInv, Inv
<1>1. CASE Refuse \/ BrowserRejected \/ BrowserEnd \/ BrowserDisconnect \/ UpstreamError
           \/ SendRaises \/ WakeUpstream \/ WakeBrowser \/ ClientLeaves \/ UNCHANGED vars
  <2>1. UNCHANGED <<finals, preroll, trim, speechStarted, silence, upstreamCommitting, clientCommitted, upstream>>
    BY <1>1 DEF Refuse, BrowserRejected, BrowserEnd, BrowserDisconnect, UpstreamError, SendRaises,
                WakeUpstream, WakeBrowser, Wake, ClientLeaves, vars, audio, model, state
  <2>2. pc' = "loop" => pc = "loop"
    BY <1>1 DEF Refuse, BrowserRejected, BrowserEnd, BrowserDisconnect, UpstreamError, SendRaises,
                WakeUpstream, WakeBrowser, Wake, ClientLeaves, vars
  <2> QED BY <1>0, <2>1, <2>2, CutUntouched DEF CutInv
<1>2. CASE StartSession
  <2>1. /\ finals' = finals /\ pc = "start"
        /\ UNCHANGED <<preroll, trim, speechStarted, silence, upstreamCommitting, clientCommitted, upstream>>
    BY <1>2 DEF StartSession, audio, model, state
  <2>2. upstream = NoUpstream /\ ~speechStarted /\ ~upstreamCommitting /\ preroll = <<>>
    BY <1>0, <2>1 DEF Inv, StartsEmpty
  <2>3. upstream'.heard = <<>>
    BY <2>1, <2>2 DEF NoUpstream
  <2>4. PauseBytes(upstream'.heard) <= SilenceLimit
    BY <2>3, NoPause, LimitsAssumption
  <2>5. CutNow'
    BY <2>1, <2>2, <2>4 DEF CutNow
  <2>6. FinalsCut'
    BY <2>1 DEF CutInv, FinalsCut
  <2> QED BY <1>0, <2>5, <2>6 DEF CutInv
<1>3. CASE UpstreamBreaks \/ UpstreamPartial
  <2>1. UNCHANGED <<finals, preroll, trim, speechStarted, silence, upstreamCommitting, clientCommitted, pc>>
    BY <1>3 DEF UpstreamBreaks, UpstreamPartial, audio, state
  <2>2. upstream'.heard = upstream.heard
    <3>1. upstream \in UpstreamType
      BY <1>0 DEF TypeOK
    <3>2. CASE UpstreamBreaks
      BY <3>1, <3>2 DEF UpstreamBreaks, UpstreamType
    <3>3. CASE UpstreamPartial
      BY <3>1, <3>3 DEF UpstreamPartial, UpstreamType
    <3> QED BY <1>3, <3>2, <3>3
  <2> QED BY <1>0, <2>1, <2>2, CutUntouched DEF CutInv
<1>4. CASE BrowserCommit
  <2>1. /\ UNCHANGED <<finals, preroll, trim, speechStarted, silence>> /\ pc = "loop"
        /\ clientCommitted' /\ upstreamCommitting'
    BY <1>4 DEF BrowserCommit, BrowserTurn, audio
  <2>2. upstream'.heard = upstream.heard
    <3>1. upstream \in UpstreamType
      BY <1>0 DEF TypeOK
    <3>2. \A flush \in BOOLEAN : Committed(upstream, flush).heard = upstream.heard
      BY <3>1 DEF Committed, UpstreamType
    <3> QED BY <1>4, <3>2 DEF BrowserCommit
  <2>3. CutNow'
    BY <2>1, <2>2 DEF CutInv, CutNow
  <2>4. FinalsCut'
    BY <2>1 DEF CutInv, FinalsCut
  <2> QED BY <1>0, <2>3, <2>4 DEF CutInv
<1>5. CASE CloseSession
    BY <1>0, <1>5 DEF CloseSession, CutInv, FinalsCut
<1>6. CASE BrowserAudio
  <2>1. PICK s \in Sounds : ProcessPcm([id |-> accepted', speech |-> s.speech, len |-> s.len])
    BY <1>6 DEF BrowserAudio
  <2> DEFINE c == [id |-> accepted', speech |-> s.speech, len |-> s.len]
  <2>2. /\ pc = "loop" /\ ProcessPcm(c) /\ c \in Chunk
        /\ UNCHANGED <<finals, clientCommitted, trim>>
    <3>1. accepted' \in 1..MaxChunks
      BY <1>0, <1>6, LimitsAssumption DEF BrowserAudio, TypeOK
    <3> QED BY <1>6, <2>1, <3>1, SoundsAssumption DEF BrowserAudio, BrowserTurn, Chunk
  <2> HIDE DEF c
  <2>3. pc' = "loop" => CutNow'
    BY <1>0, <2>2, ProcessPcmCuts DEF CutInv
  <2>4. FinalsCut'
    BY <2>2 DEF CutInv, FinalsCut
  <2> QED BY <1>0, <2>3, <2>4 DEF CutInv
<1>7. CASE ReplayChunk
  <2>1. /\ pc = "loop" /\ ProcessPcm(Head(replay)) /\ Head(replay) \in Chunk
        /\ UNCHANGED <<finals, clientCommitted, trim>>
    BY <1>0, <1>7, HeadTailProperties DEF ReplayChunk, TypeOK
  <2>2. pc' = "loop" => CutNow'
    BY <1>0, <2>1, ProcessPcmCuts DEF CutInv
  <2>3. FinalsCut'
    BY <2>1 DEF CutInv, FinalsCut
  <2> QED BY <1>0, <2>2, <2>3 DEF CutInv
<1>8. CASE UpstreamDone \/ BrowserCommitEmpty
  <2> DEFINE cutAudio == IF UpstreamDone THEN upstream.heard ELSE <<>>
             reason == IF UpstreamDone /\ ~clientCommitted THEN "silence" ELSE "commit"
  <2>1. PICK complete \in BOOLEAN :
            finals' = Append(finals, [reason |-> reason, complete |-> complete, audio |-> cutAudio])
    <3>1. CASE UpstreamDone
      <4>1. clientCommitted \in BOOLEAN
        BY <1>0 DEF TypeOK
      <4>2. finals' = Append(finals, [reason |-> IF clientCommitted THEN "commit" ELSE "silence",
                                      complete |-> clientCommitted, audio |-> upstream.heard])
        BY <3>1 DEF UpstreamDone
      <4>3. reason = (IF clientCommitted THEN "commit" ELSE "silence") /\ cutAudio = upstream.heard
        BY <3>1, <4>1
      <4> HIDE DEF reason, cutAudio
      <4> QED BY <4>1, <4>2, <4>3
    <3>2. CASE BrowserCommitEmpty
      <4>1. ~UpstreamDone
        BY <3>2 DEF UpstreamDone, UpstreamTurn, BrowserCommitEmpty, BrowserTurn
      <4>2. finals' = Append(finals, [reason |-> "commit", complete |-> TRUE, audio |-> <<>>])
        BY <3>2 DEF BrowserCommitEmpty
      <4>3. reason = "commit" /\ cutAudio = <<>>
        BY <4>1
      <4> HIDE DEF reason, cutAudio
      <4> QED BY <4>2, <4>3
    <3> QED BY <1>8, <3>1, <3>2
  <2> DEFINE final == [reason |-> reason, complete |-> complete, audio |-> cutAudio]
  <2>2. final.reason = "silence" =>
            /\ PauseBytes(final.audio) >= SilenceLimit
            /\ PauseBytes(Front(final.audio)) <= SilenceLimit
    <3> SUFFICES ASSUME UpstreamDone, ~clientCommitted
                 PROVE  /\ PauseBytes(upstream.heard) >= SilenceLimit
                        /\ PauseBytes(Front(upstream.heard)) <= SilenceLimit
      OBVIOUS
    <3>1. pc = "loop" /\ "upstream" \in done /\ Head(upstream.events) = "done"
      BY DEF UpstreamDone, UpstreamTurn
    <3>2. upstream.events # <<>> /\ upstream.events \in Seq(Event)
      BY <1>0, <3>1 DEF Inv, FlagsAgree, TypeOK, UpstreamType, Event
    <3>3. "done" \in Range(upstream.events)
      <4>1. Range(upstream.events) = {upstream.events[i] : i \in 1..Len(upstream.events)}
        BY <3>2, RangeEquality
      <4>2. 1 \in 1..Len(upstream.events) /\ upstream.events[1] = "done"
        BY <3>1, <3>2
      <4> QED BY <4>1, <4>2
    <3>4. upstreamCommitting
      BY <1>0, <3>1, <3>3 DEF Inv, FlagsAgree
    <3> QED BY <3>1, <3>4 DEF CutInv, CutNow
  <2> HIDE DEF final
  <2>3. /\ Len(finals) \in Nat /\ Len(finals') = Len(finals) + 1
        /\ \A i \in 1..Len(finals) : finals'[i] = finals[i]
        /\ finals'[Len(finals) + 1] = final
    BY <1>0, <2>1, AppendProperties DEF TypeOK, final
  <2>4. ASSUME NEW i \in 1..Len(finals'), finals'[i].reason = "silence"
        PROVE  /\ PauseBytes(finals'[i].audio) >= SilenceLimit
               /\ PauseBytes(Front(finals'[i].audio)) <= SilenceLimit
    <3>1. CASE i = Len(finals) + 1
      BY <2>2, <2>3, <2>4, <3>1
    <3>2. CASE i \in 1..Len(finals)
      BY <2>3, <2>4, <3>2 DEF CutInv, FinalsCut
    <3> QED BY <2>3, <3>1, <3>2
  <2>5. FinalsCut'
    BY <2>4 DEF FinalsCut
  <2>6. ASSUME pc' = "loop" PROVE CutNow'
    <3>1. /\ UpstreamDone /\ ~clientCommitted
      BY <1>8, <2>6 DEF UpstreamDone, BrowserCommitEmpty
    <3>2. /\ upstream'.heard = <<>> /\ preroll' = <<>> /\ ~speechStarted' /\ ~upstreamCommitting'
      BY <3>1 DEF UpstreamDone, NoUpstream
    <3>3. PauseBytes(upstream'.heard) <= SilenceLimit
      BY <3>2, NoPause, LimitsAssumption
    <3> QED BY <3>2, <3>3 DEF CutNow
  <2> QED BY <1>0, <2>5, <2>6 DEF CutInv
<1> QED BY <1>1, <1>2, <1>3, <1>4, <1>5, <1>6, <1>7, <1>8 DEF Next, Browser, Upstream, Closed

\* A segment is cut for silence only when the pause it ends in has reached the limit, and at
\* most one chunk late, however the pause is spread over live audio and audio replayed: the
\* pause without its last chunk is never longer than the limit, whichever way the sum of
\* floats falls when it is exactly the limit.
THEOREM CutsComeWithPauses == Spec => []CutAtSilence
<1>1. Init => CutInv
    BY InitCut
<1>2. CutInv /\ [Next]_vars => CutInv'
    BY NextCut
<1>3. CutInv => CutAtSilence
  <2>1. CutInv => FinalsCut /\ (pc = "loop" /\ ~upstreamCommitting => PauseBytes(upstream.heard) <= SilenceLimit)
    BY DEF CutInv, CutNow
  <2> QED BY <2>1 DEF CutAtSilence, FinalsCut
<1> QED BY <1>1, <1>2, <1>3, PTL DEF Spec
=============================================================================
