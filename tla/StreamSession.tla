---------------------------- MODULE StreamSession ----------------------------
(***************************************************************************)
(* One connection to /v1/audio/transcriptions/stream: the coroutine        *)
(* handle_stream of streaming.py, which waits on two tasks at once, the    *)
(* browser's next message and the model session's next event, cuts the     *)
(* audio into segments at pauses, and holds the audio that arrives while a *)
(* segment is being finalized.                                             *)
(*                                                                         *)
(* A chunk of PCM is a record: its number in order of arrival, whether it  *)
(* is as loud as silence_threshold (the gate's own threshold has the same  *)
(* value, 250), and its length in units of audio time, which also stand    *)
(* for the bytes the code counts.  The model session is seen through the   *)
(* interface RealtimeSession of engine.py.                                 *)
(***************************************************************************)
EXTENDS Integers, Sequences, FiniteSets, SequencesExt

CONSTANTS
    Sounds,         \* the kinds of chunk a client may send
    SilenceLimit,   \* silence_commit_ms, in units of audio time
    RolloverLimit,  \* the 160_000 bytes kept while a segment is finalized
    PreRoll,        \* pre_roll_bytes of LeadingSilenceGate
    MaxPartials,    \* bound of the model: partials one call of send_pcm posts
    MaxChunks       \* bound of the model: chunks a client sends

ASSUME SoundsAssumption == Sounds \subseteq [speech : BOOLEAN, len : Nat \ {0}]
ASSUME LimitsAssumption == /\ SilenceLimit \in Nat \ {0}
                           /\ RolloverLimit \in Nat
                           /\ PreRoll \in Nat
                           /\ MaxPartials \in Nat
                           /\ MaxChunks \in Nat

VARIABLES
    pc,                 \* "start", "loop", "finally" or "closed"
    done,               \* the completed tasks of this wake still to be handled
    clientGone,         \* the peer has left: a send may raise
    clientCommitted,    \* client_committed
    upstreamCommitting, \* upstream_committing
    speechStarted,      \* speech_started
    silence,            \* silence_seconds
    trim,               \* trim_leading_silence
    preroll,            \* _pending of the leading silence gate
    upstream,           \* the model session, and what it has been fed
    rollover,           \* pending_rollover
    replay,             \* the rest of the list `buffered` being replayed
    finals,             \* the transcript.final events sent
    accepted,           \* chunks taken from the client
    spoken,             \* history: the accepted chunks that are speech
    overflowed,         \* history: chunks popped from a full rollover
    live,               \* history: model sessions opened and not yet closed
    closeCode           \* code of websocket.close, 0 while open

audio == <<preroll, rollover, replay, overflowed>>
state == <<clientCommitted, upstreamCommitting, speechStarted, silence, trim>>
model == <<upstream, live>>
client == <<clientGone, accepted, spoken>>
vars == <<pc, done, closeCode, finals, audio, state, model, client>>

Chunk == [id : 1..MaxChunks, speech : BOOLEAN, len : Nat \ {0}]
Bytes(s) == FoldLeft(LAMBDA n, c : n + c.len, 0, s)
DropFirst(s, k) == SubSeq(s, k + 1, Len(s))
Ids(s) == {s[i].id : i \in 1..Len(s)}

-----------------------------------------------------------------------------
(* The model session: RealtimeSession of engine.py as handle_stream uses it.  *)

NoUpstream == [open |-> FALSE, finished |-> FALSE, events |-> <<>>, heard |-> <<>>]
NewUpstream == [NoUpstream EXCEPT !.open = TRUE]

\* send_pcm: a finished session ignores the audio; a call posts the partials it gets.
Fed(up, pcm, partials) ==
    IF up.finished
    THEN up
    ELSE [up EXCEPT !.heard = @ \o pcm,
                    !.events = @ \o [i \in 1..partials |-> "partial"]]

\* Fault: commit forgets to mark the session finished.
CommittedNotFinished(up, partial) ==
    [up EXCEPT !.events = @ \o (IF partial THEN <<"partial", "done">> ELSE <<"done">>)]

\* Fault: the answer of the finish request is dropped.
CommittedUnanswered(up, partial) == [up EXCEPT !.finished = TRUE]

\* commit: flushes the last audio, which may post a partial, then posts done.
Committed(up, partial) ==
    IF up.finished
    THEN up
    ELSE [up EXCEPT !.finished = TRUE,
                    !.events = @ \o (IF partial THEN <<"partial", "done">> ELSE <<"done">>)]

-----------------------------------------------------------------------------
Init ==
    /\ pc = "start" /\ done = {} /\ closeCode = 0 /\ finals = <<>>
    /\ preroll = <<>> /\ rollover = <<>> /\ replay = <<>> /\ overflowed = {}
    /\ clientCommitted = FALSE /\ upstreamCommitting = FALSE
    /\ speechStarted = FALSE /\ silence = 0 /\ trim \in BOOLEAN
    /\ upstream = NoUpstream /\ live = 0
    /\ clientGone = FALSE /\ accepted = 0 /\ spoken = {}

\* A bad query parameter closes with 4400, an engine that is not ready with 1013.
Refuse ==
    /\ pc = "start"
    /\ pc' = "closed"
    /\ closeCode' \in {4400, 1013}
    /\ UNCHANGED <<done, finals, audio, state, model, client>>

\* session.started; a send that raises here is outside the try block.
StartSession ==
    /\ pc = "start"
    /\ pc' \in {"loop"} \cup (IF clientGone THEN {"closed"} ELSE {})
    /\ UNCHANGED <<done, closeCode, finals, audio, state, model, client>>

\* The peer disappears at any time; the handler learns of it later.
ClientLeaves ==
    /\ ~clientGone /\ pc # "closed"
    /\ clientGone' = TRUE
    /\ UNCHANGED <<pc, done, closeCode, finals, audio, state, model, accepted, spoken>>

\* An open model session fails: an error event, or receive() raises.
UpstreamBreaks ==
    /\ pc = "loop" /\ upstream.open
    /\ "error" \notin Range(upstream.events)
    /\ upstream' = [upstream EXCEPT !.events = Append(@, "error")]
    /\ UNCHANGED <<pc, done, closeCode, finals, audio, state, live, client>>

\* Fault: the upstream task is not re-armed after the client's commit.
EventQueuedUncommitted == upstream.open /\ upstream.events # <<>> /\ ~clientCommitted

\* asyncio.wait reports every task that has completed.  An event already queued when
\* the handler waits completes the upstream task in the same pass of the event loop,
\* so it is reported with the browser's message, never after it.
EventQueued == upstream.open /\ upstream.events # <<>>

\* Fault: the loop waits again before the held audio is replayed.
WakeDuringReplay(tasks) ==
    /\ pc = "loop" /\ done = {}
    /\ done' = tasks
    /\ UNCHANGED <<pc, closeCode, finals, audio, state, model, client>>

\* The handler resumes with these tasks completed.
Wake(tasks) ==
    /\ pc = "loop" /\ done = {} /\ replay = <<>>
    /\ done' = tasks
    /\ UNCHANGED <<pc, closeCode, finals, audio, state, model, client>>

WakeUpstream == EventQueued /\ Wake({"upstream"})

\* The browser task is not re-armed once the client has committed.
WakeBrowser ==
    /\ ~clientCommitted
    /\ Wake({"browser"} \cup (IF EventQueued THEN {"upstream"} ELSE {}))

-----------------------------------------------------------------------------
(* process_pcm: one disjunct for each way a chunk can go.                    *)

\* While a segment is finalized audio is held; the oldest chunks give way.
HoldForNextSegment(c) ==
    /\ upstreamCommitting
    /\ LET waiting == Append(rollover, c) IN
       \E k \in 0..Len(waiting) :
          /\ Bytes(DropFirst(waiting, k)) <= RolloverLimit
          /\ \A j \in 0..(k - 1) : Bytes(DropFirst(waiting, j)) > RolloverLimit
          /\ rollover' = DropFirst(waiting, k)
          /\ overflowed' = overflowed \cup {waiting[i].id : i \in 1..k}
    /\ UNCHANGED <<pc, preroll, upstreamCommitting, speechStarted, silence, model>>

\* Silence before speech stays in the gate, which keeps only the pre-roll:
\* a chunk the cut falls inside of counts as kept.
HoldInGate(c) ==
    /\ ~upstreamCommitting /\ ~speechStarted /\ trim /\ ~c.speech
    /\ LET pending == Append(preroll, c) IN
       \E k \in 0..Len(pending) :
          /\ k > 0 => Bytes(DropFirst(pending, k)) >= PreRoll
          /\ k < Len(pending) => Bytes(DropFirst(pending, k + 1)) < PreRoll
          /\ preroll' = DropFirst(pending, k)
    /\ UNCHANGED <<pc, rollover, overflowed, upstreamCommitting, speechStarted, silence, model>>

\* Fault: audio is sent to a session that has been committed.
GoesToModelAlways(c) == speechStarted \/ ~trim \/ c.speech

\* The chunk is not held back: speech has started, or starts now.
GoesToModel(c) == ~upstreamCommitting /\ (speechStarted \/ ~trim \/ c.speech)

OpenFails(c) ==
    /\ GoesToModel(c) /\ ~upstream.open
    /\ pc' = "finally"
    /\ preroll' = <<>>
    /\ UNCHANGED <<rollover, overflowed, upstreamCommitting, speechStarted, silence, model>>

\* The session to feed, opened if there is none.
Session == IF upstream.open THEN upstream ELSE NewUpstream

\* Fault: speech does not reset the silence counted.
SilenceNeverReset(c) ==
    (IF c.speech THEN 0 ELSE c.len) + (IF speechStarted THEN silence ELSE 0)

\* The silence the segment ends in once the chunk is sent.
SilenceAfter(c) ==
    IF c.speech THEN 0 ELSE c.len + (IF speechStarted THEN silence ELSE 0)

\* Whether a pause is found long enough.  silence_seconds is a sum of floats: a pause of
\* exactly the limit may come out just below it, ten chunks of 100 ms at 1000 ms do.  Any
\* other pause is a sample or more away from the limit, far more than the rounding.
Cuts(pause) ==
    {cut \in BOOLEAN : /\ cut => pause >= SilenceLimit
                       /\ pause > SilenceLimit => cut}

\* The chunk is sent, after the pre-roll at the start of a segment, and enough
\* silence commits the segment.  "raises" is a failure of send_pcm or commit.
Speak(c) ==
    /\ GoesToModel(c)
    /\ live' = IF upstream.open THEN live ELSE live + 1
    /\ speechStarted' = TRUE
    /\ silence' = SilenceAfter(c)
    /\ preroll' = <<>>
    /\ UNCHANGED <<rollover, overflowed>>
    /\ \E partials \in 0..MaxPartials, flush \in BOOLEAN, cut \in Cuts(SilenceAfter(c)) :
         LET fed == Fed(Session, Append(preroll, c), partials)
         IN \/ /\ upstream' = IF cut THEN Committed(fed, flush) ELSE fed
               /\ upstreamCommitting' = cut
               /\ pc' = pc
            \/ /\ upstream' = Session /\ upstreamCommitting' = FALSE
               /\ pc' = "finally"
            \/ /\ cut
               /\ upstream' = fed /\ upstreamCommitting' = TRUE
               /\ pc' = "finally"

ProcessPcm(c) == HoldForNextSegment(c) \/ HoldInGate(c) \/ OpenFails(c) \/ Speak(c)

-----------------------------------------------------------------------------
(* The browser's message, when its task is among the completed ones.         *)

BrowserTurn == pc = "loop" /\ "browser" \in done /\ done' = done \ {"browser"}

BrowserAudio ==
    /\ BrowserTurn
    /\ accepted < MaxChunks
    /\ accepted' = accepted + 1
    /\ \E s \in Sounds :
         /\ ProcessPcm([id |-> accepted', speech |-> s.speech, len |-> s.len])
         /\ spoken' = IF s.speech THEN spoken \cup {accepted'} ELSE spoken
    /\ UNCHANGED <<closeCode, finals, replay, clientCommitted, trim, clientGone>>

\* Half a sample, malformed JSON or an unknown command: an error event, no more.
BrowserRejected ==
    /\ BrowserTurn
    /\ UNCHANGED <<pc, closeCode, finals, audio, state, model, client>>

\* Fault: the loop goes on after the empty final.
BrowserCommitEmptyGoesOn ==
    /\ BrowserTurn
    /\ ~upstream.open
    /\ finals' = Append(finals, [reason |-> "commit", complete |-> TRUE, audio |-> <<>>])
    /\ UNCHANGED <<pc, closeCode, audio, state, model, client>>

\* commit before any speech: the session ends with an empty final.
BrowserCommitEmpty ==
    /\ BrowserTurn
    /\ ~upstream.open
    /\ clientCommitted' = TRUE
    /\ finals' = Append(finals, [reason |-> "commit", complete |-> TRUE, audio |-> <<>>])
    /\ pc' = "finally"
    /\ UNCHANGED <<closeCode, audio, upstreamCommitting, speechStarted, silence, trim, model, client>>

\* commit of an open segment; a segment already being finalized is left alone.
BrowserCommit ==
    /\ BrowserTurn
    /\ upstream.open
    /\ clientCommitted' = TRUE
    /\ upstreamCommitting' = TRUE
    /\ \/ /\ upstreamCommitting
          /\ UNCHANGED <<upstream, pc>>
       \/ /\ ~upstreamCommitting
          /\ \E flush \in BOOLEAN : upstream' = Committed(upstream, flush)
          /\ pc' = pc
       \/ /\ ~upstreamCommitting
          /\ upstream' = upstream
          /\ pc' = "finally"
    /\ UNCHANGED <<closeCode, finals, audio, speechStarted, silence, trim, live, client>>

\* reset, close, and JSON that is not an object (the handler raises).
BrowserEnd ==
    /\ BrowserTurn
    /\ pc' = "finally"
    /\ UNCHANGED <<closeCode, finals, audio, state, model, client>>

\* Fault: the disconnect message is taken for one without text.
BrowserDisconnectIgnored ==
    /\ BrowserTurn
    /\ clientGone
    /\ UNCHANGED <<pc, closeCode, finals, audio, state, model, client>>

BrowserDisconnect ==
    /\ BrowserTurn
    /\ clientGone
    /\ pc' = "finally"
    /\ UNCHANGED <<closeCode, finals, audio, state, model, client>>

-----------------------------------------------------------------------------
(* The model session's event, after the browser's message if both completed. *)

UpstreamTurn(event) ==
    /\ pc = "loop" /\ done = {"upstream"} /\ done' = {}
    /\ Head(upstream.events) = event

UpstreamPartial ==
    /\ UpstreamTurn("partial")
    /\ upstream' = [upstream EXCEPT !.events = Tail(@)]
    /\ UNCHANGED <<pc, closeCode, finals, audio, state, live, client>>

UpstreamDone ==
    /\ UpstreamTurn("done")
    /\ finals' = Append(finals, [reason |-> IF clientCommitted THEN "commit" ELSE "silence",
                                 complete |-> clientCommitted,
                                 audio |-> upstream.heard])
    /\ upstream' = NoUpstream
    /\ live' = live - 1
    /\ IF clientCommitted
       THEN /\ pc' = "finally"
            /\ UNCHANGED <<upstreamCommitting, speechStarted, silence, preroll, rollover, replay>>
       ELSE /\ upstreamCommitting' = FALSE
            /\ speechStarted' = FALSE
            /\ silence' = 0
            /\ preroll' = <<>>
            /\ replay' = rollover
            /\ rollover' = <<>>
            /\ pc' = pc
    /\ UNCHANGED <<closeCode, clientCommitted, trim, overflowed, client>>

UpstreamError ==
    /\ UpstreamTurn("error")
    /\ pc' = "finally"
    /\ UNCHANGED <<closeCode, finals, audio, state, model, client>>

\* The held audio goes through process_pcm again, chunk by chunk.
ReplayChunk ==
    /\ pc = "loop" /\ replay # <<>>
    /\ ProcessPcm(Head(replay))
    /\ replay' = Tail(replay)
    /\ UNCHANGED <<done, closeCode, finals, clientCommitted, trim, client>>

\* The peer has left and the answer to a message or an event cannot be sent.
SendRaises ==
    /\ pc = "loop" /\ clientGone /\ done # {}
    /\ pc' = "finally"
    /\ UNCHANGED <<done, closeCode, finals, audio, state, model, client>>

\* Fault: a session that has answered is taken for closed.
CloseUnfinishedOnly ==
    /\ pc = "finally"
    /\ pc' = "closed"
    /\ done' = {}
    /\ upstream' = NoUpstream
    /\ live' = IF upstream.open /\ ~upstream.finished THEN live - 1 ELSE live
    /\ closeCode' = 1000
    /\ UNCHANGED <<finals, audio, state, client>>

\* The finally block: the tasks are cancelled, the model session closed.
CloseSession ==
    /\ pc = "finally"
    /\ pc' = "closed"
    /\ done' = {}
    /\ upstream' = NoUpstream
    /\ live' = IF upstream.open THEN live - 1 ELSE live
    /\ closeCode' = 1000
    /\ UNCHANGED <<finals, audio, state, client>>

Closed == pc = "closed" /\ UNCHANGED vars

Browser ==
    \/ BrowserAudio
    \/ BrowserRejected
    \/ BrowserCommitEmpty
    \/ BrowserCommit
    \/ BrowserEnd
    \/ BrowserDisconnect

Upstream ==
    \/ UpstreamPartial
    \/ UpstreamDone
    \/ UpstreamError

Next ==
    \/ Refuse
    \/ StartSession
    \/ ClientLeaves
    \/ UpstreamBreaks
    \/ WakeUpstream
    \/ WakeBrowser
    \/ Browser
    \/ Upstream
    \/ ReplayChunk
    \/ SendRaises
    \/ CloseSession
    \/ Closed

Spec == Init /\ [][Next]_vars

(* The event loop runs a handler that can run, and every upstream call        *)
(* returns or raises (the HTTP client has a timeout).  The messages a client  *)
(* left behind are finite, so its disconnect is read in the end.              *)
Fairness ==
    /\ WF_vars(Refuse \/ StartSession)
    /\ WF_vars(WakeUpstream)
    /\ WF_vars(Browser)
    /\ WF_vars(Upstream)
    /\ WF_vars(ReplayChunk)
    /\ WF_vars(CloseSession)
    /\ SF_vars(clientGone /\ WakeBrowser)
    /\ SF_vars(BrowserDisconnect)

LiveSpec == Spec /\ Fairness

-----------------------------------------------------------------------------
(* Properties.                                                               *)

UpstreamType ==
    [open : BOOLEAN, finished : BOOLEAN,
     events : Seq({"partial", "done", "error"}), heard : Seq(Chunk)]

\* Every variable of handle_stream keeps its type; at most one model session lives.
TypeOK ==
    /\ pc \in {"start", "loop", "finally", "closed"}
    /\ done \in SUBSET {"browser", "upstream"}
    /\ clientGone \in BOOLEAN /\ clientCommitted \in BOOLEAN
    /\ upstreamCommitting \in BOOLEAN /\ speechStarted \in BOOLEAN
    /\ silence \in Nat /\ trim \in BOOLEAN
    /\ preroll \in Seq(Chunk) /\ rollover \in Seq(Chunk) /\ replay \in Seq(Chunk)
    /\ upstream \in UpstreamType /\ live \in Nat
    /\ finals \in Seq([reason : {"silence", "commit"}, complete : BOOLEAN, audio : Seq(Chunk)])
    /\ accepted \in 0..MaxChunks
    /\ spoken \subseteq 1..MaxChunks /\ overflowed \subseteq 1..MaxChunks
    /\ closeCode \in {0, 1000, 1013, 4400}

\* The flags of process_pcm and of the loop agree with the model session while the
\* loop runs: a segment has begun exactly when a session is open, a committed session
\* has a done to come, held audio waits for nothing but that, and the client's commit
\* finds the session committed.
FlagsAgree ==
    pc = "loop" =>
        /\ speechStarted = upstream.open
        /\ upstreamCommitting = upstream.finished
        /\ upstream.finished => upstream.open
        /\ upstream.finished = ("done" \in Range(upstream.events))
        /\ rollover # <<>> => upstreamCommitting
        /\ clientCommitted => upstreamCommitting /\ replay = <<>>
        /\ speechStarted => preroll = <<>>
        /\ "upstream" \in done => upstream.open /\ upstream.events # <<>>
        /\ replay # <<>> => done = {}

\* The audio in every final, in the open model session and in the buffers, taken in
\* that order, is in the order in which the client sent it, and none is there twice.
Rising(s) == \A i, j \in 1..Len(s) : i < j => s[i].id < s[j].id
Before(s, t) == \A m \in Ids(s), n \in Ids(t) : m < n
AudioInOrder ==
    LET parts == [i \in 1..Len(finals) |-> finals[i].audio]
                     \o <<upstream.heard, preroll, rollover, replay>>
    IN pc = "loop" =>
           \A p \in 1..Len(parts) :
               /\ Rising(parts[p])
               /\ \A q \in (p + 1)..Len(parts) : Before(parts[p], parts[q])

\* While the session runs every chunk of speech taken from the client has reached a
\* final or the open model session, or is held for the next segment; only a full
\* rollover buffer drops any.
Transcribed == UNION {Ids(finals[i].audio) : i \in 1..Len(finals)}
NoSpeechLost ==
    pc = "loop" =>
        spoken \subseteq Transcribed \cup Ids(upstream.heard) \cup Ids(rollover)
                            \cup Ids(replay) \cup overflowed

\* A segment is cut for silence when the pause it ends in has reached the limit, never
\* before, however the pause is spread over live audio and audio replayed; and never more
\* than one chunk late: only a pause of exactly the limit may be missed (the floats), and
\* the next silent chunk then cuts.
PauseBytes(s) ==
    LET pause[n \in 0..Len(s)] == IF n = 0 \/ s[n].speech THEN 0 ELSE pause[n - 1] + s[n].len
    IN  pause[Len(s)]
CutAtSilence ==
    /\ \A i \in 1..Len(finals) :
          finals[i].reason = "silence" =>
              /\ PauseBytes(finals[i].audio) >= SilenceLimit
              /\ PauseBytes(Front(finals[i].audio)) <= SilenceLimit
    /\ pc = "loop" /\ ~upstreamCommitting => PauseBytes(upstream.heard) <= SilenceLimit

\* A model session is opened only when none is, and each one opened is closed: the
\* speech server keeps the state of a session that is never finished.
OneModelSession ==
    /\ live = (IF upstream.open THEN 1 ELSE 0)
    /\ pc = "closed" => live = 0

\* The session implements what a client is promised: a segment is a final, its audio the
\* numbers of its chunks.
Segments == [i \in 1..Len(finals) |-> [reason |-> finals[i].reason, audio |-> Ids(finals[i].audio)]]
Ended == IF finals # <<>> /\ Last(finals).complete THEN "complete"
         ELSE IF pc \in {"finally", "closed"} THEN "broken"
         ELSE "no"
Promise == INSTANCE TranscriptStream WITH heard <- accepted, segments <- Segments, ended <- Ended
KeepsPromise == Promise!Spec

\* A client that commits sees the end of its session, even though the handler no
\* longer listens to it and waits for the model session alone.
CommitEnds == clientCommitted ~> pc = "closed"

\* A cut segment is finalized, or the session ends: held audio never waits for ever.
CutIsAnswered == upstreamCommitting ~> (~upstreamCommitting \/ pc = "closed")

\* A session whose client has left ends, so that its slot is given back.
LeavingEnds == clientGone ~> pc = "closed"

\* README: {"type":"commit"} finalizes the session.  When the session is announced as
\* complete, every chunk of speech taken and not dropped by a full buffer is in a final.
CommitCoversAudio ==
    finals # <<>> /\ Last(finals).complete => spoken \subseteq Transcribed \cup overflowed
=============================================================================
