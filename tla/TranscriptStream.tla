--------------------------- MODULE TranscriptStream ---------------------------
(***************************************************************************)
(* What a client of the stream is promised, whatever the server does       *)
(* inside: audio is turned into segments in the order it was spoken, each  *)
(* stretch of audio into one segment at most, and a segment announced with *)
(* session_complete is the last thing the session says.                    *)
(***************************************************************************)
EXTENDS Integers, Sequences

VARIABLES
    heard,      \* number of chunks of audio taken so far
    segments,   \* the transcript: the reason and the audio of each segment
    ended       \* "no", "complete" or "broken"

vars == <<heard, segments, ended>>

\* The audio no segment covers or has passed over yet.
Fresh == {n \in 1..heard : \A i \in DOMAIN segments : \A m \in segments[i].audio : m < n}

Init == heard = 0 /\ segments = <<>> /\ ended = "no"

\* The server takes one more chunk.
Hear ==
    /\ ended = "no"
    /\ heard' = heard + 1
    /\ UNCHANGED <<segments, ended>>

\* A pause closes a segment, which covers some of the fresh audio.
Segment ==
    /\ ended = "no"
    /\ \E covered \in SUBSET Fresh :
          /\ covered # {}
          /\ segments' = Append(segments, [reason |-> "silence", audio |-> covered])
    /\ UNCHANGED <<heard, ended>>

\* The client's commit closes the last segment and the session.
Complete ==
    /\ ended = "no"
    /\ \E covered \in SUBSET Fresh :
          segments' = Append(segments, [reason |-> "commit", audio |-> covered])
    /\ ended' = "complete"
    /\ UNCHANGED heard

\* A failure, a reset or a disconnect: the session ends where it stands.
Break ==
    /\ ended = "no"
    /\ ended' = "broken"
    /\ heard' \in {heard, heard + 1}
    /\ UNCHANGED segments

Next == Hear \/ Segment \/ Complete \/ Break

Spec == Init /\ [][Next]_vars
=============================================================================
