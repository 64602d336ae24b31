--------------------------- MODULE MCSpeechService ---------------------------
(* Instances of SpeechService for TLC. *)
EXTENDS SpeechService
=============================================================================
