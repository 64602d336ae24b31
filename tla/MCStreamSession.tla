--------------------------- MODULE MCStreamSession ---------------------------
(* Instances of StreamSession for TLC. *)
EXTENDS StreamSession

Word == [speech |-> TRUE, len |-> 1]
Hush == [speech |-> FALSE, len |-> 1]
LongWord == [speech |-> TRUE, len |-> 2]
LongHush == [speech |-> FALSE, len |-> 2]

UnitSounds == {Word, Hush}
MixedSounds == {Word, LongWord, Hush, LongHush}
=============================================================================
