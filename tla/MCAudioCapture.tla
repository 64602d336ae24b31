--------------------------- MODULE MCAudioCapture ---------------------------
(* Instances of AudioCapture for TLC. *)
EXTENDS AudioCapture

Way(api, rate, callback) == [api |-> api, rate |-> rate, callback |-> callback]

\* Two rates of one device for each backend, first by callback and then by reader.
BothBackends ==
    <<Way("pyaudio", 16, TRUE), Way("pyaudio", 16, FALSE),
      Way("pyaudio", 48, TRUE), Way("pyaudio", 48, FALSE),
      Way("sounddevice", 16, TRUE), Way("sounddevice", 16, FALSE),
      Way("sounddevice", 48, TRUE), Way("sounddevice", 48, FALSE)>>
=============================================================================
