--------------------------- MODULE MCDesktopHotkey ---------------------------
(* An instance of DesktopHotkey for TLC. *)
EXTENDS DesktopHotkey

CONSTANTS f9, f10

\* Settings that differ in the key, and some that differ only in something else.
SomeSettings == {[hotkey |-> f9, login |-> FALSE], [hotkey |-> f9, login |-> TRUE],
                 [hotkey |-> f10, login |-> TRUE]}
\* DesktopSettings(): the default key, and no autostart.
DefaultSettings == [hotkey |-> f9, login |-> FALSE]
=============================================================================
