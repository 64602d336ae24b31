--------------------------- MODULE MCDesktopClient ---------------------------
(* Instances of DesktopClient for TLC. *)
EXTENDS DesktopClient
=============================================================================
