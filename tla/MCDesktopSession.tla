-------------------------- MODULE MCDesktopSession --------------------------
(* Instances of DesktopSession for TLC. *)
EXTENDS DesktopSession

(* One pixel, which rounds to none, and an odd size off the initial one. *)
MCSizes == {1, 5}

=============================================================================
