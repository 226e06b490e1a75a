-------------------------- MODULE MCSignalingServer --------------------------
(* An instance of SignalingServer for TLC. *)
EXTENDS SignalingServer

CONSTANTS c1, c2, p1, p2

MCSockets == {c1, c2}
MCPins == {p1, p2}

=============================================================================
