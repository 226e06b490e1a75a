--------------------------- MODULE MCHostSignaling ---------------------------
(* Instances of HostSignaling for TLC. *)
EXTENDS HostSignaling

CONSTANTS h1, v1, v2

MCLocal == {h1}
MCRemote == {v1, v2}

=============================================================================
