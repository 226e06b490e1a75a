-------------------------- MODULE MCSessionManager --------------------------
(* Instances of SessionManager for TLC. *)
EXTENDS SessionManager, TLC

CONSTANTS c1, c2, c3, c4, p1, p2

MCSockets == {c1, c2, c3}
MCPins == {p1, p2}

(* Two pairs at once, where clients keep to one session each. *)
MCFourSockets == {c1, c2, c3, c4}

(* Sockets and PINs are interchangeable: sound for the safety runs. *)
Symmetry == Permutations(MCSockets) \cup Permutations(MCPins)
SymmetryFour == Permutations(MCFourSockets) \cup Permutations(MCPins)

=============================================================================
