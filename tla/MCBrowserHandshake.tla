------------------------- MODULE MCBrowserHandshake -------------------------
(* Instance of BrowserHandshake for TLC. *)
EXTENDS BrowserHandshake

CONSTANTS h1, h2, v1

MCHostCandidates == {h1, h2}
MCViewerCandidates == {v1}

=============================================================================
