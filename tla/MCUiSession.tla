---------------------------- MODULE MCUiSession ----------------------------
(* Two users of one browser session, with two jobs between them.            *)
EXTENDS UiSession
CONSTANTS j1, j2, ann, bob
=============================================================================
