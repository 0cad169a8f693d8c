---------------------------- MODULE MCAntiReplay ----------------------------
(* The anti-replay window with words of a few bits, so that packet ids      *)
(* cross both word boundaries and leave the window.                         *)
EXTENDS AntiReplay
=============================================================================
