---------------------------- MODULE MCAppShell ----------------------------
(* The window with two profiles, the second of which asks for a password.  *)
EXTENDS AppShell

MCProfiles == <<1, 2>>
=============================================================================
