-------------------------- MODULE MCProfileStorage --------------------------
(* A small instance of ProfileStorage for TLC. *)
EXTENDS ProfileStorage

\* One profile on disk, not a favourite.
MCInitialProfiles == <<[id |-> 1, favorite |-> FALSE]>>
=============================================================================
