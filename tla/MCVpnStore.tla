----------------------------- MODULE MCVpnStore -----------------------------
(* Small instances of VpnStore for TLC. *)
EXTENDS VpnStore

\* Two profiles that ask for a password and one that does not.
MCPasswordMode == <<"dynamic_prompt", "dynamic_prompt", "static">>

\* One profile, which does not.
MCStaticOnly == <<"static">>
=============================================================================
