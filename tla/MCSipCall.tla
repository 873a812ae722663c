------------------------------ MODULE MCSipCall ------------------------------
(* Two dialers, a call each, and a daemon with one or two slots. *)
EXTENDS SipCall
==============================================================================
