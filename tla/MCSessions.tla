----------------------------- MODULE MCSessions -----------------------------
(***************************************************************************)
(* Two requests of any kinds through one remote session, which share its   *)
(* handshake.                                                              *)
(***************************************************************************)
EXTENDS RemoteSession
=============================================================================
