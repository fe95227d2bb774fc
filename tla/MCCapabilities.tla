--------------------------- MODULE MCCapabilities ---------------------------
(***************************************************************************)
(* Two calls of a server, or one snapshot, on a local connection, while    *)
(* somebody else changes or saves one of two configurations as often as    *)
(* they like.                                                              *)
(***************************************************************************)
EXTENDS Capabilities, TLC

MCSymmetry == Permutations(Calls) \cup Permutations(Configs)
=============================================================================
