------------------------- MODULE MCProfileRegistry -------------------------
(***************************************************************************)
(* Two or three commands about two routers, one of which is there already, *)
(* with or without the lock of a process that died long ago.               *)
(***************************************************************************)
EXTENDS ProfileRegistry

CONSTANTS i1, i2

MCInitially == <<i1>>
=============================================================================
