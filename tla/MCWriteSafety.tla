---------------------------- MODULE MCWriteSafety ----------------------------
(***************************************************************************)
(* Instances of WriteSafety for TLC: one interface, four kinds of request. *)
(***************************************************************************)
EXTENDS WriteSafety

Asked(tool, goal) == [tool |-> tool, target |-> "wan", goal |-> goal]
MCInterfaces == {"wan"}
MCRequests ==
  {Asked("set", "down"), Asked("restart", "up"), Asked("save", "save"), Asked("raw", "up")}
MCSetAndSave == {Asked("set", "down"), Asked("save", "save")}
=============================================================================
