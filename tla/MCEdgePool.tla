----------------------------- MODULE MCEdgePool -----------------------------
(***************************************************************************)
(* A pool of two entries that meets three addresses, one of them under two *)
(* spellings, and a string that is no address.                             *)
(***************************************************************************)
EXTENDS EdgePool

MCIps == {1, 2, 3}
MCValues == {1, 2, 3, 4, 5}
MCNoIp == 0
MCCanonical == [v \in MCValues |-> CASE v \in MCIps -> v [] v = 4 -> 3 [] OTHER -> 0]
=============================================================================
