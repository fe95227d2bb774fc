---------------------------- MODULE MCTransport ----------------------------
(***************************************************************************)
(* What goes over the wire, on either way and each of them alone: two      *)
(* sends of any kind to the cloud over two edges that share one pool, of   *)
(* which a lookup gives both or the first alone; or two requests through   *)
(* the session on the local network, with enough cookies for every         *)
(* response that may set one.  machine chooses; the other stays as it was  *)
(* at first, which is one way only.                                        *)
(***************************************************************************)
EXTENDS RemoteSend, LanSession

CONSTANTS e1, e2, r1, r2

MCTwoEdges == {e1, e2}
MCTwoRequests == {r1, r2}
MCTwoAnswers == {{e1}, {e1, e2}}

VARIABLE machine

TransportInit ==
  /\ SendSpecInit /\ LanInit
  /\ \/ machine = "cloud" /\ mutating = {} /\ valid
     \/ machine = "local" /\ mutating \in {{}, {r1}, {r1, r2}} \* one or the other: no difference

\* Each request is made once: the local session is over when all have ended.
Over == machine = "local" /\ (\A r \in Requests : pc[r] = "ended") /\ UNCHANGED <<machine, vars, lanVars>>

TransportNext ==
  \/ machine = "cloud" /\ SendNext /\ UNCHANGED <<machine, lanVars>>
  \/ machine = "local" /\ LanNext /\ UNCHANGED <<machine, vars>>
  \/ Over

TransportSpec ==
  /\ TransportInit /\ [][TransportNext]_<<machine, vars, lanVars>>
  /\ SendFairness /\ LanFairness

\* On either way everybody is answered, even if the network and the router never do.
EverySendEnds == EverySendSettles /\ LanProgress
=============================================================================
