----------------------------- MODULE MCSegments -----------------------------
(***************************************************************************)
(* Two calls on a router with its home segment and a guest segment that    *)
(* has every part, or with one object besides that the inventory cannot    *)
(* see: a bridge past those probed, a pool of the name, a VLAN without     *)
(* trunk.  Two bridges are probed.                                         *)
(***************************************************************************)
EXTENDS Segments

CONSTANTS c1, c2

User(b) == [by |-> "user", of |-> b]
Router(parts) == [p \in {q[1] : q \in parts} |-> User((CHOOSE q \in parts : q[1] = p)[2])]

Home == {<<<<"bridge", 0>>, 0>>, <<<<"trunk", 1>>, 0>>, <<<<"subnet", 1>>, 0>>}
Guest == {<<<<"bridge", 1>>, 1>>, <<<<"trunk", 2>>, 1>>, <<<<"vlan", 2>>, 1>>,
          <<<<"subnet", 2>>, 1>>, <<<<"pool", 1>>, 1>>, <<<<"wlan", 0>>, 1>>}

MCWishes == {{"policy"}}

\* What escapes the inventory: a bridge past those probed, a pool, a VLAN without trunk.
Hidden == {<<<<"bridge", 2>>, 2>>, <<<<"pool", 1>>, 0>>, <<<<"vlan", 2>>, 0>>}

MCRouters == {Router(Home \cup Guest), Router(Home \cup Hidden)}
=============================================================================
