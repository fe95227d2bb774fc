------------------------------ MODULE Segments ------------------------------
(***************************************************************************)
(* The creation and the removal of network segments: what the inventory    *)
(* sees, what the allocation takes for free, the commands in their order   *)
(* and the rollback (src/router/segments.ts), behind the tools             *)
(* create_segment and delete_segment (src/tools/segments.ts).  Several     *)
(* calls may run at once: nothing serializes them.                         *)
(*                                                                         *)
(* An object of the router is named by its kind and its number; `by` is    *)
(* who made it, `of` the bridge it serves.  A command may fail and have    *)
(* been executed all the same, or be executed later (limbo).               *)
(***************************************************************************)
EXTENDS Naturals, Sequences, SequencesExt, FiniteSets

CONSTANTS ToolCalls, Routers, Wishes, Limit, MaxVlan, MaxFailed, MaxLate

Kinds == {"vlan", "trunk", "bridge", "subnet", "pool", "policy", "wlan"}
Numbers == 0 .. (Limit + MaxVlan)
Parts == Kinds \X Numbers

\* VLAN 1 is the home segment's on every router (segments.ts:273).
ASSUME SegmentAssumption ==
  /\ Limit \in Nat \ {0} /\ MaxVlan \in Nat \ {0}
  /\ Wishes \subseteq SUBSET {"policy", "wlan"}
  /\ MaxFailed \in Nat /\ MaxLate \in Nat /\ "user" \notin ToolCalls
  /\ \A r \in Routers :
       /\ DOMAIN r \subseteq Parts
       /\ \A p \in DOMAIN r :
            /\ r[p].by = "user" /\ r[p].of \in Numbers
            /\ p[1] = "bridge" => r[p].of = p[2]
            /\ p = <<"trunk", 1>> => r[p].of = 0

VARIABLES
  router, \* the objects there are
  limbo,  \* commands that were given up on and may still be executed
  late,   \* history: calls of which a command was executed after it was given up on
  clash,  \* history: an allocation overlapped with what it could not see
  call

segmentVars == <<router, limbo, late, clash, call>>
histories == <<late, clash>>

ToolCall(op, place, bridge, plan) ==
  [op |-> op, pc |-> place, bridge |-> bridge, plan |-> plan, n |-> 1, failed |-> 0, told |-> "none"]

SegmentInit ==
  /\ router \in Routers
  /\ limbo = {} /\ late = {} /\ clash = FALSE
  /\ call = [c \in ToolCalls |-> ToolCall("none", "idle", 0, <<>>)]

\* Of all calls together: how many commands of a teardown have failed.
Failures == FoldSet(LAMBDA c, sum : sum + call[c].failed, 0, ToolCalls)

Made(part) == part \in DOMAIN router
At(c, place) == call[c].pc = place
Tell(c, what) == call' = [call EXCEPT ![c].pc = "ended", ![c].told = what]

-----------------------------------------------------------------------------
(***************************************************************************)
(* readInventory and allocate.  A network is free unless a bridge that was *)
(* probed has it; VLAN numbers are those trunked over a port, so a         *)
(* subinterface without a trunk is not seen, and the pool is named after   *)
(* the bridge without asking whether there is one of that name.            *)
(***************************************************************************)
Seen ==
  {p \in DOMAIN router :
     CASE p[1] = "bridge" -> p[2] < Limit
       [] p[1] = "subnet" -> router[p].of < Limit
       [] OTHER -> p[1] \in {"trunk", "policy", "wlan"}}

\* The range of every pool lies in a network that was seen.
Evidenced ==
  \A p \in DOMAIN router : p[1] = "pool" =>
    \E q \in Seen : q[1] = "subnet" /\ router[q].of = router[p].of

FirstFree(kind, from, count) == \* the empty set if there is none
  LET free == {n \in from .. (from + count - 1) : <<kind, n>> \notin Seen}
  IN {n \in free : \A m \in free : n <= m}

Together(parts) == IF parts = {} THEN <<>> ELSE <<parts>> \* in one command, if there is any

\* In the order of the commands that will make them: an address comes with its bridge.
Allocation(b, v, s, optional) ==
  <<{<<"vlan", v>>}, {<<"trunk", v>>}, {<<"bridge", b>>, <<"subnet", s>>}, {<<"pool", b>>}>>
    \o Together({p \in optional : p[1] = "policy"})
    \o Together({p \in optional : p[1] = "wlan"})

Optional(wants) ==
  {p \in {"policy", "wlan"} \X Numbers : p[1] \in wants /\ p[2] \in FirstFree(p[1], 0, Limit)}

Claimed(c) == UNION Range(call[c].plan)
Busy(c) == call[c].pc \in {"building", "checking", "surveying", "tearing"}

\* Two calls clash over what one is given and the other works on; for a removal that is
\* from its first read on, since what it has read may be removed by another, given to a
\* creation and then taken from it.
\* Nothing has been sent if a read fails, the evidence on networks is incomplete,
\* the network asked for is in use or something has run out.
Create(c, wants) ==
  /\ At(c, "idle")
  /\ \/ /\ Evidenced /\ \A k \in wants : FirstFree(k, 0, Limit) # {}
        /\ \E b \in FirstFree("bridge", 1, Limit), v \in FirstFree("trunk", 2, MaxVlan),
              s \in FirstFree("subnet", 2, Limit) :
             LET plan == Allocation(b, v, s, Optional(wants))
                 parts == UNION Range(plan)
             IN /\ call' = [call EXCEPT ![c] = ToolCall("create", "building", b, plan)]
                /\ clash' = (clash \/ \E p \in parts :
                     \/ Made(p)
                     \/ \E d \in ToolCalls \ {c} : Busy(d) /\ p \in Claimed(d)
                     \/ \E w \in limbo : p \in w.parts)
     \/ Tell(c, "refused") /\ UNCHANGED clash
  /\ UNCHANGED <<router, limbo, late>>

-----------------------------------------------------------------------------
(***************************************************************************)
(* createSegment: one post for each group of commands, and the check that  *)
(* the router lists the bridge as a segment.                               *)
(***************************************************************************)
\* What exists already is configured, and remains its maker's.
Given(r, parts, c, b) ==
  [p \in DOMAIN r \cup parts |-> IF p \in DOMAIN r THEN r[p] ELSE [by |-> c, of |-> b]]

Group(c) == call[c].plan[call[c].n]
Advance(c) == \* to the next group, or to the check
  call' = [call EXCEPT ![c].n = @ + 1,
                       ![c].pc = IF call[c].n = Len(call[c].plan) THEN "checking" ELSE @]

Post(c) ==
  /\ At(c, "building")
  /\ router' = Given(router, Group(c), c, call[c].bridge)
  /\ Advance(c)
  /\ UNCHANGED <<limbo, histories>>

\* What is to be taken back is everything allocated, made or not.
Undo(parts) ==
  LET of(kind) == SetToSeq({{p} : p \in {q \in parts : q[1] = kind}})
      bridge == {p \in parts : p[1] \in {"bridge", "subnet"}}
  IN of("wlan") \o of("policy") \o of("pool")
       \o Together(bridge) \o of("trunk") \o of("vlan")

Abandon(c) == call' = [call EXCEPT ![c].pc = "tearing", ![c].n = 1, ![c].plan = Undo(Claimed(c))]

GroupFailsOn(c) == \* mutant: what fails is skipped
  /\ At(c, "building")
  /\ Advance(c)
  /\ UNCHANGED <<router, limbo, histories>>

GroupFails(c) ==
  /\ At(c, "building")
  /\ LET parts == Group(c)
     IN \/ UNCHANGED <<router, limbo>>
        \/ router' = Given(router, parts, c, call[c].bridge) /\ UNCHANGED limbo
        \/ Cardinality(limbo) + Cardinality(late) < MaxLate
           /\ limbo' = limbo \cup {[by |-> c, of |-> call[c].bridge, parts |-> parts]} /\ UNCHANGED router
  /\ Abandon(c)
  /\ UNCHANGED histories

UiVisible(b) ==
  /\ Made(<<"bridge", b>>)
  /\ \E v \in Numbers :
       /\ Made(<<"vlan", v>>) /\ router[<<"vlan", v>>].of = b
       /\ Made(<<"trunk", v>>) /\ router[<<"trunk", v>>].of = b

Check(c) ==
  /\ At(c, "checking")
  /\ \/ UiVisible(call[c].bridge) /\ Tell(c, "created")
     \/ Abandon(c) \* it is not listed, or the read fails
  /\ UNCHANGED <<router, limbo, histories>>

-----------------------------------------------------------------------------
(***************************************************************************)
(* delete_segment and teardownSegment: every command is tried, and what    *)
(* fails is counted.                                                       *)
(***************************************************************************)
ServedBy(b, kinds) == {p \in DOMAIN router : p[1] \in kinds /\ router[p].of = b}

\* The VLAN is read from the bridge, before the backup and the inventory ...
Delete(c, b) ==
  /\ At(c, "idle") /\ b # 0
  /\ \/ Made(<<"bridge", b>>) /\ call' = [call EXCEPT ![c] = ToolCall("delete", "surveying", b,
          IF UiVisible(b) THEN <<ServedBy(b, {"vlan", "trunk"})>> ELSE <<>>)]
     \/ Tell(c, "refused")
  /\ UNCHANGED <<router, limbo, histories>>

\* ... and what is bound to the bridge after them.  A policy is left in place.
SurveyAll(c) == \* mutant: a policy goes with its segment
  /\ At(c, "surveying")
  /\ LET b == call[c].bridge
         parts == Claimed(c) \cup ServedBy(b, Kinds)
     IN call' = [call EXCEPT ![c].pc = "tearing", ![c].n = 1, ![c].plan = Undo(parts)]
  /\ UNCHANGED <<router, limbo, histories>>

Survey(c) ==
  /\ At(c, "surveying")
  /\ LET b == call[c].bridge
         parts == Claimed(c) \cup ServedBy(b, {"wlan", "pool"})
                    \cup {<<"bridge", b>>} \cup ServedBy(b, {"subnet"})
     IN \/ call' = [call EXCEPT ![c].pc = "tearing", ![c].n = 1, ![c].plan = Undo(parts)]
        \/ Tell(c, "refused")
  /\ UNCHANGED <<router, limbo, histories>>

Cleared(parts) == [p \in DOMAIN router \ parts |-> router[p]]

TearAgain(c) == \* mutant: when one fails, all are tried again
  /\ At(c, "tearing") /\ call[c].n <= Len(call[c].plan)
  /\ \/ /\ router' = Cleared(Group(c))
        /\ call' = [call EXCEPT ![c].n = @ + 1]
     \/ call' = [call EXCEPT ![c].n = 1] /\ UNCHANGED router
  /\ UNCHANGED <<limbo, histories>>

Tear(c) ==
  /\ At(c, "tearing") /\ call[c].n <= Len(call[c].plan)
  /\ \/ /\ router' = Cleared(Group(c))
        /\ call' = [call EXCEPT ![c].n = @ + 1]
     \/ /\ Failures < MaxFailed
        /\ router' \in {router, Cleared(Group(c))}
        /\ call' = [call EXCEPT ![c].n = @ + 1, ![c].failed = @ + 1]
  /\ UNCHANGED <<limbo, histories>>

Torn(c) ==
  /\ At(c, "tearing") /\ call[c].n > Len(call[c].plan)
  /\ \/ call[c].op = "create" /\ Tell(c, IF call[c].failed = 0 THEN "undone" ELSE "left")
     \/ call[c].op = "delete" /\ Tell(c, IF Made(<<"bridge", call[c].bridge>>) THEN "kept" ELSE "removed")
     \/ call[c].op = "delete" /\ Tell(c, "failed") \* the last read fails
  /\ UNCHANGED <<router, limbo, histories>>

\* The router executes a command that was given up on; if it is lost, never.
Straggle ==
  \E w \in limbo :
    /\ limbo' = limbo \ {w}
    /\ router' = Given(router, w.parts, w.by, w.of)
    /\ late' = late \cup {w.by}
    /\ UNCHANGED <<clash, call>>

-----------------------------------------------------------------------------
CallStep(c) ==
  \/ \E wants \in Wishes : Create(c, wants)
  \/ \E b \in 1 .. Limit : Delete(c, b)
  \/ Post(c) \/ GroupFails(c) \/ Check(c) \/ Survey(c) \/ Tear(c) \/ Torn(c)

SegmentNext == (\E c \in ToolCalls : CallStep(c)) \/ Straggle

\* Every request of the session ends by its own timeout.
SegmentFairness == \A c \in ToolCalls : WF_segmentVars(~At(c, "idle") /\ CallStep(c))

SegmentSafety == SegmentInit /\ [][SegmentNext]_segmentVars
SegmentSpec == SegmentSafety /\ SegmentFairness

-----------------------------------------------------------------------------
(***************************************************************************)
(* Properties.                                                             *)
(***************************************************************************)
SegmentTypeOK ==
  /\ DOMAIN router \subseteq Parts
  /\ \A p \in DOMAIN router : router[p].by \in ToolCalls \cup {"user"} /\ router[p].of \in Numbers
  /\ \A c \in ToolCalls :
       /\ call[c].pc \in {"idle", "building", "checking", "surveying", "tearing", "ended"}
       /\ Claimed(c) \subseteq Parts

\* segments.ts:591, "so the router is as it was": a creation that says so has left nothing
\* behind, unless a command it had given up on was executed after the rollback.
UndoneLeavesNothing ==
  \A c \in ToolCalls :
    call[c].told = "undone" /\ c \notin late =>
      \A p \in DOMAIN router : router[p].by # c

\* A segment that was reported is complete until somebody removes it, as long as no
\* allocation overlapped with what it could not see (clash).
CreatedIsWhole ==
  \A c \in ToolCalls :
    call[c].told = "created" /\ ~clash =>
      \/ \A p \in Claimed(c) : Made(p) /\ router[p].by = c
      \/ \E d \in ToolCalls : call[d].op = "delete" /\ call[d].bridge = call[c].bridge

\* What a creation reports of the router is so: the two above.
ReportedSegmentsAreReal == SegmentTypeOK /\ UndoneLeavesNothing /\ CreatedIsWhole

\* Identifiers that were not free are the only way to take down what belongs to another:
\* otherwise an object is removed by the call that made it or by the removal of its bridge.
\* A policy is never removed with a segment, and the home segment never at all.
OnlyOwnTornDown ==
  [][\A p \in DOMAIN router \ DOMAIN router' :
       /\ p \notin {<<"bridge", 0>>, <<"trunk", 1>>}
       /\ \/ clash
          \/ router[p].by \in ToolCalls /\ call[router[p].by].pc = "tearing"
          \/ \E d \in ToolCalls :
               /\ call[d].op = "delete" /\ At(d, "tearing")
               /\ router[p].of = call[d].bridge /\ p[1] # "policy"]_segmentVars

\* Every call ends, though the router answers nothing.
EveryToolCallEnds == \A c \in ToolCalls : ~At(c, "idle") ~> At(c, "ended")

\* segments.ts:271, the comment on allocate: it "Picks identifiers nothing else is using".
AllocatesUnused ==
  \A c \in ToolCalls :
    At(c, "building") /\ call[c].failed = 0 =>
      \A p \in Claimed(c) : Made(p) => router[p].by = c
=============================================================================
