----------------------------- MODULE CloudProofs -----------------------------
(***************************************************************************)
(* Proofs about what the way through the cloud rests on, one after the     *)
(* other.  The session (RemoteSession), for any finite set of requests of  *)
(* any kinds: Inv is inductive, and what the session promises follows from *)
(* it.  The pool (EdgePool), for every set of addresses, pool size,        *)
(* staleness limit and clock, set back or not: it is well-formed and       *)
(* bounded, gives up the oldest entry only, implements EdgeTiers, and      *)
(* ranks its candidates rightly.                                           *)
(***************************************************************************)
EXTENDS RemoteSession, EdgePool, FiniteSetTheorems, TLAPS

-----------------------------------------------------------------------------
(***************************************************************************)
(* How a request ends and how it is dispatched.                            *)
(***************************************************************************)

\* The verdict on a response is something a caller can be told.
LEMMA VerdictType ==
  ASSUME NEW r \in Requests, NEW status \in Statuses
  PROVE  Verdict(r, status) \in Outcomes
BY DEF Verdict, Statuses, Outcomes, Failures

\* Ending a request keeps the types of what it writes.
LEMMA EndType ==
  ASSUME TypeOK, NEW r \in Requests, NEW why \in Outcomes,
         NEW from \in Requests \cup {Null}, End(r, why, from)
  PROVE  /\ pc' \in [Requests -> {"idle", "waiting", "leaving", "sending", "ended"}]
         /\ outcome' \in [Requests -> Outcomes]
         /\ answer' \in [Requests -> Requests \cup {Null}]
         /\ aborted' \in [Requests -> BOOLEAN]
         /\ expired' \in [Requests -> BOOLEAN]
         /\ resent' \in [Requests -> BOOLEAN]
         /\ pc' = [pc EXCEPT ![r] = "ended"]
         /\ outcome' = [outcome EXCEPT ![r] = why]
BY DEF TypeOK, End, Forget

\* So does dispatching it.
LEMMA DispatchType ==
  ASSUME TypeOK, NEW r \in Requests, NEW a \in Authorizations,
         NEW left \in [Requests -> Nat], NEW again \in [Requests -> BOOLEAN],
         Dispatch(r, a, left, again)
  PROVE  /\ pc' \in [Requests -> {"idle", "waiting", "leaving", "sending", "ended"}]
         /\ outcome' \in [Requests -> Outcomes]
         /\ answer' \in [Requests -> Requests \cup {Null}]
         /\ aborted' \in [Requests -> BOOLEAN]
         /\ expired' \in [Requests -> BOOLEAN]
         /\ resent' \in [Requests -> BOOLEAN]
         /\ limbo' \in [Requests -> Nat]
         /\ \/ /\ pc' = [pc EXCEPT ![r] = "ended"]
               /\ limbo' = left
               /\ \E why \in {"auth", "deadline", "cancelled"} :
                    outcome' = [outcome EXCEPT ![r] = why]
            \/ /\ pc' = [pc EXCEPT ![r] = "sending"]
               /\ limbo' = [left EXCEPT ![r] = IF kind[r] = "mutate" THEN @ + 1 ELSE @]
               /\ outcome' = outcome
<1> DEFINE Typed ==
      /\ pc' \in [Requests -> {"idle", "waiting", "leaving", "sending", "ended"}]
      /\ outcome' \in [Requests -> Outcomes]
      /\ answer' \in [Requests -> Requests \cup {Null}]
      /\ aborted' \in [Requests -> BOOLEAN]
      /\ expired' \in [Requests -> BOOLEAN]
      /\ resent' \in [Requests -> BOOLEAN]
<1>1. ASSUME NEW why \in {"auth", "deadline", "cancelled"}, End(r, why, Null), limbo' = left
      PROVE  /\ Typed
             /\ pc' = [pc EXCEPT ![r] = "ended"]
             /\ outcome' = [outcome EXCEPT ![r] = why]
  <2>1. why \in Outcomes
    BY DEF Outcomes, Failures
  <2> QED BY <1>1, <2>1, EndType
<1>2. ASSUME pc' = [pc EXCEPT ![r] = "sending"], resent' = again,
             UNCHANGED <<aborted, expired, outcome, answer>>
      PROVE  Typed
  BY <1>2 DEF TypeOK
<1>3. CASE End(r, "auth", Null) /\ limbo' = left
  BY <1>1, <1>3
<1>4. CASE End(r, "deadline", Null) /\ limbo' = left
  BY <1>1, <1>4
<1>5. CASE End(r, "cancelled", Null) /\ limbo' = left
  BY <1>1, <1>5
<1>6. CASE /\ pc' = [pc EXCEPT ![r] = "sending"]
           /\ limbo' = [left EXCEPT ![r] = IF kind[r] = "mutate" THEN @ + 1 ELSE @]
           /\ UNCHANGED <<aborted, expired, outcome, answer>>
           /\ resent' = again
  <2>1. limbo' \in [Requests -> Nat]
    BY <1>6
  <2> QED BY <1>2, <1>6, <2>1
<1> QED BY <1>3, <1>4, <1>5, <1>6 DEF Dispatch

-----------------------------------------------------------------------------
(***************************************************************************)
(* The waiters of a flight and their count.                                *)
(***************************************************************************)

\* A flight has finitely many waiters.
LEMMA CompanionsFinite ==
  ASSUME NEW f \in Requests
  PROVE  /\ IsFiniteSet(Companions(f))
         /\ Cardinality(Companions(f)) \in Nat
<1>1. IsFiniteSet(Companions(f))
  BY SessionAssumption, FS_Subset DEF Companions
<1> QED BY <1>1, FS_CardinalityType

\* A request that waits or leaves is still counted.
LEMMA Counted ==
  ASSUME TypeOK, WaitersCounted, HandshakeInv, NEW r \in Requests,
         pc[r] \in {"waiting", "leaving"}
  PROVE  joined[r] \in Requests /\ waiters[joined[r]] - 1 \in Nat
<1>1. joined[r] \in Requests
  BY DEF HandshakeInv
<1>2. r \in Companions(joined[r])
  BY DEF Companions
<1>3. Cardinality(Companions(joined[r])) # 0
  BY <1>1, <1>2, CompanionsFinite, FS_EmptySet
<1> QED BY <1>1, <1>3, CompanionsFinite DEF WaitersCounted

-----------------------------------------------------------------------------
(***************************************************************************)
(* Types.                                                                  *)
(***************************************************************************)

\* The initial state is well typed.
LEMMA InitType ==
  ASSUME Init
  PROVE  TypeOK
<1>1. kind \in [Requests -> AllKinds]
  BY SessionAssumption DEF Init
<1>2. "none" \in Outcomes /\ "none" \in Results /\ "null" \in Authorizations
  BY DEF Outcomes, Results, Authorizations
<1> QED BY <1>1, <1>2 DEF Init, TypeOK

\* The steps of a request keep every variable's type.
LEMMA RequestType ==
  ASSUME TypeOK, WaitersCounted, HandshakeInv, NEW r \in Requests, Request(r)
  PROVE  TypeOK'
<1>0. /\ Null \in Requests \cup {Null}
      /\ r \in Requests \cup {Null}
      /\ limbo \in [Requests -> Nat] /\ resent \in [Requests -> BOOLEAN]
      /\ auth \in Authorizations
      /\ {"auth"} \cup Failures \subseteq Outcomes
  BY DEF TypeOK, Outcomes
<1>1. CASE StartCancelled(r)
  <2>1. End(r, "cancelled", Null) /\ "cancelled" \in Outcomes
    BY <1>1 DEF StartCancelled, Outcomes, Failures
  <2> QED BY <1>0, <1>1, <2>1, EndType DEF StartCancelled, TypeOK, flightVars, routerVars
<1>2. CASE StartAuthorized(r)
  <2>1. Dispatch(r, auth, limbo, resent)
    BY <1>2 DEF StartAuthorized
  <2> QED BY <1>0, <1>2, <2>1, DispatchType DEF StartAuthorized, TypeOK, flightVars
<1>3. CASE Initiate(r)
  BY <1>3 DEF Initiate, Wait, TypeOK, routerVars
<1>4. CASE Join(r)
  BY <1>4 DEF Join, Wait, TypeOK, routerVars
<1>5. CASE Leave(r)
  <2>1. joined[r] \in Requests /\ waiters[joined[r]] - 1 \in Nat
    BY <1>5, Counted DEF Leave
  <2>2. waiters' \in [Requests -> Nat]
    BY <1>5, <2>1 DEF Leave, TypeOK
  <2>3. doomed' \in [Requests -> BOOLEAN]
    BY <1>5, <2>1 DEF Leave, TypeOK
  <2> QED BY <1>5, <2>2, <2>3 DEF Leave, Forget, TypeOK, routerVars
<1>6. CASE Resume(r)
  <2>1. joined[r] \in Requests /\ waiters[joined[r]] - 1 \in Nat
    BY <1>6, Counted DEF Resume
  <2>2. waiters' \in [Requests -> Nat]
    BY <1>6, <2>1 DEF Resume, TypeOK
  <2>3. joined' \in [Requests -> Requests \cup {Null}]
    BY <1>6 DEF Resume, TypeOK
  <2> DEFINE got == result[joined[r]]
  <2>4. CASE got \in {"auth"} \cup Failures /\ End(r, got, Null) /\ UNCHANGED <<limbo, proven>>
    BY <1>0, <1>6, <2>2, <2>3, <2>4, EndType DEF Resume, TypeOK
  <2>5. CASE got \in Statuses /\ Classify(r, got, joined[r]) /\ UNCHANGED limbo
    <3>1. End(r, Verdict(r, got), joined[r]) /\ Verdict(r, got) \in Outcomes
      BY <2>5, VerdictType DEF Classify
    <3>2. proven' \in BOOLEAN
      BY <2>5 DEF Classify, TypeOK
    <3> QED BY <1>0, <1>6, <2>1, <2>2, <2>3, <2>5, <3>1, <3>2, EndType DEF Resume, TypeOK
  <2>6. CASE Dispatch(r, auth, limbo, resent) /\ UNCHANGED proven
    BY <1>0, <1>6, <2>2, <2>3, <2>6, DispatchType DEF Resume, TypeOK
  <2> QED BY <1>6, <2>4, <2>5, <2>6 DEF Resume, OwnResponse
<1>7. CASE SendAnswered(r)
  <2> PICK status \in Statuses : RouterAnswers(r, status) /\ Classify(r, status, r)
    BY <1>7 DEF SendAnswered
  <2>1. End(r, Verdict(r, status), r) /\ Verdict(r, status) \in Outcomes
    BY VerdictType DEF Classify
  <2>2. proven' \in BOOLEAN
    BY DEF Classify, TypeOK
  <2>3. limbo' \in [Requests -> Nat]
    BY DEF RouterAnswers, TypeOK
  <2> QED BY <1>0, <1>7, <2>1, <2>2, <2>3, EndType DEF SendAnswered, TypeOK, flightVars
<1>8. CASE SendChallenged(r)
  <2> DEFINE left == [limbo EXCEPT ![r] = IF kind[r] = "mutate" THEN @ - 1 ELSE @]
  <2>1. left \in [Requests -> Nat]
    BY <1>8 DEF SendChallenged, TypeOK
  <2>2. CASE End(r, "auth", Null) /\ limbo' = left /\ UNCHANGED auth
    BY <1>0, <1>8, <2>1, <2>2, EndType DEF SendChallenged, TypeOK, flightVars
  <2>3. CASE /\ auth' \in {"usable", "unusable"}
             /\ Dispatch(r, auth', left, [resent EXCEPT ![r] = TRUE])
    <3>1. [resent EXCEPT ![r] = TRUE] \in [Requests -> BOOLEAN]
      BY <1>0
    <3>2. auth' \in Authorizations
      BY <2>3 DEF Authorizations
    <3> QED BY <1>0, <1>8, <2>1, <2>3, <3>1, <3>2, DispatchType
            DEF SendChallenged, TypeOK, flightVars
  <2> QED BY <1>8, <2>2, <2>3 DEF SendChallenged
<1>9. CASE SendFails(r)
  <2> PICK why \in Failures : End(r, why, Null)
    BY <1>9 DEF SendFails
  <2> QED BY <1>0, <1>9, EndType DEF SendFails, TypeOK, flightVars, routerVars
<1> QED BY <1>1, <1>2, <1>3, <1>4, <1>5, <1>6, <1>7, <1>8, <1>9 DEF Request

\* So does the end of a discovery.
LEMMA DiscoveryType ==
  ASSUME TypeOK, NEW f \in Requests, Discovery(f)
  PROVE  TypeOK'
<1>1. ASSUME NEW r \in Results, NEW a \in Authorizations, Settle(f, r, a)
      PROVE  TypeOK'
  BY <1>1 DEF Settle, TypeOK, requestVars, routerVars
<1>2. CASE DiscoveryChallenged(f)
  BY <1>1, <1>2 DEF DiscoveryChallenged, Results, Authorizations
<1>3. CASE DiscoveryDirect(f)
  BY <1>1, <1>3 DEF DiscoveryDirect, Results, Authorizations
<1>4. CASE DiscoveryRefused(f)
  BY <1>1, <1>4 DEF DiscoveryRefused, Results, TypeOK
<1>5. CASE DiscoveryFails(f)
  BY <1>1, <1>5 DEF DiscoveryFails, Results, TypeOK
<1> QED BY <1>2, <1>3, <1>4, <1>5 DEF Discovery

\* So do signals, the clock and the router.
LEMMA EnvironmentType ==
  ASSUME TypeOK, NEW r \in Requests, Environment(r)
  PROVE  TypeOK'
<1>1. ASSUME NEW why \in Outcomes, Interrupt(r, why)
      PROVE  /\ pc' \in [Requests -> {"idle", "waiting", "leaving", "sending", "ended"}]
             /\ outcome' \in [Requests -> Outcomes]
  BY <1>1 DEF Interrupt, TypeOK
<1>2. CASE Abort(r)
  <2>1. Interrupt(r, "cancelled") /\ "cancelled" \in Outcomes
    BY <1>2 DEF Abort, Outcomes, Failures
  <2> QED BY <1>1, <1>2, <2>1 DEF Abort, TypeOK, flightVars, routerVars
<1>3. CASE Expire(r)
  <2>1. Interrupt(r, "deadline") /\ "deadline" \in Outcomes
    BY <1>3 DEF Expire, Outcomes, Failures
  <2> QED BY <1>1, <1>3, <2>1 DEF Expire, TypeOK, flightVars, routerVars
<1>4. CASE Execute(r)
  BY <1>4 DEF Execute, TypeOK, requestVars, flightVars
<1>5. CASE Lose(r)
  BY <1>5 DEF Lose, TypeOK, requestVars, flightVars
<1> QED BY <1>2, <1>3, <1>4, <1>5 DEF Environment

-----------------------------------------------------------------------------
(***************************************************************************)
(* WaitersCounted.                                                         *)
(***************************************************************************)
Waits(x) == x \in {"waiting", "leaving"}

\* A step that makes nobody a waiter and no waiter anything else.
LEMMA SameCompanions ==
  ASSUME TypeOK, WaitersCounted, NEW r \in Requests, NEW x,
         pc' = [pc EXCEPT ![r] = x], Waits(x) <=> Waits(pc[r]),
         joined' = joined, waiters' = waiters
  PROVE  WaitersCounted'
<1>1. ASSUME NEW f \in Requests
      PROVE  Companions(f)' = Companions(f)
  BY DEF Companions, Waits, TypeOK
<1> QED BY <1>1 DEF WaitersCounted

\* A step by which r comes to wait for f.
LEMMA NewCompanion ==
  ASSUME TypeOK, WaitersCounted, NEW r \in Requests, NEW f \in Requests,
         pc[r] = "idle", Wait(r, f)
  PROVE  WaitersCounted'
<1>1. Companions(f)' = Companions(f) \cup {r} /\ r \notin Companions(f)
  BY DEF Wait, Companions, TypeOK
<1>2. Cardinality(Companions(f)') = Cardinality(Companions(f)) + 1
  BY <1>1, CompanionsFinite, FS_AddElement
<1>3. waiters'[f] = Cardinality(Companions(f)')
  BY <1>2 DEF Wait, WaitersCounted, TypeOK
<1>4. ASSUME NEW g \in Requests \ {f}
      PROVE  Companions(g)' = Companions(g) /\ waiters'[g] = waiters[g]
  BY DEF Wait, Companions, TypeOK
<1> QED BY <1>3, <1>4 DEF WaitersCounted

\* A step by which r stops waiting.
LEMMA CompanionGone ==
  ASSUME TypeOK, WaitersCounted, HandshakeInv, NEW r \in Requests,
         Waits(pc[r]), NEW x, ~Waits(x), pc' = [pc EXCEPT ![r] = x],
         joined' = [joined EXCEPT ![r] = Null],
         waiters' = [waiters EXCEPT ![joined[r]] = @ - 1]
  PROVE  WaitersCounted'
<1>1. PICK f \in Requests : f = joined[r]
  BY DEF HandshakeInv, Waits
<1>2. Companions(f)' = Companions(f) \ {r} /\ r \in Companions(f)
  <2>1. ASSUME NEW q \in Requests
        PROVE  q \in Companions(f)' <=> q \in Companions(f) \ {r}
    <3>1. CASE q = r
      BY <3>1 DEF Companions, Waits, TypeOK
    <3>2. CASE q # r
      BY <3>2 DEF Companions, Waits, TypeOK
    <3> QED BY <3>1, <3>2
  <2>2. r \in Companions(f)
    BY <1>1 DEF Companions, Waits
  <2>3. Companions(f)' \subseteq Requests /\ Companions(f) \subseteq Requests
    BY DEF Companions
  <2> QED BY <2>1, <2>2, <2>3
<1>3. Cardinality(Companions(f)') = Cardinality(Companions(f)) - 1
  BY <1>1, <1>2, CompanionsFinite, FS_RemoveElement
<1>4. waiters'[f] = Cardinality(Companions(f)')
  BY <1>1, <1>3 DEF WaitersCounted, TypeOK
<1>5. ASSUME NEW g \in Requests \ {f}
      PROVE  Companions(g)' = Companions(g) /\ waiters'[g] = waiters[g]
  <2>1. ASSUME NEW q \in Requests
        PROVE  q \in Companions(g)' <=> q \in Companions(g)
    <3>1. CASE q = r
      BY <1>1, <3>1 DEF Companions, Waits, TypeOK
    <3>2. CASE q # r
      BY <3>2 DEF Companions, Waits, TypeOK
    <3> QED BY <3>1, <3>2
  <2>2. waiters'[g] = waiters[g]
    BY <1>1 DEF TypeOK
  <2> QED BY <2>1, <2>2 DEF Companions
<1> QED BY <1>4, <1>5 DEF WaitersCounted

\* What a request's own end or dispatch makes of its control state.
LEMMA EndOrSend ==
  ASSUME NEW r \in Requests, NEW why, NEW status, NEW from, NEW a, NEW left, NEW again,
         \/ End(r, why, from)
         \/ Classify(r, status, from)
         \/ Dispatch(r, a, left, again)
  PROVE  \E x : ~Waits(x) /\ pc' = [pc EXCEPT ![r] = x] /\ x \in {"ended", "sending"}
BY DEF End, Classify, Dispatch, Waits

\* At first there are no waiters and none are counted.
LEMMA InitCounted == Init => WaitersCounted
<1> SUFFICES ASSUME Init, NEW f \in Requests
             PROVE  waiters[f] = Cardinality(Companions(f))
  BY DEF WaitersCounted
<1>1. Companions(f) = {}
  BY DEF Init, Companions
<1> QED BY <1>1, FS_EmptySet DEF Init

\* Every step keeps flight.waiters the number of waiters.
LEMMA StepCounted ==
  ASSUME TypeOK, WaitersCounted, HandshakeInv, NEW r \in Requests,
         Request(r) \/ Discovery(r) \/ Environment(r)
  PROVE  WaitersCounted'
<1>1. CASE StartCancelled(r) \/ StartAuthorized(r)
  <2>1. ~Waits(pc[r]) /\ joined' = joined /\ waiters' = waiters
    BY <1>1 DEF StartCancelled, StartAuthorized, flightVars, Waits
  <2> PICK x : ~Waits(x) /\ pc' = [pc EXCEPT ![r] = x]
    BY <1>1, EndOrSend DEF StartCancelled, StartAuthorized
  <2> QED BY <2>1, SameCompanions
<1>2. CASE Initiate(r) \/ Join(r)
  <2>1. \E f \in Requests : pc[r] = "idle" /\ Wait(r, f)
    BY <1>2 DEF Initiate, Join, TypeOK
  <2> QED BY <2>1, NewCompanion
<1>3. CASE Leave(r)
  <2>1. ~Waits("ended") /\ Waits(pc[r])
    BY <1>3 DEF Leave, Waits
  <2> QED BY <1>3, <2>1, CompanionGone DEF Leave
<1>4. CASE Resume(r)
  <2>1. Waits(pc[r])
    BY <1>4 DEF Resume, Waits
  <2> PICK x : ~Waits(x) /\ pc' = [pc EXCEPT ![r] = x]
    BY <1>4, EndOrSend DEF Resume
  <2> QED BY <1>4, <2>1, CompanionGone DEF Resume
<1>5. CASE SendAnswered(r) \/ SendChallenged(r) \/ SendFails(r)
  <2>1. ~Waits(pc[r]) /\ joined' = joined /\ waiters' = waiters
    BY <1>5 DEF SendAnswered, SendChallenged, SendFails, flightVars, Waits
  <2> PICK x : ~Waits(x) /\ pc' = [pc EXCEPT ![r] = x]
    BY <1>5, EndOrSend DEF SendAnswered, SendChallenged, SendFails
  <2> QED BY <2>1, SameCompanions
<1>6. CASE Discovery(r)
  <2>1. pc' = pc /\ joined' = joined /\ waiters' = waiters
    BY <1>6 DEF Discovery, DiscoveryChallenged, DiscoveryDirect, DiscoveryRefused,
                DiscoveryFails, Settle, requestVars
  <2>2. pc' = [pc EXCEPT ![r] = pc[r]]
    BY <2>1 DEF TypeOK
  <2> QED BY <2>1, <2>2, SameCompanions
<1>7. CASE Environment(r)
  <2>1. joined' = joined /\ waiters' = waiters
    BY <1>7 DEF Environment, Abort, Expire, Execute, Lose, requestVars, flightVars
  <2>2. \/ pc' = pc
        \/ pc' = [pc EXCEPT ![r] = "leaving"] /\ pc[r] = "waiting"
    BY <1>7 DEF Environment, Abort, Expire, Execute, Lose, Interrupt, requestVars
  <2>3. \E x : pc' = [pc EXCEPT ![r] = x] /\ (Waits(x) <=> Waits(pc[r]))
    BY <2>2 DEF Waits, TypeOK
  <2> QED BY <2>1, <2>3, SameCompanions
<1> QED BY <1>1, <1>2, <1>3, <1>4, <1>5, <1>6, <1>7 DEF Request

-----------------------------------------------------------------------------
(***************************************************************************)
(* HandshakeInv.                                                           *)
(***************************************************************************)

\* At first there is no flight.
LEMMA InitHandshake == Init => HandshakeInv
BY SessionAssumption DEF Init, HandshakeInv, Statuses

\* Steps that leave the flights alone and may only make a sender of r.
LEMMA FlightsAlone ==
  ASSUME TypeOK, HandshakeInv, NEW r \in Requests, NEW x,
         pc' = [pc EXCEPT ![r] = x], x \in {"ended", "sending", pc[r]},
         x = "sending" => auth' # "null",
         auth' = auth \/ (auth # "null" /\ auth' # "null"),
         UNCHANGED <<kind, handshake, phase, result>>,
         joined' = joined \/ (joined' = [joined EXCEPT ![r] = Null] /\ ~Waits(x))
  PROVE  HandshakeInv'
<1>1. ASSUME NEW q \in Requests, Waits(pc'[q])
      PROVE  Waits(pc[q]) /\ joined'[q] = joined[q]
  <2>1. CASE q = r
    BY <1>1, <2>1 DEF Waits, TypeOK
  <2>2. CASE q # r
    BY <1>1, <2>2 DEF Waits, TypeOK
  <2> QED BY <2>1, <2>2
<1>2. \A q \in Requests : pc'[q] = "sending" => pc[q] = "sending" \/ q = r
  BY DEF TypeOK
<1>3. \A q \in Requests : pc'[q] = "sending" => auth' # "null"
  BY <1>2 DEF HandshakeInv, TypeOK
<1>4. \A q \in Requests :
        Waits(pc'[q]) => joined'[q] \in Requests /\ phase'[joined'[q]] # "none"
  BY <1>1 DEF HandshakeInv, Waits
<1> QED BY <1>3, <1>4 DEF HandshakeInv, Waits, Operational

\* Every step keeps what is known of the handshake.
LEMMA StepHandshake ==
  ASSUME TypeOK, HandshakeInv, NEW r \in Requests,
         Request(r) \/ Discovery(r) \/ Environment(r)
  PROVE  HandshakeInv'
<1>1. CASE StartCancelled(r) \/ SendFails(r)
  <2>1. /\ pc' = [pc EXCEPT ![r] = "ended"]
        /\ UNCHANGED <<kind, handshake, phase, result, joined, auth>>
    BY <1>1 DEF StartCancelled, SendFails, End, flightVars
  <2> QED BY <2>1, FlightsAlone
<1>2. CASE StartAuthorized(r)
  <2>1. auth # "null" /\ UNCHANGED <<kind, handshake, phase, result, joined, auth>>
    BY <1>2 DEF StartAuthorized, flightVars
  <2> PICK x : pc' = [pc EXCEPT ![r] = x] /\ x \in {"ended", "sending"}
    BY <1>2, EndOrSend DEF StartAuthorized
  <2> QED BY <2>1, FlightsAlone
<1>3. CASE Initiate(r)
  <2>1. \A q \in Requests : q # r => phase[q] # "running"
    BY <1>3, SessionAssumption DEF Initiate, HandshakeInv
  <2>2. \A q \in Requests : phase'[q] = "running" <=> handshake' = q
    BY <1>3, <2>1 DEF Initiate, TypeOK
  <2>3. /\ \A q \in Requests : pc'[q] = "sending" => pc[q] = "sending"
        /\ \A q \in Requests : Waits(pc'[q]) =>
             IF q = r THEN joined'[q] = r ELSE Waits(pc[q]) /\ joined'[q] = joined[q]
        /\ \A q \in Requests : phase'[q] = IF q = r THEN "running" ELSE phase[q]
        /\ UNCHANGED <<auth, result, kind>>
    BY <1>3 DEF Initiate, Wait, Waits, TypeOK
  <2> QED BY <1>3, <2>2, <2>3 DEF Initiate, HandshakeInv, Waits, Operational
<1>4. CASE Join(r)
  <2>1. handshake \in Requests /\ phase[handshake] = "running"
    BY <1>4 DEF Join, HandshakeInv, TypeOK
  <2>2. /\ \A q \in Requests : pc'[q] = "sending" => pc[q] = "sending"
        /\ \A q \in Requests : Waits(pc'[q]) =>
             IF q = r THEN joined'[q] = handshake
             ELSE Waits(pc[q]) /\ joined'[q] = joined[q]
        /\ UNCHANGED <<auth, result, kind, handshake, phase>>
    BY <1>4, <2>1 DEF Join, Wait, Waits, TypeOK
  <2> QED BY <2>1, <2>2 DEF HandshakeInv, Waits, Operational
<1>5. CASE Leave(r)
  <2>1. /\ pc' = [pc EXCEPT ![r] = "ended"]
        /\ joined' = [joined EXCEPT ![r] = Null]
        /\ UNCHANGED <<kind, handshake, phase, result, auth>>
    BY <1>5 DEF Leave
  <2> QED BY <2>1, FlightsAlone DEF Waits
<1>6. CASE Resume(r)
  <2>1. /\ joined' = [joined EXCEPT ![r] = Null]
        /\ UNCHANGED <<kind, handshake, phase, result, auth>>
    BY <1>6 DEF Resume
  <2>2. joined[r] \in Requests /\ phase[joined[r]] = "settled"
    BY <1>6 DEF Resume, HandshakeInv
  <2>3. CASE pc' = [pc EXCEPT ![r] = "ended"]
    BY <2>1, <2>3, FlightsAlone DEF Waits
  <2>4. CASE /\ result[joined[r]] \in {"proceed"} \cup Statuses
             /\ Dispatch(r, auth, limbo, resent)
    <3>1. auth # "null"
      BY <2>2, <2>4 DEF HandshakeInv
    <3> PICK x : ~Waits(x) /\ pc' = [pc EXCEPT ![r] = x] /\ x \in {"ended", "sending"}
      BY <2>4, EndOrSend
    <3> QED BY <2>1, <3>1, FlightsAlone
  <2> QED BY <1>6, <2>3, <2>4 DEF Resume, End, Classify, OwnResponse
<1>7. CASE SendAnswered(r)
  <2>1. /\ pc' = [pc EXCEPT ![r] = "ended"]
        /\ UNCHANGED <<kind, handshake, phase, result, joined, auth>>
    BY <1>7 DEF SendAnswered, Classify, End, flightVars
  <2> QED BY <2>1, FlightsAlone
<1>8. CASE SendChallenged(r)
  <2>1. UNCHANGED <<kind, handshake, phase, result, joined>>
    BY <1>8 DEF SendChallenged, flightVars
  <2>2. auth # "null"
    BY <1>8 DEF SendChallenged, HandshakeInv
  <2>3. auth' # "null" /\ (auth' = auth \/ (auth # "null" /\ auth' # "null"))
    BY <1>8, <2>2 DEF SendChallenged
  <2> PICK x : pc' = [pc EXCEPT ![r] = x] /\ x \in {"ended", "sending"}
    BY <1>8, EndOrSend DEF SendChallenged
  <2> QED BY <2>1, <2>3, FlightsAlone
<1>9. ASSUME NEW res \in Results, NEW a \in Authorizations, Settle(r, res, a),
             res \in {"proceed"} \cup Statuses => a # "null",
             res \in Statuses => Operational(r),
             a = auth \/ a # "null"
      PROVE  HandshakeInv'
  <2>1. handshake = r /\ handshake' = Null /\ auth' = a
    BY <1>9 DEF Settle, HandshakeInv
  <2>2. /\ \A q \in Requests : phase'[q] = IF q = r THEN "settled" ELSE phase[q]
        /\ \A q \in Requests : result'[q] = IF q = r THEN res ELSE result[q]
        /\ UNCHANGED <<pc, joined, kind>>
    BY <1>9 DEF Settle, TypeOK, requestVars
  <2>3. auth = "null" /\ \A q \in Requests : phase[q] = "running" => q = r
    BY <1>9, <2>1, SessionAssumption DEF HandshakeInv, Settle
  <2>4. \A q \in Requests : phase'[q] = "running" <=> handshake' = q
    BY <2>1, <2>2, <2>3, SessionAssumption
  <2>5. \A q \in Requests :
          phase'[q] = "settled" /\ result'[q] \in {"proceed"} \cup Statuses => auth' # "null"
    BY <1>9, <2>1, <2>2, <2>3 DEF HandshakeInv
  <2>6. \A q \in Requests : pc'[q] = "sending" => auth' # "null"
    BY <2>2, <2>3 DEF HandshakeInv
  <2>7. \A q \in Requests : result'[q] \in Statuses => Operational(q)'
    BY <1>9, <2>2 DEF HandshakeInv, Operational
  <2>8. \A q \in Requests : pc'[q] \in {"waiting", "leaving"} =>
          joined'[q] \in Requests /\ phase'[joined'[q]] # "none"
    BY <2>2 DEF HandshakeInv
  <2> QED BY <2>1, <2>4, <2>5, <2>6, <2>7, <2>8 DEF HandshakeInv
<1>10. CASE Discovery(r)
  <2>1. CASE DiscoveryChallenged(r)
    BY <1>9, <2>1 DEF DiscoveryChallenged, Results, Authorizations, Statuses
  <2>2. CASE DiscoveryDirect(r)
    <3> PICK status \in Statuses \ {"401"} :
          Settle(r, IF Operational(r) THEN status ELSE "proceed", "usable")
      BY <2>2 DEF DiscoveryDirect
    <3>1. CASE Operational(r)
      BY <1>9, <3>1 DEF Results, Authorizations
    <3>2. CASE ~Operational(r)
      BY <1>9, <3>2 DEF Results, Authorizations, Statuses
    <3> QED BY <3>1, <3>2
  <2>3. CASE DiscoveryRefused(r)
    BY <1>9, <2>3 DEF DiscoveryRefused, Results, TypeOK, Statuses
  <2>4. CASE DiscoveryFails(r)
    BY <1>9, <2>4 DEF DiscoveryFails, Results, TypeOK, Statuses, Failures
  <2> QED BY <1>10, <2>1, <2>2, <2>3, <2>4 DEF Discovery
<1>11. CASE Environment(r)
  <2>1. UNCHANGED <<kind, handshake, phase, result, joined, auth>>
    BY <1>11 DEF Environment, Abort, Expire, Execute, Lose, requestVars, flightVars
  <2>2. \/ pc' = pc
        \/ pc' = [pc EXCEPT ![r] = "leaving"] /\ pc[r] = "waiting"
    BY <1>11 DEF Environment, Abort, Expire, Execute, Lose, Interrupt, requestVars
  <2>3. \A q \in Requests :
          /\ pc'[q] = "sending" => pc[q] = "sending"
          /\ Waits(pc'[q]) => Waits(pc[q])
    BY <2>2 DEF Waits, TypeOK
  <2> QED BY <2>1, <2>3 DEF HandshakeInv, Waits, Operational
<1> QED BY <1>1, <1>2, <1>3, <1>4, <1>5, <1>6, <1>7, <1>8, <1>10, <1>11 DEF Request

-----------------------------------------------------------------------------
(***************************************************************************)
(* OnceInv.                                                                *)
(***************************************************************************)

\* At first the router holds nothing and has run nothing.
LEMMA InitOnce ==
  ASSUME Init
  PROVE  OnceInv
BY DEF Init, OnceInv, Once

\* A request ends; what it left with the router is unchanged or just refused.
LEMMA OnceEnd ==
  ASSUME TypeOK, OnceInv, NEW r \in Requests,
         pc' = [pc EXCEPT ![r] = "ended"],
         \A q \in Requests \ {r} : outcome'[q] = outcome[q],
         \/ limbo' = limbo
         \/ limbo' = [limbo EXCEPT ![r] = @ - 1] /\ limbo[r] > 0,
         UNCHANGED <<kind, executed>>
  PROVE  OnceInv'
<1>1. Once(r)'
  <2>1. pc'[r] = "ended"
    BY DEF TypeOK
  <2>2. limbo[r] \in Nat /\ executed[r] \in Nat
    BY DEF TypeOK
  <2>3. limbo'[r] = limbo[r] \/ (limbo'[r] = limbo[r] - 1 /\ limbo[r] > 0)
    BY DEF TypeOK
  <2> QED BY <2>1, <2>2, <2>3 DEF OnceInv, Once
<1>2. ASSUME NEW q \in Requests \ {r}
      PROVE  Once(q)'
  <2>1. pc'[q] = pc[q] /\ limbo'[q] = limbo[q] /\ outcome'[q] = outcome[q]
    BY DEF TypeOK
  <2> QED BY <2>1 DEF OnceInv, Once
<1> QED BY <1>1, <1>2 DEF OnceInv

\* A request of which the router holds nothing and has run nothing is dispatched.
LEMMA OnceDispatch ==
  ASSUME TypeOK, OnceInv, NEW r \in Requests, NEW a \in Authorizations,
         NEW left \in [Requests -> Nat], NEW again \in [Requests -> BOOLEAN],
         Dispatch(r, a, left, again),
         left[r] + executed[r] = 0, \A q \in Requests \ {r} : left[q] = limbo[q],
         outcome[r] = "none", UNCHANGED <<kind, executed>>
  PROVE  OnceInv'
<1>0. left[r] \in Nat /\ executed[r] \in Nat /\ left[r] = 0 /\ executed[r] = 0
  BY DEF TypeOK
<1>1. CASE /\ pc' = [pc EXCEPT ![r] = "ended"]
           /\ limbo' = left
           /\ \E why \in {"auth", "deadline", "cancelled"} :
                outcome' = [outcome EXCEPT ![r] = why]
  <2>1. Once(r)'
    BY <1>0, <1>1 DEF TypeOK, Once
  <2>2. ASSUME NEW q \in Requests \ {r}
        PROVE  Once(q)'
    <3>1. pc'[q] = pc[q] /\ limbo'[q] = limbo[q] /\ outcome'[q] = outcome[q]
      BY <1>1 DEF TypeOK
    <3> QED BY <3>1 DEF OnceInv, Once
  <2> QED BY <2>1, <2>2 DEF OnceInv
<1>2. CASE /\ pc' = [pc EXCEPT ![r] = "sending"]
           /\ limbo' = [left EXCEPT ![r] = IF kind[r] = "mutate" THEN @ + 1 ELSE @]
           /\ outcome' = outcome
  <2>1. pc'[r] = "sending" /\ limbo'[r] = IF kind[r] = "mutate" THEN 1 ELSE 0
    BY <1>0, <1>2 DEF TypeOK
  <2>2. Once(r)'
    BY <1>0, <1>2, <2>1 DEF Once
  <2>3. ASSUME NEW q \in Requests \ {r}
        PROVE  Once(q)'
    <3>1. pc'[q] = pc[q] /\ limbo'[q] = limbo[q] /\ outcome'[q] = outcome[q]
      BY <1>2 DEF TypeOK
    <3> QED BY <3>1 DEF OnceInv, Once
  <2> QED BY <2>2, <2>3 DEF OnceInv
<1> QED BY <1>1, <1>2, DispatchType

\* The router's side changes for r alone.
LEMMA OnceRouter ==
  ASSUME TypeOK, OnceInv, NEW r \in Requests, Execute(r) \/ Lose(r)
  PROVE  OnceInv'
<1>1. /\ limbo[r] \in Nat /\ executed[r] \in Nat /\ limbo[r] > 0
      /\ limbo'[r] = limbo[r] - 1
      /\ executed'[r] \in {executed[r], executed[r] + 1}
      /\ \A q \in Requests \ {r} : limbo'[q] = limbo[q] /\ executed'[q] = executed[q]
      /\ UNCHANGED <<pc, kind, outcome>>
  BY DEF Execute, Lose, TypeOK, requestVars
<1>2. Once(r)'
  BY <1>1 DEF OnceInv, Once
<1>3. ASSUME NEW q \in Requests \ {r}
      PROVE  Once(q)'
  BY <1>1 DEF OnceInv, Once
<1> QED BY <1>2, <1>3 DEF OnceInv

\* Every step leaves a mutation with the router once at most.
LEMMA StepOnce ==
  ASSUME TypeOK, OnceInv, NEW r \in Requests,
         Request(r) \/ Discovery(r) \/ Environment(r)
  PROVE  OnceInv'
<1>0. /\ limbo \in [Requests -> Nat] /\ executed \in [Requests -> Nat]
      /\ limbo[r] \in Nat /\ executed[r] \in Nat
      /\ resent \in [Requests -> BOOLEAN] /\ auth \in Authorizations
  BY DEF TypeOK
<1>1. CASE StartCancelled(r) \/ SendFails(r)
  <2>1. /\ pc' = [pc EXCEPT ![r] = "ended"]
        /\ \A q \in Requests \ {r} : outcome'[q] = outcome[q]
        /\ UNCHANGED <<kind, executed, limbo>>
    BY <1>1 DEF StartCancelled, SendFails, End, routerVars, TypeOK
  <2> QED BY <2>1, OnceEnd
<1>2. CASE StartAuthorized(r)
  <2>1. limbo[r] + executed[r] = 0 /\ outcome[r] = "none"
    BY <1>2 DEF StartAuthorized, OnceInv, Once
  <2> QED BY <1>0, <1>2, <2>1, OnceDispatch DEF StartAuthorized
<1>3. CASE Initiate(r) \/ Join(r)
  <2>1. /\ pc[r] = "idle" /\ UNCHANGED <<limbo, executed, outcome, kind>>
        /\ \A q \in Requests : pc'[q] = IF q = r THEN "waiting" ELSE pc[q]
    BY <1>3 DEF Initiate, Join, Wait, routerVars, TypeOK
  <2> QED BY <2>1 DEF OnceInv, Once
<1>4. CASE Leave(r)
  <2>1. /\ pc' = [pc EXCEPT ![r] = "ended"]
        /\ UNCHANGED <<kind, executed, limbo, outcome>>
    BY <1>4 DEF Leave, routerVars
  <2> QED BY <2>1, OnceEnd
<1>5. CASE Resume(r)
  <2>1. limbo[r] + executed[r] = 0 /\ outcome[r] = "none"
    BY <1>5 DEF Resume, OnceInv, Once
  <2>2. UNCHANGED <<kind, executed>>
    BY <1>5 DEF Resume
  <2>3. CASE /\ \/ End(r, result[joined[r]], Null)
                \/ Classify(r, result[joined[r]], joined[r])
             /\ limbo' = limbo
    <3>1. /\ pc' = [pc EXCEPT ![r] = "ended"]
          /\ \A q \in Requests \ {r} : outcome'[q] = outcome[q]
      BY <2>3 DEF Classify, End, TypeOK
    <3> QED BY <2>2, <2>3, <3>1, OnceEnd
  <2>4. CASE Dispatch(r, auth, limbo, resent)
    BY <1>0, <2>1, <2>2, <2>4, OnceDispatch
  <2> QED BY <1>5, <2>3, <2>4 DEF Resume
<1>6. CASE SendAnswered(r)
  <2> PICK status \in Statuses : RouterAnswers(r, status) /\ Classify(r, status, r)
    BY <1>6 DEF SendAnswered
  <2>1. /\ pc' = [pc EXCEPT ![r] = "ended"]
        /\ \A q \in Requests \ {r} : outcome'[q] = outcome[q]
        /\ UNCHANGED <<kind, executed>>
    BY <1>6 DEF SendAnswered, Classify, End, TypeOK
  <2>2. limbo' = limbo \/ (limbo' = [limbo EXCEPT ![r] = @ - 1] /\ limbo[r] > 0)
    BY DEF RouterAnswers
  <2> QED BY <2>1, <2>2, OnceEnd
<1>7. CASE SendChallenged(r)
  <2>1. PICK left : left = [limbo EXCEPT ![r] = IF kind[r] = "mutate" THEN @ - 1 ELSE @]
    OBVIOUS
  <2>2. /\ left \in [Requests -> Nat] /\ left[r] + executed[r] = 0
        /\ \A q \in Requests \ {r} : left[q] = limbo[q]
        /\ outcome[r] = "none"
    BY <1>0, <1>7, <2>1 DEF SendChallenged, OnceInv, Once
  <2>3. UNCHANGED <<kind, executed>>
    BY <1>7 DEF SendChallenged
  <2>4. CASE End(r, "auth", Null) /\ limbo' = left
    <3>1. /\ pc' = [pc EXCEPT ![r] = "ended"]
          /\ \A q \in Requests \ {r} : outcome'[q] = outcome[q]
      BY <2>4 DEF End, TypeOK
    <3>2. \/ limbo' = limbo
          \/ limbo' = [limbo EXCEPT ![r] = @ - 1] /\ limbo[r] > 0
      BY <1>0, <1>7, <2>1, <2>4 DEF SendChallenged
    <3> QED BY <2>3, <3>1, <3>2, OnceEnd
  <2>5. CASE /\ auth' \in {"usable", "unusable"}
             /\ Dispatch(r, auth', left, [resent EXCEPT ![r] = TRUE])
    <3>1. auth' \in Authorizations /\ [resent EXCEPT ![r] = TRUE] \in [Requests -> BOOLEAN]
      BY <1>0, <2>5 DEF Authorizations
    <3> QED BY <2>2, <2>3, <2>5, <3>1, OnceDispatch
  <2> QED BY <1>7, <2>1, <2>4, <2>5 DEF SendChallenged
<1>8. CASE Discovery(r)
  <2>1. UNCHANGED <<pc, kind, outcome, limbo, executed>>
    BY <1>8 DEF Discovery, DiscoveryChallenged, DiscoveryDirect, DiscoveryRefused,
                DiscoveryFails, Settle, requestVars, routerVars
  <2> QED BY <2>1 DEF OnceInv, Once
<1>9. CASE Abort(r) \/ Expire(r)
  <2>1. UNCHANGED <<kind, limbo, executed>>
    BY <1>9 DEF Abort, Expire, routerVars
  <2>2. \/ UNCHANGED <<pc, outcome>>
        \/ /\ pc[r] = "waiting" /\ pc' = [pc EXCEPT ![r] = "leaving"]
           /\ \A q \in Requests \ {r} : outcome'[q] = outcome[q]
    BY <1>9 DEF Abort, Expire, Interrupt, TypeOK
  <2>3. \A q \in Requests :
          \/ pc'[q] = pc[q] /\ outcome'[q] = outcome[q]
          \/ q = r /\ pc[q] = "waiting" /\ pc'[q] = "leaving"
    BY <2>2 DEF TypeOK
  <2> QED BY <2>1, <2>3 DEF OnceInv, Once
<1> QED BY <1>1, <1>2, <1>3, <1>4, <1>5, <1>6, <1>7, <1>8, <1>9, OnceRouter
        DEF Request, Environment

-----------------------------------------------------------------------------
(***************************************************************************)
(* Inv is an invariant.                                                    *)
(***************************************************************************)

\* The three parts and the types together are inductive.
LEMMA StepInv ==
  ASSUME Inv, [Next]_vars
  PROVE  Inv'
<1>1. CASE UNCHANGED vars
  BY <1>1 DEF Inv, TypeOK, WaitersCounted, HandshakeInv, OnceInv, Once, Companions,
              Operational, vars, requestVars, flightVars, routerVars
<1>2. CASE Next
  <2> PICK r \in Requests : Request(r) \/ Discovery(r) \/ Environment(r)
    BY <1>2 DEF Next
  <2> QED BY RequestType, DiscoveryType, EnvironmentType, StepCounted, StepHandshake,
             StepOnce DEF Inv
<1> QED BY <1>1, <1>2

\* The inductive invariant: types, the count of waiters, the state of the
\* handshake, and what the router holds of every mutation.
THEOREM Invariant == Safety => []Inv
<1>1. Init => Inv
  BY InitType, InitCounted, InitHandshake, InitOnce DEF Inv
<1>2. Inv /\ [Next]_vars => Inv'
  BY StepInv
<1> QED BY <1>1, <1>2, PTL DEF Safety

\* Every variable keeps its type, and no waiter count goes below zero.
THEOREM TypeCorrect == Spec => []TypeOK
<1>1. Inv => TypeOK
  BY DEF Inv
<1> QED BY <1>1, Invariant, PTL DEF Spec

\* Two discoveries never run at once, and nobody sends while one runs.
THEOREM HandshakeIsShared == Spec => []OneHandshake
<1>1. Inv => OneHandshake
  BY SessionAssumption DEF Inv, HandshakeInv, OneHandshake
<1> QED BY <1>1, Invariant, PTL DEF Spec

\* No request is sent before a handshake has settled how to authorize it.
THEOREM NothingSentUnauthorized == Spec => []SendsAfterHandshake
<1>1. Inv => SendsAfterHandshake
  BY DEF Inv, HandshakeInv, SendsAfterHandshake
<1> QED BY <1>1, Invariant, PTL DEF Spec

-----------------------------------------------------------------------------
(***************************************************************************)
(* Whose response a caller is given.                                       *)
(***************************************************************************)

\* A request may end with its own response, or with none and no verdict that
\* takes one.
LEMMA EndAnswers ==
  ASSUME TypeOK, AnswersOwnRequest, NEW r \in Requests, NEW why, NEW from \in {Null, r},
         why \in {"ok", "error", "denied"} => from = r, End(r, why, from)
  PROVE  AnswersOwnRequest'
BY DEF TypeOK, AnswersOwnRequest, End

\* A request that is dispatched has no response yet.
LEMMA DispatchAnswers ==
  ASSUME TypeOK, AnswersOwnRequest, NEW r \in Requests, NEW a, NEW left, NEW again,
         Dispatch(r, a, left, again)
  PROVE  AnswersOwnRequest'
<1>1. CASE End(r, "auth", Null) \/ End(r, "deadline", Null) \/ End(r, "cancelled", Null)
  BY <1>1, EndAnswers
<1>2. CASE UNCHANGED <<outcome, answer>>
  BY <1>2 DEF AnswersOwnRequest
<1> QED BY <1>1, <1>2 DEF Dispatch

\* Every step gives a caller its own response or none.
LEMMA StepAnswers ==
  ASSUME TypeOK, AnswersOwnRequest, [Next]_vars
  PROVE  AnswersOwnRequest'
<1>1. CASE UNCHANGED vars
  BY <1>1 DEF AnswersOwnRequest, vars, requestVars
<1>2. CASE Next
  <2> PICK r \in Requests : Request(r) \/ Discovery(r) \/ Environment(r)
    BY <1>2 DEF Next
  <2>1. CASE StartCancelled(r)
    BY <2>1, EndAnswers DEF StartCancelled
  <2>2. CASE StartAuthorized(r)
    BY <2>2, DispatchAnswers DEF StartAuthorized
  <2>3. CASE Initiate(r) \/ Join(r) \/ Leave(r) \/ Discovery(r) \/ Execute(r) \/ Lose(r)
    <3>1. UNCHANGED <<outcome, answer>>
      BY <2>3 DEF Initiate, Join, Wait, Leave, Discovery, DiscoveryChallenged, DiscoveryDirect,
                  DiscoveryRefused, DiscoveryFails, Settle, Execute, Lose, requestVars
    <3> QED BY <3>1 DEF AnswersOwnRequest
  <2>4. CASE Resume(r)
    <3>1. CASE /\ result[joined[r]] \in {"auth"} \cup Failures
               /\ End(r, result[joined[r]], Null)
      <4>1. result[joined[r]] \notin {"ok", "error", "denied"}
        BY <3>1 DEF Failures
      <4> QED BY <3>1, <4>1, EndAnswers
    <3>2. CASE joined[r] = r /\ Classify(r, result[joined[r]], joined[r])
      BY <3>2, EndAnswers DEF Classify
    <3>3. CASE Dispatch(r, auth, limbo, resent)
      BY <3>3, DispatchAnswers
    <3> QED BY <2>4, <3>1, <3>2, <3>3 DEF Resume, OwnResponse
  <2>5. CASE SendAnswered(r)
    BY <2>5, EndAnswers DEF SendAnswered, Classify
  <2>6. CASE SendChallenged(r)
    <3>1. CASE End(r, "auth", Null)
      BY <3>1, EndAnswers
    <3>2. CASE \E left : Dispatch(r, auth', left, [resent EXCEPT ![r] = TRUE])
      BY <3>2, DispatchAnswers
    <3> QED BY <2>6, <3>1, <3>2 DEF SendChallenged
  <2>7. CASE SendFails(r)
    <3> PICK why \in Failures : End(r, why, Null)
      BY <2>7 DEF SendFails
    <3> QED BY EndAnswers DEF Failures
  <2>8. CASE Abort(r) \/ Expire(r)
    <3>1. /\ answer' = answer
          /\ \/ outcome' = outcome
             \/ \E why \in {"cancelled", "deadline"} : outcome' = [outcome EXCEPT ![r] = why]
      BY <2>8 DEF Abort, Expire, Interrupt
    <3> QED BY <3>1 DEF AnswersOwnRequest, TypeOK
  <2> QED BY <2>1, <2>2, <2>3, <2>4, <2>5, <2>6, <2>7, <2>8 DEF Request, Environment
<1> QED BY <1>1, <1>2

\* A caller is only ever given the response to its own request.
THEOREM AnswersAreOwn == Spec => []AnswersOwnRequest
<1>1. Init => AnswersOwnRequest
  BY DEF Init, AnswersOwnRequest
<1>2. Inv /\ AnswersOwnRequest /\ [Next]_vars => AnswersOwnRequest'
  BY StepAnswers DEF Inv
<1> QED BY <1>1, <1>2, Invariant, PTL DEF Spec, Safety

-----------------------------------------------------------------------------
(***************************************************************************)
(* RemoteSession implements RemoteContract.                                *)
(***************************************************************************)
\* A caller is told something other than a refusal or an acknowledgement, with
\* the router's side unchanged.
LEMMA TellPlainly ==
  ASSUME TypeOK, NEW r \in Requests, outcome[r] = "none",
         NEW what \in {"error", "transport", "cancelled", "deadline"},
         outcome' = [outcome EXCEPT ![r] = what],
         UNCHANGED <<kind, limbo, executed>>
  PROVE  Contract!Next
<1>1. what \in Contract!Told /\ what \notin Contract!Refusals /\ what # "ok"
  BY DEF Contract!Told, Contract!Refusals
<1>2. limbo' = [limbo EXCEPT ![r] = IF what \in Contract!Refusals THEN 0 ELSE @]
  BY <1>1 DEF TypeOK
<1>3. Contract!Tell(r, what)
  BY <1>1, <1>2 DEF Contract!Tell
<1> QED BY <1>1, <1>3 DEF Contract!Next

\* A caller is told of a refusal by a router that has run nothing and from then
\* on holds nothing.
LEMMA TellRefusal ==
  ASSUME TypeOK, NEW r \in Requests, outcome[r] = "none",
         NEW what \in {"auth", "denied"},
         outcome' = [outcome EXCEPT ![r] = what], kind[r] = "mutate" => executed[r] = 0,
         limbo' = [limbo EXCEPT ![r] = 0],
         UNCHANGED <<kind, executed>>
  PROVE  Contract!Next
<1>1. what \in Contract!Told /\ what \in Contract!Refusals /\ what # "ok"
  BY DEF Contract!Told, Contract!Refusals
<1>2. Contract!Tell(r, what)
  BY <1>1 DEF Contract!Tell
<1> QED BY <1>1, <1>2 DEF Contract!Next

\* A caller is told of success: a read's, or that of a mutation which has run.
LEMMA TellSuccess ==
  ASSUME TypeOK, NEW r \in Requests, outcome[r] = "none",
         outcome' = [outcome EXCEPT ![r] = "ok"], kind[r] = "mutate" => executed[r] = 1,
         UNCHANGED <<kind, limbo, executed>>
  PROVE  Contract!Next
<1>1. "ok" \in Contract!Told /\ "ok" \notin Contract!Refusals
  BY DEF Contract!Told, Contract!Refusals
<1>2. limbo' = [limbo EXCEPT ![r] = IF "ok" \in Contract!Refusals THEN 0 ELSE @]
  BY <1>1 DEF TypeOK
<1>3. Contract!Tell(r, "ok")
  BY <1>1, <1>2 DEF Contract!Tell
<1> QED BY <1>1, <1>3 DEF Contract!Next

\* A dispatch transmits a mutation, or tells its caller; "left" is limbo less a
\* transmission the router has just refused.
LEMMA DispatchImplements ==
  ASSUME TypeOK, OnceInv, NEW r \in Requests, NEW a, NEW left, NEW again,
         Dispatch(r, a, left, again), outcome[r] = "none", executed[r] = 0,
         left = [limbo EXCEPT ![r] = 0],
         UNCHANGED <<kind, executed>>
  PROVE  Contract!Next \/ UNCHANGED Contract!vars
<1>1. limbo[r] \in {0, 1} /\ (kind[r] # "mutate" => limbo[r] = 0)
  BY DEF OnceInv, Once, TypeOK
<1>2. ASSUME NEW what \in {"cancelled", "deadline"},
             outcome' = [outcome EXCEPT ![r] = what], limbo' = left
      PROVE  Contract!Next
  <2>1. CASE limbo[r] = 0
    <3>1. limbo' = limbo
      BY <1>2, <2>1 DEF TypeOK
    <3> QED BY <1>2, <3>1, TellPlainly
  <2>2. CASE limbo[r] = 1
    <3>1. what \in Contract!Told \ {"ok"} /\ Contract!TellDropped(r, what)
      BY <1>2, <2>2 DEF Contract!TellDropped, Contract!Told
    <3> QED BY <3>1 DEF Contract!Next
  <2> QED BY <1>1, <2>1, <2>2
<1>3. CASE End(r, "auth", Null) /\ limbo' = left
  BY <1>3, TellRefusal DEF End
<1>4. CASE (End(r, "deadline", Null) \/ End(r, "cancelled", Null)) /\ limbo' = left
  BY <1>2, <1>4 DEF End
<1>5. CASE /\ limbo' = [left EXCEPT ![r] = IF kind[r] = "mutate" THEN @ + 1 ELSE @]
           /\ outcome' = outcome
  <2>1. CASE kind[r] # "mutate" \/ limbo[r] = 1
    <3>1. limbo' = limbo
      BY <1>1, <1>5, <2>1 DEF TypeOK
    <3> QED BY <1>5, <3>1 DEF Contract!vars
  <2>2. CASE kind[r] = "mutate" /\ limbo[r] = 0
    <3>1. limbo' = [limbo EXCEPT ![r] = 1]
      BY <1>5, <2>2 DEF TypeOK
    <3>2. Contract!Transmit(r)
      BY <1>5, <2>2, <3>1 DEF Contract!Transmit
    <3> QED BY <3>2 DEF Contract!Next
  <2> QED BY <1>1, <2>1, <2>2
<1> QED BY <1>3, <1>4, <1>5 DEF Dispatch

\* Every step of a request is a step of the contract, or none at all.
LEMMA RequestImplements ==
  ASSUME Inv, NEW r \in Requests, Request(r)
  PROVE  Contract!Next \/ UNCHANGED Contract!vars
<1>0. /\ TypeOK /\ OnceInv /\ Once(r)
      /\ limbo \in [Requests -> Nat] /\ limbo[r] \in Nat /\ executed[r] \in Nat
      /\ limbo[r] = 0 => limbo = [limbo EXCEPT ![r] = 0]
  BY DEF Inv, OnceInv, TypeOK
<1>1. CASE StartCancelled(r)
  BY <1>0, <1>1, TellPlainly DEF StartCancelled, End, routerVars, Once
<1>2. CASE StartAuthorized(r)
  <2>1. limbo[r] = 0 /\ executed[r] = 0 /\ outcome[r] = "none"
    BY <1>0, <1>2 DEF StartAuthorized, Once
  <2> QED BY <1>0, <1>2, <2>1, DispatchImplements DEF StartAuthorized
<1>3. CASE Initiate(r) \/ Join(r) \/ Leave(r)
  BY <1>3 DEF Initiate, Join, Wait, Leave, routerVars, Contract!vars
<1>4. CASE Resume(r)
  <2>1. limbo[r] = 0 /\ executed[r] = 0 /\ outcome[r] = "none"
    BY <1>0, <1>4 DEF Resume, Once
  <2>2. UNCHANGED <<kind, executed>>
    BY <1>4 DEF Resume
  <2> DEFINE got == result[joined[r]]
  <2>3. CASE got \in {"auth"} \cup Failures /\ End(r, got, Null) /\ limbo' = limbo
    <3>1. CASE got = "auth"
      BY <1>0, <2>1, <2>2, <2>3, <3>1, TellRefusal DEF End
    <3>2. CASE got \in Failures
      BY <1>0, <2>1, <2>2, <2>3, <3>2, TellPlainly DEF End, Failures
    <3> QED BY <2>3, <3>1, <3>2
  <2>4. CASE /\ got \in Statuses /\ joined[r] = r
             /\ Classify(r, got, joined[r]) /\ limbo' = limbo
    <3>1. kind[r] # "mutate"
      BY <2>4 DEF Inv, HandshakeInv, Operational
    <3>2. outcome' = [outcome EXCEPT ![r] = Verdict(r, got)]
      BY <2>4 DEF Classify, End
    <3>3. Verdict(r, got) \in {"ok", "error", "auth", "denied"}
      BY <2>4 DEF Verdict, Statuses
    <3>4. CASE Verdict(r, got) \in {"auth", "denied"}
      BY <1>0, <2>1, <2>2, <2>4, <3>2, <3>4, TellRefusal
    <3>5. CASE Verdict(r, got) = "ok"
      BY <1>0, <2>1, <2>2, <2>4, <3>1, <3>2, <3>5, TellSuccess
    <3>6. CASE Verdict(r, got) = "error"
      BY <1>0, <2>1, <2>2, <2>4, <3>2, <3>6, TellPlainly
    <3> QED BY <3>3, <3>4, <3>5, <3>6
  <2>5. CASE Dispatch(r, auth, limbo, resent)
    BY <1>0, <2>1, <2>2, <2>5, DispatchImplements
  <2> QED BY <1>4, <2>3, <2>4, <2>5 DEF Resume, OwnResponse
<1>5. CASE SendAnswered(r)
  <2> PICK status \in Statuses : RouterAnswers(r, status) /\ Classify(r, status, r)
    BY <1>5 DEF SendAnswered
  <2>1. outcome[r] = "none" /\ UNCHANGED <<kind, executed>>
    BY <1>0, <1>5 DEF SendAnswered, Once
  <2>2. outcome' = [outcome EXCEPT ![r] = Verdict(r, status)]
    BY DEF Classify, End
  <2>3. CASE status = "ok"
    <3>1. limbo' = limbo /\ Verdict(r, status) = "ok"
      BY <2>3 DEF RouterAnswers, Verdict, Denied
    <3>2. kind[r] = "mutate" => executed[r] = 1
      BY <1>0, <2>3 DEF RouterAnswers, Once
    <3> QED BY <1>0, <2>1, <2>2, <3>1, <3>2, TellSuccess
  <2>4. CASE status = "error"
    <3>1. limbo' = limbo /\ Verdict(r, status) = "error"
      BY <2>4 DEF RouterAnswers, Verdict, Denied
    <3> QED BY <1>0, <2>1, <2>2, <3>1, TellPlainly
  <2>5. CASE status \in {"401", "403"}
    <3>1. Verdict(r, status) \in {"auth", "denied"}
      BY <2>5 DEF Verdict
    <3>2. CASE kind[r] = "mutate"
      <4>1. limbo[r] = 1 /\ executed[r] = 0
        BY <1>0, <2>5, <3>2 DEF RouterAnswers, Once
      <4>2. limbo' = [limbo EXCEPT ![r] = 0]
        BY <1>0, <2>5, <3>2, <4>1 DEF RouterAnswers
      <4> QED BY <1>0, <2>1, <2>2, <3>1, <4>1, <4>2, TellRefusal
    <3>3. CASE kind[r] # "mutate"
      <4>1. limbo' = limbo /\ limbo[r] = 0
        BY <1>0, <3>3 DEF RouterAnswers, Once
      <4> QED BY <1>0, <2>1, <2>2, <3>1, <3>3, <4>1, TellRefusal
    <3> QED BY <3>2, <3>3
  <2> QED BY <2>3, <2>4, <2>5 DEF Statuses
<1>6. CASE SendChallenged(r)
  <2>1. PICK left : left = [limbo EXCEPT ![r] = IF kind[r] = "mutate" THEN @ - 1 ELSE @]
    OBVIOUS
  <2>2. /\ outcome[r] = "none" /\ executed[r] = 0 /\ UNCHANGED <<kind, executed>>
        /\ limbo[r] = IF kind[r] = "mutate" THEN 1 ELSE 0
    BY <1>0, <1>6 DEF SendChallenged, Once
  <2>3. left = [limbo EXCEPT ![r] = 0]
    <3>1. (IF kind[r] = "mutate" THEN limbo[r] - 1 ELSE limbo[r]) = 0
      BY <2>2
    <3> QED BY <2>1, <3>1
  <2>4. CASE End(r, "auth", Null) /\ limbo' = left
    BY <1>0, <2>2, <2>3, <2>4, TellRefusal DEF End
  <2>5. CASE Dispatch(r, auth', left, [resent EXCEPT ![r] = TRUE])
    BY <1>0, <2>2, <2>3, <2>5, DispatchImplements
  <2> QED BY <1>6, <2>1, <2>4, <2>5 DEF SendChallenged
<1>7. CASE SendFails(r)
  <2> PICK why \in Failures : End(r, why, Null)
    BY <1>7 DEF SendFails
  <2>1. /\ outcome[r] = "none" /\ UNCHANGED <<kind, limbo, executed>>
        /\ outcome' = [outcome EXCEPT ![r] = why]
    BY <1>0, <1>7 DEF SendFails, Once, routerVars, End
  <2> QED BY <1>0, <2>1, TellPlainly DEF Failures
<1> QED BY <1>1, <1>2, <1>3, <1>4, <1>5, <1>6, <1>7 DEF Request

\* So is every step of a discovery and of the environment.
LEMMA EnvironmentImplements ==
  ASSUME Inv, NEW r \in Requests, Discovery(r) \/ Environment(r)
  PROVE  Contract!Next \/ UNCHANGED Contract!vars
<1>0. /\ TypeOK /\ Once(r) /\ limbo[r] \in Nat /\ executed[r] \in Nat
  BY DEF Inv, OnceInv, TypeOK
<1>1. CASE Discovery(r)
  BY <1>1 DEF Discovery, DiscoveryChallenged, DiscoveryDirect, DiscoveryRefused,
              DiscoveryFails, Settle, requestVars, routerVars, Contract!vars
<1>2. CASE Abort(r) \/ Expire(r)
  <2>1. UNCHANGED <<kind, limbo, executed>>
    BY <1>2 DEF Abort, Expire, routerVars
  <2>2. \/ outcome' = outcome
        \/ /\ outcome[r] = "none"
           /\ \E what \in {"cancelled", "deadline"} : outcome' = [outcome EXCEPT ![r] = what]
    BY <1>0, <1>2 DEF Abort, Expire, Interrupt, Once
  <2>3. CASE outcome' = outcome
    BY <2>1, <2>3 DEF Contract!vars
  <2> QED BY <1>0, <2>1, <2>2, <2>3, TellPlainly
<1>3. CASE Execute(r) \/ Lose(r)
  <2>1. limbo[r] = 1 /\ executed[r] = 0 /\ limbo' = [limbo EXCEPT ![r] = 0]
    BY <1>0, <1>3 DEF Execute, Lose, Once
  <2>2. UNCHANGED <<kind, outcome>>
    BY <1>3 DEF Execute, Lose, requestVars
  <2>3. CASE Execute(r)
    <3>1. Contract!Run(r)
      BY <2>1, <2>2, <2>3 DEF Execute, Contract!Run
    <3> QED BY <3>1 DEF Contract!Next
  <2>4. CASE Lose(r)
    <3>1. Contract!Drop(r)
      BY <2>1, <2>2, <2>4 DEF Lose, Contract!Drop
    <3> QED BY <3>1 DEF Contract!Next
  <2> QED BY <1>3, <2>3, <2>4
<1> QED BY <1>1, <1>2, <1>3 DEF Environment

\* Every behaviour of the session is one its callers were promised: a mutation
\* runs at most once, an acknowledged one has run, a refused one has not and
\* will not, and nothing is sent for a caller that has been told.
THEOREM Implements == Spec => ImplementsContract
<1>1. Init => Contract!Init
  BY DEF Init, Contract!Init
<1>2. Inv /\ [Next]_vars => [Contract!Next]_(Contract!vars)
  <2> SUFFICES ASSUME Inv, [Next]_vars
               PROVE  Contract!Next \/ UNCHANGED Contract!vars
    OBVIOUS
  <2>1. CASE UNCHANGED vars
    BY <2>1 DEF vars, requestVars, routerVars, Contract!vars
  <2>2. CASE Next
    BY <2>2, RequestImplements, EnvironmentImplements DEF Next
  <2> QED BY <2>1, <2>2
<1> QED BY <1>1, <1>2, Invariant, PTL DEF Spec, Safety, ImplementsContract, Contract!Spec

-----------------------------------------------------------------------------
(***************************************************************************)
(* Leaving a discovery.                                                    *)
(***************************************************************************)

\* A running discovery that was not told to stop has a waiter.
Attended ==
  \A f \in Requests : phase[f] = "running" /\ ~doomed[f] => waiters[f] > 0

\* Every step keeps it so: the last waiter to leave stops the discovery.
LEMMA StepAttended ==
  ASSUME Inv, Attended, [Next]_vars
  PROVE  Attended'
<1>0. TypeOK /\ waiters \in [Requests -> Nat]
  BY DEF Inv, TypeOK
<1>1. CASE UNCHANGED vars
  BY <1>1 DEF Attended, vars, flightVars
<1>2. CASE Next
  <2> PICK r \in Requests : Request(r) \/ Discovery(r) \/ Environment(r)
    BY <1>2 DEF Next
  <2>1. CASE Initiate(r) \/ Join(r)
    <3>1. \E g \in Requests : Wait(r, g) /\ \A f \in Requests \ {g} : phase'[f] = phase[f]
      BY <1>0, <2>1 DEF Initiate, Join, TypeOK
    <3> PICK g \in Requests : Wait(r, g) /\ \A f \in Requests \ {g} : phase'[f] = phase[f]
      BY <3>1
    <3>2. waiters'[g] > 0
      BY <1>0 DEF Wait
    <3>3. \A f \in Requests \ {g} : waiters'[f] = waiters[f] /\ doomed'[f] = doomed[f]
      BY <1>0 DEF Wait
    <3> QED BY <3>2, <3>3 DEF Attended
  <2>2. CASE Leave(r)
    <3>1. joined[r] \in Requests /\ waiters[joined[r]] - 1 \in Nat
      BY <2>2, Counted DEF Leave, Inv
    <3>2. \A f \in Requests \ {joined[r]} :
            waiters'[f] = waiters[f] /\ doomed'[f] = doomed[f] /\ phase'[f] = phase[f]
      BY <1>0, <2>2 DEF Leave, TypeOK
    <3>3. phase'[joined[r]] = "running" /\ ~doomed'[joined[r]] => waiters'[joined[r]] > 0
      <4>1. waiters'[joined[r]] \in Nat
        BY <1>0, <2>2, <3>1 DEF Leave
      <4>2. phase' = phase
        BY <2>2 DEF Leave
      <4>3. phase[joined[r]] = "running" /\ waiters'[joined[r]] = 0 => doomed'[joined[r]]
        <5>1. doomed \in [Requests -> BOOLEAN]
          BY <1>0 DEF TypeOK
        <5> QED BY <2>2, <3>1, <5>1, Zenon DEF Leave
      <4> QED BY <4>1, <4>2, <4>3
    <3> QED BY <3>2, <3>3 DEF Attended
  <2>3. CASE Resume(r)
    <3>1. phase[joined[r]] = "settled" /\ phase' = phase /\ doomed' = doomed
      BY <2>3 DEF Resume
    <3>2. \A f \in Requests \ {joined[r]} : waiters'[f] = waiters[f]
      BY <1>0, <2>3 DEF Resume
    <3> QED BY <3>1, <3>2 DEF Attended
  <2>4. CASE Discovery(r)
    <3>1. /\ waiters' = waiters /\ doomed' = doomed
          /\ \A f \in Requests : phase'[f] = "running" => phase[f] = "running"
      BY <1>0, <2>4 DEF Discovery, DiscoveryChallenged, DiscoveryDirect, DiscoveryRefused,
                        DiscoveryFails, Settle, TypeOK
    <3> QED BY <3>1 DEF Attended
  <2>5. CASE \/ StartCancelled(r) \/ StartAuthorized(r) \/ SendAnswered(r)
             \/ SendChallenged(r) \/ SendFails(r) \/ Environment(r)
    <3>1. UNCHANGED <<waiters, doomed, phase>>
      BY <2>5 DEF StartCancelled, StartAuthorized, SendAnswered, SendChallenged, SendFails,
                  Environment, Abort, Expire, Execute, Lose, flightVars
    <3> QED BY <3>1 DEF Attended
  <2> QED BY <2>1, <2>2, <2>3, <2>4, <2>5 DEF Request
<1> QED BY <1>1, <1>2

\* A discovery that nobody waits for has been told to stop.
THEOREM AbandonedStops == Spec => []AbandonedDiscoveryStops
<1>1. Init => Attended
  BY DEF Init, Attended
<1>2. Inv /\ Attended /\ [Next]_vars => Attended'
  BY StepAttended
<1>3. Inv /\ Attended => AbandonedDiscoveryStops
  <2> SUFFICES ASSUME Inv, Attended, NEW f \in Requests,
                      phase[f] = "running", Companions(f) = {}
               PROVE  doomed[f]
    BY DEF AbandonedDiscoveryStops
  <2>1. waiters[f] = 0
    BY FS_EmptySet DEF Inv, WaitersCounted
  <2> QED BY <2>1 DEF Attended, Inv, TypeOK
<1> QED BY <1>1, <1>2, <1>3, Invariant, PTL DEF Spec, Safety

\* No caller's leaving stops the discovery another one waits for.
THEOREM LeavingIsHarmless == Spec => LeavingHarmsNobody
<1> DEFINE Harmless == \A f \in Requests : ~doomed[f] /\ doomed'[f] => Companions(f)' = {}
<1>1. Inv /\ Inv' /\ [Next]_vars => [Harmless]_vars
  <2> SUFFICES ASSUME Inv, Inv', Next, NEW f \in Requests, ~doomed[f], doomed'[f]
               PROVE  Companions(f)' = {}
    BY DEF vars
  <2> PICK r \in Requests : Request(r) \/ Discovery(r) \/ Environment(r)
    BY DEF Next
  <2>1. doomed # doomed'
    OBVIOUS
  <2>2. Leave(r)
    BY <2>1 DEF Request, Discovery, Environment, StartCancelled, StartAuthorized, Initiate,
                Join, Wait, Resume, SendAnswered, SendChallenged, SendFails, Abort, Expire,
                Execute, Lose, DiscoveryChallenged, DiscoveryDirect, DiscoveryRefused,
                DiscoveryFails, Settle, flightVars
  <2>3. f = joined[r] /\ waiters'[f] = 0
    BY <2>2 DEF Leave, Inv, TypeOK
  <2>4. Cardinality(Companions(f)') = 0
    BY <2>3 DEF Inv, WaitersCounted
  <2>5. IsFiniteSet(Companions(f)')
    BY SessionAssumption, FS_Subset DEF Companions
  <2> QED BY <2>4, <2>5, FS_EmptySet
<1> QED BY <1>1, Invariant, PTL DEF Spec, Safety, LeavingHarmsNobody

\* The handshake as its callers see it (router/remote-session.ts, ensureHandshake
\* and awaitHandshake): the three facts together, as the run checks them.
THEOREM HandshakeHolds == Spec => []SharedHandshake
BY HandshakeIsShared, NothingSentUnauthorized, AbandonedStops, PTL DEF SharedHandshake

-----------------------------------------------------------------------------
(***************************************************************************)
(* Numbers.                                                                *)
(***************************************************************************)
LessThan == {pair \in Nat \X Nat : pair[1] < pair[2]}

LEMMA SmallestNat ==
  ASSUME NEW S \in SUBSET Nat, S # {}
  PROVE  \E m \in S : \A n \in S : m <= n
<1>1. IsWellFoundedOn(LessThan, Nat)
  BY NatLessThanWellFounded DEF OpToRel, LessThan
<1>2. PICK m \in S : \A n \in S : ~(<<n, m>> \in LessThan)
  BY <1>1, WFMin
<1>3. ASSUME NEW n \in S, n < m PROVE <<n, m>> \in LessThan
  BY <1>3 DEF LessThan
<1>4. \A n \in S : m <= n
  <2> TAKE n \in S
  <2>1. ~(n < m)
    BY <1>2, <1>3
  <2> QED BY <2>1
<1> QED BY <1>4

LEMMA MinOfTwo ==
  ASSUME NEW a \in Int, NEW b \in Int
  PROVE  Min({a, b}) = IF a <= b THEN a ELSE b
<1> DEFINE m == IF a <= b THEN a ELSE b
<1>1. m \in {a, b} /\ \A y \in {a, b} : m <= y
  OBVIOUS
<1>2. \A x \in {a, b} : (\A y \in {a, b} : x <= y) => x = m
  OBVIOUS
<1> QED BY <1>1, <1>2 DEF Min

LEMMA MaxOfTwo ==
  ASSUME NEW a \in Int, NEW b \in Int
  PROVE  Max({a, b}) = IF a >= b THEN a ELSE b
<1> DEFINE m == IF a >= b THEN a ELSE b
<1>1. m \in {a, b} /\ \A y \in {a, b} : m >= y
  OBVIOUS
<1>2. \A x \in {a, b} : (\A y \in {a, b} : x >= y) => x = m
  OBVIOUS
<1> QED BY <1>1, <1>2 DEF Max

LEMMA MinOfThree ==
  ASSUME NEW a \in Int, NEW b \in Int, NEW c \in Int
  PROVE  Min({a, b, c}) = IF a <= b THEN (IF a <= c THEN a ELSE c)
                                    ELSE (IF b <= c THEN b ELSE c)
<1> DEFINE m == IF a <= b THEN (IF a <= c THEN a ELSE c) ELSE (IF b <= c THEN b ELSE c)
<1>1. m \in {a, b, c} /\ \A y \in {a, b, c} : m <= y
  OBVIOUS
<1>2. \A x \in {a, b, c} : (\A y \in {a, b, c} : x <= y) => x = m
  OBVIOUS
<1> QED BY <1>1, <1>2 DEF Min

-----------------------------------------------------------------------------
(***************************************************************************)
(* The pool.                                                               *)
(***************************************************************************)

\* Nothing happened after now, unless the clock has been set back.
StampsPast ==
  Steady => \A ip \in DOMAIN entries :
    /\ entries[ip].observed <= now
    /\ entries[ip].success <= now
    /\ entries[ip].failure <= now

\* The inductive invariant: a function of well-formed entries, within the
\* limit and, under a clock that is not set back, of the past.
PoolInv ==
  /\ DOMAIN entries \subseteq Ips
  /\ entries \in [DOMAIN entries -> Entry]
  /\ now \in Time
  /\ Cardinality(DOMAIN entries) <= MaxEntries
  /\ StampsPast

LEMMA InvIsTyped == ASSUME PoolInv PROVE PoolTypeOK
BY DEF PoolInv, PoolTypeOK

LEMMA PoolIsFinite ==
  ASSUME DOMAIN entries \subseteq Ips
  PROVE  IsFiniteSet(DOMAIN entries) /\ Cardinality(DOMAIN entries) \in Nat
BY PoolAssumption, FS_Subset, FS_CardinalityType

\* A pool that is not empty has one oldest entry, and it alone is evicted.
LEMMA OneIsOldest ==
  ASSUME PoolInv, DOMAIN entries # {}
  PROVE  \E o \in DOMAIN entries :
           /\ OldestEvicted = DOMAIN entries \ {o}
           /\ \A other \in DOMAIN entries : entries[o].observed <= entries[other].observed
<1> DEFINE D == DOMAIN entries
           seen(ip) == entries[ip].observed
           Times == {seen(ip) : ip \in D}
<1>1. \A ip \in D : ip \in Nat /\ seen(ip) \in Nat
  BY PoolAssumption DEF PoolInv, Entry, Time
<1>2. Times \subseteq Nat /\ Times # {}
  BY <1>1
<1>3. PICK t \in Times : \A n \in Times : t <= n
  BY <1>2, SmallestNat
<1> DEFINE First == {ip \in D : seen(ip) = t}
<1>4. First \subseteq Nat /\ First # {}
  BY <1>1, <1>3
<1>5. PICK o \in First : \A n \in First : o <= n
  BY <1>4, SmallestNat
<1>6. o \in D /\ seen(o) = t /\ \A other \in D : seen(o) <= seen(other)
  BY <1>3
<1>7. \A other \in D \ {o} : Older(o, other)
  <2> TAKE other \in D \ {o}
  <2>1. CASE seen(other) = t
    BY <2>1, <1>1, <1>5, <1>6 DEF Older
  <2>2. CASE seen(other) # t
    BY <2>2, <1>1, <1>6 DEF Older
  <2> QED BY <2>1, <2>2
<1>8. \A ip \in D \ {o} : ~Older(ip, o)
  BY <1>1, <1>6, <1>7 DEF Older
<1>9. {ip \in D : \A other \in D \ {ip} : Older(ip, other)} = {o}
  BY <1>6, <1>7, <1>8
<1> HIDE DEF D
<1>10. OldestEvicted = D \ {o}
  BY <1>9 DEF OldestEvicted, D
<1> QED BY <1>6, <1>10 DEF D

\* An address enters a pool of which only kept stays: all there is or, in a
\* full pool, all but one that is nowhere newer than another.
Enters(ip, kept) ==
  /\ entries' = [e \in kept \cup {ip} |-> IF e = ip THEN Fresh ELSE entries[e]]
  /\ Cardinality(kept \cup {ip}) =
       IF Cardinality(DOMAIN entries) = MaxEntries THEN MaxEntries
       ELSE Cardinality(DOMAIN entries) + 1
  /\ Cardinality(DOMAIN entries) # MaxEntries => kept = DOMAIN entries
  /\ Cardinality(DOMAIN entries) = MaxEntries =>
       \E o \in DOMAIN entries :
         /\ kept = DOMAIN entries \ {o}
         /\ \A other \in DOMAIN entries : entries[o].observed <= entries[other].observed

LEMMA InsertMakesRoom ==
  ASSUME PoolInv, MaxEntries > 0, NEW ip \in Ips \ DOMAIN entries, Insert(ip)
  PROVE  \E kept \in SUBSET DOMAIN entries : Enters(ip, kept)
<1> DEFINE D == DOMAIN entries
<1>1. IsFiniteSet(D) /\ Cardinality(D) \in Nat /\ Cardinality(D) <= MaxEntries
      /\ MaxEntries \in Nat
  BY PoolIsFinite, PoolAssumption DEF PoolInv
<1>2. CASE Cardinality(D) # MaxEntries
  <2>1. entries' = [e \in D \cup {ip} |-> IF e = ip THEN Fresh ELSE entries[e]]
    BY <1>1, <1>2 DEF Insert
  <2>2. Cardinality(D \cup {ip}) = Cardinality(D) + 1
    BY <1>1, FS_AddElement
  <2>3. Enters(ip, D)
    BY <1>1, <1>2, <2>1, <2>2 DEF Enters
  <2> QED BY <2>3
<1>3. CASE Cardinality(D) = MaxEntries
  <2>1. D # {}
    BY <1>1, <1>3, FS_EmptySet
  <2>2. PICK o \in D :
           /\ OldestEvicted = D \ {o}
           /\ \A other \in D : entries[o].observed <= entries[other].observed
    BY <2>1, OneIsOldest
  <2> DEFINE kept == D \ {o}
  <2>3. entries' = [e \in kept \cup {ip} |-> IF e = ip THEN Fresh ELSE entries[e]]
    BY <1>1, <1>3, <2>2 DEF Insert
  <2>4. IsFiniteSet(kept) /\ Cardinality(kept) = Cardinality(D) - 1 /\ ip \notin kept
    BY <1>1, <2>2, FS_RemoveElement
  <2> HIDE DEF kept
  <2>5. Cardinality(kept \cup {ip}) = Cardinality(kept) + 1
    BY <2>4, FS_AddElement
  <2>6. Cardinality(kept \cup {ip}) = MaxEntries
    BY <1>1, <1>3, <2>4, <2>5
  <2>7. Enters(ip, kept)
    BY <1>3, <2>2, <2>3, <2>6 DEF Enters, kept
  <2> QED BY <2>7 DEF kept
<1> QED BY <1>2, <1>3

-----------------------------------------------------------------------------
(***************************************************************************)
(* The inductive step, one action at a time.                               *)
(***************************************************************************)
LEMMA ClockIsInt == now \in Time => now \in Int /\ 0 <= now
BY PoolAssumption DEF Time

LEMMA ObserveKeepsInv ==
  ASSUME PoolInv, NEW value \in Values, Observe(value)
  PROVE  PoolInv'
<1> DEFINE ip == Canonical[value]
<1>1. ip \in Ips /\ now' = now
  BY PoolAssumption DEF Observe
<1> HIDE DEF ip
<1>2. CASE ip \in DOMAIN entries
  <2>1. entries' = [entries EXCEPT ![ip].observed = now]
    BY <1>2 DEF Observe, ip
  <2>2. DOMAIN entries' = DOMAIN entries
    BY <2>1
  <2>3. entries' \in [DOMAIN entries -> Entry]
    BY <2>1 DEF PoolInv, Entry
  <2>4. StampsPast'
    BY <1>1, <1>2, <2>1, <2>2, ClockIsInt DEF PoolInv, StampsPast, Entry
  <2> QED BY <1>1, <2>2, <2>3, <2>4 DEF PoolInv
<1>3. CASE ip \notin DOMAIN entries
  <2>1. MaxEntries > 0 /\ Insert(ip)
    BY <1>3 DEF Observe, ip
  <2>2. PICK kept \in SUBSET DOMAIN entries : Enters(ip, kept)
    BY <1>1, <1>3, <2>1, InsertMakesRoom
  <2>3. /\ entries' = [e \in kept \cup {ip} |-> IF e = ip THEN Fresh ELSE entries[e]]
        /\ DOMAIN entries' = kept \cup {ip}
    BY <2>2 DEF Enters
  <2>4. Fresh \in Entry
    BY DEF PoolInv, Fresh, Entry
  <2>5. entries' \in [DOMAIN entries' -> Entry]
    BY <2>3, <2>4 DEF PoolInv
  <2>6. Cardinality(DOMAIN entries') <= MaxEntries
    <3>1. Cardinality(DOMAIN entries) \in Nat /\ MaxEntries \in Nat
      BY PoolIsFinite, PoolAssumption DEF PoolInv
    <3> QED BY <2>2, <2>3, <3>1 DEF Enters, PoolInv
  <2>7. StampsPast'
    BY <1>1, <2>3, ClockIsInt DEF PoolInv, StampsPast, Fresh, Never
  <2>8. DOMAIN entries' \subseteq Ips
    BY <1>1, <2>3 DEF PoolInv
  <2> QED BY <1>1, <2>5, <2>6, <2>7, <2>8 DEF PoolInv
<1> QED BY <1>2, <1>3

LEMMA SuccessKeepsInv ==
  ASSUME PoolInv, NEW value \in Values, RecordSuccess(value)
  PROVE  PoolInv'
<1> DEFINE ip == Canonical[value]
<1>1. /\ ip \in DOMAIN entries /\ now' = now
      /\ entries' = [entries EXCEPT ![ip].success = now]
      /\ DOMAIN entries' = DOMAIN entries
  BY DEF RecordSuccess
<1> HIDE DEF ip
<1>2. entries' \in [DOMAIN entries -> Entry]
  BY <1>1 DEF PoolInv, Entry
<1>3. StampsPast'
  BY <1>1, ClockIsInt DEF PoolInv, StampsPast, Entry
<1> QED BY <1>1, <1>2, <1>3 DEF PoolInv

LEMMA FailureKeepsInv ==
  ASSUME PoolInv, NEW value \in Values, RecordFailure(value)
  PROVE  PoolInv'
<1> DEFINE ip == Canonical[value]
<1>1. /\ ip \in DOMAIN entries /\ now' = now
      /\ entries' = [entries EXCEPT ![ip].failure = now]
      /\ DOMAIN entries' = DOMAIN entries
  BY DEF RecordFailure
<1> HIDE DEF ip
<1>2. entries' \in [DOMAIN entries -> Entry]
  BY <1>1 DEF PoolInv, Entry
<1>3. StampsPast'
  BY <1>1, ClockIsInt DEF PoolInv, StampsPast, Entry
<1> QED BY <1>1, <1>2, <1>3 DEF PoolInv

LEMMA TickKeepsInv == ASSUME PoolInv, Tick PROVE PoolInv'
<1>1. \A ip \in DOMAIN entries : entries[ip] \in Entry
  BY DEF PoolInv
<1>2. StampsPast'
  <2>1. \A x \in Time \cup {Never} : x \in Int
    BY PoolAssumption DEF Time, Never
  <2>2. now \in Int /\ now' \in Int /\ (Steady => now <= now')
    BY <2>1 DEF Tick, PoolInv
  <2>3. \A ip \in DOMAIN entries :
          /\ entries[ip].observed \in Int
          /\ entries[ip].success \in Int
          /\ entries[ip].failure \in Int
    BY <1>1, <2>1 DEF Entry
  <2> QED BY <2>2, <2>3 DEF PoolInv, StampsPast, Tick
<1> QED BY <1>2 DEF PoolInv, Tick

LEMMA InvIsInductive == ASSUME PoolInv, [PoolNext]_poolVars PROVE PoolInv'
<1>1. CASE UNCHANGED poolVars
  BY <1>1 DEF poolVars, PoolInv, StampsPast
<1>2. CASE PoolNext
  BY <1>2, ObserveKeepsInv, SuccessKeepsInv, FailureKeepsInv, TickKeepsInv DEF PoolNext
<1> QED BY <1>1, <1>2

LEMMA InvInitially == PoolInit => PoolInv
<1> SUFFICES ASSUME PoolInit PROVE PoolInv
  OBVIOUS
<1>1. DOMAIN entries = {} /\ entries \in [{} -> Entry] /\ now = 0
  BY DEF PoolInit
<1>2. Cardinality({}) = 0
  BY FS_EmptySet
<1>3. now \in Time
  BY <1>1, PoolAssumption DEF Time
<1>4. Cardinality(DOMAIN entries) <= MaxEntries
  BY <1>1, <1>2, PoolAssumption
<1> QED BY <1>1, <1>3, <1>4 DEF PoolInv, StampsPast

\* The inductive invariant: the pool is well-formed and within its limit and, under a clock that
\* is never set back, no entry is stamped later than now.
THEOREM PoolInvariant == PoolSpec => []PoolInv
<1>1. PoolInv /\ [PoolNext]_poolVars => PoolInv'
  BY InvIsInductive
<1> QED BY <1>1, InvInitially, PTL DEF PoolSpec

-----------------------------------------------------------------------------
(***************************************************************************)
(* An entry leaves only for a newcomer, and only the oldest does           *)
(* (EdgePool.observe, EdgePool.evictOldest).                               *)
(***************************************************************************)
LeavesRightly ==
  /\ Cardinality(DOMAIN entries') <= MaxEntries
  /\ \A ip \in DOMAIN entries \ DOMAIN entries' :
       /\ Cardinality(DOMAIN entries) = MaxEntries
       /\ DOMAIN entries' \ DOMAIN entries # {}
       /\ \A other \in DOMAIN entries : entries[ip].observed <= entries[other].observed

LEMMA StepLeavesRightly == ASSUME PoolInv, [PoolNext]_poolVars PROVE LeavesRightly
<1>1. Cardinality(DOMAIN entries') <= MaxEntries
  BY InvIsInductive DEF PoolInv
<1>2. CASE DOMAIN entries' = DOMAIN entries
  BY <1>1, <1>2 DEF LeavesRightly
<1>3. ASSUME NEW value \in Values, Observe(value), Canonical[value] \notin DOMAIN entries
      PROVE  LeavesRightly
  <2> DEFINE ip == Canonical[value]
  <2>1. ip \in Ips \ DOMAIN entries /\ MaxEntries > 0 /\ Insert(ip)
    BY <1>3, PoolAssumption DEF Observe
  <2> HIDE DEF ip
  <2>2. PICK kept \in SUBSET DOMAIN entries : Enters(ip, kept)
    BY <2>1, InsertMakesRoom
  <2>3. DOMAIN entries' = kept \cup {ip}
    BY <2>2 DEF Enters
  <2>4. ip \in DOMAIN entries' \ DOMAIN entries
    BY <2>1, <2>3
  <2>5. ASSUME NEW gone \in DOMAIN entries \ DOMAIN entries'
        PROVE  /\ Cardinality(DOMAIN entries) = MaxEntries
               /\ \A other \in DOMAIN entries :
                    entries[gone].observed <= entries[other].observed
    BY <2>2, <2>3 DEF Enters
  <2> QED BY <1>1, <2>4, <2>5 DEF LeavesRightly
<1>4. ASSUME NEW value \in Values, Observe(value), Canonical[value] \in DOMAIN entries
      PROVE  DOMAIN entries' = DOMAIN entries
  BY <1>4 DEF Observe
<1>5. ASSUME NEW value \in Values, RecordSuccess(value) \/ RecordFailure(value)
      PROVE  DOMAIN entries' = DOMAIN entries
  BY <1>5 DEF RecordSuccess, RecordFailure
<1>6. ASSUME Tick \/ UNCHANGED poolVars PROVE DOMAIN entries' = DOMAIN entries
  BY <1>6 DEF Tick, poolVars
<1> QED BY <1>2, <1>3, <1>4, <1>5, <1>6 DEF PoolNext

\* The pool never exceeds its limit, and an entry leaves it only when a new
\* address enters a full pool, being then no newer than any other.
THEOREM OldestLeaves == PoolSpec => OnlyTheOldestLeaves
<1>1. PoolInv /\ [PoolNext]_poolVars => [LeavesRightly]_poolVars
  BY StepLeavesRightly
<1> QED BY <1>1, PoolInvariant, PTL DEF PoolSpec, OnlyTheOldestLeaves, LeavesRightly

-----------------------------------------------------------------------------
(***************************************************************************)
(* The abstract pool: tiers instead of timestamps.                         *)
(***************************************************************************)
LEMMA SameCardinality == \A S : Tiers!Cardinality(S) = Cardinality(S)
BY DEF Tiers!Cardinality, Cardinality

LEMMA TierFunction ==
  /\ TierOf \in [Ips -> Tiers!Tier]
  /\ \A ip \in Ips :
       TierOf[ip] = IF ip \notin DOMAIN entries THEN "absent"
                    ELSE IF Healthy(entries[ip]) THEN "healthy"
                    ELSE IF Untried(entries[ip]) THEN "unknown" ELSE "failed"
<1>1. \A ip \in Ips :
        TierOf[ip] = IF ip \notin DOMAIN entries THEN "absent"
                     ELSE IF Healthy(entries[ip]) THEN "healthy"
                     ELSE IF Untried(entries[ip]) THEN "unknown" ELSE "failed"
  BY DEF TierOf, Healthy, Untried
<1>2. TierOf \in [Ips -> Tiers!Tier]
  BY DEF TierOf, Tiers!Tier, Healthy, Untried
<1> QED BY <1>1, <1>2

LEMMA KnownAreInPool ==
  ASSUME DOMAIN entries \subseteq Ips
  PROVE  Tiers!KnownIn(TierOf) = DOMAIN entries
BY TierFunction DEF Tiers!KnownIn

LEMMA TierFunctionNext ==
  /\ TierOf' \in [Ips -> Tiers!Tier]
  /\ \A ip \in Ips :
       TierOf'[ip] = IF ip \notin DOMAIN entries' THEN "absent"
                     ELSE IF Healthy(entries'[ip]) THEN "healthy"
                     ELSE IF Untried(entries'[ip]) THEN "unknown" ELSE "failed"
<1>1. \A ip \in Ips :
        TierOf'[ip] = IF ip \notin DOMAIN entries' THEN "absent"
                      ELSE IF Healthy(entries'[ip]) THEN "healthy"
                      ELSE IF Untried(entries'[ip]) THEN "unknown" ELSE "failed"
  BY DEF TierOf, Healthy, Untried
<1>2. TierOf' \in [Ips -> Tiers!Tier]
  BY DEF TierOf, Tiers!Tier, Healthy, Untried
<1> QED BY <1>1, <1>2

\* A known address that is observed again keeps its tier, as all others do.
LEMMA ObserveKnownStutters ==
  ASSUME PoolInv, NEW value \in Values, Observe(value), Canonical[value] \in DOMAIN entries
  PROVE  UNCHANGED TierOf
<1> DEFINE ip == Canonical[value]
<1>1. entries' = [entries EXCEPT ![ip].observed = now]
  BY DEF Observe
<1> HIDE DEF ip
<1>2. DOMAIN entries' = DOMAIN entries
  BY <1>1
<1>3. \A e \in DOMAIN entries :
        entries'[e].success = entries[e].success /\ entries'[e].failure = entries[e].failure
  BY <1>1 DEF PoolInv, Entry
<1>4. \A e \in Ips : TierOf'[e] = TierOf[e]
  BY <1>2, <1>3, TierFunction, TierFunctionNext DEF Healthy, Untried
<1> QED BY <1>4, TierFunction, TierFunctionNext

LEMMA ObserveNewIsAllowed ==
  ASSUME PoolInv, NEW value \in Values, Observe(value), Canonical[value] \notin DOMAIN entries
  PROVE  Tiers!Observe(Canonical[value])
<1> DEFINE ip == Canonical[value]
           D == DOMAIN entries
           present == Tiers!KnownIn(TierOf) \cup {ip}
           room == IF Cardinality(present) > MaxEntries THEN MaxEntries
                   ELSE Cardinality(present)
<1>1. ip \in Ips \ D /\ MaxEntries > 0 /\ Insert(ip)
  BY PoolAssumption DEF Observe
<1> HIDE DEF ip
<1>2. PICK kept \in SUBSET D : Enters(ip, kept)
  BY <1>1, InsertMakesRoom
<1>3. present = D \cup {ip} /\ Cardinality(present) = Cardinality(D) + 1
  <2>1. present = D \cup {ip}
    BY KnownAreInPool DEF PoolInv
  <2>2. IsFiniteSet(D) /\ ip \notin D
    BY <1>1, PoolIsFinite DEF PoolInv
  <2> HIDE DEF D, present
  <2>3. Cardinality(D \cup {ip}) = Cardinality(D) + 1
    BY <2>2, FS_AddElement
  <2> QED BY <2>1, <2>3
<1>4. Cardinality(D) \in Nat /\ MaxEntries \in Nat /\ Cardinality(D) <= MaxEntries
  BY PoolIsFinite, PoolAssumption DEF PoolInv
<1> DEFINE stays == kept \cup {ip}
<1>5. stays \in SUBSET present /\ Cardinality(stays) = room
  BY <1>2, <1>3, <1>4 DEF Enters
<1>6. entries' = [e \in stays |-> IF e = ip THEN Fresh ELSE entries[e]]
  BY <1>2 DEF Enters
<1> DEFINE moved == [e \in Ips |-> IF e \notin stays THEN "absent"
                                   ELSE IF TierOf[e] = "absent" \/ e \in {} THEN "unknown"
                                   ELSE TierOf[e]]
<1>7. TierOf' = moved
  <2>1. DOMAIN entries' = stays
    BY <1>6
  <2>2. \A e \in stays : entries'[e] = IF e = ip THEN Fresh ELSE entries[e]
    BY <1>6
  <2>3. Untried(Fresh) /\ ~Healthy(Fresh)
    BY DEF Untried, Healthy, Fresh
  <2> HIDE DEF stays
  <2>4. \A e \in Ips : TierOf'[e] = moved[e]
    <3> TAKE e \in Ips
    <3>1. CASE e \notin stays
      BY <3>1, <2>1, TierFunctionNext
    <3>2. CASE e = ip
      <4>1. TierOf[e] = "absent" /\ e \in stays
        BY <1>1, <3>2, TierFunction DEF stays
      <4>2. TierOf'[e] = "unknown"
        BY <4>1, <3>2, <2>1, <2>2, <2>3, TierFunctionNext
      <4> QED BY <4>1, <4>2
    <3>3. CASE e \in stays /\ e # ip
      <4>1. e \in D /\ entries'[e] = entries[e]
        BY <3>3, <2>2 DEF stays
      <4>2. TierOf'[e] = TierOf[e] /\ TierOf[e] # "absent"
        BY <4>1, <3>3, <2>1, TierFunction, TierFunctionNext
      <4> QED BY <4>2, <3>3
    <3> QED BY <3>1, <3>2, <3>3
  <2> QED BY <2>4, TierFunctionNext
<1>8. TierOf' \in Tiers!AfterObserving(TierOf, {ip})
  <2> DEFINE Stays == {K \in SUBSET present :
                         Tiers!Cardinality(K) = IF Tiers!Cardinality(present) > MaxEntries
                                                THEN MaxEntries ELSE Tiers!Cardinality(present)}
             Replaceable == IF Tiers!Cardinality(present) > MaxEntries THEN {ip} ELSE {}
             tiers(K, replaced) ==
               [e \in Ips |-> IF e \notin K THEN "absent"
                              ELSE IF TierOf[e] = "absent" \/ e \in replaced THEN "unknown"
                              ELSE TierOf[e]]
  <2>1. stays \in Stays /\ {} \in SUBSET Replaceable
    BY <1>5, SameCardinality
  <2>2. TierOf' = tiers(stays, {})
    BY <1>7
  <2>3. Tiers!AfterObserving(TierOf, {ip}) =
          {tiers(K, replaced) : K \in Stays, replaced \in SUBSET Replaceable}
    BY DEF Tiers!AfterObserving
  <2> HIDE DEF stays, Stays, Replaceable, tiers
  <2>4. tiers(stays, {}) \in {tiers(K, replaced) : K \in Stays, replaced \in SUBSET Replaceable}
    BY <2>1
  <2> QED BY <2>2, <2>3, <2>4
<1> QED BY <1>8 DEF Tiers!Observe, ip

\* A success may leave a failed entry failed, and demotes a healthy one only
\* under a clock that was set back.
LEMMA SuccessIsAllowed ==
  ASSUME PoolInv, NEW value \in Values, RecordSuccess(value)
  PROVE  Tiers!RecordSuccess(Canonical[value])
<1> DEFINE ip == Canonical[value]
           known == {ip} \cap Tiers!KnownIn(TierOf)
           outdone == IF TierOf'[ip] = "failed" THEN {ip} ELSE {}
           moved == [e \in Ips |-> IF e \notin known THEN TierOf[e]
                                   ELSE IF e \in outdone THEN "failed" ELSE "healthy"]
<1>1. ip \in DOMAIN entries /\ entries' = [entries EXCEPT ![ip].success = now]
      /\ DOMAIN entries' = DOMAIN entries
  BY DEF RecordSuccess
<1> HIDE DEF ip
<1>2. ip \in Ips /\ known = {ip}
  BY <1>1, KnownAreInPool DEF PoolInv
<1>3. /\ entries[ip] \in Entry
      /\ entries'[ip].success = now /\ entries'[ip].failure = entries[ip].failure
      /\ \A e \in DOMAIN entries \ {ip} : entries'[e] = entries[e]
  BY <1>1 DEF PoolInv, Entry
<1>4. now \in Int /\ 0 <= now /\ Never \in Int /\ Never < 0
      /\ entries[ip].success \in Int /\ entries[ip].failure \in Int
      /\ (Steady => entries[ip].success <= now /\ entries[ip].failure <= now)
  BY <1>1, <1>3, PoolAssumption DEF PoolInv, StampsPast, Entry, Time, Never
<1>5. TierOf'[ip] \in {"healthy", "failed"}
  BY <1>1, <1>2, <1>3, <1>4, TierFunctionNext DEF Untried
<1>6. TierOf'[ip] = "failed" => TierOf[ip] = "failed" \/ (~Steady /\ TierOf[ip] = "healthy")
  BY <1>1, <1>2, <1>3, <1>4, TierFunction, TierFunctionNext DEF Healthy, Untried
<1>7. \A e \in Ips \ {ip} : TierOf'[e] = TierOf[e]
  BY <1>1, <1>3, TierFunction, TierFunctionNext
<1>8. TierOf' = moved
  <2>1. \A e \in Ips : TierOf'[e] = moved[e]
    BY <1>2, <1>5, <1>7
  <2> QED BY <2>1, TierFunctionNext
<1>9. outdone \in SUBSET {e \in known : TierOf[e] = "failed" \/ (~Steady /\ TierOf[e] = "healthy")}
  BY <1>2, <1>6
<1>10. TierOf' \in Tiers!AfterSuccess(TierOf, {ip})
  BY <1>8, <1>9 DEF Tiers!AfterSuccess
<1> QED BY <1>10 DEF Tiers!RecordSuccess, ip

\* A failure condemns, except that what once succeeded may pass for healthy
\* under a clock that was set back.
LEMMA FailureIsAllowed ==
  ASSUME PoolInv, NEW value \in Values, RecordFailure(value)
  PROVE  Tiers!RecordFailure(Canonical[value])
<1> DEFINE ip == Canonical[value]
           known == {ip} \cap Tiers!KnownIn(TierOf)
           outdone == IF TierOf'[ip] = "healthy" THEN {ip} ELSE {}
           moved == [e \in Ips |-> IF e \notin known THEN TierOf[e]
                                   ELSE IF e \in outdone THEN "healthy" ELSE "failed"]
<1>1. ip \in DOMAIN entries /\ entries' = [entries EXCEPT ![ip].failure = now]
      /\ DOMAIN entries' = DOMAIN entries
  BY DEF RecordFailure
<1> HIDE DEF ip
<1>2. ip \in Ips /\ known = {ip}
  BY <1>1, KnownAreInPool DEF PoolInv
<1>3. /\ entries[ip] \in Entry
      /\ entries'[ip].failure = now /\ entries'[ip].success = entries[ip].success
      /\ \A e \in DOMAIN entries \ {ip} : entries'[e] = entries[e]
  BY <1>1 DEF PoolInv, Entry
<1>4. now \in Int /\ 0 <= now /\ Never \in Int /\ Never < 0
      /\ entries[ip].success \in Int /\ entries[ip].failure \in Int
      /\ (Steady => entries[ip].success <= now /\ entries[ip].failure <= now)
  BY <1>1, <1>3, PoolAssumption DEF PoolInv, StampsPast, Entry, Time, Never
<1>5. TierOf'[ip] \in {"healthy", "failed"}
  BY <1>1, <1>2, <1>3, <1>4, TierFunctionNext DEF Untried
<1>6. TierOf'[ip] = "healthy" => ~Steady /\ TierOf[ip] \in {"healthy", "failed"}
  BY <1>1, <1>2, <1>3, <1>4, TierFunction, TierFunctionNext DEF Healthy, Untried
<1>7. \A e \in Ips \ {ip} : TierOf'[e] = TierOf[e]
  BY <1>1, <1>3, TierFunction, TierFunctionNext
<1>8. TierOf' = moved
  <2>1. \A e \in Ips : TierOf'[e] = moved[e]
    BY <1>2, <1>5, <1>7
  <2> QED BY <2>1, TierFunctionNext
<1>9. outdone \in SUBSET {e \in known : ~Steady /\ TierOf[e] \in {"healthy", "failed"}}
  BY <1>2, <1>6
<1>10. TierOf' \in Tiers!AfterFailure(TierOf, {ip})
  BY <1>8, <1>9 DEF Tiers!AfterFailure
<1> QED BY <1>10 DEF Tiers!RecordFailure, ip

LEMMA StepIsAllowed == ASSUME PoolInv, [PoolNext]_poolVars PROVE [Tiers!Next]_TierOf
<1>1. ASSUME NEW value \in Values, Observe(value) PROVE [Tiers!Next]_TierOf
  <2>1. Canonical[value] \in Ips
    BY <1>1, PoolAssumption DEF Observe
  <2> QED BY <1>1, <2>1, ObserveKnownStutters, ObserveNewIsAllowed DEF Tiers!Next
<1>2. ASSUME NEW value \in Values, RecordSuccess(value) PROVE [Tiers!Next]_TierOf
  <2>1. Canonical[value] \in Ips
    BY <1>2 DEF RecordSuccess, PoolInv
  <2> QED BY <1>2, <2>1, SuccessIsAllowed DEF Tiers!Next
<1>3. ASSUME NEW value \in Values, RecordFailure(value) PROVE [Tiers!Next]_TierOf
  <2>1. Canonical[value] \in Ips
    BY <1>3 DEF RecordFailure, PoolInv
  <2> QED BY <1>3, <2>1, FailureIsAllowed DEF Tiers!Next
<1>4. ASSUME Tick \/ UNCHANGED poolVars PROVE UNCHANGED TierOf
  <2>1. entries' = entries
    BY <1>4 DEF Tick, poolVars
  <2> QED BY <2>1 DEF TierOf
<1> QED BY <1>1, <1>2, <1>3, <1>4 DEF PoolNext

LEMMA AllowedInitially == PoolInit => Tiers!Init
<1> SUFFICES ASSUME PoolInit PROVE Tiers!Init
  OBVIOUS
<1>1. DOMAIN entries = {}
  BY DEF PoolInit
<1>2. \A ip \in Ips : TierOf[ip] = "absent"
  BY <1>1, TierFunction
<1>3. TierOf = [ip \in Ips |-> "absent"]
  BY <1>2, TierFunction
<1> QED BY <1>3 DEF Tiers!Init

\* Whatever the clock does, the pool of timestamps is a pool of tiers as the
\* transport relies on it.
THEOREM PoolImplementsTiers == PoolSpec => ImplementsTiers
<1>1. PoolInv /\ [PoolNext]_poolVars => [Tiers!Next]_TierOf
  BY StepIsAllowed
<1> QED BY <1>1, AllowedInitially, PoolInvariant, PTL DEF PoolSpec, ImplementsTiers, Tiers!Spec

-----------------------------------------------------------------------------
(***************************************************************************)
(* Sorting.  A finite set of addresses has a list in the order of its      *)
(* keys: the place of an address is the number of those not after it.      *)
(***************************************************************************)
Before(key, a, b) == key[a] < key[b] \/ (key[a] = key[b] /\ a < b)

InOrder(S, key, s) ==
  /\ s \in [1 .. Cardinality(S) -> S]
  /\ \A i, j \in 1 .. Cardinality(S) : i < j => Before(key, s[i], s[j])

LEMMA SortedListExists ==
  ASSUME NEW S \in SUBSET Int, IsFiniteSet(S), NEW key \in [S -> Int]
  PROVE  \E s : InOrder(S, key, s)
<1> DEFINE n == Cardinality(S)
           UpTo(x) == {y \in S : y = x \/ Before(key, y, x)}
           place == [x \in S |-> Cardinality(UpTo(x))]
<1>1. n \in Nat
  BY FS_CardinalityType
<1>2. \A x, y \in S : x # y => Before(key, x, y) \/ Before(key, y, x)
  BY DEF Before
<1>3. \A x, y, z \in S : Before(key, x, y) /\ Before(key, y, z) => Before(key, x, z)
  BY DEF Before
<1>4. \A x, y \in S : Before(key, x, y) => x # y /\ ~Before(key, y, x)
  BY DEF Before
<1>5. \A x \in S : /\ IsFiniteSet(UpTo(x)) /\ Cardinality(UpTo(x)) \in 1 .. n
  <2> TAKE x \in S
  <2>1. UpTo(x) \in SUBSET S /\ x \in UpTo(x)
    OBVIOUS
  <2> HIDE DEF UpTo
  <2>2. IsFiniteSet(UpTo(x)) /\ Cardinality(UpTo(x)) <= n
    BY <2>1, FS_Subset
  <2>3. Cardinality(UpTo(x)) \in Nat /\ Cardinality(UpTo(x)) # 0
    BY <2>1, <2>2, FS_CardinalityType, FS_EmptySet
  <2> QED BY <1>1, <2>2, <2>3
<1>6. ASSUME NEW x \in S, NEW y \in S, Before(key, x, y) PROVE place[x] < place[y]
  <2>1. UpTo(x) \in SUBSET UpTo(y)
    BY <1>3, <1>6
  <2>2. y \in UpTo(y) /\ y \notin UpTo(x)
    BY <1>4, <1>6
  <2> HIDE DEF UpTo
  <2>3. Cardinality(UpTo(x)) <= Cardinality(UpTo(y))
    BY <1>5, <2>1, FS_Subset
  <2>4. Cardinality(UpTo(x)) # Cardinality(UpTo(y))
    BY <1>5, <2>1, <2>2, FS_Subset
  <2> QED BY <1>1, <1>5, <2>3, <2>4
<1>7. place \in [S -> 1 .. n]
  BY <1>5
<1> HIDE DEF place, n
<1>8. \A x, y \in S : place[x] = place[y] => x = y
  BY <1>1, <1>2, <1>6, <1>7
<1>9. place \in Injection(S, 1 .. n)
  BY <1>7, <1>8 DEF Injection, IsInjective
<1>10. IsFiniteSet(1 .. n) /\ Cardinality(1 .. n) = n
  BY <1>1, FS_Interval
<1>11. place \in Surjection(S, 1 .. n)
  BY <1>9, <1>10, FS_Injection DEF n
<1>12. \A i \in 1 .. n : \E x \in S : place[x] = i
  BY <1>11 DEF Surjection
<1> DEFINE s == [i \in 1 .. n |-> CHOOSE x \in S : place[x] = i]
<1>13. \A i \in 1 .. n : s[i] \in S /\ place[s[i]] = i
  BY <1>12
<1>14. s \in [1 .. n -> S]
  BY <1>13
<1> HIDE DEF s
<1>15. \A i, j \in 1 .. n : i < j => Before(key, s[i], s[j])
  <2> SUFFICES ASSUME NEW i \in 1 .. n, NEW j \in 1 .. n, i < j
               PROVE  Before(key, s[i], s[j])
    OBVIOUS
  <2>1. s[i] # s[j]
    BY <1>1, <1>13
  <2>2. ASSUME Before(key, s[j], s[i]) PROVE FALSE
    <3>1. place[s[j]] < place[s[i]]
      BY <1>6, <1>13, <2>2
    <3> QED BY <1>1, <1>13, <3>1
  <2> QED BY <1>2, <1>13, <2>1, <2>2
<1>16. InOrder(S, key, s)
  BY <1>14, <1>15 DEF InOrder, n
<1> QED BY <1>16

\* SortedBy returns one, and all of the set is in it.
LEMMA SortedByIsSorted ==
  ASSUME NEW S \in SUBSET Int, IsFiniteSet(S), NEW key \in [S -> Int]
  PROVE  /\ InOrder(S, key, SortedBy(S, key))
         /\ \A x \in S : \E i \in 1 .. Cardinality(S) : SortedBy(S, key)[i] = x
<1> DEFINE n == Cardinality(S)
           s == SortedBy(S, key)
<1>1. n \in Nat
  BY FS_CardinalityType
<1>2. SortedBy(S, key) = CHOOSE l \in [1 .. n -> S] :
                           \A i, j \in 1 .. n : i < j => Before(key, l[i], l[j])
  BY DEF SortedBy, Before
<1>3. \E l \in [1 .. n -> S] : \A i, j \in 1 .. n : i < j => Before(key, l[i], l[j])
  BY SortedListExists DEF InOrder
<1>4. InOrder(S, key, s)
  BY <1>2, <1>3 DEF InOrder
<1> HIDE DEF s, n
<1>5. s \in [1 .. n -> S] /\ \A i, j \in 1 .. n : i < j => Before(key, s[i], s[j])
  BY <1>4 DEF InOrder, n
<1>6. \A i, j \in 1 .. n : s[i] = s[j] => i = j
  <2>1. \A x \in S : ~Before(key, x, x)
    BY DEF Before
  <2>2. \A i, j \in 1 .. n : i < j \/ j < i \/ i = j
    BY <1>1
  <2> QED BY <1>5, <2>1, <2>2
<1>7. s \in Injection(1 .. n, S)
  BY <1>5, <1>6 DEF Injection, IsInjective
<1>8. IsFiniteSet(1 .. n) /\ Cardinality(1 .. n) = n
  BY <1>1, FS_Interval
<1>9. s \in Surjection(1 .. n, S)
  BY <1>7, <1>8, FS_Injection DEF n
<1>10. \A x \in S : \E i \in 1 .. n : s[i] = x
  BY <1>9 DEF Surjection
<1> QED BY <1>4, <1>10 DEF s, n

-----------------------------------------------------------------------------
(***************************************************************************)
(* The ranking, whole: what candidateDetails cuts its answer from.         *)
(***************************************************************************)
HealthyIn(excluded) == {ip \in Usable(excluded) : Healthy(entries[ip])}
UnknownIn(excluded) == {ip \in Usable(excluded) : Untried(entries[ip])}
FailedIn(excluded) == Usable(excluded) \ (HealthyIn(excluded) \cup UnknownIn(excluded))

ByRecentSuccess(S) == [ip \in S |-> -entries[ip].success]
ByRecentObservation(S) == [ip \in S |-> -entries[ip].observed]
ByDistantFailure(S) == [ip \in S |-> entries[ip].failure]

Ranking(excluded) ==
  SortedBy(HealthyIn(excluded), ByRecentSuccess(HealthyIn(excluded)))
    \o SortedBy(UnknownIn(excluded), ByRecentObservation(UnknownIn(excluded)))
    \o SortedBy(FailedIn(excluded), ByDistantFailure(FailedIn(excluded)))

LEMMA UsableEntries ==
  ASSUME PoolInv, NEW excluded
  PROVE  /\ IsFiniteSet(Usable(excluded))
         /\ \A ip \in Usable(excluded) :
              /\ ip \in Ips /\ ip \in DOMAIN entries /\ ip \notin excluded /\ ip \in Int
              /\ entries[ip].observed \in Int
              /\ entries[ip].success \in Int /\ entries[ip].success >= Never
              /\ entries[ip].failure \in Int /\ entries[ip].failure >= Never
<1>1. IsFiniteSet(Usable(excluded))
  BY PoolIsFinite, FS_Subset DEF PoolInv, Usable
<1>2. \A x \in Time \cup {Never} : x \in Int /\ x >= Never
  BY PoolAssumption DEF Time, Never
<1> QED BY <1>1, <1>2, PoolAssumption DEF PoolInv, Usable, Entry

LEMMA TiersOfUsable ==
  ASSUME PoolInv, NEW excluded
  PROVE  /\ \A ip \in HealthyIn(excluded) :
              TierNo(entries[ip]) = 1 /\ KeyNo(entries[ip]) = -entries[ip].success
         /\ \A ip \in UnknownIn(excluded) :
              TierNo(entries[ip]) = 2 /\ KeyNo(entries[ip]) = -entries[ip].observed
         /\ \A ip \in FailedIn(excluded) :
              TierNo(entries[ip]) = 3 /\ KeyNo(entries[ip]) = entries[ip].failure
<1>1. \A ip \in HealthyIn(excluded) : TierNo(entries[ip]) = 1
  BY UsableEntries DEF HealthyIn, Healthy, TierNo, Never
<1>2. \A ip \in UnknownIn(excluded) : TierNo(entries[ip]) = 2
  BY UsableEntries DEF UnknownIn, Untried, TierNo, Never
<1>3. \A ip \in FailedIn(excluded) : TierNo(entries[ip]) = 3
  BY UsableEntries DEF FailedIn, HealthyIn, UnknownIn, Healthy, Untried, TierNo, Never
<1> QED BY <1>1, <1>2, <1>3 DEF KeyNo

\* A tier is listed in the order of preference, entirely and without repetition.
ListedByPreference(S, key) ==
  /\ Cardinality(S) \in Nat
  /\ SortedBy(S, key) \in [1 .. Cardinality(S) -> S]
  /\ \A i, j \in 1 .. Cardinality(S) :
       i < j => Preferred(SortedBy(S, key)[i], SortedBy(S, key)[j])
  /\ \A x \in S : \E i \in 1 .. Cardinality(S) : SortedBy(S, key)[i] = x

LEMMA TierIsSorted ==
  ASSUME PoolInv, NEW excluded, NEW S \in SUBSET Usable(excluded),
         NEW key \in [S -> Int], NEW t \in Int,
         \A ip \in S : TierNo(entries[ip]) = t /\ KeyNo(entries[ip]) = key[ip]
  PROVE  ListedByPreference(S, key)
<1> DEFINE s == SortedBy(S, key)
           n == Cardinality(S)
<1>1. S \in SUBSET Int /\ IsFiniteSet(S)
  BY UsableEntries, FS_Subset
<1>2. n \in Nat
  BY <1>1, FS_CardinalityType
<1>3. /\ s \in [1 .. n -> S]
      /\ \A i, j \in 1 .. n : i < j => Before(key, s[i], s[j])
      /\ \A x \in S : \E i \in 1 .. n : s[i] = x
  BY <1>1, SortedByIsSorted DEF InOrder
<1>4. \A a, b \in S : Before(key, a, b) => Preferred(a, b)
  BY DEF Before, Preferred
<1> HIDE DEF s, n
<1>5. \A i, j \in 1 .. n : i < j => Preferred(s[i], s[j])
  BY <1>3, <1>4
<1> QED BY <1>2, <1>3, <1>5 DEF s, n, ListedByPreference

\* All usable addresses are in the ranking, none twice, in the order of preference.
RankingIsRightFor(excluded) ==
  LET r == Ranking(excluded)
      usable == Usable(excluded)
      n == Cardinality(usable)
  IN /\ n \in Nat
     /\ r \in Seq(usable) /\ Len(r) = n
     /\ \A i, j \in 1 .. n : i < j => Preferred(r[i], r[j])
     /\ \A x \in usable : \E i \in 1 .. n : r[i] = x

LEMMA RankingIsRight ==
  ASSUME PoolInv, NEW excluded
  PROVE  RankingIsRightFor(excluded)
<1> DEFINE usable == Usable(excluded)
           H == HealthyIn(excluded)
           U == UnknownIn(excluded)
           F == FailedIn(excluded)
           h == SortedBy(H, ByRecentSuccess(H))
           u == SortedBy(U, ByRecentObservation(U))
           f == SortedBy(F, ByDistantFailure(F))
           nh == Cardinality(H)
           nu == Cardinality(U)
           nf == Cardinality(F)
           r == Ranking(excluded)
<1>1. /\ H \in SUBSET usable /\ U \in SUBSET usable /\ F \in SUBSET usable
      /\ usable = (H \cup U) \cup F /\ H \cap U = {} /\ (H \cup U) \cap F = {}
  BY DEF HealthyIn, UnknownIn, FailedIn, Healthy, Untried
<1>2. IsFiniteSet(usable)
  BY UsableEntries
<1>3. /\ nh \in Nat /\ h \in [1 .. nh -> H]
      /\ \A i, j \in 1 .. nh : i < j => Preferred(h[i], h[j])
      /\ \A x \in H : \E i \in 1 .. nh : h[i] = x
  <2>1. ByRecentSuccess(H) \in [H -> Int]
        /\ \A ip \in H : TierNo(entries[ip]) = 1 /\ KeyNo(entries[ip]) = ByRecentSuccess(H)[ip]
    BY <1>1, UsableEntries, TiersOfUsable DEF ByRecentSuccess
  <2>2. H \in SUBSET Usable(excluded) /\ 1 \in Int
    BY <1>1
  <2> HIDE DEF usable, H, U, F
  <2>3. ListedByPreference(H, ByRecentSuccess(H))
    BY <2>1, <2>2, TierIsSorted
  <2> QED BY <2>3 DEF ListedByPreference
<1>4. /\ nu \in Nat /\ u \in [1 .. nu -> U]
      /\ \A i, j \in 1 .. nu : i < j => Preferred(u[i], u[j])
      /\ \A x \in U : \E i \in 1 .. nu : u[i] = x
  <2>1. ByRecentObservation(U) \in [U -> Int]
        /\ \A ip \in U : TierNo(entries[ip]) = 2 /\ KeyNo(entries[ip]) = ByRecentObservation(U)[ip]
    BY <1>1, UsableEntries, TiersOfUsable DEF ByRecentObservation
  <2>2. U \in SUBSET Usable(excluded) /\ 2 \in Int
    BY <1>1
  <2> HIDE DEF usable, H, U, F
  <2>3. ListedByPreference(U, ByRecentObservation(U))
    BY <2>1, <2>2, TierIsSorted
  <2> QED BY <2>3 DEF ListedByPreference
<1>5. /\ nf \in Nat /\ f \in [1 .. nf -> F]
      /\ \A i, j \in 1 .. nf : i < j => Preferred(f[i], f[j])
      /\ \A x \in F : \E i \in 1 .. nf : f[i] = x
  <2>1. ByDistantFailure(F) \in [F -> Int]
        /\ \A ip \in F : TierNo(entries[ip]) = 3 /\ KeyNo(entries[ip]) = ByDistantFailure(F)[ip]
    BY <1>1, UsableEntries, TiersOfUsable DEF ByDistantFailure
  <2>2. F \in SUBSET Usable(excluded) /\ 3 \in Int
    BY <1>1
  <2> HIDE DEF usable, H, U, F
  <2>3. ListedByPreference(F, ByDistantFailure(F))
    BY <2>1, <2>2, TierIsSorted
  <2> QED BY <2>3 DEF ListedByPreference
<1>6. Cardinality(usable) = nh + nu + nf
  <2>1. IsFiniteSet(H) /\ IsFiniteSet(U) /\ IsFiniteSet(F)
    BY <1>1, <1>2, FS_Subset
  <2> HIDE DEF H, U, F, usable
  <2>2. IsFiniteSet(H \cup U) /\ Cardinality(H \cup U) = nh + nu
    <3>1. IsFiniteSet(H \cup U)
          /\ Cardinality(H \cup U) = Cardinality(H) + Cardinality(U) - Cardinality({})
      BY <1>1, <2>1, FS_Union
    <3> QED BY <1>3, <1>4, <3>1, FS_EmptySet
  <2>3. Cardinality((H \cup U) \cup F) = Cardinality(H \cup U) + Cardinality(F) - Cardinality({})
    BY <1>1, <2>1, <2>2, FS_Union
  <2> QED BY <1>1, <1>3, <1>4, <1>5, <2>2, <2>3, FS_EmptySet
<1>7. \A a \in H, b \in U : Preferred(a, b)
  BY TiersOfUsable DEF Preferred
<1>8. \A a \in H \cup U, b \in F : Preferred(a, b)
  BY TiersOfUsable DEF Preferred
<1>9. r = (h \o u) \o f
  BY DEF Ranking
<1> HIDE DEF usable, H, U, F, h, u, f, nh, nu, nf, r
<1>10. /\ h \in Seq(usable) /\ Len(h) = nh
       /\ u \in Seq(usable) /\ Len(u) = nu
       /\ f \in Seq(usable) /\ Len(f) = nf
  BY <1>1, <1>3, <1>4, <1>5
<1> DEFINE n == nh + nu + nf
<1>11. /\ h \o u \in Seq(usable) /\ Len(h \o u) = nh + nu
       /\ \A i \in 1 .. nh : (h \o u)[i] = h[i]
       /\ \A i \in 1 .. nu : (h \o u)[nh + i] = u[i]
  <2>1. /\ h \o u \in Seq(usable) /\ Len(h \o u) = Len(h) + Len(u)
        /\ \A i \in 1 .. Len(h) : (h \o u)[i] = h[i]
        /\ \A i \in 1 .. Len(u) : (h \o u)[Len(h) + i] = u[i]
    BY <1>10, SMTT(20)
  <2> QED BY <1>10, <2>1, Zenon
<1>12. /\ r \in Seq(usable) /\ Len(r) = n
       /\ \A i \in 1 .. nh : r[i] = h[i]
       /\ \A i \in 1 .. nu : r[nh + i] = u[i]
       /\ \A i \in 1 .. nf : r[nh + nu + i] = f[i]
  <2>1. /\ r \in Seq(usable) /\ Len(r) = n
        /\ \A i \in 1 .. nh + nu : r[i] = (h \o u)[i]
        /\ \A i \in 1 .. nf : r[nh + nu + i] = f[i]
    <3> DEFINE hu == h \o u
    <3>1. hu \in Seq(usable) /\ Len(hu) = nh + nu
      BY <1>11
    <3> HIDE DEF hu
    <3>2. /\ hu \o f \in Seq(usable) /\ Len(hu \o f) = Len(hu) + Len(f)
          /\ \A i \in 1 .. Len(hu) : (hu \o f)[i] = hu[i]
          /\ \A i \in 1 .. Len(f) : (hu \o f)[Len(hu) + i] = f[i]
      <4>1. hu \in Seq(usable) /\ f \in Seq(usable)
        BY <1>10, <3>1
      <4> QED BY <4>1
    <3>3. r = hu \o f
      BY <1>9 DEF hu
    <3>4. /\ r \in Seq(usable) /\ Len(r) = n
          /\ \A i \in 1 .. nh + nu : r[i] = hu[i]
          /\ \A i \in 1 .. nf : r[nh + nu + i] = f[i]
      BY <1>10, <3>1, <3>2, <3>3, Zenon
    <3> QED BY <3>4 DEF hu
  <2>2. /\ \A i \in 1 .. nh : i \in 1 .. nh + nu
        /\ \A i \in 1 .. nu : nh + i \in 1 .. nh + nu
    BY <1>3, <1>4
  <2> QED BY <1>11, <2>1, <2>2
<1>13. \A i \in 1 .. n :
         \/ i \in 1 .. nh /\ r[i] = h[i] /\ r[i] \in H
         \/ i - nh \in 1 .. nu /\ r[i] = u[i - nh] /\ r[i] \in U
         \/ i - nh - nu \in 1 .. nf /\ r[i] = f[i - nh - nu] /\ r[i] \in F
  <2> SUFFICES ASSUME NEW i \in 1 .. n
               PROVE  \/ i \in 1 .. nh /\ r[i] = h[i] /\ r[i] \in H
                      \/ i - nh \in 1 .. nu /\ r[i] = u[i - nh] /\ r[i] \in U
                      \/ i - nh - nu \in 1 .. nf /\ r[i] = f[i - nh - nu] /\ r[i] \in F
    OBVIOUS
  <2>1. CASE i <= nh
    BY <2>1, <1>3, <1>12
  <2>2. CASE i > nh /\ i <= nh + nu
    <3>1. i - nh \in 1 .. nu /\ nh + (i - nh) = i
      BY <2>2, <1>3, <1>4
    <3> QED BY <3>1, <1>4, <1>12
  <2>3. CASE i > nh + nu
    <3>1. i - nh - nu \in 1 .. nf /\ nh + nu + (i - nh - nu) = i
      BY <2>3, <1>3, <1>4, <1>5
    <3> QED BY <3>1, <1>5, <1>12
  <2> QED BY <2>1, <2>2, <2>3, <1>3, <1>4
<1>14. \A i, j \in 1 .. n : i < j => Preferred(r[i], r[j])
  <2> SUFFICES ASSUME NEW i \in 1 .. n, NEW j \in 1 .. n, i < j
               PROVE  Preferred(r[i], r[j])
    OBVIOUS
  <2>1. CASE j \in 1 .. nh /\ r[j] = h[j]
    <3>1. i \in 1 .. nh /\ r[i] = h[i]
      BY <2>1, <1>3, <1>12
    <3> QED BY <2>1, <3>1, <1>3
  <2>2. CASE j - nh \in 1 .. nu /\ r[j] = u[j - nh] /\ r[j] \in U
    <3>1. CASE i \in 1 .. nh /\ r[i] \in H
      BY <2>2, <3>1, <1>7
    <3>2. CASE i - nh \in 1 .. nu /\ r[i] = u[i - nh]
      <4>1. i - nh < j - nh
        BY <1>3
      <4> QED BY <2>2, <3>2, <4>1, <1>4
    <3>3. ~(i - nh - nu \in 1 .. nf)
      BY <2>2, <1>3, <1>4, <1>5
    <3> QED BY <3>1, <3>2, <3>3, <1>13
  <2>3. CASE j - nh - nu \in 1 .. nf /\ r[j] = f[j - nh - nu] /\ r[j] \in F
    <3>1. CASE r[i] \in H \cup U
      BY <2>3, <3>1, <1>8
    <3>2. CASE i - nh - nu \in 1 .. nf /\ r[i] = f[i - nh - nu]
      <4>1. i - nh - nu < j - nh - nu
        BY <1>3, <1>4
      <4> QED BY <2>3, <3>2, <4>1, <1>5
    <3> QED BY <3>1, <3>2, <1>13
  <2> QED BY <2>1, <2>2, <2>3, <1>13
<1>15. \A x \in usable : \E i \in 1 .. n : r[i] = x
  <2> SUFFICES ASSUME NEW x \in usable PROVE \E i \in 1 .. n : r[i] = x
    OBVIOUS
  <2>1. CASE x \in H
    <3>1. PICK i \in 1 .. nh : h[i] = x
      BY <2>1, <1>3
    <3>2. i \in 1 .. n /\ r[i] = x
      BY <3>1, <1>3, <1>4, <1>5, <1>12
    <3> QED BY <3>2
  <2>2. CASE x \in U
    <3>1. PICK i \in 1 .. nu : u[i] = x
      BY <2>2, <1>4
    <3>2. nh + i \in 1 .. n /\ r[nh + i] = x
      BY <3>1, <1>3, <1>4, <1>5, <1>12
    <3> QED BY <3>2
  <2>3. CASE x \in F
    <3>1. PICK i \in 1 .. nf : f[i] = x
      BY <2>3, <1>5
    <3>2. nh + nu + i \in 1 .. n /\ r[nh + nu + i] = x
      BY <3>1, <1>3, <1>4, <1>5, <1>12
    <3> QED BY <3>2
  <2> QED BY <2>1, <2>2, <2>3, <1>1
<1> QED BY <1>3, <1>4, <1>5, <1>6, <1>12, <1>14, <1>15 DEF RankingIsRightFor, usable, r

-----------------------------------------------------------------------------
(***************************************************************************)
(* The candidates: the ranking, cut.                                       *)
(***************************************************************************)
Room(limit) == Max({0, Min({2, limit})})

LEMMA RoomIsSmall ==
  ASSUME NEW limit \in 0 .. 3, NEW n \in Nat
  PROVE  /\ Min({Room(limit), n}) \in 0 .. n
         /\ Min({Room(limit), n}) <= 2
         /\ Min({Room(limit), n}) = Min({2, Max({0, limit}), n})
<1>1. limit \in Int /\ 0 \in Int /\ 2 \in Int /\ n \in Int
  OBVIOUS
<1>2. Min({2, limit}) = IF 2 <= limit THEN 2 ELSE limit
  BY <1>1, MinOfTwo
<1> DEFINE m == Min({2, limit})
<1>3. m \in Int
  BY <1>1, <1>2
<1> HIDE DEF m
<1>4. Room(limit) = IF 0 >= m THEN 0 ELSE m
  BY <1>1, <1>3, MaxOfTwo DEF Room, m
<1>5. Room(limit) \in 0 .. 2 /\ Room(limit) = IF 2 <= limit THEN 2 ELSE limit
  BY <1>1, <1>2, <1>4 DEF m
<1>6. Min({Room(limit), n}) = IF Room(limit) <= n THEN Room(limit) ELSE n
  <2> DEFINE room == Room(limit)
  <2>1. room \in Int
    BY <1>5
  <2> HIDE DEF room
  <2>2. Min({room, n}) = IF room <= n THEN room ELSE n
    BY <1>1, <2>1, MinOfTwo
  <2> QED BY <2>2 DEF room
<1>7. Max({0, limit}) = IF 0 >= limit THEN 0 ELSE limit
  BY <1>1, MaxOfTwo
<1>8. Max({0, limit}) = limit
  BY <1>7
<1>9. Min({2, limit, n}) = IF 2 <= limit THEN (IF 2 <= n THEN 2 ELSE n)
                                         ELSE (IF limit <= n THEN limit ELSE n)
  BY <1>1, MinOfThree
<1> QED BY <1>5, <1>6, <1>8, <1>9

LEMMA PartsOfSeq ==
  ASSUME NEW X, NEW s \in Seq(X)
  PROVE  Len(s) \in Nat /\ \A i \in 1 .. Len(s) : s[i] \in X
OBVIOUS

LEMMA CandidatesAreTheFirst ==
  ASSUME PoolInv, NEW excluded, NEW limit \in 0 .. 3
  PROVE  LET c == Candidates(excluded, limit)
             n == Cardinality(Usable(excluded))
         IN /\ c \in Seq(Usable(excluded))
            /\ Len(c) \in 0 .. n /\ Len(c) <= 2
            /\ Len(c) = Min({2, Max({0, limit}), n})
            /\ \A i \in 1 .. Len(c) : c[i] = Ranking(excluded)[i]
<1> DEFINE c == Candidates(excluded, limit)
           r == Ranking(excluded)
           usable == Usable(excluded)
           n == Cardinality(usable)
           k == Min({Room(limit), n})
<1>1. n \in Nat /\ r \in Seq(usable) /\ Len(r) = n
  BY RankingIsRight DEF RankingIsRightFor
<1>2. c = SubSeq(r, 1, Min({Room(limit), Len(r)}))
  BY DEF Candidates, Ranking, Room, HealthyIn, UnknownIn, FailedIn,
         ByRecentSuccess, ByRecentObservation, ByDistantFailure
<1>3. k \in 0 .. n /\ k <= 2 /\ k = Min({2, Max({0, limit}), n})
  <2> HIDE DEF n
  <2> QED BY <1>1, RoomIsSmall
<1>4. c = SubSeq(r, 1, k)
  BY <1>1, <1>2
<1> HIDE DEF c, r, usable, n, k
<1>5. c \in Seq(usable) /\ Len(c) = k /\ \A i \in 1 .. k : c[i] = r[i]
  <2>1. k \in 0 .. Len(r)
    BY <1>1, <1>3
  <2>2. r \in Seq(usable)
    BY <1>1
  <2> QED BY <1>4, <2>1, <2>2
<1>6. Len(c) = Min({2, Max({0, limit}), n})
  BY <1>3, <1>5
<1> QED BY <1>3, <1>5, <1>6 DEF c, r, usable, n

LEMMA InvGivesTheBest == ASSUME PoolInv PROVE CandidatesAreTheBest
<1> SUFFICES ASSUME NEW excluded \in SUBSET Ips, NEW limit \in 0 .. 3
             PROVE  LET chosen == Candidates(excluded, limit)
                        usable == Usable(excluded)
                    IN /\ Len(chosen) = Min({2, Max({0, limit}), Cardinality(usable)})
                       /\ \A i \in 1 .. Len(chosen) :
                            /\ chosen[i] \in usable
                            /\ \A other \in usable \ {chosen[j] : j \in 1 .. i} :
                                 Preferred(chosen[i], other)
  BY DEF CandidatesAreTheBest
<1> DEFINE c == Candidates(excluded, limit)
           r == Ranking(excluded)
           usable == Usable(excluded)
           n == Cardinality(usable)
<1>1. /\ c \in Seq(usable) /\ Len(c) \in 0 .. n
      /\ Len(c) = Min({2, Max({0, limit}), n})
      /\ \A i \in 1 .. Len(c) : c[i] = r[i]
  BY CandidatesAreTheFirst
<1>2. /\ n \in Nat
      /\ \A i, j \in 1 .. n : i < j => Preferred(r[i], r[j])
      /\ \A x \in usable : \E i \in 1 .. n : r[i] = x
  BY RankingIsRight DEF RankingIsRightFor
<1> HIDE DEF c, r, usable, n
<1>3. ASSUME NEW i \in 1 .. Len(c), NEW other \in usable \ {c[j] : j \in 1 .. i}
      PROVE  Preferred(c[i], other)
  <2>0. Len(c) \in Nat /\ n \in Nat /\ Len(c) <= n
    BY <1>1, <1>2
  <2>1. PICK j \in 1 .. n : r[j] = other
    BY <1>2
  <2>2. i \in 1 .. n /\ c[i] = r[i]
    <3>1. i \in 1 .. n
      BY <2>0
    <3>2. c[i] = r[i]
      BY <1>1, Zenon
    <3> QED BY <3>1, <3>2
  <2>3. ~(j <= i)
    <3> SUFFICES ASSUME j <= i PROVE FALSE
      OBVIOUS
    <3>1. j \in 1 .. i /\ j \in 1 .. Len(c)
      BY <2>0
    <3>2. c[j] = other
      BY <1>1, <2>1, <3>1
    <3> QED BY <3>1, <3>2
  <2>4. i < j
    BY <2>0, <2>2, <2>3
  <2> QED BY <1>2, <2>1, <2>2, <2>4
<1>4. \A i \in 1 .. Len(c) : c[i] \in usable
  BY <1>1, PartsOfSeq
<1> QED BY <1>1, <1>3, <1>4 DEF c, usable, n

LEMMA RankOfUsable ==
  ASSUME PoolInv, NEW excluded, NEW ip \in Usable(excluded)
  PROVE  /\ ip \in Tiers!KnownIn(TierOf) \ excluded
         /\ Tiers!Rank[TierOf[ip]] = TierNo(entries[ip])
<1>1. ip \in Ips /\ ip \in DOMAIN entries /\ ip \notin excluded
  BY UsableEntries
<1>2. ip \in Tiers!KnownIn(TierOf) \ excluded
  BY <1>1, KnownAreInPool DEF PoolInv
<1>3. CASE ip \in HealthyIn(excluded)
  <2>1. TierOf[ip] = "healthy" /\ TierNo(entries[ip]) = 1
    BY <1>1, <1>3, TierFunction, TiersOfUsable DEF HealthyIn
  <2> QED BY <1>2, <2>1 DEF Tiers!Rank, Tiers!Tier
<1>4. CASE ip \in UnknownIn(excluded)
  <2>1. TierOf[ip] = "unknown" /\ TierNo(entries[ip]) = 2
    BY <1>1, <1>4, TierFunction, TiersOfUsable DEF UnknownIn, Healthy, Untried
  <2> QED BY <1>2, <2>1 DEF Tiers!Rank, Tiers!Tier
<1>5. CASE ip \in FailedIn(excluded)
  <2>1. TierOf[ip] = "failed" /\ TierNo(entries[ip]) = 3
    BY <1>1, <1>5, TierFunction, TiersOfUsable DEF FailedIn, HealthyIn, UnknownIn
  <2> QED BY <1>2, <2>1 DEF Tiers!Rank, Tiers!Tier
<1> QED BY <1>3, <1>4, <1>5 DEF FailedIn

LEMMA InvGivesTheAllowed == ASSUME PoolInv PROVE CandidatesAreAllowed
<1> SUFFICES ASSUME NEW excluded \in SUBSET Ips
             PROVE  Candidates(excluded, 2) \in Tiers!CandidateLists(TierOf, excluded)
  BY DEF CandidatesAreAllowed
<1> DEFINE c == Candidates(excluded, 2)
           r == Ranking(excluded)
           usable == Usable(excluded)
           n == Cardinality(usable)
           known == Tiers!KnownIn(TierOf) \ excluded
<1>1. /\ c \in Seq(usable) /\ Len(c) \in 0 .. n /\ Len(c) <= 2
      /\ \A i \in 1 .. Len(c) : c[i] = r[i]
  <2>1. 2 \in 0 .. 3
    OBVIOUS
  <2> QED BY <2>1, CandidatesAreTheFirst, Zenon
<1>2. /\ n \in Nat
      /\ \A i, j \in 1 .. n : i < j => Preferred(r[i], r[j])
  BY RankingIsRight DEF RankingIsRightFor
<1>3. \A ip \in usable : ip \in known /\ Tiers!Rank[TierOf[ip]] = TierNo(entries[ip])
  BY RankOfUsable
<1>4. \A a, b \in usable : Preferred(a, b) => a # b /\ TierNo(entries[a]) <= TierNo(entries[b])
  <2>1. \A ip \in usable : ip \in Int /\ TierNo(entries[ip]) \in Int /\ KeyNo(entries[ip]) \in Int
    BY UsableEntries, TiersOfUsable DEF FailedIn
  <2> HIDE DEF usable
  <2> QED BY <2>1 DEF Preferred
<1> HIDE DEF c, r, usable, n, known
<1>5. CASE Len(c) = 0
  <2>1. c = <<>>
    BY <1>1, <1>5
  <2> QED BY <2>1 DEF Tiers!CandidateLists, c
<1>6. CASE Len(c) = 1
  <2>1. c[1] \in usable
    BY <1>1, <1>6, PartsOfSeq, SMTT(20)
  <2>2. c = <<c[1]>>
    BY <1>1, <1>6
  <2>3. c \in {<<ip>> : ip \in known}
    BY <1>3, <2>1, <2>2
  <2> QED BY <2>3 DEF Tiers!CandidateLists, c, known
<1>7. CASE Len(c) = 2
  <2> DEFINE a == c[1]
             b == c[2]
  <2>1. a \in usable /\ b \in usable
    <3>1. \A i \in 1 .. 2 : c[i] \in usable
      BY <1>1, <1>7, PartsOfSeq
    <3> QED BY <3>1
  <2>2. Preferred(a, b)
    <3>1. 1 \in 1 .. n /\ 2 \in 1 .. n /\ a = r[1] /\ b = r[2]
      BY <1>1, <1>2, <1>7
    <3> QED BY <1>2, <3>1
  <2>3. c = <<a, b>>
    BY <1>1, <1>7
  <2> HIDE DEF a, b
  <2>4. <<a, b>> \in {pair \in known \X known :
                        pair[1] # pair[2] /\ Tiers!Rank[TierOf[pair[1]]] <= Tiers!Rank[TierOf[pair[2]]]}
    BY <1>3, <1>4, <2>1, <2>2
  <2> QED BY <2>3, <2>4 DEF Tiers!CandidateLists, c, known
<1>8. Len(c) \in Nat
  BY <1>1, PartsOfSeq
<1>9. Len(c) = 0 \/ Len(c) = 1 \/ Len(c) = 2
  <2>1. Len(c) <= 2
    BY <1>1, Zenon
  <2> DEFINE l == Len(c)
  <2>2. l \in Nat /\ l <= 2
    BY <1>8, <2>1
  <2> HIDE DEF l
  <2>3. l = 0 \/ l = 1 \/ l = 2
    BY <2>2
  <2> QED BY <2>3, Zenon DEF l
<1> QED BY <1>5, <1>6, <1>7, <1>9

\* In every pool, however old, tied or stamped by a clock set back, and
\* whatever is excluded, the fallback gets the most preferred usable addresses
\* in order, and nothing but what EdgeTiers allows.
THEOREM CandidatesRight == PoolSpec => []CandidatesAreRight
<1>1. PoolInv => CandidatesAreRight
  BY InvIsTyped, InvGivesTheBest, InvGivesTheAllowed DEF CandidatesAreRight
<1> QED BY <1>1, PoolInvariant, PTL
=============================================================================
