--------------------------- MODULE RemoteSession ---------------------------
(***************************************************************************)
(* A remote session (RemoteSession.request, router/remote-session.ts):     *)
(* requests that share one lazy authentication handshake, each with a      *)
(* signal and a deadline of its own, in front of a router that may execute *)
(* a mutation long after its request was given up.                         *)
(*                                                                         *)
(* One send is one step to the network and one back: RemoteSend shows that *)
(* a mutation is transmitted at most once per send.  A flight is named     *)
(* after the request that initiated it.                                    *)
(***************************************************************************)
EXTENDS Naturals, FiniteSets

CONSTANTS
  Requests, \* calls of request, each made once
  Kinds,    \* which of the kinds below the callers use
  Null      \* no flight, no answer

\* get: GET of an /rci/ path; startup: GET of /rci/more?filename=startup-config;
\* ci: GET of a /ci/ path; show: POST of a show query; mutate: every other POST
\* and DELETE.
AllKinds == {"get", "startup", "ci", "show", "mutate"}

ASSUME SessionAssumption ==
  IsFiniteSet(Requests) /\ Kinds \subseteq AllKinds /\ Null \notin Requests

VARIABLES
  pc,          \* where each request is
  kind,        \* what it asks
  aborted,     \* its signal is aborted
  expired,     \* its deadline has passed
  resent,      \* it is on its second send, after a 401
  joined,      \* the flight it waits on
  outcome,     \* what its caller is told
  answer,      \* the request whose response its caller is given
  handshake,   \* this.handshake: the flight in progress
  phase,       \* flights: none, running or settled
  waiters,     \* flights: flight.waiters
  doomed,      \* flights: flight.controller is aborted
  result,      \* flights: what the promise settled with
  auth,        \* this.authorization
  proven,      \* this.rciAccessProven
  limbo,       \* router: transmissions it may still execute
  executed     \* router: executions of a mutation

requestVars == <<pc, kind, aborted, expired, resent, joined, outcome, answer>>
flightVars == <<handshake, phase, waiters, doomed, result>>
routerVars == <<limbo, executed>>
vars == <<requestVars, flightVars, auth, proven, routerVars>>

Statuses == {"ok", "error", "401", "403"} \* 2xx, any other, and the two refusals
Failures == {"transport", "cancelled", "deadline"}
Outcomes == {"none", "ok", "error", "auth", "denied"} \cup Failures
\* No authorization yet; none needed, Basic or Digest; a Digest challenge that
\* lacks a realm or nonce, or asks for an algorithm or qop this client lacks.
Authorizations == {"null", "usable", "unusable"}

\* A flight settles with a response that is its initiator's own, with leave to
\* proceed (a challenge, or a response nobody asked for), or with an error.
Results == {"none", "proceed", "auth"} \cup Failures \cup (Statuses \ {"401"})

\* Waiter counts in particular never go below zero.
TypeOK ==
  /\ pc \in [Requests -> {"idle", "waiting", "leaving", "sending", "ended"}]
  /\ kind \in [Requests -> AllKinds]
  /\ aborted \in [Requests -> BOOLEAN]
  /\ expired \in [Requests -> BOOLEAN]
  /\ resent \in [Requests -> BOOLEAN]
  /\ joined \in [Requests -> Requests \cup {Null}]
  /\ outcome \in [Requests -> Outcomes]
  /\ answer \in [Requests -> Requests \cup {Null}]
  /\ handshake \in Requests \cup {Null}
  /\ phase \in [Requests -> {"none", "running", "settled"}]
  /\ waiters \in [Requests -> Nat]
  /\ doomed \in [Requests -> BOOLEAN]
  /\ result \in [Requests -> Results]
  /\ auth \in Authorizations
  /\ proven \in BOOLEAN
  /\ limbo \in [Requests -> Nat]
  /\ executed \in [Requests -> Nat]

Init ==
  /\ pc = [r \in Requests |-> "idle"]
  /\ kind \in [Requests -> Kinds]
  /\ aborted = [r \in Requests |-> FALSE]
  /\ expired = [r \in Requests |-> FALSE]
  /\ resent = [r \in Requests |-> FALSE]
  /\ joined = [r \in Requests |-> Null]
  /\ outcome = [r \in Requests |-> "none"]
  /\ answer = [r \in Requests |-> Null]
  /\ handshake = Null
  /\ phase = [f \in Requests |-> "none"]
  /\ waiters = [f \in Requests |-> 0]
  /\ doomed = [f \in Requests |-> FALSE]
  /\ result = [f \in Requests |-> "none"]
  /\ auth = "null"
  /\ proven = FALSE
  /\ limbo = [r \in Requests |-> 0]
  /\ executed = [r \in Requests |-> 0]

Operational(r) == kind[r] \in {"get", "startup", "ci"} \* discoveryIsOperational

-----------------------------------------------------------------------------
(***************************************************************************)
(* How a request ends and how it is sent.                                  *)
(***************************************************************************)
Forget(r) == \* the locals of the call
  /\ aborted' = [aborted EXCEPT ![r] = FALSE]
  /\ expired' = [expired EXCEPT ![r] = FALSE]
  /\ resent' = [resent EXCEPT ![r] = FALSE]

End(r, why, from) ==
  /\ pc' = [pc EXCEPT ![r] = "ended"]
  /\ Forget(r)
  /\ outcome' = [outcome EXCEPT ![r] = why]
  /\ answer' = [answer EXCEPT ![r] = from]

\* classify: a proxy that denies a /ci/ path, or the startup configuration of a
\* router whose RCI has answered, lacks a capability; else a refusal is final.
Denied(r, status) ==
  status = "403" /\ (kind[r] = "ci" \/ (kind[r] = "startup" /\ proven))

Verdict(r, status) ==
  IF Denied(r, status) THEN "denied"
  ELSE IF status \in {"401", "403"} THEN "auth" ELSE status

Classify(r, status, from) ==
  /\ End(r, Verdict(r, status), from)
  /\ proven' = (proven \/ (status = "ok" /\ kind[r] \notin {"ci", "startup"}))

\* send, up to its first fetch: an unusable challenge, a passed deadline and an
\* aborted signal end the request with nothing transmitted.  "left" is what the
\* router still holds of the request, "again" whether this is its second send.
Dispatch(r, authorization, left, again) ==
  \/ /\ authorization = "unusable"
     /\ End(r, "auth", Null)
     /\ limbo' = left
  \/ /\ authorization # "unusable" /\ expired[r]
     /\ End(r, "deadline", Null)
     /\ limbo' = left
  \/ /\ authorization # "unusable" /\ ~expired[r] /\ aborted[r]
     /\ End(r, "cancelled", Null)
     /\ limbo' = left
  \/ /\ authorization # "unusable" /\ ~expired[r] /\ ~aborted[r]
     /\ pc' = [pc EXCEPT ![r] = "sending"]
     /\ limbo' = [left EXCEPT ![r] = IF kind[r] = "mutate" THEN @ + 1 ELSE @]
     /\ UNCHANGED <<aborted, expired, outcome, answer>>
     /\ resent' = again

-----------------------------------------------------------------------------
(***************************************************************************)
(* The handshake.                                                          *)
(***************************************************************************)
StartCancelled(r) ==
  /\ pc[r] = "idle" /\ aborted[r]
  /\ End(r, "cancelled", Null)
  /\ UNCHANGED <<kind, joined, flightVars, auth, proven, routerVars>>

StartAuthorized(r) ==
  /\ pc[r] = "idle" /\ ~aborted[r] /\ auth # "null"
  /\ Dispatch(r, auth, limbo, resent)
  /\ UNCHANGED <<kind, joined, flightVars, auth, proven, executed>>

Wait(r, f) ==
  /\ pc' = [pc EXCEPT ![r] = "waiting"]
  /\ joined' = [joined EXCEPT ![r] = f]
  /\ waiters' = [waiters EXCEPT ![f] = @ + 1]
  /\ UNCHANGED <<kind, aborted, expired, resent, outcome, answer,
                 doomed, result, auth, proven, routerVars>>

\* The first request discovers the authorization: a GET by itself, every other
\* method by a GET of show/version.
Initiate(r) ==
  /\ pc[r] = "idle" /\ ~aborted[r] /\ auth = "null" /\ handshake = Null
  /\ handshake' = r
  /\ phase' = [phase EXCEPT ![r] = "running"]
  /\ Wait(r, r)

Join(r) ==
  /\ pc[r] = "idle" /\ ~aborted[r] /\ auth = "null" /\ handshake # Null
  /\ Wait(r, handshake)
  /\ UNCHANGED <<handshake, phase>>

\* The flight's promise settles and its finally clears this.handshake.  The
\* discovery is one GET with a deadline of its own, never earlier than its
\* initiator's; its answer may race its abort.
Settle(f, r, authorization) ==
  /\ phase[f] = "running"
  /\ phase' = [phase EXCEPT ![f] = "settled"]
  /\ result' = [result EXCEPT ![f] = r]
  /\ handshake' = IF handshake = f THEN Null ELSE handshake
  /\ auth' = authorization
  /\ UNCHANGED <<requestVars, waiters, doomed, proven, routerVars>>

DiscoveryChallenged(f) ==
  \E offered \in {"usable", "unusable"} : Settle(f, "proceed", offered)

DiscoveryDirect(f) ==
  \E status \in Statuses \ {"401"} :
    Settle(f, IF Operational(f) THEN status ELSE "proceed", "usable")

DiscoveryRefused(f) == Settle(f, "auth", auth) \* neither Digest nor Basic

DiscoveryFails(f) ==
  \E why \in Failures :
    /\ why = "cancelled" => doomed[f]
    /\ why = "deadline" => doomed[f] \/ expired[f] \/ pc[f] = "ended" \/ Operational(f)
    /\ Settle(f, why, auth)

\* The signal or the deadline wins the race against a flight that still runs.
\* The waiter leaves a few microtasks later.
Interrupt(r, why) ==
  IF pc[r] = "waiting" /\ phase[joined[r]] = "running"
  THEN /\ pc' = [pc EXCEPT ![r] = "leaving"]
       /\ outcome' = [outcome EXCEPT ![r] = why]
  ELSE UNCHANGED <<pc, outcome>>

\* waitForHandshake's finally: the last one out aborts the discovery.
LeaveClearing(r) == \* mutant: the last one out also forgets it at once
  /\ pc[r] = "leaving"
  /\ pc' = [pc EXCEPT ![r] = "ended"]
  /\ waiters' = [waiters EXCEPT ![joined[r]] = @ - 1]
  /\ doomed' = [doomed EXCEPT ![joined[r]] =
       @ \/ (waiters'[joined[r]] = 0 /\ phase[joined[r]] = "running")]
  /\ handshake' = IF doomed'[joined[r]] THEN Null ELSE handshake
  /\ Forget(r)
  /\ joined' = [joined EXCEPT ![r] = Null]
  /\ UNCHANGED <<kind, outcome, answer, phase, result, auth, proven, routerVars>>

LeaveQuietly(r) == \* mutant: nobody aborts it
  /\ pc[r] = "leaving"
  /\ pc' = [pc EXCEPT ![r] = "ended"]
  /\ waiters' = [waiters EXCEPT ![joined[r]] = @ - 1]
  /\ Forget(r)
  /\ joined' = [joined EXCEPT ![r] = Null]
  /\ UNCHANGED <<kind, outcome, answer,
                 handshake, phase, doomed, result, auth, proven, routerVars>>

LeaveAborting(r) == \* mutant: the first one out aborts it
  /\ pc[r] = "leaving"
  /\ pc' = [pc EXCEPT ![r] = "ended"]
  /\ waiters' = [waiters EXCEPT ![joined[r]] = @ - 1]
  /\ doomed' = [doomed EXCEPT ![joined[r]] = @ \/ phase[joined[r]] = "running"]
  /\ Forget(r)
  /\ joined' = [joined EXCEPT ![r] = Null]
  /\ UNCHANGED <<kind, outcome, answer,
                 handshake, phase, result, auth, proven, routerVars>>

Leave(r) ==
  /\ pc[r] = "leaving"
  /\ pc' = [pc EXCEPT ![r] = "ended"]
  /\ waiters' = [waiters EXCEPT ![joined[r]] = @ - 1]
  /\ doomed' = [doomed EXCEPT ![joined[r]] =
       @ \/ (waiters'[joined[r]] = 0 /\ phase[joined[r]] = "running")]
  /\ Forget(r)
  /\ joined' = [joined EXCEPT ![r] = Null]
  /\ UNCHANGED <<kind, outcome, answer,
                 handshake, phase, result, auth, proven, routerVars>>

SharedResponse(r) == \* mutant: a joiner takes the initiator's response, too
  result[joined[r]] \in Statuses

\* The flight settled with the response to the initiator's own GET, and r is it.
OwnResponse(r) == result[joined[r]] \in Statuses /\ joined[r] = r

\* A waiter of a settled flight goes on: a failed flight fails it, the initiator
\* of a discovery that was its own request has its response, and everyone else
\* sends what it came to send.
Resume(r) ==
  /\ pc[r] = "waiting" /\ phase[joined[r]] = "settled"
  /\ waiters' = [waiters EXCEPT ![joined[r]] = @ - 1]
  /\ LET got == result[joined[r]]
     IN \/ /\ got \in {"auth"} \cup Failures
           /\ End(r, got, Null)
           /\ UNCHANGED <<limbo, proven>>
        \/ /\ OwnResponse(r)
           /\ Classify(r, got, joined[r])
           /\ UNCHANGED limbo
        \/ /\ got \in {"proceed"} \cup Statuses /\ ~OwnResponse(r)
           /\ Dispatch(r, auth, limbo, resent)
           /\ UNCHANGED proven
  /\ joined' = [joined EXCEPT ![r] = Null]
  /\ UNCHANGED <<kind, handshake, phase, doomed, result, auth, executed>>

-----------------------------------------------------------------------------
(***************************************************************************)
(* The sends.                                                              *)
(***************************************************************************)

\* The router acknowledges only what it executed and refuses only what it did
\* not; an error status leaves it open.
RouterAnswers(r, status) ==
  IF kind[r] # "mutate" THEN limbo' = limbo
  ELSE /\ status = "ok" => executed[r] > 0
       /\ status \in {"401", "403"} => limbo[r] > 0
       /\ limbo' = IF status \in {"401", "403"}
                   THEN [limbo EXCEPT ![r] = @ - 1] ELSE limbo

\* Any answer but a first 401 is the request's.
SendAnswered(r) ==
  /\ pc[r] = "sending"
  /\ \E status \in Statuses :
       /\ status = "401" => resent[r]
       /\ RouterAnswers(r, status)
       /\ Classify(r, status, r)
  /\ UNCHANGED <<kind, joined, flightVars, auth, executed>>

\* A first 401, of a stale nonce or of a proxy that had asked for nothing, brings
\* a new challenge, and the request is sent once more.
SendChallenged(r) ==
  /\ pc[r] = "sending" /\ ~resent[r]
  /\ kind[r] = "mutate" => limbo[r] > 0
  /\ LET left == [limbo EXCEPT ![r] = IF kind[r] = "mutate" THEN @ - 1 ELSE @]
     IN \/ /\ End(r, "auth", Null)
           /\ limbo' = left
           /\ UNCHANGED auth
        \/ /\ auth' \in {"usable", "unusable"}
           /\ Dispatch(r, auth', left, [resent EXCEPT ![r] = TRUE])
  /\ UNCHANGED <<kind, joined, flightVars, proven, executed>>

SendRepeated(r) == \* mutant: a failed send of a mutation is sent again
  /\ pc[r] = "sending" /\ limbo[r] < 2
  /\ limbo' = [limbo EXCEPT ![r] = IF kind[r] = "mutate" THEN @ + 1 ELSE @]
  /\ UNCHANGED <<requestVars, flightVars, auth, proven, executed>>

\* A send that may be repeated also gives up when a backoff would outlast the
\* deadline.
SendFails(r) ==
  /\ pc[r] = "sending"
  /\ \E why \in Failures :
       /\ why = "cancelled" => aborted[r]
       /\ why = "deadline" => expired[r] \/ kind[r] # "mutate"
       /\ End(r, why, Null)
  /\ UNCHANGED <<kind, joined, flightVars, auth, proven, routerVars>>

-----------------------------------------------------------------------------
(***************************************************************************)
(* The environment: callers' signals, the clock, the network, the router.  *)
(***************************************************************************)
Abort(r) ==
  /\ pc[r] \in {"idle", "waiting", "sending"} /\ ~aborted[r]
  /\ aborted' = [aborted EXCEPT ![r] = TRUE]
  /\ Interrupt(r, "cancelled")
  /\ UNCHANGED <<kind, expired, resent, joined, answer, flightVars, auth, proven, routerVars>>

Expire(r) ==
  /\ pc[r] \in {"waiting", "sending"} /\ ~expired[r]
  /\ expired' = [expired EXCEPT ![r] = TRUE]
  /\ Interrupt(r, "deadline")
  /\ UNCHANGED <<kind, aborted, resent, joined, answer, flightVars, auth, proven, routerVars>>

Execute(r) ==
  /\ limbo[r] > 0
  /\ limbo' = [limbo EXCEPT ![r] = @ - 1]
  /\ executed' = [executed EXCEPT ![r] = @ + 1]
  /\ UNCHANGED <<requestVars, flightVars, auth, proven>>

Lose(r) ==
  /\ limbo[r] > 0
  /\ limbo' = [limbo EXCEPT ![r] = @ - 1]
  /\ UNCHANGED <<requestVars, flightVars, auth, proven, executed>>

-----------------------------------------------------------------------------
Request(r) ==
  \/ StartCancelled(r)
  \/ StartAuthorized(r)
  \/ Initiate(r)
  \/ Join(r)
  \/ Leave(r)
  \/ Resume(r)
  \/ SendAnswered(r)
  \/ SendChallenged(r)
  \/ SendFails(r)

Discovery(f) ==
  \/ DiscoveryChallenged(f)
  \/ DiscoveryDirect(f)
  \/ DiscoveryRefused(f)
  \/ DiscoveryFails(f)

Environment(r) == Abort(r) \/ Expire(r) \/ Execute(r) \/ Lose(r)

Next == \E r \in Requests : Request(r) \/ Discovery(r) \/ Environment(r)

\* The clock and the continuations run, and a fetch rejects once its signal is
\* aborted or timed out.  Nothing is assumed of callers, network or router.
Fairness ==
  \A r \in Requests :
    /\ WF_vars(Expire(r))
    /\ WF_vars(Leave(r))
    /\ WF_vars(Resume(r))
    /\ WF_vars(expired[r] /\ SendFails(r))
    /\ WF_vars(doomed[r] /\ DiscoveryFails(r))

Safety == Init /\ [][Next]_vars
Spec == Safety /\ Fairness

-----------------------------------------------------------------------------
(***************************************************************************)
(* Properties.                                                             *)
(***************************************************************************)

\* Callers of mutating requests get what RemoteContract promises, however the
\* handshake, the second send after a 401, their own signal and a router that
\* executes late interleave.
Contract == INSTANCE RemoteContract WITH
  mutating <- {r \in Requests : kind[r] = "mutate"},
  told <- outcome, pending <- limbo, runs <- executed
ImplementsContract == Contract!Spec

\* A caller is only ever given the response to its own request: the response
\* that settles a discovery belongs to the initiator's GET alone.
AnswersOwnRequest ==
  \A r \in Requests :
    /\ answer[r] \in {Null, r}
    /\ outcome[r] \in {"ok", "error", "denied"} => answer[r] = r

\* docs/REMOTE_RCI.md:56 "Concurrent first requests share one authentication
\* handshake": no two discoveries run at once, and none beside a send.
OneHandshake ==
  \A f \in Requests : phase[f] = "running" =>
    /\ \A g \in Requests \ {f} : phase[g] # "running"
    /\ \A r \in Requests : pc[r] # "sending"

\* Nothing is sent before a handshake has settled how to authorize it.
SendsAfterHandshake == \A r \in Requests : pc[r] = "sending" => auth # "null"

Companions(f) == {r \in Requests : pc[r] \in {"waiting", "leaving"} /\ joined[r] = f}

\* A discovery that nobody waits for has been told to stop.
AbandonedDiscoveryStops ==
  \A f \in Requests :
    phase[f] = "running" /\ Companions(f) = {} => doomed[f]

\* tests/router/remote-session.test.ts:179 "keeps a shared initial handshake
\* alive when one caller cancels": no caller's leaving stops the discovery
\* another one waits for.
LeavingHarmsNobody ==
  [][\A f \in Requests :
       ~doomed[f] /\ doomed'[f] => Companions(f)' = {}]_vars

\* Every request ends and every discovery gets out of the way, even if no
\* answer ever comes.
EveryRequestEnds ==
  /\ \A r \in Requests : []<>(pc[r] \in {"idle", "ended"})
  /\ \A f \in Requests : []<>(handshake # f)

\* The handshake as its callers see it: shared by the concurrent ones, finished
\* before anyone sends, and stopped once nobody waits for it.
SharedHandshake == OneHandshake /\ SendsAfterHandshake /\ AbandonedDiscoveryStops

-----------------------------------------------------------------------------
(***************************************************************************)
(* The invariant the proofs rest on.                                       *)
(***************************************************************************)

\* flight.waiters counts the requests whose finally has yet to run.
WaitersCounted == \A f \in Requests : waiters[f] = Cardinality(Companions(f))

\* this.handshake is the running flight, there is an authorization once a flight
\* has settled well, and only then does anyone send.
HandshakeInv ==
  /\ \A f \in Requests : phase[f] = "running" <=> handshake = f
  /\ handshake # Null => auth = "null"
  /\ \A r \in Requests : pc[r] = "sending" => auth # "null"
  /\ \A r \in Requests :
       pc[r] \in {"waiting", "leaving"} =>
         joined[r] \in Requests /\ phase[joined[r]] # "none"
  /\ \A f \in Requests :
       phase[f] = "settled" /\ result[f] \in {"proceed"} \cup Statuses => auth # "null"
  /\ \A f \in Requests : result[f] \in Statuses => Operational(f)

\* A mutation is with the router once at most, and not before its request sends.
Once(r) ==
  /\ limbo[r] + executed[r] <= 1
  /\ kind[r] # "mutate" => limbo[r] + executed[r] = 0
  /\ pc[r] \in {"idle", "waiting", "leaving"} => limbo[r] + executed[r] = 0
  /\ pc[r] \in {"idle", "waiting", "sending"} => outcome[r] = "none"

OnceInv == \A r \in Requests : Once(r)

Inv == TypeOK /\ WaitersCounted /\ HandshakeInv /\ OnceInv

=============================================================================
