----------------------------- MODULE LanSession -----------------------------
(***************************************************************************)
(* The session on the local network (src/router/session.ts): a cookie that *)
(* every response may replace, a login the concurrent callers share, and a *)
(* request that is sent again, once, after a 401.                          *)
(*                                                                         *)
(* The router is external: it knows a session by its cookie, ties a        *)
(* challenge to the session it was issued in, gives a new cookie to who    *)
(* has none, and may let a session expire at any time.  A login is named   *)
(* after the request that began it.  A caller's signal and its deadline    *)
(* have the same effect, and are one flag.                                 *)
(***************************************************************************)
EXTENDS Naturals, FiniteSets

CONSTANTS Requests, Cookies, Null

ASSUME LanAssumption == IsFiniteSet(Requests) /\ Null \notin Requests \cup Cookies

VARIABLES
  mutating,  \* the requests that change the router
  pc, cut,   \* where each request is; whether its signal or deadline has come
  resent,    \* it is on its second send
  carried,   \* the cookie its last send had
  joined,    \* the login it waits for
  outcome,
  login,     \* authInFlight
  phase, waiters, doomed, result, \* of each login
  probe,     \* the cookie of its probe, then of its POST
  challenge, \* the session it was challenged in
  cookie,
  valid,     \* the router knows the credentials
  issued, authorized, \* cookies the router has given out, and those logged in
  limbo, executed,    \* of each mutation: on its way, executions
  disturbed  \* history: a session expired, or the cookie in use was replaced

requestVars == <<mutating, pc, cut, resent, carried, joined, outcome>>
loginVars == <<login, phase, waiters, doomed, result, probe, challenge>>
sessionVars == <<cookie, issued, disturbed>>
routerVars == <<limbo, executed>>
lanVars == <<requestVars, loginVars, sessionVars, valid, authorized, routerVars>>

LanInit ==
  /\ mutating \in SUBSET Requests
  /\ pc = [r \in Requests |-> "idle"]
  /\ cut = [r \in Requests |-> FALSE] /\ resent = [r \in Requests |-> FALSE]
  /\ carried = [r \in Requests |-> Null] /\ joined = [r \in Requests |-> Null]
  /\ outcome = [r \in Requests |-> "none"]
  /\ login = Null /\ phase = [f \in Requests |-> "none"]
  /\ waiters = [f \in Requests |-> 0] /\ doomed = [f \in Requests |-> FALSE]
  /\ result = [f \in Requests |-> "none"]
  /\ probe = [f \in Requests |-> Null] /\ challenge = [f \in Requests |-> Null]
  /\ cookie = Null /\ valid \in BOOLEAN
  /\ issued = {} /\ authorized = {} /\ disturbed = FALSE
  /\ limbo = [r \in Requests |-> 0] /\ executed = [r \in Requests |-> 0]

Running(f) == phase[f] \in {"probing", "posting"}

-----------------------------------------------------------------------------
(***************************************************************************)
(* captureCookie, and the router that sets it.                             *)
(***************************************************************************)
Capture(k) ==
  /\ cookie' = k /\ issued' = issued \cup {k}
  /\ disturbed' = (disturbed \/ cookie \notin {Null, k})

\* Whether a response sets a cookie is up to the router, which does so only for who had none.
MayCapture(had) ==
  \/ UNCHANGED sessionVars
  \/ had = Null /\ \E k \in Cookies \ issued : Capture(k)

-----------------------------------------------------------------------------
(***************************************************************************)
(* request and send.                                                       *)
(***************************************************************************)
Transmit(r, again) ==
  /\ pc' = [pc EXCEPT ![r] = "sending"] /\ resent' = [resent EXCEPT ![r] = again]
  /\ carried' = [carried EXCEPT ![r] = cookie]
  /\ limbo' = [limbo EXCEPT ![r] = IF r \in mutating THEN 1 ELSE 0]

End(r, why) == pc' = [pc EXCEPT ![r] = "ended"] /\ outcome' = [outcome EXCEPT ![r] = why]

FirstSend(r) ==
  /\ pc[r] = "idle"
  /\ Transmit(r, FALSE)
  /\ UNCHANGED <<mutating, cut, joined, outcome, loginVars, sessionVars, valid, authorized, executed>>

Answered(r) ==
  /\ pc[r] = "sending"
  /\ IF r \in mutating THEN executed[r] = 1 /\ limbo[r] = 0 ELSE carried[r] \in authorized
  /\ End(r, "ok")
  /\ UNCHANGED <<mutating, cut, resent, carried, joined, loginVars, sessionVars, valid, authorized,
                 routerVars>>

SendFailsRepeated(r) == \* mutant: what may have arrived is sent again
  /\ pc[r] = "sending" /\ ~cut[r]
  /\ Transmit(r, TRUE)
  /\ UNCHANGED <<mutating, cut, joined, outcome, loginVars, sessionVars, valid, authorized, executed>>

\* fetch rejects: the network, the caller's signal or the deadline.
SendFails(r) ==
  /\ pc[r] = "sending"
  /\ End(r, "transport")
  /\ UNCHANGED <<mutating, cut, resent, carried, joined, loginVars, sessionVars, valid, authorized,
                 routerVars>>

\* A 401 is not executed.  The first leads to a login, begun or joined; the second is final.
RefusedTwice(r) ==
  /\ pc[r] = "sending" /\ resent[r]
  /\ carried[r] \notin authorized /\ executed[r] = 0
  /\ MayCapture(carried[r])
  /\ End(r, "auth")
  /\ limbo' = [limbo EXCEPT ![r] = 0]
  /\ UNCHANGED <<mutating, cut, resent, carried, joined, loginVars, valid, authorized, executed>>

Refused(r) ==
  /\ pc[r] = "sending" /\ ~resent[r]
  /\ carried[r] \notin authorized /\ executed[r] = 0
  /\ MayCapture(carried[r])
  /\ pc' = [pc EXCEPT ![r] = "waiting"]
  /\ limbo' = [limbo EXCEPT ![r] = 0]
  /\ LET f == IF login = Null THEN r ELSE login
     IN /\ login' = f /\ joined' = [joined EXCEPT ![r] = f]
        /\ waiters' = [waiters EXCEPT ![f] = @ + 1]
        /\ IF login = Null
           THEN /\ phase' = [phase EXCEPT ![f] = "probing"]
                /\ probe' = [probe EXCEPT ![f] = cookie']
           ELSE UNCHANGED <<phase, probe>>
  /\ UNCHANGED <<mutating, cut, resent, carried, outcome, doomed, result, challenge,
                 valid, authorized, executed>>

-----------------------------------------------------------------------------
(***************************************************************************)
(* ensureAuthenticated: leaving a login, or going on after it.             *)
(***************************************************************************)
Depart(r) ==
  LET f == joined[r]
  IN /\ waiters' = [waiters EXCEPT ![f] = @ - 1]
     /\ doomed' = [doomed EXCEPT ![f] = @ \/ (waiters[f] = 1 /\ Running(f))]

Leave(r) ==
  /\ pc[r] = "waiting" /\ cut[r]
  /\ Depart(r)
  /\ End(r, "transport")
  /\ UNCHANGED <<mutating, cut, resent, carried, joined, login, phase, result, probe, challenge,
                 sessionVars, valid, authorized, routerVars>>

Resume(r) ==
  /\ pc[r] = "waiting" /\ phase[joined[r]] = "settled"
  /\ Depart(r)
  /\ \/ /\ result[joined[r]] = "ok" /\ ~cut[r]
        /\ Transmit(r, TRUE) /\ UNCHANGED outcome
     \/ /\ result[joined[r]] # "ok"
        /\ End(r, result[joined[r]]) /\ UNCHANGED <<resent, carried, limbo>>
  /\ UNCHANGED <<mutating, cut, joined, login, phase, result, probe, challenge,
                 sessionVars, valid, authorized, executed>>

-----------------------------------------------------------------------------
(***************************************************************************)
(* authenticate.                                                           *)
(***************************************************************************)
SettleKeeping(f, how) == \* mutant: the settled login is not forgotten
  /\ phase' = [phase EXCEPT ![f] = "settled"] /\ result' = [result EXCEPT ![f] = how]
  /\ UNCHANGED login

Settle(f, how) ==
  /\ phase' = [phase EXCEPT ![f] = "settled"] /\ result' = [result EXCEPT ![f] = how]
  /\ login' = IF login = f THEN Null ELSE login

\* The probe finds itself logged in, brings a challenge, or is answered without either.
ProbeAnswered(f) ==
  /\ phase[f] = "probing"
  /\ \/ /\ probe[f] \in authorized
        /\ Settle(f, "ok") /\ UNCHANGED <<probe, challenge, sessionVars>>
     \/ /\ probe[f] \notin authorized
        /\ \/ probe[f] # Null /\ UNCHANGED sessionVars
              /\ challenge' = [challenge EXCEPT ![f] = probe[f]]
           \/ probe[f] = Null /\ \E k \in Cookies \ issued :
                Capture(k) /\ challenge' = [challenge EXCEPT ![f] = k]
        /\ phase' = [phase EXCEPT ![f] = "posting"]
        /\ probe' = [probe EXCEPT ![f] = cookie']
        /\ UNCHANGED <<result, login>>
     \/ Settle(f, "auth") /\ MayCapture(probe[f]) /\ UNCHANGED <<probe, challenge>>
  /\ UNCHANGED <<requestVars, waiters, doomed, valid, authorized, routerVars>>

\* The answer to a challenge is accepted in the session of the challenge only.
Accept(f) ==
  /\ phase[f] = "posting" /\ valid /\ probe[f] = challenge[f]
  /\ authorized' = authorized \cup {challenge[f]}

\* Every status but 200, a 503 or a lockout too, is told as rejected credentials.
PostAnswered(f) ==
  /\ phase[f] = "posting"
  /\ \/ Accept(f) /\ Settle(f, "ok")
     \/ Settle(f, "auth") /\ UNCHANGED authorized
  /\ UNCHANGED <<requestVars, waiters, doomed, probe, challenge, sessionVars, valid, routerVars>>

\* No answer: the network, its own timeout, or nobody is left who waits.  The router may have
\* accepted all the same.
LoginFails(f) ==
  /\ Running(f)
  /\ Settle(f, "transport")
  /\ Accept(f) \/ UNCHANGED authorized
  /\ UNCHANGED <<requestVars, waiters, doomed, probe, challenge, sessionVars, valid, routerVars>>

-----------------------------------------------------------------------------
Cut(r) ==
  /\ pc[r] \in {"sending", "waiting"} /\ ~cut[r]
  /\ cut' = [cut EXCEPT ![r] = TRUE]
  /\ UNCHANGED <<mutating, pc, resent, carried, joined, outcome, loginVars, sessionVars, valid,
                 authorized, routerVars>>

Execute(r) ==
  /\ limbo[r] = 1 /\ carried[r] \in authorized
  /\ limbo' = [limbo EXCEPT ![r] = 0] /\ executed' = [executed EXCEPT ![r] = @ + 1]
  /\ UNCHANGED <<requestVars, loginVars, sessionVars, valid, authorized>>

SessionExpires ==
  /\ \E k \in authorized : authorized' = authorized \ {k}
  /\ disturbed' = TRUE
  /\ UNCHANGED <<requestVars, loginVars, cookie, issued, valid, routerVars>>

LanNext ==
  \/ \E r \in Requests :
       \/ FirstSend(r) \/ Answered(r) \/ SendFails(r) \/ RefusedTwice(r) \/ Refused(r)
       \/ Leave(r) \/ Resume(r) \/ ProbeAnswered(r) \/ PostAnswered(r) \/ LoginFails(r)
       \/ Cut(r) \/ Execute(r)
  \/ SessionExpires

\* The clock runs, and a fetch rejects once its signal is aborted or timed out; a login
\* has a timeout of its own.
LanProceed(r) == Cut(r) \/ (cut[r] /\ SendFails(r)) \/ Leave(r) \/ Resume(r) \/ LoginFails(r)

LanFairness == \A r \in Requests : WF_lanVars(LanProceed(r))

LanSafety == LanInit /\ [][LanNext]_lanVars
LanSpec == LanSafety /\ LanFairness

-----------------------------------------------------------------------------
(***************************************************************************)
(* Properties.                                                             *)
(***************************************************************************)
\* The repetition after a 401 keeps the contract of the remote session: a mutation runs at
\* most once, an acknowledged one has run, a refused one has not and will not.
LanContract == INSTANCE RemoteContract WITH
  told <- outcome, pending <- limbo, runs <- executed
LanImplementsContract == LanContract!Spec

\* session.ts:62-66, "rejected credentials ... after re-authenticating": a request whose login
\* has succeeded, its own or a shared one, is refused again only if a session expired or another
\* response replaced the cookie meanwhile.  The login itself may be refused for any reason.
RejectionHasReason ==
  \A r \in Requests : resent[r] /\ outcome[r] = "auth" => disturbed

Waiting(f) == {r \in Requests : pc[r] = "waiting" /\ joined[r] = f}

\* Concurrent callers share one login, which is told to stop when and only when the last of them
\* has left.
LoginIsShared ==
  /\ \A f \in Requests : Running(f) =>
       /\ login = f /\ waiters[f] = Cardinality(Waiting(f))
       /\ Waiting(f) = {} => doomed[f]
  /\ login # Null => Running(login)

\* Whoever leaves stops no login that another one waits for.
LeavingLeavesLogin == \A f \in Requests : ~doomed[f] /\ doomed'[f] => Waiting(f)' = {}

\* What callers share does not hurt them: the three above.
LoginIsSound == [][LoginIsShared' /\ RejectionHasReason' /\ LeavingLeavesLogin]_lanVars

\* Every request ends, even if the router never answers: again and again there is a moment when
\* none is under way.
LanProgress == []<>(\A r \in Requests : pc[r] \notin {"sending", "waiting"})
=============================================================================
