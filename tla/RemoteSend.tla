----------------------------- MODULE RemoteSend -----------------------------
(***************************************************************************)
(* One HTTP exchange of a remote session (RemoteSession.send and fallback, *)
(* router/remote-session.ts): normal attempts with backoff, then at most   *)
(* two attempts pinned to other edges of the pool.  Several sends of one   *)
(* session run at once and share its pool; each is cut short by its own    *)
(* signal or deadline.                                                     *)
(***************************************************************************)
EXTENDS EdgeTiers

CONSTANTS
  Senders,  \* the sends in progress
  Attempts, \* opts.attempts ?? 5
  Answers   \* the sets of addresses a lookup may supply

ASSUME SendAssumption == Attempts \in Nat \ {0} /\ Answers \subseteq SUBSET Ips

VARIABLE send \* send[s] of every send: its control state, context and history

vars == <<tier, send>>

Outcomes == {"none", "response", "transport", "cancelled", "deadline"}

Send == [
  pc : {"done", "normal", "backoff", "pinned"},
  safe : BOOLEAN,               \* isReplaySafe of the request
  attempt : 0 .. Attempts,      \* attemptNumber
  attempted : SUBSET Ips,       \* context.attempted
  correlated : BOOLEAN,         \* context.correlationComplete
  candidates : Seq(Ips),        \* pinned edges to go, the current one first
  aborted : BOOLEAN,            \* signal.aborted
  expired : BOOLEAN,            \* the deadline has passed
  outcome : Outcomes,
  sent : Nat,                   \* history: fetches that reached the network
  tried : SUBSET Ips]           \* history: edges this send really turned to

\* Attempt numbers stay within the attempts made, and edges are canonical.
TypeOK == tier \in [Ips -> Tier] /\ send \in [Senders -> Send]

NewSend(safe, aborted, expired) ==
  [pc |-> "done", safe |-> safe, attempt |-> 0, attempted |-> {},
   correlated |-> TRUE, candidates |-> <<>>, aborted |-> aborted,
   expired |-> expired, outcome |-> "none", sent |-> 0, tried |-> {}]

SendInit == send = [s \in Senders |-> NewSend(TRUE, FALSE, FALSE)]

-----------------------------------------------------------------------------
(***************************************************************************)
(* What the connector and the diagnostics channels learn of one attempt.   *)
(* "edges" are those it really turned to, the rest is its NormalAttempt.   *)
(***************************************************************************)
Evidence == [edges : SUBSET Ips, selected : SUBSET Ips, supplied : SUBSET Ips,
             observation : SUBSET Ips, complete : BOOLEAN]

\* No diagnostics message could be tied to the attempt.
Uncorrelated ==
  {[edges |-> E, selected |-> {}, supplied |-> {}, observation |-> {},
    complete |-> FALSE] : E \in {{}} \cup {{ip} : ip \in Ips}}

\* No connection was made; an answer is observed by the first to claim it.
ConnectFailed ==
  UNION {{[edges |-> S, selected |-> {}, supplied |-> S, observation |-> O,
           complete |-> TRUE] : O \in {{}, S}} : S \in Answers \cup {{}}}

\* The headers went out on a connection to e, new or kept alive.
HeadersSent ==
  UNION {{[edges |-> {e}, selected |-> {e}, supplied |-> S, observation |-> O,
           complete |-> TRUE] : O \in {{}, S}, e \in S} : S \in Answers}

\* finishNormalAttempt: the pools that recording the attempt may lead to.
HealthSetSupplied(a) == \* mutant: every supplied address takes the credit
  IF ~a.complete THEN {} ELSE a.selected \cup a.supplied

HealthSet(a) ==
  IF ~a.complete THEN {} ELSE IF a.selected # {} THEN a.selected ELSE a.supplied

Succeeded(a) ==
  UNION {AfterSuccess(t, HealthSet(a)) : t \in AfterObserving(tier, a.observation)}
Failed(a) ==
  UNION {AfterFailure(t, HealthSet(a)) : t \in AfterObserving(tier, a.observation)}
Neutral(a) == AfterObserving(tier, a.observation)

-----------------------------------------------------------------------------
(***************************************************************************)
(* send                                                                    *)
(***************************************************************************)
Active == {"normal", "backoff", "pinned"}
Interrupted(r) == r.aborted \/ r.expired
Settled(r, outcome) == \* the SendContext ends, and with it the request
  [NewSend(TRUE, FALSE, FALSE) EXCEPT
     !.outcome = outcome, !.tried = r.tried]
CutShort(r) == Settled(r, IF r.aborted THEN "cancelled" ELSE "deadline")

LastAttempt(r) == IF r.safe THEN Attempts ELSE 1

\* The top of the loop: a passed deadline ends the send, and fetch rejects an
\* aborted signal before anything is transmitted.
Attempting(r, n) ==
  IF r.expired THEN Settled(r, "deadline")
  ELSE IF r.aborted THEN Settled(r, "cancelled")
  ELSE [r EXCEPT !.pc = "normal", !.attempt = n, !.sent = @ + 1]

\* A send may begin with a signal already aborted or a deadline already passed:
\* the one before it, or the handshake, has used the time up.
Begin(s, safe) ==
  /\ send[s].pc = "done"
  /\ \E aborted, expired \in BOOLEAN :
       send' = [send EXCEPT ![s] = Attempting(NewSend(safe, aborted, expired), 1)]
  /\ UNCHANGED tier

NormalResponse(s) ==
  /\ send[s].pc = "normal"
  /\ \E a \in HeadersSent \cup Uncorrelated :
       /\ a.edges # {}
       /\ tier' \in Succeeded(a)
       /\ send' = [send EXCEPT
            ![s] = Settled([send[s] EXCEPT !.tried = @ \cup a.edges], "response")]

\* The context after a failed attempt.  A connector that fails to connect marks
\* everything it was supplied, a connection that carried headers its own edge.
AfterAttempt(r, a) ==
  [r EXCEPT !.attempted = @ \cup (IF a.complete THEN a.edges ELSE {}),
            !.correlated = @ /\ a.complete,
            !.tried = @ \cup a.edges]

\* An attempt that fails after its signal or its deadline only observes, and
\* the last one leaves the pool alone.
InterruptedAttempt(s, a) ==
  /\ Interrupted(send[s])
  /\ send' = [send EXCEPT ![s] = CutShort(AfterAttempt(@, a))]
  /\ IF send[s].attempt < LastAttempt(send[s])
     THEN tier' \in Neutral(a) ELSE UNCHANGED tier

\* Another attempt follows unless the backoff would outlast the deadline.
RetriedAttempt(s, a) ==
  /\ ~Interrupted(send[s])
  /\ send[s].attempt < LastAttempt(send[s])
  /\ tier' \in Failed(a)
  /\ send' \in {[send EXCEPT ![s] = [AfterAttempt(@, a) EXCEPT !.pc = "backoff"]],
                [send EXCEPT ![s] = Settled(AfterAttempt(@, a), "deadline")]}

\* The deadline passes between the failure of the last attempt and its
\* admission to the fallback: the pool is left alone.
LateAttempt(s, a) ==
  /\ ~Interrupted(send[s])
  /\ send[s].attempt = LastAttempt(send[s])
  /\ send' = [send EXCEPT
       ![s] = Settled([AfterAttempt(@, a) EXCEPT !.expired = TRUE], "deadline")]
  /\ UNCHANGED tier

AdmissibleByLast(r, a) == \* mutant: only the last attempt has to be correlated
  r.safe /\ a.complete

\* Only a request that may be repeated, whose every attempt is accounted for,
\* is tried on other edges.
Admissible(r, a) == r.safe /\ r.correlated /\ a.complete

HopelessAttempt(s, a) ==
  /\ ~Interrupted(send[s])
  /\ send[s].attempt = LastAttempt(send[s])
  /\ ~Admissible(send[s], a)
  /\ tier' \in Failed(a)
  /\ send' = [send EXCEPT ![s] = Settled(AfterAttempt(@, a), "transport")]

\* The first or the next pinned attempt.  Both checks of the signal and the
\* deadline come before it; only the clock may still have moved.
Pinning(r, pinned) ==
  {[r EXCEPT !.pc = "pinned", !.candidates = pinned, !.sent = @ + 1],
   Settled([r EXCEPT !.expired = TRUE], "deadline")}

\* fallback: the failure is recorded first, and the candidates are chosen from
\* the pool it leaves, once.
AdmittedAttempt(s, a) ==
  /\ ~Interrupted(send[s])
  /\ send[s].attempt = LastAttempt(send[s])
  /\ Admissible(send[s], a)
  /\ tier' \in Failed(a)
  /\ LET r == AfterAttempt(send[s], a)
     IN \E chosen \in CandidateLists(tier', r.attempted) :
          \/ chosen = <<>> /\ send' = [send EXCEPT ![s] = Settled(r, "transport")]
          \/ chosen # <<>> /\ send' \in {[send EXCEPT ![s] = q] : q \in Pinning(r, chosen)}

FailedAttempt(s) ==
  /\ send[s].pc = "normal"
  /\ \E a \in Uncorrelated \cup ConnectFailed \cup HeadersSent :
       \/ InterruptedAttempt(s, a)
       \/ RetriedAttempt(s, a)
       \/ LateAttempt(s, a)
       \/ HopelessAttempt(s, a)
       \/ AdmittedAttempt(s, a)

WakeUnaborted(s) == \* mutant: the abort clears the timer and nothing else
  /\ send[s].pc = "backoff" /\ ~send[s].aborted
  /\ send' = [send EXCEPT ![s] = Attempting(@, @.attempt + 1)]
  /\ UNCHANGED tier

\* retryDelay ends: by its timer, or at once when the signal is aborted.
Wake(s) ==
  /\ send[s].pc = "backoff"
  /\ \/ send' = [send EXCEPT ![s] = Attempting(@, @.attempt + 1)]
     \/ send[s].aborted /\ send' = [send EXCEPT ![s] = Settled(@, "cancelled")]
  /\ UNCHANGED tier

PinnedResponse(s) ==
  /\ send[s].pc = "pinned"
  /\ tier' \in AfterSuccess(tier, {Head(send[s].candidates)})
  /\ send' = [send EXCEPT
       ![s] = Settled([send[s] EXCEPT !.tried = @ \cup {Head(send[s].candidates)}], "response")]

\* An interrupted pinned attempt says nothing about its edge; another failure
\* demotes it, and the next candidate is its last chance.
PinnedFailure(s) ==
  /\ send[s].pc = "pinned"
  /\ LET r == [send[s] EXCEPT !.tried = @ \cup {Head(send[s].candidates)}]
         rest == Tail(send[s].candidates)
     IN \/ /\ Interrupted(r)
           /\ send' = [send EXCEPT ![s] = CutShort(r)]
           /\ UNCHANGED tier
        \/ /\ ~Interrupted(r)
           /\ tier' \in AfterFailure(tier, {Head(send[s].candidates)})
           /\ \/ rest = <<>> /\ send' = [send EXCEPT ![s] = Settled(r, "transport")]
              \/ rest # <<>> /\ send' \in {[send EXCEPT ![s] = q] : q \in Pinning(r, rest)}

-----------------------------------------------------------------------------
(***************************************************************************)
(* The environment: the caller's signal and the clock.                     *)
(***************************************************************************)
Abort(s) ==
  /\ send[s].pc \in Active /\ ~send[s].aborted
  /\ send' = [send EXCEPT ![s].aborted = TRUE]
  /\ UNCHANGED tier

Expire(s) ==
  /\ send[s].pc \in Active /\ ~send[s].expired
  /\ send' = [send EXCEPT ![s].expired = TRUE]
  /\ UNCHANGED tier

-----------------------------------------------------------------------------
SendSpecInit == Init /\ SendInit

SendNext ==
  \E s \in Senders :
    \/ \E safe \in BOOLEAN : Begin(s, safe)
    \/ NormalResponse(s)
    \/ FailedAttempt(s)
    \/ Wake(s)
    \/ PinnedResponse(s)
    \/ PinnedFailure(s)
    \/ Abort(s)
    \/ Expire(s)

\* The clock and the timers run, and a fetch rejects once its own signal is
\* aborted or timed out.  Nothing is assumed of the network or the caller.
Proceed(s) ==
  \/ Expire(s)
  \/ Wake(s)
  \/ Interrupted(send[s]) /\ (FailedAttempt(s) \/ PinnedFailure(s))

SendFairness == \A s \in Senders : WF_vars(Proceed(s))

SendSafety == SendSpecInit /\ [][SendNext]_vars
SendSpec == SendSafety /\ SendFairness

-----------------------------------------------------------------------------
(***************************************************************************)
(* Properties.                                                             *)
(***************************************************************************)

\* A request that is not replay safe reaches the network once however its
\* attempt fails; one that is, once per attempt and once per pinned edge.
SentWithinBound ==
  \A s \in Senders :
    send[s].sent <= IF send[s].safe THEN Attempts + 2 ELSE 1

\* The fallback never goes back to an edge the send already turned to, whatever
\* the diagnostics failed to see and however other sends changed the pool.
NoEdgeTwice ==
  \A s \in Senders :
    send[s].pc = "pinned" =>
      \A i \in 1 .. Len(send[s].candidates) :
        /\ send[s].candidates[i] \notin send[s].tried
        /\ \A j \in 1 .. i - 1 : send[s].candidates[i] # send[s].candidates[j]

\* An attempt that fails after its caller left or its deadline passed condemns
\* no edge: tests/router/edge-pool-fallback.test.ts, "interruption".
InterruptionCondemnsNothing ==
  [][\A s \in Senders :
       /\ Interrupted(send[s])
       /\ send[s].pc \in Active /\ send'[s].pc = "done" /\ send'[s].outcome # "response"
       => \A ip \in Ips : tier'[ip] = "failed" => tier[ip] = "failed"]_vars

\* Credit goes to the edge that answered: an edge becomes healthy only in the
\* step in which a send that turned to it gets its response, unless the wall
\* clock is set back.
CreditWhereDue ==
  [][\A ip \in Ips :
       Steady /\ tier'[ip] = "healthy" /\ tier[ip] # "healthy" =>
         \E s \in Senders :
           /\ send[s].pc \in Active /\ send'[s].outcome = "response"
           /\ ip \in send'[s].tried]_vars

\* What a send costs: its transmissions are bounded, and no edge gets two of the
\* pinned ones.
SendsBounded == TypeOK /\ SentWithinBound /\ NoEdgeTwice

\* The health of an edge changes for a reason the send has seen.
HealthIsEarned == InterruptionCondemnsNothing /\ CreditWhereDue

\* Every send that begins settles, even if the network never answers.
EverySendSettles == \A s \in Senders : []<>(send[s].pc = "done")
=============================================================================
