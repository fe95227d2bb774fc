-------------------------- MODULE TransportProofs --------------------------
(***************************************************************************)
(* Proofs about the two ways over the wire, one after the other: a send to *)
(* the cloud (RemoteSend), for any tiers, families and attempts, and the   *)
(* session on the local network (LanSession), for any finite set of        *)
(* requests and any cookies.  SendInv and LanInv are inductive; a send is  *)
(* bounded and an edge's health is earned, what the callers of the session *)
(* share does not hurt them, and the session keeps the contract of         *)
(* mutations.                                                              *)
(***************************************************************************)
EXTENDS RemoteSend, LanSession, FiniteSetTheorems, TLAPS

-----------------------------------------------------------------------------
(***************************************************************************)
(* One send to the cloud: what an attempt may find out.                    *)
(***************************************************************************)
LEMMA EvidenceIsEvidence ==
  ASSUME NEW a \in Uncorrelated \cup ConnectFailed \cup HeadersSent
  PROVE  a \in Evidence
<1>1. ASSUME a \in Uncorrelated
      PROVE  a \in Evidence
  <2>1. PICK E \in {{}} \cup {{ip} : ip \in Ips} :
          a = [edges |-> E, selected |-> {}, supplied |-> {}, observation |-> {}, complete |-> FALSE]
    BY <1>1 DEF Uncorrelated
  <2>2. E \subseteq Ips
    OBVIOUS
  <2> QED BY <2>1, <2>2 DEF Evidence
<1>2. ASSUME a \in ConnectFailed
      PROVE  a \in Evidence
  <2>1. PICK S \in Answers \cup {{}} : \E O \in {{}, S} :
          a = [edges |-> S, selected |-> {}, supplied |-> S, observation |-> O, complete |-> TRUE]
    BY <1>2 DEF ConnectFailed
  <2>2. S \subseteq Ips
    BY SendAssumption
  <2> QED BY <2>1, <2>2 DEF Evidence
<1>3. ASSUME a \in HeadersSent
      PROVE  a \in Evidence
  <2>1. PICK S \in Answers : \E O \in {{}, S}, e \in S :
          a = [edges |-> {e}, selected |-> {e}, supplied |-> S, observation |-> O, complete |-> TRUE]
    BY <1>3 DEF HeadersSent
  <2>2. S \subseteq Ips
    BY SendAssumption
  <2> QED BY <2>1, <2>2 DEF Evidence
<1> QED BY <1>1, <1>2, <1>3

\* Credit for an answer is given to the edge that was turned to.
LEMMA CreditIsOwn ==
  ASSUME NEW a \in HeadersSent \cup Uncorrelated
  PROVE  HealthSet(a) \subseteq a.edges
<1>1. ASSUME a \in Uncorrelated
      PROVE  HealthSet(a) = {}
  BY <1>1 DEF Uncorrelated, HealthSet
<1>2. ASSUME a \in HeadersSent
      PROVE  HealthSet(a) = a.edges
  <2>1. PICK S \in Answers : \E O \in {{}, S}, e \in S :
          a = [edges |-> {e}, selected |-> {e}, supplied |-> S, observation |-> O, complete |-> TRUE]
    BY <1>2 DEF HeadersSent
  <2> QED BY <2>1 DEF HealthSet
<1> QED BY <1>1, <1>2

-----------------------------------------------------------------------------
(***************************************************************************)
(* What the operations of the pool do to it.                               *)
(***************************************************************************)
Pools == [Ips -> Tier]

LEMMA ObservingMarksNothing ==
  ASSUME NEW t \in Pools, NEW S \in SUBSET Ips, NEW u \in AfterObserving(t, S)
  PROVE  u \in Pools /\ \A ip \in Ips : u[ip] # t[ip] => u[ip] \in {"absent", "unknown"}
<1>1. \E kept, replaced :
        u = [ip \in Ips |-> IF ip \notin kept THEN "absent"
                            ELSE IF t[ip] = "absent" \/ ip \in replaced THEN "unknown" ELSE t[ip]]
  BY DEF AfterObserving
<1> QED BY <1>1 DEF Pools, Tier

LEMMA SuccessMarksOwn ==
  ASSUME NEW t \in Pools, NEW S \in SUBSET Ips, NEW u \in AfterSuccess(t, S)
  PROVE  u \in Pools /\ \A ip \in Ips : u[ip] = "healthy" /\ t[ip] # "healthy" => ip \in S
<1>1. \E outdone :
        u = [ip \in Ips |-> IF ip \notin S \cap KnownIn(t) THEN t[ip]
                            ELSE IF ip \in outdone THEN "failed" ELSE "healthy"]
  BY DEF AfterSuccess
<1> QED BY <1>1 DEF Pools, Tier

LEMMA FailureCreditsNobody ==
  ASSUME NEW t \in Pools, NEW S \in SUBSET Ips, NEW u \in AfterFailure(t, S)
  PROVE  u \in Pools /\ (Steady => \A ip \in Ips : u[ip] = "healthy" => t[ip] = "healthy")
<1>1. PICK outdone \in SUBSET {ip \in S \cap KnownIn(t) : ~Steady /\ t[ip] \in {"healthy", "failed"}} :
        u = [ip \in Ips |-> IF ip \notin S \cap KnownIn(t) THEN t[ip]
                            ELSE IF ip \in outdone THEN "healthy" ELSE "failed"]
  BY DEF AfterFailure
<1>2. Steady => outdone = {}
  BY <1>1
<1> QED BY <1>1, <1>2 DEF Pools, Tier

\* The fallback is given distinct edges the send has not attempted, two of them at the most.
LEMMA CandidatesAreNew ==
  ASSUME NEW t, NEW excluded, NEW chosen \in CandidateLists(t, excluded)
  PROVE  /\ chosen \in Seq(Ips) /\ Len(chosen) \in 0 .. 2
         /\ \A i \in 1 .. Len(chosen) : chosen[i] \notin excluded
         /\ \A i, j \in 1 .. Len(chosen) : chosen[i] = chosen[j] => i = j
<1>1. CASE chosen = <<>>
  BY <1>1
<1>2. CASE \E ip \in KnownIn(t) \ excluded : chosen = <<ip>>
  BY <1>2 DEF KnownIn
<1>3. CASE \E x, y \in KnownIn(t) \ excluded : chosen = <<x, y>> /\ x # y
  BY <1>3 DEF KnownIn
<1> QED BY <1>1, <1>2, <1>3 DEF CandidateLists

-----------------------------------------------------------------------------
(***************************************************************************)
(* The invariant of one send.  What it has sent is what its place in the   *)
(* loops says, and while every attempt was accounted for, what it turned   *)
(* to is what it will not be given again.                                  *)
(***************************************************************************)
SendOK(r) ==
  /\ r \in Send
  /\ r.pc = "done" => r.sent = 0
  /\ r.pc \in {"normal", "backoff"} =>
       /\ r.attempt \in 1 .. LastAttempt(r) /\ r.sent = r.attempt
       /\ r.correlated => r.tried \subseteq r.attempted
  /\ r.pc = "backoff" => r.attempt < LastAttempt(r)
  /\ r.pc = "pinned" =>
       /\ r.safe /\ r.candidates # <<>> /\ r.sent + Len(r.candidates) <= Attempts + 3
       /\ \A i \in 1 .. Len(r.candidates) : r.candidates[i] \notin r.tried
       /\ \A i, j \in 1 .. Len(r.candidates) : r.candidates[i] = r.candidates[j] => i = j

SendInv == tier \in Pools /\ send \in [Senders -> Send] /\ \A s \in Senders : SendOK(send[s])

LEMMA SettledIsOK ==
  ASSUME NEW r, r.tried \in SUBSET Ips, NEW o \in Outcomes
  PROVE  SendOK(Settled(r, o)) /\ Settled(r, o).pc = "done"
         /\ Settled(r, o).outcome = o /\ Settled(r, o).tried = r.tried
<1> DEFINE x == [pc |-> "done", safe |-> TRUE, attempt |-> 0, attempted |-> {},
                 correlated |-> TRUE, candidates |-> <<>>, aborted |-> FALSE,
                 expired |-> FALSE, outcome |-> o, sent |-> 0, tried |-> r.tried]
<1>1. Settled(r, o) = x
  <2> DEFINE n == NewSend(TRUE, FALSE, FALSE)
             e == [n EXCEPT !.outcome = o, !.tried = r.tried]
  <2>1. n = [pc |-> "done", safe |-> TRUE, attempt |-> 0, attempted |-> {},
             correlated |-> TRUE, candidates |-> <<>>, aborted |-> FALSE,
             expired |-> FALSE, outcome |-> "none", sent |-> 0, tried |-> {}]
    BY DEF NewSend
  <2>2. e = [n EXCEPT !.outcome = o, !.tried = r.tried] /\ Settled(r, o) = e
    BY DEF Settled
  <2> HIDE DEF n, e
  <2>3. e = x
    BY <2>1, <2>2
  <2> QED BY <2>2, <2>3
<1>2. x \in Send /\ x.pc = "done" /\ x.sent = 0 /\ x.outcome = o /\ x.tried = r.tried
  BY SendAssumption DEF Send
<1> HIDE DEF x
<1> QED BY <1>1, <1>2 DEF SendOK

LEMMA AttemptingIsOK ==
  ASSUME NEW r \in Send, NEW n \in Nat, n <= LastAttempt(r), r.sent + 1 = n,
         r.correlated => r.tried \subseteq r.attempted
  PROVE  SendOK(Attempting(r, n))
<1>1. CASE r.expired \/ r.aborted
  <2>1. r.tried \in SUBSET Ips
    BY DEF Send
  <2> QED BY <1>1, <2>1, SettledIsOK DEF Attempting, Outcomes
<1>2. CASE ~r.expired /\ ~r.aborted
  <2> DEFINE x == [r EXCEPT !.pc = "normal", !.attempt = n, !.sent = @ + 1]
  <2>1. LastAttempt(r) \in 1 .. Attempts /\ n \in 1 .. LastAttempt(r) /\ n \in 0 .. Attempts
    BY SendAssumption DEF LastAttempt, Send
  <2>2. /\ x \in Send /\ x.pc = "normal" /\ x.attempt = n /\ x.sent = n /\ x.safe = r.safe
        /\ x.correlated = r.correlated /\ x.tried = r.tried /\ x.attempted = r.attempted
    BY <2>1 DEF Send
  <2> HIDE DEF x
  <2>3. LastAttempt(x) = LastAttempt(r)
    BY <2>2 DEF LastAttempt
  <2>4. Attempting(r, n) = x
    BY <1>2 DEF Attempting, x
  <2>5. SendOK(x)
    BY <2>1, <2>2, <2>3 DEF SendOK
  <2> QED BY <2>4, <2>5
<1> QED BY <1>1, <1>2

LEMMA AfterAttemptIsOK ==
  ASSUME NEW r \in Send, NEW a \in Evidence
  PROVE  /\ AfterAttempt(r, a) \in Send
         /\ AfterAttempt(r, a).pc = r.pc /\ AfterAttempt(r, a).safe = r.safe
         /\ AfterAttempt(r, a).attempt = r.attempt /\ AfterAttempt(r, a).sent = r.sent
         /\ AfterAttempt(r, a).correlated = (r.correlated /\ a.complete)
         /\ AfterAttempt(r, a).tried = r.tried \cup a.edges
         /\ r.correlated /\ a.complete /\ r.tried \subseteq r.attempted =>
              AfterAttempt(r, a).tried \subseteq AfterAttempt(r, a).attempted
<1> DEFINE A == r.attempted \cup (IF a.complete THEN a.edges ELSE {})
           C == r.correlated /\ a.complete
           T == r.tried \cup a.edges
           x == [r EXCEPT !.attempted = A, !.correlated = C, !.tried = T]
<1>1. A \in SUBSET Ips /\ C \in BOOLEAN /\ T \in SUBSET Ips
  BY DEF Send, Evidence
<1>2. AfterAttempt(r, a) = x
  BY DEF AfterAttempt
<1>3. r.correlated /\ a.complete /\ r.tried \subseteq r.attempted => T \subseteq A
  OBVIOUS
<1> HIDE DEF A, C, T
<1>4. /\ x \in Send /\ x.pc = r.pc /\ x.safe = r.safe /\ x.attempt = r.attempt /\ x.sent = r.sent
      /\ x.correlated = C /\ x.tried = T /\ x.attempted = A
  BY <1>1 DEF Send
<1> HIDE DEF x
<1> QED BY <1>2, <1>3, <1>4 DEF C, T

\* The first or the next pinned attempt of a send that has this many left.
LEMMA PinningIsOK ==
  ASSUME NEW r \in Send, NEW pinned \in Seq(Ips), r.safe, pinned # <<>>,
         r.sent + 1 + Len(pinned) <= Attempts + 3,
         \A i \in 1 .. Len(pinned) : pinned[i] \notin r.tried,
         \A i, j \in 1 .. Len(pinned) : pinned[i] = pinned[j] => i = j,
         NEW q \in Pinning(r, pinned)
  PROVE  SendOK(q) /\ (q.pc = "done" => q.outcome = "deadline")
<1>1. CASE q = [r EXCEPT !.pc = "pinned", !.candidates = pinned, !.sent = @ + 1]
  <2>1. /\ q \in Send /\ q.pc = "pinned" /\ q.candidates = pinned /\ q.sent = r.sent + 1
        /\ q.safe = r.safe /\ q.tried = r.tried
    <3> DEFINE n == r.sent + 1
    <3>1. n \in Nat /\ q = [r EXCEPT !.pc = "pinned", !.candidates = pinned, !.sent = n]
      BY <1>1 DEF Send
    <3> HIDE DEF n
    <3>2. /\ q \in Send /\ q.pc = "pinned" /\ q.candidates = pinned /\ q.sent = n
          /\ q.safe = r.safe /\ q.tried = r.tried
      BY <3>1 DEF Send
    <3> QED BY <3>2 DEF n
  <2> QED BY <2>1 DEF SendOK
<1>2. CASE q = Settled([r EXCEPT !.expired = TRUE], "deadline")
  <2>1. [r EXCEPT !.expired = TRUE].tried \in SUBSET Ips
    BY DEF Send
  <2> QED BY <1>2, <2>1, SettledIsOK DEF Outcomes
<1> QED BY <1>1, <1>2 DEF Pinning

-----------------------------------------------------------------------------
(***************************************************************************)
(* The steps of a send.  Changed(s, q) is such a step: it goes on as q.    *)
(***************************************************************************)
Changed(s, q) == send' = [send EXCEPT ![s] = q]

LEMMA SendGoesOn ==
  ASSUME SendInv, tier' \in Pools, NEW s \in Senders, NEW q, SendOK(q), Changed(s, q)
  PROVE  SendInv'
<1>1. send' \in [Senders -> Send] /\ send'[s] = q /\ \A t \in Senders \ {s} : send'[t] = send[t]
  BY DEF SendInv, SendOK, Changed
<1>2. \A t \in Senders : SendOK(send'[t])
  BY <1>1 DEF SendInv
<1> QED BY <1>1, <1>2 DEF SendInv

\* A step of the send s that earns what it does to the pool.
Earned(s) ==
  /\ \A d \in Senders \ {s} : send'[d] = send[d]
  /\ Interrupted(send[s]) /\ send'[s].outcome # "response" =>
       \A ip \in Ips : tier'[ip] = "failed" => tier[ip] = "failed"
  /\ \A ip \in Ips : Steady /\ tier'[ip] = "healthy" /\ tier[ip] # "healthy" =>
       send[s].pc \in Active /\ send'[s].outcome = "response" /\ ip \in send'[s].tried

\* A step that is no answer: the pool may only lose credit, and condemns nothing if cut short.
LEMMA NoAnswerEarns ==
  ASSUME SendInv, NEW s \in Senders, NEW q, SendOK(q), Changed(s, q), tier' \in Pools,
         Steady => \A ip \in Ips : tier'[ip] = "healthy" => tier[ip] = "healthy",
         Interrupted(send[s]) => \A ip \in Ips : tier'[ip] = "failed" => tier[ip] = "failed"
  PROVE  SendInv' /\ Earned(s)
<1>1. SendInv'
  BY SendGoesOn
<1>2. \A d \in Senders \ {s} : send'[d] = send[d]
  BY DEF SendInv, Changed
<1> QED BY <1>1, <1>2 DEF Earned

LEMMA BeginSafe ==
  ASSUME SendInv, NEW s \in Senders, NEW safe \in BOOLEAN, Begin(s, safe)
  PROVE  SendInv' /\ Earned(s)
<1>1. PICK aborted, expired \in BOOLEAN : Changed(s, Attempting(NewSend(safe, aborted, expired), 1))
  BY DEF Begin, Changed
<1> DEFINE r == NewSend(safe, aborted, expired)
<1>2. r = [pc |-> "done", safe |-> safe, attempt |-> 0, attempted |-> {},
           correlated |-> TRUE, candidates |-> <<>>, aborted |-> aborted,
           expired |-> expired, outcome |-> "none", sent |-> 0, tried |-> {}]
  BY DEF NewSend
<1> HIDE DEF r
<1>3. r \in Send /\ r.sent = 0 /\ r.tried = {}
  BY <1>2, SendAssumption DEF Send, Outcomes
<1>4. SendOK(Attempting(r, 1))
  BY <1>3, SendAssumption, AttemptingIsOK DEF LastAttempt
<1>5. tier' = tier
  BY DEF Begin
<1> QED BY <1>1, <1>4, <1>5, NoAnswerEarns DEF SendInv, r

LEMMA NormalResponseSafe ==
  ASSUME SendInv, NEW s \in Senders, NormalResponse(s)
  PROVE  SendInv' /\ Earned(s)
<1>1. PICK a \in HeadersSent \cup Uncorrelated :
        /\ tier' \in Succeeded(a)
        /\ send' = [send EXCEPT ![s] = Settled([send[s] EXCEPT !.tried = @ \cup a.edges], "response")]
  BY DEF NormalResponse
<1>2. a \in Evidence /\ HealthSet(a) \subseteq a.edges /\ a.edges \subseteq Ips /\ a.observation \subseteq Ips
  <2>1. a \in Evidence
    BY EvidenceIsEvidence
  <2> QED BY <2>1, CreditIsOwn DEF Evidence
<1>3. send[s] \in Send /\ send[s].pc \in Active
  BY DEF SendInv, NormalResponse, Active
<1> DEFINE r == [send[s] EXCEPT !.tried = @ \cup a.edges]
           q == Settled(r, "response")
<1>4. r.tried = send[s].tried \cup a.edges /\ r.tried \in SUBSET Ips
  BY <1>2, <1>3 DEF Send
<1> HIDE DEF r
<1>5. SendOK(q) /\ q.outcome = "response" /\ q.tried = r.tried
  BY <1>4, SettledIsOK DEF Outcomes
<1>6. Changed(s, q)
  BY <1>1 DEF Changed, r
<1> HIDE DEF q
<1>7. PICK t \in AfterObserving(tier, a.observation) : tier' \in AfterSuccess(t, HealthSet(a))
  BY <1>1 DEF Succeeded
<1>8. /\ t \in Pools /\ tier \in Pools
      /\ \A ip \in Ips : t[ip] # tier[ip] => t[ip] \in {"absent", "unknown"}
  BY <1>2, ObservingMarksNothing DEF SendInv
<1>9. tier' \in Pools /\ \A ip \in Ips : tier'[ip] = "healthy" /\ t[ip] # "healthy" => ip \in HealthSet(a)
  <2>1. HealthSet(a) \in SUBSET Ips
    BY <1>2
  <2> QED BY <1>7, <1>8, <2>1, SuccessMarksOwn
<1>10. SendInv' /\ send'[s] = q /\ \A d \in Senders \ {s} : send'[d] = send[d]
  BY <1>5, <1>6, <1>9, SendGoesOn DEF SendInv, Changed
<1>11. \A ip \in Ips : tier'[ip] = "healthy" /\ tier[ip] # "healthy" => ip \in q.tried
  <2>1. \A ip \in Ips : tier[ip] # "healthy" => t[ip] # "healthy"
    BY <1>8
  <2> QED BY <1>2, <1>4, <1>5, <1>9, <2>1
<1> QED BY <1>3, <1>5, <1>10, <1>11 DEF Earned

LEMMA WakeSafe ==
  ASSUME SendInv, NEW s \in Senders, Wake(s)
  PROVE  SendInv' /\ Earned(s)
<1>1. SendOK(send[s]) /\ send[s] \in Send /\ send[s].pc = "backoff" /\ tier' = tier /\ tier \in Pools
  BY DEF SendInv, Wake
<1>2. SendOK(Attempting(send[s], send[s].attempt + 1))
  <2>1. /\ send[s].attempt + 1 \in Nat /\ send[s].attempt + 1 <= LastAttempt(send[s])
        /\ send[s].sent + 1 = send[s].attempt + 1
        /\ send[s].correlated => send[s].tried \subseteq send[s].attempted
    BY <1>1, SendAssumption DEF SendOK, LastAttempt
  <2> QED BY <1>1, <2>1, AttemptingIsOK
<1>3. SendOK(Settled(send[s], "cancelled"))
  BY <1>1, SettledIsOK DEF Send, Outcomes
<1>4. Changed(s, Attempting(send[s], send[s].attempt + 1)) \/ Changed(s, Settled(send[s], "cancelled"))
  BY DEF Wake, Changed
<1> QED BY <1>1, <1>2, <1>3, <1>4, NoAnswerEarns

LEMMA PinnedResponseSafe ==
  ASSUME SendInv, NEW s \in Senders, PinnedResponse(s)
  PROVE  SendInv' /\ Earned(s)
<1> DEFINE e == Head(send[s].candidates)
           r == [send[s] EXCEPT !.tried = @ \cup {e}]
           q == Settled(r, "response")
<1>1. SendOK(send[s]) /\ send[s] \in Send /\ send[s].pc = "pinned" /\ tier \in Pools
  BY DEF SendInv, PinnedResponse
<1>2. e \in Ips
  <2>1. send[s].candidates \in Seq(Ips) /\ send[s].candidates # <<>>
    BY <1>1 DEF SendOK, Send
  <2> QED BY <2>1
<1>3. tier' \in AfterSuccess(tier, {e}) /\ Changed(s, q)
  BY DEF PinnedResponse, Changed
<1> HIDE DEF e
<1>4. r.tried = send[s].tried \cup {e} /\ r.tried \in SUBSET Ips
  BY <1>1, <1>2 DEF Send
<1> HIDE DEF r
<1>5. SendOK(q) /\ q.outcome = "response" /\ q.tried = r.tried
  BY <1>4, SettledIsOK DEF Outcomes
<1> HIDE DEF q
<1>6. tier' \in Pools /\ \A ip \in Ips : tier'[ip] = "healthy" /\ tier[ip] # "healthy" => ip \in {e}
  <2>1. {e} \in SUBSET Ips
    BY <1>2
  <2> QED BY <1>1, <1>3, <2>1, SuccessMarksOwn
<1>7. SendInv' /\ send'[s] = q /\ \A d \in Senders \ {s} : send'[d] = send[d]
  BY <1>3, <1>5, <1>6, SendGoesOn DEF SendInv, Changed
<1> QED BY <1>1, <1>4, <1>5, <1>6, <1>7 DEF Earned, Active

LEMMA PinnedFailureSafe ==
  ASSUME SendInv, NEW s \in Senders, PinnedFailure(s)
  PROVE  SendInv' /\ Earned(s)
<1> DEFINE c == send[s].candidates
           e == Head(c)
           rest == Tail(c)
           r == [send[s] EXCEPT !.tried = @ \cup {e}]
<1>1. SendOK(send[s]) /\ send[s] \in Send /\ send[s].pc = "pinned" /\ tier \in Pools
  BY DEF SendInv, PinnedFailure
<1>2. c \in Seq(Ips) /\ c # <<>>
  BY <1>1 DEF SendOK, Send
<1>3. /\ e \in Ips /\ e = c[1] /\ rest \in Seq(Ips) /\ Len(rest) = Len(c) - 1 /\ Len(c) \in Nat
      /\ \A i \in 1 .. Len(rest) : rest[i] = c[i + 1] /\ i + 1 \in 1 .. Len(c) /\ i + 1 # 1 /\ i \in Nat
      /\ 1 \in 1 .. Len(c)
  BY <1>2
<1>4. \/ Interrupted(r) /\ Changed(s, CutShort(r)) /\ UNCHANGED tier
      \/ /\ ~Interrupted(r) /\ tier' \in AfterFailure(tier, {e})
         /\ \/ Changed(s, Settled(r, "transport"))
            \/ rest # <<>> /\ \E q \in Pinning(r, rest) : Changed(s, q)
  BY DEF PinnedFailure, Changed
<1>5. /\ send[s].safe /\ send[s].sent + Len(c) <= Attempts + 3
      /\ \A i \in 1 .. Len(c) : c[i] \notin send[s].tried
      /\ \A i, j \in 1 .. Len(c) : c[i] = c[j] => i = j
  BY <1>1 DEF SendOK
<1> HIDE DEF c, e, rest
<1>6. /\ r \in Send /\ r.tried = send[s].tried \cup {e} /\ r.sent = send[s].sent /\ r.safe = send[s].safe
      /\ r.aborted = send[s].aborted /\ r.expired = send[s].expired
  BY <1>1, <1>3 DEF Send
<1> HIDE DEF r
<1>7. SendOK(CutShort(r)) /\ SendOK(Settled(r, "transport"))
  <2>1. r.tried \in SUBSET Ips
    BY <1>6 DEF Send
  <2> QED BY <2>1, SettledIsOK DEF CutShort, Outcomes
<1>8. CASE Interrupted(r) /\ Changed(s, CutShort(r)) /\ UNCHANGED tier
  BY <1>1, <1>7, <1>8, NoAnswerEarns
<1>9. CASE /\ ~Interrupted(r) /\ tier' \in AfterFailure(tier, {e})
           /\ \/ Changed(s, Settled(r, "transport"))
              \/ rest # <<>> /\ \E q \in Pinning(r, rest) : Changed(s, q)
  <2>1. tier' \in Pools /\ (Steady => \A ip \in Ips : tier'[ip] = "healthy" => tier[ip] = "healthy")
    <3>1. {e} \in SUBSET Ips
      BY <1>3
    <3> QED BY <1>1, <1>9, <3>1, FailureCreditsNobody
  <2>2. ~Interrupted(send[s])
    BY <1>6, <1>9 DEF Interrupted
  <2>3. CASE Changed(s, Settled(r, "transport"))
    BY <1>7, <2>1, <2>2, <2>3, NoAnswerEarns
  <2>4. ASSUME rest # <<>>, NEW q \in Pinning(r, rest), Changed(s, q)
        PROVE  SendInv' /\ Earned(s)
    <3>1. r.sent + 1 + Len(rest) <= Attempts + 3
      <4>1. send[s].sent \in Nat
        BY <1>1 DEF Send
      <4> QED BY <1>3, <1>5, <1>6, <4>1, SendAssumption
    <3>2. \A i \in 1 .. Len(rest) : rest[i] \notin r.tried
      BY <1>3, <1>5, <1>6
    <3>3. \A i, j \in 1 .. Len(rest) : rest[i] = rest[j] => i = j
      <4>1. \A i, j \in 1 .. Len(rest) : rest[i] = rest[j] => i + 1 = j + 1
        BY <1>3, <1>5
      <4> QED BY <1>3, <4>1
    <3>4. SendOK(q)
      BY <1>3, <1>5, <1>6, <2>4, <3>1, <3>2, <3>3, PinningIsOK
    <3> QED BY <2>1, <2>2, <2>4, <3>4, NoAnswerEarns
  <2> QED BY <1>9, <2>3, <2>4
<1> QED BY <1>4, <1>8, <1>9

LEMMA FailedAttemptSafe ==
  ASSUME SendInv, NEW s \in Senders, FailedAttempt(s)
  PROVE  SendInv' /\ Earned(s)
<1>1. PICK a \in Uncorrelated \cup ConnectFailed \cup HeadersSent :
        \/ InterruptedAttempt(s, a)
        \/ RetriedAttempt(s, a)
        \/ LateAttempt(s, a)
        \/ HopelessAttempt(s, a)
        \/ AdmittedAttempt(s, a)
  BY DEF FailedAttempt
<1> DEFINE o == send[s]
           r == AfterAttempt(o, a)
<1>2. SendOK(o) /\ o \in Send /\ o.pc = "normal" /\ tier \in Pools
  BY DEF SendInv, FailedAttempt
<1>3. a \in Evidence
  BY <1>1, EvidenceIsEvidence
<1>4. /\ r \in Send /\ r.pc = o.pc /\ r.safe = o.safe /\ r.attempt = o.attempt /\ r.sent = o.sent
      /\ r.correlated = (o.correlated /\ a.complete)
      /\ o.correlated /\ a.complete /\ o.tried \subseteq o.attempted => r.tried \subseteq r.attempted
  BY <1>2, <1>3, AfterAttemptIsOK
<1>5. /\ o.attempt \in 1 .. LastAttempt(o) /\ o.sent = o.attempt
      /\ o.correlated => o.tried \subseteq o.attempted
  BY <1>2 DEF SendOK
<1>6. r.tried \in SUBSET Ips
  BY <1>4 DEF Send
<1>7. HealthSet(a) \in SUBSET Ips /\ a.observation \in SUBSET Ips
  BY <1>3 DEF HealthSet, Evidence
<1>8. tier' \in Failed(a) =>
        tier' \in Pools /\ (Steady => \A ip \in Ips : tier'[ip] = "healthy" => tier[ip] = "healthy")
  <2> SUFFICES ASSUME tier' \in Failed(a)
               PROVE  /\ tier' \in Pools
                      /\ Steady => \A ip \in Ips : tier'[ip] = "healthy" => tier[ip] = "healthy"
    OBVIOUS
  <2>1. PICK t \in AfterObserving(tier, a.observation) : tier' \in AfterFailure(t, HealthSet(a))
    BY DEF Failed
  <2>2. t \in Pools /\ \A ip \in Ips : t[ip] # tier[ip] => t[ip] \in {"absent", "unknown"}
    BY <1>2, <1>7, ObservingMarksNothing
  <2>3. tier' \in Pools /\ (Steady => \A ip \in Ips : tier'[ip] = "healthy" => t[ip] = "healthy")
    BY <1>7, <2>1, <2>2, FailureCreditsNobody
  <2> QED BY <2>2, <2>3
<1>9. CASE InterruptedAttempt(s, a)
  <2>1. Changed(s, CutShort(r)) /\ (tier' \in Neutral(a) \/ tier' = tier)
    BY <1>9 DEF InterruptedAttempt, Changed
  <2>2. SendOK(CutShort(r))
    BY <1>6, SettledIsOK DEF CutShort, Outcomes
  <2>3. tier' \in Pools /\ \A ip \in Ips : tier'[ip] # tier[ip] => tier'[ip] \in {"absent", "unknown"}
    BY <1>2, <1>7, <2>1, ObservingMarksNothing DEF Neutral
  <2> QED BY <2>1, <2>2, <2>3, NoAnswerEarns
<1>10. CASE RetriedAttempt(s, a)
  <2> DEFINE q == [r EXCEPT !.pc = "backoff"]
  <2>1. /\ ~Interrupted(o) /\ o.attempt < LastAttempt(o) /\ tier' \in Failed(a)
        /\ Changed(s, q) \/ Changed(s, Settled(r, "deadline"))
    BY <1>10 DEF RetriedAttempt, Changed
  <2>2. SendOK(Settled(r, "deadline"))
    BY <1>6, SettledIsOK DEF Outcomes
  <2>3. SendOK(q)
    <3> HIDE DEF r
    <3>1. /\ q \in Send /\ q.pc = "backoff" /\ q.attempt = r.attempt /\ q.sent = r.sent /\ q.safe = r.safe
          /\ q.correlated = r.correlated /\ q.tried = r.tried /\ q.attempted = r.attempted
      BY <1>4 DEF Send
    <3> HIDE DEF q
    <3>2. LastAttempt(q) = LastAttempt(o)
      BY <1>4, <3>1 DEF LastAttempt
    <3> QED BY <1>4, <1>5, <2>1, <3>1, <3>2 DEF SendOK
  <2> HIDE DEF q
  <2> QED BY <1>8, <2>1, <2>2, <2>3, NoAnswerEarns
<1>11. CASE LateAttempt(s, a)
  <2> DEFINE q == [r EXCEPT !.expired = TRUE]
  <2>1. ~Interrupted(o) /\ tier' = tier /\ Changed(s, Settled(q, "deadline"))
    BY <1>11 DEF LateAttempt, Changed
  <2>2. q.tried \in SUBSET Ips
    <3> HIDE DEF r
    <3> QED BY <1>4 DEF Send
  <2> HIDE DEF q
  <2>3. SendOK(Settled(q, "deadline"))
    BY <2>2, SettledIsOK DEF Outcomes
  <2> QED BY <1>2, <2>1, <2>3, NoAnswerEarns
<1>12. CASE HopelessAttempt(s, a)
  <2>1. ~Interrupted(o) /\ tier' \in Failed(a) /\ Changed(s, Settled(r, "transport"))
    BY <1>12 DEF HopelessAttempt, Changed
  <2>2. SendOK(Settled(r, "transport"))
    BY <1>6, SettledIsOK DEF Outcomes
  <2> QED BY <1>8, <2>1, <2>2, NoAnswerEarns
<1>13. CASE AdmittedAttempt(s, a)
  <2>1. /\ ~Interrupted(o) /\ o.attempt = LastAttempt(o) /\ Admissible(o, a) /\ tier' \in Failed(a)
        /\ \E chosen \in CandidateLists(tier', r.attempted) :
             \/ Changed(s, Settled(r, "transport"))
             \/ chosen # <<>> /\ \E q \in Pinning(r, chosen) : Changed(s, q)
    BY <1>13 DEF AdmittedAttempt, Changed
  <2>2. SendOK(Settled(r, "transport"))
    BY <1>6, SettledIsOK DEF Outcomes
  <2>3. /\ r.safe /\ r.tried \subseteq r.attempted /\ r.sent = Attempts
    BY <1>4, <1>5, <2>1 DEF Admissible, LastAttempt
  <2> HIDE DEF r, o
  <2>4. CASE Changed(s, Settled(r, "transport"))
    BY <1>8, <2>1, <2>2, <2>4, NoAnswerEarns DEF o
  <2>5. ASSUME NEW chosen \in CandidateLists(tier', r.attempted), chosen # <<>>,
               NEW q \in Pinning(r, chosen), Changed(s, q)
        PROVE  SendInv' /\ Earned(s)
    <3>1. /\ chosen \in Seq(Ips) /\ Len(chosen) \in 0 .. 2
          /\ \A i \in 1 .. Len(chosen) : chosen[i] \notin r.tried
          /\ \A i, j \in 1 .. Len(chosen) : chosen[i] = chosen[j] => i = j
      BY <2>3, CandidatesAreNew
    <3>2. r.sent + 1 + Len(chosen) <= Attempts + 3
      BY <2>3, <3>1, SendAssumption
    <3>3. SendOK(q)
      BY <1>4, <2>3, <2>5, <3>1, <3>2, PinningIsOK
    <3> QED BY <1>8, <2>1, <2>5, <3>3, NoAnswerEarns DEF o
  <2> QED BY <2>1, <2>4, <2>5
<1> QED BY <1>1, <1>9, <1>10, <1>11, <1>12, <1>13

\* The signal or the clock: what a send has done and may do stays.
LEMMA InterruptSafe ==
  ASSUME SendInv, NEW s \in Senders, Abort(s) \/ Expire(s)
  PROVE  SendInv' /\ Earned(s)
<1> DEFINE o == send[s]
<1>1. SendOK(o) /\ o \in Send /\ tier' = tier /\ tier \in Pools
  BY DEF SendInv, Abort, Expire
<1>2. Changed(s, [o EXCEPT !.aborted = TRUE]) \/ Changed(s, [o EXCEPT !.expired = TRUE])
  BY DEF Abort, Expire, Changed
<1> HIDE DEF o
<1>3. ASSUME NEW q, q = [o EXCEPT !.aborted = TRUE] \/ q = [o EXCEPT !.expired = TRUE]
      PROVE  SendOK(q)
  <2>1. /\ q \in Send /\ q.pc = o.pc /\ q.attempt = o.attempt /\ q.sent = o.sent /\ q.safe = o.safe
        /\ q.correlated = o.correlated /\ q.tried = o.tried /\ q.attempted = o.attempted
        /\ q.candidates = o.candidates
    BY <1>1, <1>3 DEF Send
  <2>2. LastAttempt(q) = LastAttempt(o)
    BY <2>1 DEF LastAttempt
  <2> QED BY <1>1, <2>1, <2>2 DEF SendOK
<1> QED BY <1>1, <1>2, <1>3, NoAnswerEarns

LEMMA SendStepSafe ==
  ASSUME SendInv, NEW s \in Senders,
         \/ \E safe \in BOOLEAN : Begin(s, safe)
         \/ NormalResponse(s) \/ FailedAttempt(s) \/ Wake(s) \/ PinnedResponse(s) \/ PinnedFailure(s)
         \/ Abort(s) \/ Expire(s)
  PROVE  SendInv' /\ Earned(s)
  BY BeginSafe, NormalResponseSafe, FailedAttemptSafe, WakeSafe, PinnedResponseSafe, PinnedFailureSafe,
     InterruptSafe

LEMMA SendInitially == SendSpecInit => SendInv
<1> SUFFICES ASSUME SendSpecInit PROVE SendInv
  OBVIOUS
<1>1. tier \in Pools
  BY DEF SendSpecInit, Init, Pools, Tier
<1> DEFINE r == NewSend(TRUE, FALSE, FALSE)
<1>2. r = [pc |-> "done", safe |-> TRUE, attempt |-> 0, attempted |-> {},
           correlated |-> TRUE, candidates |-> <<>>, aborted |-> FALSE,
           expired |-> FALSE, outcome |-> "none", sent |-> 0, tried |-> {}]
  BY DEF NewSend
<1>3. send = [s \in Senders |-> r]
  BY DEF SendSpecInit, SendInit
<1> HIDE DEF r
<1>4. r \in Send /\ r.pc = "done" /\ r.sent = 0
  BY <1>2, SendAssumption DEF Send, Outcomes
<1>5. SendOK(r)
  BY <1>4 DEF SendOK
<1> QED BY <1>1, <1>3, <1>4, <1>5 DEF SendInv

LEMMA SendStep == SendInv /\ [SendNext]_vars => SendInv'
<1> SUFFICES ASSUME SendInv, [SendNext]_vars PROVE SendInv'
  OBVIOUS
<1>1. CASE SendNext
  BY <1>1, SendStepSafe DEF SendNext
<1>2. CASE UNCHANGED vars
  BY <1>2 DEF vars, SendInv
<1> QED BY <1>1, <1>2

LEMMA SendsAreBounded == SendInv => SendsBounded
<1> SUFFICES ASSUME SendInv PROVE SendsBounded
  OBVIOUS
<1>1. TypeOK
  BY DEF SendInv, TypeOK, Pools
<1>2. ASSUME NEW s \in Senders
      PROVE  send[s].sent <= IF send[s].safe THEN Attempts + 2 ELSE 1
  <2> DEFINE r == send[s]
  <2>1. SendOK(r) /\ r \in Send
    BY DEF SendInv
  <2> HIDE DEF r
  <2>2. r.pc \in {"done", "normal", "backoff", "pinned"} /\ r.sent \in Nat
    BY <2>1 DEF Send
  <2>3. r.pc = "pinned" => Len(r.candidates) >= 1 /\ Len(r.candidates) \in Nat
    <3> SUFFICES ASSUME r.pc = "pinned" PROVE Len(r.candidates) >= 1 /\ Len(r.candidates) \in Nat
      OBVIOUS
    <3>1. r.candidates \in Seq(Ips) /\ r.candidates # <<>>
      BY <2>1 DEF Send, SendOK
    <3> QED BY <3>1
  <2>4. LastAttempt(r) = IF r.safe THEN Attempts ELSE 1
    BY DEF LastAttempt
  <2>5. r.sent <= IF r.safe THEN Attempts + 2 ELSE 1
    BY <2>1, <2>2, <2>3, <2>4, SendAssumption DEF SendOK
  <2> QED BY <2>5 DEF r
<1>3. NoEdgeTwice
  <2> SUFFICES ASSUME NEW s \in Senders, send[s].pc = "pinned"
               PROVE  \A i \in 1 .. Len(send[s].candidates) :
                        /\ send[s].candidates[i] \notin send[s].tried
                        /\ \A j \in 1 .. i - 1 : send[s].candidates[i] # send[s].candidates[j]
    BY DEF NoEdgeTwice
  <2> DEFINE c == send[s].candidates
  <2>1. SendOK(send[s])
    BY DEF SendInv
  <2>2. /\ \A i \in 1 .. Len(c) : c[i] \notin send[s].tried
        /\ \A i, j \in 1 .. Len(c) : c[i] = c[j] => i = j
        /\ Len(c) \in Nat
    <3>1. c \in Seq(Ips)
      BY <2>1 DEF SendOK, Send
    <3> QED BY <2>1, <3>1 DEF SendOK
  <2> HIDE DEF c
  <2>3. \A i \in 1 .. Len(c) : \A j \in 1 .. i - 1 : j \in 1 .. Len(c) /\ i # j
    BY <2>2
  <2>4. \A i \in 1 .. Len(c) : c[i] \notin send[s].tried /\ \A j \in 1 .. i - 1 : c[i] # c[j]
    BY <2>2, <2>3
  <2> QED BY <2>4 DEF c
<1> QED BY <1>1, <1>2, <1>3 DEF SendsBounded, SentWithinBound

\* What a send costs (RemoteSession.send, router/remote-session.ts): one that may not be repeated
\* reaches the network once, and one that may, once per attempt and once per pinned edge,
\* which is never one it already turned to.
THEOREM SendsStayBounded == SendSafety => []SendsBounded
BY SendInitially, SendStep, SendsAreBounded, PTL DEF SendSafety

\* The health of an edge changes for a reason the send has seen: an attempt that was cut short
\* condemns no edge, and only the edge that answered gets the credit.
THEOREM HealthIsAlwaysEarned == SendSafety => HealthIsEarned
<1> DEFINE Condemns ==
             \A s \in Senders :
               /\ Interrupted(send[s])
               /\ send[s].pc \in Active /\ send'[s].pc = "done" /\ send'[s].outcome # "response"
               => \A ip \in Ips : tier'[ip] = "failed" => tier[ip] = "failed"
           Credits ==
             \A ip \in Ips :
               Steady /\ tier'[ip] = "healthy" /\ tier[ip] # "healthy" =>
                 \E s \in Senders :
                   /\ send[s].pc \in Active /\ send'[s].outcome = "response"
                   /\ ip \in send'[s].tried
<1>1. SendInv /\ [SendNext]_vars => [Condemns]_vars /\ [Credits]_vars
  <2> SUFFICES ASSUME SendInv, SendNext PROVE Condemns /\ Credits
    OBVIOUS
  <2>1. PICK s \in Senders : Earned(s)
    BY SendStepSafe DEF SendNext
  <2>2. Credits
    BY <2>1 DEF Earned
  <2>3. ASSUME NEW d \in Senders, Interrupted(send[d]), send[d].pc \in Active, send'[d].pc = "done",
               send'[d].outcome # "response", NEW ip \in Ips, tier'[ip] = "failed"
        PROVE  tier[ip] = "failed"
    <3>1. d = s
      BY <2>1, <2>3 DEF Earned, Active
    <3> QED BY <2>1, <2>3, <3>1 DEF Earned
  <2> QED BY <2>2, <2>3
<1> QED BY <1>1, SendInitially, SendStep, PTL
    DEF SendSafety, HealthIsEarned, InterruptionCondemnsNothing, CreditWhereDue

-----------------------------------------------------------------------------
(***************************************************************************)
(* The session on the local network: its inductive invariant.              *)
(***************************************************************************)
MaybeCookie == Cookies \cup {Null}
Ends == {"ok", "auth", "transport"}

LanTypeOK ==
  /\ mutating \in SUBSET Requests
  /\ pc \in [Requests -> {"idle", "sending", "waiting", "ended"}]
  /\ cut \in [Requests -> BOOLEAN] /\ resent \in [Requests -> BOOLEAN]
  /\ carried \in [Requests -> MaybeCookie]
  /\ joined \in [Requests -> Requests \cup {Null}]
  /\ outcome \in [Requests -> Ends \cup {"none"}]
  /\ login \in Requests \cup {Null}
  /\ phase \in [Requests -> {"none", "probing", "posting", "settled"}]
  /\ waiters \in [Requests -> Nat] /\ doomed \in [Requests -> BOOLEAN]
  /\ result \in [Requests -> Ends \cup {"none"}]
  /\ probe \in [Requests -> MaybeCookie] /\ challenge \in [Requests -> MaybeCookie]
  /\ cookie \in MaybeCookie /\ valid \in BOOLEAN /\ disturbed \in BOOLEAN
  /\ issued \in SUBSET Cookies /\ authorized \in SUBSET Cookies
  /\ limbo \in [Requests -> {0, 1}] /\ executed \in [Requests -> {0, 1}]

\* Who waits does so for a login that has begun, and every login counts those who wait for it.
Counted ==
  /\ \A r \in Requests : pc[r] = "waiting" => joined[r] \in Requests /\ phase[joined[r]] # "none"
  /\ \A f \in Requests : waiters[f] = Cardinality(Waiting(f))

\* The login that runs is the current one, told to stop if nobody waits for it; one that posts
\* was challenged in a session, and a settled one has a result.
Current ==
  /\ login # Null => Running(login)
  /\ \A f \in Requests :
       /\ Running(f) => login = f /\ (waiters[f] = 0 => doomed[f])
       /\ phase[f] = "posting" => challenge[f] # Null
       /\ phase[f] = "settled" => result[f] # "none"

\* What the router holds of request r, by what its caller has been told.
Once(r) ==
  /\ outcome[r] = "none" <=> pc[r] # "ended"
  /\ limbo[r] = 1 => r \in mutating /\ executed[r] = 0
  /\ pc[r] \in {"idle", "waiting"} \/ outcome[r] = "auth" => limbo[r] = 0 /\ executed[r] = 0

\* As long as no session expires and none is replaced, there is one cookie at most, and once a
\* login has succeeded it is good for everything: who is sent again is not refused again.
SteadySession ==
  ~disturbed =>
    /\ issued = {cookie} \ {Null}
    /\ \A r \in Requests :
         /\ Running(r) => probe[r] \in {Null, cookie}
         /\ phase[r] = "posting" => cookie # Null /\ probe[r] = cookie /\ challenge[r] = cookie
         /\ result[r] = "ok" => cookie \in authorized
         /\ ~(resent[r] /\ (pc[r] = "waiting" \/ outcome[r] = "auth"))
         /\ pc[r] = "sending" /\ resent[r] => carried[r] \in authorized

LanInv ==
  /\ LanTypeOK /\ Counted /\ Current /\ SteadySession
  /\ \A r \in Requests : Once(r)

-----------------------------------------------------------------------------
(***************************************************************************)
(* Types.                                                                  *)
(***************************************************************************)

\* A login has finitely many waiters.
LEMMA WaitingFinite ==
  ASSUME NEW f \in Requests
  PROVE  IsFiniteSet(Waiting(f)) /\ Cardinality(Waiting(f)) \in Nat
<1>1. IsFiniteSet(Waiting(f))
  BY FS_Subset, LanAssumption DEF Waiting
<1> QED BY <1>1, FS_CardinalityType

\* Whoever waits is counted by the login it waits for.
LEMMA WaiterCounted ==
  ASSUME LanTypeOK, Counted, NEW r \in Requests, pc[r] = "waiting"
  PROVE  /\ joined[r] \in Requests /\ phase[joined[r]] # "none"
         /\ waiters[joined[r]] \in Nat \ {0} /\ waiters[joined[r]] - 1 \in Nat
<1>1. joined[r] \in Requests /\ phase[joined[r]] # "none"
  BY DEF Counted
<1>2. r \in Waiting(joined[r])
  BY DEF Waiting
<1>3. Cardinality(Waiting(joined[r])) # 0
  BY <1>1, <1>2, WaitingFinite, FS_EmptySet
<1> QED BY <1>1, <1>3, WaitingFinite DEF Counted

\* A response sets no cookie, or one the router has not given out yet.
LEMMA CaptureType ==
  ASSUME LanTypeOK, NEW had, MayCapture(had)
  PROVE  cookie' \in MaybeCookie /\ disturbed' \in BOOLEAN /\ issued' \in SUBSET Cookies
BY DEF MayCapture, Capture, sessionVars, LanTypeOK, MaybeCookie

\* The steps of a request keep every variable's type.
LEMMA RequestType ==
  ASSUME LanTypeOK, Counted, NEW r \in Requests,
         FirstSend(r) \/ Answered(r) \/ SendFails(r) \/ RefusedTwice(r) \/ Refused(r)
           \/ Leave(r) \/ Resume(r)
  PROVE  LanTypeOK'
<1>1. CASE FirstSend(r)
  BY <1>1 DEF FirstSend, Transmit, LanTypeOK, loginVars, sessionVars, MaybeCookie
<1>2. CASE Answered(r) \/ SendFails(r)
  BY <1>2 DEF Answered, SendFails, End, LanTypeOK, loginVars, sessionVars, routerVars, Ends
<1>3. CASE RefusedTwice(r)
  BY <1>3, CaptureType DEF RefusedTwice, End, LanTypeOK, loginVars, Ends
<1>4. CASE Refused(r)
  <2> DEFINE f == IF login = Null THEN r ELSE login
  <2>1. f \in Requests
    BY DEF LanTypeOK
  <2>2. cookie' \in MaybeCookie /\ disturbed' \in BOOLEAN /\ issued' \in SUBSET Cookies
    BY <1>4, CaptureType DEF Refused
  <2>3. /\ joined' \in [Requests -> Requests \cup {Null}]
        /\ waiters' \in [Requests -> Nat] /\ login' \in Requests \cup {Null}
    BY <1>4, <2>1 DEF Refused, LanTypeOK
  <2>4. /\ phase' \in [Requests -> {"none", "probing", "posting", "settled"}]
        /\ probe' \in [Requests -> MaybeCookie]
    BY <1>4, <2>1, <2>2 DEF Refused, LanTypeOK
  <2> QED BY <1>4, <2>2, <2>3, <2>4 DEF Refused, LanTypeOK
<1>5. CASE Leave(r) \/ Resume(r)
  <2>1. joined[r] \in Requests /\ waiters[joined[r]] - 1 \in Nat
    BY <1>5, WaiterCounted DEF Leave, Resume
  <2>2. waiters' \in [Requests -> Nat] /\ doomed' \in [Requests -> BOOLEAN]
    BY <1>5, <2>1, ZenonT(40) DEF Leave, Resume, Depart, LanTypeOK
  <2>3. CASE Leave(r)
    BY <2>2, <2>3 DEF Leave, End, LanTypeOK, sessionVars, routerVars, Ends
  <2>4. CASE Resume(r) /\ Transmit(r, TRUE) /\ UNCHANGED outcome
    BY <2>2, <2>4 DEF Resume, Transmit, LanTypeOK, sessionVars
  <2>5. CASE Resume(r) /\ End(r, result[joined[r]]) /\ UNCHANGED <<resent, carried, limbo>>
    BY <2>1, <2>2, <2>5 DEF Resume, End, LanTypeOK, sessionVars
  <2> QED BY <1>5, <2>3, <2>4, <2>5 DEF Resume
<1> QED BY <1>1, <1>2, <1>3, <1>4, <1>5

\* So do those of a login, the clock and the router.
LEMMA OtherType ==
  ASSUME LanTypeOK, Current, NEW r \in Requests,
         ProbeAnswered(r) \/ PostAnswered(r) \/ LoginFails(r) \/ Cut(r)
           \/ (Execute(r) /\ Once(r))
  PROVE  LanTypeOK'
<1>1. ASSUME NEW how \in Ends, Settle(r, how)
      PROVE  /\ phase' \in [Requests -> {"none", "probing", "posting", "settled"}]
             /\ result' \in [Requests -> Ends \cup {"none"}]
             /\ login' \in Requests \cup {Null}
  BY <1>1 DEF Settle, LanTypeOK
<1>2. {"ok", "auth", "transport"} = Ends
  BY DEF Ends
<1>3. CASE ProbeAnswered(r)
  <2>1. CASE /\ probe[r] \in authorized
             /\ Settle(r, "ok") /\ UNCHANGED <<probe, challenge, sessionVars>>
    BY <1>1, <1>2, <1>3, <2>1 DEF ProbeAnswered, LanTypeOK, requestVars, sessionVars, routerVars
  <2>2. CASE /\ probe[r] \notin authorized
             /\ phase' = [phase EXCEPT ![r] = "posting"] /\ UNCHANGED <<result, login>>
    <3>1. CASE UNCHANGED sessionVars /\ challenge' = [challenge EXCEPT ![r] = probe[r]]
               /\ probe' = [probe EXCEPT ![r] = cookie']
      BY <1>3, <2>2, <3>1 DEF ProbeAnswered, LanTypeOK, requestVars, sessionVars, routerVars
    <3>2. CASE \E k \in Cookies \ issued :
                 /\ Capture(k) /\ challenge' = [challenge EXCEPT ![r] = k]
                 /\ probe' = [probe EXCEPT ![r] = cookie']
      BY <1>3, <2>2, <3>2
         DEF ProbeAnswered, Capture, LanTypeOK, MaybeCookie, requestVars, routerVars
    <3>3. ~Settle(r, "auth")
      BY <1>3, <2>2 DEF Settle, LanTypeOK
    <3> QED BY <1>3, <2>2, <3>1, <3>2, <3>3 DEF ProbeAnswered
  <2>3. CASE Settle(r, "auth") /\ MayCapture(probe[r]) /\ UNCHANGED <<probe, challenge>>
    BY <1>1, <1>2, <1>3, <2>3, CaptureType DEF ProbeAnswered, LanTypeOK, requestVars, routerVars
  <2> QED BY <1>3, <2>1, <2>2, <2>3 DEF ProbeAnswered
<1>4. CASE PostAnswered(r)
  <2>1. \E how \in Ends : Settle(r, how)
    BY <1>2, <1>4 DEF PostAnswered
  <2>2. challenge[r] \in Cookies
    BY <1>4 DEF PostAnswered, Current, LanTypeOK, MaybeCookie
  <2>3. authorized' \in SUBSET Cookies
    BY <1>4, <2>2 DEF PostAnswered, Accept, LanTypeOK
  <2> QED BY <1>1, <1>4, <2>1, <2>3
          DEF PostAnswered, LanTypeOK, requestVars, sessionVars, routerVars
<1>5. CASE LoginFails(r)
  <2>1. authorized' \in SUBSET Cookies
    BY <1>5 DEF LoginFails, Accept, Current, LanTypeOK, MaybeCookie
  <2> QED BY <1>1, <1>2, <1>5, <2>1 DEF LoginFails, LanTypeOK, requestVars, sessionVars, routerVars
<1>6. CASE Cut(r)
  BY <1>6 DEF Cut, LanTypeOK, loginVars, sessionVars, routerVars
<1>7. CASE Execute(r) /\ Once(r)
  <2>1. executed' = [executed EXCEPT ![r] = 1]
    BY <1>7 DEF Execute, Once, LanTypeOK
  <2> QED BY <1>7, <2>1 DEF Execute, LanTypeOK, requestVars, loginVars, sessionVars
<1> QED BY <1>3, <1>4, <1>5, <1>6, <1>7

-----------------------------------------------------------------------------
(***************************************************************************)
(* Counted.                                                                *)
(***************************************************************************)

\* At first nobody waits.
LEMMA InitCounted == LanInit => Counted
<1> SUFFICES ASSUME LanInit
             PROVE  Counted
  OBVIOUS
<1>1. ASSUME NEW f \in Requests
      PROVE  Waiting(f) = {}
  BY DEF LanInit, Waiting
<1> QED BY <1>1, FS_EmptySet DEF LanInit, Counted

\* A step that makes nobody a waiter and no waiter anything else.
LEMMA SameWaiters ==
  ASSUME LanTypeOK, Counted, NEW r \in Requests, NEW x,
         pc' = [pc EXCEPT ![r] = x], x = "waiting" <=> pc[r] = "waiting",
         UNCHANGED <<joined, waiters>>,
         \A f \in Requests : phase[f] # "none" => phase'[f] # "none"
  PROVE  Counted'
<1>1. \A q \in Requests : pc'[q] = "waiting" <=> pc[q] = "waiting"
  BY DEF LanTypeOK
<1>2. ASSUME NEW f \in Requests
      PROVE  Waiting(f)' = Waiting(f)
  BY <1>1 DEF Waiting
<1> QED BY <1>1, <1>2 DEF Counted

\* A step by which r comes to wait for f.
LEMMA NewWaiter ==
  ASSUME LanTypeOK, Counted, NEW r \in Requests, NEW f \in Requests,
         pc[r] # "waiting", pc' = [pc EXCEPT ![r] = "waiting"],
         joined' = [joined EXCEPT ![r] = f], waiters' = [waiters EXCEPT ![f] = @ + 1],
         phase'[f] # "none", \A g \in Requests \ {f} : phase'[g] = phase[g]
  PROVE  Counted'
<1>1. Waiting(f)' = Waiting(f) \cup {r} /\ r \notin Waiting(f)
  BY DEF Waiting, LanTypeOK
<1>2. Cardinality(Waiting(f)') = Cardinality(Waiting(f)) + 1
  BY <1>1, WaitingFinite, FS_AddElement
<1>3. waiters'[f] = Cardinality(Waiting(f)')
  BY <1>2 DEF Counted, LanTypeOK
<1>4. ASSUME NEW g \in Requests \ {f}
      PROVE  Waiting(g)' = Waiting(g) /\ waiters'[g] = waiters[g]
  BY DEF Waiting, LanTypeOK
<1>5. ASSUME NEW q \in Requests, pc'[q] = "waiting"
      PROVE  joined'[q] \in Requests /\ phase'[joined'[q]] # "none"
  <2>1. CASE q = r
    BY <2>1 DEF LanTypeOK
  <2>2. CASE q # r
    <3>1. pc[q] = "waiting" /\ joined'[q] = joined[q]
      BY <1>5, <2>2 DEF LanTypeOK
    <3> QED BY <3>1 DEF Counted
  <2> QED BY <2>1, <2>2
<1> QED BY <1>3, <1>4, <1>5 DEF Counted

\* A step by which r stops waiting.
LEMMA WaiterGone ==
  ASSUME LanTypeOK, Counted, NEW r \in Requests, pc[r] = "waiting",
         NEW x, x # "waiting", pc' = [pc EXCEPT ![r] = x],
         UNCHANGED <<joined, phase>>, Depart(r)
  PROVE  /\ Counted'
         /\ Waiting(joined[r])' = Waiting(joined[r]) \ {r} /\ r \in Waiting(joined[r])
<1>1. PICK f \in Requests : f = joined[r] /\ waiters[f] \in Nat \ {0}
  BY WaiterCounted
<1>2. \A q \in Requests : pc'[q] = "waiting" <=> pc[q] = "waiting" /\ q # r
  BY DEF LanTypeOK
<1>3. Waiting(f)' = Waiting(f) \ {r} /\ r \in Waiting(f)
  BY <1>1, <1>2 DEF Waiting
<1>4. Cardinality(Waiting(f)') = Cardinality(Waiting(f)) - 1
  BY <1>3, WaitingFinite, FS_RemoveElement
<1>5. waiters'[f] = Cardinality(Waiting(f)')
  BY <1>1, <1>4 DEF Counted, Depart, LanTypeOK
<1>6. ASSUME NEW g \in Requests \ {f}
      PROVE  Waiting(g)' = Waiting(g) /\ waiters'[g] = waiters[g]
  BY <1>1, <1>2 DEF Waiting, Depart, LanTypeOK
<1> QED BY <1>1, <1>2, <1>3, <1>5, <1>6 DEF Counted

\* Every step keeps the count of a login the number of those who wait for it.
LEMMA StepCounted ==
  ASSUME LanTypeOK, Counted, Current, LanNext
  PROVE  Counted'
<1>1. CASE SessionExpires
  BY <1>1 DEF SessionExpires, requestVars, loginVars, Counted, Waiting
<1>2. ASSUME NEW r \in Requests, FirstSend(r) \/ Answered(r) \/ SendFails(r) \/ RefusedTwice(r)
      PROVE  Counted'
  <2>1. \E x : x # "waiting" /\ pc' = [pc EXCEPT ![r] = x]
    BY <1>2 DEF FirstSend, Answered, SendFails, RefusedTwice, Transmit, End
  <2>2. pc[r] # "waiting" /\ UNCHANGED <<joined, waiters, phase>>
    BY <1>2 DEF FirstSend, Answered, SendFails, RefusedTwice, loginVars
  <2> QED BY <2>1, <2>2, SameWaiters
<1>3. ASSUME NEW r \in Requests, Refused(r)
      PROVE  Counted'
  <2> DEFINE f == IF login = Null THEN r ELSE login
  <2>1. CASE login = Null
    BY <1>3, <2>1, NewWaiter, ZenonT(40) DEF Refused, LanTypeOK
  <2>2. CASE login # Null
    BY <1>3, <2>2, NewWaiter DEF Refused, LanTypeOK, Current, Running
  <2> QED BY <2>1, <2>2
<1>4. ASSUME NEW r \in Requests, Leave(r) \/ Resume(r)
      PROVE  Counted'
  <2>1. \E x : x # "waiting" /\ pc' = [pc EXCEPT ![r] = x]
    BY <1>4 DEF Leave, Resume, Transmit, End
  <2> QED BY <1>4, <2>1, WaiterGone DEF Leave, Resume
<1>5. ASSUME NEW r \in Requests, ProbeAnswered(r) \/ PostAnswered(r) \/ LoginFails(r)
      PROVE  Counted'
  <2>1. UNCHANGED <<pc, joined, waiters>>
    BY <1>5 DEF ProbeAnswered, PostAnswered, LoginFails, requestVars
  <2>2. \E x : x # "none" /\ phase' = [phase EXCEPT ![r] = x]
    BY <1>5 DEF ProbeAnswered, PostAnswered, LoginFails, Settle
  <2> QED BY <2>1, <2>2 DEF Counted, Waiting, LanTypeOK
<1>6. ASSUME NEW r \in Requests, Cut(r) \/ Execute(r)
      PROVE  Counted'
  <2>1. UNCHANGED <<pc, joined, waiters, phase>>
    BY <1>6 DEF Cut, Execute, requestVars, loginVars
  <2> QED BY <2>1 DEF Counted, Waiting
<1> QED BY <1>1, <1>2, <1>3, <1>4, <1>5, <1>6 DEF LanNext

-----------------------------------------------------------------------------
(***************************************************************************)
(* Current.                                                                *)
(***************************************************************************)

\* A login that settles was the current one: none runs any more.
LEMMA SettleCurrent ==
  ASSUME LanTypeOK, Current, NEW f \in Requests, Running(f),
         NEW how \in Ends, Settle(f, how), UNCHANGED <<waiters, doomed, challenge>>
  PROVE  Current'
<1>1. login = f /\ login' = Null
  BY DEF Current, Settle
<1>2. \A g \in Requests : Running(g) => g = f
  BY DEF Current
<1>3. \A g \in Requests : phase'[g] \notin {"probing", "posting"}
  BY <1>2 DEF Running, Settle, LanTypeOK
<1>4. \A g \in Requests : phase'[g] = "settled" => result'[g] # "none"
  BY DEF Current, Settle, LanTypeOK, Ends
<1> QED BY <1>1, <1>3, <1>4 DEF Current, Running

\* Every step keeps what is known of the current login.
LEMMA StepCurrent ==
  ASSUME LanTypeOK, Counted, Current, LanNext
  PROVE  Current'
<1>1. CASE UNCHANGED loginVars
  BY <1>1 DEF loginVars, Current, Running
<1>2. CASE \E r \in Requests :
             FirstSend(r) \/ Answered(r) \/ SendFails(r) \/ RefusedTwice(r) \/ Cut(r) \/ Execute(r)
  BY <1>1, <1>2 DEF FirstSend, Answered, SendFails, RefusedTwice, Cut, Execute
<1>3. CASE SessionExpires
  BY <1>1, <1>3 DEF SessionExpires
<1>4. ASSUME NEW r \in Requests, Refused(r)
      PROVE  Current'
  <2>1. CASE login = Null
    <3>1. login' = r /\ phase' = [phase EXCEPT ![r] = "probing"] /\ waiters'[r] # 0
      BY <1>4, <2>1 DEF Refused, LanTypeOK
    <3>2. \A g \in Requests : ~Running(g)
      BY <2>1, LanAssumption DEF Current
    <3> QED BY <1>4, <2>1, <3>1, <3>2 DEF Refused, Current, Running, LanTypeOK
  <2>2. CASE login # Null
    <3>1. waiters'[login] # 0 /\ login' = login /\ UNCHANGED <<phase, doomed, challenge, result>>
      BY <1>4, <2>2 DEF Refused, LanTypeOK
    <3> QED BY <2>2, <3>1 DEF Current, Running
  <2> QED BY <2>1, <2>2
<1>5. ASSUME NEW r \in Requests, Leave(r) \/ Resume(r)
      PROVE  Current'
  <2>1. PICK f \in Requests : f = joined[r] /\ waiters[f] \in Nat \ {0}
    BY <1>5, WaiterCounted DEF Leave, Resume
  <2>2. Depart(r) /\ UNCHANGED <<login, phase, result, challenge>>
    BY <1>5 DEF Leave, Resume
  <2>3. Running(f) /\ waiters'[f] = 0 => doomed'[f]
    <3>1. waiters'[f] = 0 => waiters[f] = 1
      BY <2>1, <2>2 DEF Depart, LanTypeOK
    <3>2. doomed'[f] = (doomed[f] \/ (waiters[f] = 1 /\ Running(f)))
      BY <2>1, <2>2, Zenon DEF Depart, LanTypeOK
    <3> QED BY <3>1, <3>2
  <2>4. ASSUME NEW g \in Requests, Running(g), waiters'[g] = 0, g # f
        PROVE  doomed'[g]
    <3>1. waiters[g] = 0 /\ (doomed[g] => doomed'[g])
      BY <2>1, <2>2, <2>4 DEF Depart, LanTypeOK
    <3> QED BY <2>4, <3>1 DEF Current
  <2>5. \A g \in Requests : Running(g) /\ waiters'[g] = 0 => doomed'[g]
    BY <2>3, <2>4
  <2> QED BY <2>2, <2>5 DEF Current, Running
<1>6. ASSUME NEW r \in Requests, ProbeAnswered(r)
      PROVE  Current'
  <2>1. CASE (Settle(r, "ok") \/ Settle(r, "auth")) /\ UNCHANGED challenge
    BY <1>6, <2>1, SettleCurrent DEF ProbeAnswered, Running, Ends
  <2>2. CASE /\ phase' = [phase EXCEPT ![r] = "posting"] /\ UNCHANGED <<result, login>>
             /\ \E k \in Cookies \cup {probe[r]} :
                  k # Null /\ challenge' = [challenge EXCEPT ![r] = k]
    BY <1>6, <2>2 DEF ProbeAnswered, Current, Running, LanTypeOK
  <2> QED BY <1>6, <2>1, <2>2, LanAssumption DEF ProbeAnswered
<1>7. ASSUME NEW r \in Requests, PostAnswered(r) \/ LoginFails(r)
      PROVE  Current'
  <2>1. Running(r) /\ \E how \in Ends : Settle(r, how)
    BY <1>7 DEF PostAnswered, LoginFails, Running, Ends
  <2> QED BY <1>7, <2>1, SettleCurrent DEF PostAnswered, LoginFails
<1> QED BY <1>2, <1>3, <1>4, <1>5, <1>6, <1>7 DEF LanNext

-----------------------------------------------------------------------------
(***************************************************************************)
(* Once.                                                                   *)
(***************************************************************************)

\* Every step keeps what the router holds of each request.
LEMMA StepOnce ==
  ASSUME LanTypeOK, Current, Counted, \A q \in Requests : Once(q), LanNext
  PROVE  \A q \in Requests : Once(q)'
<1> SUFFICES ASSUME NEW q \in Requests, Once(q)
             PROVE  Once(q)'
  OBVIOUS
<1>1. CASE UNCHANGED <<mutating, pc, outcome, routerVars>>
  BY <1>1 DEF Once, routerVars
<1>2. CASE SessionExpires \/ \E r \in Requests :
             ProbeAnswered(r) \/ PostAnswered(r) \/ LoginFails(r) \/ Cut(r)
  BY <1>1, <1>2 DEF SessionExpires, ProbeAnswered, PostAnswered, LoginFails, Cut, requestVars
<1>3. ASSUME NEW r \in Requests, FirstSend(r)
      PROVE  Once(q)'
  BY <1>3 DEF FirstSend, Transmit, Once, LanTypeOK
<1>4. ASSUME NEW r \in Requests, Answered(r) \/ SendFails(r) \/ Leave(r)
      PROVE  Once(q)'
  BY <1>4 DEF Answered, SendFails, Leave, End, Once, LanTypeOK, routerVars
<1>5. ASSUME NEW r \in Requests, RefusedTwice(r) \/ Refused(r)
      PROVE  Once(q)'
  BY <1>5 DEF RefusedTwice, Refused, End, Once, LanTypeOK
<1>6. ASSUME NEW r \in Requests, Resume(r)
      PROVE  Once(q)'
  <2>1. result[joined[r]] # "none"
    BY <1>6 DEF Resume, Counted, Current
  <2>2. CASE Transmit(r, TRUE) /\ UNCHANGED outcome
    BY <1>6, <2>2 DEF Resume, Transmit, Once, LanTypeOK
  <2>3. CASE End(r, result[joined[r]]) /\ UNCHANGED limbo
    BY <1>6, <2>1, <2>3 DEF Resume, End, Once, LanTypeOK
  <2> QED BY <1>6, <2>2, <2>3 DEF Resume
<1>7. ASSUME NEW r \in Requests, Execute(r)
      PROVE  Once(q)'
  BY <1>7 DEF Execute, Once, LanTypeOK, requestVars
<1> QED BY <1>2, <1>3, <1>4, <1>5, <1>6, <1>7 DEF LanNext

-----------------------------------------------------------------------------
(***************************************************************************)
(* SteadySession.                                                          *)
(***************************************************************************)

\* A cookie that is set without disturbing anything is the first.
LEMMA FirstCookie ==
  ASSUME LanTypeOK, SteadySession, NEW k \in Cookies \ issued, Capture(k), ~disturbed'
  PROVE  ~disturbed /\ cookie = Null /\ cookie' = k /\ issued' = {cookie'} \ {Null}
BY LanAssumption, ZenonT(40) DEF LanTypeOK, SteadySession, Capture

\* The conjunct of SteadySession about request r and the login named after it.
SteadyFor(r) ==
  /\ Running(r) => probe[r] \in {Null, cookie}
  /\ phase[r] = "posting" => cookie # Null /\ probe[r] = cookie /\ challenge[r] = cookie
  /\ result[r] = "ok" => cookie \in authorized
  /\ ~(resent[r] /\ (pc[r] = "waiting" \/ outcome[r] = "auth"))
  /\ pc[r] = "sending" /\ resent[r] => carried[r] \in authorized

\* Whether or not a response sets a first cookie, there is one at most.
LEMMA CookieSteady ==
  ASSUME LanTypeOK, SteadySession, ~disturbed',
         UNCHANGED sessionVars \/ \E k \in Cookies \ issued : Capture(k)
  PROVE  ~disturbed /\ issued' = {cookie'} \ {Null} /\ (cookie # Null => cookie' = cookie)
BY FirstCookie DEF sessionVars, SteadySession

\* What is known of q stays known in steps that neither refuse it nor send it nor settle its login.
LEMMA SteadyKept ==
  ASSUME LanTypeOK, SteadySession, NEW q \in Requests, ~disturbed,
         cookie # Null => cookie' = cookie, authorized \subseteq authorized',
         phase'[q] = phase[q], result'[q] = result[q], probe'[q] = probe[q],
         challenge'[q] = challenge[q],
         resent'[q] /\ (pc'[q] = "waiting" \/ outcome'[q] = "auth")
           => resent[q] /\ (pc[q] = "waiting" \/ outcome[q] = "auth"),
         pc'[q] = "sending" /\ resent'[q] => \/ carried'[q] \in authorized
                                           \/ /\ pc[q] = "sending" /\ resent[q]
                                              /\ carried'[q] = carried[q]
  PROVE  SteadyFor(q)'
<1>1. SteadyFor(q)
  BY DEF SteadySession, SteadyFor
<1>2. cookie \in authorized => cookie' \in authorized'
  BY LanAssumption DEF LanTypeOK
<1>3. Running(q) => probe'[q] \in {Null, cookie'}
  BY <1>1 DEF SteadyFor
<1> QED BY <1>1, <1>2, <1>3 DEF SteadyFor, Running

\* Every step keeps it.
LEMMA StepSteady ==
  ASSUME LanTypeOK, Counted, Current, SteadySession, \A q \in Requests : Once(q), LanNext
  PROVE  SteadySession'
<1> SUFFICES ASSUME ~disturbed'
             PROVE  issued' = {cookie'} \ {Null} /\ \A q \in Requests : SteadyFor(q)'
  BY DEF SteadySession, SteadyFor, Running
<1>1. UNCHANGED sessionVars \/ \E k \in Cookies \ issued : Capture(k)
  BY DEF LanNext, FirstSend, Answered, SendFails, RefusedTwice, Refused, Leave, Resume, MayCapture,
         ProbeAnswered, PostAnswered, LoginFails, Cut, Execute, SessionExpires
<1>2. ~disturbed /\ issued' = {cookie'} \ {Null} /\ (cookie # Null => cookie' = cookie)
  BY <1>1, CookieSteady
<1>3. \A q \in Requests : SteadyFor(q)
  BY <1>2 DEF SteadySession, SteadyFor
<1> SUFFICES ASSUME NEW q \in Requests
             PROVE  SteadyFor(q)'
  BY <1>2
<1> PICK r \in Requests :
      \/ FirstSend(r) \/ Answered(r) \/ SendFails(r) \/ RefusedTwice(r) \/ Refused(r)
      \/ Leave(r) \/ Resume(r) \/ ProbeAnswered(r) \/ PostAnswered(r) \/ LoginFails(r)
      \/ Cut(r) \/ Execute(r)
  BY DEF LanNext, SessionExpires
<1>4. CASE FirstSend(r)
  BY <1>2, <1>4, SteadyKept DEF FirstSend, Transmit, loginVars, LanTypeOK
<1>5. CASE Answered(r) \/ SendFails(r) \/ Leave(r)
  <2>1. /\ pc' = [pc EXCEPT ![r] = "ended"]
        /\ outcome'[q] = "auth" => outcome[q] = "auth"
        /\ UNCHANGED <<resent, carried, phase, result, probe, challenge, authorized>>
    BY <1>5 DEF Answered, SendFails, Leave, End, loginVars, LanTypeOK
  <2> QED BY <1>2, <2>1, SteadyKept DEF LanTypeOK
<1>6. CASE RefusedTwice(r)
  BY <1>3, <1>6 DEF RefusedTwice, SteadyFor
<1>7. CASE Refused(r)
  <2>1. /\ pc' = [pc EXCEPT ![r] = "waiting"]
        /\ ~resent[r] /\ UNCHANGED <<resent, carried, outcome, result, challenge, authorized>>
    BY <1>7 DEF Refused
  <2>2. CASE q = r /\ login = Null
    <3>1. phase'[q] = "probing" /\ probe'[q] = cookie' /\ pc'[q] # "sending" /\ ~resent'[q]
      BY <1>7, <2>2 DEF Refused, LanTypeOK
    <3>2. cookie \in authorized => cookie' \in authorized'
      BY <1>2, <2>1, LanAssumption DEF LanTypeOK
    <3> QED BY <1>3, <2>1, <3>1, <3>2 DEF SteadyFor
  <2>3. CASE q # r \/ login # Null
    <3>1. phase'[q] = phase[q] /\ probe'[q] = probe[q]
      BY <1>7, <2>3 DEF Refused, LanTypeOK
    <3> QED BY <1>2, <2>1, <3>1, SteadyKept DEF LanTypeOK
  <2> QED BY <2>2, <2>3
<1>8. CASE Resume(r)
  <2>1. joined[r] \in Requests /\ SteadyFor(joined[r])
    BY <1>3, <1>8, WaiterCounted DEF Resume
  <2>2. UNCHANGED <<phase, result, probe, challenge, authorized>>
    BY <1>8 DEF Resume
  <2>3. ~resent[r] /\ outcome[r] = "none"
    BY <1>3, <1>8 DEF Resume, SteadyFor, Once
  <2>4. CASE result[joined[r]] = "ok" /\ Transmit(r, TRUE) /\ UNCHANGED outcome
    BY <1>2, <2>1, <2>2, <2>3, <2>4, SteadyKept DEF Transmit, SteadyFor, LanTypeOK
  <2>5. CASE End(r, result[joined[r]]) /\ UNCHANGED <<resent, carried>>
    <3>1. pc' = [pc EXCEPT ![r] = "ended"] /\ \A p \in Requests \ {r} : outcome'[p] = outcome[p]
      BY <2>5 DEF End, LanTypeOK
    <3> QED BY <1>2, <2>2, <2>3, <2>5, <3>1, SteadyKept DEF LanTypeOK
  <2> QED BY <1>8, <2>4, <2>5 DEF Resume
<1>9. CASE ProbeAnswered(r)
  <2>1. UNCHANGED <<requestVars, authorized>>
    BY <1>9 DEF ProbeAnswered
  <2>2. CASE q # r
    <3>1. /\ phase'[q] = phase[q] /\ result'[q] = result[q]
          /\ probe'[q] = probe[q] /\ challenge'[q] = challenge[q]
      BY <1>9, <2>2 DEF ProbeAnswered, Settle, LanTypeOK
    <3> QED BY <1>2, <2>1, <3>1, SteadyKept DEF requestVars
  <2>3. CASE q = r /\ probe[r] \in authorized /\ Settle(r, "ok") /\ UNCHANGED sessionVars
    <3>1. cookie \in authorized
      BY <1>3, <1>9, <2>3, LanAssumption DEF ProbeAnswered, SteadyFor, Running, LanTypeOK
    <3>2. phase'[q] = "settled" /\ result'[q] = "ok"
      BY <2>3 DEF Settle, LanTypeOK
    <3> QED BY <1>3, <2>1, <2>3, <3>1, <3>2 DEF SteadyFor, Running, requestVars, sessionVars
  <2>4. CASE q = r /\ phase' = [phase EXCEPT ![r] = "posting"] /\ UNCHANGED result
    <3>1. phase'[q] = "posting" /\ probe'[q] = cookie' /\ challenge'[q] = cookie' /\ cookie' # Null
      <4>1. CASE /\ probe[r] # Null /\ UNCHANGED sessionVars
                 /\ challenge' = [challenge EXCEPT ![r] = probe[r]]
                 /\ probe' = [probe EXCEPT ![r] = cookie']
        BY <1>3, <1>9, <2>4, <4>1 DEF ProbeAnswered, SteadyFor, Running, sessionVars, LanTypeOK
      <4>2. CASE \E k \in Cookies \ issued :
                   /\ Capture(k) /\ challenge' = [challenge EXCEPT ![r] = k]
                   /\ probe' = [probe EXCEPT ![r] = cookie']
        BY <2>4, <4>2, LanAssumption DEF Capture, LanTypeOK
      <4> QED BY <1>9, <2>4, <4>1, <4>2 DEF ProbeAnswered, Settle, LanTypeOK
    <3>2. cookie \in authorized => cookie' \in authorized'
      BY <1>2, <2>1, LanAssumption DEF LanTypeOK
    <3> QED BY <1>3, <2>1, <2>4, <3>1, <3>2 DEF SteadyFor, Running, requestVars
  <2>5. CASE q = r /\ Settle(r, "auth") /\ UNCHANGED <<probe, challenge>>
    <3>1. phase'[q] = "settled" /\ result'[q] = "auth"
      BY <2>5 DEF Settle, LanTypeOK
    <3> QED BY <1>3, <2>1, <2>5, <3>1 DEF SteadyFor, Running, requestVars
  <2> QED BY <1>9, <2>2, <2>3, <2>4, <2>5 DEF ProbeAnswered
<1>10. CASE PostAnswered(r)
  <2>1. UNCHANGED <<requestVars, probe, challenge, sessionVars>>
    BY <1>10 DEF PostAnswered
  <2>2. \/ cookie \in authorized' /\ authorized \subseteq authorized' /\ Settle(r, "ok")
        \/ authorized' = authorized /\ Settle(r, "auth")
    BY <1>3, <1>10 DEF PostAnswered, Accept, SteadyFor
  <2>3. CASE q # r
    <3>1. phase'[q] = phase[q] /\ result'[q] = result[q]
      BY <2>2, <2>3 DEF Settle, LanTypeOK
    <3> QED BY <1>2, <2>1, <2>2, <3>1, SteadyKept DEF requestVars
  <2>4. CASE q = r
    <3>1. phase'[q] = "settled" /\ (result'[q] = "ok" => cookie \in authorized')
      BY <2>2, <2>4 DEF Settle, LanTypeOK
    <3> QED BY <1>3, <2>1, <2>2, <3>1 DEF SteadyFor, Running, requestVars, sessionVars
  <2> QED BY <2>3, <2>4
<1>11. CASE LoginFails(r)
  <2>1. UNCHANGED <<requestVars, probe, challenge, sessionVars>> /\ authorized \subseteq authorized'
    BY <1>11 DEF LoginFails, Accept
  <2>2. \/ phase'[q] = phase[q] /\ result'[q] = result[q]
        \/ phase'[q] = "settled" /\ result'[q] = "transport"
    BY <1>11 DEF LoginFails, Settle, LanTypeOK
  <2> QED BY <1>3, <2>1, <2>2 DEF SteadyFor, Running, requestVars, sessionVars
<1>12. CASE Cut(r) \/ Execute(r)
  <2>1. UNCHANGED <<pc, resent, carried, outcome, phase, result, probe, challenge, authorized, cookie>>
    BY <1>12 DEF Cut, Execute, requestVars, loginVars, sessionVars
  <2> QED BY <1>3, <2>1 DEF SteadyFor, Running
<1> QED BY <1>4, <1>5, <1>6, <1>7, <1>8, <1>9, <1>10, <1>11, <1>12

-----------------------------------------------------------------------------
(***************************************************************************)
(* LanInv is an invariant.                                                 *)
(***************************************************************************)

\* The initial state satisfies it.
LEMMA InitInv == LanInit => LanInv
<1> SUFFICES ASSUME LanInit
             PROVE  LanInv
  OBVIOUS
<1>1. LanTypeOK
  BY DEF LanInit, LanTypeOK, MaybeCookie, Ends
<1>2. Current /\ SteadySession /\ \A r \in Requests : Once(r)
  BY DEF LanInit, Current, SteadySession, Once, Running
<1> QED BY <1>1, <1>2, InitCounted DEF LanInv

\* Its parts and the types together are inductive.
LEMMA StepInv ==
  ASSUME LanInv, [LanNext]_lanVars
  PROVE  LanInv'
<1>1. CASE UNCHANGED lanVars
  BY <1>1 DEF LanInv, LanTypeOK, Counted, Waiting, Current, Running, SteadySession, Once,
              lanVars, requestVars, loginVars, sessionVars, routerVars
<1>2. CASE LanNext
  <2>1. LanTypeOK'
    <3>1. CASE SessionExpires
      BY <3>1 DEF SessionExpires, LanInv, LanTypeOK, requestVars, loginVars, routerVars
    <3>2. CASE ~SessionExpires
      BY <1>2, <3>2, RequestType, OtherType DEF LanInv, LanNext
    <3> QED BY <3>1, <3>2
  <2> QED BY <1>2, <2>1, StepCounted, StepCurrent, StepSteady, StepOnce DEF LanInv
<1> QED BY <1>1, <1>2

\* The inductive invariant: types, the count of waiters, the state of the login, what the router
\* holds of every mutation, and what an undisturbed cookie is good for.
THEOREM LanInvariant == LanSafety => []LanInv
<1>1. LanInit => LanInv
  BY InitInv
<1>2. LanInv /\ [LanNext]_lanVars => LanInv'
  BY StepInv
<1> QED BY <1>1, <1>2, PTL DEF LanSafety

\* Every variable keeps its type, and no count of waiters goes below zero.
THEOREM LanTypeCorrect == LanSpec => []LanTypeOK
<1>1. LanInv => LanTypeOK
  BY DEF LanInv
<1> QED BY <1>1, LanInvariant, PTL DEF LanSpec

\* Concurrent callers share one login, which is told to stop once the last of them has left.
THEOREM LoginShared == LanSpec => []LoginIsShared
<1>1. LanInv => LoginIsShared
  BY FS_EmptySet DEF LanInv, Counted, Current, LoginIsShared
<1> QED BY <1>1, LanInvariant, PTL DEF LanSpec

\* A request whose login has succeeded is refused again only if a session expired or another
\* response replaced the cookie meanwhile.
THEOREM RejectionsHaveReasons == LanSpec => []RejectionHasReason
<1>1. LanInv => RejectionHasReason
  BY DEF LanInv, SteadySession, RejectionHasReason
<1> QED BY <1>1, LanInvariant, PTL DEF LanSpec

\* Whoever leaves stops no login that another one waits for.
LEMMA StepLeaving ==
  ASSUME LanInv, LanNext
  PROVE  LeavingLeavesLogin
<1> SUFFICES ASSUME NEW f \in Requests, ~doomed[f], doomed'[f]
             PROVE  Waiting(f)' = {}
  BY DEF LeavingLeavesLogin
<1> PICK r \in Requests : Leave(r) \/ Resume(r)
  BY DEF LanNext, FirstSend, Answered, SendFails, RefusedTwice, Refused, ProbeAnswered, PostAnswered,
         LoginFails, Cut, Execute, SessionExpires, loginVars
<1>1. joined[r] \in Requests
  BY WaiterCounted DEF Leave, Resume, LanInv
<1>2. f = joined[r] /\ waiters[f] = 1
  BY <1>1 DEF Leave, Resume, Depart, LanInv, LanTypeOK
<1>3. Waiting(f)' = Waiting(f) \ {r} /\ r \in Waiting(f)
  <2>1. \E x : x # "waiting" /\ pc' = [pc EXCEPT ![r] = x]
    BY DEF Leave, Resume, Transmit, End
  <2> QED BY <1>2, <2>1, WaiterGone DEF Leave, Resume, LanInv
<1>4. Cardinality(Waiting(f)) = 1
  BY <1>2 DEF LanInv, Counted
<1>5. Cardinality(Waiting(f)') = Cardinality(Waiting(f)) - 1 /\ IsFiniteSet(Waiting(f)')
  BY <1>3, WaitingFinite, FS_RemoveElement
<1> QED BY <1>4, <1>5, FS_EmptySet

\* What callers share does not hurt them.
THEOREM LoginSound == LanSpec => LoginIsSound
<1>1. LanInv' => LoginIsShared'
  BY FS_EmptySet DEF LanInv, Counted, Current, LoginIsShared
<1>2. LanInv' => RejectionHasReason'
  BY DEF LanInv, SteadySession, RejectionHasReason
<1>3. LanInv /\ LanInv' /\ [LanNext]_lanVars
        => [LoginIsShared' /\ RejectionHasReason' /\ LeavingLeavesLogin]_lanVars
  BY <1>1, <1>2, StepLeaving
<1> QED BY <1>3, LanInvariant, PTL DEF LanSpec, LanSafety, LoginIsSound

-----------------------------------------------------------------------------
(***************************************************************************)
(* LanSession implements RemoteContract.                                   *)
(***************************************************************************)

\* A caller is told how its request ended: of an acknowledgement of what has run, of a refusal
\* by a router that has run nothing and holds nothing, or of neither.
LEMMA TellImplements ==
  ASSUME LanTypeOK, NEW r \in Requests, outcome[r] = "none", NEW what \in Ends,
         outcome' = [outcome EXCEPT ![r] = what],
         r \in mutating /\ what = "ok" => executed[r] = 1,
         what = "auth" => executed[r] = 0,
         limbo' = [limbo EXCEPT ![r] = IF what = "auth" THEN 0 ELSE @],
         UNCHANGED <<mutating, executed>>
  PROVE  LanContract!Next
<1>1. what \in LanContract!Told /\ (what \in LanContract!Refusals <=> what = "auth")
  BY DEF Ends, LanContract!Told, LanContract!Refusals
<1>2. LanContract!Tell(r, what)
  BY <1>1 DEF LanContract!Tell
<1> QED BY <1>1, <1>2 DEF LanContract!Next

\* A request that the router holds nothing of is sent: a mutation is transmitted.
LEMMA TransmitImplements ==
  ASSUME LanTypeOK, NEW r \in Requests, NEW again, Transmit(r, again),
         outcome[r] = "none", limbo[r] = 0, executed[r] = 0,
         UNCHANGED <<mutating, outcome, executed>>
  PROVE  LanContract!Next \/ UNCHANGED LanContract!vars
<1>1. CASE r \in mutating
  BY <1>1 DEF Transmit, LanContract!Next, LanContract!Transmit
<1>2. CASE r \notin mutating
  BY <1>2 DEF Transmit, LanTypeOK, LanContract!vars
<1> QED BY <1>1, <1>2

\* Every step is a step of the contract, or none at all.
LEMMA StepImplements ==
  ASSUME LanInv, LanNext
  PROVE  LanContract!Next \/ UNCHANGED LanContract!vars
<1> USE DEF LanInv
<1>1. CASE UNCHANGED <<mutating, outcome, routerVars>>
  BY <1>1 DEF routerVars, LanContract!vars
<1>2. CASE SessionExpires \/ \E r \in Requests :
             ProbeAnswered(r) \/ PostAnswered(r) \/ LoginFails(r) \/ Cut(r)
  BY <1>1, <1>2 DEF SessionExpires, ProbeAnswered, PostAnswered, LoginFails, Cut, requestVars
<1>3. ASSUME NEW r \in Requests, FirstSend(r)
      PROVE  LanContract!Next \/ UNCHANGED LanContract!vars
  BY <1>3, TransmitImplements DEF FirstSend, Once
<1>4. ASSUME NEW r \in Requests, Answered(r) \/ SendFails(r) \/ Leave(r)
      PROVE  LanContract!Next
  <2>1. outcome[r] = "none" /\ UNCHANGED <<mutating, limbo, executed>>
    BY <1>4 DEF Answered, SendFails, Leave, Once, routerVars
  <2>2. limbo' = [limbo EXCEPT ![r] = @]
    BY <2>1 DEF LanTypeOK
  <2>3. CASE Answered(r)
    BY <2>1, <2>2, <2>3, TellImplements DEF Answered, End, Ends
  <2>4. CASE SendFails(r) \/ Leave(r)
    BY <2>1, <2>2, <2>4, TellImplements DEF SendFails, Leave, End, Ends
  <2> QED BY <1>4, <2>3, <2>4
<1>5. ASSUME NEW r \in Requests, RefusedTwice(r)
      PROVE  LanContract!Next
  BY <1>5, TellImplements DEF RefusedTwice, End, Ends, Once
<1>6. ASSUME NEW r \in Requests, Refused(r)
      PROVE  LanContract!Next \/ UNCHANGED LanContract!vars
  <2>1. CASE limbo[r] = 1
    BY <1>6, <2>1 DEF Refused, LanContract!Next, LanContract!Drop
  <2>2. CASE limbo[r] = 0
    BY <1>6, <2>2 DEF Refused, LanTypeOK, LanContract!vars
  <2> QED BY <2>1, <2>2 DEF LanTypeOK
<1>7. ASSUME NEW r \in Requests, Resume(r)
      PROVE  LanContract!Next \/ UNCHANGED LanContract!vars
  <2>1. outcome[r] = "none" /\ limbo[r] = 0 /\ executed[r] = 0
    BY <1>7 DEF Resume, Once
  <2>2. UNCHANGED <<mutating, executed>>
    BY <1>7 DEF Resume
  <2>3. CASE Transmit(r, TRUE) /\ UNCHANGED outcome
    BY <2>1, <2>2, <2>3, TransmitImplements
  <2>4. CASE result[joined[r]] # "ok" /\ End(r, result[joined[r]]) /\ UNCHANGED limbo
    <3>1. result[joined[r]] \in Ends
      BY <1>7 DEF Resume, Counted, Current, LanTypeOK
    <3>2. limbo' = [limbo EXCEPT ![r] = 0] /\ limbo' = [limbo EXCEPT ![r] = @]
      BY <2>1, <2>4 DEF LanTypeOK
    <3> QED BY <2>1, <2>2, <2>4, <3>1, <3>2, TellImplements DEF End
  <2> QED BY <1>7, <2>3, <2>4 DEF Resume
<1>8. ASSUME NEW r \in Requests, Execute(r)
      PROVE  LanContract!Next
  <2>1. executed[r] = 0
    BY <1>8 DEF Execute, Once
  <2>2. executed' = [executed EXCEPT ![r] = 1]
    BY <1>8, <2>1 DEF Execute, LanTypeOK
  <2> QED BY <1>8, <2>1, <2>2 DEF Execute, requestVars, LanContract!Next, LanContract!Run
<1> QED BY <1>2, <1>3, <1>4, <1>5, <1>6, <1>7, <1>8 DEF LanNext

\* The local session implements the contract of the remote one.
THEOREM LanImplements == LanSpec => LanImplementsContract
<1>1. LanInit => LanContract!Init
  BY DEF LanInit, LanContract!Init
<1>2. LanInv /\ [LanNext]_lanVars => [LanContract!Next]_(LanContract!vars)
  <2> SUFFICES ASSUME LanInv, [LanNext]_lanVars
               PROVE  LanContract!Next \/ UNCHANGED LanContract!vars
    OBVIOUS
  <2>1. CASE UNCHANGED lanVars
    BY <2>1 DEF lanVars, requestVars, routerVars, LanContract!vars
  <2> QED BY <2>1, StepImplements
<1> QED BY <1>1, <1>2, LanInvariant, PTL DEF LanSpec, LanSafety, LanImplementsContract, LanContract!Spec
=============================================================================
