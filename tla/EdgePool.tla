------------------------------ MODULE EdgePool ------------------------------
(***************************************************************************)
(* The bounded pool of KeenDNS edge addresses a remote session has seen    *)
(* (router/edge-pool.ts).  Normal attempts feed it observations and        *)
(* health; the fallback asks it for at most two other addresses to pin.    *)
(* Timestamps are Date.now(): the clock may also be set back.              *)
(* firstObservedAt is left out: nothing ever reads it.                     *)
(***************************************************************************)
EXTENDS Integers, FiniteSets, SequencesExt

CONSTANTS
  Ips,            \* canonical addresses; their order stands for localeCompare
  Values,         \* address strings a resolver or a socket may report
  Canonical,      \* canonicalIp, a function from Values to Ips or NoIp
  NoIp,           \* canonicalIp's null
  MaxEntries,     \* EdgePoolOptions.maxEntries
  StaleThreshold, \* EdgePoolOptions.staleThresholdMs
  Steady,         \* the clock is never set back
  MaxNow          \* bound: the clock stops here

ASSUME PoolAssumption ==
  /\ Ips \subseteq Nat
  /\ IsFiniteSet(Ips)
  /\ Canonical \in [Values -> Ips \cup {NoIp}]
  /\ NoIp \notin Ips
  /\ MaxEntries \in Nat
  /\ StaleThreshold \in Nat
  /\ Steady \in BOOLEAN
  /\ MaxNow \in Nat

VARIABLES
  entries, \* the Map: address -> entry, over the addresses in the pool
  now      \* the clock

poolVars == <<entries, now>>

Never == -1 \* an undefined lastSuccessAt or lastFailureAt
Time == 0 .. MaxNow
Entry == [observed : Time,
          success : Time \cup {Never}, failure : Time \cup {Never}]

\* The pool holds canonical addresses only, each with its three times.
PoolTypeOK ==
  /\ DOMAIN entries \subseteq Ips
  /\ \A ip \in DOMAIN entries : entries[ip] \in Entry
  /\ now \in Time

PoolInit == entries = [ip \in {} |-> <<>>] /\ now = 0

-----------------------------------------------------------------------------
(***************************************************************************)
(* Updates.                                                                *)
(***************************************************************************)

OlderByUse(a, b) == \* mutant: age counted from the last successful use
  \/ entries[a].success < entries[b].success
  \/ entries[a].success = entries[b].success /\ a < b

Older(a, b) ==
  \/ entries[a].observed < entries[b].observed
  \/ entries[a].observed = entries[b].observed /\ a < b

\* evictOldest: the addresses left after the oldest observation is dropped.
OldestEvicted ==
  DOMAIN entries \
    {ip \in DOMAIN entries : \A other \in DOMAIN entries \ {ip} : Older(ip, other)}

Fresh == [observed |-> now, success |-> Never, failure |-> Never]

Insert(ip) ==
  LET kept == IF Cardinality(DOMAIN entries) >= MaxEntries
              THEN OldestEvicted ELSE DOMAIN entries
  IN entries' = [e \in kept \cup {ip} |-> IF e = ip THEN Fresh ELSE entries[e]]

ObserveAnew(value) == \* mutant: a known address is set afresh
  LET ip == Canonical[value]
  IN /\ ip # NoIp
     /\ \/ /\ ip \in DOMAIN entries
           /\ entries' = [entries EXCEPT ![ip] = Fresh]
        \/ /\ ip \notin DOMAIN entries
           /\ MaxEntries > 0
           /\ Insert(ip)
     /\ UNCHANGED now

Observe(value) ==
  LET ip == Canonical[value]
  IN /\ ip # NoIp
     /\ \/ /\ ip \in DOMAIN entries
           /\ entries' = [entries EXCEPT ![ip].observed = now]
        \/ /\ ip \notin DOMAIN entries
           /\ MaxEntries > 0
           /\ Insert(ip)
     /\ UNCHANGED now

RecordSuccess(value) ==
  LET ip == Canonical[value]
  IN /\ ip \in DOMAIN entries
     /\ entries' = [entries EXCEPT ![ip].success = now]
     /\ UNCHANGED now

RecordFailure(value) ==
  LET ip == Canonical[value]
  IN /\ ip \in DOMAIN entries
     /\ entries' = [entries EXCEPT ![ip].failure = now]
     /\ UNCHANGED now

\* The environment's: time passes, or the wall clock is set back if it ever is.
Tick ==
  /\ now' \in Time \ {now}
  /\ Steady => now' > now
  /\ UNCHANGED entries

PoolNext ==
  \/ \E value \in Values :
       Observe(value) \/ RecordSuccess(value) \/ RecordFailure(value)
  \/ Tick

PoolSpec == PoolInit /\ [][PoolNext]_poolVars

-----------------------------------------------------------------------------
(***************************************************************************)
(* candidateDetails: a read-only ranking of the entries.                   *)
(***************************************************************************)

HealthyOnTie(e) == e.success # Never /\ e.success >= e.failure \* mutant: ties

Healthy(e) == e.success # Never /\ (e.failure = Never \/ e.success > e.failure)
Untried(e) == e.success = Never /\ e.failure = Never

Usable(excluded) ==
  {ip \in DOMAIN entries \ excluded : now - entries[ip].observed <= StaleThreshold}

\* The list of S in the order of its keys, the address deciding ties.
SortedBy(S, key) ==
  CHOOSE s \in [1 .. Cardinality(S) -> S] :
    \A i, j \in 1 .. Cardinality(S) :
      i < j => key[s[i]] < key[s[j]] \/ (key[s[i]] = key[s[j]] /\ s[i] < s[j])

Candidates(excluded, limit) ==
  LET usable == Usable(excluded)
      healthy == {ip \in usable : Healthy(entries[ip])}
      unknown == {ip \in usable : Untried(entries[ip])}
      failed == usable \ (healthy \cup unknown)
      ranked == SortedBy(healthy, [ip \in healthy |-> -entries[ip].success])
                  \o SortedBy(unknown, [ip \in unknown |-> -entries[ip].observed])
                  \o SortedBy(failed, [ip \in failed |-> entries[ip].failure])
      room == Max({0, Min({2, limit})})
  IN SubSeq(ranked, 1, Min({room, Len(ranked)}))

-----------------------------------------------------------------------------
(***************************************************************************)
(* Properties.                                                             *)
(***************************************************************************)

\* The tier of every address, with the timestamps forgotten.
TierOf ==
  [ip \in Ips |-> CASE ip \notin DOMAIN entries -> "absent"
                    [] ip \in DOMAIN entries /\ Healthy(entries[ip]) -> "healthy"
                    [] ip \in DOMAIN entries /\ Untried(entries[ip]) -> "unknown"
                    [] OTHER -> "failed"]

Tiers == INSTANCE EdgeTiers WITH tier <- TierOf

\* Every call is a step of the pool the transport relies on: a failure demotes
\* and a success promotes its own address or nothing if the clock is never set
\* back, an observation changes no health, and an address leaves only for a
\* newcomer.
ImplementsTiers == Tiers!Spec

\* The pool never exceeds its limit, a limit of zero included.  An entry leaves
\* it only when a new address enters a full pool, and then it is an entry whose
\* last observation is nowhere newer than another's: an edge DNS still returns
\* outlives one it stopped returning.
OnlyTheOldestLeaves ==
  [][/\ Cardinality(DOMAIN entries') <= MaxEntries
     /\ \A ip \in DOMAIN entries \ DOMAIN entries' :
       /\ Cardinality(DOMAIN entries) = MaxEntries
       /\ DOMAIN entries' \ DOMAIN entries # {}
       /\ \A other \in DOMAIN entries : entries[ip].observed <= entries[other].observed
    ]_poolVars

\* The preference of the fallback, pair by pair: proven edges before untried
\* ones before failed ones; recent success, recent observation and distant
\* failure first within a tier; the address decides ties.
TierNo(e) == CASE e.success > e.failure -> 1
               [] e.success = Never /\ e.failure = Never -> 2
               [] OTHER -> 3

KeyNo(e) == CASE TierNo(e) = 1 -> -e.success
              [] TierNo(e) = 2 -> -e.observed
              [] OTHER -> e.failure

Preferred(a, b) ==
  LET ea == entries[a]
      eb == entries[b]
  IN \/ TierNo(ea) < TierNo(eb)
     \/ TierNo(ea) = TierNo(eb) /\ KeyNo(ea) < KeyNo(eb)
     \/ TierNo(ea) = TierNo(eb) /\ KeyNo(ea) = KeyNo(eb) /\ a < b

\* Whatever is excluded, the candidates are the most preferred usable
\* addresses in order, as many as the limit and the pool allow.
CandidatesAreTheBest ==
  \A excluded \in SUBSET Ips : \A limit \in 0 .. 3 :
    LET chosen == Candidates(excluded, limit)
        usable == Usable(excluded)
    IN /\ Len(chosen) = Min({2, Max({0, limit}), Cardinality(usable)})
       /\ \A i \in 1 .. Len(chosen) :
            /\ chosen[i] \in usable
            /\ \A other \in usable \ {chosen[j] : j \in 1 .. i} : Preferred(chosen[i], other)

\* What the transport is handed is a list the abstract pool allows: never an
\* excluded address, never one twice, never a worse tier before a better.
CandidatesAreAllowed ==
  \A excluded \in SUBSET Ips :
    Candidates(excluded, 2) \in Tiers!CandidateLists(TierOf, excluded)

\* In every pool of well-formed entries, however old, tied or stamped by a clock
\* that went backwards, the fallback gets the best and nothing but the best.
CandidatesAreRight == PoolTypeOK /\ CandidatesAreTheBest /\ CandidatesAreAllowed
=============================================================================
