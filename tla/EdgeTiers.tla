----------------------------- MODULE EdgeTiers -----------------------------
(***************************************************************************)
(* What the transport relies on from the pool of cloud edges               *)
(* (router/edge-pool.ts), with the timestamps abstracted away.  Every      *)
(* address has a tier: absent from the pool, known but untried, healthy or *)
(* failed.  EdgePool, which keeps the timestamps, implements this module;  *)
(* RemoteSend builds its sends on it.                                      *)
(***************************************************************************)
EXTENDS Naturals, FiniteSets, Sequences

CONSTANTS
  Ips,        \* the canonical edge addresses
  MaxEntries, \* EdgePoolOptions.maxEntries
  Steady      \* the wall clock is never set back

ASSUME TiersAssumption == IsFiniteSet(Ips) /\ MaxEntries \in Nat /\ Steady \in BOOLEAN

VARIABLE tier \* tier[ip] of every address

Tier == {"absent", "unknown", "healthy", "failed"}
KnownIn(t) == {ip \in Ips : t[ip] # "absent"}

(***************************************************************************)
(* Updates, as the sets of pools they may lead to.  Which entry a full     *)
(* pool gives up depends on timestamps this module does not have.          *)
(***************************************************************************)

\* pool.observe on every address of S: newcomers enter untried, and a full
\* pool gives up as many entries as it has to.  When it does, an address of S
\* that was given up for another one of S comes back untried.
AfterObserving(t, S) ==
  LET present == KnownIn(t) \cup S
      room == IF Cardinality(present) > MaxEntries THEN MaxEntries
              ELSE Cardinality(present)
      replaceable == IF Cardinality(present) > MaxEntries THEN S ELSE {}
  IN {[ip \in Ips |-> IF ip \notin kept THEN "absent"
                      ELSE IF t[ip] = "absent" \/ ip \in replaced THEN "unknown"
                      ELSE t[ip]] :
        kept \in {K \in SUBSET present : Cardinality(K) = room},
        replaced \in SUBSET replaceable}

\* pool.recordSuccess on every address of S.  A failed entry stays failed when
\* its last failure carries the same millisecond.  Under a clock that is set
\* back the later event need not have the later timestamp, and what succeeds
\* may be taken for failed.
AfterSuccess(t, S) ==
  LET known == S \cap KnownIn(t)
  IN {[ip \in Ips |-> IF ip \notin known THEN t[ip]
                      ELSE IF ip \in outdone THEN "failed" ELSE "healthy"] :
        outdone \in SUBSET {ip \in known : t[ip] = "failed" \/ (~Steady /\ t[ip] = "healthy")}}

\* pool.recordFailure on every address of S.  Under a clock that is set back
\* what fails may be taken for healthy, if it ever succeeded.
AfterFailure(t, S) ==
  LET known == S \cap KnownIn(t)
  IN {[ip \in Ips |-> IF ip \notin known THEN t[ip]
                      ELSE IF ip \in outdone THEN "healthy" ELSE "failed"] :
        outdone \in SUBSET {ip \in known : ~Steady /\ t[ip] \in {"healthy", "failed"}}}

(***************************************************************************)
(* The lists pool.candidateDetails(excluded, 2) may return: at most two    *)
(* distinct known addresses outside excluded, in the order healthy,        *)
(* unknown, failed.  Stale entries may be passed over.                     *)
(***************************************************************************)
Rank == [t \in Tier |-> CASE t = "healthy" -> 1 [] t = "unknown" -> 2
                          [] t = "failed" -> 3 [] OTHER -> 4]

CandidateLists(t, excluded) ==
  LET usable == KnownIn(t) \ excluded
  IN {<<>>} \cup {<<ip>> : ip \in usable}
       \cup {pair \in usable \X usable :
               pair[1] # pair[2] /\ Rank[t[pair[1]]] <= Rank[t[pair[2]]]}

-----------------------------------------------------------------------------
Init == tier = [ip \in Ips |-> "absent"]

Observe(ip) == tier' \in AfterObserving(tier, {ip})
RecordSuccess(ip) == tier' \in AfterSuccess(tier, {ip})
RecordFailure(ip) == tier' \in AfterFailure(tier, {ip})

Next == \E ip \in Ips : Observe(ip) \/ RecordSuccess(ip) \/ RecordFailure(ip)

Spec == Init /\ [][Next]_tier
=============================================================================
