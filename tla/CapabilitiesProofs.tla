------------------------- MODULE CapabilitiesProofs -------------------------
(***************************************************************************)
(* Proofs about Capabilities, for any calls, configurations, either        *)
(* connection and any number of sources of a snapshot.  CapInv is          *)
(* inductive: what the cache holds, what whoever waits for it may rely on, *)
(* and what a call knows of the moments since its first read.  The three   *)
(* properties follow from it and from what every step of a call keeps      *)
(* (StepOK).                                                               *)
(***************************************************************************)
EXTENDS Capabilities, FiniteSetTheorems, TLAPS

-----------------------------------------------------------------------------
(***************************************************************************)
(* The two promises.  What is under way is what is cached, so there is one *)
(* of it.                                                                  *)
(***************************************************************************)
Methods == {"unknown", "rci-root", "rci-branch"}
Surface == {"available", "unavailable", "unknown"}
ProbeRecord ==
  [at : {"access", "reading", "settled", "failed", "rejected", "gone"}, on : Nat,
   seen : {<<>>} \cup [1 .. Surfaces -> Surface], structured : Methods]

\* One fetch at a time is under way, and what is cached has not been rejected.
FetchOK ==
  /\ fetch \in Seq({"flying", "ready", "failed", "rejected"})
  /\ pending = 0 \/ pending \in DOMAIN fetch
  /\ \A f \in DOMAIN fetch : fetch[f] \in {"flying", "failed"} => pending = f
  /\ pending # 0 => fetch[pending] # "rejected"

\* One probe at a time is under way, after a fetch.
ProbeOK ==
  /\ probe \in Seq(ProbeRecord)
  /\ probedPending = 0 \/ probedPending \in DOMAIN probe
  /\ \A p \in DOMAIN probe :
       /\ probe[p].at \in {"access", "reading", "failed"} => probedPending = p
       /\ probe[p].at = "access" => probe[p].on \in DOMAIN fetch
       /\ probe[p].at \in {"reading", "settled"} => \E f \in DOMAIN fetch : fetch[f] = "ready"

Whole(p) == \A i \in DOMAIN probe[p].seen : probe[p].seen[i] # "unknown"

\* What is cached is whole and holds what was last measured, or is about to.
HeldOK ==
  /\ runningStructured \in Methods
  /\ probedPending # 0 =>
       /\ probe[probedPending].at \notin {"rejected", "gone"}
       /\ probe[probedPending].at = "settled" =>
            /\ Whole(probedPending)
            /\ probe[probedPending].structured = runningStructured \/ probedPending \in patching

CacheInv == FetchOK /\ ProbeOK /\ HeldOK

\* What the one who waits, r, may rely on: its probe is one of ps, measured is what was last
\* measured and marked are the probes to be patched.
Waits(r, ps, measured, marked) ==
  r.pc = "awaiting" =>
    /\ r.on \in DOMAIN ps /\ ps[r.on].at # "gone"
    /\ r.knew # "unknown" =>
         /\ measured # "unknown"
         /\ ps[r.on].at = "settled" => ps[r.on].structured # "unknown" \/ (r.behind /\ r.on \in marked)
    /\ r.late =>
         ps[r.on].at = "settled" /\ \A i \in DOMAIN ps[r.on].seen : ps[r.on].seen[i] # "unknown"

-----------------------------------------------------------------------------
(***************************************************************************)
(* What the calls know.                                                    *)
(***************************************************************************)
MaybeConfig == Configs \cup {Null}

CallRecord ==
  [kind : ServerKinds \cup {"snapshot"},
   pc : {"idle", "awaiting", "rci-root", "rci-branch", "sentinel", "system", "before", "reading", "rest",
         "done", "failed"},
   on : Nat, behind : BOOLEAN, knew : Methods, late : BOOLEAN, first : MaybeConfig, dated : BOOLEAN,
   moments : SUBSET (BOOLEAN \cup (Configs \X Configs)), todo : SUBSET {"running", "startup"},
   running : MaybeConfig, startup : MaybeConfig, left : Int, data : Int, gaps : BOOLEAN,
   claim : {"none", "saved", "unsaved"}]

\* Of the moments since the first read: whether the two configurations were once the same
\* follows from the saved one, and nothing has changed unless the date has.
MomentsOK(r, now) ==
  /\ r.first = Null => r.running = Null /\ r.startup = Null
  /\ r.first # Null /\ r.kind # "diff" =>
       /\ now.running = now.startup \/ r.first = now.startup => TRUE \in r.moments
       /\ now.running # now.startup \/ r.first # now.startup => FALSE \in r.moments
  /\ r.first # Null /\ r.kind = "diff" /\ ~r.dated =>
       /\ r.first = now.running /\ <<now.running, now.startup>> \in r.moments
       /\ r.running \in {Null, now.running} /\ r.startup \in {Null, now.startup}

\* A snapshot that goes on without a claim has noted the gap.
GapsOK(r) ==
  r.kind = "snapshot" =>
    /\ r.pc \notin {"rci-root", "rci-branch"}
    /\ r.pc = "rest" => r.gaps \/ r.claim # "none"

CallOK(r, now) ==
  /\ r \in CallRecord /\ MomentsOK(r, now) /\ GapsOK(r)
  /\ r.first # Null => r.pc \in {"awaiting", "reading"}
  /\ r.pc = "reading" \/ (r.pc = "awaiting" /\ r.kind \notin {"status", "diff"}) => r.first # Null

CapInv ==
  /\ CacheInv
  /\ router \in [running : Configs, startup : Configs]
  /\ call \in [Calls -> CallRecord]
  /\ \A c \in Calls : CallOK(call[c], router) /\ Waits(call[c], probe, runningStructured, patching)

LEMMA NewCallRecord ==
  ASSUME NEW kind \in ServerKinds \cup {"snapshot"}
  PROVE  /\ NewCall(kind) \in CallRecord
         /\ NewCall(kind).kind = kind /\ NewCall(kind).pc = "idle" /\ NewCall(kind).first = Null
         /\ NewCall(kind).running = Null /\ NewCall(kind).startup = Null /\ NewCall(kind).claim = "none"
         /\ NewCall(kind).on = 0
BY CapabilitiesAssumption DEF NewCall, CallRecord, MaybeConfig, Methods

LEMMA CapInitially == Init => CapInv
<1> SUFFICES ASSUME Init PROVE CapInv
  OBVIOUS
<1>1. CacheInv
  BY DEF Init, CacheInv, FetchOK, ProbeOK, HeldOK, Methods
<1>2. router \in [running : Configs, startup : Configs]
  BY DEF Init
<1>3. ASSUME NEW c \in Calls
      PROVE  CallOK(call[c], router) /\ call[c].pc \in {"idle", "done"}
  <2>1. CASE call \in [Calls -> {NewCall(kind) : kind \in ServerKinds}]
    <3>1. PICK kind \in ServerKinds : call[c] = NewCall(kind)
      BY <2>1
    <3>2. kind \in ServerKinds \cup {"snapshot"}
      OBVIOUS
    <3>3. call[c] \in CallRecord /\ call[c].pc = "idle" /\ call[c].first = Null /\ call[c].running = Null
          /\ call[c].startup = Null
      BY <3>1, <3>2, NewCallRecord
    <3> QED BY <3>3 DEF CallOK, MomentsOK, GapsOK
  <2>2. CASE \E b \in Calls :
               call = [d \in Calls |-> [NewCall("snapshot") EXCEPT !.pc = IF b = d THEN @ ELSE "done"]]
    <3> DEFINE n == NewCall("snapshot")
    <3>1. n \in CallRecord /\ n.first = Null /\ n.running = Null /\ n.startup = Null /\ n.pc = "idle"
      BY NewCallRecord
    <3> HIDE DEF n
    <3>2. PICK b \in Calls : call = [d \in Calls |-> [n EXCEPT !.pc = IF b = d THEN @ ELSE "done"]]
      BY <2>2 DEF n
    <3>3. call[c] = [n EXCEPT !.pc = IF b = c THEN n.pc ELSE "done"]
      BY <3>2
    <3>4. CASE b = c
      <4>1. call[c] = [n EXCEPT !.pc = "idle"]
        BY <3>1, <3>3, <3>4
      <4> QED BY <3>1, <4>1, ZenonT(40) DEF CallOK, MomentsOK, GapsOK, CallRecord
    <3>5. CASE b # c
      <4>1. call[c] = [n EXCEPT !.pc = "done"]
        BY <3>3, <3>5
      <4> QED BY <3>1, <4>1, ZenonT(40) DEF CallOK, MomentsOK, GapsOK, CallRecord
    <3> QED BY <3>4, <3>5
  <2> QED BY <2>1, <2>2 DEF Init
<1>4. call \in [Calls -> CallRecord]
  <2>1. DOMAIN call = Calls /\ call = [c \in DOMAIN call |-> call[c]]
    BY DEF Init
  <2> QED BY <1>3, <2>1 DEF CallOK
<1> QED BY <1>1, <1>2, <1>3, <1>4 DEF CapInv, Waits

-----------------------------------------------------------------------------
(***************************************************************************)
(* The steps of the promises.                                              *)
(***************************************************************************)
ReadyStays ==
  \A f \in DOMAIN fetch : f \in DOMAIN fetch' /\ (fetch[f] = "ready" => fetch'[f] = "ready")

LEMMA ProbesKept ==
  ASSUME ProbeOK, ReadyStays, UNCHANGED <<probe, probedPending>>
  PROVE  ProbeOK'
BY DEF ProbeOK, ReadyStays

LEMMA AskingIsOK ==
  ASSUME FetchOK, AskCapabilities
  PROVE  FetchOK' /\ ReadyStays /\ Fetching \in DOMAIN fetch' /\ Fetching \in Nat
<1>1. CASE pending = 0
  <2>1. fetch' = Append(fetch, "flying") /\ pending' = Len(fetch) + 1 /\ Fetching = Len(fetch) + 1
    BY <1>1 DEF AskCapabilities, Fetching
  <2> QED BY <1>1, <2>1 DEF FetchOK, ReadyStays
<1>2. CASE pending # 0
  <2>1. fetch' = fetch /\ pending' = pending /\ Fetching = pending
    BY <1>2 DEF AskCapabilities, Fetching
  <2> QED BY <1>2, <2>1 DEF FetchOK, ReadyStays
<1> QED BY <1>1, <1>2

LEMMA FetchSteps ==
  ASSUME CacheInv, NEW f \in DOMAIN fetch, FetchEnds(f) \/ FetchClears(f)
  PROVE  CacheInv' /\ UNCHANGED <<probe, runningStructured, patching, call, router>>
<1>1. CASE FetchEnds(f)
  <2>1. PICK end \in {"ready", "failed"} : fetch' = [fetch EXCEPT ![f] = end]
    BY <1>1 DEF FetchEnds
  <2>2. fetch[f] = "flying" /\ UNCHANGED <<pending, probedPending, probe, runningStructured, patching, call, router>>
    BY <1>1 DEF FetchEnds
  <2>3. FetchOK' /\ ReadyStays
    BY <2>1, <2>2 DEF CacheInv, FetchOK, ReadyStays
  <2> QED BY <2>2, <2>3, ProbesKept DEF CacheInv, HeldOK, Whole
<1>2. CASE FetchClears(f)
  <2>1. /\ fetch[f] = "failed" /\ fetch' = [fetch EXCEPT ![f] = "rejected"] /\ pending' = 0
        /\ UNCHANGED <<probedPending, probe, runningStructured, patching, call, router>>
    BY <1>2 DEF FetchClears
  <2>2. FetchOK' /\ ReadyStays
    BY <2>1 DEF CacheInv, FetchOK, ReadyStays
  <2> QED BY <2>1, <2>2, ProbesKept DEF CacheInv, HeldOK, Whole
<1> QED BY <1>1, <1>2

\* A probe goes on: p becomes the record new.
LEMMA ProbeGoesOn ==
  ASSUME CacheInv, NEW p \in DOMAIN probe, NEW new \in ProbeRecord,
         probe' = [probe EXCEPT ![p] = new], UNCHANGED <<pending, fetch, runningStructured, patching>>,
         probedPending' \in {0, probedPending},
         \A q \in DOMAIN probe \ {p} : probe[q].at \in {"access", "reading", "failed"} => probedPending' # 0,
         new.at \in {"access", "reading", "failed"} => probedPending' = p,
         new.at = "access" => new.on \in DOMAIN fetch,
         new.at \in {"reading", "settled"} => \E f \in DOMAIN fetch : fetch[f] = "ready",
         probedPending' = p =>
           /\ new.at \notin {"rejected", "gone"}
           /\ new.at = "settled" =>
                /\ \A i \in DOMAIN new.seen : new.seen[i] # "unknown"
                /\ new.structured = runningStructured \/ p \in patching
  PROVE  CacheInv'
<1>1. DOMAIN probe' = DOMAIN probe /\ probe'[p] = new /\ \A q \in DOMAIN probe \ {p} : probe'[q] = probe[q]
  BY DEF CacheInv, ProbeOK
<1>2. probe' \in Seq(ProbeRecord)
  BY DEF CacheInv, ProbeOK
<1>3. ProbeOK'
  <2>1. probedPending' = 0 \/ probedPending' \in DOMAIN probe'
    BY <1>1 DEF CacheInv, ProbeOK
  <2>2. ASSUME NEW q \in DOMAIN probe'
        PROVE  /\ probe'[q].at \in {"access", "reading", "failed"} => probedPending' = q
               /\ probe'[q].at = "access" => probe'[q].on \in DOMAIN fetch'
               /\ probe'[q].at \in {"reading", "settled"} => \E f \in DOMAIN fetch' : fetch'[f] = "ready"
    <3>1. CASE q = p
      BY <1>1, <3>1
    <3>2. CASE q # p
      BY <1>1, <2>2, <3>2 DEF CacheInv, ProbeOK
    <3> QED BY <3>1, <3>2
  <2> QED BY <1>2, <2>1, <2>2 DEF ProbeOK
<1>4. HeldOK'
  <2>1. CASE probedPending' = p
    BY <1>1, <2>1 DEF CacheInv, HeldOK, Whole
  <2>2. CASE probedPending' # p /\ probedPending' # 0
    <3>1. probedPending' = probedPending /\ probe'[probedPending] = probe[probedPending]
      BY <1>1, <2>2 DEF CacheInv, ProbeOK
    <3> QED BY <2>2, <3>1 DEF CacheInv, HeldOK, Whole
  <2>3. CASE probedPending' = 0
    BY <2>3 DEF CacheInv, HeldOK
  <2> QED BY <2>1, <2>2, <2>3
<1> QED BY <1>3, <1>4 DEF CacheInv, FetchOK

\* A probe goes on without those who wait: whoever does may still rely on it.
LEMMA WaitersStay ==
  ASSUME NEW r \in CallRecord, NEW ps \in Seq(ProbeRecord), NEW p \in DOMAIN ps, NEW new \in ProbeRecord,
         NEW measured, NEW marked, Waits(r, ps, measured, marked),
         ps[p].at # "settled", new.at # "gone",
         new.at = "settled" => new.structured = measured
  PROVE  Waits(r, [ps EXCEPT ![p] = new], measured, marked)
<1> DEFINE w == [ps EXCEPT ![p] = new]
<1>1. DOMAIN w = DOMAIN ps /\ w[p] = new /\ \A q \in DOMAIN ps \ {p} : w[q] = ps[q]
  OBVIOUS
<1> HIDE DEF w
<1>2. CASE r.on = p
  BY <1>1, <1>2 DEF Waits
<1>3. CASE r.on # p
  BY <1>1, <1>3 DEF Waits
<1> QED BY <1>2, <1>3 DEF w

LEMMA ProbeSteps ==
  ASSUME CapInv, NEW p \in DOMAIN probe,
         ProbeAccess(p) \/ ProbeReads(p) \/ ProbeEnds(p) \/ ProbeClears(p)
  PROVE  CapInv' /\ call' = call
<1> DEFINE old == probe[p]
<1>1. /\ old \in ProbeRecord /\ CacheInv /\ probe \in Seq(ProbeRecord)
      /\ old.at \in {"access", "reading", "failed"} => probedPending = p
  BY DEF CapInv, CacheInv, ProbeOK
<1>2. \A q \in DOMAIN probe \ {p} : probe[q].at \in {"access", "reading", "failed"} => probedPending = q
  BY DEF CapInv, CacheInv, ProbeOK
<1> HIDE DEF old
<1>3. ASSUME NEW new \in ProbeRecord, probe' = [probe EXCEPT ![p] = new], CacheInv',
             UNCHANGED <<runningStructured, patching, call, router>>,
             old.at # "settled", new.at # "gone", new.at = "settled" => new.structured = runningStructured
      PROVE  CapInv'
  <2>1. \A c \in Calls : Waits(call[c], probe, runningStructured, patching) /\ call[c] \in CallRecord
    BY DEF CapInv
  <2>2. \A c \in Calls : Waits(call[c], probe', runningStructured, patching)
    BY <1>1, <1>3, <2>1, WaitersStay DEF old
  <2> QED BY <1>3, <2>2 DEF CapInv
<1>4. CASE ProbeAccess(p)
  <2>1. old.at = "access" /\ fetch[old.on] \in {"ready", "rejected"} /\ old.on \in DOMAIN fetch
    BY <1>1, <1>4 DEF ProbeAccess, CapInv, CacheInv, ProbeOK, old
  <2> DEFINE end == IF fetch[old.on] = "ready" THEN "reading" ELSE "failed"
             new == [old EXCEPT !.at = end, !.on = 0]
  <2>2. /\ probe' = [probe EXCEPT ![p].at = end, ![p].on = 0]
        /\ UNCHANGED <<pending, fetch, probedPending, runningStructured, patching, call, router>>
    BY <1>4 DEF ProbeAccess, old
  <2>3. end \in {"reading", "failed"} /\ (end = "reading" => \E f \in DOMAIN fetch : fetch[f] = "ready")
    BY <2>1
  <2> HIDE DEF end
  <2>4. probe' = [probe EXCEPT ![p] = new]
    BY <1>1, <2>2 DEF old
  <2>5. new \in ProbeRecord /\ new.at = end
    BY <1>1, <2>3 DEF ProbeRecord
  <2> HIDE DEF new
  <2>6. /\ probedPending' = p /\ probedPending' \in {0, probedPending} /\ p # 0
        /\ new.at \notin {"access", "settled", "rejected", "gone"}
        /\ UNCHANGED <<pending, fetch, runningStructured, patching>>
    BY <1>1, <2>1, <2>2, <2>3, <2>5
  <2>7. CacheInv'
    BY <1>1, <2>3, <2>4, <2>5, <2>6, ProbeGoesOn
  <2> QED BY <1>3, <2>1, <2>2, <2>3, <2>4, <2>5, <2>7
<1>5. CASE ProbeReads(p)
  <2>1. old.at = "reading" /\ UNCHANGED <<pending, fetch, probedPending, runningStructured, patching, call, router>>
    BY <1>5 DEF ProbeReads, old
  <2>2. \E f \in DOMAIN fetch : fetch[f] = "ready"
    BY <2>1 DEF CapInv, CacheInv, ProbeOK, old
  <2>3. ASSUME NEW seen \in [1 .. Surfaces -> Surface], probe' = [probe EXCEPT ![p].seen = seen]
        PROVE  CapInv'
    <3> DEFINE new == [old EXCEPT !.seen = seen]
    <3>1. probe' = [probe EXCEPT ![p] = new]
      BY <1>1, <2>3 DEF old
    <3>2. new \in ProbeRecord /\ new.at = "reading"
      BY <1>1, <2>1 DEF ProbeRecord
    <3> HIDE DEF new
    <3>3. CacheInv'
      BY <1>1, <1>2, <2>1, <2>2, <3>1, <3>2, ProbeGoesOn
    <3> QED BY <1>3, <2>1, <3>1, <3>2, <3>3
  <2>4. ASSUME probe' = [probe EXCEPT ![p].at = "failed"]
        PROVE  CapInv'
    <3> DEFINE new == [old EXCEPT !.at = "failed"]
    <3>1. probe' = [probe EXCEPT ![p] = new]
      BY <1>1, <2>4 DEF old
    <3>2. new \in ProbeRecord /\ new.at = "failed"
      BY <1>1 DEF ProbeRecord
    <3> HIDE DEF new
    <3>3. CacheInv'
      BY <1>1, <1>2, <2>1, <3>1, <3>2, ProbeGoesOn
    <3> QED BY <1>3, <2>1, <3>1, <3>2, <3>3
  <2> QED BY <1>5, <2>1, <2>3, <2>4 DEF ProbeReads, Surface
<1>6. CASE ProbeEnds(p)
  <2> DEFINE new == [old EXCEPT !.at = "settled", !.structured = runningStructured]
  <2>1. /\ old.at = "reading" /\ UNCHANGED <<pending, fetch, runningStructured, patching, call, router>>
        /\ probe' = [probe EXCEPT ![p].at = "settled", ![p].structured = runningStructured]
        /\ probedPending' = IF Recoverable(old.seen) THEN 0 ELSE probedPending
    BY <1>6 DEF ProbeEnds, old
  <2>2. (\E f \in DOMAIN fetch : fetch[f] = "ready") /\ runningStructured \in Methods
    BY <2>1 DEF CapInv, CacheInv, ProbeOK, HeldOK, old
  <2>3. probe' = [probe EXCEPT ![p] = new]
    BY <1>1, <2>1 DEF old
  <2>4. new \in ProbeRecord /\ new.at = "settled" /\ new.structured = runningStructured /\ new.seen = old.seen
    BY <1>1, <2>2 DEF ProbeRecord
  <2> HIDE DEF new
  <2>5. probedPending' = p => \A i \in DOMAIN new.seen : new.seen[i] # "unknown"
    <3>1. p # 0
      BY <1>1
    <3> QED BY <2>1, <2>4, <3>1 DEF Recoverable
  <2>6. \A q \in DOMAIN probe \ {p} : probe[q].at \notin {"access", "reading", "failed"}
    BY <1>1, <1>2, <2>1
  <2>7. CacheInv'
    BY <1>1, <2>1, <2>2, <2>3, <2>4, <2>5, <2>6, ProbeGoesOn, ZenonT(40)
  <2> QED BY <1>3, <2>1, <2>3, <2>4, <2>7
<1>7. CASE ProbeClears(p)
  <2> DEFINE new == [old EXCEPT !.at = "rejected"]
  <2>1. /\ old.at = "failed" /\ UNCHANGED <<pending, fetch, runningStructured, patching, call, router>>
        /\ probe' = [probe EXCEPT ![p].at = "rejected"] /\ probedPending' = 0
    BY <1>7 DEF ProbeClears, old
  <2>2. probe' = [probe EXCEPT ![p] = new]
    BY <1>1, <2>1 DEF old
  <2>3. new \in ProbeRecord /\ new.at = "rejected" /\ p # 0
    BY <1>1 DEF ProbeRecord
  <2> HIDE DEF new
  <2>4. \A q \in DOMAIN probe \ {p} : probe[q].at \notin {"access", "reading", "failed"}
    BY <1>1, <1>2, <2>1
  <2>5. CacheInv'
    BY <1>1, <2>1, <2>2, <2>3, <2>4, ProbeGoesOn
  <2> QED BY <1>3, <2>1, <2>2, <2>3, <2>5
<1>8. call' = call
  BY DEF ProbeAccess, ProbeReads, ProbeEnds, ProbeClears
<1> QED BY <1>4, <1>5, <1>6, <1>7, <1>8

-----------------------------------------------------------------------------
(***************************************************************************)
(* What a step of a call may do: the properties, of one call.              *)
(***************************************************************************)
Told(r, next, answer) ==
  r.pc = "awaiting" /\ next.pc # "awaiting" =>
    /\ r.knew # "unknown" /\ answer.at = "settled" => answer.structured # "unknown"
    /\ r.late => answer.at = "settled" /\ \A i \in DOMAIN answer.seen : answer.seen[i] # "unknown"

Honest(r, next) ==
  /\ r.claim = "none" /\ next.claim # "none" =>
       IF r.kind = "diff"
       THEN /\ <<r.running, r.startup>> \in r.moments
            /\ next.claim = "saved" <=> r.running = r.startup
       ELSE (next.claim = "saved") \in r.moments
  /\ r.kind = "snapshot" /\ r.pc # "done" /\ next.pc = "done" => next.gaps \/ next.claim # "none"

StepOK ==
  \A c \in Calls : Told(call[c], call'[c], probe[call[c].on]) /\ Honest(call[c], call'[c])

\* A call goes on as next.
LEMMA CallGoesOn ==
  ASSUME CapInv, NEW c \in Calls, NEW next, Becomes(c, next), UNCHANGED router,
         CallOK(next, router), Waits(next, probe', runningStructured', patching'),
         Told(call[c], next, probe[call[c].on]), Honest(call[c], next), CacheInv',
         \A d \in Calls \ {c} : Waits(call[d], probe', runningStructured', patching')
  PROVE  CapInv' /\ StepOK
<1>1. /\ call \in [Calls -> CallRecord] /\ next \in CallRecord /\ call' = [call EXCEPT ![c] = next]
      /\ \A d \in Calls : CallOK(call[d], router)
  BY DEF CapInv, Becomes, CallOK
<1>2. call' \in [Calls -> CallRecord] /\ call'[c] = next /\ \A d \in Calls \ {c} : call'[d] = call[d]
  BY <1>1
<1>3. ASSUME NEW d \in Calls
      PROVE  CallOK(call'[d], router) /\ Waits(call'[d], probe', runningStructured', patching')
  BY <1>1, <1>2
<1>4. ASSUME NEW d \in Calls
      PROVE  Told(call[d], call'[d], probe[call[d].on]) /\ Honest(call[d], call'[d])
  <2>1. CASE d = c
    BY <1>2, <2>1
  <2>2. CASE d # c
    BY <1>2, <2>2 DEF Told, Honest
  <2> QED BY <2>1, <2>2
<1> QED BY <1>2, <1>3, <1>4 DEF CapInv, StepOK

\* One that does not touch what is shared.
LEMMA QuietStep ==
  ASSUME CapInv, NEW c \in Calls, NEW next, Becomes(c, next), UNCHANGED <<cacheVars, router>>,
         CallOK(next, router), Honest(call[c], next), call[c].pc # "awaiting", next.pc # "awaiting"
  PROVE  CapInv' /\ StepOK
<1>1. UNCHANGED <<pending, fetch, probedPending, probe, runningStructured, patching>>
  BY DEF cacheVars
<1>2. CacheInv'
  BY <1>1 DEF CapInv, CacheInv, FetchOK, ProbeOK, HeldOK, Whole
<1>3. Waits(next, probe', runningStructured', patching') /\ Told(call[c], next, probe[call[c].on])
  BY DEF Waits, Told
<1>4. \A d \in Calls \ {c} : Waits(call[d], probe', runningStructured', patching')
  BY <1>1 DEF CapInv
<1> QED BY <1>2, <1>3, <1>4, CallGoesOn

LEMMA AskIsOK ==
  ASSUME CapInv, NEW c \in Calls, NEW asking \in CallRecord, Ask(c, asking), UNCHANGED router,
         MomentsOK(asking, router), asking.kind \notin {"status", "diff"} => asking.first # Null,
         asking.claim = call[c].claim, call[c].pc # "awaiting"
  PROVE  CapInv' /\ StepOK
<1> DEFINE p == IF probedPending = 0 THEN Len(probe) + 1 ELSE probedPending
           behind == p \in patching
           late == p <= Len(probe) /\ probe[p].at \in {"settled", "rejected"}
           next == [asking EXCEPT !.pc = "awaiting", !.on = p, !.behind = behind,
                                  !.knew = runningStructured, !.late = late]
<1>1. /\ Becomes(c, next) /\ probedPending' = p /\ UNCHANGED <<runningStructured, patching>>
      /\ probe' = IF probedPending = 0 THEN Append(probe, NewProbe("access", Fetching)) ELSE probe
      /\ IF probedPending = 0 \/ asking.kind = "status" THEN AskCapabilities ELSE UNCHANGED <<pending, fetch>>
  BY DEF Ask, Becomes
<1>2. /\ p \in Nat /\ probe \in Seq(ProbeRecord) /\ CacheInv /\ runningStructured \in Methods
      /\ probedPending # 0 => p \in DOMAIN probe
  BY DEF CapInv, CacheInv, ProbeOK, HeldOK
<1>3. behind \in BOOLEAN /\ late \in BOOLEAN
  OBVIOUS
<1>4. behind <=> p \in patching
  OBVIOUS
<1>5. late => probedPending # 0 /\ probe[p].at = "settled" /\ \A i \in DOMAIN probe[p].seen : probe[p].seen[i] # "unknown"
  BY <1>2 DEF CacheInv, HeldOK, Whole
<1>6. FetchOK' /\ ReadyStays /\ (probedPending = 0 => Fetching \in DOMAIN fetch' /\ Fetching \in Nat)
  BY <1>1, <1>2, AskingIsOK DEF CacheInv, FetchOK, ReadyStays
<1>7. probedPending = 0 => p = Len(probe) + 1
  OBVIOUS
<1>8. probedPending # 0 => p = probedPending
  OBVIOUS
<1> HIDE DEF p, behind, late
<1>9. /\ next \in CallRecord /\ next.pc = "awaiting" /\ next.on = p /\ next.behind = behind
      /\ next.knew = runningStructured /\ next.late = late /\ next.kind = asking.kind
      /\ next.first = asking.first /\ next.running = asking.running /\ next.startup = asking.startup
      /\ next.dated = asking.dated /\ next.moments = asking.moments /\ next.claim = asking.claim
  BY <1>2, <1>3, ZenonT(40) DEF CallRecord
<1> HIDE DEF next
<1>10. CallOK(next, router)
  BY <1>9 DEF CallOK, MomentsOK, GapsOK
<1>11. Honest(call[c], next) /\ Told(call[c], next, probe[call[c].on])
  BY <1>9 DEF Honest, Told
<1>12. CASE probedPending = 0
  <2> DEFINE new == NewProbe("access", Fetching)
  <2>1. new \in ProbeRecord /\ new.at = "access" /\ new.on = Fetching
    BY <1>6, <1>12 DEF NewProbe, ProbeRecord, Methods
  <2> HIDE DEF new
  <2>2. probe' = Append(probe, new) /\ p = Len(probe) + 1
    BY <1>1, <1>7, <1>12 DEF new
  <2>3. /\ DOMAIN probe' = DOMAIN probe \cup {p} /\ probe'[p] = new /\ probe' \in Seq(ProbeRecord)
        /\ \A q \in DOMAIN probe : q # p /\ probe'[q] = probe[q]
    BY <1>2, <2>1, <2>2
  <2>4. \A q \in DOMAIN probe : probe[q].at \notin {"access", "reading", "failed"}
    BY <1>12, <1>2 DEF CacheInv, ProbeOK
  <2>5. ProbeOK'
    <3>1. ASSUME NEW q \in DOMAIN probe'
          PROVE  /\ probe'[q].at \in {"access", "reading", "failed"} => probedPending' = q
                 /\ probe'[q].at = "access" => probe'[q].on \in DOMAIN fetch'
                 /\ probe'[q].at \in {"reading", "settled"} => \E f \in DOMAIN fetch' : fetch'[f] = "ready"
      <4>1. CASE q = p
        BY <1>1, <1>6, <1>12, <2>1, <2>3, <4>1
      <4>2. CASE q # p
        BY <1>2, <1>6, <2>3, <2>4, <4>2 DEF CacheInv, ProbeOK, ReadyStays
      <4> QED BY <4>1, <4>2
    <3> QED BY <1>1, <2>3, <3>1 DEF ProbeOK
  <2>6. HeldOK'
    BY <1>1, <1>2, <2>1, <2>3 DEF HeldOK
  <2>7. Waits(next, probe', runningStructured', patching')
    BY <1>1, <1>5, <1>9, <1>12, <2>1, <2>3 DEF Waits
  <2>8. \A d \in Calls \ {c} : Waits(call[d], probe', runningStructured', patching')
    <3> SUFFICES ASSUME NEW d \in Calls \ {c}
                 PROVE  Waits(call[d], probe', runningStructured', patching')
      OBVIOUS
    <3>1. Waits(call[d], probe, runningStructured, patching)
      BY DEF CapInv
    <3> QED BY <1>1, <2>3, <3>1 DEF Waits
  <2> QED BY <1>1, <1>6, <1>10, <1>11, <2>5, <2>6, <2>7, <2>8, CallGoesOn DEF CacheInv
<1>13. CASE probedPending # 0
  <2>1. probe' = probe /\ probedPending' = probedPending /\ p = probedPending /\ p \in DOMAIN probe
    BY <1>1, <1>2, <1>8, <1>13
  <2>2. ProbeOK'
    BY <1>2, <1>6, <2>1, ProbesKept DEF CacheInv
  <2>3. HeldOK'
    BY <1>1, <1>2, <2>1 DEF CacheInv, HeldOK, Whole
  <2>4. Waits(next, probe', runningStructured', patching')
    BY <1>1, <1>2, <1>4, <1>5, <1>9, <1>13, <2>1 DEF Waits, CacheInv, HeldOK
  <2>5. \A d \in Calls \ {c} : Waits(call[d], probe', runningStructured', patching')
    BY <1>1, <2>1 DEF CapInv
  <2> QED BY <1>1, <1>6, <1>10, <1>11, <2>2, <2>3, <2>4, <2>5, CallGoesOn DEF CacheInv
<1> QED BY <1>12, <1>13

\* A call that has its answer goes on as next and is the only one to let go of the promise.
LEMMA AnswerIsTaken ==
  ASSUME CapInv, NEW c \in Calls, NEW next, Becomes(c, next), Forget(c), call[c].pc = "awaiting",
         UNCHANGED <<pending, fetch, probedPending, runningStructured, patching, router>>,
         CallOK(next, router), next.pc # "awaiting", Honest(call[c], next),
         Told(call[c], next, probe[call[c].on])
  PROVE  CapInv' /\ StepOK
<1> DEFINE p == call[c].on
           gone == NewProbe("gone", 0)
<1>1. p \in DOMAIN probe /\ CacheInv /\ probe \in Seq(ProbeRecord) /\ p # 0
  BY DEF CapInv, CacheInv, ProbeOK, Waits
<1>2. gone \in ProbeRecord /\ gone.at = "gone"
  BY DEF NewProbe, ProbeRecord, Methods
<1> HIDE DEF gone
<1>3. Waits(next, probe', runningStructured', patching')
  BY DEF Waits
<1>4. CASE probe' = probe
  <2>1. CacheInv'
    BY <1>1, <1>4 DEF CacheInv, FetchOK, ProbeOK, HeldOK, Whole
  <2>2. \A d \in Calls \ {c} : Waits(call[d], probe', runningStructured', patching')
    BY <1>4 DEF CapInv
  <2> QED BY <1>3, <2>1, <2>2, CallGoesOn
<1>5. CASE probe' # probe
  <2>1. /\ probe' = [probe EXCEPT ![p] = gone] /\ p # probedPending
        /\ \A d \in Calls \ {c} : ~(call[d].pc = "awaiting" /\ call[d].on = p)
    BY <1>5 DEF Forget, gone
  <2>2. \A q \in DOMAIN probe \ {p} :
          probe[q].at \in {"access", "reading", "failed"} => probedPending' # 0
    BY <1>1 DEF CacheInv, ProbeOK
  <2>3. CacheInv'
    BY <1>1, <1>2, <2>1, <2>2, ProbeGoesOn
  <2>4. \A q \in DOMAIN probe \ {p} : q \in DOMAIN probe' /\ probe'[q] = probe[q]
    BY <1>1, <2>1
  <2>5. \A d \in Calls \ {c} : Waits(call[d], probe', runningStructured', patching')
    <3> SUFFICES ASSUME NEW d \in Calls \ {c}
                 PROVE  Waits(call[d], probe', runningStructured', patching')
      OBVIOUS
    <3>1. Waits(call[d], probe, runningStructured, patching)
      BY DEF CapInv
    <3>2. call[d].pc = "awaiting" => call[d].on # p
      BY <2>1
    <3> QED BY <2>4, <3>1, <3>2 DEF Waits
  <2> QED BY <1>3, <2>3, <2>5, CallGoesOn
<1> QED BY <1>4, <1>5

-----------------------------------------------------------------------------
(***************************************************************************)
(* What the calls become.                                                  *)
(***************************************************************************)
\* One that has nothing to do with the configurations any more, or not yet.
LEMMA ApartIsOK ==
  ASSUME NEW r \in CallRecord, NEW now, r.first = Null, r.running = Null, r.startup = Null,
         r.pc \notin {"awaiting", "reading"}, r.kind = "snapshot" => r.pc \notin {"rci-root", "rci-branch"},
         r.kind = "snapshot" /\ r.pc = "rest" => r.gaps \/ r.claim # "none"
  PROVE  CallOK(r, now)
BY DEF CallOK, MomentsOK, GapsOK

LEMMA CallIsKnown ==
  ASSUME CapInv, NEW c \in Calls
  PROVE  /\ call[c] \in CallRecord /\ CallOK(call[c], router)
         /\ Waits(call[c], probe, runningStructured, patching)
         /\ router.running \in Configs /\ router.startup \in Configs /\ Null \notin Configs
BY CapabilitiesAssumption DEF CapInv

LEMMA EndedRecord ==
  ASSUME CapInv, NEW c \in Calls, NEW pc \in {"done", "failed"}
  PROVE  LET e == Ended(c, pc)
         IN /\ e \in CallRecord /\ e.kind = call[c].kind /\ e.pc = pc /\ e.gaps = call[c].gaps
            /\ e.first = Null /\ e.running = Null /\ e.startup = Null /\ e.claim = "none"
            /\ CallOK(e, router)
<1> DEFINE n == NewCall(call[c].kind)
           gaps == call[c].gaps
           e == [n EXCEPT !.pc = pc, !.gaps = gaps]
<1>1. call[c].kind \in ServerKinds \cup {"snapshot"} /\ gaps \in BOOLEAN
  BY CallIsKnown DEF CallRecord
<1>2. /\ n \in CallRecord /\ n.kind = call[c].kind /\ n.first = Null /\ n.running = Null /\ n.startup = Null
      /\ n.claim = "none"
  BY <1>1, NewCallRecord
<1>3. Ended(c, pc) = e
  BY DEF Ended
<1> HIDE DEF n, gaps
<1>4. /\ e \in CallRecord /\ e.kind = call[c].kind /\ e.pc = pc /\ e.gaps = gaps /\ e.claim = "none"
      /\ e.first = Null /\ e.running = Null /\ e.startup = Null
  BY <1>1, <1>2, ZenonT(40) DEF CallRecord
<1> HIDE DEF e
<1>5. CallOK(e, router)
  BY <1>4, ApartIsOK
<1> QED BY <1>3, <1>4, <1>5 DEF gaps

LEMMA EndedWithClaim ==
  ASSUME CapInv, NEW c \in Calls, NEW claim \in {"none", "saved", "unsaved"}
  PROVE  /\ LET e == [Ended(c, "done") EXCEPT !.claim = claim]
            IN e.kind = call[c].kind /\ e.pc = "done" /\ e.claim = claim /\ CallOK(e, router)
         /\ LET e == [Ended(c, "done") EXCEPT !.claim = claim, !.gaps = TRUE]
            IN e.kind = call[c].kind /\ e.pc = "done" /\ e.claim = claim /\ e.gaps /\ CallOK(e, router)
         /\ LET e == [Ended(c, "done") EXCEPT !.gaps = TRUE]
            IN e.kind = call[c].kind /\ e.pc = "done" /\ e.claim = "none" /\ e.gaps /\ CallOK(e, router)
<1> DEFINE x == Ended(c, "done")
           e1 == [x EXCEPT !.claim = claim]
           e2 == [x EXCEPT !.claim = claim, !.gaps = TRUE]
           e3 == [x EXCEPT !.gaps = TRUE]
<1>1. /\ x \in CallRecord /\ x.kind = call[c].kind /\ x.pc = "done" /\ x.first = Null /\ x.running = Null
      /\ x.startup = Null /\ x.claim = "none"
  BY EndedRecord
<1> HIDE DEF x
<1>2. /\ e1 \in CallRecord /\ e1.kind = call[c].kind /\ e1.pc = "done" /\ e1.claim = claim
      /\ e1.first = Null /\ e1.running = Null /\ e1.startup = Null
  BY <1>1 DEF CallRecord
<1>3. /\ e2 \in CallRecord /\ e2.kind = call[c].kind /\ e2.pc = "done" /\ e2.claim = claim /\ e2.gaps
      /\ e2.first = Null /\ e2.running = Null /\ e2.startup = Null
  BY <1>1 DEF CallRecord
<1>4. /\ e3 \in CallRecord /\ e3.kind = call[c].kind /\ e3.pc = "done" /\ e3.claim = "none" /\ e3.gaps
      /\ e3.first = Null /\ e3.running = Null /\ e3.startup = Null
  BY <1>1 DEF CallRecord
<1> HIDE DEF e1, e2, e3
<1>5. CallOK(e1, router) /\ CallOK(e2, router) /\ CallOK(e3, router)
  BY <1>2, <1>3, <1>4, ApartIsOK
<1>6. e1.kind = call[c].kind /\ e1.pc = "done" /\ e1.claim = claim /\ CallOK(e1, router)
  BY <1>2, <1>5
<1>7. e2.kind = call[c].kind /\ e2.pc = "done" /\ e2.claim = claim /\ e2.gaps /\ CallOK(e2, router)
  BY <1>3, <1>5
<1>8. e3.kind = call[c].kind /\ e3.pc = "done" /\ e3.claim = "none" /\ e3.gaps /\ CallOK(e3, router)
  BY <1>4, <1>5
<1> QED BY <1>6, <1>7, <1>8 DEF e1, e2, e3, x

\* What a snapshot goes on with is noted as a gap or has its claim.
LEMMA OnwardIsOK ==
  ASSUME NEW r \in CallRecord, r.kind = "snapshot" => r.gaps \/ r.claim # "none", NEW now
  PROVE  LET o == Onward(r)
         IN /\ CallOK(o, now) /\ o.kind = r.kind /\ o.gaps = r.gaps /\ o.claim = r.claim
            /\ o.pc \in {"rest", "done"}
<1> DEFINE n == NewCall(r.kind)
           pc == IF Rest > 0 THEN "rest" ELSE "done"
           gaps == r.gaps
           claim == r.claim
           o == [n EXCEPT !.pc = pc, !.left = Rest, !.gaps = gaps, !.claim = claim]
<1>1. r.kind \in ServerKinds \cup {"snapshot"} /\ gaps \in BOOLEAN /\ claim \in {"none", "saved", "unsaved"}
  BY DEF CallRecord
<1>2. n \in CallRecord /\ n.kind = r.kind /\ n.first = Null /\ n.running = Null /\ n.startup = Null
  BY <1>1, NewCallRecord
<1> HIDE DEF n
<1>3. pc \in {"rest", "done"} /\ Rest \in Nat
  BY CapabilitiesAssumption
<1>4. Onward(r) = o
  BY DEF Onward, n
<1>5. r.kind = "snapshot" => gaps \/ claim # "none"
  OBVIOUS
<1>6. gaps = r.gaps /\ claim = r.claim
  OBVIOUS
<1> HIDE DEF pc, gaps, claim
<1>7. /\ o \in CallRecord /\ o.kind = r.kind /\ o.pc = pc /\ o.gaps = gaps /\ o.claim = claim
      /\ o.first = Null /\ o.running = Null /\ o.startup = Null
  <2>1. o \in CallRecord
    <3> DEFINE m == [n EXCEPT !.pc = pc, !.left = Rest]
    <3>1. Rest \in Int /\ pc \in {"rest", "done"} /\ n \in CallRecord
      BY <1>2, <1>3
    <3>2. m \in CallRecord
      BY <3>1, ZenonT(40) DEF CallRecord
    <3>3. o = [m EXCEPT !.gaps = gaps, !.claim = claim]
      OBVIOUS
    <3> HIDE DEF m, o
    <3> QED BY <1>1, <3>2, <3>3, ZenonT(40) DEF CallRecord
  <2>2. o.kind = n.kind /\ o.first = n.first /\ o.running = n.running /\ o.startup = n.startup
    BY <1>2 DEF CallRecord
  <2>3. o.pc = pc /\ o.gaps = gaps /\ o.claim = claim
    BY <1>2 DEF CallRecord
  <2> QED BY <1>2, <2>1, <2>2, <2>3
<1> HIDE DEF o
<1>8. CallOK(o, now)
  BY <1>3, <1>5, <1>7, ApartIsOK
<1>9. CallOK(o, now) /\ o.kind = r.kind /\ o.gaps = r.gaps /\ o.claim = r.claim /\ o.pc \in {"rest", "done"}
  BY <1>3, <1>6, <1>7, <1>8
<1> QED BY <1>4, <1>9

LEMMA ClaimIsTrue ==
  ASSUME CapInv, NEW c \in Calls, call[c].kind # "diff", NEW saved \in {Null, router.startup}
  PROVE  LET claim == Compared(call[c].first, saved)
         IN /\ claim \in {"none", "saved", "unsaved"}
            /\ claim # "none" => (claim = "saved") \in call[c].moments
            /\ claim = "none" => call[c].first = Null \/ saved = Null
<1> DEFINE claim == Compared(call[c].first, saved)
<1>1. MomentsOK(call[c], router)
  BY CallIsKnown DEF CallOK
<1>2. CASE call[c].first = Null \/ saved = Null
  BY <1>2 DEF Compared
<1>3. CASE call[c].first # Null /\ saved # Null /\ call[c].first = saved
  <2>1. claim = "saved" /\ TRUE \in call[c].moments
    BY <1>1, <1>3 DEF Compared, MomentsOK
  <2>2. (claim = "saved") = TRUE
    BY <2>1
  <2> QED BY <2>1, <2>2
<1>4. CASE call[c].first # Null /\ saved # Null /\ call[c].first # saved
  <2>1. claim = "unsaved" /\ FALSE \in call[c].moments
    BY <1>1, <1>4 DEF Compared, MomentsOK
  <2>2. (claim = "saved") = FALSE
    BY <2>1
  <2> QED BY <2>1, <2>2
<1> QED BY <1>2, <1>3, <1>4

LEMMA ConcludeIsOK ==
  ASSUME CapInv, NEW c \in Calls, call[c].kind # "diff", call[c].pc \in {"awaiting", "reading"},
         NEW saved \in {Null, router.startup}, NEW dead \in BOOLEAN, Conclude(c, saved, dead)
  PROVE  \E next : Becomes(c, next) /\ CallOK(next, router) /\ Honest(call[c], next) /\ next.pc # "awaiting"
<1> DEFINE claim == Compared(call[c].first, saved)
           told == [call[c] EXCEPT !.claim = claim]
           gap == call[c].gaps \/ saved = Null
           noted == [told EXCEPT !.gaps = gap]
<1>1. /\ claim \in {"none", "saved", "unsaved"} /\ (claim # "none" => (claim = "saved") \in call[c].moments)
      /\ claim = "none" => call[c].first = Null \/ saved = Null
  BY ClaimIsTrue
<1>2. call[c] \in CallRecord /\ (call[c].kind = "snapshot" => call[c].first # Null)
  BY CallIsKnown DEF CallOK
<1>3. gap \in BOOLEAN /\ (saved = Null => gap)
  BY <1>2 DEF CallRecord
<1> HIDE DEF claim, gap
<1>4. told \in CallRecord /\ told.kind = call[c].kind /\ told.claim = claim
  BY <1>1, <1>2 DEF CallRecord
<1> HIDE DEF told
<1>5. noted \in CallRecord /\ noted.kind = call[c].kind /\ noted.claim = claim /\ noted.gaps = gap
  BY <1>3, <1>4 DEF CallRecord
<1>6. noted = [told EXCEPT !.gaps = @ \/ saved = Null]
  BY <1>2, <1>4 DEF gap, told, CallRecord
<1> HIDE DEF noted
<1>7. CASE call[c].kind = "state"
  <2> DEFINE next == [Ended(c, "done") EXCEPT !.claim = claim]
  <2>1. Becomes(c, next)
    BY <1>4, <1>7 DEF Conclude, told, claim
  <2>2. next.kind = call[c].kind /\ next.pc = "done" /\ next.claim = claim /\ CallOK(next, router)
    BY <1>1, EndedWithClaim, ZenonT(40)
  <2> HIDE DEF next
  <2>3. Honest(call[c], next)
    BY <1>1, <1>7, <2>2 DEF Honest
  <2> QED BY <2>1, <2>2, <2>3
<1>8. CASE call[c].kind # "state" /\ dead
  <2> DEFINE next == [Ended(c, "done") EXCEPT !.claim = claim, !.gaps = TRUE]
  <2>1. Becomes(c, next)
    BY <1>4, <1>8 DEF Conclude, told, claim
  <2>2. next.kind = call[c].kind /\ next.pc = "done" /\ next.claim = claim /\ next.gaps /\ CallOK(next, router)
    BY <1>1, EndedWithClaim, ZenonT(40)
  <2> HIDE DEF next
  <2>3. Honest(call[c], next)
    BY <1>1, <2>2 DEF Honest
  <2> QED BY <2>1, <2>2, <2>3
<1>9. CASE call[c].kind # "state" /\ ~dead
  <2>1. Becomes(c, Onward(noted))
    BY <1>6, <1>9 DEF Conclude, told, claim
  <2>2. call[c].kind = "snapshot" => noted.gaps \/ noted.claim # "none"
    BY <1>1, <1>2, <1>3, <1>5
  <2>3. /\ CallOK(Onward(noted), router) /\ Onward(noted).claim = claim /\ Onward(noted).gaps = gap
        /\ Onward(noted).pc \in {"rest", "done"}
    BY <1>5, <2>2, OnwardIsOK
  <2>4. Honest(call[c], Onward(noted))
    BY <1>1, <1>5, <2>2, <2>3 DEF Honest
  <2> QED BY <2>1, <2>3, <2>4
<1> QED BY <1>7, <1>8, <1>9

\* A step within a call that knows nothing of the configurations.
LEMMA OnTheWay ==
  ASSUME CapInv, NEW c \in Calls, NEW next \in CallRecord,
         next.kind = call[c].kind, next.first = Null, next.running = Null, next.startup = Null,
         next.claim = call[c].claim, next.pc \notin {"awaiting", "reading"},
         next.kind = "snapshot" => next.pc \notin {"rci-root", "rci-branch"},
         next.kind = "snapshot" /\ next.pc \in {"rest", "done"} => next.gaps \/ next.claim # "none"
  PROVE  CallOK(next, router) /\ Honest(call[c], next)
<1>1. CallOK(next, router)
  BY ApartIsOK
<1>2. Honest(call[c], next)
  BY DEF Honest
<1> QED BY <1>1, <1>2

-----------------------------------------------------------------------------
(***************************************************************************)
(* The patches, and everybody else.                                        *)
(***************************************************************************)
\* What is patched holds what was last measured, so whoever waits for it may go on.
LEMMA PatchStep ==
  ASSUME CapInv, NEW p \in DOMAIN probe, Patch(p)
  PROVE  CapInv' /\ StepOK
<1> DEFINE old == probe[p]
           structured == IF old.at = "settled" THEN runningStructured ELSE old.structured
           new == [old EXCEPT !.structured = structured]
           after(c) == call[c].behind /\ call[c].on # p
           next(c) == [call[c] EXCEPT !.behind = after(c)]
<1>1. /\ old \in ProbeRecord /\ CacheInv /\ probe \in Seq(ProbeRecord) /\ runningStructured \in Methods
      /\ old.at \in {"settled", "rejected"} /\ p # 0
      /\ old.at = "settled" => \E f \in DOMAIN fetch : fetch[f] = "ready"
  BY DEF CapInv, CacheInv, ProbeOK, HeldOK, Patch
<1>2. /\ patching' = patching \ {p} /\ UNCHANGED <<pending, fetch, probedPending, runningStructured, router>>
      /\ probe' = [probe EXCEPT ![p] = new]
      /\ call' = [c \in Calls |-> [call[c] EXCEPT !.behind = @ /\ call[c].on # p]]
  BY <1>1 DEF Patch
<1>3. structured \in Methods /\ (old.at = "settled" => structured = runningStructured)
  BY <1>1 DEF ProbeRecord
<1> HIDE DEF structured
<1>4. new \in ProbeRecord /\ new.at = old.at /\ new.structured = structured /\ new.seen = old.seen /\ new.on = old.on
  BY <1>1, <1>3 DEF ProbeRecord
<1>5. \A c \in Calls : after(c) \in BOOLEAN /\ (after(c) => call[c].behind /\ call[c].on # p)
                      /\ (call[c].behind /\ call[c].on # p => after(c))
  OBVIOUS
<1>6. \A c \in Calls : call'[c] = next(c) /\ call[c] \in CallRecord
  BY <1>2 DEF CapInv, CallRecord
<1> HIDE DEF old, new, after
<1>7. ASSUME NEW c \in Calls
      PROVE  /\ call'[c] \in CallRecord /\ call'[c].behind = after(c) /\ call'[c].pc = call[c].pc
             /\ call'[c].on = call[c].on /\ call'[c].knew = call[c].knew /\ call'[c].late = call[c].late
             /\ call'[c].kind = call[c].kind /\ call'[c].first = call[c].first /\ call'[c].claim = call[c].claim
             /\ call'[c].running = call[c].running /\ call'[c].startup = call[c].startup
             /\ call'[c].dated = call[c].dated /\ call'[c].moments = call[c].moments
             /\ call'[c].gaps = call[c].gaps
  <2>1. call[c] \in CallRecord /\ after(c) \in BOOLEAN /\ call'[c] = next(c)
    BY <1>5, <1>6
  <2> QED BY <2>1 DEF CallRecord
<1> HIDE DEF next
<1>8. DOMAIN probe' = DOMAIN probe /\ probe'[p] = new /\ \A q \in DOMAIN probe \ {p} : probe'[q] = probe[q]
  BY <1>1, <1>2
<1>9. CacheInv'
  <2>1. FetchOK'
    BY <1>1, <1>2 DEF CacheInv, FetchOK
  <2>2. ProbeOK'
    <3>1. probe' \in Seq(ProbeRecord)
      BY <1>1, <1>2, <1>4
    <3>2. ASSUME NEW q \in DOMAIN probe'
          PROVE  probe'[q].at = probe[q].at /\ probe'[q].on = probe[q].on
      BY <1>4, <1>8 DEF old
    <3> QED BY <1>1, <1>2, <1>8, <3>1, <3>2 DEF CacheInv, ProbeOK
  <2>3. HeldOK'
    <3>1. CASE probedPending = p
      BY <1>1, <1>2, <1>3, <1>4, <1>8, <3>1 DEF CacheInv, HeldOK, Whole, old
    <3>2. CASE probedPending # p /\ probedPending # 0
      <4>1. probe'[probedPending] = probe[probedPending]
        BY <1>1, <1>8, <3>2 DEF CacheInv, ProbeOK
      <4> QED BY <1>1, <1>2, <3>2, <4>1 DEF CacheInv, HeldOK, Whole
    <3>3. CASE probedPending = 0
      BY <1>1, <1>2, <3>3 DEF CacheInv, HeldOK
    <3> QED BY <3>1, <3>2, <3>3
  <2> QED BY <2>1, <2>2, <2>3 DEF CacheInv
<1>10. ASSUME NEW c \in Calls
       PROVE  Waits(call'[c], probe', runningStructured', patching')
  <2>1. Waits(call[c], probe, runningStructured, patching)
    BY DEF CapInv
  <2>2. /\ call'[c].pc = call[c].pc /\ call'[c].on = call[c].on /\ call'[c].knew = call[c].knew
        /\ call'[c].late = call[c].late
        /\ runningStructured' = runningStructured
        /\ call[c].on # p /\ call[c].behind /\ call[c].on \in patching => call'[c].behind /\ call[c].on \in patching'
    BY <1>2, <1>5, <1>7
  <2>3. CASE call[c].on = p
    <3>1. /\ p \in DOMAIN probe' /\ probe'[p].at = probe[p].at /\ probe'[p].seen = probe[p].seen
          /\ probe'[p].at = "settled" => probe'[p].structured = runningStructured
      BY <1>3, <1>4, <1>8 DEF old
    <3> QED BY <2>1, <2>2, <2>3, <3>1 DEF Waits
  <2>4. CASE call[c].on # p
    BY <1>8, <2>1, <2>2, <2>4 DEF Waits
  <2> QED BY <2>3, <2>4
<1>11. ASSUME NEW c \in Calls
       PROVE  CallOK(call'[c], router) /\ Told(call[c], call'[c], probe[call[c].on]) /\ Honest(call[c], call'[c])
  <2>1. CallOK(call[c], router)
    BY CallIsKnown
  <2> QED BY <1>7, <2>1 DEF CallOK, MomentsOK, GapsOK, Told, Honest
<1>12. call' \in [Calls -> CallRecord]
  <2>1. DOMAIN call' = Calls /\ call' = [c \in DOMAIN call' |-> call'[c]]
    BY <1>2
  <2> QED BY <1>7, <2>1
<1> QED BY <1>2, <1>9, <1>10, <1>11, <1>12 DEF CapInv, StepOK

\* Somebody else: whoever reads the configurations has this moment in his history.
LEMMA ElsewhereStep ==
  ASSUME CapInv, Elsewhere
  PROVE  CapInv' /\ StepOK
<1> DEFINE now == router'
           next(c) == [call[c] EXCEPT !.dated = TRUE, !.moments = @ \cup {Moment(c, now)}]
<1>1. /\ now \in [running : Configs, startup : Configs] /\ UNCHANGED cacheVars
      /\ now.running = router.running \/ now.startup = router.startup
      /\ now.startup \in {router.running, router.startup}
      /\ call' = [c \in Calls |-> IF call[c].first = Null THEN call[c] ELSE next(c)]
  BY DEF Elsewhere, CapInv
<1>2. UNCHANGED <<pending, fetch, probedPending, probe, runningStructured, patching>>
  BY <1>1 DEF cacheVars
<1> HIDE DEF now
<1>3. ASSUME NEW c \in Calls
      PROVE  Moment(c, now) \in BOOLEAN \cup (Configs \X Configs)
  BY <1>1 DEF Moment
<1>4. ASSUME NEW c \in Calls, call[c].first # Null
      PROVE  /\ call'[c] \in CallRecord /\ call'[c].dated /\ call'[c].moments = call[c].moments \cup {Moment(c, now)}
             /\ call'[c].pc = call[c].pc /\ call'[c].behind = call[c].behind
             /\ call'[c].on = call[c].on /\ call'[c].knew = call[c].knew /\ call'[c].late = call[c].late
             /\ call'[c].kind = call[c].kind /\ call'[c].first = call[c].first /\ call'[c].claim = call[c].claim
             /\ call'[c].gaps = call[c].gaps
  <2> DEFINE moments == call[c].moments \cup {Moment(c, now)}
  <2>1. call[c] \in CallRecord
    BY CallIsKnown
  <2>2. moments \in SUBSET (BOOLEAN \cup (Configs \X Configs))
    BY <1>3, <2>1 DEF CallRecord
  <2>3. call'[c] = [call[c] EXCEPT !.dated = TRUE, !.moments = moments]
    BY <1>1, <1>4, <2>1 DEF CallRecord
  <2> HIDE DEF moments
  <2>4. /\ call'[c] \in CallRecord /\ call'[c].dated /\ call'[c].moments = moments
        /\ call'[c].pc = call[c].pc /\ call'[c].behind = call[c].behind
        /\ call'[c].on = call[c].on /\ call'[c].knew = call[c].knew /\ call'[c].late = call[c].late
        /\ call'[c].kind = call[c].kind /\ call'[c].first = call[c].first /\ call'[c].claim = call[c].claim
        /\ call'[c].gaps = call[c].gaps
    BY <2>1, <2>2, <2>3, ZenonT(40) DEF CallRecord
  <2> QED BY <2>4 DEF moments
<1>5. ASSUME NEW c \in Calls, call[c].first # Null
      PROVE  CallOK(call'[c], now)
  <2>1. CallOK(call[c], router)
    BY CallIsKnown
  <2>2. ASSUME call[c].kind # "diff"
        PROVE  /\ now.running = now.startup \/ call[c].first = now.startup => TRUE \in call'[c].moments
               /\ now.running # now.startup \/ call[c].first # now.startup => FALSE \in call'[c].moments
    <3>1. /\ router.running = router.startup \/ call[c].first = router.startup => TRUE \in call[c].moments
          /\ router.running # router.startup \/ call[c].first # router.startup => FALSE \in call[c].moments
      BY <1>5, <2>1, <2>2 DEF CallOK, MomentsOK
    <3>2. call'[c].moments = call[c].moments \cup {Moment(c, now)}
      BY <1>4, <1>5
    <3>3. CASE now.running = now.startup
      <4>1. Moment(c, now) = TRUE
        BY <2>2, <3>3 DEF Moment
      <4>2. call[c].first # now.startup => FALSE \in call[c].moments
        BY <1>1, <3>1
      <4> QED BY <3>2, <3>3, <4>1, <4>2
    <3>4. CASE now.running # now.startup
      <4>1. Moment(c, now) = FALSE
        BY <2>2, <3>4 DEF Moment
      <4>2. now.startup = router.startup \/ now.startup = router.running
        BY <1>1
      <4>3. call[c].first = now.startup => TRUE \in call[c].moments
        BY <1>1, <3>1, <3>4
      <4> QED BY <3>2, <3>4, <4>1, <4>3
    <3> QED BY <3>3, <3>4
  <2> QED BY <1>4, <1>5, <2>1, <2>2 DEF CallOK, MomentsOK, GapsOK
<1>6. ASSUME NEW c \in Calls
      PROVE  /\ CallOK(call'[c], now) /\ Waits(call'[c], probe, runningStructured, patching)
             /\ Told(call[c], call'[c], probe[call[c].on]) /\ Honest(call[c], call'[c])
  <2>1. Waits(call[c], probe, runningStructured, patching) /\ CallOK(call[c], router)
    BY CallIsKnown
  <2>2. CASE call[c].first = Null
    <3>1. call'[c] = call[c]
      BY <1>1, <2>2
    <3> QED BY <2>1, <2>2, <3>1 DEF CallOK, MomentsOK, Told, Honest
  <2>3. CASE call[c].first # Null
    <3>1. CallOK(call'[c], now)
      BY <1>5, <2>3
    <3>2. Waits(call'[c], probe, runningStructured, patching)
      BY <1>4, <2>1, <2>3 DEF Waits
    <3> QED BY <1>4, <2>3, <3>1, <3>2 DEF Told, Honest
  <2> QED BY <2>2, <2>3
<1>7. call' \in [Calls -> CallRecord]
  <2>1. DOMAIN call' = Calls /\ call' = [c \in DOMAIN call' |-> call'[c]]
    BY <1>1
  <2> QED BY <1>6, <2>1 DEF CallOK
<1>8. CacheInv'
  BY <1>2 DEF CapInv, CacheInv, FetchOK, ProbeOK, HeldOK, Whole
<1> QED BY <1>1, <1>2, <1>6, <1>7, <1>8 DEF CapInv, StepOK, now

-----------------------------------------------------------------------------
(***************************************************************************)
(* The calls.                                                              *)
(***************************************************************************)
LEMMA BeginStep ==
  ASSUME CapInv, NEW c \in Calls, Begin(c)
  PROVE  CapInv' /\ StepOK
<1>1. /\ call[c].pc = "idle" /\ call[c] \in CallRecord /\ CallOK(call[c], router) /\ UNCHANGED router
      /\ call[c].first = Null /\ call[c].running = Null /\ call[c].startup = Null
  <2>1. call[c].pc = "idle" /\ UNCHANGED router
    BY DEF Begin
  <2> QED BY <2>1, CallIsKnown DEF CallOK, MomentsOK
<1>2. CASE call[c].kind \in {"status", "diff"}
  <2>1. Ask(c, call[c])
    BY <1>2 DEF Begin
  <2> QED BY <1>1, <1>2, <2>1, AskIsOK DEF CallOK
<1>3. CASE call[c].kind = "state"
  <2> DEFINE next == [call[c] EXCEPT !.pc = "before"]
  <2>1. Becomes(c, next) /\ UNCHANGED cacheVars
    BY <1>3 DEF Begin, GoTo
  <2>2. /\ next \in CallRecord /\ next.pc = "before" /\ next.kind = call[c].kind /\ next.claim = call[c].claim
        /\ next.first = Null /\ next.running = Null /\ next.startup = Null
    BY <1>1 DEF CallRecord
  <2> HIDE DEF next
  <2>3. CallOK(next, router) /\ Honest(call[c], next)
    BY <2>2, OnTheWay
  <2> QED BY <1>1, <2>1, <2>2, <2>3, QuietStep
<1>4. CASE call[c].kind = "structured"
  <2>1. UNCHANGED cacheVars
    BY <1>4 DEF Begin
  <2>2. PICK pc \in {"rci-root", "rci-branch"}, paths \in 1 .. 2 :
          Becomes(c, [call[c] EXCEPT !.pc = pc, !.left = paths])
    <3>1. PICK root \in BOOLEAN, paths \in 1 .. 2 :
            Becomes(c, [call[c] EXCEPT !.pc = IF root THEN "rci-root" ELSE "rci-branch", !.left = paths])
      BY <1>4 DEF Begin
    <3> QED BY <3>1
  <2> DEFINE next == [call[c] EXCEPT !.pc = pc, !.left = paths]
  <2>3. Becomes(c, next)
    BY <2>2
  <2>4. paths \in Int
    OBVIOUS
  <2>5. /\ next \in CallRecord /\ next.pc = pc /\ next.kind = call[c].kind /\ next.claim = call[c].claim
        /\ next.first = Null /\ next.running = Null /\ next.startup = Null
    BY <1>1, <2>4 DEF CallRecord
  <2> HIDE DEF next
  <2>6. CallOK(next, router) /\ Honest(call[c], next)
    BY <1>4, <2>5, OnTheWay
  <2> QED BY <1>1, <2>1, <2>3, <2>5, <2>6, QuietStep
<1>5. CASE call[c].kind = "snapshot"
  <2> DEFINE on == Fetching
             next == [call[c] EXCEPT !.pc = "sentinel", !.on = on]
  <2>1. AskCapabilities /\ Becomes(c, next) /\ UNCHANGED <<probedPending, probe, runningStructured, patching>>
    BY <1>5 DEF Begin
  <2>2. FetchOK' /\ ReadyStays /\ on \in Nat
    BY <2>1, AskingIsOK DEF CapInv, CacheInv
  <2> HIDE DEF on
  <2>3. /\ next \in CallRecord /\ next.pc = "sentinel" /\ next.kind = call[c].kind /\ next.claim = call[c].claim
        /\ next.first = Null /\ next.running = Null /\ next.startup = Null
    BY <1>1, <2>2 DEF CallRecord
  <2> HIDE DEF next
  <2>4. CallOK(next, router) /\ Honest(call[c], next)
    BY <2>3, OnTheWay
  <2>5. CacheInv'
    <3>1. ProbeOK'
      BY <2>1, <2>2, ProbesKept DEF CapInv, CacheInv
    <3> QED BY <2>1, <2>2, <3>1 DEF CapInv, CacheInv, HeldOK, Whole
  <2>6. Waits(next, probe', runningStructured', patching') /\ Told(call[c], next, probe[call[c].on])
    BY <1>1, <2>3 DEF Waits, Told
  <2>7. \A d \in Calls \ {c} : Waits(call[d], probe', runningStructured', patching')
    BY <2>1 DEF CapInv
  <2> QED BY <1>1, <2>1, <2>4, <2>5, <2>6, <2>7, CallGoesOn
<1>6. call[c].kind \in {"status", "structured", "state", "diff", "snapshot"}
  BY <1>1 DEF CallRecord, ServerKinds
<1> QED BY <1>2, <1>3, <1>4, <1>5, <1>6

\* What has been measured is told to all who may hold an older answer.
LEMMA MarkStep ==
  ASSUME CapInv, NEW c \in Calls, call[c].pc \in {"rci-root", "rci-branch"}, Mark(call[c].pc),
         Becomes(c, Ended(c, "done")), UNCHANGED <<pending, fetch, probedPending, probe, router>>
  PROVE  CapInv' /\ StepOK
<1> DEFINE next == Ended(c, "done")
<1>1. /\ runningStructured' \in Methods \ {"unknown"}
      /\ patching' = IF probedPending = 0 THEN patching ELSE patching \cup {probedPending}
  BY DEF Mark, Methods
<1>2. next.kind = call[c].kind /\ next.claim = "none" /\ next.pc = "done" /\ CallOK(next, router)
      /\ next.gaps = call[c].gaps
  BY EndedRecord
<1>3. call[c].kind # "snapshot"
  BY CallIsKnown DEF CallOK, GapsOK
<1> HIDE DEF next
<1>4. CacheInv'
  BY <1>1 DEF CapInv, CacheInv, FetchOK, ProbeOK, HeldOK, Whole
<1>5. Honest(call[c], next) /\ Told(call[c], next, probe[call[c].on])
      /\ Waits(next, probe', runningStructured', patching')
  BY <1>2, <1>3 DEF Honest, Told, Waits
<1>6. \A d \in Calls \ {c} : Waits(call[d], probe', runningStructured', patching')
  <2> SUFFICES ASSUME NEW d \in Calls \ {c}
               PROVE  Waits(call[d], probe', runningStructured', patching')
    OBVIOUS
  <2>1. Waits(call[d], probe, runningStructured, patching)
    BY DEF CapInv
  <2> QED BY <1>1, <2>1 DEF Waits
<1> QED BY <1>2, <1>4, <1>5, <1>6, CallGoesOn DEF next

LEMMA EndsQuietly ==
  ASSUME CapInv, NEW c \in Calls, Becomes(c, Ended(c, "failed")), UNCHANGED <<cacheVars, router>>,
         call[c].pc # "awaiting"
  PROVE  CapInv' /\ StepOK
<1> DEFINE next == Ended(c, "failed")
<1>1. next.kind = call[c].kind /\ next.claim = "none" /\ next.pc = "failed" /\ CallOK(next, router)
  BY EndedRecord
<1> HIDE DEF next
<1>2. Honest(call[c], next)
  BY <1>1 DEF Honest
<1> QED BY <1>1, <1>2, QuietStep DEF next

LEMMA ReadBranchStep ==
  ASSUME CapInv, NEW c \in Calls, ReadBranch(c)
  PROVE  CapInv' /\ StepOK
<1>1. /\ call[c].pc \in {"rci-root", "rci-branch"} /\ UNCHANGED <<pending, fetch, probedPending, probe, router>>
      /\ call[c] \in CallRecord /\ CallOK(call[c], router) /\ call[c].first = Null
      /\ call[c].running = Null /\ call[c].startup = Null
  <2>1. call[c].pc \in {"rci-root", "rci-branch"} /\ UNCHANGED <<pending, fetch, probedPending, probe, router>>
    BY DEF ReadBranch
  <2> QED BY <2>1, CallIsKnown DEF CallOK, MomentsOK
<1>2. CASE Mark(call[c].pc) /\ Becomes(c, Ended(c, "done"))
  BY <1>1, <1>2, MarkStep
<1>3. CASE Becomes(c, Ended(c, "failed")) /\ UNCHANGED <<runningStructured, patching>>
  BY <1>1, <1>3, EndsQuietly DEF cacheVars
<1>4. ASSUME NEW found \in {0, 1}, UNCHANGED <<runningStructured, patching>>,
             Becomes(c, [call[c] EXCEPT !.left = @ - 1, !.data = call[c].data + found])
      PROVE  CapInv' /\ StepOK
  <2> DEFINE left == call[c].left - 1
             data == call[c].data + found
             next == [call[c] EXCEPT !.left = left, !.data = data]
  <2>1. left \in Int /\ data \in Int
    BY <1>1 DEF CallRecord
  <2>2. Becomes(c, next)
    BY <1>1, <1>4 DEF CallRecord
  <2> HIDE DEF left, data
  <2>3. /\ next \in CallRecord /\ next.kind = call[c].kind /\ next.pc = call[c].pc /\ next.claim = call[c].claim
        /\ next.first = Null /\ next.running = Null /\ next.startup = Null
    BY <1>1, <2>1 DEF CallRecord
  <2> HIDE DEF next
  <2>4. call[c].kind # "snapshot"
    BY <1>1 DEF CallOK, GapsOK
  <2>5. CallOK(next, router) /\ Honest(call[c], next)
    BY <1>1, <2>3, <2>4, OnTheWay
  <2> QED BY <1>1, <1>4, <2>2, <2>3, <2>5, QuietStep DEF cacheVars
<1> QED BY <1>1, <1>2, <1>3, <1>4 DEF ReadBranch

\* A call that has not asked the router for anything yet, or has put it behind.
LEMMA ApartIsKnown ==
  ASSUME CapInv, NEW c \in Calls, call[c].pc \notin {"awaiting", "reading"}
  PROVE  /\ call[c] \in CallRecord /\ call[c].first = Null /\ call[c].running = Null /\ call[c].startup = Null
         /\ call[c].pc = "rest" /\ call[c].kind = "snapshot" => call[c].gaps \/ call[c].claim # "none"
BY CallIsKnown DEF CallOK, MomentsOK, GapsOK

\* It goes on to pc, perhaps with a gap noted.
LEMMA MovesOn ==
  ASSUME CapInv, NEW c \in Calls, call[c].pc \notin {"awaiting", "reading"},
         NEW pc \in {"system", "before", "rest", "done"}, NEW on \in Nat, NEW left \in Int, NEW gaps \in BOOLEAN,
         call[c].kind = "snapshot" /\ pc \in {"rest", "done"} => gaps \/ call[c].claim # "none",
         NEW next, next = [call[c] EXCEPT !.pc = pc, !.on = on, !.left = left, !.gaps = gaps],
         Becomes(c, next), UNCHANGED <<cacheVars, router>>
  PROVE  CapInv' /\ StepOK
<1>1. call[c] \in CallRecord /\ call[c].first = Null /\ call[c].running = Null /\ call[c].startup = Null
  BY ApartIsKnown
<1>2. next \in CallRecord
  <2> DEFINE m == [call[c] EXCEPT !.pc = pc, !.on = on]
  <2>1. m \in CallRecord
    BY <1>1 DEF CallRecord
  <2>2. next = [m EXCEPT !.left = left, !.gaps = gaps]
    OBVIOUS
  <2> HIDE DEF m
  <2> QED BY <2>1, <2>2, ZenonT(40) DEF CallRecord
<1>3. /\ next.kind = call[c].kind /\ next.pc = pc /\ next.gaps = gaps /\ next.claim = call[c].claim
      /\ next.first = Null /\ next.running = Null /\ next.startup = Null
  BY <1>1 DEF CallRecord
<1>4. CallOK(next, router) /\ Honest(call[c], next)
  BY <1>2, <1>3, OnTheWay
<1> QED BY <1>3, <1>4, QuietStep

LEMMA SentinelStep ==
  ASSUME CapInv, NEW c \in Calls, Sentinel(c)
  PROVE  CapInv' /\ StepOK
<1>1. call[c].pc = "sentinel" /\ UNCHANGED <<cacheVars, router>>
  BY DEF Sentinel
<1>2. CASE Becomes(c, Ended(c, "failed"))
  BY <1>1, <1>2, EndsQuietly
<1>3. CASE Becomes(c, [call[c] EXCEPT !.pc = "system", !.on = 0])
  <2> DEFINE left == call[c].left
             gaps == call[c].gaps
  <2>1. call[c] \in CallRecord
    BY CallIsKnown
  <2>2. left \in Int /\ gaps \in BOOLEAN
    BY <2>1 DEF CallRecord
  <2> DEFINE next == [call[c] EXCEPT !.pc = "system", !.on = 0]
  <2>3. next = [call[c] EXCEPT !.pc = "system", !.on = 0, !.left = left, !.gaps = gaps] /\ Becomes(c, next)
    BY <1>3, <2>1 DEF CallRecord
  <2> HIDE DEF left, gaps, next
  <2> QED BY <1>1, <2>2, <2>3, MovesOn
<1> QED BY <1>2, <1>3 DEF Sentinel

LEMMA ReadSystemStep ==
  ASSUME CapInv, NEW c \in Calls, ReadSystem(c)
  PROVE  CapInv' /\ StepOK
<1> DEFINE on == call[c].on
           left == call[c].left
           gaps == call[c].gaps
<1>1. call[c].pc = "system" /\ UNCHANGED <<cacheVars, router>>
  BY DEF ReadSystem
<1>2. call[c] \in CallRecord
  BY CallIsKnown
<1>3. on \in Nat /\ left \in Int /\ gaps \in BOOLEAN
  BY <1>2 DEF CallRecord
<1> DEFINE quiet == [call[c] EXCEPT !.pc = "before"]
           gap == [Gap(c) EXCEPT !.pc = "before"]
<1>4. quiet = [call[c] EXCEPT !.pc = "before", !.on = on, !.left = left, !.gaps = gaps]
  BY <1>2 DEF CallRecord
<1>5. gap = [call[c] EXCEPT !.pc = "before", !.on = on, !.left = left, !.gaps = TRUE]
  BY <1>2 DEF CallRecord, Gap
<1>6. CASE GoTo(c, "before")
  <2>1. Becomes(c, quiet)
    BY <1>6 DEF GoTo
  <2> HIDE DEF on, left, gaps, quiet
  <2> QED BY <1>1, <1>3, <1>4, <2>1, MovesOn
<1>7. CASE Becomes(c, [Gap(c) EXCEPT !.pc = "before"])
  <2>1. Becomes(c, gap)
    BY <1>7
  <2> HIDE DEF on, left, gap
  <2> QED BY <1>1, <1>3, <1>5, <2>1, MovesOn
<1>8. CASE Becomes(c, [Ended(c, "done") EXCEPT !.gaps = TRUE])
  <2> DEFINE next == [Ended(c, "done") EXCEPT !.gaps = TRUE]
  <2>1. next.kind = call[c].kind /\ next.pc = "done" /\ next.claim = "none" /\ next.gaps /\ CallOK(next, router)
    <3>1. "none" \in {"none", "saved", "unsaved"}
      OBVIOUS
    <3> QED BY <3>1, EndedWithClaim
  <2> HIDE DEF next
  <2>2. Honest(call[c], next)
    BY <2>1 DEF Honest
  <2> QED BY <1>1, <1>8, <2>1, <2>2, QuietStep DEF next
<1> QED BY <1>6, <1>7, <1>8 DEF ReadSystem

LEMMA ReadRestStep ==
  ASSUME CapInv, NEW c \in Calls, ReadRest(c)
  PROVE  CapInv' /\ StepOK
<1> DEFINE pc == IF call[c].left = 1 THEN "done" ELSE "rest"
           on == call[c].on
           left == call[c].left - 1
           gaps == call[c].gaps
<1>1. call[c].pc = "rest" /\ UNCHANGED <<cacheVars, router>> /\ pc \in {"rest", "done"}
  BY DEF ReadRest
<1>2. call[c] \in CallRecord
  BY CallIsKnown
<1>3. on \in Nat /\ left \in Int /\ gaps \in BOOLEAN
  BY <1>2 DEF CallRecord
<1> DEFINE quiet == [call[c] EXCEPT !.pc = pc, !.on = on, !.left = left, !.gaps = gaps]
           gap == [call[c] EXCEPT !.pc = pc, !.on = on, !.left = left, !.gaps = TRUE]
           last == [call[c] EXCEPT !.pc = "done", !.on = on, !.left = 0, !.gaps = TRUE]
<1>4. Becomes(c, quiet) \/ Becomes(c, gap) \/ Becomes(c, last)
  <2>1. [call[c] EXCEPT !.pc = pc, !.on = on, !.left = left, !.gaps = gaps]
          = [call[c] EXCEPT !.pc = pc, !.left = @ - 1]
    BY <1>2 DEF CallRecord
  <2>2. [call[c] EXCEPT !.pc = pc, !.on = on, !.left = left, !.gaps = TRUE]
          = [Gap(c) EXCEPT !.pc = pc, !.left = @ - 1]
    BY <1>2 DEF CallRecord, Gap
  <2>3. [call[c] EXCEPT !.pc = "done", !.on = on, !.left = 0, !.gaps = TRUE]
          = [Gap(c) EXCEPT !.pc = "done", !.left = 0]
    BY <1>2 DEF CallRecord, Gap
  <2>4. \/ Becomes(c, [call[c] EXCEPT !.pc = pc, !.left = @ - 1])
        \/ Becomes(c, [Gap(c) EXCEPT !.pc = pc, !.left = @ - 1])
        \/ Becomes(c, [Gap(c) EXCEPT !.pc = "done", !.left = 0])
    BY DEF ReadRest
  <2> HIDE DEF pc, on, left, gaps
  <2> QED BY <2>1, <2>2, <2>3, <2>4
<1> HIDE DEF pc, on, left
<1>5. call[c].kind = "snapshot" => gaps \/ call[c].claim # "none"
  BY <1>1, ApartIsKnown
<1> HIDE DEF gaps
<1>6. TRUE \in BOOLEAN /\ 0 \in Int
  OBVIOUS
<1>7. CASE Becomes(c, quiet)
  BY <1>1, <1>3, <1>5, <1>7, MovesOn
<1>8. CASE Becomes(c, gap)
  BY <1>1, <1>3, <1>6, <1>8, MovesOn
<1>9. CASE Becomes(c, last)
  BY <1>1, <1>3, <1>6, <1>9, MovesOn
<1> QED BY <1>4, <1>7, <1>8, <1>9

\* One that concludes has nothing more to do with the configurations.
LEMMA EndedHonestly ==
  ASSUME CapInv, NEW c \in Calls, NEW pc \in {"done", "failed"},
         call[c].kind = "snapshot" /\ pc = "done" => call[c].gaps
  PROVE  LET next == Ended(c, pc)
         IN CallOK(next, router) /\ Honest(call[c], next) /\ next.pc # "awaiting"
<1> DEFINE next == Ended(c, pc)
<1>1. next.kind = call[c].kind /\ next.claim = "none" /\ next.pc = pc /\ next.gaps = call[c].gaps /\ CallOK(next, router)
  BY EndedRecord
<1> HIDE DEF next
<1>2. Honest(call[c], next)
  BY <1>1 DEF Honest
<1> QED BY <1>1, <1>2 DEF next

LEMMA ReadBeforeStep ==
  ASSUME CapInv, NEW c \in Calls, ReadBefore(c)
  PROVE  CapInv' /\ StepOK
<1>1. call[c].pc = "before" /\ UNCHANGED router
  BY DEF ReadBefore
<1>2. call[c] \in CallRecord /\ call[c].first = Null /\ call[c].running = Null /\ call[c].startup = Null
  BY <1>1, ApartIsKnown
<1>3. CASE Ask(c, [call[c] EXCEPT !.first = router.running, !.moments = {Moment(c, router)}])
  <2> DEFINE first == router.running
             moments == {Moment(c, router)}
             asking == [call[c] EXCEPT !.first = first, !.moments = moments]
  <2>1. first \in MaybeConfig /\ first # Null /\ moments \in SUBSET (BOOLEAN \cup (Configs \X Configs))
    BY CallIsKnown DEF Moment, MaybeConfig
  <2>2. first = router.running /\ (call[c].kind = "diff" => <<router.running, router.startup>> \in moments)
    BY DEF Moment
  <2>3. call[c].kind # "diff" =>
          /\ router.running = router.startup => TRUE \in moments
          /\ router.running # router.startup => FALSE \in moments
    <3>1. CASE router.running = router.startup /\ call[c].kind # "diff"
      <4>1. Moment(c, router) = TRUE
        BY <3>1 DEF Moment
      <4> QED BY <3>1, <4>1
    <3>2. CASE router.running # router.startup /\ call[c].kind # "diff"
      <4>1. Moment(c, router) = FALSE
        BY <3>2 DEF Moment
      <4> QED BY <3>2, <4>1
    <3> QED BY <3>1, <3>2
  <2>4. Ask(c, asking)
    BY <1>3
  <2> HIDE DEF first, moments
  <2>5. /\ asking \in CallRecord /\ asking.first = first /\ asking.moments = moments /\ asking.kind = call[c].kind
        /\ asking.claim = call[c].claim /\ asking.running = Null /\ asking.startup = Null
    BY <1>2, <2>1 DEF CallRecord
  <2> HIDE DEF asking
  <2>6. MomentsOK(asking, router)
    BY <2>1, <2>2, <2>3, <2>5 DEF MomentsOK
  <2> QED BY <1>1, <2>1, <2>4, <2>5, <2>6, AskIsOK
<1>4. CASE UNCHANGED cacheVars /\ call[c].kind # "snapshot" /\ Becomes(c, Ended(c, "failed"))
  BY <1>1, <1>4, EndsQuietly
<1>5. CASE UNCHANGED cacheVars /\ Becomes(c, [Ended(c, "done") EXCEPT !.gaps = TRUE])
  <2> DEFINE next == [Ended(c, "done") EXCEPT !.gaps = TRUE]
  <2>1. next.kind = call[c].kind /\ next.pc = "done" /\ next.claim = "none" /\ next.gaps /\ CallOK(next, router)
    <3>1. "none" \in {"none", "saved", "unsaved"}
      OBVIOUS
    <3> QED BY <3>1, EndedWithClaim
  <2> HIDE DEF next
  <2>2. Honest(call[c], next)
    BY <2>1 DEF Honest
  <2> QED BY <1>1, <1>5, <2>1, <2>2, QuietStep DEF next
<1>6. CASE UNCHANGED cacheVars /\ Becomes(c, Onward(Gap(c)))
  <2> DEFINE gap == Gap(c)
             next == Onward(gap)
  <2>1. gap \in CallRecord /\ gap.kind = call[c].kind /\ gap.claim = call[c].claim /\ gap.gaps
    BY <1>2 DEF Gap, CallRecord
  <2> HIDE DEF gap
  <2>2. CallOK(next, router) /\ next.kind = gap.kind /\ next.gaps = gap.gaps /\ next.claim = gap.claim
        /\ next.pc \in {"rest", "done"}
    BY <2>1, OnwardIsOK
  <2> HIDE DEF next
  <2>3. Honest(call[c], next)
    BY <2>1, <2>2 DEF Honest
  <2> QED BY <1>1, <1>6, <2>2, <2>3, QuietStep DEF next, gap
<1> QED BY <1>3, <1>4, <1>5, <1>6 DEF ReadBefore

\* What the one who is answered may rely on.
LEMMA AnswerIsCurrent ==
  ASSUME CapInv, NEW c \in Calls, NEW next, call[c].pc = "awaiting",
         probe[call[c].on].at = "settled" => (call[c].behind => call[c].on \notin patching),
         probe[call[c].on].at \in {"settled", "rejected"}
  PROVE  Told(call[c], next, probe[call[c].on])
BY CallIsKnown DEF Told, Waits

LEMMA RefusedStep ==
  ASSUME CapInv, NEW c \in Calls, Refused(c)
  PROVE  CapInv' /\ StepOK
<1>1. /\ call[c].pc = "awaiting" /\ probe[call[c].on].at = "rejected" /\ Forget(c)
      /\ UNCHANGED <<pending, fetch, probedPending, runningStructured, patching, router>>
  BY DEF Refused
<1>2. ASSUME NEW next PROVE Told(call[c], next, probe[call[c].on])
  BY <1>1, AnswerIsCurrent
<1>3. CASE call[c].first # Null /\ call[c].kind # "diff"
  <2>1. PICK dead \in BOOLEAN : Conclude(c, Null, dead)
    BY <1>3 DEF Refused
  <2>2. PICK next : Becomes(c, next) /\ CallOK(next, router) /\ Honest(call[c], next) /\ next.pc # "awaiting"
    BY <1>1, <1>3, <2>1, ConcludeIsOK
  <2> QED BY <1>1, <1>2, <2>2, AnswerIsTaken
<1>4. CASE ~(call[c].first # Null /\ call[c].kind # "diff")
  <2> DEFINE next == Ended(c, "failed")
  <2>1. Becomes(c, next)
    BY <1>4 DEF Refused
  <2>2. CallOK(next, router) /\ Honest(call[c], next) /\ next.pc # "awaiting"
    BY EndedHonestly
  <2> HIDE DEF next
  <2> QED BY <1>1, <1>2, <2>1, <2>2, AnswerIsTaken
<1> QED BY <1>3, <1>4

\* One that goes on to read the configurations has read show/last-change.
LEMMA ReadingIsOK ==
  ASSUME CapInv, NEW c \in Calls, call[c].pc = "awaiting", NEW todo \in SUBSET {"running", "startup"},
         call[c].first # Null,
         NEW next, next = [Awake(c) EXCEPT !.pc = "reading", !.todo = todo]
  PROVE  CallOK(next, router) /\ Honest(call[c], next) /\ next.pc # "awaiting"
<1> DEFINE awake == Awake(c)
<1>1. call[c] \in CallRecord /\ CallOK(call[c], router)
  BY CallIsKnown
<1>2. /\ awake \in CallRecord /\ awake.kind = call[c].kind /\ awake.first = call[c].first
      /\ awake.running = call[c].running /\ awake.startup = call[c].startup /\ awake.claim = call[c].claim
      /\ awake.dated = call[c].dated /\ awake.moments = call[c].moments
  <2> DEFINE m == [call[c] EXCEPT !.on = 0, !.behind = FALSE]
  <2>1. m \in CallRecord
    BY <1>1 DEF CallRecord
  <2>2. awake = [m EXCEPT !.knew = "unknown", !.late = FALSE]
    BY DEF Awake
  <2>3. "unknown" \in Methods
    BY DEF Methods
  <2>4. /\ awake.kind = call[c].kind /\ awake.first = call[c].first
        /\ awake.running = call[c].running /\ awake.startup = call[c].startup /\ awake.claim = call[c].claim
        /\ awake.dated = call[c].dated /\ awake.moments = call[c].moments
    BY <1>1 DEF CallRecord, Awake
  <2> HIDE DEF m, awake
  <2>5. awake \in CallRecord
    BY <2>1, <2>2, <2>3 DEF CallRecord
  <2> QED BY <2>4, <2>5
<1> HIDE DEF awake
<1>3. /\ next \in CallRecord /\ next.kind = awake.kind /\ next.first = awake.first /\ next.pc = "reading"
      /\ next.running = awake.running /\ next.startup = awake.startup /\ next.claim = awake.claim
      /\ next.dated = awake.dated /\ next.moments = awake.moments
  <2>1. next = [awake EXCEPT !.pc = "reading", !.todo = todo]
    BY DEF awake
  <2>2. awake \in CallRecord
    BY <1>2
  <2>3. next \in CallRecord
    BY <2>1, <2>2, ZenonT(40) DEF CallRecord
  <2>4. /\ next.kind = awake.kind /\ next.first = awake.first /\ next.pc = "reading"
        /\ next.running = awake.running /\ next.startup = awake.startup /\ next.claim = awake.claim
        /\ next.dated = awake.dated /\ next.moments = awake.moments
    BY <2>1, <2>2 DEF CallRecord
  <2> QED BY <2>3, <2>4
<1>4. CallOK(next, router)
  BY <1>1, <1>2, <1>3 DEF CallOK, MomentsOK, GapsOK
<1>5. Honest(call[c], next)
  BY <1>2, <1>3 DEF Honest
<1> QED BY <1>3, <1>4, <1>5

LEMMA AnsweredStep ==
  ASSUME CapInv, NEW c \in Calls, Answered(c)
  PROVE  CapInv' /\ StepOK
<1> DEFINE seen == probe[call[c].on].seen
           sources == [running |-> seen[1], startup |-> Startup(seen)]
           found == {s \in {"running", "startup"} : sources[s] \notin {"unknown", "unavailable"}}
<1>1. /\ call[c].pc = "awaiting" /\ probe[call[c].on].at = "settled" /\ Forget(c)
      /\ call[c].behind => call[c].on \notin patching
      /\ UNCHANGED <<pending, fetch, probedPending, runningStructured, patching, router>>
  BY DEF Answered
<1>2. ASSUME NEW next PROVE Told(call[c], next, probe[call[c].on])
  BY <1>1, AnswerIsCurrent
<1>3. call[c] \in CallRecord /\ CallOK(call[c], router)
  BY CallIsKnown
<1>4. found \in SUBSET {"running", "startup"} /\ {"startup"} \in SUBSET {"running", "startup"}
  OBVIOUS
<1>5. CASE call[c].kind # "snapshot" /\ Becomes(c, Ended(c, "done"))
  <2> DEFINE next == Ended(c, "done")
  <2>1. CallOK(next, router) /\ Honest(call[c], next) /\ next.pc # "awaiting"
    BY <1>5, EndedHonestly
  <2>2. Becomes(c, next)
    BY <1>5
  <2> HIDE DEF next
  <2> QED BY <1>1, <1>2, <2>1, <2>2, AnswerIsTaken
<1>6. CASE Becomes(c, Ended(c, "failed"))
  <2> DEFINE next == Ended(c, "failed")
  <2>1. CallOK(next, router) /\ Honest(call[c], next) /\ next.pc # "awaiting"
    BY EndedHonestly
  <2>2. Becomes(c, next)
    BY <1>6
  <2> HIDE DEF next
  <2> QED BY <1>1, <1>2, <2>1, <2>2, AnswerIsTaken
<1>7. ASSUME NEW todo \in SUBSET {"running", "startup"}, call[c].first # Null,
             Becomes(c, [Awake(c) EXCEPT !.pc = "reading", !.todo = todo])
      PROVE  CapInv' /\ StepOK
  <2> DEFINE next == [Awake(c) EXCEPT !.pc = "reading", !.todo = todo]
  <2>1. Becomes(c, next) /\ next = [Awake(c) EXCEPT !.pc = "reading", !.todo = todo]
    BY <1>7
  <2> HIDE DEF next
  <2>2. CallOK(next, router) /\ Honest(call[c], next) /\ next.pc # "awaiting"
    BY <1>1, <1>7, <2>1, ReadingIsOK
  <2> QED BY <1>1, <1>2, <2>1, <2>2, AnswerIsTaken
<1>8. CASE call[c].first = Null /\ Becomes(c, [Awake(c) EXCEPT !.pc = "before"])
  <2> DEFINE next == [Awake(c) EXCEPT !.pc = "before"]
  <2>1. /\ next \in CallRecord /\ next.kind = call[c].kind /\ next.pc = "before" /\ next.claim = call[c].claim
        /\ next.first = Null /\ next.running = call[c].running /\ next.startup = call[c].startup
    <3> DEFINE m == [call[c] EXCEPT !.on = 0, !.behind = FALSE]
    <3>1. m \in CallRecord
      BY <1>3 DEF CallRecord
    <3>2. next = [m EXCEPT !.knew = "unknown", !.late = FALSE, !.pc = "before"]
      BY DEF Awake
    <3>3. "unknown" \in Methods
      BY DEF Methods
    <3>4. /\ next.kind = call[c].kind /\ next.pc = "before" /\ next.claim = call[c].claim
          /\ next.first = Null /\ next.running = call[c].running /\ next.startup = call[c].startup
      BY <1>3, <1>8 DEF CallRecord, Awake
    <3> HIDE DEF m, next
    <3>5. next \in CallRecord
      BY <3>1, <3>2, <3>3 DEF CallRecord
    <3> QED BY <3>4, <3>5
  <2>2. Becomes(c, next)
    BY <1>8
  <2> HIDE DEF next
  <2>3. next.running = Null /\ next.startup = Null
    BY <1>3, <1>8, <2>1 DEF CallOK, MomentsOK
  <2>4. CallOK(next, router) /\ Honest(call[c], next)
    BY <2>1, <2>3, OnTheWay
  <2> QED BY <1>1, <1>2, <2>1, <2>2, <2>4, AnswerIsTaken
<1>9. CASE call[c].kind # "diff" /\ Conclude(c, Null, FALSE)
  <2>1. FALSE \in BOOLEAN /\ Null \in {Null, router.startup}
    OBVIOUS
  <2>2. PICK next : Becomes(c, next) /\ CallOK(next, router) /\ Honest(call[c], next) /\ next.pc # "awaiting"
    BY <1>1, <1>9, <2>1, ConcludeIsOK
  <2> QED BY <1>1, <1>2, <2>2, AnswerIsTaken
<1>10. CASE call[c].kind = "status"
  BY <1>5, <1>10 DEF Answered
<1>11. CASE call[c].kind = "diff" /\ call[c].first = Null
  BY <1>5, <1>8, <1>11 DEF Answered
<1>12. CASE call[c].kind = "diff" /\ call[c].first # Null
  <2>1. Becomes(c, Ended(c, "failed")) \/ Becomes(c, [Awake(c) EXCEPT !.pc = "reading", !.todo = found])
    BY <1>12 DEF Answered
  <2> HIDE DEF found
  <2> QED BY <1>4, <1>6, <1>7, <1>12, <2>1
<1>13. CASE call[c].kind \notin {"status", "diff"}
  <2>1. call[c].first # Null
    BY <1>1, <1>3, <1>13 DEF CallOK
  <2>2. Becomes(c, [Awake(c) EXCEPT !.pc = "reading", !.todo = {"startup"}]) \/ Conclude(c, Null, FALSE)
    BY <1>13 DEF Answered
  <2> QED BY <1>4, <1>7, <1>9, <1>13, <2>1, <2>2
<1> QED BY <1>10, <1>11, <1>12, <1>13

\* A comparison keeps what it reads; what it has read of a router that has not changed, still is so.
LEMMA ReadConfigStep ==
  ASSUME CapInv, NEW c \in Calls, NEW source \in {"running", "startup"}, ReadConfig(c, source)
  PROVE  CapInv' /\ StepOK
<1>1. call[c].pc = "reading" /\ UNCHANGED <<cacheVars, router>>
  BY DEF ReadConfig
<1>2. call[c] \in CallRecord /\ CallOK(call[c], router) /\ call[c].first # Null
  BY <1>1, CallIsKnown DEF CallOK
<1>3. CASE call[c].kind # "diff"
  <2>1. PICK dead \in BOOLEAN, saved \in {Null, router.startup} : Conclude(c, saved, dead)
    BY <1>3 DEF ReadConfig
  <2>2. PICK next : Becomes(c, next) /\ CallOK(next, router) /\ Honest(call[c], next) /\ next.pc # "awaiting"
    BY <1>1, <1>3, <2>1, ConcludeIsOK
  <2> QED BY <1>1, <2>2, QuietStep
<1>4. CASE Becomes(c, Ended(c, "failed"))
  BY <1>1, <1>4, EndsQuietly
<1>5. CASE call[c].kind = "diff" /\ Becomes(c, [call[c] EXCEPT !.todo = @ \ {source}, ![source] = router[source]])
  <2> DEFINE todo == call[c].todo \ {source}
             now == router[source]
             next == [call[c] EXCEPT !.todo = todo, ![source] = now]
  <2>1. todo \in SUBSET {"running", "startup"}
    BY <1>2 DEF CallRecord
  <2>2. now \in MaybeConfig
    BY DEF CapInv, MaybeConfig
  <2>3. Becomes(c, next)
    BY <1>5
  <2>4. (source = "running" => now = router.running) /\ (source = "startup" => now = router.startup)
    OBVIOUS
  <2> HIDE DEF todo, now
  <2>5. /\ next \in CallRecord /\ next.kind = call[c].kind /\ next.pc = "reading" /\ next.claim = call[c].claim
        /\ next.first = call[c].first /\ next.dated = call[c].dated /\ next.moments = call[c].moments
        /\ next.running = (IF source = "running" THEN now ELSE call[c].running)
        /\ next.startup = (IF source = "startup" THEN now ELSE call[c].startup)
    <3>1. CASE source = "running"
      <4>1. next = [call[c] EXCEPT !.todo = todo, !.running = now]
        BY <3>1
      <4> HIDE DEF next
      <4>2. call[c] \in CallRecord
        BY <1>2
      <4>3. next \in CallRecord
        BY <2>1, <2>2, <4>1, <4>2 DEF CallRecord
      <4> QED BY <1>1, <3>1, <4>1, <4>2, <4>3 DEF CallRecord
    <3>2. CASE source = "startup"
      <4>1. next = [call[c] EXCEPT !.todo = todo, !.startup = now]
        BY <3>2
      <4> HIDE DEF next
      <4>2. call[c] \in CallRecord
        BY <1>2
      <4>3. next \in CallRecord
        BY <2>1, <2>2, <4>1, <4>2 DEF CallRecord
      <4> QED BY <1>1, <3>2, <4>1, <4>2, <4>3 DEF CallRecord
    <3> QED BY <3>1, <3>2
  <2> HIDE DEF next
  <2>6. CallOK(next, router)
    BY <1>2, <1>5, <2>4, <2>5 DEF CallOK, MomentsOK, GapsOK
  <2>7. Honest(call[c], next)
    BY <1>5, <2>5 DEF Honest
  <2> QED BY <1>1, <2>3, <2>5, <2>6, <2>7, QuietStep
<1> QED BY <1>3, <1>4, <1>5 DEF ReadConfig

\* Two configurations are compared only if nothing has changed since the first read.
LEMMA ReadAfterStep ==
  ASSUME CapInv, NEW c \in Calls, ReadAfter(c)
  PROVE  CapInv' /\ StepOK
<1>1. call[c].kind = "diff" /\ call[c].pc = "reading" /\ UNCHANGED <<cacheVars, router>>
  BY DEF ReadAfter
<1>2. call[c] \in CallRecord /\ CallOK(call[c], router) /\ call[c].first # Null
  BY <1>1, CallIsKnown DEF CallOK
<1>3. CASE Becomes(c, Ended(c, "failed"))
  BY <1>1, <1>3, EndsQuietly
<1>4. CASE Becomes(c, [Ended(c, "done") EXCEPT
                !.claim = IF Moved(c) THEN "none" ELSE Compared(call[c].running, call[c].startup)])
  <2> DEFINE claim == IF Moved(c) THEN "none" ELSE Compared(call[c].running, call[c].startup)
             next == [Ended(c, "done") EXCEPT !.claim = claim]
  <2>1. claim \in {"none", "saved", "unsaved"}
    BY DEF Compared
  <2>2. claim # "none" =>
          /\ <<call[c].running, call[c].startup>> \in call[c].moments
          /\ claim = "saved" <=> call[c].running = call[c].startup
    BY <1>1, <1>2 DEF Moved, Compared, CallOK, MomentsOK, CallRecord
  <2>3. Becomes(c, next)
    BY <1>4
  <2> HIDE DEF claim
  <2>4. next.kind = call[c].kind /\ next.pc = "done" /\ next.claim = claim /\ CallOK(next, router)
    BY <2>1, EndedWithClaim, ZenonT(40)
  <2> HIDE DEF next
  <2>5. Honest(call[c], next)
    BY <1>1, <2>2, <2>4 DEF Honest
  <2> QED BY <1>1, <2>3, <2>4, <2>5, QuietStep
<1> QED BY <1>3, <1>4 DEF ReadAfter

-----------------------------------------------------------------------------
(***************************************************************************)
(* The theorems.                                                           *)
(***************************************************************************)
LEMMA CapStep ==
  ASSUME CapInv, [Next]_vars
  PROVE  CapInv' /\ StepOK
<1>1. ASSUME NEW f \in DOMAIN fetch, FetchEnds(f) \/ FetchClears(f)
      PROVE  CapInv' /\ StepOK
  <2>1. CacheInv' /\ UNCHANGED <<probe, runningStructured, patching, call, router>>
    BY <1>1, FetchSteps DEF CapInv
  <2> QED BY <2>1 DEF CapInv, StepOK, Told, Honest
<1>2. ASSUME NEW p \in DOMAIN probe, ProbeAccess(p) \/ ProbeReads(p) \/ ProbeEnds(p) \/ ProbeClears(p)
      PROVE  CapInv' /\ StepOK
  <2>1. CapInv' /\ call' = call
    BY <1>2, ProbeSteps
  <2> QED BY <2>1 DEF StepOK, Told, Honest
<1>3. ASSUME NEW p \in DOMAIN probe, Patch(p)
      PROVE  CapInv' /\ StepOK
  BY <1>3, PatchStep
<1>4. ASSUME NEW c \in Calls,
             \/ Begin(c) \/ ReadBranch(c) \/ Sentinel(c) \/ ReadSystem(c) \/ ReadBefore(c)
             \/ Refused(c) \/ Answered(c) \/ ReadAfter(c) \/ ReadRest(c)
             \/ \E source \in {"running", "startup"} : ReadConfig(c, source)
      PROVE  CapInv' /\ StepOK
  BY <1>4, BeginStep, ReadBranchStep, SentinelStep, ReadSystemStep, ReadBeforeStep, RefusedStep, AnsweredStep,
     ReadAfterStep, ReadRestStep, ReadConfigStep
<1>5. CASE UNCHANGED vars
  BY <1>5 DEF vars, cacheVars, CapInv, CacheInv, FetchOK, ProbeOK, HeldOK, Whole, StepOK, Told, Honest
<1> QED BY <1>1, <1>2, <1>3, <1>4, <1>5, ElsewhereStep DEF Next

LEMMA AtMostOne ==
  ASSUME NEW S, \A x \in S : \A y \in S : x = y
  PROVE  Cardinality(S) <= 1
<1>1. CASE S = {}
  BY <1>1, FS_EmptySet
<1>2. CASE S # {}
  <2>1. PICK x \in S : S = {x}
    BY <1>2
  <2> QED BY <2>1, FS_Singleton
<1> QED BY <1>1, <1>2

LEMMA CapInvIsSound == CapInv => CacheIsSound
<1> SUFFICES ASSUME CapInv PROVE CacheIsSound
  OBVIOUS
<1>1. Cardinality({f \in DOMAIN fetch : fetch[f] = "flying"}) <= 1
  <2> DEFINE S == {f \in DOMAIN fetch : fetch[f] = "flying"}
  <2>1. \A x \in S : \A y \in S : x = y
    BY DEF CapInv, CacheInv, FetchOK
  <2> HIDE DEF S
  <2>2. Cardinality(S) <= 1
    BY <2>1, AtMostOne
  <2> QED BY <2>2 DEF S
<1>2. Cardinality({p \in DOMAIN probe : probe[p].at \in {"access", "reading"}}) <= 1
  <2> DEFINE S == {p \in DOMAIN probe : probe[p].at \in {"access", "reading"}}
  <2>1. \A x \in S : \A y \in S : x = y
    BY DEF CapInv, CacheInv, ProbeOK
  <2> HIDE DEF S
  <2>2. Cardinality(S) <= 1
    BY <2>1, AtMostOne
  <2> QED BY <2>2 DEF S
<1> QED BY <1>1, <1>2 DEF CacheIsSound, CapInv, CacheInv, FetchOK, ProbeOK, HeldOK, Whole

\* What the cache, those who wait and the calls are like, always.
THEOREM CapInvariant == Spec => []CapInv
<1>1. CapInv /\ [Next]_vars => CapInv'
  BY CapStep
<1> QED BY <1>1, CapInitially, PTL DEF Spec

\* Callers share one fetch and one probe, and what is cached is whole and current.
THEOREM CacheStaysSound == Spec => []CacheIsSound
BY CapInvariant, CapInvIsSound, PTL

\* Nobody is told less than was measured when he asked, or is answered by a probe that had failed in part.
THEOREM AnswersStayCurrent == Spec => AnswersAreCurrent
<1>1. ASSUME CapInv, [Next]_vars
      PROVE  [\A c \in Calls :
                 call[c].pc = "awaiting" /\ call'[c].pc # "awaiting" =>
                   LET answer == probe[call[c].on]
                   IN /\ call[c].knew # "unknown" /\ answer.at = "settled" => answer.structured # "unknown"
                      /\ call[c].late => answer.at = "settled"
                                         /\ \A i \in DOMAIN answer.seen : answer.seen[i] # "unknown"]_vars
  BY <1>1, CapStep DEF StepOK, Told
<1> QED BY <1>1, CapInvariant, PTL DEF Spec, AnswersAreCurrent

\* What a call says of unsaved changes was so at a moment of it; a snapshot without gaps says it.
THEOREM ClaimsAreTrue == Spec => ClaimsWereTrue
<1>1. ASSUME CapInv, [Next]_vars
      PROVE  [\A c \in Calls :
                 /\ call[c].claim = "none" /\ call'[c].claim # "none" =>
                      IF call[c].kind = "diff"
                      THEN LET pair == <<call[c].running, call[c].startup>>
                           IN pair \in call[c].moments /\ (call'[c].claim = "saved" <=> pair[1] = pair[2])
                      ELSE (call'[c].claim = "saved") \in call[c].moments
                 /\ call[c].kind = "snapshot" /\ call[c].pc # "done" /\ call'[c].pc = "done" =>
                      call'[c].gaps \/ call'[c].claim # "none"]_vars
  BY <1>1, CapStep DEF StepOK, Honest
<1> QED BY <1>1, CapInvariant, PTL DEF Spec, ClaimsWereTrue
=============================================================================
