---------------------------- MODULE Capabilities ----------------------------
(***************************************************************************)
(* What concurrent readers of the configuration share: the two promises    *)
(* that clientFor caches (router/client.ts), the capability probe behind   *)
(* the second one (router/config-capabilities.ts), and the tools that read *)
(* the configuration by what it found, while somebody else changes and     *)
(* saves the configuration: the status, a structured read, the saved state *)
(* and the comparison of a server, whose calls share a client, or the      *)
(* snapshot command, which has a client to itself.                         *)
(*                                                                         *)
(* Promises are numbered as they are made.  The continuations of a promise *)
(* run one by one in the order in which they were attached.                *)
(***************************************************************************)
EXTENDS Naturals, Sequences, FiniteSets

CONSTANTS
  Calls, Configs, Null,
  Mode,      \* the connection: "lan" or "remote"
  Rest       \* the reads of a snapshot after the configuration

ASSUME CapabilitiesAssumption ==
  Null \notin Configs /\ Mode \in {"lan", "remote"} /\ Rest \in Nat

VARIABLES
  pending,       \* the cached promise of the capabilities, 0 is null
  fetch,         \* the reads of show/version so far, and where each stands
  probedPending, \* the cached promise of the probed capabilities, 0 is null
  probe,         \* the probes so far
  runningStructured, \* what was last measured
  patching,      \* the probes whose result is to be patched once it is there
  call,          \* of each call: where it stands and what it has read
  router         \* the running and the saved configuration

cacheVars == <<pending, fetch, probedPending, probe, runningStructured, patching>>
vars == <<cacheVars, call, router>>

ServerKinds == {"status", "structured", "state", "diff"}

NewCall(kind) ==
  [kind |-> kind, pc |-> "idle", on |-> 0,
   behind |-> FALSE,    \* a patch of the awaited promise was attached before
   knew |-> "unknown",  \* history: what was measured when it asked
   late |-> FALSE,      \* history: it asked for a probe that had ended
   first |-> Null,      \* the running checksum of show/last-change before the reads
   dated |-> FALSE,     \* its date has moved since
   moments |-> {},      \* history: how the two configurations have been since then
   todo |-> {}, running |-> Null, startup |-> Null,
   left |-> 0, data |-> 0, gaps |-> FALSE, claim |-> "none"]

Init ==
  /\ pending = 0 /\ fetch = <<>> /\ probedPending = 0 /\ probe = <<>>
  /\ runningStructured = "unknown" /\ patching = {}
  /\ \/ call \in [Calls -> {NewCall(kind) : kind \in ServerKinds}]
     \/ \E c \in Calls :
          call = [d \in Calls |-> [NewCall("snapshot") EXCEPT !.pc = IF c = d THEN @ ELSE "done"]]
  /\ router \in [running : Configs, startup : Configs]

-----------------------------------------------------------------------------
(***************************************************************************)
(* clientFor                                                               *)
(***************************************************************************)
\* capabilities(): join the cached fetch or start one; Fetching is its promise.
Fetching == IF pending = 0 THEN Len(fetch) + 1 ELSE pending
AskCapabilities ==
  /\ pending' = Fetching
  /\ fetch' = IF pending = 0 THEN Append(fetch, "flying") ELSE fetch

FetchEnds(f) ==
  /\ fetch[f] = "flying"
  /\ \E end \in {"ready", "failed"} : fetch' = [fetch EXCEPT ![f] = end]
  /\ UNCHANGED <<pending, probedPending, probe, runningStructured, patching, call, router>>

\* Its catch handler runs before anybody who waits for it.
FetchClears(f) ==
  /\ fetch[f] = "failed"
  /\ fetch' = [fetch EXCEPT ![f] = "rejected"] /\ pending' = 0
  /\ UNCHANGED <<probedPending, probe, runningStructured, patching, call, router>>

NewProbe(at, f) == [at |-> at, on |-> f, seen |-> <<>>, structured |-> "unknown"]

\* probedCapabilities(): c joins the cached probe or starts one.  The status asks for the
\* capabilities as well, which are there whenever the probe has a result.
Ask(c, asking) ==
  LET p == IF probedPending = 0 THEN Len(probe) + 1 ELSE probedPending
  IN /\ call' = [call EXCEPT ![c] = [asking EXCEPT
          !.pc = "awaiting", !.on = p, !.behind = p \in patching, !.knew = runningStructured,
          !.late = p <= Len(probe) /\ probe[p].at \in {"settled", "rejected"}]]
     /\ probedPending' = p
     /\ IF probedPending = 0 \/ asking.kind = "status"
        THEN AskCapabilities ELSE UNCHANGED <<pending, fetch>>
     /\ probe' = IF probedPending = 0 THEN Append(probe, NewProbe("access", Fetching)) ELSE probe
     /\ UNCHANGED <<runningStructured, patching>>

\* Ordinary access comes first: the classification of a 403 rests on it.
ProbeAccess(p) ==
  /\ probe[p].at = "access" /\ fetch[probe[p].on] \in {"ready", "rejected"}
  /\ LET end == IF fetch[probe[p].on] = "ready" THEN "reading" ELSE "failed"
     IN probe' = [probe EXCEPT ![p].at = end, ![p].on = 0]
  /\ UNCHANGED <<pending, fetch, probedPending, runningStructured, patching, call, router>>

Surfaces == IF Mode = "lan" THEN 3 ELSE 2 \* running, startup, and the file only locally

\* access(): what the reads of the surfaces tell, one after the other; an error of the
\* session ends the probe.
ProbeReads(p) ==
  /\ probe[p].at = "reading" /\ probe[p].seen = <<>>
  /\ \/ \E seen \in [1 .. Surfaces -> {"available", "unavailable", "unknown"}] :
          probe' = [probe EXCEPT ![p].seen = seen]
     \/ probe' = [probe EXCEPT ![p].at = "failed"]
  /\ UNCHANGED <<pending, fetch, probedPending, runningStructured, patching, call, router>>

\* selectStartup: the method, or why there is none.
Startup(seen) ==
  CASE seen[2] = "available" -> "rci-more"
    [] Len(seen) = 3 /\ seen[2] # "available" /\ seen[3] = "available" -> "ci-file"
    [] OTHER -> IF \E i \in 2 .. Len(seen) : seen[i] = "unknown" THEN "unknown" ELSE "unavailable"

RecoverableAsChosen(seen) == \* mutant: only what was chosen counts
  seen[1] = "unknown" \/ Startup(seen) = "unknown"

\* hasRecoverableCapabilityFailure, with retryable: any surface that may answer next time.
Recoverable(seen) == \E i \in DOMAIN seen : seen[i] = "unknown"

ProbeEnds(p) ==
  /\ probe[p].at = "reading" /\ probe[p].seen # <<>>
  /\ probe' = [probe EXCEPT ![p].at = "settled", ![p].structured = runningStructured]
  /\ probedPending' = IF Recoverable(probe[p].seen) THEN 0 ELSE probedPending
  /\ UNCHANGED <<pending, fetch, runningStructured, patching, call, router>>

ProbeClears(p) ==
  /\ probe[p].at = "failed"
  /\ probe' = [probe EXCEPT ![p].at = "rejected"] /\ probedPending' = 0
  /\ UNCHANGED <<pending, fetch, runningStructured, patching, call, router>>

MarkUnpatched(method) == \* mutant: what is cached keeps what it was probed with
  runningStructured' = method /\ UNCHANGED patching

\* markRunningStructured: whatever is cached or under way is patched when it is there.
Mark(method) ==
  /\ runningStructured' = method
  /\ patching' = IF probedPending = 0 THEN patching ELSE patching \cup {probedPending}

Patch(p) ==
  /\ p \in patching /\ probe[p].at \in {"settled", "rejected"}
  /\ patching' = patching \ {p}
  /\ probe' = [probe EXCEPT ![p].structured =
                 IF probe[p].at = "settled" THEN runningStructured ELSE @]
  /\ call' = [c \in Calls |-> [call[c] EXCEPT !.behind = @ /\ call[c].on # p]]
  /\ UNCHANGED <<pending, fetch, probedPending, runningStructured, router>>

-----------------------------------------------------------------------------
(***************************************************************************)
(* The calls.  A read sees the router at one moment.                       *)
(***************************************************************************)
Becomes(c, next) == call' = [call EXCEPT ![c] = next]
GoTo(c, pc) == Becomes(c, [call[c] EXCEPT !.pc = pc])
Awake(c) == [call[c] EXCEPT !.on = 0, !.behind = FALSE, !.knew = "unknown", !.late = FALSE]
Ended(c, pc) == [NewCall(call[c].kind) EXCEPT !.pc = pc, !.gaps = call[c].gaps]

\* A promise that nobody can reach any more is forgotten.
Forget(c) ==
  LET p == call[c].on
      reached == \/ p = probedPending \/ p \in patching
                 \/ \E d \in Calls \ {c} : call[d].pc = "awaiting" /\ call[d].on = p
  IN probe' = IF reached THEN probe ELSE [probe EXCEPT ![p] = NewProbe("gone", 0)]

Begin(c) ==
  /\ call[c].pc = "idle"
  /\ CASE call[c].kind \in {"status", "diff"} -> Ask(c, call[c])
       [] call[c].kind = "state" -> GoTo(c, "before") /\ UNCHANGED cacheVars
       [] call[c].kind = "structured" ->
            /\ \E root \in BOOLEAN, paths \in 1 .. 2 :
                 /\ root => paths = 1
                 /\ Becomes(c, [call[c] EXCEPT !.pc = IF root THEN "rci-root" ELSE "rci-branch",
                                               !.left = paths])
            /\ UNCHANGED cacheVars
       [] call[c].kind = "snapshot" ->
            /\ AskCapabilities
            /\ Becomes(c, [call[c] EXCEPT !.pc = "sentinel", !.on = Fetching])
            /\ UNCHANGED <<probedPending, probe, runningStructured, patching>>
  /\ UNCHANGED router

\* readStructuredRunningConfig: the root, or one or two branches of which one may be missing.
ReadBranch(c) ==
  /\ call[c].pc \in {"rci-root", "rci-branch"}
  /\ \/ \E found \in {0, 1} :
          LET data == call[c].data + found
          IN IF call[c].left = 1 /\ data > 0
             THEN Mark(call[c].pc) /\ Becomes(c, Ended(c, "done"))
             ELSE /\ Becomes(c, IF call[c].left = 1 THEN Ended(c, "failed")
                                ELSE [call[c] EXCEPT !.left = @ - 1, !.data = data])
                  /\ UNCHANGED <<runningStructured, patching>>
     \/ Becomes(c, Ended(c, "failed")) /\ UNCHANGED <<runningStructured, patching>>
  /\ UNCHANGED <<pending, fetch, probedPending, probe, router>>

\* collectRouterSnapshot: the capabilities, then the system; without a session the rest is
\* not even tried.
Sentinel(c) ==
  /\ call[c].pc = "sentinel" /\ fetch[call[c].on] \in {"ready", "rejected"}
  /\ Becomes(c, IF fetch[call[c].on] = "ready" THEN [call[c] EXCEPT !.pc = "system", !.on = 0]
                ELSE Ended(c, "failed"))
  /\ UNCHANGED <<cacheVars, router>>

Gap(c) == [call[c] EXCEPT !.gaps = TRUE]

ReadSystem(c) ==
  /\ call[c].pc = "system"
  /\ \/ GoTo(c, "before")
     \/ Becomes(c, [Gap(c) EXCEPT !.pc = "before"])
     \/ Becomes(c, [Ended(c, "done") EXCEPT !.gaps = TRUE])
  /\ UNCHANGED <<cacheVars, router>>

\* What a snapshot goes on with after the configuration.
Onward(asked) ==
  [NewCall(asked.kind) EXCEPT !.pc = IF Rest > 0 THEN "rest" ELSE "done", !.left = Rest,
                              !.gaps = asked.gaps, !.claim = asked.claim]

\* A comparison is about both, the others only say whether they are the same.
Moment(c, now) ==
  IF call[c].kind = "diff" THEN <<now.running, now.startup>> ELSE now.running = now.startup

\* readLastChange; the saved configuration is read next, by what the probe found.
ReadBefore(c) ==
  /\ call[c].pc = "before"
  /\ \/ Ask(c, [call[c] EXCEPT !.first = router.running, !.moments = {Moment(c, router)}])
     \/ /\ \E dead \in BOOLEAN : \* whether the session failed
             Becomes(c, IF call[c].kind # "snapshot" THEN Ended(c, "failed")
                        ELSE IF dead THEN [Ended(c, "done") EXCEPT !.gaps = TRUE]
                        ELSE Onward(Gap(c)))
        /\ UNCHANGED cacheVars
  /\ UNCHANGED router

MovedByChecksum(c) == \* mutant: the date is not looked at
  call[c].first # router.running

\* lastChangeMoved: every change and every save moves the date, if not the checksum.
Moved(c) == call[c].dated \/ call[c].first # router.running

Compared(a, b) == IF a = Null \/ b = Null THEN "none" ELSE IF a = b THEN "saved" ELSE "unsaved"

\* The saved checksum, or Null: the claim of get_config_state and of a snapshot, of which a
\* configuration without it is a gap.
Conclude(c, saved, dead) ==
  LET told == [call[c] EXCEPT !.claim = Compared(call[c].first, saved)]
      noted == [told EXCEPT !.gaps = @ \/ saved = Null]
  IN Becomes(c, CASE call[c].kind = "state" -> [Ended(c, "done") EXCEPT !.claim = told.claim]
                  [] call[c].kind # "state" /\ dead ->
                       [Ended(c, "done") EXCEPT !.claim = told.claim, !.gaps = TRUE]
                  [] OTHER -> Onward(noted))

\* The awaited probe was rejected.
Refused(c) ==
  /\ call[c].pc = "awaiting" /\ probe[call[c].on].at = "rejected"
  /\ IF call[c].first # Null /\ call[c].kind # "diff"
     THEN \E dead \in BOOLEAN : Conclude(c, Null, dead)
     ELSE Becomes(c, Ended(c, "failed"))
  /\ Forget(c)
  /\ UNCHANGED <<pending, fetch, probedPending, runningStructured, patching, router>>

\* The awaited probe has a result.  get_config_diff asks first and reads then; readCliConfig
\* throws if the access is unknown and returns nothing if there is none.
Answered(c) ==
  /\ call[c].pc = "awaiting" /\ probe[call[c].on].at = "settled"
  /\ call[c].behind => call[c].on \notin patching
  /\ LET seen == probe[call[c].on].seen
         sources == [running |-> seen[1], startup |-> Startup(seen)]
         found == {s \in {"running", "startup"} : sources[s] \notin {"unknown", "unavailable"}}
     IN CASE call[c].kind = "status" -> Becomes(c, Ended(c, "done"))
          [] call[c].kind = "diff" /\ call[c].first = Null ->
               IF "unavailable" \in {sources.running, sources.startup}
               THEN Becomes(c, Ended(c, "done"))
               ELSE Becomes(c, [Awake(c) EXCEPT !.pc = "before"])
          [] call[c].kind = "diff" /\ call[c].first # Null ->
               IF "unknown" \in {sources.running, sources.startup}
               THEN Becomes(c, Ended(c, "failed"))
               ELSE Becomes(c, [Awake(c) EXCEPT !.pc = "reading", !.todo = found])
          [] OTHER ->
               IF "startup" \in found
               THEN Becomes(c, [Awake(c) EXCEPT !.pc = "reading", !.todo = {"startup"}])
               ELSE Conclude(c, Null, FALSE)
  /\ Forget(c)
  /\ UNCHANGED <<pending, fetch, probedPending, runningStructured, patching, router>>

\* The configurations are read, the two of a comparison in either order; the header of a
\* saved one may be missing.
ReadConfig(c, source) ==
  /\ call[c].pc = "reading" /\ source \in call[c].todo
  /\ IF call[c].kind = "diff"
     THEN \/ Becomes(c, [call[c] EXCEPT !.todo = @ \ {source}, ![source] = router[source]])
          \/ Becomes(c, Ended(c, "failed"))
     ELSE \/ Conclude(c, router.startup, FALSE)
          \/ \E dead \in BOOLEAN : Conclude(c, Null, dead)
  /\ UNCHANGED <<cacheVars, router>>

\* get_config_diff reads show/last-change again and compares only if it has not moved.
ReadAfter(c) ==
  /\ call[c].kind = "diff" /\ call[c].pc = "reading" /\ call[c].todo = {}
  /\ \/ Becomes(c, [Ended(c, "done") EXCEPT
          !.claim = IF Moved(c) THEN "none" ELSE Compared(call[c].running, call[c].startup)])
     \/ Becomes(c, Ended(c, "failed"))
  /\ UNCHANGED <<cacheVars, router>>

\* The other sources of a snapshot; the first error of the session ends the reading.
ReadRest(c) ==
  /\ call[c].pc = "rest"
  /\ LET next == IF call[c].left = 1 THEN "done" ELSE "rest"
     IN \/ Becomes(c, [call[c] EXCEPT !.pc = next, !.left = @ - 1])
        \/ Becomes(c, [Gap(c) EXCEPT !.pc = next, !.left = @ - 1])
        \/ Becomes(c, [Gap(c) EXCEPT !.pc = "done", !.left = 0])
  /\ UNCHANGED <<cacheVars, router>>

\* Somebody changes the configuration or saves it.  While nobody reads it, that would make no
\* difference: the first one is arbitrary.
Elsewhere ==
  /\ \E c \in Calls : call[c].first # Null
  /\ \/ \E running \in Configs \ {router.running} : router' = [router EXCEPT !.running = running]
     \/ router' = [router EXCEPT !.startup = router.running]
  /\ call' = [c \in Calls |-> IF call[c].first = Null THEN call[c]
                              ELSE [call[c] EXCEPT !.dated = TRUE,
                                      !.moments = @ \cup {Moment(c, router')}]]
  /\ UNCHANGED cacheVars

-----------------------------------------------------------------------------
Next ==
  \/ \E f \in DOMAIN fetch : FetchEnds(f) \/ FetchClears(f)
  \/ \E p \in DOMAIN probe :
       ProbeAccess(p) \/ ProbeReads(p) \/ ProbeEnds(p) \/ ProbeClears(p) \/ Patch(p)
  \/ \E c \in Calls :
       \/ Begin(c) \/ ReadBranch(c) \/ Sentinel(c) \/ ReadSystem(c) \/ ReadBefore(c)
       \/ Refused(c) \/ Answered(c) \/ ReadAfter(c) \/ ReadRest(c)
       \/ \E source \in {"running", "startup"} : ReadConfig(c, source)
  \/ Elsewhere

Spec == Init /\ [][Next]_vars

-----------------------------------------------------------------------------
(***************************************************************************)
(* Properties.                                                             *)
(***************************************************************************)

\* Concurrent callers share one fetch and one probe, and no probe begins to read before a
\* fetch has succeeded.  What is cached has not failed in any part, so that a failure is
\* tried again, and holds what was last measured or is about to.
CacheIsSound ==
  /\ Cardinality({f \in DOMAIN fetch : fetch[f] = "flying"}) <= 1
  /\ Cardinality({p \in DOMAIN probe : probe[p].at \in {"access", "reading"}}) <= 1
  /\ \A p \in DOMAIN probe :
       probe[p].at \in {"reading", "settled"} => \E f \in DOMAIN fetch : fetch[f] = "ready"
  /\ pending # 0 => fetch[pending] # "rejected"
  /\ probedPending # 0 =>
       LET held == probe[probedPending]
       IN /\ held.at # "rejected"
          /\ held.at = "settled" =>
               /\ "unknown" \notin {held.seen[i] : i \in DOMAIN held.seen}
               /\ held.structured = runningStructured \/ probedPending \in patching

\* Who asks after a structured read succeeded is told so, and who asks after a probe has
\* failed, in whole or in part, is not answered by that probe.
AnswersAreCurrent ==
  [][\A c \in Calls :
       call[c].pc = "awaiting" /\ call'[c].pc # "awaiting" =>
         LET answer == probe[call[c].on]
         IN /\ call[c].knew # "unknown" /\ answer.at = "settled" => answer.structured # "unknown"
            /\ call[c].late => answer.at = "settled"
                               /\ \A i \in DOMAIN answer.seen : answer.seen[i] # "unknown"]_vars

\* "Saved" and "unsaved" are true of some moment of the call, though the two configurations
\* are read at different ones and others change them; a comparison is of two configurations
\* that were there together.  A snapshot without gaps knows which of the two it is.
ClaimsWereTrue ==
  [][\A c \in Calls :
       /\ call[c].claim = "none" /\ call'[c].claim # "none" =>
            IF call[c].kind = "diff"
            THEN LET pair == <<call[c].running, call[c].startup>>
                 IN pair \in call[c].moments /\ (call'[c].claim = "saved" <=> pair[1] = pair[2])
            ELSE (call'[c].claim = "saved") \in call[c].moments
       /\ call[c].kind = "snapshot" /\ call[c].pc # "done" /\ call'[c].pc = "done" =>
            call'[c].gaps \/ call'[c].claim # "none"]_vars
=============================================================================
