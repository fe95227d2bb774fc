-------------------------- MODULE ProfileRegistry --------------------------
(***************************************************************************)
(* The commands that change what a machine knows of its routers:           *)
(* routers.json, one secret per profile, and the lock `router add` takes   *)
(* (src/cli/router-wizard.ts, src/cli/router.ts, src/profiles/).  Every    *)
(* command is a process; any may die between two system calls.  Only       *)
(* `router add` locks; the others read the registry and write it back.     *)
(*                                                                         *)
(* A registry is the profiles in the order of the file, those that are     *)
(* marked as default and those with a registration.  A secret is named     *)
(* after the process that stored it.  A registry or a secret that cannot   *)
(* be read passes for one that is not there (readProfiles, read): faults   *)
(* counts how often.                                                       *)
(***************************************************************************)
EXTENDS Naturals, Sequences, SequencesExt, FiniteSets

CONSTANTS Processes, Ids, Initially, Gone, Null, MaxFaults, MaxTries

ASSUME RegistryAssumption ==
  /\ Null \notin Processes \cup Ids /\ Gone \notin Processes \cup {Null}
  /\ MaxFaults \in Nat /\ MaxTries \in Nat \ {0}
  /\ Initially \in Seq(Ids)
  /\ \A i, j \in 1 .. Len(Initially) : Initially[i] = Initially[j] => i = j

VARIABLES
  registry, \* routers.json
  secret,   \* what is stored for each profile
  backend,  \* "file" or "keychain"
  lock,     \* whose .router-add.lock there is; Gone has died before
  stolen,   \* history: the lock of a living process was unlinked by another
  faults,   \* history: reads that failed, and were taken for absence
  call      \* what each process does; blind: its look at the secret failed

fileVars == <<registry, secret, backend, faults>>
lockVars == <<lock, stolen>>
vars == <<fileVars, lockVars, call>>

NoRegistry == [profiles |-> <<>>, default |-> {}, registered |-> {}]
Listed(r) == ToSet(r.profiles)

Ops == {"add", "remove", "default", "register", "rotate"}
Idle == [op |-> "none", id |-> Null, pc |-> "idle", tries |-> 0, first |-> FALSE, blind |-> FALSE,
         draft |-> NoRegistry, told |-> "none"]

Init ==
  /\ registry = [profiles |-> Initially,
                 default |-> IF Initially = <<>> THEN {} ELSE {Head(Initially)},
                 registered |-> {}]
  /\ secret = [i \in Ids |-> IF i \in ToSet(Initially) THEN Gone ELSE Null]
  /\ backend \in {"file", "keychain"}
  /\ lock \in {Null, Gone}
  /\ stolen = FALSE /\ faults = 0
  /\ call = [p \in Processes |-> Idle]

Ended == {"ended", "dead"}
Running(p) == p \in Processes /\ call[p].pc \notin Ended \cup {"idle"} \* processExists

At(p, place) == call[p].pc = place
GoTo(p, place) == call' = [call EXCEPT ![p].pc = place]
Tell(p, what, place) == call' = [call EXCEPT ![p].pc = place, ![p].told = what]

\* What a read of the registry, or of a secret, may return.
Readable(value, absent) ==
  {<<value, faults>>} \cup (IF faults < MaxFaults THEN {<<absent, faults + 1>>} ELSE {})

-----------------------------------------------------------------------------
(***************************************************************************)
(* withPersistenceLock.  The candidate is linked complete, so a lock       *)
(* always names its owner; a lock that has gone when it is read, or whose  *)
(* owner has, is unlinked whoever holds it by then.                        *)
(***************************************************************************)
Begin(p) ==
  /\ At(p, "idle")
  /\ \E op \in Ops, id \in Ids :
       call' = [call EXCEPT ![p] = [Idle EXCEPT
         !.op = op, !.id = id, !.pc = IF op = "add" THEN "linking" ELSE "reading"]]
  /\ UNCHANGED <<fileVars, lockVars>>

LinkOver(p) == \* mutant: renamed instead of linked
  /\ At(p, "linking")
  /\ lock' = p /\ GoTo(p, "checking")
  /\ UNCHANGED <<fileVars, stolen>>

Link(p) ==
  /\ At(p, "linking")
  /\ \/ lock = Null /\ lock' = p /\ GoTo(p, "checking")
     \/ lock # Null /\ GoTo(p, "judging") /\ UNCHANGED lock
  /\ UNCHANGED <<fileVars, stolen>>

JudgeWaiting(p) == \* mutant: the lock of the dead is waited for
  /\ At(p, "judging")
  /\ IF Running(lock) THEN Tell(p, "busy", "ended") ELSE GoTo(p, "linking")
  /\ UNCHANGED <<fileVars, lockVars>>

Judge(p) ==
  /\ At(p, "judging")
  /\ IF Running(lock) THEN Tell(p, "busy", "ended") ELSE GoTo(p, "unlinking")
  /\ UNCHANGED <<fileVars, lockVars>>

Unlink(p) ==
  /\ lock' = Null
  /\ stolen' = (stolen \/ (lock # p /\ Running(lock)))

Recover(p) ==
  /\ At(p, "unlinking")
  /\ Unlink(p)
  /\ IF call[p].tries + 1 = MaxTries
     THEN Tell(p, "failed", "ended")
     ELSE call' = [call EXCEPT ![p].tries = @ + 1, ![p].pc = "linking"]
  /\ UNCHANGED fileVars

\* The token is compared first and the lock unlinked afterwards; after a profile has
\* been saved the wizard may go on to register it.
Release(p) ==
  /\ At(p, "releasing")
  /\ GoTo(p, IF lock = p THEN "unlocking" ELSE "released")
  /\ UNCHANGED <<fileVars, lockVars>>

Unlock(p) ==
  /\ At(p, "unlocking")
  /\ Unlink(p)
  /\ GoTo(p, "released")
  /\ UNCHANGED fileVars

Offer(p) ==
  /\ At(p, "released")
  /\ \/ GoTo(p, "ended")
     \/ call[p].told = "saved" /\ GoTo(p, "registering")
  /\ UNCHANGED <<fileVars, lockVars>>

-----------------------------------------------------------------------------
(***************************************************************************)
(* The task under the lock: no profile of that id, no secret of that id,   *)
(* the secret saved and read back, the profile added; what fails after the *)
(* secret was saved takes it back.                                         *)
(***************************************************************************)
Check(p) ==
  /\ At(p, "checking")
  /\ \E r \in Readable(registry, NoRegistry) :
       /\ faults' = r[2]
       /\ IF call[p].id \in Listed(r[1]) THEN Tell(p, "exists", "releasing")
          ELSE call' = [call EXCEPT ![p].pc = "probing", ![p].first = Listed(r[1]) = {}]
  /\ UNCHANGED <<registry, secret, backend, lockVars>>

ProbeBlind(p) == \* mutant: a secret that is there is overwritten
  At(p, "probing") /\ GoTo(p, "saving") /\ UNCHANGED <<fileVars, lockVars>>

Probe(p) ==
  /\ At(p, "probing")
  /\ \E s \in Readable(secret[call[p].id], Null) :
       /\ faults' = s[2]
       /\ IF s[1] # Null THEN Tell(p, "orphan", "releasing")
          ELSE call' = [call EXCEPT ![p].pc = "saving", ![p].blind = s[2] # faults]
  /\ UNCHANGED <<registry, secret, backend, lockVars>>

Store(p) == secret' = [secret EXCEPT ![call[p].id] = p]
Erase(p) == secret' = [secret EXCEPT ![call[p].id] = Null]

Save(p) ==
  /\ At(p, "saving")
  /\ \/ Store(p) /\ GoTo(p, "adding")
     \/ Store(p) /\ GoTo(p, "rollback") \* saved, but it cannot be verified
     \/ GoTo(p, "rollback") /\ UNCHANGED secret
  /\ UNCHANGED <<registry, backend, faults, lockVars>>

\* addProfile: the registry as it is now, with the default decided before.
Added(r, id, first) ==
  [r EXCEPT !.profiles = Append(@, id),
            !.default = IF first THEN {id} ELSE IF Listed(r) = {} THEN {} ELSE @]

Add(p) ==
  /\ At(p, "adding")
  /\ \/ \E r \in Readable(registry, NoRegistry) :
          /\ faults' = r[2]
          /\ IF call[p].id \in Listed(r[1]) THEN GoTo(p, "rollback")
             ELSE call' = [call EXCEPT ![p].pc = "writing",
                                       ![p].draft = Added(r[1], call[p].id, call[p].first)]
     \/ GoTo(p, "rollback") /\ UNCHANGED faults
  /\ UNCHANGED <<registry, secret, backend, lockVars>>

\* A file that cannot be removed is reported; a keychain that refuses is not.
Rollback(p) ==
  /\ At(p, "rollback")
  /\ \/ Erase(p) /\ Tell(p, "failed", "releasing")
     \/ backend = "file" /\ Tell(p, "left", "releasing") /\ UNCHANGED secret
     \/ backend = "keychain" /\ Tell(p, "failed", "releasing") /\ UNCHANGED secret
  /\ UNCHANGED <<registry, backend, faults, lockVars>>

-----------------------------------------------------------------------------
(***************************************************************************)
(* The commands without a lock.  Each reads the registry and looks for its *)
(* profile; remove and rotate change the secret after that.                *)
(***************************************************************************)
Find(p) ==
  /\ At(p, "reading")
  /\ \E r \in Readable(registry, NoRegistry) :
       /\ faults' = r[2]
       /\ IF call[p].id \notin Listed(r[1]) THEN Tell(p, "unknown", "ended")
          ELSE GoTo(p, CASE call[p].op = "remove" -> "erasing"
                         [] call[p].op = "rotate" -> "rotating"
                         [] call[p].op = "register" -> "registering"
                         [] call[p].op = "default" -> "changing")
  /\ UNCHANGED <<registry, secret, backend, lockVars>>

\* removeSecret: the user has confirmed.  A keychain that refuses goes unnoticed.
EraseSecret(p) ==
  /\ At(p, "erasing")
  /\ \/ Erase(p) /\ GoTo(p, "changing")
     \/ backend = "file" /\ Tell(p, "failed", "ended") /\ UNCHANGED secret
     \/ backend = "keychain" /\ GoTo(p, "changing") /\ UNCHANGED secret
  /\ UNCHANGED <<registry, backend, faults, lockVars>>

\* rotate: the old secret must be there, and the new one is saved after the router took it.
Rotate(p) ==
  /\ At(p, "rotating")
  /\ \/ secret[call[p].id] # Null /\ GoTo(p, "replacing")
     \/ Tell(p, "failed", "ended")
  /\ UNCHANGED <<fileVars, lockVars>>

Replace(p) ==
  /\ At(p, "replacing")
  /\ \/ Store(p) /\ Tell(p, "done", "ended")
     \/ Tell(p, "failed", "ended")
        /\ (UNCHANGED secret \/ (backend = "keychain" /\ Store(p)))
  /\ UNCHANGED <<registry, backend, faults, lockVars>>

\* The client was told about the server, or not.
Register(p) ==
  /\ At(p, "registering")
  /\ GoTo(p, "changing") \/ GoTo(p, "ended")
  /\ UNCHANGED <<fileVars, lockVars>>

\* The profiles of another id, in their order.
Without(profiles, id) ==
  LET kept == {i \in 1 .. Len(profiles) : profiles[i] # id}
      place(k) == CHOOSE i \in kept : Cardinality({j \in kept : j <= i}) = k
  IN [k \in 1 .. Cardinality(kept) |-> profiles[place(k)]]

Removed(r, id) ==
  LET rest == Without(r.profiles, id)
      moved == IF id \in r.default /\ rest # <<>> THEN {Head(rest)} ELSE {}
  IN [profiles |-> rest, default |-> (r.default \ {id}) \cup moved,
      registered |-> r.registered \ {id}]

Changed(r, p) ==
  LET id == call[p].id
  IN CASE call[p].op = "remove" -> Removed(r, id)
       [] call[p].op = "default" -> [r EXCEPT !.default = {id}]
       [] OTHER -> [r EXCEPT !.registered = @ \cup {id}]

Finish(p, what) == \* a profile remains saved, whatever became of its registration
  call' = [call EXCEPT ![p].pc = "ended", ![p].told = IF @ = "saved" THEN @ ELSE what]

\* removeProfile, setDefaultProfile, saveRegistration: the file is read, ...
Change(p) ==
  /\ At(p, "changing")
  /\ \E r \in Readable(registry, NoRegistry) :
       /\ faults' = r[2]
       /\ IF call[p].id \notin Listed(r[1]) THEN Finish(p, "failed")
          ELSE call' = [call EXCEPT ![p].pc = "writing", ![p].draft = Changed(r[1], p)]
  /\ UNCHANGED <<registry, secret, backend, lockVars>>

\* ... and what was made of it replaces it (atomicJson), or the write fails.
Write(p) ==
  /\ At(p, "writing")
  /\ LET adding == call[p].op = "add" /\ call[p].told = "none"
     IN \/ /\ registry' = call[p].draft
           /\ IF adding THEN Tell(p, "saved", "releasing")
              ELSE Finish(p, "done")
        \/ /\ IF adding THEN GoTo(p, "rollback")
              ELSE Finish(p, "failed")
           /\ UNCHANGED registry
  /\ UNCHANGED <<secret, backend, faults, lockVars>>

\* A process is killed.
Die(p) == Running(p) /\ GoTo(p, "dead") /\ UNCHANGED <<fileVars, lockVars>>

-----------------------------------------------------------------------------
Command(p) ==
  \/ Begin(p) \/ Link(p) \/ Judge(p) \/ Recover(p) \/ Release(p) \/ Unlock(p) \/ Offer(p)
  \/ Check(p) \/ Probe(p) \/ Save(p) \/ Add(p) \/ Rollback(p)
  \/ Find(p) \/ EraseSecret(p) \/ Rotate(p) \/ Replace(p) \/ Register(p)
  \/ Change(p) \/ Write(p)

Next == \E p \in Processes : Command(p) \/ Die(p)

\* File operations end, and so do the programs that are started and the questions asked.
Fairness == \A p \in Processes : WF_vars(Running(p) /\ Command(p))

Safety == Init /\ [][Next]_vars
Spec == Safety /\ Fairness

-----------------------------------------------------------------------------
(***************************************************************************)
(* Properties.                                                             *)
(***************************************************************************)
Places == {"idle", "linking", "judging", "unlinking", "checking", "probing", "saving",
  "adding", "rollback", "releasing", "unlocking", "released", "reading", "erasing",
  "rotating", "replacing", "registering", "changing", "writing"} \cup Ended

TypeOK ==
  /\ Listed(registry) \subseteq Ids
  /\ secret \in [Ids -> Processes \cup {Gone, Null}]
  /\ backend \in {"file", "keychain"}
  /\ lock \in Processes \cup {Gone, Null}
  /\ stolen \in BOOLEAN /\ faults \in 0 .. MaxFaults
  /\ \A p \in Processes :
       /\ call[p].op \in Ops \cup {"none"} /\ call[p].pc \in Places
       /\ call[p].tries \in 0 .. MaxTries - 1

Consistent(r) ==
  /\ Cardinality(Listed(r)) = Len(r.profiles)
  /\ Cardinality(r.default) <= 1 /\ r.default \cup r.registered \subseteq Listed(r)

Saving(p) == \* p is in the task that the lock is for
  \/ call[p].pc \in {"checking", "probing", "saving", "adding", "rollback"}
  \/ At(p, "writing") /\ call[p].op = "add" /\ call[p].told = "none"

\* Two processes save a profile at once only if the lock of a living process has been taken
\* from it: a death, a full stop or a failed read is not enough.
SavingExcludes ==
  ~stolen => \A p, q \in Processes : Saving(p) /\ Saving(q) => p = q

\* Updates of one process may undo those of another, but the file is always one that some
\* process made of one read: no id twice, no two defaults, no registration without profile.
\* Nor do two wizards save at once, unless one has been robbed of the lock.
RegistryConsistent == TypeOK /\ Consistent(registry) /\ SavingExcludes

Meddled(id) == \E q \in Processes : call[q].id = id /\ call[q].op \in {"remove", "rotate"}

\* router-wizard.ts:376, "was not overwritten": adding costs no id its secret, whatever was
\* misread, but for the look at that secret itself; only the commands that are to change it
\* do, or a wizard that takes back its own.
SecretStays ==
  \A id \in Ids :
       secret[id] # Null /\ secret'[id] # secret[id]
         => \/ stolen \/ Meddled(id)
            \/ \E p \in Processes :
                 /\ call[p].id = id
                 /\ call[p].blind \/ (secret[id] = p /\ At(p, "rollback"))

\* A wizard that says the profile is saved has stored its secret as well; one that
\* says it failed has left none, or says so, unless the keychain kept it silently.
SecretWithProfile ==
  \A p \in Processes : call[p].told = "none" =>
       /\ call'[p].told = "saved" =>
            /\ call[p].id \in Listed(registry')
            /\ secret[call[p].id] = p \/ stolen \/ Meddled(call[p].id)
       /\ call'[p].told = "failed" /\ call[p].op = "add" /\ backend = "file" =>
            secret'[call[p].id] # p

\* No step separates a profile from its secret: the two above.
SecretsKept == [][SecretStays /\ SecretWithProfile]_vars

\* No command waits for another one, living or dead.
EveryCallEnds == \A p \in Processes : ~At(p, "idle") ~> call[p].pc \in Ended
=============================================================================
