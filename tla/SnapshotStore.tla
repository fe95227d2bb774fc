---------------------------- MODULE SnapshotStore ----------------------------
(***************************************************************************)
(* The snapshots of one router (router/snapshot-store.ts): processes of    *)
(* `router snapshot` and `router remove` (cli/router.ts) that share a lock *)
(* file, prune, write and remove, and may die between any two steps.       *)
(*                                                                         *)
(* Each process makes one call and exits.  Times are those of a wall clock *)
(* that may be set to anything.  Readers take no lock: whatever is stored  *)
(* at any moment may be listed.                                            *)
(***************************************************************************)
EXTENDS Integers, FiniteSets

CONSTANTS
  Processes,
  Earlier,     \* names of snapshots of earlier days
  Initial,     \* what may be stored at the beginning
  Time,
  Sizes,       \* of snapshots
  MaxCount, MaxAge, MaxTotal, \* SnapshotStoreLimits
  MaxTries,    \* of the lock
  Null

Snapshots == [by : Processes \cup Earlier, at : Time, size : Sizes, whole : BOOLEAN]

\* The sum of the sizes is the number of the bytes.
Bytes(files) == {byte \in files \X (1..MaxTotal) : byte[2] <= byte[1].size}
Total(files) == Cardinality(Bytes(files))

ASSUME StoreAssumption ==
  /\ Time \subseteq Nat /\ Sizes \subseteq 1..MaxTotal
  /\ MaxCount \in Nat \ {0} /\ MaxAge \in Nat /\ MaxTotal \in Nat /\ MaxTries \in Nat \ {0}
  /\ Null \notin [by : Processes, written : BOOLEAN]
  /\ \A files \in Initial :
       /\ files \subseteq {file \in Snapshots : file.by \in Earlier /\ file.whole}
       /\ IsFiniteSet(files)
       /\ Cardinality(files) <= MaxCount /\ Total(files) <= MaxTotal

VARIABLES
  lock,       \* .snapshot.lock: Null, or who created it and whether it says so
  stored,     \* the .json files
  temporary,  \* the .tmp file of each process
  profile,    \* the router is in the registry
  task,       \* what each process does
  pc,         \* where it is
  tries,      \* how often it has tried to take the lock
  seen,       \* whom it has read to own the lock
  told        \* what it reports

vars == <<lock, stored, temporary, profile, task, pc, tries, seen, told>>
callVars == <<task, pc, tries, seen, told>>
filesVars == <<stored, temporary, profile>>

Writing == {"validating", "pruning", "filling", "renaming", "stamping"}
Removing == {"clearing", "finalizing"}
Holding == Writing \cup Removing \cup {"releasing"}
Alive(p) == pc[p] \notin {"idle", "ended"}

Tasks == [op : {"write", "remove"}, at : Time, size : Sizes]

TypeOK ==
  /\ lock \in [by : Processes, written : BOOLEAN] \cup {Null}
  /\ stored \in SUBSET Snapshots
  /\ temporary \in [Processes -> {"none", "part", "whole"}]
  /\ profile \in BOOLEAN
  /\ task \in [Processes -> Tasks]
  /\ pc \in [Processes -> Holding \cup 
              {"idle", "trying", "creating", "inspecting", "judging", "ended"}]
  /\ tries \in [Processes -> 0..MaxTries]
  /\ seen \in [Processes -> Processes \cup {Null}]
  /\ told \in [Processes -> {"none", "done", "failed", "corrupt", "stopped", "busy"}]

Init ==
  /\ lock = Null /\ stored \in Initial
  /\ temporary = [p \in Processes |-> "none"]
  /\ profile = TRUE
  /\ task \in [Processes -> Tasks]
  /\ pc = [p \in Processes |-> "idle"]
  /\ tries = [p \in Processes |-> 0]
  /\ seen = [p \in Processes |-> Null]
  /\ told = [p \in Processes |-> "none"]

-----------------------------------------------------------------------------
(***************************************************************************)
(* withLock.                                                               *)
(***************************************************************************)
GoTo(p, place) == pc' = [pc EXCEPT ![p] = place] /\ UNCHANGED <<task, tries, seen, told>>

Named == [by : Processes, written : {TRUE}] \* what readOwner understands

\* The process has something to report and goes to a place.
Report(p, what, place) ==
  /\ told' = [told EXCEPT ![p] = what]
  /\ pc' = [pc EXCEPT ![p] = place]
  /\ UNCHANGED <<task, tries, seen>>

Begin(p) ==
  /\ pc[p] = "idle" /\ profile
  /\ GoTo(p, "trying")
  /\ UNCHANGED <<lock, filesVars>>

\* open(lock, 'wx')
TryLock(p) ==
  /\ pc[p] = "trying"
  /\ \/ lock = Null /\ lock' = [by |-> p, written |-> FALSE] /\ GoTo(p, "creating")
     \/ lock # Null /\ GoTo(p, "inspecting") /\ UNCHANGED lock
  /\ UNCHANGED filesVars

Entered(p) == IF task[p].op = "write" THEN "validating" ELSE "clearing"

\* The owner is written into the file, synced and closed; if that fails the file may have
\* been written and may be unlinked.
WriteOwner(p) ==
  /\ pc[p] = "creating"
  /\ \/ lock' = [by |-> p, written |-> TRUE] /\ GoTo(p, Entered(p))
     \/ /\ lock' \in {lock, [by |-> p, written |-> TRUE], Null}
        /\ Report(p, "failed", "ended")
  /\ UNCHANGED filesVars

InspectPatient(p) == \* mutant: whatever is found, the call waits for the lock
  /\ pc[p] = "inspecting"
  /\ GoTo(p, "trying")
  /\ UNCHANGED <<lock, filesVars>>

InspectRecovering(p) == \* mutant: a lock left by a stopped process is recovered
  /\ pc[p] = "inspecting"
  /\ lock # Null /\ ~Alive(lock.by)
  /\ lock' = Null /\ GoTo(p, "trying")
  /\ UNCHANGED filesVars

InspectTaking(p) == \* mutant: a lock that names nobody is taken for abandoned
  /\ pc[p] = "inspecting"
  /\ lock # Null /\ ~lock.written
  /\ lock' = Null /\ GoTo(p, "trying")
  /\ UNCHANGED filesVars

\* readOwner: the lock that was there, as it is now.
Inspect(p) ==
  /\ pc[p] = "inspecting"
  /\ \/ lock \notin Named /\ Report(p, "corrupt", "ended")
     \/ /\ lock \in Named /\ seen' = [seen EXCEPT ![p] = lock.by]
        /\ pc' = [pc EXCEPT ![p] = "judging"] /\ UNCHANGED <<task, tries, told>>
  /\ UNCHANGED <<lock, filesVars>>

\* Meanwhile the owner may have released the lock, and even have ended.
Judge(p) ==
  /\ pc[p] = "judging"
  /\ seen' = [seen EXCEPT ![p] = Null]
  /\ \/ /\ ~Alive(seen[p])
        /\ told' = [told EXCEPT ![p] = "stopped"] /\ pc' = [pc EXCEPT ![p] = "ended"]
        /\ UNCHANGED tries
     \/ /\ Alive(seen[p])
        /\ tries' = [tries EXCEPT ![p] = @ + 1]
        /\ \/ tries'[p] < MaxTries /\ pc' = [pc EXCEPT ![p] = "trying"] /\ UNCHANGED told
           \/ /\ tries'[p] = MaxTries /\ pc' = [pc EXCEPT ![p] = "ended"]
              /\ told' = [told EXCEPT ![p] = "busy"]
  /\ UNCHANGED <<lock, filesVars, task>>

\* releaseOwnedLock: only one's own, and an unlink that fails is ignored.
Release(p) ==
  /\ pc[p] = "releasing"
  /\ lock' \in IF lock = [by |-> p, written |-> TRUE] THEN {Null, lock} ELSE {lock}
  /\ GoTo(p, "ended")
  /\ UNCHANGED filesVars

-----------------------------------------------------------------------------
(***************************************************************************)
(* write.                                                                  *)
(***************************************************************************)
\* The profile must still be there; then temporary files are swept away, as far as
\* they can be.
Validate(p) ==
  /\ pc[p] = "validating" /\ profile
  /\ GoTo(p, "pruning")
  /\ temporary' \in {temporary, [q \in Processes |-> "none"]}
  /\ UNCHANGED <<lock, stored, profile>>

FitsOneMore(p) == \* mutant: the new snapshot is not counted
  Cardinality(stored) <= MaxCount /\ Total(stored) + task[p].size <= MaxTotal

Fits(p) == Cardinality(stored) < MaxCount /\ Total(stored) + task[p].size <= MaxTotal
TooOld(p, file) == file.at < task[p].at - MaxAge
Oldest == {file \in stored : \A other \in stored : file.at <= other.at}

\* One file after another, the oldest first, until none is too old and the new one fits.
Prune(p) ==
  /\ pc[p] = "pruning"
  /\ \E file \in Oldest :
       /\ TooOld(p, file) \/ ~Fits(p)
       /\ stored' = stored \ {file}
  /\ UNCHANGED <<lock, temporary, profile, callVars>>

OpenUnfilled(p) == \* mutant: the rename does not wait for the content
  /\ pc[p] = "pruning" /\ Fits(p) /\ \A file \in stored : ~TooOld(p, file)
  /\ temporary' = [temporary EXCEPT ![p] = "part"]
  /\ GoTo(p, "renaming")
  /\ UNCHANGED <<lock, stored, profile>>

Open(p) ==
  /\ pc[p] = "pruning" /\ Fits(p) /\ \A file \in stored : ~TooOld(p, file)
  /\ temporary' = [temporary EXCEPT ![p] = "part"]
  /\ GoTo(p, "filling")
  /\ UNCHANGED <<lock, stored, profile>>

Fill(p) ==
  /\ pc[p] = "filling"
  /\ temporary' = [temporary EXCEPT ![p] = "whole"]
  /\ GoTo(p, "renaming")
  /\ UNCHANGED <<lock, stored, profile>>

File(p, time) ==
  [by |-> p, at |-> time, size |-> task[p].size, whole |-> temporary[p] = "whole"]

\* The file has the time of the file system until utimes.
Rename(p) ==
  /\ pc[p] = "renaming"
  /\ \E time \in Time : stored' = stored \cup {File(p, time)}
  /\ temporary' = [temporary EXCEPT ![p] = "none"]
  /\ GoTo(p, "stamping")
  /\ UNCHANGED <<lock, profile>>

Stamp(p) ==
  /\ pc[p] = "stamping"
  /\ stored' = {IF file.by = p THEN [file EXCEPT !.at = task[p].at] ELSE file : file \in stored}
  /\ Report(p, "done", "releasing")
  /\ UNCHANGED <<lock, temporary, profile>>

-----------------------------------------------------------------------------
(***************************************************************************)
(* removeAll, with removeProfile as the last thing done under the lock.    *)
(***************************************************************************)
Clear(p) ==
  /\ pc[p] = "clearing"
  /\ \/ \E file \in stored : stored' = stored \ {file} /\ UNCHANGED <<temporary, pc>>
     \/ \E q \in Processes :
          /\ temporary[q] # "none"
          /\ temporary' = [temporary EXCEPT ![q] = "none"] /\ UNCHANGED <<stored, pc>>
     \/ /\ stored = {} /\ temporary = [q \in Processes |-> "none"]
        /\ pc' = [pc EXCEPT ![p] = "finalizing"] /\ UNCHANGED <<stored, temporary>>
  /\ UNCHANGED <<lock, profile, task, tries, seen, told>>

Finalize(p) ==
  /\ pc[p] = "finalizing" /\ profile
  /\ profile' = FALSE
  /\ Report(p, "done", "releasing")
  /\ UNCHANGED <<lock, stored, temporary>>

\* Anything done under the lock may fail, and without the profile it must.
Fail(p) ==
  /\ pc[p] \in Writing \cup Removing
  /\ Report(p, "failed", "releasing")
  /\ UNCHANGED <<lock, filesVars>>

-----------------------------------------------------------------------------
(***************************************************************************)
(* The world.                                                              *)
(***************************************************************************)
Die(p) ==
  /\ Alive(p)
  /\ GoTo(p, "ended")
  /\ UNCHANGED <<lock, filesVars>>

\* docs/SAFETY.md:44: someone who has made sure that no command is running.
RemoveLock ==
  /\ lock # Null /\ \A p \in Processes : ~Alive(p)
  /\ lock' = Null
  /\ UNCHANGED <<filesVars, callVars>>

\* router add
AddProfile ==
  /\ ~profile /\ profile' = TRUE
  /\ UNCHANGED <<lock, stored, temporary, callVars>>

Process(p) ==
  \/ Begin(p) \/ TryLock(p) \/ WriteOwner(p) \/ Inspect(p) \/ Judge(p) \/ Release(p)
  \/ Validate(p) \/ Prune(p) \/ Open(p) \/ Fill(p) \/ Rename(p) \/ Stamp(p)
  \/ Clear(p) \/ Finalize(p) \/ Fail(p)

Next == (\E p \in Processes : Process(p) \/ Die(p)) \/ RemoveLock \/ AddProfile

\* File operations and the pauses between two tries end.
Fairness == \A p \in Processes : WF_vars(pc[p] # "idle" /\ Process(p))

Safety == Init /\ [][Next]_vars
Spec == Safety /\ Fairness
-----------------------------------------------------------------------------
(***************************************************************************)
(* Properties.                                                             *)
(***************************************************************************)

\* docs/ARCHITECTURE.md:189: one process at a time prunes, writes or removes,
\* whatever dies while it holds or creates the lock.
Exclusive == \A p, q \in Processes : pc[p] \in Holding /\ pc[q] \in Holding => p = q

\* docs/SAFETY.md:44, recovery fails closed: a lock whose process has ended is not
\* taken away as long as a command is running.
LeftLockStays ==
  [][\A p \in Processes :
       lock # Null /\ lock.by = p /\ ~Alive(p) /\ lock' # lock
         => \A q \in Processes : ~Alive(q)]_vars

\* No snapshot, not even a part of one, outlives its profile: a writer that waited for
\* the lock while the profile was removed writes nothing.
NothingOutlivesProfile ==
  ~profile => stored = {} /\ \A p \in Processes : temporary[p] = "none"

\* The limits hold at every moment, not only after a write.
RetentionBounded == Cardinality(stored) <= MaxCount /\ Total(stored) <= MaxTotal

\* Nothing half written is ever to be seen, and what a write reports as stored is still
\* there with its own time.
WrittenIsKept ==
  /\ \A file \in stored : file.whole
  /\ \A p \in Processes :
       pc[p] = "releasing" /\ told[p] = "done" /\ task[p].op = "write"
         => \E file \in stored :
              file.by = p /\ file.at = task[p].at /\ file.size = task[p].size

\* The store is never seen in between: nothing half written, nothing without its
\* router, nothing reported that is not there.
StoreIsWhole == NothingOutlivesProfile /\ WrittenIsKept

\* Every call ends, behind locks of the dead and of the living.
EveryCallEnds == \A p \in Processes : pc[p] # "idle" ~> pc[p] = "ended"

\* tests/router/snapshot-store.test.ts:180: concurrent writers are serialized.  The lock
\* is found corrupt only if a process has died or failed.
CorruptMeansDeath ==
  \A p \in Processes :
    told[p] = "corrupt" => \E q \in Processes : pc[q] = "ended" /\ told[q] \in {"none", "failed"}
=============================================================================
