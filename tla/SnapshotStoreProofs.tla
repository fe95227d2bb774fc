------------------------- MODULE SnapshotStoreProofs -------------------------
(***************************************************************************)
(* Proofs about SnapshotStore, for any processes, times, sizes and limits. *)
(* The lock belongs to whoever is between its creation and its release; no *)
(* other process can change it in between, and that alone makes what is    *)
(* done under it exclusive.                                                *)
(***************************************************************************)
EXTENDS SnapshotStore, FiniteSetTheorems, TLAPS

Owning == Holding \cup {"creating"}
Validated == {"pruning", "filling", "renaming", "stamping"}

\* Who creates or holds the lock is named by it, or is about to be.
LockInv ==
  \A p \in Processes :
    /\ pc[p] \in Holding => lock = [by |-> p, written |-> TRUE]
    /\ pc[p] = "creating" => lock = [by |-> p, written |-> FALSE]

\* A writer that has seen the profile still has it; a remover that has cleared the store
\* finds it empty, and so is the store without a profile.
StoreInv ==
  /\ NothingOutlivesProfile
  /\ \A p \in Processes :
       /\ pc[p] \in Validated => profile
       /\ pc[p] = "finalizing" => stored = {} /\ \A q \in Processes : temporary[q] = "none"

\* A temporary file is renamed when it is whole, and the renamed file is there until it
\* has its time; only removals remove.
KeptInv ==
  /\ WrittenIsKept
  /\ \A p \in Processes :
       /\ pc[p] \in Removing => task[p].op = "remove"
       /\ pc[p] = "renaming" => temporary[p] = "whole"
       /\ pc[p] = "stamping" =>
            \E file \in stored : file.by = p /\ file.size = task[p].size

\* Who is about to store has made room, which nobody else takes.
RetentionInv ==
  /\ IsFiniteSet(stored) /\ RetentionBounded
  /\ \A p \in Processes : pc[p] \in {"filling", "renaming"} => Fits(p)

Inv == TypeOK /\ LockInv /\ StoreInv /\ KeptInv /\ RetentionInv

-----------------------------------------------------------------------------
\* What a process makes of the lock is a lock, and Null is none.
LEMMA LockOf ==
  ASSUME NEW p \in Processes, NEW w \in BOOLEAN
  PROVE  /\ [by |-> p, written |-> w] \in [by : Processes, written : BOOLEAN]
         /\ [by |-> p, written |-> w] # Null
BY StoreAssumption

\* The lock has one name.
LEMMA LockExcludes ==
  ASSUME LockInv, NEW p \in Processes, NEW q \in Processes, pc[p] \in Owning, pc[q] \in Owning
  PROVE  p = q
<1>1. lock.by = p /\ lock.by = q
  BY DEF LockInv, Owning
<1> QED BY <1>1

\* What is stored has finitely many bytes, and removing a file adds none.
LEMMA FewerBytes ==
  ASSUME NEW files, IsFiniteSet(files), NEW some \in SUBSET files
  PROVE  /\ IsFiniteSet(Bytes(files)) /\ Total(files) \in Nat /\ Cardinality(files) \in Nat
         /\ IsFiniteSet(some)
         /\ Total(some) \in Nat /\ Total(some) <= Total(files)
         /\ Cardinality(some) \in Nat /\ Cardinality(some) <= Cardinality(files)
<1>1. IsFiniteSet(files \X (1..MaxTotal))
  <2>1. IsFiniteSet(1..MaxTotal)
    BY FS_Interval, StoreAssumption
  <2> QED BY <2>1, FS_Product
<1>2. IsFiniteSet(Bytes(files))
  BY <1>1, FS_Subset DEF Bytes
<1>3. Bytes(some) \subseteq Bytes(files)
  BY DEF Bytes
<1>4. IsFiniteSet(some) /\ Cardinality(some) <= Cardinality(files)
  BY FS_Subset
<1>5. IsFiniteSet(Bytes(some)) /\ Total(some) <= Total(files)
  BY <1>2, <1>3, FS_Subset DEF Total
<1> QED BY <1>2, <1>4, <1>5, FS_CardinalityType DEF Total

\* A file adds as many bytes as its size says.
LEMMA BytesOfOneMore ==
  ASSUME NEW files, IsFiniteSet(files), NEW file \in Snapshots
  PROVE  /\ IsFiniteSet(files \cup {file})
         /\ Cardinality(files \cup {file}) <= Cardinality(files) + 1
         /\ Total(files \cup {file}) <= Total(files) + file.size
<1>1. IsFiniteSet(Bytes(files)) /\ Total(files) \in Nat /\ Cardinality(files) \in Nat
  BY FewerBytes
<1>2. IsFiniteSet(files \cup {file}) /\ Cardinality(files \cup {file}) <= Cardinality(files) + 1
  <2>1. /\ IsFiniteSet(files \cup {file})
        /\ Cardinality(files \cup {file}) =
             IF file \in files THEN Cardinality(files) ELSE Cardinality(files) + 1
    BY FS_AddElement
  <2> QED BY <1>1, <2>1
<1>3. file.size \in 1..MaxTotal
  BY StoreAssumption DEF Snapshots
<1> DEFINE own == {file} \X (1..file.size)
<1>4. IsFiniteSet(own) /\ Cardinality(own) = file.size
  <2> DEFINE numbers == 1..file.size
             single == {file}
  <2>1. IsFiniteSet(numbers) /\ Cardinality(numbers) = file.size
    BY <1>3, FS_Interval
  <2>2. IsFiniteSet(single) /\ Cardinality(single) = 1
    BY FS_Singleton
  <2>3. own = single \X numbers
    OBVIOUS
  <2> HIDE DEF numbers, single, own
  <2>4. IsFiniteSet(single \X numbers) /\ Cardinality(single \X numbers) = 1 * file.size
    <3>1. /\ IsFiniteSet(single \X numbers)
          /\ Cardinality(single \X numbers) = Cardinality(single) * Cardinality(numbers)
      BY ONLY <2>1, <2>2, FS_Product
    <3> QED BY <3>1, <2>1, <2>2
  <2> QED BY <1>3, <2>3, <2>4
<1>5. Bytes(files \cup {file}) = Bytes(files) \cup own
  <2>1. \A i : i \in 1..MaxTotal /\ i <= file.size <=> i \in 1..file.size
    BY <1>3, StoreAssumption
  <2> QED BY <2>1 DEF Bytes
<1>6. Cardinality(Bytes(files) \cup own) <= Cardinality(Bytes(files)) + file.size
  <2>1. Cardinality(Bytes(files) \cup own)
          = Cardinality(Bytes(files)) + Cardinality(own) - Cardinality(Bytes(files) \cap own)
    BY <1>1, <1>4, FS_Union
  <2>2. Cardinality(Bytes(files) \cap own) \in Nat
    BY <1>1, FS_Intersection, FS_CardinalityType
  <2> QED BY <1>1, <1>3, <1>4, <2>1, <2>2 DEF Total
<1> QED BY <1>2, <1>5, <1>6 DEF Total

\* Giving files another time adds none, and no byte.
LEMMA BytesStamped ==
  ASSUME NEW files, IsFiniteSet(files), NEW new, NEW Dated \in [files -> new],
         \A file \in files : Dated[file].size = file.size,
         \A file \in new : \E old \in files : file = Dated[old]
  PROVE  IsFiniteSet(new) /\ Cardinality(new) <= Cardinality(files) /\ Total(new) <= Total(files)
<1>1. Dated \in Surjection(files, new)
  BY DEF Surjection
<1>2. IsFiniteSet(new) /\ Cardinality(new) <= Cardinality(files)
  BY <1>1, FS_Surjection
<1> DEFINE Byte == [byte \in Bytes(files) |-> <<Dated[byte[1]], byte[2]>>]
<1>3. Byte \in [Bytes(files) -> Bytes(new)]
  BY DEF Bytes
<1>4. ASSUME NEW byte \in Bytes(new) PROVE \E old \in Bytes(files) : Byte[old] = byte
  <2>1. PICK old \in files : byte[1] = Dated[old]
    BY DEF Bytes
  <2>2. <<old, byte[2]>> \in Bytes(files)
    BY <2>1 DEF Bytes
  <2>3. Byte[<<old, byte[2]>>] = byte
    BY <2>1, <2>2 DEF Bytes
  <2> QED BY <2>2, <2>3
<1>5. Byte \in Surjection(Bytes(files), Bytes(new))
  BY <1>3, <1>4 DEF Surjection
<1>6. IsFiniteSet(Bytes(files))
  BY FewerBytes
<1> QED BY <1>2, <1>5, <1>6, FS_Surjection DEF Total

\* The initial state.
LEMMA InitInv == Init => Inv
<1> SUFFICES ASSUME Init PROVE Inv
  OBVIOUS
<1>1. stored \in SUBSET Snapshots
  BY StoreAssumption DEF Init
<1>2. TypeOK
  BY <1>1, StoreAssumption DEF Init, TypeOK
<1>3. LockInv
  BY StoreAssumption DEF Init, LockInv, Holding, Writing, Removing
<1>4. StoreInv
  BY DEF Init, StoreInv, NothingOutlivesProfile, Validated
<1>5. KeptInv
  BY StoreAssumption DEF Init, KeptInv, WrittenIsKept, Removing
<1>6. RetentionInv
  BY StoreAssumption DEF Init, RetentionInv, RetentionBounded
<1> QED BY <1>2, <1>3, <1>4, <1>5, <1>6 DEF Inv

-----------------------------------------------------------------------------
(***************************************************************************)
(* Who can change what.                                                    *)
(***************************************************************************)
Doing(p) == Process(p) \/ Die(p)

\* A process changes nothing of another one.
LEMMA OthersStay ==
  ASSUME TypeOK, NEW p \in Processes, Doing(p)
  PROVE  /\ task' = task
         /\ \A q \in Processes \ {p} :
              pc'[q] = pc[q] /\ told'[q] = told[q] /\ tries'[q] = tries[q]
<1> USE DEF TypeOK, GoTo, Report
<1>1. CASE Begin(p) \/ TryLock(p) \/ WriteOwner(p) \/ Release(p) \/ Die(p)
  BY <1>1 DEF Begin, TryLock, WriteOwner, Release, Die
<1>2. CASE Inspect(p) \/ Judge(p)
  BY <1>2 DEF Inspect, Judge
<1>3. CASE Validate(p) \/ Prune(p) \/ Open(p) \/ Fill(p) \/ Rename(p) \/ Stamp(p)
  BY <1>3 DEF Validate, Prune, Open, Fill, Rename, Stamp, callVars
<1>4. CASE Clear(p) \/ Finalize(p) \/ Fail(p)
  BY <1>4 DEF Clear, Finalize, Fail
<1> QED BY <1>1, <1>2, <1>3, <1>4 DEF Doing, Process

\* Without the lock a process changes no file but the lock, and that only by creating it.
LEMMA OutsidersStay ==
  ASSUME TypeOK, NEW p \in Processes, Doing(p), pc[p] \notin Owning
  PROVE  /\ UNCHANGED filesVars
         /\ lock' # lock => lock = Null
         /\ pc'[p] \in Owning => pc'[p] = "creating" /\ lock = Null
<1> USE DEF TypeOK, GoTo, Report, Owning, Holding, Writing, Removing
<1>1. CASE Begin(p) \/ TryLock(p) \/ Die(p)
  BY <1>1 DEF Begin, TryLock, Die, filesVars
<1>2. CASE Inspect(p) \/ Judge(p)
  BY <1>2 DEF Inspect, Judge
<1>3. ~WriteOwner(p) /\ ~Release(p) /\ ~Validate(p) /\ ~Prune(p) /\ ~Open(p) /\ ~Fill(p)
  BY DEF WriteOwner, Release, Validate, Prune, Open, Fill, callVars
<1>4. ~Rename(p) /\ ~Stamp(p) /\ ~Clear(p) /\ ~Finalize(p) /\ ~Fail(p)
  BY DEF Rename, Stamp, Clear, Finalize, Fail
<1> QED BY <1>1, <1>2, <1>3, <1>4 DEF Doing, Process

\* What somebody does while another process owns the lock leaves all files alone.
LEMMA OwnersAreAlone ==
  ASSUME TypeOK, LockInv, NEW p \in Processes, NEW q \in Processes \ {p}, Doing(q),
         pc[p] \in Owning
  PROVE  /\ UNCHANGED <<lock, stored, temporary, profile, task>>
         /\ pc'[p] = pc[p] /\ told'[p] = told[p]
<1>1. pc[q] \notin Owning
  BY LockExcludes
<1>2. lock # Null
  <2>1. \E w \in BOOLEAN : lock = [by |-> p, written |-> w]
    BY DEF LockInv, Owning
  <2> QED BY <2>1, LockOf
<1> QED BY <1>1, <1>2, OthersStay, OutsidersStay DEF filesVars

-----------------------------------------------------------------------------
(***************************************************************************)
(* Every step keeps the invariant.                                         *)
(***************************************************************************)

\* The types.
LEMMA StepType ==
  ASSUME Inv, NEW p \in Processes, Doing(p)
  PROVE  TypeOK'
<1> USE DEF Inv, TypeOK, GoTo, Report, Holding, Writing, Removing, filesVars
<1>1. CASE Begin(p) \/ Release(p) \/ Die(p)
  BY <1>1 DEF Begin, Release, Die
<1>8. CASE TryLock(p)
  <2>1. lock' \in [by : Processes, written : BOOLEAN] \cup {Null}
    BY <1>8, LockOf DEF TryLock
  <2> QED BY <1>8, <2>1 DEF TryLock
<1>7. CASE WriteOwner(p)
  <2>1. lock' \in {[by |-> p, written |-> TRUE], lock, Null}
    BY <1>7 DEF WriteOwner
  <2>2. lock' \in [by : Processes, written : BOOLEAN] \cup {Null}
    BY <2>1, LockOf
  <2> QED BY <1>7, <2>2 DEF WriteOwner, Entered
<1>2. CASE Inspect(p)
  BY <1>2 DEF Inspect, Named
<1>9. CASE Judge(p)
  <2>1. CASE pc' = [pc EXCEPT ![p] = "ended"] /\ UNCHANGED tries
    BY <1>9, <2>1 DEF Judge
  <2>2. CASE tries' = [tries EXCEPT ![p] = @ + 1] /\ tries'[p] <= MaxTries
    <3>1. tries[p] + 1 \in 0..MaxTries
      BY <2>2, StoreAssumption
    <3> QED BY <1>9, <2>2, <3>1 DEF Judge
  <2> QED BY <1>9, <2>1, <2>2, StoreAssumption DEF Judge
<1>3. CASE Validate(p) \/ Prune(p) \/ Open(p) \/ Fill(p)
  BY <1>3 DEF Validate, Prune, Open, Fill, callVars
<1>4. CASE Rename(p)
  <2>1. ASSUME NEW time \in Time PROVE File(p, time) \in Snapshots
    BY DEF File, Snapshots, Tasks
  <2> QED BY <1>4, <2>1 DEF Rename
<1>5. CASE Stamp(p)
  <2>1. ASSUME NEW file \in stored
        PROVE  (IF file.by = p THEN [file EXCEPT !.at = task[p].at] ELSE file) \in Snapshots
    BY DEF Snapshots, Tasks
  <2> QED BY <1>5, <2>1 DEF Stamp
<1>6. CASE Clear(p) \/ Finalize(p) \/ Fail(p)
  BY <1>6 DEF Clear, Finalize, Fail
<1> QED BY <1>1, <1>2, <1>3, <1>4, <1>5, <1>6, <1>7, <1>8, <1>9 DEF Doing, Process

\* The lock.
LEMMA StepLock ==
  ASSUME Inv, NEW p \in Processes, Doing(p)
  PROVE  LockInv'
<1> USE DEF Inv, LockInv, Owning, Holding, Writing, Removing
<1>1. ASSUME NEW q \in Processes \ {p}, pc'[q] \in Owning
      PROVE  lock' = lock /\ pc'[q] = pc[q]
  BY <1>1, OthersStay, OwnersAreAlone
<1>2. /\ pc'[p] \in Holding => lock' = [by |-> p, written |-> TRUE]
      /\ pc'[p] = "creating" => lock' = [by |-> p, written |-> FALSE]
  <2> USE DEF TypeOK, GoTo, Report
  <2>1. CASE Begin(p) \/ TryLock(p) \/ WriteOwner(p) \/ Release(p) \/ Die(p)
    BY <2>1 DEF Begin, TryLock, WriteOwner, Entered, Release, Die
  <2>2. CASE Inspect(p) \/ Judge(p)
    BY <2>2 DEF Inspect, Judge
  <2>3. CASE Validate(p) \/ Prune(p) \/ Open(p) \/ Fill(p) \/ Rename(p) \/ Stamp(p)
    BY <2>3 DEF Validate, Prune, Open, Fill, Rename, Stamp, callVars
  <2>4. CASE Clear(p) \/ Finalize(p) \/ Fail(p)
    BY <2>4 DEF Clear, Finalize, Fail
  <2> QED BY <2>1, <2>2, <2>3, <2>4 DEF Doing, Process
<1> QED BY <1>1, <1>2

\* What may be stored and what the registry says: only a remover that has seen the store
\* empty, alone, takes the profile away, and only a writer that has seen the profile,
\* alone, adds to the store.
LEMMA StepStore ==
  ASSUME Inv, NEW p \in Processes, Doing(p)
  PROVE  StoreInv'
<1> USE DEF Inv, StoreInv, NothingOutlivesProfile, Validated
<1>1. ASSUME NEW q \in Processes \ {p}
      PROVE  /\ pc'[q] \in Validated => profile'
             /\ pc'[q] = "finalizing" =>
                  stored' = {} /\ \A r \in Processes : temporary'[r] = "none"
  <2>1. pc'[q] = pc[q]
    BY OthersStay
  <2>2. CASE pc[q] \in Owning
    BY <2>1, <2>2, OwnersAreAlone
  <2>3. CASE pc[q] \notin Owning
    BY <2>1, <2>3 DEF Owning, Holding, Writing, Removing
  <2> QED BY <2>2, <2>3
<1>2. CASE pc[p] \notin Owning
  <2>1. UNCHANGED filesVars
    BY <1>2, OutsidersStay
  <2>2. pc'[p] \notin Validated \cup {"finalizing"}
    BY <1>2, OutsidersStay DEF Owning, Holding, Writing, Removing
  <2> QED BY <1>1, <2>1, <2>2 DEF filesVars
<1>3. CASE pc[p] \in Owning
  <2> SUFFICES /\ NothingOutlivesProfile'
               /\ pc'[p] \in Validated => profile'
               /\ pc'[p] = "finalizing" =>
                    stored' = {} /\ \A q \in Processes : temporary'[q] = "none"
    BY <1>1
  <2> USE DEF TypeOK, GoTo, Report, filesVars, Owning, Holding, Writing, Removing
  <2>1. CASE WriteOwner(p) \/ Release(p) \/ Die(p) \/ Fail(p)
    BY <2>1 DEF WriteOwner, Entered, Release, Die, Fail
  <2>2. CASE Validate(p) \/ Prune(p) \/ Open(p) \/ Fill(p)
    BY <2>2 DEF Validate, Prune, Open, Fill, callVars
  <2>3. CASE Rename(p) \/ Stamp(p)
    BY <2>3 DEF Rename, Stamp
  <2>4. CASE Clear(p)
    BY <2>4 DEF Clear
  <2>5. CASE Finalize(p)
    BY <2>5 DEF Finalize
  <2>6. ~Begin(p) /\ ~TryLock(p) /\ ~Inspect(p) /\ ~Judge(p)
    BY <1>3 DEF Begin, TryLock, Inspect, Judge
  <2> QED BY <2>1, <2>2, <2>3, <2>4, <2>5, <2>6 DEF Doing, Process
<1> QED BY <1>2, <1>3

\* What is written is whole and stays until it is reported.
LEMMA StepKept ==
  ASSUME Inv, NEW p \in Processes, Doing(p)
  PROVE  KeptInv'
<1> DEFINE Kept(q) ==
      /\ pc[q] \in Removing => task[q].op = "remove"
      /\ pc[q] = "renaming" => temporary[q] = "whole"
      /\ pc[q] = "stamping" =>
           \E file \in stored : file.by = q /\ file.size = task[q].size
      /\ pc[q] = "releasing" /\ told[q] = "done" /\ task[q].op = "write"
           => \E file \in stored :
                file.by = q /\ file.at = task[q].at /\ file.size = task[q].size
<1> DEFINE Whole == \A file \in stored : file.whole
<1>1. Whole /\ \A q \in Processes : Kept(q)
  BY DEF Inv, KeptInv, WrittenIsKept
<1>2. SUFFICES Whole' /\ \A q \in Processes : Kept(q)'
  BY DEF KeptInv, WrittenIsKept
<1>3. ASSUME NEW q \in Processes \ {p} PROVE Kept(q)'
  <2>1. pc'[q] = pc[q] /\ told'[q] = told[q] /\ task' = task
    BY OthersStay DEF Inv
  <2>2. CASE pc[q] \in Owning
    <3>1. stored' = stored /\ temporary' = temporary
      BY <2>2, OwnersAreAlone DEF Inv
    <3> QED BY <1>1, <2>1, <3>1
  <2>3. CASE pc[q] \notin Owning
    BY <2>1, <2>3 DEF Owning, Holding, Writing, Removing
  <2> QED BY <2>2, <2>3
<1>4. CASE pc[p] \notin Owning
  <2>1. stored' = stored
    BY <1>4, OutsidersStay DEF Inv, filesVars
  <2>2. pc'[p] \notin Holding
    BY <1>4, OutsidersStay DEF Inv, Owning, Holding, Writing, Removing
  <2> QED BY <1>1, <1>3, <2>1, <2>2 DEF Holding, Writing, Removing
<1>5. CASE pc[p] \in Owning
  <2> SUFFICES Whole' /\ Kept(p)'
    BY <1>3
  <2> USE DEF Inv, TypeOK, GoTo, Report, filesVars, Owning, Holding, Writing, Removing
  <2>1. CASE WriteOwner(p)
    BY <1>1, <2>1 DEF WriteOwner, Entered, Tasks
  <2>2. CASE Release(p) \/ Die(p) \/ Fail(p)
    BY <1>1, <2>2 DEF Release, Die, Fail
  <2>3. CASE Validate(p) \/ Prune(p) \/ Open(p) \/ Fill(p)
    BY <1>1, <2>3 DEF Validate, Prune, Open, Fill, callVars
  <2>4. CASE Rename(p)
    <3>1. temporary[p] = "whole"
      BY <1>1, <2>4 DEF Rename
    <3>2. PICK time \in Time : stored' = stored \cup {File(p, time)}
      BY <2>4 DEF Rename
    <3>3. /\ File(p, time).by = p /\ File(p, time).size = task[p].size
          /\ File(p, time).whole
      BY <3>1 DEF File
    <3> HIDE DEF Kept
    <3>4. Whole'
      BY <1>1, <3>2, <3>3
    <3>5. \E file \in stored' : file.by = p /\ file.size = task'[p].size
      BY <2>4, <3>2, <3>3 DEF Rename
    <3> QED BY <2>4, <3>4, <3>5 DEF Rename, Kept
  <2>5. CASE Stamp(p)
    <3>1. PICK file \in stored : file.by = p /\ file.size = task[p].size
      BY <1>1, <2>5 DEF Stamp
    <3>2. \E new \in stored' : new.by = p /\ new.at = task[p].at /\ new.size = task[p].size
      <4>1. [file EXCEPT !.at = task[p].at] \in stored'
        BY <2>5, <3>1 DEF Stamp
      <4>2. file \in Snapshots
        BY <3>1
      <4> QED BY <3>1, <4>1, <4>2 DEF Snapshots
    <3>3. Whole'
      BY <1>1, <2>5 DEF Stamp, Snapshots
    <3> QED BY <2>5, <3>2, <3>3 DEF Stamp
  <2>6. CASE Clear(p)
    BY <1>1, <2>6 DEF Clear
  <2>7. CASE Finalize(p)
    BY <1>1, <2>7 DEF Finalize
  <2>8. ~Begin(p) /\ ~TryLock(p) /\ ~Inspect(p) /\ ~Judge(p)
    BY <1>5 DEF Begin, TryLock, Inspect, Judge
  <2> QED BY <2>1, <2>2, <2>3, <2>4, <2>5, <2>6, <2>7, <2>8 DEF Doing, Process
<1> QED BY <1>4, <1>5

\* The limits: the lock keeps for its owner the room that it made.
LEMMA StepRetention ==
  ASSUME Inv, NEW p \in Processes, Doing(p)
  PROVE  RetentionInv'
<1> DEFINE Room(q) == pc[q] \in {"filling", "renaming"} => Fits(q)
<1> USE DEF Inv, RetentionInv, RetentionBounded
<1>1. SUFFICES /\ IsFiniteSet(stored') /\ RetentionBounded'
               /\ \A q \in Processes : Room(q)'
  OBVIOUS
<1>2. ASSUME NEW q \in Processes \ {p} PROVE Room(q)'
  <2>1. pc'[q] = pc[q] /\ task' = task
    BY OthersStay
  <2>2. CASE pc[q] \in {"filling", "renaming"}
    <3>1. stored' = stored
      BY <2>2, OwnersAreAlone DEF Owning, Holding, Writing
    <3> QED BY <2>1, <2>2, <3>1 DEF Fits
  <2> QED BY <2>1, <2>2
<1>3. CASE pc[p] \notin Owning
  <2>1. stored' = stored
    BY <1>3, OutsidersStay DEF filesVars
  <2>2. pc'[p] \notin {"filling", "renaming"}
    BY <1>3, OutsidersStay DEF Owning, Holding, Writing, Removing
  <2> QED BY <1>2, <2>1, <2>2
<1>4. CASE pc[p] \in Owning
  <2> SUFFICES IsFiniteSet(stored') /\ RetentionBounded' /\ Room(p)'
    BY <1>2
  <2> USE DEF TypeOK, GoTo, Report, filesVars, Owning, Holding, Writing, Removing
  <2>1. CASE WriteOwner(p) \/ Release(p) \/ Die(p) \/ Fail(p) \/ Validate(p) \/ Finalize(p)
    BY <2>1 DEF WriteOwner, Entered, Release, Die, Fail, Validate, Finalize
  <2>2. CASE Open(p) \/ Fill(p)
    BY <2>2 DEF Open, Fill, Fits
  <2>3. CASE Prune(p) \/ Clear(p)
    <3>1. stored' \subseteq stored /\ pc'[p] \notin {"filling", "renaming"}
      BY <2>3 DEF Prune, Clear, callVars
    <3>2. /\ IsFiniteSet(stored') /\ Total(stored) \in Nat /\ Cardinality(stored) \in Nat
          /\ Total(stored') \in Nat /\ Total(stored') <= Total(stored)
          /\ Cardinality(stored') \in Nat /\ Cardinality(stored') <= Cardinality(stored)
      BY <3>1, FewerBytes
    <3> QED BY <3>1, <3>2, StoreAssumption
  <2>4. CASE Rename(p)
    <3>1. PICK time \in Time : stored' = stored \cup {File(p, time)}
      BY <2>4 DEF Rename
    <3>2. File(p, time) \in Snapshots /\ File(p, time).size = task[p].size
      BY DEF File, Snapshots, Tasks
    <3>3. /\ IsFiniteSet(stored')
          /\ Cardinality(stored') <= Cardinality(stored) + 1
          /\ Total(stored') <= Total(stored) + task[p].size
      BY <3>1, <3>2, BytesOfOneMore
    <3>4. Fits(p)
      BY <2>4 DEF Rename
    <3>5. task[p].size \in Nat
      <4>1. task[p].size \in 1..MaxTotal
        BY StoreAssumption DEF Tasks
      <4> QED BY <4>1, StoreAssumption
    <3>6. /\ Total(stored) \in Nat /\ Cardinality(stored) \in Nat
          /\ Total(stored') \in Nat /\ Cardinality(stored') \in Nat
      BY <3>3, FewerBytes
    <3>7. RetentionBounded'
      BY <3>3, <3>4, <3>5, <3>6, StoreAssumption DEF Fits
    <3> QED BY <2>4, <3>3, <3>7 DEF Rename
  <2>5. CASE Stamp(p)
    <3> DEFINE Dated == [file \in stored |->
          IF file.by = p THEN [file EXCEPT !.at = task[p].at] ELSE file]
    <3>1. Dated \in [stored -> stored'] /\ \A file \in stored' : \E old \in stored : file = Dated[old]
      BY <2>5 DEF Stamp
    <3>2. \A file \in stored : Dated[file].size = file.size
      BY DEF Snapshots
    <3> HIDE DEF Dated
    <3>3. /\ IsFiniteSet(stored') /\ Cardinality(stored') <= Cardinality(stored)
          /\ Total(stored') <= Total(stored)
      BY <3>1, <3>2, BytesStamped
    <3>4. /\ Total(stored) \in Nat /\ Cardinality(stored) \in Nat
          /\ Total(stored') \in Nat /\ Cardinality(stored') \in Nat
      BY <3>3, FewerBytes
    <3>5. RetentionBounded'
      BY <3>3, <3>4, StoreAssumption
    <3> QED BY <2>5, <3>3, <3>5 DEF Stamp
  <2>6. ~Begin(p) /\ ~TryLock(p) /\ ~Inspect(p) /\ ~Judge(p)
    BY <1>4 DEF Begin, TryLock, Inspect, Judge
  <2> QED BY <2>1, <2>2, <2>3, <2>4, <2>5, <2>6 DEF Doing, Process
<1> QED BY <1>3, <1>4

\* The world, and nobody at all.
LEMMA WorldInv ==
  ASSUME Inv, RemoveLock \/ AddProfile \/ UNCHANGED vars
  PROVE  Inv'
<1> USE DEF Inv, TypeOK, LockInv, StoreInv, NothingOutlivesProfile, KeptInv, WrittenIsKept,
           RetentionInv, RetentionBounded, Fits
<1>1. CASE RemoveLock
  <2>1. \A p \in Processes : pc[p] \notin Owning
    BY <1>1 DEF RemoveLock, Alive, Owning, Holding, Writing, Removing
  <2> QED BY <1>1, <2>1 DEF RemoveLock, filesVars, callVars, Owning
<1>2. CASE AddProfile
  BY <1>2 DEF AddProfile, callVars
<1>3. CASE UNCHANGED vars
  BY <1>3 DEF vars, callVars
<1> QED BY <1>1, <1>2, <1>3

\* Every step keeps the invariant.
LEMMA NextInv == Inv /\ [Next]_vars => Inv'
<1> SUFFICES ASSUME Inv, [Next]_vars PROVE Inv'
  OBVIOUS
<1>1. ASSUME NEW p \in Processes, Doing(p) PROVE Inv'
  BY <1>1, StepType, StepLock, StepStore, StepKept, StepRetention DEF Inv
<1> QED BY <1>1, WorldInv DEF Next, Doing

-----------------------------------------------------------------------------
(***************************************************************************)
(* The theorems.                                                           *)
(***************************************************************************)

\* The inductive invariant holds in every reachable state.
THEOREM Invariant == Safety => []Inv
<1> QED BY InitInv, NextInv, PTL DEF Safety

\* Every variable of the store keeps its type.
THEOREM TypeCorrect == Safety => []TypeOK
<1>1. Inv => TypeOK
  BY DEF Inv
<1> QED BY <1>1, Invariant, PTL

\* withLock: at most one process prunes, writes or removes, however many processes call,
\* wherever they die and whatever the clocks show.
THEOREM HoldersExclude == Safety => []Exclusive
<1>1. Inv => Exclusive
  BY LockExcludes DEF Inv, Exclusive, Owning
<1> QED BY <1>1, Invariant, PTL

\* No file of a router is left, or written, once its profile is out of the registry.
THEOREM NothingOutlives == Safety => []NothingOutlivesProfile
<1>1. Inv => NothingOutlivesProfile
  BY DEF Inv, StoreInv
<1> QED BY <1>1, Invariant, PTL

\* What can be listed is whole, and what a write reports is stored with its own time.
THEOREM WrittenAreKept == Safety => []WrittenIsKept
<1>1. Inv => WrittenIsKept
  BY DEF Inv, KeptInv
<1> QED BY <1>1, Invariant, PTL

\* The limits of router/snapshot-store.ts hold at every moment, with whatever processes.
THEOREM RetentionStaysBounded == Safety => []RetentionBounded
<1>1. Inv => RetentionBounded
  BY DEF Inv, RetentionInv
<1> QED BY <1>1, Invariant, PTL

\* Recovery fails closed: no command takes away the lock of a process that has ended, and
\* nobody else does before every command has ended.
THEOREM LeftLocksStay == Safety => LeftLockStays
<1> DEFINE Left == \A p \in Processes :
      lock # Null /\ lock.by = p /\ ~Alive(p) /\ lock' # lock
        => \A q \in Processes : ~Alive(q)
<1>1. Inv /\ [Next]_vars => [Left]_vars
  <2> SUFFICES ASSUME Inv, Next, NEW p \in Processes,
                      lock # Null, lock.by = p, ~Alive(p), lock' # lock
               PROVE  \A q \in Processes : ~Alive(q)
    BY Zenon
  <2>1. CASE \E q \in Processes : Doing(q)
    <3>1. PICK q \in Processes : Doing(q)
      BY <2>1
    <3>2. pc[q] \in Owning
      BY <3>1, OutsidersStay DEF Inv
    <3>3. lock.by = q
      BY <3>2 DEF Inv, LockInv, Owning
    <3> QED BY <3>2, <3>3 DEF Alive, Owning, Holding, Writing, Removing
  <2>2. CASE RemoveLock
    BY <2>2 DEF RemoveLock
  <2>3. CASE AddProfile
    BY <2>3 DEF AddProfile
  <2> QED BY <2>1, <2>2, <2>3 DEF Next, Doing
<1> QED BY <1>1, Invariant, PTL DEF Safety, LeftLockStays

\* No reader of the store (router/snapshot-store.ts) sees a part of a snapshot or one
\* without its router, and none that was reported is missing.
THEOREM StoreHolds == Safety => []StoreIsWhole
BY NothingOutlives, WrittenAreKept, PTL DEF StoreIsWhole
=============================================================================
