----------------------- MODULE ProfileRegistryProofs -----------------------
(***************************************************************************)
(* What ProfileRegistry promises for any number of commands, ids, failed   *)
(* reads and tries: the registry is always one that a command made of one  *)
(* read, two wizards do not save at once, and adding costs nobody his      *)
(* secret.                                                                 *)
(***************************************************************************)
EXTENDS ProfileRegistry, FiniteSetTheorems, TLAPS

-----------------------------------------------------------------------------
(***************************************************************************)
(* Registries.                                                             *)
(***************************************************************************)
NoTwice(s) == \A i, j \in 1 .. Len(s) : s[i] = s[j] => i = j
AtMostOne(S) == \A a, b \in S : a = b

Registry == [profiles : Seq(Ids), default : SUBSET Ids, registered : SUBSET Ids]

Sound(r) ==
  /\ r \in Registry
  /\ NoTwice(r.profiles) /\ AtMostOne(r.default)
  /\ r.default \cup r.registered \subseteq Listed(r)

LEMMA PartsOfSeq ==
  ASSUME NEW X, NEW s \in Seq(X)
  PROVE  /\ Len(s) \in Nat
         /\ \A i \in 1 .. Len(s) : s[i] \in X
         /\ s \in [1 .. Len(s) -> X]
OBVIOUS

LEMMA ListedOnes ==
  ASSUME NEW r \in Registry
  PROVE  /\ Listed(r) = {r.profiles[i] : i \in 1 .. Len(r.profiles)}
         /\ Listed(r) \subseteq Ids
<1>1. r.profiles \in Seq(Ids)
  BY DEF Registry
<1>2. \A i \in 1 .. Len(r.profiles) : r.profiles[i] \in Ids
  BY <1>1, PartsOfSeq
<1>3. DOMAIN r.profiles = 1 .. Len(r.profiles)
  BY <1>1, PartsOfSeq
<1> QED BY <1>2, <1>3 DEF Listed, ToSet

\* What the property says of a registry follows from what the proof carries.
LEMMA SoundIsConsistent == ASSUME NEW r, Sound(r) PROVE Consistent(r)
<1> DEFINE s == r.profiles
           n == Len(s)
<1>1. r \in Registry /\ s \in Seq(Ids)
  BY DEF Sound, Registry
<1>2. n \in Nat /\ s \in [1 .. n -> Ids] /\ Listed(r) = {s[i] : i \in 1 .. n}
  BY <1>1, ListedOnes, PartsOfSeq
<1>3. \A i, j \in 1 .. n : s[i] = s[j] => i = j
  BY DEF Sound, NoTwice
<1> HIDE DEF s, n
<1>4. IsFiniteSet(1 .. n) /\ Cardinality(1 .. n) = n
  BY <1>2, FS_Interval
<1>5. s \in [1 .. n -> Listed(r)]
  BY <1>2
<1>6. s \in Surjection(1 .. n, Listed(r))
  BY <1>2, <1>5 DEF Surjection
<1>7. s \in Injection(1 .. n, Listed(r))
  BY <1>3, <1>5 DEF Injection, IsInjective
<1>8. Cardinality(Listed(r)) = n
  BY <1>4, <1>6, <1>7, FS_Surjection
<1>9. Cardinality(r.default) <= 1
  <2>1. CASE r.default = {}
    BY <2>1, FS_EmptySet
  <2>2. CASE r.default # {}
    <3>1. PICK a \in r.default : r.default = {a}
      BY <2>2 DEF Sound, AtMostOne
    <3>2. Cardinality({a}) = 1
      BY FS_Singleton
    <3> QED BY <3>1, <3>2
  <2> QED BY <2>1, <2>2
<1> QED BY <1>8, <1>9 DEF Consistent, Sound, s, n

LEMMA NoRegistryIsSound == Sound(NoRegistry)
<1>1. NoRegistry \in Registry
  BY DEF NoRegistry, Registry
<1>2. NoRegistry.profiles = <<>> /\ NoRegistry.default = {} /\ NoRegistry.registered = {}
  BY DEF NoRegistry
<1>3. Len(<<>>) = 0
  OBVIOUS
<1> QED BY <1>1, <1>2, <1>3 DEF Sound, NoTwice, AtMostOne

\* addProfile: the id is new, so it is there once.
LEMMA AddedIsSound ==
  ASSUME NEW r, Sound(r), NEW id \in Ids \ Listed(r), NEW first \in BOOLEAN
  PROVE  Sound(Added(r, id, first)) /\ id \in Listed(Added(r, id, first))
<1> DEFINE s == r.profiles
           t == Append(s, id)
           n == Len(s)
           a == Added(r, id, first)
<1>1. r \in Registry /\ s \in Seq(Ids) /\ n \in Nat
  BY DEF Sound, Registry
<1>2. t \in Seq(Ids) /\ Len(t) = n + 1 /\ t[n + 1] = id /\ \A i \in 1 .. n : t[i] = s[i]
  BY <1>1
<1>3. Listed(r) = {s[i] : i \in 1 .. n}
  BY <1>1, ListedOnes
<1>4. \A i, j \in 1 .. n : s[i] = s[j] => i = j
  BY DEF Sound, NoTwice
<1>5. /\ a.profiles = t /\ a.registered = r.registered
      /\ a.default = IF first THEN {id} ELSE IF Listed(r) = {} THEN {} ELSE r.default
      /\ a \in Registry
  BY <1>1, <1>2 DEF Added, Registry
<1> HIDE DEF s, t, n, a
<1>6. NoTwice(t)
  <2> SUFFICES ASSUME NEW i \in 1 .. n + 1, NEW j \in 1 .. n + 1, t[i] = t[j] PROVE i = j
    BY <1>2 DEF NoTwice
  <2>1. CASE i \in 1 .. n /\ j \in 1 .. n
    BY <2>1, <1>2, <1>4
  <2>2. CASE i = n + 1 /\ j \in 1 .. n
    BY <2>2, <1>2, <1>3
  <2>3. CASE j = n + 1 /\ i \in 1 .. n
    BY <2>3, <1>2, <1>3
  <2> QED BY <2>1, <2>2, <2>3, <1>1
<1>7. Listed(a) = Listed(r) \cup {id}
  <2>1. Listed(a) = {t[i] : i \in 1 .. n + 1}
    BY <1>2, <1>5, ListedOnes
  <2>2. \A i \in 1 .. n + 1 : i \in 1 .. n \/ i = n + 1
    BY <1>1
  <2>3. \A i \in 1 .. n : i \in 1 .. n + 1
    BY <1>1
  <2>4. n + 1 \in 1 .. n + 1
    BY <1>1
  <2> QED BY <2>1, <2>2, <2>3, <2>4, <1>2, <1>3
<1>8. AtMostOne(a.default) /\ a.default \subseteq Listed(a)
  BY <1>5, <1>7 DEF AtMostOne, Sound
<1> QED BY <1>5, <1>6, <1>7, <1>8 DEF Sound, a

\* Counted up to each of its members, a finite set of numbers takes every place once.
LEMMA PlacesAreTaken ==
  ASSUME NEW K \in SUBSET Int, IsFiniteSet(K)
  PROVE  /\ \A i \in K : Cardinality({j \in K : j <= i}) \in 1 .. Cardinality(K)
         /\ \A i, l \in K : Cardinality({j \in K : j <= i}) = Cardinality({j \in K : j <= l})
                              => i = l
         /\ \A k \in 1 .. Cardinality(K) :
              \E i \in K : Cardinality({j \in K : j <= i}) = k
<1> DEFINE n == Cardinality(K)
           UpTo(i) == {j \in K : j <= i}
           count == [i \in K |-> Cardinality(UpTo(i))]
<1>1. n \in Nat
  BY FS_CardinalityType
<1>2. \A i \in K : IsFiniteSet(UpTo(i)) /\ Cardinality(UpTo(i)) \in 1 .. n
  <2> TAKE i \in K
  <2>1. UpTo(i) \in SUBSET K /\ i \in UpTo(i)
    OBVIOUS
  <2> HIDE DEF UpTo
  <2>2. IsFiniteSet(UpTo(i)) /\ Cardinality(UpTo(i)) <= n
    BY <2>1, FS_Subset
  <2>3. Cardinality(UpTo(i)) \in Nat /\ Cardinality(UpTo(i)) # 0
    BY <2>1, <2>2, FS_CardinalityType, FS_EmptySet
  <2> QED BY <1>1, <2>2, <2>3
<1>3. ASSUME NEW i \in K, NEW l \in K, i < l PROVE count[i] < count[l]
  <2>0. i \in Int /\ l \in Int /\ \A j \in K : j \in Int
    OBVIOUS
  <2>1. UpTo(i) \in SUBSET UpTo(l) /\ l \in UpTo(l) /\ l \notin UpTo(i)
    <3>1. \A j \in K : j <= i => j <= l
      BY <1>3, <2>0
    <3>2. l <= l /\ ~(l <= i)
      BY <1>3, <2>0
    <3> QED BY <3>1, <3>2
  <2> HIDE DEF UpTo
  <2>2. Cardinality(UpTo(i)) <= Cardinality(UpTo(l))
    BY <1>2, <2>1, FS_Subset
  <2>3. Cardinality(UpTo(i)) # Cardinality(UpTo(l))
    BY <1>2, <2>1, FS_Subset
  <2> QED BY <1>1, <1>2, <2>2, <2>3
<1>4. count \in [K -> 1 .. n]
  BY <1>2
<1> HIDE DEF count, n
<1>5. \A i, l \in K : count[i] = count[l] => i = l
  <2> SUFFICES ASSUME NEW i \in K, NEW l \in K, count[i] = count[l] PROVE i = l
    OBVIOUS
  <2>1. ~(i < l) /\ ~(l < i)
    BY <1>1, <1>3, <1>4
  <2> QED BY <2>1
<1>6. count \in Injection(K, 1 .. n)
  BY <1>4, <1>5 DEF Injection, IsInjective
<1>7. IsFiniteSet(1 .. n) /\ Cardinality(1 .. n) = n
  BY <1>1, FS_Interval
<1>8. count \in Surjection(K, 1 .. n)
  BY <1>6, <1>7, FS_Injection DEF n
<1>9. \A k \in 1 .. n : \E i \in K : count[i] = k
  BY <1>8 DEF Surjection
<1>10. \A i \in K : count[i] = Cardinality({j \in K : j <= i})
  BY DEF count
<1> QED BY <1>4, <1>5, <1>9, <1>10 DEF n

\* filter: the others are there, each once, and nothing else is.
LEMMA WithoutIsRight ==
  ASSUME NEW s \in Seq(Ids), NoTwice(s), NEW id
  PROVE  LET w == Without(s, id)
         IN /\ w \in Seq(Ids) /\ NoTwice(w)
            /\ {w[k] : k \in 1 .. Len(w)} = {s[i] : i \in 1 .. Len(s)} \ {id}
<1> DEFINE n == Len(s)
           kept == {i \in 1 .. n : s[i] # id}
           m == Cardinality(kept)
           count == [i \in kept |-> Cardinality({j \in kept : j <= i})]
           place == [k \in 1 .. m |-> CHOOSE i \in kept : count[i] = k]
           w == Without(s, id)
<1>1. n \in Nat /\ \A i \in 1 .. n : s[i] \in Ids
  BY PartsOfSeq
<1>2. IsFiniteSet(1 .. n) /\ kept \in SUBSET (1 .. n) /\ kept \in SUBSET Int
  BY <1>1, FS_Interval
<1>3. IsFiniteSet(kept) /\ m \in Nat
  BY <1>2, FS_Subset, FS_CardinalityType
<1>4. w = [k \in 1 .. m |-> s[place[k]]]
  <2> DEFINE first(k) == CHOOSE i \in kept : Cardinality({j \in kept : j <= i}) = k
  <2>1. w = [k \in 1 .. m |-> s[first(k)]]
    BY DEF Without
  <2>2. \A k \in 1 .. m : first(k) = place[k]
    <3>1. \A i \in kept : count[i] = Cardinality({j \in kept : j <= i})
      OBVIOUS
    <3> HIDE DEF count, kept, m
    <3> QED BY <3>1
  <2> HIDE DEF place, m, first
  <2> QED BY <2>1, <2>2
<1>5. kept \subseteq 1 .. n /\ \A i \in 1 .. n : i \in kept <=> s[i] # id
  OBVIOUS
<1>6. \A i \in kept : count[i] = Cardinality({j \in kept : j <= i})
  OBVIOUS
<1> HIDE DEF kept, m, w, n, count
<1>7. /\ \A i \in kept : count[i] \in 1 .. m
      /\ \A i, l \in kept : count[i] = count[l] => i = l
      /\ \A k \in 1 .. m : \E i \in kept : count[i] = k
  <2>1. /\ \A i \in kept : Cardinality({j \in kept : j <= i}) \in 1 .. m
        /\ \A i, l \in kept :
             Cardinality({j \in kept : j <= i}) = Cardinality({j \in kept : j <= l}) => i = l
        /\ \A k \in 1 .. m : \E i \in kept : Cardinality({j \in kept : j <= i}) = k
    BY <1>2, <1>3, PlacesAreTaken, Zenon DEF m
  <2> QED BY <1>6, <2>1
<1>8. \A k \in 1 .. m : place[k] \in kept /\ count[place[k]] = k
  BY <1>7
<1> HIDE DEF place
<1>9. \A k \in 1 .. m : w[k] = s[place[k]] /\ w[k] \in Ids
  BY <1>1, <1>4, <1>5, <1>8
<1>10. w \in Seq(Ids) /\ Len(w) = m
  <2>1. w \in [1 .. m -> Ids]
    BY <1>4, <1>9
  <2> QED BY <1>3, <2>1
<1>11. \A i, j \in 1 .. n : s[i] = s[j] => i = j
  BY DEF NoTwice, n
<1>12. NoTwice(w)
  <2> SUFFICES ASSUME NEW k \in 1 .. m, NEW l \in 1 .. m, w[k] = w[l] PROVE k = l
    BY <1>10 DEF NoTwice
  <2>1. place[k] \in 1 .. n /\ place[l] \in 1 .. n /\ s[place[k]] = s[place[l]]
    BY <1>5, <1>8, <1>9
  <2>2. place[k] = place[l]
    BY <1>11, <2>1
  <2> QED BY <1>8, <2>2
<1>13. ASSUME NEW k \in 1 .. m PROVE w[k] \in {s[i] : i \in 1 .. n} \ {id}
  BY <1>5, <1>8, <1>9, ZenonT(40)
<1>14. ASSUME NEW i \in 1 .. n, s[i] # id PROVE \E k \in 1 .. m : w[k] = s[i]
  <2>1. i \in kept
    BY <1>5, <1>14
  <2>2. count[i] \in 1 .. m /\ place[count[i]] = i
    BY <1>7, <1>8, <2>1
  <2> QED BY <1>9, <2>2
<1>15. {w[k] : k \in 1 .. m} = {s[i] : i \in 1 .. n} \ {id}
  BY <1>13, <1>14
<1> QED BY <1>10, <1>12, <1>15 DEF w, n

LEMMA RemovedIsSound ==
  ASSUME NEW r, Sound(r), NEW id PROVE Sound(Removed(r, id))
<1> DEFINE rest == Without(r.profiles, id)
           moved == IF id \in r.default /\ rest # <<>> THEN {Head(rest)} ELSE {}
           a == Removed(r, id)
<1>1. r \in Registry /\ r.profiles \in Seq(Ids) /\ NoTwice(r.profiles)
  BY DEF Sound, Registry
<1>2. /\ rest \in Seq(Ids) /\ NoTwice(rest)
      /\ {rest[k] : k \in 1 .. Len(rest)}
           = {r.profiles[i] : i \in 1 .. Len(r.profiles)} \ {id}
  BY <1>1, WithoutIsRight
<1>3. a = [profiles |-> rest, default |-> (r.default \ {id}) \cup moved,
           registered |-> r.registered \ {id}]
  BY DEF Removed
<1> HIDE DEF rest, a
<1>4. moved \subseteq {rest[k] : k \in 1 .. Len(rest)}
  <2>1. CASE rest # <<>>
    <3>1. Head(rest) = rest[1] /\ 1 \in 1 .. Len(rest)
      BY <1>2, <2>1
    <3> QED BY <3>1
  <2>2. CASE rest = <<>>
    BY <2>2
  <2> QED BY <2>1, <2>2
<1>5. {rest[k] : k \in 1 .. Len(rest)} = Listed(r) \ {id}
  BY <1>1, <1>2, ListedOnes
<1>6. Listed(r) \subseteq Ids
  BY <1>1, ListedOnes
<1>7. moved \subseteq Ids
  BY <1>4, <1>5, <1>6
<1>8. a \in Registry
  BY <1>1, <1>2, <1>3, <1>7 DEF Registry
<1>9. Listed(a) = Listed(r) \ {id}
  BY <1>3, <1>5, <1>8, ListedOnes
<1>10. AtMostOne(a.default)
  BY <1>3 DEF AtMostOne, Sound
<1>11. a.default \cup a.registered \subseteq Listed(a)
  BY <1>3, <1>4, <1>5, <1>9 DEF Sound
<1>12. Sound(a)
  BY <1>2, <1>3, <1>8, <1>10, <1>11 DEF Sound
<1> QED BY <1>12 DEF a

LEMMA ChangedIsSound ==
  ASSUME NEW r, Sound(r), NEW p \in Processes, call[p].id \in Listed(r)
  PROVE  Sound(Changed(r, p))
<1> DEFINE id == call[p].id
<1>1. r \in Registry /\ id \in Ids
  BY ListedOnes DEF Sound
<1> HIDE DEF id
<1>2. CASE Changed(r, p) = Removed(r, id)
  BY <1>2, RemovedIsSound
<1>3. CASE Changed(r, p) = [r EXCEPT !.default = {id}]
  <2> DEFINE a == [r EXCEPT !.default = {id}]
  <2>1. /\ a \in Registry /\ a.profiles = r.profiles
        /\ a.default = {id} /\ a.registered = r.registered
    BY <1>1 DEF Registry
  <2> HIDE DEF a
  <2>2. Listed(a) = Listed(r)
    BY <2>1 DEF Listed
  <2>3. Sound(a)
    BY <2>1, <2>2 DEF Sound, AtMostOne, id
  <2> QED BY <1>3, <2>3 DEF a
<1>4. CASE Changed(r, p) = [r EXCEPT !.registered = @ \cup {id}]
  <2> DEFINE a == [r EXCEPT !.registered = @ \cup {id}]
  <2>1. /\ a \in Registry /\ a.profiles = r.profiles
        /\ a.default = r.default /\ a.registered = r.registered \cup {id}
    BY <1>1 DEF Registry
  <2> HIDE DEF a
  <2>2. Listed(a) = Listed(r)
    BY <2>1 DEF Listed
  <2>3. Sound(a)
    BY <2>1, <2>2 DEF Sound, id
  <2> QED BY <1>4, <2>3 DEF a
<1>5. \/ Changed(r, p) = Removed(r, id)
      \/ Changed(r, p) = [r EXCEPT !.default = {id}]
      \/ Changed(r, p) = [r EXCEPT !.registered = @ \cup {id}]
  BY DEF Changed, id
<1> QED BY <1>2, <1>3, <1>4, <1>5

-----------------------------------------------------------------------------
(***************************************************************************)
(* The inductive invariant.                                                *)
(***************************************************************************)
Told == {"none", "busy", "failed", "exists", "orphan", "left", "saved", "unknown", "done"}

Call == [op : Ops \cup {"none"}, id : Ids \cup {Null}, pc : Places, tries : 0 .. MaxTries - 1,
         first : BOOLEAN, blind : BOOLEAN, draft : Registry, told : Told]

Typed ==
  /\ Sound(registry)
  /\ secret \in [Ids -> Processes \cup {Gone, Null}]
  /\ backend \in {"file", "keychain"}
  /\ lock \in Processes \cup {Gone, Null}
  /\ stolen \in BOOLEAN /\ faults \in 0 .. MaxFaults
  /\ call \in [Processes -> Call]

Outside == {"idle", "linking", "judging", "unlinking"} \* before the task of the lock
Unstored == Outside \cup {"checking", "probing", "saving"}
Adding == {"linking", "judging", "unlinking", "checking", "probing", "saving", "adding", "rollback"}

\* Which commands get where, and what a draft is once it is to be written.
OnPath(c) ==
  /\ c.pc = "idle" => c.op = "none"
  /\ c.pc # "idle" => c.id \in Ids /\ c.op \in Ops
  /\ c.pc \in Adding => c.op = "add" /\ c.told = "none"
  /\ c.pc = "reading" => c.op \in Ops \ {"add"}
  /\ c.pc = "erasing" => c.op = "remove"
  /\ c.pc \in {"rotating", "replacing"} => c.op = "rotate"
  /\ c.pc \in {"registering", "changing"} => c.op # "add" \/ c.told = "saved"
  /\ c.pc = "writing" =>
       Sound(c.draft) /\ (c.op = "add" /\ c.told = "none" => c.id \in Listed(c.draft))

OnPaths == \A p \in Processes : OnPath(call[p])

Locked == ~stolen => \A p \in Processes : Saving(p) => lock = p

NothingStored ==
  \A p \in Processes : call[p].pc \in Unstored => \A i \in Ids : secret[i] # p

\* What there is where a wizard has looked: nothing, or then its own secret.
OwnSecret(p) ==
  LET c == call[p]
  IN /\ c.pc = "saving" /\ ~c.blind => secret[c.id] = Null
     /\ Saving(p) /\ c.pc \in {"adding", "writing"} => secret[c.id] = p
     /\ c.pc = "rollback" /\ ~c.blind => secret[c.id] \in {p, Null}

Looked == ~stolen => \A p \in Processes : Meddled(call[p].id) \/ OwnSecret(p)

RegInv == Typed /\ OnPaths /\ Locked /\ NothingStored /\ Looked

LEMMA InvIsConsistent == ASSUME RegInv PROVE RegistryConsistent
<1>1. Listed(registry) \subseteq Ids
  BY ListedOnes DEF RegInv, Typed, Sound
<1>2. TypeOK
  BY <1>1 DEF RegInv, Typed, TypeOK, Call
<1>3. Consistent(registry)
  BY SoundIsConsistent DEF RegInv, Typed
<1>4. SavingExcludes
  BY DEF RegInv, Locked, SavingExcludes
<1> QED BY <1>2, <1>3, <1>4 DEF RegistryConsistent

-----------------------------------------------------------------------------
(***************************************************************************)
(* What a step does to the calls: p moves, the others stay.                *)
(***************************************************************************)
OthersStay(p) ==
  /\ call' \in [Processes -> Call]
  /\ \A q \in Processes \ {p} : call'[q] = call[q]

SameCommand(p) ==
  /\ call'[p].op = call[p].op /\ call'[p].id = call[p].id

SameMemory(p) ==
  /\ call'[p].first = call[p].first /\ call'[p].blind = call[p].blind
  /\ call'[p].draft = call[p].draft

Moved(p, place, what) ==
  /\ OthersStay(p) /\ SameCommand(p) /\ SameMemory(p)
  /\ call'[p].pc = place /\ call'[p].told = what

LEMMA GoToMoves ==
  ASSUME Typed, NEW p \in Processes, NEW place \in Places, GoTo(p, place)
  PROVE  Moved(p, place, call[p].told)
<1>1. call[p] \in Call
  BY DEF Typed
<1>2. call' = [call EXCEPT ![p] = [call[p] EXCEPT !.pc = place]]
  BY DEF GoTo
<1> DEFINE d == [call[p] EXCEPT !.pc = place]
<1>3. /\ d \in Call /\ d.pc = place /\ d.told = call[p].told
      /\ d.op = call[p].op /\ d.id = call[p].id
      /\ d.first = call[p].first /\ d.blind = call[p].blind /\ d.draft = call[p].draft
  BY <1>1 DEF Call
<1> HIDE DEF d
<1>4. call' = [call EXCEPT ![p] = d]
  BY <1>2 DEF d
<1>5. call' \in [Processes -> Call] /\ call'[p] = d
      /\ \A q \in Processes \ {p} : call'[q] = call[q]
  BY <1>3, <1>4 DEF Typed
<1> QED BY <1>3, <1>5 DEF Moved, OthersStay, SameCommand, SameMemory

LEMMA TellMoves ==
  ASSUME Typed, NEW p \in Processes, NEW place \in Places, NEW what \in Told,
         Tell(p, what, place)
  PROVE  Moved(p, place, what)
<1>1. call[p] \in Call
  BY DEF Typed
<1> DEFINE d == [call[p] EXCEPT !.pc = place, !.told = what]
<1>2. /\ d \in Call /\ d.pc = place /\ d.told = what
      /\ d.op = call[p].op /\ d.id = call[p].id
      /\ d.first = call[p].first /\ d.blind = call[p].blind /\ d.draft = call[p].draft
  BY <1>1 DEF Call
<1>3. call' = [call EXCEPT ![p] = d]
  BY DEF Tell, Typed
<1> HIDE DEF d
<1>4. call' \in [Processes -> Call] /\ call'[p] = d
      /\ \A q \in Processes \ {p} : call'[q] = call[q]
  BY <1>2, <1>3 DEF Typed
<1> QED BY <1>2, <1>4 DEF Moved, OthersStay, SameCommand, SameMemory

LEMMA FinishMoves ==
  ASSUME Typed, NEW p \in Processes, NEW what \in Told, Finish(p, what)
  PROVE  Moved(p, "ended", IF call[p].told = "saved" THEN "saved" ELSE what)
<1> DEFINE word == IF call[p].told = "saved" THEN "saved" ELSE what
<1>1. Tell(p, word, "ended")
  BY DEF Finish, Tell, Typed
<1>2. word \in Told /\ "ended" \in Places
  BY DEF Told, Places, Ended
<1> HIDE DEF word
<1>3. Moved(p, "ended", word)
  BY <1>1, <1>2, TellMoves
<1> QED BY <1>3 DEF word

-----------------------------------------------------------------------------
(***************************************************************************)
(* What a step of p leaves alone.                                          *)
(***************************************************************************)
LEMMA PathsKept ==
  ASSUME RegInv, NEW p \in Processes, OthersStay(p), OnPath(call'[p])
  PROVE  OnPaths'
BY DEF RegInv, OnPaths, OthersStay

LEMMA MeddledStays ==
  ASSUME RegInv, NEW p \in Processes, OthersStay(p),
         SameCommand(p) \/ At(p, "idle")
  PROVE  \A id : Meddled(id) =>
           \E q \in Processes : call'[q].id = id /\ call'[q].op \in {"remove", "rotate"}
<1> SUFFICES ASSUME NEW id, Meddled(id)
             PROVE  \E q \in Processes : call'[q].id = id /\ call'[q].op \in {"remove", "rotate"}
  OBVIOUS
<1>1. PICK q \in Processes : call[q].id = id /\ call[q].op \in {"remove", "rotate"}
  BY DEF Meddled
<1>2. CASE q = p
  <2>1. ~At(p, "idle")
    BY <1>1, <1>2 DEF RegInv, OnPaths, OnPath, At
  <2>2. call'[q].id = id /\ call'[q].op \in {"remove", "rotate"}
    BY <1>1, <1>2, <2>1 DEF SameCommand
  <2> QED BY <2>2
<1>3. CASE q # p
  <2>1. call'[q] = call[q]
    BY <1>3 DEF OthersStay
  <2> QED BY <1>1, <2>1
<1> QED BY <1>2, <1>3

LEMMA LockedKept ==
  ASSUME RegInv, NEW p \in Processes, OthersStay(p), UNCHANGED lockVars,
         Saving(p)' => Saving(p)
  PROVE  Locked'
<1>1. \A q \in Processes \ {p} : Saving(q)' => Saving(q)
  BY DEF OthersStay, Saving, At
<1> QED BY <1>1 DEF RegInv, Locked, lockVars

LEMMA NothingStoredKept ==
  ASSUME RegInv, NEW p \in Processes, OthersStay(p), UNCHANGED secret,
         call'[p].pc \in Unstored => call[p].pc \in Unstored
  PROVE  NothingStored'
BY DEF RegInv, NothingStored, OthersStay

LEMMA LookedKept ==
  ASSUME RegInv, NEW p \in Processes, OthersStay(p), stolen => stolen', UNCHANGED secret,
         SameCommand(p) \/ At(p, "idle"),
         ~stolen /\ (Meddled(call[p].id) \/ OwnSecret(p)) => Meddled(call[p].id)' \/ OwnSecret(p)'
  PROVE  Looked'
<1> SUFFICES ASSUME ~stolen', NEW q \in Processes
             PROVE  Meddled(call[q].id)' \/ OwnSecret(q)'
  BY DEF Looked
<1>1. Meddled(call[q].id) \/ OwnSecret(q)
  BY DEF RegInv, Looked
<1>2. CASE q = p
  BY <1>1, <1>2
<1>3. CASE q # p
  <2>1. call'[q] = call[q]
    BY <1>3 DEF OthersStay
  <2>2. Meddled(call[q].id) => Meddled(call[q].id)'
    BY <2>1, MeddledStays DEF Meddled
  <2>3. OwnSecret(q) => OwnSecret(q)'
    BY <2>1 DEF OwnSecret, Saving, At
  <2> QED BY <1>1, <2>2, <2>3
<1> QED BY <1>2, <1>3

\* A step of p that changes no secret.
LEMMA StepKeeps ==
  ASSUME RegInv, NEW p \in Processes, OthersStay(p), SameCommand(p) \/ At(p, "idle"),
         UNCHANGED <<secret, backend>>, Sound(registry'), faults' \in 0 .. MaxFaults,
         lock' \in Processes \cup {Gone, Null}, stolen' \in BOOLEAN, stolen => stolen',
         OnPath(call'[p]), Locked',
         call'[p].pc \in Unstored => call[p].pc \in Unstored,
         ~stolen => OwnSecret(p)' \/ (SameCommand(p) /\ ~OwnSecret(p))
  PROVE  RegInv'
<1>1. Typed'
  BY DEF RegInv, Typed, OthersStay
<1>2. OnPaths'
  BY PathsKept
<1>3. NothingStored'
  BY NothingStoredKept
<1>4. ~stolen /\ (Meddled(call[p].id) \/ OwnSecret(p)) => Meddled(call[p].id)' \/ OwnSecret(p)'
  <2> SUFFICES ASSUME ~stolen, ~OwnSecret(p)', Meddled(call[p].id) \/ OwnSecret(p)
               PROVE  Meddled(call[p].id)'
    OBVIOUS
  <2>1. SameCommand(p) /\ Meddled(call[p].id)
    OBVIOUS
  <2> QED BY <2>1, MeddledStays DEF Meddled, SameCommand
<1>5. Looked'
  BY <1>4, LookedKept
<1> QED BY <1>1, <1>2, <1>3, <1>5 DEF RegInv

\* p moves on, and touches neither a secret nor the lock.
LEMMA MoveKeeps ==
  ASSUME RegInv, NEW p \in Processes, NEW place, NEW what, Moved(p, place, what), ~At(p, "idle"),
         UNCHANGED <<secret, backend, lockVars>>, Sound(registry'), faults' \in 0 .. MaxFaults,
         place \notin Outside \/ (place = "linking" /\ At(p, "judging"))
           \/ (place = "judging" /\ At(p, "linking")) \/ (place = "unlinking" /\ At(p, "judging")),
         OnPath(call'[p]), Saving(p)' => Saving(p),
         place \in {"probing", "saving"} => call[p].pc \in Unstored,
         place # "checking",
         OwnSecret(p) => OwnSecret(p)'
  PROVE  RegInv'
<1>1. OthersStay(p) /\ SameCommand(p) /\ call'[p].pc = place
  BY DEF Moved
<1>2. Locked'
  BY <1>1, LockedKept
<1>3. call'[p].pc \in Unstored => call[p].pc \in Unstored
  BY <1>1 DEF Unstored, Outside, At
<1>4. /\ UNCHANGED <<secret, backend>> /\ stolen' = stolen /\ lock' = lock
      /\ lock \in Processes \cup {Gone, Null} /\ stolen \in BOOLEAN
  BY DEF lockVars, RegInv, Typed
<1> QED BY <1>1, <1>2, <1>3, <1>4, StepKeeps

\* What p does to the secret of its id concerns those only who are at work on that id.
LEMMA SecretStepKeeps ==
  ASSUME RegInv, NEW p \in Processes, OthersStay(p), SameCommand(p),
         UNCHANGED <<registry, backend, faults, lockVars>>,
         NEW s \in {p, Null, secret[call[p].id]}, secret' = [secret EXCEPT ![call[p].id] = s],
         call[p].id \in Ids, OnPath(call'[p]), Saving(p)' => Saving(p),
         call'[p].pc \notin Unstored, Saving(p) \/ Meddled(call[p].id),
         ~stolen => OwnSecret(p)' \/ (SameCommand(p) /\ ~OwnSecret(p))
  PROVE  RegInv'
<1> DEFINE id == call[p].id
<1>1. /\ secret' \in [Ids -> Processes \cup {Gone, Null}] /\ secret'[id] = s
      /\ \A i \in Ids \ {id} : secret'[i] = secret[i]
  BY DEF RegInv, Typed
<1>2. Typed'
  BY <1>1 DEF RegInv, Typed, OthersStay, lockVars
<1>3. OnPaths' /\ Locked'
  BY PathsKept, LockedKept
<1>4. NothingStored'
  <2> SUFFICES ASSUME NEW q \in Processes, call'[q].pc \in Unstored, NEW i \in Ids
               PROVE  secret'[i] # q
    BY DEF NothingStored
  <2>1. q # p /\ call'[q] = call[q]
    BY DEF OthersStay
  <2>2. secret[i] # q /\ Null # q
    BY <2>1, RegistryAssumption DEF RegInv, NothingStored
  <2> QED BY <1>1, <2>1, <2>2
<1>5. \A j : Meddled(j) => Meddled(j)'
  BY MeddledStays DEF Meddled
<1>6. Looked'
  <2> SUFFICES ASSUME ~stolen, NEW q \in Processes
               PROVE  Meddled(call[q].id)' \/ OwnSecret(q)'
    BY DEF Looked, lockVars
  <2>1. Meddled(call[q].id) \/ OwnSecret(q)
    BY DEF RegInv, Looked
  <2>2. CASE q = p
    BY <1>5, <2>1, <2>2 DEF SameCommand, Meddled
  <2>3. CASE q # p
    <3>1. call'[q] = call[q]
      BY <2>3 DEF OthersStay
    <3>2. CASE Meddled(call[q].id)
      BY <1>5, <3>1, <3>2 DEF Meddled
    <3>3. CASE ~Meddled(call[q].id) /\ call[q].id = id
      <4>1. Saving(p) /\ lock = p /\ ~Saving(q)
        BY <2>3, <3>3 DEF RegInv, Locked
      <4> QED BY <3>1, <4>1 DEF OwnSecret, Saving, At
    <3>4. CASE call[q].id # id /\ OwnSecret(q)
      <4>1. CASE call[q].pc = "idle"
        BY <3>1, <4>1 DEF OwnSecret, Saving, At
      <4>2. CASE call[q].pc # "idle"
        <5>1. call[q].id \in Ids \ {id}
          BY <3>4, <4>2 DEF RegInv, OnPaths, OnPath
        <5>2. secret'[call[q].id] = secret[call[q].id]
          BY <1>1, <5>1
        <5> QED BY <3>1, <3>4, <5>2 DEF OwnSecret, Saving, At
      <4> QED BY <4>1, <4>2
    <3> QED BY <2>1, <3>2, <3>3, <3>4
  <2> QED BY <2>2, <2>3
<1> QED BY <1>2, <1>3, <1>4, <1>6 DEF RegInv

LEMMA ReadsAreSound ==
  ASSUME RegInv, NEW r \in Readable(registry, NoRegistry)
  PROVE  Sound(r[1]) /\ r[2] \in 0 .. MaxFaults
<1>1. faults \in Nat /\ MaxFaults \in Nat /\ faults <= MaxFaults
  BY RegistryAssumption DEF RegInv, Typed
<1>2. CASE r = <<registry, faults>>
  BY <1>1, <1>2 DEF RegInv, Typed
<1>3. CASE faults < MaxFaults /\ r = <<NoRegistry, faults + 1>>
  BY <1>1, <1>3, NoRegistryIsSound
<1> QED BY <1>2, <1>3 DEF Readable

LEMMA CallReplaced ==
  ASSUME RegInv, NEW p \in Processes, NEW d \in Call, call' = [call EXCEPT ![p] = d]
  PROVE  OthersStay(p) /\ call'[p] = d
BY DEF RegInv, Typed, OthersStay

LEMMA CallOf ==
  ASSUME RegInv, NEW p \in Processes
  PROVE  /\ call[p] \in Call /\ OnPath(call[p]) /\ Sound(registry) /\ faults \in 0 .. MaxFaults
         /\ lock \in Processes \cup {Gone, Null} /\ stolen \in BOOLEAN
BY DEF RegInv, Typed, OnPaths

-----------------------------------------------------------------------------
(***************************************************************************)
(* The lock.                                                               *)
(***************************************************************************)
LEMMA BeginKeeps == ASSUME RegInv, NEW p \in Processes, Begin(p) PROVE RegInv'
<1>1. PICK op \in Ops, id \in Ids :
        call' = [call EXCEPT ![p] = [Idle EXCEPT
          !.op = op, !.id = id, !.pc = IF op = "add" THEN "linking" ELSE "reading"]]
  BY DEF Begin
<1> DEFINE d == [Idle EXCEPT
          !.op = op, !.id = id, !.pc = IF op = "add" THEN "linking" ELSE "reading"]
<1>2. NoRegistry \in Registry /\ 0 \in 0 .. MaxTries - 1 /\ "none" \in Told
  BY NoRegistryIsSound, RegistryAssumption DEF Sound, Told
<1>3. /\ d \in Call /\ d.op = op /\ d.id = id /\ d.told = "none"
      /\ d.pc = IF op = "add" THEN "linking" ELSE "reading"
  BY <1>2 DEF Idle, Call, Places
<1> HIDE DEF d
<1>4. OthersStay(p) /\ call'[p] = d
  BY <1>1, <1>3, CallReplaced DEF d
<1>5. OnPath(d)
  BY <1>3 DEF OnPath, Adding
<1>6. ~Saving(p)' /\ OwnSecret(p)'
  BY <1>3, <1>4 DEF OwnSecret, Saving, At
<1>7. At(p, "idle") /\ call[p].pc \in Unstored
  BY DEF Begin, At, Unstored, Outside
<1>8. UNCHANGED <<registry, secret, backend, faults, lock, stolen>> /\ UNCHANGED lockVars
  BY DEF Begin, fileVars, lockVars
<1>9. Locked'
  BY <1>4, <1>6, <1>8, LockedKept
<1> QED BY <1>4, <1>5, <1>6, <1>7, <1>8, <1>9, CallOf, StepKeeps

LEMMA LinkKeeps == ASSUME RegInv, NEW p \in Processes, Link(p) PROVE RegInv'
<1>1. /\ At(p, "linking") /\ call[p].op = "add" /\ call[p].told = "none"
      /\ call[p].id \in Ids /\ call[p].op \in Ops
  BY CallOf DEF Link, At, OnPath, Adding
<1>2. UNCHANGED <<registry, secret, backend, faults, stolen>>
  BY DEF Link, fileVars
<1>3. CASE lock = Null /\ lock' = p /\ GoTo(p, "checking")
  <2>1. Moved(p, "checking", call[p].told)
    BY <1>3, GoToMoves DEF RegInv, Places
  <2>2. OthersStay(p) /\ SameCommand(p) /\ OnPath(call'[p])
    BY <1>1, <2>1 DEF Moved, SameCommand, OnPath, Adding
  <2>3. Locked'
    <3> SUFFICES ASSUME ~stolen, NEW q \in Processes, Saving(q)', q # p PROVE FALSE
      BY <1>2, <1>3 DEF Locked
    <3>1. Saving(q)
      BY <2>2 DEF OthersStay, Saving, At
    <3> QED BY <1>3, <3>1, RegistryAssumption DEF RegInv, Locked
  <2>4. OwnSecret(p)'
    BY <2>1 DEF Moved, OwnSecret, Saving, At
  <2>5. call[p].pc \in Unstored
    BY <1>1 DEF At, Unstored, Outside
  <2> QED BY <1>2, <1>3, <2>2, <2>3, <2>4, <2>5, CallOf, StepKeeps
<1>4. CASE lock # Null /\ GoTo(p, "judging") /\ UNCHANGED lock
  <2>1. Moved(p, "judging", call[p].told)
    BY <1>4, GoToMoves DEF RegInv, Places
  <2>2. OnPath(call'[p])
    BY <1>1, <2>1 DEF Moved, SameCommand, OnPath, Adding
  <2>3. ~Saving(p)' /\ OwnSecret(p)' /\ ~At(p, "idle")
    BY <1>1, <2>1 DEF Moved, OwnSecret, Saving, At
  <2> QED BY <1>1, <1>2, <1>4, <2>1, <2>2, <2>3, CallOf, MoveKeeps DEF lockVars
<1> QED BY <1>3, <1>4 DEF Link

LEMMA JudgeKeeps == ASSUME RegInv, NEW p \in Processes, Judge(p) PROVE RegInv'
<1>1. /\ At(p, "judging") /\ call[p].op = "add" /\ call[p].told = "none"
      /\ call[p].id \in Ids /\ call[p].op \in Ops /\ ~At(p, "idle")
  BY CallOf DEF Judge, At, OnPath, Adding
<1>2. UNCHANGED <<registry, secret, backend, faults, lockVars>>
  BY DEF Judge, fileVars
<1>3. CASE Tell(p, "busy", "ended")
  <2>1. Moved(p, "ended", "busy")
    BY <1>3, TellMoves DEF RegInv, Places, Ended, Told
  <2>2. OnPath(call'[p]) /\ ~Saving(p)' /\ OwnSecret(p)'
    BY <1>1, <2>1 DEF Moved, SameCommand, OnPath, Adding, OwnSecret, Saving, At
  <2> QED BY <1>1, <1>2, <2>1, <2>2, CallOf, MoveKeeps DEF Outside
<1>4. CASE GoTo(p, "unlinking")
  <2>1. Moved(p, "unlinking", call[p].told)
    BY <1>4, GoToMoves DEF RegInv, Places
  <2>2. OnPath(call'[p]) /\ ~Saving(p)' /\ OwnSecret(p)'
    BY <1>1, <2>1 DEF Moved, SameCommand, OnPath, Adding, OwnSecret, Saving, At
  <2> QED BY <1>1, <1>2, <2>1, <2>2, CallOf, MoveKeeps
<1> QED BY <1>3, <1>4 DEF Judge

\* Whose lock is unlinked while he saves has been robbed.
LEMMA UnlinkKeepsLocked ==
  ASSUME RegInv, NEW p \in Processes, Unlink(p), OthersStay(p), ~Saving(p)' PROVE Locked'
<1> SUFFICES ASSUME ~stolen', NEW q \in Processes, Saving(q)' PROVE FALSE
  BY DEF Locked
<1>1. q # p /\ Saving(q) /\ Running(q)
  BY DEF OthersStay, Saving, At, Running, Ended
<1>2. lock = q /\ ~stolen
  BY <1>1 DEF RegInv, Locked, Unlink
<1> QED BY <1>1, <1>2 DEF Unlink

LEMMA RecoverKeeps == ASSUME RegInv, NEW p \in Processes, Recover(p) PROVE RegInv'
<1>1. /\ At(p, "unlinking") /\ call[p].op = "add" /\ call[p].told = "none"
      /\ call[p].id \in Ids /\ call[p].op \in Ops /\ call[p].pc \in Unstored
  BY CallOf DEF Recover, At, OnPath, Adding, Unstored, Outside
<1>2. UNCHANGED <<registry, secret, backend, faults>> /\ Unlink(p)
  BY DEF Recover, fileVars
<1>3. /\ lock' \in Processes \cup {Gone, Null} /\ stolen' \in BOOLEAN
      /\ stolen => stolen'
  BY <1>2, CallOf DEF Unlink
<1>4. /\ OthersStay(p) /\ SameCommand(p) /\ OnPath(call'[p])
      /\ call'[p].pc \in {"ended", "linking"}
  <2>1. CASE Tell(p, "failed", "ended")
    <3>1. Moved(p, "ended", "failed")
      BY <2>1, TellMoves DEF RegInv, Places, Ended, Told
    <3> QED BY <1>1, <3>1 DEF Moved, SameCommand, OnPath, Adding
  <2>2. CASE /\ call[p].tries + 1 # MaxTries
             /\ call' = [call EXCEPT ![p].tries = @ + 1, ![p].pc = "linking"]
    <3> DEFINE d == [call[p] EXCEPT !.tries = @ + 1, !.pc = "linking"]
    <3>1. call[p] \in Call /\ call[p].tries \in 0 .. MaxTries - 1
      BY CallOf DEF Call
    <3>2. call[p].tries + 1 \in 0 .. MaxTries - 1
      BY <2>2, <3>1, RegistryAssumption
    <3>3. /\ d \in Call /\ d.op = call[p].op /\ d.id = call[p].id
          /\ d.told = call[p].told /\ d.pc = "linking"
      BY <3>1, <3>2 DEF Call, Places
    <3>4. call' = [call EXCEPT ![p] = d]
      BY <2>2 DEF RegInv, Typed
    <3> HIDE DEF d
    <3>5. OthersStay(p) /\ call'[p] = d
      BY <3>3, <3>4, CallReplaced
    <3> QED BY <1>1, <3>3, <3>5 DEF SameCommand, OnPath, Adding
  <2> QED BY <2>1, <2>2 DEF Recover
<1>5. ~Saving(p)' /\ OwnSecret(p)'
  BY <1>4 DEF OwnSecret, Saving, At
<1>6. Locked'
  BY <1>2, <1>4, <1>5, UnlinkKeepsLocked
<1> QED BY <1>1, <1>2, <1>3, <1>4, <1>5, <1>6, CallOf, StepKeeps

LEMMA ReleaseKeeps == ASSUME RegInv, NEW p \in Processes, Release(p) PROVE RegInv'
<1>1. At(p, "releasing") /\ call[p].id \in Ids /\ call[p].op \in Ops /\ ~At(p, "idle")
  BY CallOf DEF Release, At, OnPath
<1>2. UNCHANGED <<registry, secret, backend, faults, lockVars>>
  BY DEF Release, fileVars
<1> DEFINE place == IF lock = p THEN "unlocking" ELSE "released"
<1>3. place \in {"unlocking", "released"} /\ GoTo(p, place)
  BY DEF Release
<1> HIDE DEF place
<1>4. Moved(p, place, call[p].told)
  BY <1>3, GoToMoves DEF RegInv, Places
<1>5. OnPath(call'[p]) /\ ~Saving(p)' /\ OwnSecret(p)'
  BY <1>1, <1>3, <1>4 DEF Moved, SameCommand, OnPath, Adding, OwnSecret, Saving, At
<1>6. place \notin Outside \cup {"checking", "probing", "saving"}
  BY <1>3 DEF Outside
<1> QED BY <1>1, <1>2, <1>4, <1>5, <1>6, CallOf, MoveKeeps

LEMMA UnlockKeeps == ASSUME RegInv, NEW p \in Processes, Unlock(p) PROVE RegInv'
<1>1. At(p, "unlocking") /\ call[p].id \in Ids /\ call[p].op \in Ops
  BY CallOf DEF Unlock, At, OnPath
<1>2. UNCHANGED <<registry, secret, backend, faults>> /\ Unlink(p)
  BY DEF Unlock, fileVars
<1>3. /\ lock' \in Processes \cup {Gone, Null} /\ stolen' \in BOOLEAN
      /\ stolen => stolen'
  BY <1>2, CallOf DEF Unlink
<1>4. Moved(p, "released", call[p].told)
  BY GoToMoves DEF Unlock, RegInv, Places
<1>5. OthersStay(p) /\ SameCommand(p) /\ OnPath(call'[p]) /\ ~Saving(p)' /\ OwnSecret(p)'
  BY <1>1, <1>4 DEF Moved, SameCommand, OnPath, Adding, OwnSecret, Saving, At
<1>6. Locked' /\ call'[p].pc \notin Unstored
  BY <1>2, <1>4, <1>5, UnlinkKeepsLocked DEF Moved, Unstored, Outside
<1> QED BY <1>1, <1>2, <1>3, <1>5, <1>6, CallOf, StepKeeps

LEMMA OfferKeeps == ASSUME RegInv, NEW p \in Processes, Offer(p) PROVE RegInv'
<1>1. At(p, "released") /\ call[p].id \in Ids /\ call[p].op \in Ops /\ ~At(p, "idle")
  BY CallOf DEF Offer, At, OnPath
<1>2. UNCHANGED <<registry, secret, backend, faults, lockVars>>
  BY DEF Offer, fileVars
<1>3. PICK place \in {"ended", "registering"} :
        GoTo(p, place) /\ (place = "registering" => call[p].told = "saved")
  BY DEF Offer
<1>4. Moved(p, place, call[p].told)
  BY <1>3, GoToMoves DEF RegInv, Places, Ended
<1>5. OnPath(call'[p]) /\ ~Saving(p)' /\ OwnSecret(p)'
  BY <1>1, <1>3, <1>4 DEF Moved, SameCommand, OnPath, Adding, OwnSecret, Saving, At
<1>6. place \notin Outside \cup {"checking", "probing", "saving"}
  BY <1>3 DEF Outside
<1> QED BY <1>1, <1>2, <1>4, <1>5, <1>6, CallOf, MoveKeeps

-----------------------------------------------------------------------------
(***************************************************************************)
(* The task under the lock.                                                *)
(***************************************************************************)
LEMMA CheckKeeps == ASSUME RegInv, NEW p \in Processes, Check(p) PROVE RegInv'
<1>1. /\ At(p, "checking") /\ call[p].op = "add" /\ call[p].told = "none"
      /\ call[p].id \in Ids /\ call[p].op \in Ops
      /\ call[p].pc \in Unstored /\ Saving(p) /\ ~At(p, "idle")
  BY CallOf DEF Check, At, OnPath, Adding, Unstored, Saving
<1>2. UNCHANGED <<registry, secret, backend, lockVars, lock, stolen>>
  BY DEF Check, lockVars
<1>3. PICK r \in Readable(registry, NoRegistry) :
        /\ faults' = r[2]
        /\ IF call[p].id \in Listed(r[1]) THEN Tell(p, "exists", "releasing")
           ELSE call' = [call EXCEPT ![p].pc = "probing", ![p].first = Listed(r[1]) = {}]
  BY DEF Check
<1>4. faults' \in 0 .. MaxFaults
  BY <1>3, ReadsAreSound
<1>5. CASE Tell(p, "exists", "releasing")
  <2>1. Moved(p, "releasing", "exists")
    BY <1>5, TellMoves DEF RegInv, Places, Told
  <2>2. OnPath(call'[p]) /\ ~Saving(p)' /\ OwnSecret(p)'
    BY <1>1, <2>1 DEF Moved, SameCommand, OnPath, Adding, OwnSecret, Saving, At
  <2> QED BY <1>1, <1>2, <1>4, <2>1, <2>2, CallOf, MoveKeeps DEF Outside
<1>6. CASE call' = [call EXCEPT ![p].pc = "probing", ![p].first = Listed(r[1]) = {}]
  <2> DEFINE d == [call[p] EXCEPT !.pc = "probing", !.first = Listed(r[1]) = {}]
  <2>1. call[p] \in Call /\ (Listed(r[1]) = {}) \in BOOLEAN
    BY CallOf
  <2>2. /\ d \in Call /\ d.op = call[p].op /\ d.id = call[p].id
        /\ d.told = call[p].told /\ d.pc = "probing"
    BY <2>1 DEF Call, Places
  <2>3. call' = [call EXCEPT ![p] = d]
    BY <1>6 DEF RegInv, Typed
  <2> HIDE DEF d
  <2>4. OthersStay(p) /\ call'[p] = d
    BY <2>2, <2>3, CallReplaced
  <2>5. SameCommand(p) /\ OnPath(call'[p]) /\ OwnSecret(p)'
    BY <1>1, <2>2, <2>4 DEF SameCommand, OnPath, Adding, OwnSecret, Saving, At
  <2>6. Locked'
    BY <1>1, <1>2, <2>4, LockedKept
  <2> QED BY <1>1, <1>2, <1>4, <2>4, <2>5, <2>6, CallOf, StepKeeps
<1> QED BY <1>3, <1>5, <1>6

LEMMA ProbeKeeps == ASSUME RegInv, NEW p \in Processes, Probe(p) PROVE RegInv'
<1>1. /\ At(p, "probing") /\ call[p].op = "add" /\ call[p].told = "none"
      /\ call[p].id \in Ids /\ call[p].op \in Ops
      /\ call[p].pc \in Unstored /\ Saving(p) /\ ~At(p, "idle")
  BY CallOf DEF Probe, At, OnPath, Adding, Unstored, Saving
<1>2. UNCHANGED <<registry, secret, backend, lockVars, lock, stolen>>
  BY DEF Probe, lockVars
<1>3. PICK s \in Readable(secret[call[p].id], Null) :
        /\ faults' = s[2]
        /\ IF s[1] # Null THEN Tell(p, "orphan", "releasing")
           ELSE call' = [call EXCEPT ![p].pc = "saving", ![p].blind = s[2] # faults]
  BY DEF Probe
<1>4. faults' \in 0 .. MaxFaults /\ (s[2] = faults => s[1] = secret[call[p].id])
  <2>1. faults \in Nat /\ MaxFaults \in Nat /\ faults <= MaxFaults
    BY RegistryAssumption, CallOf
  <2>2. CASE s = <<secret[call[p].id], faults>>
    BY <1>3, <2>1, <2>2
  <2>3. CASE faults < MaxFaults /\ s = <<Null, faults + 1>>
    BY <1>3, <2>1, <2>3
  <2> QED BY <2>2, <2>3 DEF Readable
<1>5. CASE Tell(p, "orphan", "releasing")
  <2>1. Moved(p, "releasing", "orphan")
    BY <1>5, TellMoves DEF RegInv, Places, Told
  <2>2. OnPath(call'[p]) /\ ~Saving(p)' /\ OwnSecret(p)'
    BY <1>1, <2>1 DEF Moved, SameCommand, OnPath, Adding, OwnSecret, Saving, At
  <2> QED BY <1>1, <1>2, <1>4, <2>1, <2>2, CallOf, MoveKeeps DEF Outside
<1>6. CASE /\ s[1] = Null
           /\ call' = [call EXCEPT ![p].pc = "saving", ![p].blind = s[2] # faults]
  <2> DEFINE d == [call[p] EXCEPT !.pc = "saving", !.blind = s[2] # faults]
  <2>1. call[p] \in Call /\ (s[2] # faults) \in BOOLEAN
    BY CallOf
  <2>2. /\ d \in Call /\ d.op = call[p].op /\ d.id = call[p].id
        /\ d.told = call[p].told /\ d.pc = "saving" /\ d.blind = (s[2] # faults)
    BY <2>1 DEF Call, Places
  <2>3. call' = [call EXCEPT ![p] = d]
    BY <1>6 DEF RegInv, Typed
  <2> HIDE DEF d
  <2>4. OthersStay(p) /\ call'[p] = d
    BY <2>2, <2>3, CallReplaced
  <2>5. SameCommand(p) /\ OnPath(call'[p])
    BY <1>1, <2>2, <2>4 DEF SameCommand, OnPath, Adding
  <2>6. OwnSecret(p)'
    BY <1>1, <1>2, <1>4, <1>6, <2>2, <2>4 DEF OwnSecret, Saving, At
  <2>7. Locked'
    BY <1>1, <1>2, <2>4, LockedKept
  <2> QED BY <1>1, <1>2, <1>4, <2>4, <2>5, <2>6, <2>7, CallOf, StepKeeps
<1> QED BY <1>3, <1>5, <1>6

LEMMA SaveKeeps == ASSUME RegInv, NEW p \in Processes, Save(p) PROVE RegInv'
<1>1. /\ At(p, "saving") /\ call[p].op = "add" /\ call[p].told = "none"
      /\ call[p].id \in Ids /\ call[p].op \in Ops /\ Saving(p)
  BY CallOf DEF Save, At, OnPath, Adding, Saving
<1>2. UNCHANGED <<registry, backend, faults, lockVars>> /\ secret \in [Ids -> Processes \cup {Gone, Null}]
  BY DEF Save, RegInv, Typed
<1>3. PICK place \in {"adding", "rollback"} : GoTo(p, place)
  BY DEF Save
<1>4. Moved(p, place, call[p].told)
  BY <1>3, GoToMoves DEF RegInv, Places
<1>5. /\ OthersStay(p) /\ SameCommand(p) /\ OnPath(call'[p])
      /\ call'[p].pc = place /\ call'[p].pc \notin Unstored
      /\ call'[p].blind = call[p].blind /\ call'[p].id = call[p].id
  BY <1>1, <1>3, <1>4 DEF Moved, SameCommand, SameMemory, OnPath, Adding, Unstored, Outside
<1>6. CASE Store(p)
  <2>1. secret' = [secret EXCEPT ![call[p].id] = p] /\ secret'[call[p].id] = p
    BY <1>1, <1>2, <1>6 DEF Store
  <2>2. OwnSecret(p)'
    BY <1>5, <2>1 DEF OwnSecret, Saving, At
  <2> QED BY <1>1, <1>2, <1>5, <2>1, <2>2, SecretStepKeeps
<1>7. CASE UNCHANGED secret /\ GoTo(p, "rollback")
  <2>1. Moved(p, "rollback", call[p].told)
    BY <1>7, GoToMoves DEF RegInv, Places
  <2>2. OnPath(call'[p]) /\ ~At(p, "idle")
    BY <1>1, <2>1 DEF Moved, SameCommand, OnPath, Adding, At
  <2>3. OwnSecret(p) => OwnSecret(p)'
    BY <1>1, <1>5, <1>7, <2>1 DEF Moved, OwnSecret, Saving, At
  <2> QED BY <1>1, <1>2, <1>7, <2>1, <2>2, <2>3, CallOf, MoveKeeps DEF Outside
<1> QED BY <1>6, <1>7 DEF Save

LEMMA AddKeeps == ASSUME RegInv, NEW p \in Processes, Add(p) PROVE RegInv'
<1>1. /\ At(p, "adding") /\ call[p].op = "add" /\ call[p].told = "none"
      /\ call[p].id \in Ids /\ call[p].op \in Ops /\ Saving(p) /\ ~At(p, "idle")
      /\ call[p].pc = "adding"
  BY CallOf DEF Add, At, OnPath, Adding, Saving
<1>2. UNCHANGED <<registry, secret, backend, lockVars, lock, stolen>>
  BY DEF Add, lockVars
<1>3. faults' \in 0 .. MaxFaults
  BY ReadsAreSound, CallOf DEF Add
<1>4. CASE GoTo(p, "rollback")
  <2>1. Moved(p, "rollback", call[p].told)
    BY <1>4, GoToMoves DEF RegInv, Places
  <2>2. OnPath(call'[p])
    BY <1>1, <2>1 DEF Moved, SameCommand, OnPath, Adding
  <2>3. OwnSecret(p) => OwnSecret(p)'
    BY <1>1, <1>2, <2>1 DEF Moved, SameCommand, OwnSecret, Saving, At
  <2> QED BY <1>1, <1>2, <1>3, <2>1, <2>2, <2>3, CallOf, MoveKeeps DEF Outside
<1>5. ASSUME NEW r \in Readable(registry, NoRegistry), call[p].id \notin Listed(r[1]),
             call' = [call EXCEPT ![p].pc = "writing",
                                  ![p].draft = Added(r[1], call[p].id, call[p].first)]
      PROVE  RegInv'
  <2> DEFINE a == Added(r[1], call[p].id, call[p].first)
             d == [call[p] EXCEPT !.pc = "writing", !.draft = a]
  <2>1. call[p] \in Call /\ call[p].first \in BOOLEAN
    BY CallOf DEF Call
  <2>2. Sound(a) /\ call[p].id \in Listed(a)
    BY <1>1, <1>5, <2>1, ReadsAreSound, AddedIsSound
  <2> HIDE DEF a
  <2>3. /\ d \in Call /\ d.op = call[p].op /\ d.id = call[p].id
        /\ d.told = call[p].told /\ d.pc = "writing" /\ d.draft = a
    BY <2>1, <2>2 DEF Call, Places, Sound
  <2>4. call' = [call EXCEPT ![p] = d]
    BY <1>5 DEF RegInv, Typed, a
  <2> HIDE DEF d
  <2>5. OthersStay(p) /\ call'[p] = d
    BY <2>3, <2>4, CallReplaced
  <2>6. SameCommand(p) /\ OnPath(call'[p]) /\ call'[p].pc \notin Unstored
    BY <1>1, <2>2, <2>3, <2>5 DEF SameCommand, OnPath, Adding, Unstored, Outside
  <2>7. OwnSecret(p) => OwnSecret(p)'
    BY <1>1, <1>2, <2>3, <2>5 DEF OwnSecret, Saving, At
  <2>8. Locked'
    BY <1>1, <1>2, <2>5, LockedKept
  <2> QED BY <1>1, <1>2, <1>3, <2>5, <2>6, <2>7, <2>8, CallOf, StepKeeps
<1> QED BY <1>4, <1>5 DEF Add

LEMMA RollbackKeeps == ASSUME RegInv, NEW p \in Processes, Rollback(p) PROVE RegInv'
<1>1. /\ At(p, "rollback") /\ call[p].op = "add" /\ call[p].told = "none"
      /\ call[p].id \in Ids /\ call[p].op \in Ops /\ Saving(p) /\ ~At(p, "idle")
  BY CallOf DEF Rollback, At, OnPath, Adding, Saving
<1>2. UNCHANGED <<registry, backend, faults, lockVars>>
  BY DEF Rollback
<1>3. PICK what \in {"failed", "left"} : Tell(p, what, "releasing")
  BY DEF Rollback
<1>4. Moved(p, "releasing", what)
  BY <1>3, TellMoves DEF RegInv, Places, Told
<1>5. /\ OthersStay(p) /\ SameCommand(p) /\ OnPath(call'[p]) /\ ~Saving(p)'
      /\ call'[p].pc \notin Unstored /\ OwnSecret(p)'
  BY <1>1, <1>4 DEF Moved, SameCommand, OnPath, Adding, OwnSecret, Unstored, Outside, Saving, At
<1>6. CASE Erase(p)
  <2>1. secret' = [secret EXCEPT ![call[p].id] = Null]
    BY <1>6 DEF Erase
  <2> QED BY <1>1, <1>2, <1>5, <2>1, SecretStepKeeps
<1>7. CASE UNCHANGED secret
  BY <1>1, <1>2, <1>4, <1>5, <1>7, CallOf, MoveKeeps DEF Outside
<1> QED BY <1>6, <1>7 DEF Rollback

-----------------------------------------------------------------------------
(***************************************************************************)
(* The commands without a lock, and the writing of the file.               *)
(***************************************************************************)
LEMMA FindKeeps == ASSUME RegInv, NEW p \in Processes, Find(p) PROVE RegInv'
<1>1. /\ At(p, "reading") /\ call[p].op \in Ops \ {"add"} /\ call[p].id \in Ids
      /\ ~At(p, "idle")
  BY CallOf DEF Find, At, OnPath
<1>2. UNCHANGED <<registry, secret, backend, lockVars>> /\ faults' \in 0 .. MaxFaults
  BY ReadsAreSound DEF Find
<1>3. CASE Tell(p, "unknown", "ended")
  <2>1. Moved(p, "ended", "unknown")
    BY <1>3, TellMoves DEF RegInv, Places, Ended, Told
  <2>2. OnPath(call'[p]) /\ ~Saving(p)' /\ OwnSecret(p)'
    BY <1>1, <2>1 DEF Moved, SameCommand, OnPath, Adding, OwnSecret, Saving, At
  <2> QED BY <1>1, <1>2, <2>1, <2>2, CallOf, MoveKeeps DEF Outside
<1> DEFINE place == CASE call[p].op = "remove" -> "erasing"
                      [] call[p].op = "rotate" -> "rotating"
                      [] call[p].op = "register" -> "registering"
                      [] call[p].op = "default" -> "changing"
<1>4. CASE GoTo(p, place)
  <2>1. \/ call[p].op = "remove" /\ place = "erasing"
        \/ call[p].op = "rotate" /\ place = "rotating"
        \/ call[p].op = "register" /\ place = "registering"
        \/ call[p].op = "default" /\ place = "changing"
    BY <1>1 DEF Ops
  <2> HIDE DEF place
  <2>2. Moved(p, place, call[p].told)
    BY <1>4, <2>1, GoToMoves DEF RegInv, Places
  <2>3. OnPath(call'[p]) /\ ~Saving(p)' /\ OwnSecret(p)'
    BY <1>1, <2>1, <2>2 DEF Moved, SameCommand, OnPath, Adding, OwnSecret, Saving, At
  <2>4. place \notin Outside \cup {"checking", "probing", "saving"}
    BY <2>1 DEF Outside
  <2> QED BY <1>1, <1>2, <2>2, <2>3, <2>4, CallOf, MoveKeeps
<1> QED BY <1>3, <1>4 DEF Find

LEMMA EraseSecretKeeps == ASSUME RegInv, NEW p \in Processes, EraseSecret(p) PROVE RegInv'
<1>1. /\ At(p, "erasing") /\ call[p].op = "remove" /\ call[p].id \in Ids
      /\ call[p].op \in Ops /\ ~At(p, "idle") /\ Meddled(call[p].id)
  BY CallOf DEF EraseSecret, At, OnPath, Meddled
<1>2. UNCHANGED <<registry, backend, faults, lockVars>>
  BY DEF EraseSecret
<1>3. PICK place \in {"changing", "ended"}, what \in Told :
        Moved(p, place, what) /\ (place = "changing" => what = call[p].told)
  <2>1. CASE GoTo(p, "changing")
    <3>1. Moved(p, "changing", call[p].told) /\ call[p].told \in Told
      BY <2>1, GoToMoves, CallOf DEF RegInv, Places, Call
    <3> QED BY <3>1
  <2>2. CASE Tell(p, "failed", "ended")
    <3>1. Moved(p, "ended", "failed") /\ "failed" \in Told
      BY <2>2, TellMoves DEF RegInv, Places, Ended, Told
    <3> QED BY <3>1
  <2> QED BY <2>1, <2>2 DEF EraseSecret
<1>4. /\ OthersStay(p) /\ SameCommand(p) /\ OnPath(call'[p]) /\ ~Saving(p)'
      /\ call'[p].pc \notin Unstored /\ OwnSecret(p)'
      /\ place \notin Outside \cup {"checking", "probing", "saving"}
  BY <1>1, <1>3 DEF Moved, SameCommand, OnPath, Adding, OwnSecret, Unstored, Outside, Saving, At
<1>5. CASE Erase(p)
  <2>1. secret' = [secret EXCEPT ![call[p].id] = Null]
    BY <1>5 DEF Erase
  <2> QED BY <1>1, <1>2, <1>4, <2>1, SecretStepKeeps
<1>6. CASE UNCHANGED secret
  BY <1>1, <1>2, <1>3, <1>4, <1>6, CallOf, MoveKeeps
<1> QED BY <1>5, <1>6 DEF EraseSecret

LEMMA RotateKeeps == ASSUME RegInv, NEW p \in Processes, Rotate(p) PROVE RegInv'
<1>1. /\ At(p, "rotating") /\ call[p].op = "rotate" /\ call[p].id \in Ids
      /\ call[p].op \in Ops /\ ~At(p, "idle")
  BY CallOf DEF Rotate, At, OnPath
<1>2. UNCHANGED <<registry, secret, backend, faults, lockVars>>
  BY DEF Rotate, fileVars
<1>3. PICK place \in {"replacing", "ended"}, what \in Told : Moved(p, place, what)
  <2>1. CASE GoTo(p, "replacing")
    <3>1. Moved(p, "replacing", call[p].told) /\ call[p].told \in Told
      BY <2>1, GoToMoves, CallOf DEF RegInv, Places, Call
    <3> QED BY <3>1
  <2>2. CASE Tell(p, "failed", "ended")
    <3>1. Moved(p, "ended", "failed") /\ "failed" \in Told
      BY <2>2, TellMoves DEF RegInv, Places, Ended, Told
    <3> QED BY <3>1
  <2> QED BY <2>1, <2>2 DEF Rotate
<1>4. /\ OnPath(call'[p]) /\ ~Saving(p)' /\ OwnSecret(p)'
      /\ place \notin Outside \cup {"checking", "probing", "saving"}
  BY <1>1, <1>3 DEF Moved, SameCommand, OnPath, Adding, OwnSecret, Outside, Saving, At
<1> QED BY <1>1, <1>2, <1>3, <1>4, CallOf, MoveKeeps

LEMMA ReplaceKeeps == ASSUME RegInv, NEW p \in Processes, Replace(p) PROVE RegInv'
<1>1. /\ At(p, "replacing") /\ call[p].op = "rotate" /\ call[p].id \in Ids
      /\ call[p].op \in Ops /\ ~At(p, "idle") /\ Meddled(call[p].id)
  BY CallOf DEF Replace, At, OnPath, Meddled
<1>2. UNCHANGED <<registry, backend, faults, lockVars>>
  BY DEF Replace
<1>3. PICK what \in {"done", "failed"} : Tell(p, what, "ended")
  BY DEF Replace
<1>4. Moved(p, "ended", what)
  BY <1>3, TellMoves DEF RegInv, Places, Ended, Told
<1>5. /\ OthersStay(p) /\ SameCommand(p) /\ OnPath(call'[p]) /\ ~Saving(p)'
      /\ call'[p].pc \notin Unstored /\ OwnSecret(p)'
  BY <1>1, <1>4 DEF Moved, SameCommand, OnPath, Adding, OwnSecret, Unstored, Outside, Saving, At
<1>6. CASE Store(p)
  <2>1. secret' = [secret EXCEPT ![call[p].id] = p]
    BY <1>6 DEF Store
  <2> QED BY <1>1, <1>2, <1>5, <2>1, SecretStepKeeps
<1>7. CASE UNCHANGED secret
  BY <1>1, <1>2, <1>4, <1>5, <1>7, CallOf, MoveKeeps DEF Outside
<1> QED BY <1>6, <1>7 DEF Replace

LEMMA RegisterKeeps == ASSUME RegInv, NEW p \in Processes, Register(p) PROVE RegInv'
<1>1. /\ At(p, "registering") /\ call[p].id \in Ids /\ call[p].op \in Ops
      /\ (call[p].op # "add" \/ call[p].told = "saved") /\ ~At(p, "idle")
  BY CallOf DEF Register, At, OnPath
<1>2. UNCHANGED <<registry, secret, backend, faults, lockVars>>
  BY DEF Register, fileVars
<1>3. PICK place \in {"changing", "ended"} : GoTo(p, place)
  BY DEF Register
<1>4. Moved(p, place, call[p].told)
  BY <1>3, GoToMoves DEF RegInv, Places, Ended
<1>5. /\ OnPath(call'[p]) /\ ~Saving(p)' /\ OwnSecret(p)'
      /\ place \notin Outside \cup {"checking", "probing", "saving"}
  BY <1>1, <1>3, <1>4 DEF Moved, SameCommand, OnPath, Adding, OwnSecret, Outside, Saving, At
<1> QED BY <1>1, <1>2, <1>4, <1>5, CallOf, MoveKeeps

LEMMA ChangeKeeps == ASSUME RegInv, NEW p \in Processes, Change(p) PROVE RegInv'
<1>1. /\ At(p, "changing") /\ call[p].id \in Ids /\ call[p].op \in Ops
      /\ (call[p].op # "add" \/ call[p].told = "saved") /\ ~At(p, "idle")
  BY CallOf DEF Change, At, OnPath
<1>2. /\ UNCHANGED <<registry, secret, backend, lockVars, lock, stolen>>
      /\ faults' \in 0 .. MaxFaults
  BY ReadsAreSound DEF Change, lockVars
<1>3. CASE Finish(p, "failed")
  <2> DEFINE what == IF call[p].told = "saved" THEN "saved" ELSE "failed"
  <2>1. Moved(p, "ended", what)
    BY <1>3, FinishMoves DEF RegInv, Told
  <2> HIDE DEF what
  <2>2. OnPath(call'[p]) /\ ~Saving(p)' /\ OwnSecret(p)'
    BY <1>1, <2>1 DEF Moved, SameCommand, OnPath, Adding, OwnSecret, Saving, At
  <2> QED BY <1>1, <1>2, <2>1, <2>2, CallOf, MoveKeeps DEF Outside
<1>4. ASSUME NEW r \in Readable(registry, NoRegistry), call[p].id \in Listed(r[1]),
             call' = [call EXCEPT ![p].pc = "writing", ![p].draft = Changed(r[1], p)]
      PROVE  RegInv'
  <2> DEFINE a == Changed(r[1], p)
             d == [call[p] EXCEPT !.pc = "writing", !.draft = a]
  <2>1. call[p] \in Call
    BY CallOf
  <2>2. Sound(a)
    BY <1>4, ReadsAreSound, ChangedIsSound
  <2> HIDE DEF a
  <2>3. /\ d \in Call /\ d.op = call[p].op /\ d.id = call[p].id
        /\ d.told = call[p].told /\ d.pc = "writing" /\ d.draft = a
    BY <2>1, <2>2 DEF Call, Places, Sound
  <2>4. call' = [call EXCEPT ![p] = d]
    BY <1>4 DEF RegInv, Typed, a
  <2> HIDE DEF d
  <2>5. OthersStay(p) /\ call'[p] = d
    BY <2>3, <2>4, CallReplaced
  <2>6. SameCommand(p) /\ OnPath(call'[p]) /\ call'[p].pc \notin Unstored
    BY <1>1, <2>2, <2>3, <2>5 DEF SameCommand, OnPath, Adding, Unstored, Outside
  <2>7. ~Saving(p)' /\ OwnSecret(p)'
    BY <1>1, <2>3, <2>5 DEF OwnSecret, Saving, At
  <2>8. Locked'
    BY <1>2, <2>5, <2>7, LockedKept
  <2> QED BY <1>1, <1>2, <2>5, <2>6, <2>7, <2>8, CallOf, StepKeeps
<1> QED BY <1>3, <1>4 DEF Change

LEMMA WriteKeeps == ASSUME RegInv, NEW p \in Processes, Write(p) PROVE RegInv'
<1> DEFINE adding == call[p].op = "add" /\ call[p].told = "none"
<1>1. /\ At(p, "writing") /\ call[p].id \in Ids /\ call[p].op \in Ops /\ ~At(p, "idle")
      /\ Sound(call[p].draft) /\ call[p].pc = "writing" /\ (Saving(p) <=> adding)
  BY CallOf DEF Write, At, OnPath, Saving
<1>2. UNCHANGED <<secret, backend, faults, lockVars>>
  BY DEF Write
<1>3. Sound(registry')
  BY <1>1, CallOf DEF Write
<1>4. CASE adding /\ Tell(p, "saved", "releasing")
  <2>1. Moved(p, "releasing", "saved")
    BY <1>4, TellMoves DEF RegInv, Places, Told
  <2>2. OnPath(call'[p]) /\ ~Saving(p)' /\ OwnSecret(p)'
    BY <1>1, <2>1 DEF Moved, SameCommand, OnPath, Adding, OwnSecret, Saving, At
  <2> QED BY <1>1, <1>2, <1>3, <2>1, <2>2, CallOf, MoveKeeps DEF Outside
<1>5. CASE adding /\ GoTo(p, "rollback")
  <2>1. Moved(p, "rollback", call[p].told)
    BY <1>5, GoToMoves DEF RegInv, Places
  <2>2. OnPath(call'[p])
    BY <1>1, <1>5, <2>1 DEF Moved, SameCommand, OnPath, Adding
  <2>3. OwnSecret(p) => OwnSecret(p)'
    BY <1>1, <1>2, <1>5, <2>1 DEF Moved, SameCommand, OwnSecret, Saving, At
  <2>4. Saving(p)
    BY <1>1, <1>5
  <2> QED BY <1>1, <1>2, <1>3, <2>1, <2>2, <2>3, <2>4, CallOf, MoveKeeps DEF Outside
<1>6. ASSUME NEW end \in {"done", "failed"}, Finish(p, end) PROVE RegInv'
  <2> DEFINE what == IF call[p].told = "saved" THEN "saved" ELSE end
  <2>1. Moved(p, "ended", what)
    BY <1>6, FinishMoves DEF RegInv, Told
  <2> HIDE DEF what
  <2>2. OnPath(call'[p]) /\ ~Saving(p)' /\ OwnSecret(p)'
    BY <1>1, <2>1 DEF Moved, SameCommand, OnPath, Adding, OwnSecret, Saving, At
  <2> QED BY <1>1, <1>2, <1>3, <2>1, <2>2, CallOf, MoveKeeps DEF Outside
<1> QED BY <1>4, <1>5, <1>6 DEF Write

LEMMA DieKeeps == ASSUME RegInv, NEW p \in Processes, Die(p) PROVE RegInv'
<1>1. call[p].pc # "idle" /\ call[p].id \in Ids /\ call[p].op \in Ops /\ ~At(p, "idle")
  BY CallOf DEF Die, Running, At, OnPath
<1>2. UNCHANGED <<registry, secret, backend, faults, lockVars>>
  BY DEF Die, fileVars
<1>3. Moved(p, "dead", call[p].told)
  BY GoToMoves DEF Die, RegInv, Places, Ended
<1>4. OnPath(call'[p]) /\ ~Saving(p)' /\ OwnSecret(p)'
  BY <1>1, <1>3 DEF Moved, SameCommand, OnPath, Adding, OwnSecret, Saving, At
<1> QED BY <1>1, <1>2, <1>3, <1>4, CallOf, MoveKeeps DEF Outside

-----------------------------------------------------------------------------
(***************************************************************************)
(* The invariant holds.                                                    *)
(***************************************************************************)
LEMMA InvInitially == Init => RegInv
<1> SUFFICES ASSUME Init PROVE RegInv
  OBVIOUS
<1>1. Initially \in Seq(Ids) /\ NoTwice(Initially)
  BY RegistryAssumption DEF NoTwice
<1>2. registry \in Registry /\ registry.profiles = Initially /\ registry.registered = {}
      /\ registry.default = IF Initially = <<>> THEN {} ELSE {Head(Initially)}
  <2>1. Initially # <<>> => Head(Initially) \in Ids
    BY <1>1
  <2> QED BY <1>1, <2>1 DEF Init, Registry
<1>3. registry.default \subseteq Listed(registry)
  <2>1. CASE Initially = <<>>
    BY <1>2, <2>1
  <2>2. CASE Initially # <<>>
    <3>1. Head(Initially) = Initially[1] /\ 1 \in 1 .. Len(Initially)
      BY <1>1, <2>2
    <3>2. Head(Initially) \in Listed(registry)
      BY <1>2, <3>1, ListedOnes
    <3> QED BY <1>2, <2>2, <3>2
  <2> QED BY <2>1, <2>2
<1>4. Sound(registry)
  BY <1>1, <1>2, <1>3 DEF Sound, AtMostOne
<1>5. NoRegistry \in Registry /\ 0 \in 0 .. MaxTries - 1 /\ 0 \in 0 .. MaxFaults
  BY NoRegistryIsSound, RegistryAssumption DEF Sound
<1>6. Idle \in Call /\ Idle.pc = "idle" /\ Idle.op = "none"
  BY <1>5 DEF Idle, Call, Places, Told
<1>7. Typed
  BY <1>4, <1>5, <1>6 DEF Init, Typed
<1>8. \A p \in Processes : call[p].pc = "idle" /\ call[p].op = "none"
  BY <1>6 DEF Init
<1>9. OnPaths /\ Locked
  BY <1>8 DEF OnPaths, OnPath, Adding, Locked, Saving, At
<1>10. NothingStored
  BY RegistryAssumption DEF Init, NothingStored
<1>11. Looked
  BY <1>8 DEF Looked, OwnSecret, Saving, At
<1> QED BY <1>7, <1>9, <1>10, <1>11 DEF RegInv

LEMMA InvIsInductive == RegInv /\ [Next]_vars => RegInv'
<1>1. ASSUME RegInv, NEW p \in Processes, Command(p) PROVE RegInv'
  BY <1>1, BeginKeeps, LinkKeeps, JudgeKeeps, RecoverKeeps, ReleaseKeeps, UnlockKeeps, OfferKeeps,
     CheckKeeps, ProbeKeeps, SaveKeeps, AddKeeps, RollbackKeeps, FindKeeps, EraseSecretKeeps,
     RotateKeeps, ReplaceKeeps, RegisterKeeps, ChangeKeeps, WriteKeeps, Zenon DEF Command
<1>2. ASSUME RegInv, UNCHANGED vars PROVE RegInv'
  BY <1>2 DEF vars, fileVars, lockVars, RegInv, Typed, OnPaths, Locked, NothingStored, Looked,
     OwnSecret, Meddled, Saving, At
<1> QED BY <1>1, <1>2, DieKeeps DEF Next

\* The invariant of the proof: whatever commands run, whatever dies and whatever cannot be read.
THEOREM RegistryInvariant == Safety => []RegInv
BY InvInitially, InvIsInductive, PTL DEF Safety

\* routers.json is always a registry that some command made of one read: no id twice, at most
\* one default, no default or registration without its profile; and no two wizards save at
\* once unless the lock of a living one has been unlinked by another.
THEOREM RegistryStaysConsistent == Spec => []RegistryConsistent
<1>1. RegInv => RegistryConsistent
  BY InvIsConsistent
<1> QED BY <1>1, RegistryInvariant, PTL DEF Spec

-----------------------------------------------------------------------------
(***************************************************************************)
(* Secrets.                                                                *)
(***************************************************************************)
LEMMA OthersSayNothing ==
  ASSUME RegInv, NEW p \in Processes, Command(p) \/ Die(p), NEW q \in Processes \ {p}
  PROVE  call'[q] = call[q]
<1> USE DEF GoTo, Tell, Finish, RegInv, Typed
<1>1. CASE Begin(p) \/ Link(p) \/ Judge(p) \/ Recover(p) \/ Release(p) \/ Unlock(p) \/ Offer(p)
  BY <1>1 DEF Begin, Link, Judge, Recover, Release, Unlock, Offer
<1>2. CASE Check(p) \/ Probe(p) \/ Save(p) \/ Add(p) \/ Rollback(p)
  BY <1>2 DEF Check, Probe, Save, Add, Rollback
<1>3. CASE Find(p) \/ EraseSecret(p) \/ Rotate(p) \/ Replace(p) \/ Register(p)
  BY <1>3 DEF Find, EraseSecret, Rotate, Replace, Register
<1>4. CASE Change(p) \/ Write(p) \/ Die(p)
  BY <1>4 DEF Change, Write, Die
<1> QED BY <1>1, <1>2, <1>3, <1>4, Zenon DEF Command

\* Only who writes the file says that a profile is saved.
LEMMA SavedByWriting ==
  ASSUME RegInv, NEW p \in Processes, Command(p) \/ Die(p),
         call[p].told # "saved", call'[p].told = "saved"
  PROVE  /\ call[p].op = "add" /\ call[p].told = "none" /\ At(p, "writing")
         /\ registry' = call[p].draft
<1> USE CallOf DEF GoTo, Tell, Finish, Call, RegInv, Typed
<1>1. CASE Begin(p)
  BY <1>1 DEF Begin, Idle
<1>2. CASE Link(p) \/ Judge(p) \/ Recover(p) \/ Release(p) \/ Unlock(p) \/ Offer(p)
  BY <1>2 DEF Link, Judge, Recover, Release, Unlock, Offer
<1>3. CASE Check(p) \/ Probe(p) \/ Save(p) \/ Add(p) \/ Rollback(p)
  BY <1>3 DEF Check, Probe, Save, Add, Rollback
<1>4. CASE Find(p) \/ EraseSecret(p) \/ Rotate(p) \/ Replace(p) \/ Register(p)
  BY <1>4 DEF Find, EraseSecret, Rotate, Replace, Register
<1>5. CASE Change(p) \/ Die(p)
  BY <1>5 DEF Change, Die
<1>6. CASE Write(p)
  BY <1>6 DEF Write
<1> QED BY <1>1, <1>2, <1>3, <1>4, <1>5, <1>6, Zenon DEF Command

\* An addition fails when its lock cannot be had, or when it has taken back its secret.
LEMMA FailedWhere ==
  ASSUME RegInv, NEW p \in Processes, Command(p) \/ Die(p),
         call[p].told = "none", call[p].op = "add", call'[p].told = "failed"
  PROVE  Recover(p) \/ Rollback(p)
<1>0. call[p] \in Call /\ OnPath(call[p])
  BY CallOf
<1> USE <1>0 DEF GoTo, Tell, Finish, Call, RegInv, Typed
<1>1. CASE Begin(p)
  BY <1>1 DEF Begin, Idle
<1>2. CASE Link(p) \/ Judge(p) \/ Release(p) \/ Unlock(p) \/ Offer(p)
  BY <1>2 DEF Link, Judge, Release, Unlock, Offer
<1>3. CASE Check(p) \/ Probe(p) \/ Save(p) \/ Add(p)
  BY <1>3 DEF Check, Probe, Save, Add
<1>4. CASE Find(p) \/ EraseSecret(p) \/ Rotate(p) \/ Replace(p) \/ Register(p)
  BY <1>4 DEF Find, EraseSecret, Rotate, Replace, Register, OnPath, At
<1>5. CASE Change(p) \/ Die(p)
  BY <1>5 DEF Change, Die, OnPath, At
<1>6. CASE Write(p)
  BY <1>6 DEF Write
<1> QED BY <1>1, <1>2, <1>3, <1>4, <1>5, <1>6, Zenon DEF Command

\* Four steps touch secrets, each the one of its own id.
LEMMA SecretsTouched ==
  ASSUME NEW p \in Processes, Command(p) \/ Die(p), secret' # secret
  PROVE  Save(p) \/ Rollback(p) \/ EraseSecret(p) \/ Replace(p)
BY DEF Command, Die, Begin, Link, Judge, Recover, Release, Unlock, Offer, Check, Probe, Add,
       Find, Rotate, Register, Change, Write, fileVars

LEMMA SecretStaysInStep ==
  ASSUME RegInv, NEW p \in Processes, Command(p) \/ Die(p) PROVE SecretStays
<1> SUFFICES ASSUME NEW id \in Ids, secret[id] # Null, secret'[id] # secret[id],
                    ~stolen, ~Meddled(id)
             PROVE  call[p].id = id /\ (call[p].blind \/ (secret[id] = p /\ At(p, "rollback")))
  BY DEF SecretStays
<1>1. secret \in [Ids -> Processes \cup {Gone, Null}]
  BY DEF RegInv, Typed
<1>2. Save(p) \/ Rollback(p) \/ EraseSecret(p) \/ Replace(p)
  BY SecretsTouched
<1>3. call[p].id = id
  BY <1>1, <1>2 DEF Save, Rollback, EraseSecret, Replace, Store, Erase
<1>4. OwnSecret(p)
  BY <1>3 DEF RegInv, Looked
<1>5. CASE Save(p)
  BY <1>3, <1>4, <1>5 DEF Save, At, OwnSecret
<1>6. CASE Rollback(p)
  BY <1>3, <1>4, <1>6 DEF Rollback, At, OwnSecret
<1>7. CASE EraseSecret(p) \/ Replace(p)
  <2>1. call[p].op \in {"remove", "rotate"}
    BY <1>7, CallOf DEF EraseSecret, Replace, At, OnPath
  <2> QED BY <1>3, <2>1 DEF Meddled
<1> QED BY <1>2, <1>3, <1>5, <1>6, <1>7

LEMMA SecretWithProfileInStep ==
  ASSUME RegInv, NEW p \in Processes, Command(p) \/ Die(p) PROVE SecretWithProfile
<1> SUFFICES ASSUME NEW q \in Processes, call[q].told = "none"
             PROVE  /\ call'[q].told = "saved" =>
                         /\ call[q].id \in Listed(registry')
                         /\ secret[call[q].id] = q \/ stolen \/ Meddled(call[q].id)
                    /\ call'[q].told = "failed" /\ call[q].op = "add" /\ backend = "file" =>
                         secret'[call[q].id] # q
  BY DEF SecretWithProfile
<1>1. CASE q # p
  BY <1>1, OthersSayNothing
<1>2. CASE q = p
  <2>1. ASSUME call'[p].told = "saved"
        PROVE  /\ call[p].id \in Listed(registry')
               /\ secret[call[p].id] = p \/ stolen \/ Meddled(call[p].id)
    <3>1. /\ call[p].op = "add" /\ call[p].told = "none" /\ At(p, "writing")
          /\ registry' = call[p].draft
      BY <1>2, <2>1, SavedByWriting
    <3>2. call[p].id \in Listed(registry')
      BY <3>1, CallOf DEF OnPath, At
    <3>3. ~stolen => Meddled(call[p].id) \/ OwnSecret(p)
      BY DEF RegInv, Looked
    <3>4. OwnSecret(p) => secret[call[p].id] = p
      BY <3>1 DEF OwnSecret, Saving, At
    <3> QED BY <3>2, <3>3, <3>4
  <2>2. ASSUME call'[p].told = "failed", call[p].op = "add", backend = "file"
        PROVE  secret'[call[p].id] # p
    <3>1. /\ secret \in [Ids -> Processes \cup {Gone, Null}]
          /\ call[p] \in Call /\ Null # p
      BY RegistryAssumption, CallOf DEF RegInv, Typed
    <3>2. CASE Recover(p)
      <4>1. call[p].pc \in Unstored /\ call[p].id \in Ids
        BY <3>2, CallOf DEF Recover, At, OnPath, Unstored, Outside
      <4> QED BY <3>2, <4>1 DEF RegInv, NothingStored, Recover, fileVars
    <3>3. CASE Rollback(p)
      <4>1. call[p].id \in Ids
        BY <3>3, CallOf DEF Rollback, At, OnPath
      <4>2. CASE Erase(p)
        BY <3>1, <4>1, <4>2 DEF Erase
      <4>3. CASE Tell(p, "left", "releasing")
        BY <2>2, <3>1, <4>3 DEF Tell, RegInv, Typed, Call
      <4> QED BY <2>2, <3>3, <4>2, <4>3 DEF Rollback
    <3> QED BY <1>2, <2>2, <3>2, <3>3, FailedWhere
  <2> QED BY <1>2, <2>1, <2>2
<1> QED BY <1>1, <1>2

\* Adding costs no id its secret, but for the wizard whose own look at it failed or who takes
\* back what he stored himself, the commands that are to change it, and a robbed lock; and what
\* a wizard says of its profile is true of the secret as well.
THEOREM SecretsAreKept == Spec => SecretsKept
<1>1. RegInv /\ [Next]_vars => [SecretStays /\ SecretWithProfile]_vars
  BY SecretStaysInStep, SecretWithProfileInStep DEF Next
<1> QED BY <1>1, RegistryInvariant, PTL DEF Spec, Safety, SecretsKept
=============================================================================
