-------------------------- MODULE WriteProofs --------------------------
(***************************************************************************)
(* Proofs about what writes to the router.  WriteSafety, for any set of    *)
(* calls, any interfaces and any requests: what is invariant of one call   *)
(* is kept by its own steps; the steps of another only ever start a        *)
(* backup, and those of the router add to the history what it has become.  *)
(* Segments, for any set of tool calls and any routers whose home segment  *)
(* has VLAN 1: as long as no identifier was given out twice, what two      *)
(* calls claim is apart, and stays so.                                     *)
(***************************************************************************)
EXTENDS WriteSafety, Segments, FiniteSetTheorems, TLAPS

\* Where a call is while its command may have been sent and not given up.
Confirming == {"posting", "reading", "polling", "comparing", "succeeding"}

\* Where each tool can be.
PlaceOK(c) ==
  /\ pc[c] \in {"inspecting", "reading"} => request[c].tool \in {"set", "restart"}
  /\ pc[c] \in {"noting", "polling", "comparing"} => request[c].tool = "save"
  /\ pc[c] = "failing" => request[c].tool # "raw"

\* Nothing is sent before the backup and the first record exist.
SentOK(c) ==
  /\ pc[c] \in {"idle", "inspecting", "noting", "waiting"} => command[c] = "none"
  /\ pc[c] \in Confirming => command[c] # "none"
  /\ pc[c] \in Confirming \cup {"sending"} => backup = "done"
  /\ command[c] # "none" => backup = "done" /\ "started" \in journal[c]

\* Until a call has ended, it has one record and nobody was told anything.
RecordOK(c) ==
  /\ pc[c] = "idle" => journal[c] = {} /\ told[c] = "none"
  /\ pc[c] \notin {"idle", "ended"} => journal[c] = {"started"} /\ told[c] = "none"
  /\ told[c] = "done" <=> "succeeded" \in journal[c]
  /\ "failed" \in journal[c] => told[c] = "failed"
  /\ "unknown" \in journal[c] => told[c] = "unknown"
  /\ told[c] = "failed" /\ command[c] # "none" => request[c].tool # "raw"

\* The history holds what the router was when it was looked at.
SeenOK(c) ==
  /\ request[c].tool # "raw" /\ pc[c] \in Confirming => running \in since[c]
  /\ request[c].tool = "save" /\ pc[c] \in Confirming => startup \in kept[c]
  /\ pc[c] = "comparing" => seen[c] \in since[c]
  /\ pc[c] = "succeeding" =>
       CASE request[c].tool = "save" -> since[c] \cap kept[c] # {}
         [] request[c].tool = "raw" -> TRUE
         [] OTHER -> \E config \in since[c] : config[request[c].target] = request[c].goal

CallOK(c) == PlaceOK(c) /\ SentOK(c) /\ RecordOK(c) /\ SeenOK(c)
CallInv == \A c \in Calls : CallOK(c)
Inv == TypeOK /\ CallInv /\ BackupShared

-----------------------------------------------------------------------------
\* Every request asks for one of the steps of a known tool.
LEMMA RequestType ==
  ASSUME TypeOK, NEW c \in Calls
  PROVE  /\ request[c].tool \in {"set", "restart", "save", "raw"}
         /\ request[c].goal \in Steps /\ request[c].target \in Interfaces
BY WriteAssumption DEF TypeOK, AllRequests, Steps

\* The initial state.
LEMMA InitInv == Init => Inv
<1> SUFFICES ASSUME Init PROVE Inv
  OBVIOUS
<1>1. TypeOK
  <2>1. ASSUME NEW c \in Calls PROVE FirstStep(request[c]) \in Steps
    BY WriteAssumption DEF Init, FirstStep, AllRequests, Steps
  <2> QED BY <2>1 DEF Init, TypeOK
<1>2. ASSUME NEW c \in Calls PROVE CallOK(c)
  BY DEF Init, CallOK, PlaceOK, SentOK, RecordOK, SeenOK, Confirming
<1>3. BackupShared
  BY DEF Init, BackupShared, Waiting
<1> QED BY <1>1, <1>2, <1>3 DEF Inv, CallInv

-----------------------------------------------------------------------------
(***************************************************************************)
(* Steps of a call.                                                        *)
(***************************************************************************)

\* A call changes nothing of another one, of the router's configurations or of
\* the backup file; at most it starts a backup.
LEMMA CallFrame ==
  ASSUME TypeOK, NEW c \in Calls, Call(c)
  PROVE  /\ UNCHANGED <<running, startup, copy, request>>
         /\ backup' # backup => backup = "none" /\ backup' = "reading" /\ pc'[c] = "waiting"
         /\ pc[c] # "waiting" /\ (pc'[c] = "waiting" => backup' \in {"reading", "writing"})
         /\ \A d \in Calls \ {c} :
              /\ command'[d] = command[d] /\ pc'[d] = pc[d] /\ step'[d] = step[d]
              /\ seen'[d] = seen[d] /\ told'[d] = told[d] /\ journal'[d] = journal[d]
              /\ since'[d] = since[d] /\ kept'[d] = kept[d]
<1> USE DEF TypeOK, GoTo, Step, End, Ensure, Fail, routerVars, guardVars, callVars, historyVars
<1>1. CASE Begin(c)
  BY <1>1 DEF Begin
<1>2. CASE Inspect(c) \/ Note(c)
  BY <1>2 DEF Inspect, Note
<1>3. CASE Send(c)
  BY <1>3 DEF Send
<1>4. CASE PostFails(c) \/ Posted(c)
  BY <1>4 DEF PostFails, Posted
<1>5. CASE ReadBack(c)
  BY <1>5 DEF ReadBack
<1>6. CASE Poll(c) \/ Compare(c)
  BY <1>6 DEF Poll, Compare
<1>7. CASE RecordSuccess(c)
  BY <1>7 DEF RecordSuccess
<1>8. CASE RecordFailure(c)
  BY <1>8 DEF RecordFailure
<1>9. CASE RecordDoubt(c)
  BY <1>9 DEF RecordDoubt
<1> QED BY <1>1, <1>2, <1>3, <1>4, <1>5, <1>6, <1>7, <1>8, <1>9 DEF Call

\* Nothing another call does disturbs what is invariant of a call.
LEMMA OthersKeep ==
  ASSUME TypeOK, NEW c \in Calls, NEW d \in Calls \ {c}, Call(c), CallOK(d)
  PROVE  CallOK(d)'
<1>1. backup = "done" => backup' = "done"
  BY CallFrame
<1>2. /\ running' = running /\ startup' = startup /\ request' = request
      /\ command'[d] = command[d] /\ pc'[d] = pc[d] /\ seen'[d] = seen[d] /\ told'[d] = told[d]
      /\ journal'[d] = journal[d] /\ since'[d] = since[d] /\ kept'[d] = kept[d]
  BY CallFrame
<1>3. PlaceOK(d)' /\ SentOK(d)' /\ RecordOK(d)' 
  BY <1>1, <1>2 DEF CallOK, PlaceOK, SentOK, RecordOK
<1>4. SeenOK(d)'
  BY <1>2 DEF CallOK, SeenOK
<1> QED BY <1>3, <1>4 DEF CallOK

\* Its own steps keep it.
LEMMA CallKeeps ==
  ASSUME TypeOK, NEW c \in Calls, CallOK(c), Call(c)
  PROVE  CallOK(c)'
<1> USE RequestType DEF CallOK, Confirming, callVars, historyVars, routerVars, guardVars
<1>1. CASE Begin(c)
  <2> USE <1>1 DEF Begin, End, GoTo, Step, Ensure
  <2>1. PlaceOK(c)'
    BY DEF TypeOK, PlaceOK
  <2>2. SentOK(c)'
    BY DEF TypeOK, SentOK
  <2>3. RecordOK(c)' /\ SeenOK(c)'
    BY DEF TypeOK, SentOK, RecordOK, SeenOK
  <2> QED BY <2>1, <2>2, <2>3
<1>2. CASE Inspect(c)
  <2> USE <1>2 DEF Inspect, Fail, GoTo, Step, Ensure
  <2>1. PlaceOK(c)' /\ SentOK(c)'
    BY DEF TypeOK, PlaceOK, SentOK
  <2>2. RecordOK(c)' /\ SeenOK(c)'
    BY DEF TypeOK, RecordOK, SeenOK
  <2> QED BY <2>1, <2>2
<1>3. CASE Note(c)
  <2> USE <1>3 DEF Note, End, GoTo, Step, Ensure
  <2>1. PlaceOK(c)' /\ SentOK(c)'
    BY DEF TypeOK, PlaceOK, SentOK
  <2>2. RecordOK(c)' /\ SeenOK(c)'
    BY DEF TypeOK, PlaceOK, RecordOK, SeenOK
  <2> QED BY <2>1, <2>2
<1>4. CASE Send(c)
  <2> USE <1>4 DEF Send, Step
  <2>1. PlaceOK(c)' /\ SentOK(c)'
    BY DEF TypeOK, PlaceOK, SentOK, RecordOK
  <2>2. RecordOK(c)' /\ SeenOK(c)'
    BY DEF TypeOK, RecordOK, SeenOK
  <2> QED BY <2>1, <2>2
<1>5. CASE PostFails(c)
  <2> USE <1>5 DEF PostFails, Fail, GoTo, Step
  <2>1. PlaceOK(c)' /\ SentOK(c)'
    BY DEF TypeOK, PlaceOK, SentOK
  <2>2. RecordOK(c)' /\ SeenOK(c)'
    BY DEF TypeOK, RecordOK, SeenOK
  <2> QED BY <2>1, <2>2
<1>6. CASE Posted(c)
  <2> USE <1>6 DEF Posted, GoTo, Step
  <2>1. PlaceOK(c)' /\ SentOK(c)'
    BY DEF TypeOK, PlaceOK, SentOK
  <2>2. RecordOK(c)' /\ SeenOK(c)'
    BY DEF TypeOK, RecordOK, SeenOK
  <2> QED BY <2>1, <2>2
<1>7. CASE ReadBack(c)
  <2> USE <1>7 DEF ReadBack, Fail, GoTo, Step
  <2>1. PlaceOK(c)' /\ SentOK(c)'
    BY DEF TypeOK, PlaceOK, SentOK
  <2>2. RecordOK(c)' /\ SeenOK(c)'
    BY DEF TypeOK, PlaceOK, RecordOK, SeenOK
  <2> QED BY <2>1, <2>2
<1>8. CASE Poll(c)
  <2> USE <1>8 DEF Poll, Fail, GoTo, Step
  <2>1. PlaceOK(c)' /\ SentOK(c)'
    BY DEF TypeOK, PlaceOK, SentOK
  <2>2. RecordOK(c)' /\ SeenOK(c)'
    BY DEF TypeOK, PlaceOK, RecordOK, SeenOK
  <2> QED BY <2>1, <2>2
<1>9. CASE Compare(c)
  <2> USE <1>9 DEF Compare, Fail, GoTo, Step
  <2>1. PlaceOK(c)' /\ SentOK(c)'
    BY DEF TypeOK, PlaceOK, SentOK
  <2>2. RecordOK(c)' /\ SeenOK(c)'
    BY DEF TypeOK, PlaceOK, RecordOK, SeenOK
  <2> QED BY <2>1, <2>2
<1>10. CASE RecordSuccess(c)
  <2> USE <1>10 DEF RecordSuccess, End
  <2>1. PlaceOK(c)' /\ SentOK(c)'
    BY DEF TypeOK, PlaceOK, SentOK
  <2>2. RecordOK(c)' /\ SeenOK(c)'
    BY DEF TypeOK, PlaceOK, RecordOK, SeenOK
  <2> QED BY <2>1, <2>2
<1>11. CASE RecordFailure(c)
  <2> USE <1>11 DEF RecordFailure, End
  <2>1. PlaceOK(c)' /\ SentOK(c)'
    BY DEF TypeOK, PlaceOK, SentOK
  <2>2. RecordOK(c)' /\ SeenOK(c)'
    BY DEF TypeOK, PlaceOK, RecordOK, SeenOK
  <2> QED BY <2>1, <2>2
<1>12. CASE RecordDoubt(c)
  <2> USE <1>12 DEF RecordDoubt, End
  <2>1. PlaceOK(c)' /\ SentOK(c)'
    BY DEF TypeOK, PlaceOK, SentOK
  <2>2. RecordOK(c)' /\ SeenOK(c)'
    BY DEF TypeOK, PlaceOK, RecordOK, SeenOK
  <2> QED BY <2>1, <2>2
<1> QED BY <1>1, <1>2, <1>3, <1>4, <1>5, <1>6, <1>7, <1>8, <1>9, <1>10, <1>11, <1>12 DEF Call

\* A backup is in progress exactly as long as somebody waits for it.
LEMMA CallShares ==
  ASSUME TypeOK, BackupShared, NEW c \in Calls, Call(c)
  PROVE  BackupShared'
<1>1. CASE pc'[c] = "waiting"
  BY <1>1, CallFrame DEF BackupShared, Waiting
<1>2. CASE pc'[c] # "waiting"
  <2>1. Waiting' = Waiting /\ backup' = backup
    BY <1>2, CallFrame DEF Waiting
  <2> QED BY <2>1 DEF BackupShared
<1> QED BY <1>1, <1>2

\* The types of the variables of a call are kept by its steps.
LEMMA CallType ==
  ASSUME TypeOK, NEW c \in Calls, CallOK(c), Call(c)
  PROVE  TypeOK'
<1> USE DEF TypeOK, GoTo, Step, End, Ensure, Fail, routerVars, guardVars, callVars, historyVars,
            Records, Done
<1>1. CASE Begin(c)
  BY <1>1 DEF Begin
<1>2. CASE Inspect(c) \/ Note(c)
  BY <1>2 DEF Inspect, Note
<1>3. CASE Send(c)
  BY <1>3 DEF Send
<1>4. CASE PostFails(c) \/ Posted(c)
  BY <1>4 DEF PostFails, Posted
<1>5. CASE ReadBack(c)
  BY <1>5 DEF ReadBack, Steps
<1>6. CASE Poll(c) \/ Compare(c)
  BY <1>6 DEF Poll, Compare
<1>7. CASE RecordSuccess(c)
  BY <1>7 DEF RecordSuccess
<1>8. CASE RecordFailure(c)
  BY <1>8 DEF RecordFailure
<1>9. CASE RecordDoubt(c)
  BY <1>9 DEF RecordDoubt
<1> QED BY <1>1, <1>2, <1>3, <1>4, <1>5, <1>6, <1>7, <1>8, <1>9 DEF Call

-----------------------------------------------------------------------------
(***************************************************************************)
(* The backup, and the router.                                             *)
(***************************************************************************)

\* Whoever waits for the backup goes on when it is there, and is turned away
\* when it cannot be had.
LEMMA GuardKeeps ==
  ASSUME Inv, Guard
  PROVE  Inv'
<1> USE DEF Inv, routerVars, guardVars, callVars, historyVars
<1>1. CASE BackupRead
  <2> USE <1>1 DEF BackupRead
  <2>1. TypeOK'
    BY DEF TypeOK
  <2>2. ASSUME NEW c \in Calls PROVE CallOK(c)'
    BY DEF CallInv, CallOK, PlaceOK, SentOK, RecordOK, SeenOK
  <2>3. BackupShared'
    BY DEF BackupShared, Waiting
  <2> QED BY <2>1, <2>2, <2>3 DEF CallInv
<1>2. CASE BackupWritten
  <2> USE <1>2 DEF BackupWritten, Waiting
  <2>1. TypeOK'
    BY DEF TypeOK
  <2>2. ASSUME NEW c \in Calls PROVE CallOK(c)'
    BY DEF TypeOK, CallInv, CallOK, PlaceOK, SentOK, RecordOK, SeenOK, Confirming
  <2>3. BackupShared'
    BY DEF TypeOK, BackupShared
  <2> QED BY <2>1, <2>2, <2>3 DEF CallInv
<1>3. CASE BackupFails
  <2> USE <1>3 DEF BackupFails, Reject, Rejected, Waiting
  <2>1. TypeOK'
    BY DEF TypeOK
  <2>2. ASSUME NEW c \in Calls PROVE CallOK(c)'
    <3>1. PlaceOK(c)' /\ SentOK(c)'
      BY DEF TypeOK, CallInv, CallOK, PlaceOK, SentOK, Confirming
    <3>2. RecordOK(c)' /\ SeenOK(c)'
      BY DEF TypeOK, CallInv, CallOK, SentOK, RecordOK, SeenOK, Confirming
    <3> QED BY <3>1, <3>2 DEF CallOK
  <2>3. BackupShared'
    BY DEF TypeOK, BackupShared
  <2> QED BY <2>1, <2>2, <2>3 DEF CallInv
<1> QED BY <1>1, <1>2, <1>3 DEF Guard

\* What the router has become is added to the history of every call that has
\* sent a command; a command that was never sent is never carried out.
LEMMA RouterKeeps ==
  ASSUME Inv, Router
  PROVE  Inv'
<1> USE DEF Inv, Witness, routerVars, guardVars, callVars, historyVars
<1>1. /\ UNCHANGED <<guardVars, callVars, journal>>
      /\ running' \in Configs /\ startup' \in Configs
      /\ command' \in [Calls -> {"none", "limbo", "ran", "lost"}]
      /\ \A c \in Calls : command'[c] = "none" <=> command[c] = "none"
  <2>1. CASE \E c \in Calls : Execute(c)
    <3>1. PICK c \in Calls : Execute(c)
      BY <2>1
    <3>2. step[c] # "save" => step[c] \in {"up", "down"}
      BY DEF TypeOK, Steps
    <3>3. request[c].target \in Interfaces
      BY RequestType
    <3> QED BY <3>1, <3>2, <3>3 DEF Execute, TypeOK, Configs
  <2>2. CASE \E c \in Calls : Ignore(c)
    BY <2>2 DEF Ignore, TypeOK
  <2>3. CASE Elsewhere
    BY <2>3 DEF Elsewhere, TypeOK
  <2> QED BY <2>1, <2>2, <2>3 DEF Router
<1>2. Witness(running', startup') \/ UNCHANGED <<running, startup, since, kept>>
  BY DEF Router, Execute, Ignore, Elsewhere
<1>3. TypeOK'
  <2>1. since' \in [Calls -> SUBSET Configs] /\ kept' \in [Calls -> SUBSET Configs]
    BY <1>1, <1>2 DEF TypeOK
  <2> QED BY <1>1, <2>1 DEF TypeOK
<1>4. ASSUME NEW c \in Calls PROVE CallOK(c)'
  <2>1. PlaceOK(c)' /\ SentOK(c)' /\ RecordOK(c)'
    BY <1>1 DEF CallInv, CallOK, PlaceOK, SentOK, RecordOK
  <2>2. /\ since[c] \subseteq since'[c] /\ kept[c] \subseteq kept'[c]
        /\ since[c] # {} /\ running \in since[c] => running' \in since'[c]
        /\ kept[c] # {} /\ startup \in kept[c] => startup' \in kept'[c]
    BY <1>2 DEF TypeOK
  <2>3. SeenOK(c)'
    BY <1>1, <2>2 DEF CallInv, CallOK, SeenOK
  <2> QED BY <2>1, <2>3 DEF CallOK
<1>5. BackupShared'
  BY <1>1 DEF BackupShared, Waiting
<1> QED BY <1>3, <1>4, <1>5 DEF CallInv

-----------------------------------------------------------------------------
(***************************************************************************)
(* The theorems.                                                           *)
(***************************************************************************)

\* The invariant is inductive.
LEMMA NextInv == Inv /\ [Next]_vars => Inv'
<1> SUFFICES ASSUME Inv, [Next]_vars PROVE Inv'
  OBVIOUS
<1>1. CASE \E c \in Calls : Call(c)
  <2>1. PICK c \in Calls : Call(c)
    BY <1>1
  <2>2. ASSUME NEW d \in Calls PROVE CallOK(d)'
    BY <2>1, OthersKeep, CallKeeps DEF Inv, CallInv
  <2>3. TypeOK' /\ BackupShared'
    BY <2>1, CallType, CallShares DEF Inv, CallInv
  <2> QED BY <2>2, <2>3 DEF Inv, CallInv
<1>2. CASE Guard
  BY <1>2, GuardKeeps
<1>3. CASE Router
  BY <1>3, RouterKeeps
<1>4. CASE UNCHANGED vars
  <2>1. TypeOK' /\ BackupShared'
    BY <1>4 DEF Inv, TypeOK, BackupShared, Waiting, vars, routerVars, guardVars, callVars,
                historyVars
  <2>2. ASSUME NEW c \in Calls PROVE CallOK(c)'
    BY <1>4 DEF Inv, CallInv, CallOK, PlaceOK, SentOK, RecordOK, SeenOK, vars, routerVars,
                guardVars, callVars, historyVars
  <2> QED BY <2>1, <2>2 DEF Inv, CallInv
<1> QED BY <1>1, <1>2, <1>3, <1>4 DEF Next

\* Every reachable state satisfies the invariant.
THEOREM Invariant == Spec => []Inv
<1> QED BY InitInv, NextInv, PTL DEF Spec, Safety

\* Every variable keeps its type.
THEOREM TypeCorrect == Spec => []TypeOK
<1>1. Inv => TypeOK
  BY DEF Inv
<1> QED BY <1>1, Invariant, PTL

\* No command is sent before the backup exists and the call is recorded.
THEOREM BackupComesFirst == Spec => []BackupFirst
<1>1. Inv => BackupFirst
  BY DEF Inv, CallInv, CallOK, SentOK, BackupFirst
<1> QED BY <1>1, Invariant, PTL

\* A backup is in progress exactly while a call waits for it.
THEOREM BackupIsShared == Spec => []BackupShared
<1>1. Inv => BackupShared
  BY DEF Inv
<1> QED BY <1>1, Invariant, PTL

\* The audit never contradicts what the caller is told.
THEOREM AuditAgreesAlways == Spec => []AuditAgrees
<1>1. Inv => AuditAgrees
  BY DEF Inv, CallInv, CallOK, RecordOK, AuditAgrees
<1> QED BY <1>1, Invariant, PTL

\* The backup holds the startup configuration of a time when nothing had been
\* sent, and stays.
THEOREM BackupStaysOriginal == Spec => [][BackupIsOriginal]_vars
<1>1. Inv /\ [Next]_vars => [BackupIsOriginal]_vars
  <2> SUFFICES ASSUME Inv, Next PROVE BackupIsOriginal
    BY DEF BackupIsOriginal, vars
  <2> USE DEF BackupIsOriginal
  <2>1. CASE \E c \in Calls : Call(c)
    BY <2>1, CallFrame DEF Inv
  <2>2. CASE BackupRead
    BY <2>2 DEF Inv, CallInv, CallOK, SentOK, BackupRead
  <2>3. CASE BackupWritten \/ BackupFails
    BY <2>3 DEF BackupWritten, BackupFails
  <2>4. CASE Router
    BY <2>4 DEF Router, Execute, Ignore, Elsewhere, guardVars
  <2> QED BY <2>1, <2>2, <2>3, <2>4 DEF Next, Guard
<1> QED BY <1>1, Invariant, PTL DEF Spec, Safety

\* What is reported as applied or saved was so after the command was sent.
THEOREM ReportedChangesWereSeen == Spec => ReportedChangeWasSeen
<1> DEFINE WasSeen == \A c \in Calls : told[c] = "none" /\ told'[c] \in Done =>
       CASE request[c].tool = "save" -> since[c] \cap kept[c] # {}
         [] request[c].tool = "raw" -> command[c] # "none"
         [] OTHER -> \E config \in since[c] : config[request[c].target] = request[c].goal
<1>1. Inv /\ [Next]_vars => [WasSeen]_vars
  <2> SUFFICES ASSUME Inv, Next, NEW c \in Calls, told[c] = "none", told'[c] \in Done
               PROVE  pc[c] = "succeeding"
    BY DEF vars, Inv, CallInv, CallOK, SentOK, SeenOK, Confirming
  <2> USE DEF Inv, TypeOK, Done
  <2>1. CASE \E d \in Calls : Call(d)
    <3>1. PICK d \in Calls : Call(d)
      BY <2>1
    <3>2. d = c
      BY <3>1, CallFrame
    <3> QED BY <3>1, <3>2 DEF Call, Begin, Inspect, Note, Send, PostFails, Posted, ReadBack, Poll,
              Compare, RecordSuccess, RecordFailure, RecordDoubt, GoTo, Step, End, Ensure, Fail
  <2>2. CASE Guard
    BY <2>2 DEF Guard, BackupRead, BackupWritten, BackupFails, Reject, callVars
  <2>3. CASE Router
    BY <2>3 DEF Router, Execute, Ignore, Elsewhere, callVars
  <2> QED BY <2>1, <2>2, <2>3 DEF Next
<1> QED BY <1>1, Invariant, PTL DEF Spec, Safety, ReportedChangeWasSeen

\* The backup of router/backup.ts is shared, precedes every command and stays what it was.
THEOREM BackupHolds == Spec => BackupProtects
<1>1. Inv => BackupFirst /\ BackupShared
  BY DEF Inv, CallInv, CallOK, SentOK, BackupFirst
<1> QED BY <1>1, Invariant, BackupStaysOriginal, PTL DEF BackupProtects

-----------------------------------------------------------------------------
(***************************************************************************)
(* The segments: what a state of the calls and of the router is like, and  *)
(* what holds besides until an allocation overlaps with another.           *)
(***************************************************************************)
Plans == Seq(SUBSET Parts)

ToolCallType ==
  [op : {"none", "create", "delete"},
   pc : {"idle", "building", "checking", "surveying", "tearing", "ended"},
   bridge : 0 .. Limit, plan : Plans, n : Nat \ {0}, failed : Nat,
   told : {"none", "refused", "created", "undone", "left", "kept", "removed", "failed"}]

Creating(c) == call[c].op = "create" /\ call[c].pc \in {"building", "checking", "tearing"}
Removing(c) == call[c].op = "delete" /\ call[c].pc \in {"surveying", "tearing"}
Standing(c) == call[c].pc \in {"building", "checking"} \/ call[c].told = "created"

\* What a call does, it does in its place.
CallsInOrder ==
  /\ call \in [ToolCalls -> ToolCallType]
  /\ \A c \in ToolCalls :
       /\ call[c].pc = "idle" => call[c].op = "none"
       /\ Standing(c) => call[c].op = "create"
       /\ call[c].pc = "surveying" => call[c].op = "delete"
       /\ call[c].pc = "tearing" => call[c].op # "none"
       /\ call[c].told # "none" => call[c].pc = "ended"
       /\ call[c].told = "undone" => call[c].op = "create" /\ call[c].failed = 0
       /\ call[c].pc = "building" => call[c].n <= Len(call[c].plan)
       /\ call[c].pc = "checking" \/ call[c].told = "created" =>
            call[c].n = Len(call[c].plan) + 1

\* Who made what, for which bridge.
MadeInOrder ==
  /\ \A p \in DOMAIN router :
       /\ p \in Parts /\ router[p].of \in Numbers
       /\ \/ router[p].by = "user"
          \/ /\ router[p].by \in ToolCalls /\ call[router[p].by].op = "create"
             /\ router[p].of = call[router[p].by].bridge
       /\ p[1] = "bridge" => router[p].of = p[2]
       /\ p = <<"trunk", 1>> => router[p].of = 0
  /\ \A w \in limbo :
       /\ w.by \in ToolCalls /\ call[w.by].op = "create" /\ call[w.by].pc \in {"tearing", "ended"}
       /\ call[w.by].told # "created"
       /\ w.of = call[w.by].bridge /\ w.parts \subseteq Parts
       /\ \A p \in w.parts : (p[1] = "bridge" => p[2] = w.of) /\ p # <<"trunk", 1>>

ClaimsInOrder ==
  \A c \in ToolCalls :
    /\ Claimed(c) \subseteq Parts
    /\ call[c].op # "none" => call[c].bridge \in 1 .. Limit
    /\ call[c].op = "create" => \A p \in Claimed(c) :
         (p[1] = "bridge" => p[2] = call[c].bridge) /\ p # <<"trunk", 1>>
    /\ call[c].op = "delete" => \A p \in Claimed(c) :
         p[1] # "policy" /\ p \notin {<<"bridge", 0>>, <<"trunk", 1>>}

\* What a creation has made is still to be taken back.
RollbackCovers ==
  \A c \in ToolCalls, p \in DOMAIN router :
    router[p].by = c =>
      /\ call[c].pc \in {"building", "checking"} => p \in Claimed(c)
      /\ call[c].op = "create" /\ call[c].pc = "tearing" /\ call[c].failed = 0 /\ c \notin late =>
           \E i \in call[c].n .. Len(call[c].plan) : p \in call[c].plan[i]
      /\ call[c].told = "undone" => c \in late

-----------------------------------------------------------------------------
(***************************************************************************)
(* As long as nothing was allocated twice.  A creation holds what it       *)
(* claims until it ends, and afterwards what it has made, unless somebody  *)
(* removes its bridge; what it gave up on belongs to its bridge; and a     *)
(* removal claims nothing of another bridge.                               *)
(***************************************************************************)
Exempt(c) == \E d \in ToolCalls : call[d].op = "delete" /\ call[d].bridge = call[c].bridge
Held(c) == Creating(c) \/ (call[c].told = "created" /\ ~Exempt(c))

Apart(a, b) == \A p \in a : p \notin b

CreationsApart ==
  \A c, e \in ToolCalls : c # e /\ Held(c) /\ Creating(e) => Apart(Claimed(c), Claimed(e))
LimboApart ==
  /\ \A w \in limbo, e \in ToolCalls : w.by # e /\ Creating(e) => Apart(w.parts, Claimed(e))
  /\ \A w \in limbo, x \in limbo : w.by # x.by => Apart(w.parts, x.parts)
ClaimedIsOwn ==
  \A e \in ToolCalls : Creating(e) => \A p \in Claimed(e) : Made(p) => router[p].by = e
LimboIsOwn ==
  \A w \in limbo : \A p \in w.parts : Made(p) => router[p].of = w.of
RemovalIsOwn ==
  \A d \in ToolCalls : Removing(d) => \A p \in Claimed(d) :
    /\ Made(p) => router[p].of = call[d].bridge
    /\ \A e \in ToolCalls : Creating(e) /\ p \in Claimed(e) => call[e].bridge = call[d].bridge
    /\ \A w \in limbo : p \in w.parts => w.of = call[d].bridge
PostedStands ==
  \A c \in ToolCalls : Standing(c) /\ ~Exempt(c) =>
    \A i \in 1 .. (call[c].n - 1) : \A p \in call[c].plan[i] : Made(p) /\ router[p].by = c

Separate ==
  /\ CreationsApart /\ LimboApart /\ ClaimedIsOwn
  /\ LimboIsOwn /\ RemovalIsOwn /\ PostedStands

SegmentInv ==
  /\ clash \in BOOLEAN /\ late \subseteq ToolCalls
  /\ CallsInOrder /\ MadeInOrder /\ ClaimsInOrder /\ RollbackCovers
  /\ clash = FALSE => Separate

\* Every element of a finite set is in the sequence that is made of it.
LEMMA SequenceOfSet ==
  ASSUME NEW S, IsFiniteSet(S)
  PROVE  SetToSeq(S) \in Seq(S) /\ Range(SetToSeq(S)) = S
<1> DEFINE n == Cardinality(S)
           f == SetToSeq(S)
<1>1. n \in Nat /\ ExistsBijection(1 .. n, S)
  BY FS_CardinalityType
<1>2. PICK g \in [1 .. n -> S] : IsInjective(g)
  BY <1>1 DEF ExistsBijection, Bijection, Injection, IsInjective
<1>3. f \in [1 .. n -> S] /\ IsInjective(f)
  BY <1>2 DEF SetToSeq
<1>4. f \in Injection(1 .. n, S)
  BY <1>3 DEF Injection, IsInjective
<1>5. Cardinality(1 .. n) = n /\ IsFiniteSet(1 .. n)
  <2> HIDE DEF n
  <2>1. Cardinality(1 .. n) = IF 1 > n THEN 0 ELSE n - 1 + 1
    BY <1>1, FS_Interval
  <2> QED BY <2>1, <1>1, FS_Interval
<1>6. f \in Surjection(1 .. n, S)
  <2> HIDE DEF f
  <2> QED BY <1>4, <1>5, FS_Injection
<1> HIDE DEF f, n
<1>7. \A t \in S : \E s \in 1 .. n : f[s] = t
  BY <1>6 DEF Surjection
<1>8. Range(f) = S
  BY <1>3, <1>7 DEF Range
<1>9. f \in Seq(S)
  BY <1>1, <1>3
<1> QED BY <1>8, <1>9 DEF f

Union(plan) == UNION Range(plan)

\* What a plan of two halves claims.
LEMMA ClaimsOfBoth ==
  ASSUME NEW U, NEW s \in Seq(SUBSET U), NEW t \in Seq(SUBSET U)
  PROVE  s \o t \in Seq(SUBSET U) /\ Union(s \o t) = Union(s) \cup Union(t)
<1>1. s \o t \in Seq(SUBSET U)
  OBVIOUS
<1>2. ASSUME NEW p \in Union(s \o t)
      PROVE  p \in Union(s) \cup Union(t)
  <2>1. PICK i \in 1 .. (Len(s) + Len(t)) : p \in (s \o t)[i]
    BY DEF Union, Range
  <2>2. CASE i <= Len(s)
    <3>1. p \in s[i] /\ i \in 1 .. Len(s)
      BY <2>1, <2>2
    <3> QED BY <3>1 DEF Union, Range
  <2>3. CASE i > Len(s)
    <3>1. p \in t[i - Len(s)] /\ i - Len(s) \in 1 .. Len(t)
      BY <2>1, <2>3
    <3> QED BY <3>1 DEF Union, Range
  <2> QED BY <2>2, <2>3
<1>3. ASSUME NEW p \in Union(s)
      PROVE  p \in Union(s \o t)
  <2>1. PICK i \in 1 .. Len(s) : p \in s[i]
    BY DEF Union, Range
  <2>2. p \in (s \o t)[i] /\ i \in 1 .. Len(s \o t)
    BY <2>1
  <2> QED BY <2>2 DEF Union, Range
<1>4. ASSUME NEW p \in Union(t)
      PROVE  p \in Union(s \o t)
  <2>1. PICK i \in 1 .. Len(t) : p \in t[i]
    BY DEF Union, Range
  <2>2. p \in (s \o t)[Len(s) + i] /\ Len(s) + i \in 1 .. Len(s \o t)
    BY <2>1
  <2> QED BY <2>2 DEF Union, Range
<1> QED BY <1>1, <1>2, <1>3, <1>4

\* A group that may be empty claims its parts.
LEMMA ClaimsTogether ==
  ASSUME NEW U, NEW parts \in SUBSET U
  PROVE  Together(parts) \in Seq(SUBSET U) /\ Union(Together(parts)) = parts
<1>1. CASE parts = {}
  BY <1>1 DEF Together, Union, Range
<1>2. CASE parts # {}
  <2>1. Together(parts) = <<parts>> /\ <<parts>> \in Seq(SUBSET U)
    BY <1>2 DEF Together
  <2>2. Range(<<parts>>) = {parts}
    BY DEF Range
  <2> QED BY <2>1, <2>2 DEF Union
<1> QED BY <1>1, <1>2

\* Names are few, so that a set of them can be made a sequence.
LEMMA PartsFinite == IsFiniteSet(Parts)
<1>1. IsFiniteSet(Kinds)
  <2>1. IsFiniteSet({"vlan"}) /\ IsFiniteSet({"trunk"}) /\ IsFiniteSet({"bridge"})
        /\ IsFiniteSet({"subnet"}) /\ IsFiniteSet({"pool"}) /\ IsFiniteSet({"policy"})
        /\ IsFiniteSet({"wlan"})
    BY FS_Singleton
  <2>2. IsFiniteSet({"vlan"} \cup {"trunk"}) /\ IsFiniteSet({"bridge"} \cup {"subnet"})
        /\ IsFiniteSet({"pool"} \cup {"policy"})
    BY <2>1, FS_Union
  <2>3. IsFiniteSet(({"vlan"} \cup {"trunk"}) \cup ({"bridge"} \cup {"subnet"}))
        /\ IsFiniteSet(({"pool"} \cup {"policy"}) \cup {"wlan"})
    BY <2>1, <2>2, FS_Union
  <2>4. IsFiniteSet((({"vlan"} \cup {"trunk"}) \cup ({"bridge"} \cup {"subnet"}))
                      \cup (({"pool"} \cup {"policy"}) \cup {"wlan"}))
    BY <2>3, FS_Union
  <2>5. Kinds = (({"vlan"} \cup {"trunk"}) \cup ({"bridge"} \cup {"subnet"}))
                  \cup (({"pool"} \cup {"policy"}) \cup {"wlan"})
    BY DEF Kinds
  <2> QED BY <2>4, <2>5
<1>2. IsFiniteSet(Numbers)
  BY FS_Interval, SegmentAssumption DEF Numbers
<1> QED BY <1>1, <1>2, FS_Product DEF Parts

\* One command for each object of a kind.
LEMMA ClaimsOneByOne ==
  ASSUME NEW parts \in SUBSET Parts
  PROVE  /\ SetToSeq({{p} : p \in parts}) \in Seq(SUBSET Parts)
         /\ Union(SetToSeq({{p} : p \in parts})) = parts
<1> DEFINE S == {{p} : p \in parts}
<1>1. IsFiniteSet(S)
  <2>1. IsFiniteSet(parts)
    BY PartsFinite, FS_Subset
  <2>2. IsFiniteSet(SUBSET parts)
    BY <2>1, FS_SUBSET
  <2>3. S \in SUBSET (SUBSET parts)
    OBVIOUS
  <2> HIDE DEF S
  <2> QED BY <2>2, <2>3, FS_Subset
<1>2. SetToSeq(S) \in Seq(S) /\ Range(SetToSeq(S)) = S
  <2> HIDE DEF S
  <2> QED BY <1>1, SequenceOfSet
<1>3. S \subseteq SUBSET Parts
  OBVIOUS
<1>4. UNION S = parts
  OBVIOUS
<1> HIDE DEF S
<1>5. SetToSeq(S) \in Seq(SUBSET Parts)
  BY <1>2, <1>3
<1>6. Union(SetToSeq(S)) = parts
  BY <1>2, <1>4 DEF Union
<1> QED BY <1>5, <1>6 DEF S

\* The rollback takes back all it is given, and nothing else.
LEMMA UndoCovers ==
  ASSUME NEW parts \in SUBSET Parts
  PROVE  Undo(parts) \in Seq(SUBSET Parts) /\ Union(Undo(parts)) = parts
<1> DEFINE Of(kind) == {q \in parts : q[1] = kind}
           each(kind) == SetToSeq({{p} : p \in Of(kind)})
           bridge == {p \in parts : p[1] \in {"bridge", "subnet"}}
           s1 == each("wlan") \o each("policy")
           s2 == s1 \o each("pool")
           s3 == s2 \o Together(bridge)
           s4 == s3 \o each("trunk")
<1>1. Undo(parts) = s4 \o each("vlan")
  BY DEF Undo
<1>2. ASSUME NEW kind
      PROVE  each(kind) \in Seq(SUBSET Parts) /\ Union(each(kind)) = Of(kind)
  <2>1. Of(kind) \in SUBSET Parts
    OBVIOUS
  <2> HIDE DEF Of
  <2> QED BY <2>1, ClaimsOneByOne
<1>3. Together(bridge) \in Seq(SUBSET Parts) /\ Union(Together(bridge)) = bridge
  <2>1. bridge \in SUBSET Parts
    OBVIOUS
  <2> HIDE DEF bridge
  <2> QED BY <2>1, ClaimsTogether
<1> HIDE DEF each
<1>4. s1 \in Seq(SUBSET Parts) /\ Union(s1) = Of("wlan") \cup Of("policy")
  <2> HIDE DEF Of
  <2> QED BY <1>2, ClaimsOfBoth
<1> HIDE DEF s1
<1>5. s2 \in Seq(SUBSET Parts) /\ Union(s2) = Of("wlan") \cup Of("policy") \cup Of("pool")
  <2> HIDE DEF Of
  <2>1. s2 \in Seq(SUBSET Parts) /\ Union(s2) = Union(s1) \cup Union(each("pool"))
    BY <1>2, <1>4, ClaimsOfBoth, SMTT(20)
  <2> QED BY <2>1, <1>2, <1>4
<1> HIDE DEF s2
<1>6. /\ s3 \in Seq(SUBSET Parts)
      /\ Union(s3) = Of("wlan") \cup Of("policy") \cup Of("pool") \cup bridge
  <2> HIDE DEF Of, bridge
  <2>1. s3 \in Seq(SUBSET Parts) /\ Union(s3) = Union(s2) \cup Union(Together(bridge))
    BY <1>3, <1>5, ClaimsOfBoth
  <2> QED BY <2>1, <1>3, <1>5
<1> HIDE DEF s3
<1>7. /\ s4 \in Seq(SUBSET Parts)
      /\ Union(s4) = Of("wlan") \cup Of("policy") \cup Of("pool") \cup bridge \cup Of("trunk")
  <2> HIDE DEF Of, bridge
  <2>1. s4 \in Seq(SUBSET Parts) /\ Union(s4) = Union(s3) \cup Union(each("trunk"))
    BY <1>2, <1>6, ClaimsOfBoth, ZenonT(40)
  <2> QED BY <2>1, <1>2, <1>6
<1> HIDE DEF s4
<1>8. /\ Undo(parts) \in Seq(SUBSET Parts)
      /\ Union(Undo(parts)) = Union(s4) \cup Union(each("vlan"))
  <2> HIDE DEF Of, bridge
  <2>1. each("vlan") \in Seq(SUBSET Parts)
    BY <1>2
  <2>2. /\ s4 \o each("vlan") \in Seq(SUBSET Parts)
        /\ Union(s4 \o each("vlan")) = Union(s4) \cup Union(each("vlan"))
    BY <2>1, <1>7, ClaimsOfBoth
  <2> QED BY <1>1, <2>2
<1>9. Union(Undo(parts)) = Of("wlan") \cup Of("policy") \cup Of("pool") \cup bridge
                              \cup Of("trunk") \cup Of("vlan")
  <2> HIDE DEF Of, bridge
  <2> QED BY <1>2, <1>7, <1>8
<1>10. \A p \in parts : p[1] \in Kinds
  BY DEF Parts
<1>11. parts = Of("wlan") \cup Of("policy") \cup Of("pool") \cup bridge \cup Of("trunk") \cup Of("vlan")
  BY <1>10 DEF Kinds
<1> QED BY <1>8, <1>9, <1>11

\* A creation claims the bridge it was given, and never the home segment's VLAN.
LEMMA AllocationClaims ==
  ASSUME NEW b \in 1 .. Limit, NEW v \in 2 .. (MaxVlan + 1), NEW s \in 2 .. (Limit + 1),
         NEW optional \in SUBSET ({"policy", "wlan"} \X Numbers)
  PROVE  /\ Allocation(b, v, s, optional) \in Seq(SUBSET Parts)
         /\ Len(Allocation(b, v, s, optional)) >= 4
         /\ \A p \in Union(Allocation(b, v, s, optional)) :
              (p[1] = "bridge" => p[2] = b) /\ p # <<"trunk", 1>>
<1> DEFINE base == <<{<<"vlan", v>>}, {<<"trunk", v>>}, {<<"bridge", b>>, <<"subnet", s>>}, {<<"pool", b>>}>>
           pol == {p \in optional : p[1] = "policy"}
           wl == {p \in optional : p[1] = "wlan"}
           first == base \o Together(pol)
           all == first \o Together(wl)
<1>1. Allocation(b, v, s, optional) = all
  BY DEF Allocation
<1>2. b \in Numbers /\ v \in Numbers /\ s \in Numbers
  BY SegmentAssumption DEF Numbers
<1>3. base \in Seq(SUBSET Parts) /\ Len(base) = 4
  BY <1>2 DEF Parts, Kinds
<1>4. Union(base) = {<<"vlan", v>>, <<"trunk", v>>, <<"bridge", b>>, <<"subnet", s>>, <<"pool", b>>}
  <2>1. /\ DOMAIN base = {1, 2, 3, 4}
        /\ base[1] = {<<"vlan", v>>} /\ base[2] = {<<"trunk", v>>}
        /\ base[3] = {<<"bridge", b>>, <<"subnet", s>>} /\ base[4] = {<<"pool", b>>}
    OBVIOUS
  <2> HIDE DEF base
  <2>2. Range(base) = {base[1], base[2], base[3], base[4]}
    BY <2>1 DEF Range
  <2>3. Union(base) = ((base[1] \cup base[2]) \cup base[3]) \cup base[4]
    BY <2>2 DEF Union
  <2> QED BY <2>1, <2>3
<1>5. pol \in SUBSET Parts /\ wl \in SUBSET Parts
  BY DEF Parts, Kinds
<1> HIDE DEF base, pol, wl
<1>6. /\ Together(pol) \in Seq(SUBSET Parts) /\ Union(Together(pol)) = pol
      /\ Together(wl) \in Seq(SUBSET Parts) /\ Union(Together(wl)) = wl
  BY <1>5, ClaimsTogether
<1>7. first \in Seq(SUBSET Parts) /\ Union(first) = Union(base) \cup pol
  <2>1. /\ base \o Together(pol) \in Seq(SUBSET Parts)
        /\ Union(base \o Together(pol)) = Union(base) \cup Union(Together(pol))
    <3> HIDE DEF first, all
    <3>1. base \in Seq(SUBSET Parts) /\ Together(pol) \in Seq(SUBSET Parts)
      BY <1>3, <1>6
    <3> QED BY ONLY <3>1, ClaimsOfBoth
  <2> QED BY <2>1, <1>6
<1>8. \A x, y \in Seq(SUBSET Parts) : Len(x \o y) = Len(x) + Len(y) /\ Len(x) \in Nat /\ Len(y) \in Nat
  OBVIOUS
<1>9. Len(first) >= 4
  <2>1. Len(Together(pol)) \in Nat /\ Len(first) = Len(base) + Len(Together(pol))
    <3>1. base \in Seq(SUBSET Parts) /\ Together(pol) \in Seq(SUBSET Parts)
      BY <1>3, <1>6
    <3> QED BY ONLY <3>1, <1>8 DEF first
  <2> HIDE DEF first, all
  <2> QED BY <2>1, <1>3
<1> HIDE DEF first
<1>10. all \in Seq(SUBSET Parts) /\ Union(all) = Union(base) \cup pol \cup wl /\ Len(all) >= 4
  <2>1. first \in Seq(SUBSET Parts) /\ Together(wl) \in Seq(SUBSET Parts)
    BY <1>6, <1>7
  <2>2. all \in Seq(SUBSET Parts) /\ Union(all) = Union(first) \cup Union(Together(wl))
    BY ONLY <2>1, ClaimsOfBoth DEF all
  <2>3. Len(Together(wl)) \in Nat /\ Len(first) \in Nat /\ Len(all) = Len(first) + Len(Together(wl))
    BY ONLY <2>1, <1>8 DEF all
  <2> HIDE DEF all
  <2>4. Len(all) >= 4
    BY ONLY <2>3, <1>9
  <2> QED BY <2>2, <2>4, <1>6, <1>7
<1> HIDE DEF all
<1>11. \A p \in pol \cup wl : p[1] \in {"policy", "wlan"}
  BY DEF pol, wl
<1>12. \A p \in Union(base) : (p[1] = "bridge" => p[2] = b) /\ p # <<"trunk", 1>>
  BY <1>4
<1> QED BY <1>1, <1>10, <1>11, <1>12

\* A call whose place changes and nothing else: op, bridge, plan, n and failures stay.
LEMMA TellKeeps ==
  ASSUME SegmentInv, NEW c \in ToolCalls,
         NEW what \in {"refused", "created", "undone", "left", "kept", "removed", "failed"},
         call[c].pc # "ended",
         what = "created" => call[c].pc = "checking",
         what = "undone" => /\ call[c].op = "create" /\ call[c].pc = "tearing"
                            /\ call[c].failed = 0 /\ call[c].n > Len(call[c].plan),
         Tell(c, what), UNCHANGED <<router, limbo, histories>>
  PROVE  SegmentInv'
<1> USE DEF histories
<1>1. call \in [ToolCalls -> ToolCallType]
  BY DEF SegmentInv, CallsInOrder
<1>2. /\ call' \in [ToolCalls -> ToolCallType]
      /\ \A d \in ToolCalls : d # c => call'[d] = call[d]
      /\ call'[c].pc = "ended" /\ call'[c].told = what
  <2> DEFINE new == [call[c] EXCEPT !.pc = "ended", !.told = what]
  <2>1. call[c] \in ToolCallType
    BY <1>1
  <2>2. new \in ToolCallType /\ new.pc = "ended" /\ new.told = what
    BY <2>1 DEF ToolCallType
  <2>3. call' = [call EXCEPT ![c] = new]
    BY <1>1 DEF Tell, ToolCallType
  <2> HIDE DEF new
  <2> QED BY <1>1, <2>2, <2>3
<1>3. \A d \in ToolCalls :
        /\ call'[d].op = call[d].op /\ call'[d].bridge = call[d].bridge
        /\ call'[d].plan = call[d].plan /\ call'[d].n = call[d].n
        /\ call'[d].failed = call[d].failed
  BY <1>1 DEF Tell, ToolCallType
<1>4. \A d \in ToolCalls : Claimed(d)' = Claimed(d) /\ (Exempt(d)' <=> Exempt(d))
  BY <1>3 DEF Claimed, Exempt
<1>5. CallsInOrder'
  BY <1>1, <1>2, <1>3 DEF SegmentInv, CallsInOrder, Standing
<1>6. MadeInOrder'
  BY <1>2, <1>3 DEF SegmentInv, MadeInOrder
<1>7. ClaimsInOrder'
  BY <1>3, <1>4 DEF SegmentInv, ClaimsInOrder
<1>8. RollbackCovers'
  <2> SUFFICES ASSUME NEW d \in ToolCalls, NEW p \in DOMAIN router, router[p].by = d
               PROVE  RollbackCovers!(d, p)'
    BY DEF RollbackCovers
  <2>1. RollbackCovers!(d, p)
    BY DEF SegmentInv, RollbackCovers
  <2>2. CASE d = c
    <3>1. call[c].n \in Nat /\ Len(call[c].plan) \in Nat
      BY <1>1 DEF ToolCallType, Plans
    <3> QED BY <2>1, <2>2, <3>1, <1>2
  <2>3. CASE d # c
    BY <2>1, <2>3, <1>2, <1>4
  <2> QED BY <2>2, <2>3
<1>9. ASSUME clash' = FALSE
      PROVE  Separate'
  <2>1. Separate
    BY <1>9 DEF SegmentInv
  <2>2. CreationsApart'
    <3>1. \A d \in ToolCalls : Creating(d)' => Creating(d) /\ d # c
      BY <1>2, <1>3 DEF Creating
    <3>2. \A d \in ToolCalls : Held(d)' => Held(d)
      <4>1. what = "created" => Creating(c)
        BY DEF SegmentInv, CallsInOrder, Standing, Creating
      <4> QED BY <4>1, <3>1, <1>2, <1>4 DEF Held
    <3> QED BY <2>1, <1>4, <3>1, <3>2 DEF Separate, CreationsApart, Apart
  <2>3. LimboApart'
    BY <2>1, <1>2, <1>3, <1>4 DEF Separate, LimboApart, Creating
  <2>4. ClaimedIsOwn'
    BY <2>1, <1>2, <1>3, <1>4 DEF Separate, ClaimedIsOwn, Creating, Made
  <2>5. LimboIsOwn'
    BY <2>1 DEF Separate, LimboIsOwn, Made
  <2>6. RemovalIsOwn'
    BY <2>1, <1>2, <1>3, <1>4 DEF Separate, RemovalIsOwn, Removing, Creating, Made
  <2>7. PostedStands'
    BY <2>1, <1>2, <1>3, <1>4 DEF Separate, PostedStands, Standing, Made
  <2> QED BY <2>2, <2>3, <2>4, <2>5, <2>6, <2>7 DEF Separate
<1> QED BY <1>5, <1>6, <1>7, <1>8, <1>9 DEF SegmentInv

\* What exists stays as it is, and what is added belongs to its maker.
Grown(old, new, parts, maker, bridge) ==
  /\ DOMAIN new = DOMAIN old \cup parts
  /\ \A p \in DOMAIN old : new[p] = old[p]
  /\ \A p \in parts \ DOMAIN old : new[p].by = maker /\ new[p].of = bridge

\* A command that was executed only adds.
LEMMA GivenGrows ==
  ASSUME NEW r, NEW parts, NEW c, NEW b
  PROVE  Grown(r, Given(r, parts, c, b), parts, c, b)
BY DEF Grown, Given

\* What the other lemmas need to know of one call.
LEMMA CallFacts ==
  ASSUME SegmentInv, NEW c \in ToolCalls
  PROVE  /\ call[c] \in ToolCallType
         /\ call[c].bridge \in 0 .. Limit /\ call[c].plan \in Seq(SUBSET Parts)
         /\ call[c].n \in Nat \ {0} /\ call[c].failed \in Nat
         /\ Len(call[c].plan) \in Nat /\ Claimed(c) = Union(call[c].plan)
         /\ \A i \in 1 .. Len(call[c].plan) : call[c].plan[i] \subseteq Claimed(c)
<1>1. call[c] \in ToolCallType
  BY DEF SegmentInv, CallsInOrder
<1>2. call[c].bridge \in 0 .. Limit /\ call[c].plan \in Seq(SUBSET Parts)
      /\ call[c].n \in Nat \ {0} /\ call[c].failed \in Nat
  BY <1>1 DEF ToolCallType, Plans
<1>3. \A i \in 1 .. Len(call[c].plan) : call[c].plan[i] \subseteq Claimed(c)
  BY <1>2 DEF Claimed, Range
<1> QED BY <1>1, <1>2, <1>3 DEF Claimed, Union

\* A group of commands was executed.
LEMMA PostKeeps ==
  ASSUME SegmentInv, NEW c \in ToolCalls, Post(c)
  PROVE  SegmentInv'
<1> USE DEF histories
<1>1. /\ call \in [ToolCalls -> ToolCallType]
      /\ call[c].pc = "building" /\ call[c].op = "create" /\ call[c].n \in 1 .. Len(call[c].plan)
      /\ call[c].told = "none"
  <2>1. call[c].pc = "building" /\ call[c].n \in Nat \ {0} /\ Len(call[c].plan) \in Nat
    BY CallFacts DEF Post, At
  <2> QED BY <2>1 DEF SegmentInv, CallsInOrder, Standing
<1>2. Group(c) \subseteq Claimed(c) /\ Group(c) = call[c].plan[call[c].n]
  BY <1>1, CallFacts DEF Group
<1>3. Grown(router, router', Group(c), c, call[c].bridge)
  BY GivenGrows DEF Post
<1>4. /\ call' \in [ToolCalls -> ToolCallType]
      /\ \A d \in ToolCalls : d # c => call'[d] = call[d]
      /\ call'[c].n = call[c].n + 1
      /\ \/ call'[c].pc = "checking" /\ call[c].n = Len(call[c].plan)
         \/ call'[c].pc = "building" /\ call[c].n < Len(call[c].plan)
      /\ \A d \in ToolCalls :
           /\ call'[d].op = call[d].op /\ call'[d].bridge = call[d].bridge
           /\ call'[d].plan = call[d].plan /\ call'[d].told = call[d].told
           /\ call'[d].failed = call[d].failed
  <2> DEFINE place == IF call[c].n = Len(call[c].plan) THEN "checking" ELSE "building"
             new == [call[c] EXCEPT !.n = call[c].n + 1, !.pc = place]
  <2>1. call[c] \in ToolCallType /\ call[c].n + 1 \in Nat \ {0}
    BY <1>1
  <2>2. place \in {"checking", "building"}
    OBVIOUS
  <2>3. call' = [call EXCEPT ![c] = new]
    BY <1>1, <2>1 DEF Post, Advance, ToolCallType
  <2>4. /\ new \in ToolCallType /\ new.n = call[c].n + 1 /\ new.pc = place
        /\ new.op = call[c].op /\ new.bridge = call[c].bridge /\ new.plan = call[c].plan
        /\ new.told = call[c].told /\ new.failed = call[c].failed
    <3> HIDE DEF place
    <3> QED BY <2>1, <2>2 DEF ToolCallType
  <2> HIDE DEF new
  <2>5. \/ place = "checking" /\ call[c].n = Len(call[c].plan)
        \/ place = "building" /\ call[c].n < Len(call[c].plan)
    BY <1>1
  <2> HIDE DEF place
  <2> QED BY <1>1, <2>3, <2>4, <2>5
<1>5. \A d \in ToolCalls : Claimed(d)' = Claimed(d) /\ (Exempt(d)' <=> Exempt(d))
  BY <1>4 DEF Claimed, Exempt
<1>6. UNCHANGED <<limbo, late, clash>>
  BY DEF Post
<1>7. CallsInOrder'
  <2>1. call[c].n \in Nat /\ Len(call[c].plan) \in Nat
    BY <1>1, CallFacts
  <2> QED BY <2>1, <1>1, <1>4, SMTT(20) DEF SegmentInv, CallsInOrder, Standing
<1>8. MadeInOrder'
  <2>1. call[c].bridge \in Numbers
    BY CallFacts, SegmentAssumption DEF Numbers
  <2>2. \A p \in Group(c) : p \in Parts /\ (p[1] = "bridge" => p[2] = call[c].bridge) /\ p # <<"trunk", 1>>
    BY <1>1, <1>2 DEF SegmentInv, ClaimsInOrder
  <2>3. MadeInOrder
    BY DEF SegmentInv
  <2>4. \A w \in limbo : w.by # c
    BY <1>1, <2>3 DEF MadeInOrder
  <2>5. ASSUME NEW p \in DOMAIN router'
        PROVE  /\ p \in Parts /\ router'[p].of \in Numbers
               /\ \/ router'[p].by = "user"
                  \/ /\ router'[p].by \in ToolCalls /\ call'[router'[p].by].op = "create"
                     /\ router'[p].of = call'[router'[p].by].bridge
               /\ p[1] = "bridge" => router'[p].of = p[2]
               /\ p = <<"trunk", 1>> => router'[p].of = 0
    <3>1. CASE p \in DOMAIN router
      BY <3>1, <2>3, <1>3, <1>4 DEF MadeInOrder, Grown
    <3>2. CASE p \notin DOMAIN router
      BY <3>2, <2>1, <2>2, <1>1, <1>3, <1>4 DEF Grown
    <3> QED BY <3>1, <3>2
  <2> QED BY <2>3, <2>4, <2>5, <1>4, <1>6 DEF MadeInOrder
<1>9. ClaimsInOrder'
  BY <1>4, <1>5 DEF SegmentInv, ClaimsInOrder
<1>10. RollbackCovers'
  <2> SUFFICES ASSUME NEW d \in ToolCalls, NEW p \in DOMAIN router', router'[p].by = d
               PROVE  RollbackCovers!(d, p)'
    BY DEF RollbackCovers
  <2>1. CASE p \in DOMAIN router
    <3>1. RollbackCovers!(d, p) /\ router[p].by = d
      BY <2>1, <1>3 DEF SegmentInv, RollbackCovers, Grown
    <3>2. CASE d = c
      BY <3>1, <3>2, <1>1, <1>4, <1>5
    <3>3. CASE d # c
      BY <3>1, <3>3, <1>4, <1>5, <1>6
    <3> QED BY <3>2, <3>3
  <2>2. CASE p \notin DOMAIN router
    <3>1. p \in Claimed(c) /\ d = c
      BY <2>2, <1>2, <1>3 DEF Grown
    <3> QED BY <3>1, <1>1, <1>4, <1>5
  <2> QED BY <2>1, <2>2
<1>11. ASSUME clash' = FALSE
       PROVE  Separate'
  <2>1. Separate
    BY <1>11, <1>6 DEF SegmentInv
  <2>2. \A d \in ToolCalls :
          /\ Creating(d)' <=> Creating(d)
          /\ Removing(d)' <=> Removing(d)
          /\ Held(d)' <=> Held(d)
          /\ Standing(d)' <=> Standing(d)
    BY <1>1, <1>4, <1>5 DEF Creating, Removing, Held, Standing
  <2>3. Creating(c)
    BY <1>1 DEF Creating
  <2>4. \A p \in Group(c) : p \in Claimed(c)
    BY <1>2
  <2>5. \A w \in limbo : w.by # c
    BY <1>1 DEF SegmentInv, MadeInOrder
  <2>6. CreationsApart'
    BY <2>1, <2>2, <1>5 DEF Separate, CreationsApart
  <2>7. LimboApart'
    BY <2>1, <2>2, <1>5, <1>6 DEF Separate, LimboApart
  <2>8. ClaimedIsOwn'
    <3> SUFFICES ASSUME NEW e \in ToolCalls, Creating(e), NEW p \in Claimed(e), p \in DOMAIN router'
                 PROVE  router'[p].by = e
      BY <2>2, <1>5 DEF ClaimedIsOwn, Made
    <3>1. CASE p \in DOMAIN router
      BY <3>1, <2>1, <1>3 DEF Separate, ClaimedIsOwn, Made, Grown
    <3>2. CASE p \notin DOMAIN router
      <4>1. p \in Claimed(c) /\ router'[p].by = c
        BY <3>2, <2>4, <1>3 DEF Grown
      <4>2. e = c
        BY <4>1, <2>1, <2>3 DEF Separate, CreationsApart, Apart, Held
      <4> QED BY <4>1, <4>2
    <3> QED BY <3>1, <3>2
  <2>9. LimboIsOwn'
    <3> SUFFICES ASSUME NEW w \in limbo, NEW p \in w.parts, p \in DOMAIN router'
                 PROVE  router'[p].of = w.of
      BY <1>6 DEF LimboIsOwn, Made
    <3>1. p \notin Claimed(c)
      BY <2>1, <2>3, <2>5 DEF Separate, LimboApart, Apart
    <3>2. p \in DOMAIN router
      BY <3>1, <2>4, <1>3 DEF Grown
    <3> QED BY <3>2, <2>1, <1>3 DEF Separate, LimboIsOwn, Made, Grown
  <2>10. RemovalIsOwn'
    <3> SUFFICES ASSUME NEW d \in ToolCalls, Removing(d), NEW p \in Claimed(d)
                 PROVE  /\ p \in DOMAIN router' => router'[p].of = call[d].bridge
                        /\ \A e \in ToolCalls :
                             Creating(e) /\ p \in Claimed(e) => call[e].bridge = call[d].bridge
                        /\ \A w \in limbo : p \in w.parts => w.of = call[d].bridge
      BY <2>2, <1>4, <1>5, <1>6 DEF RemovalIsOwn, Made
    <3>1. /\ p \in DOMAIN router => router[p].of = call[d].bridge
          /\ \A e \in ToolCalls :
               Creating(e) /\ p \in Claimed(e) => call[e].bridge = call[d].bridge
          /\ \A w \in limbo : p \in w.parts => w.of = call[d].bridge
      BY <2>1 DEF Separate, RemovalIsOwn, Made
    <3>2. CASE p \in DOMAIN router
      BY <3>1, <3>2, <1>3 DEF Grown
    <3>3. CASE p \notin DOMAIN router
      BY <3>1, <3>3, <2>3, <2>4, <1>3 DEF Grown
    <3> QED BY <3>1, <3>2, <3>3
  <2>11. PostedStands'
    <3> SUFFICES ASSUME NEW d \in ToolCalls, Standing(d), ~Exempt(d),
                        NEW i \in 1 .. (call'[d].n - 1), NEW p \in call[d].plan[i]
                 PROVE  p \in DOMAIN router' /\ router'[p].by = d
      BY <2>2, <1>4, <1>5 DEF PostedStands, Made
    <3>1. CASE d = c /\ i = call[c].n
      <4>1. p \in Group(c)
        BY <3>1, <1>2
      <4>2. p \in DOMAIN router => router[p].by = c
        BY <4>1, <2>1, <2>3, <2>4 DEF Separate, ClaimedIsOwn, Made
      <4> QED BY <3>1, <4>1, <4>2, <1>3 DEF Grown
    <3>2. CASE ~(d = c /\ i = call[c].n)
      <4>1. i \in 1 .. (call[d].n - 1)
        BY <3>2, <1>1, <1>4, CallFacts
      <4>2. p \in DOMAIN router /\ router[p].by = d
        BY <4>1, <2>1 DEF Separate, PostedStands, Made
      <4> QED BY <4>2, <1>3 DEF Grown
    <3> QED BY <3>1, <3>2
  <2> QED BY <2>6, <2>7, <2>8, <2>9, <2>10, <2>11 DEF Separate
<1> QED BY <1>6, <1>7, <1>8, <1>9, <1>10, <1>11 DEF SegmentInv

\* What turns to tearing a plan down.
Reversed(x, plan) == [x EXCEPT !.pc = "tearing", !.n = 1, !.plan = plan]

\* It is a call still, and the same in all but its plan and place.
LEMMA ReversedCall ==
  ASSUME NEW x \in ToolCallType, NEW plan \in Plans
  PROVE  /\ Reversed(x, plan) \in ToolCallType
         /\ Reversed(x, plan).n = 1 /\ Reversed(x, plan).pc = "tearing" /\ Reversed(x, plan).plan = plan
         /\ Reversed(x, plan).op = x.op /\ Reversed(x, plan).bridge = x.bridge
         /\ Reversed(x, plan).told = x.told /\ Reversed(x, plan).failed = x.failed
<1> DEFINE first == [x EXCEPT !.pc = "tearing", !.n = 1]
<1>1. 1 \in Nat \ {0}
  OBVIOUS
<1>2. /\ first \in ToolCallType /\ first.n = 1 /\ first.pc = "tearing"
      /\ first.op = x.op /\ first.bridge = x.bridge
      /\ first.told = x.told /\ first.failed = x.failed
  BY <1>1 DEF ToolCallType
<1>3. Reversed(x, plan) = [first EXCEPT !.plan = plan]
  BY DEF Reversed
<1> HIDE DEF first
<1> QED BY <1>2, <1>3 DEF ToolCallType

\* A creation turns to its rollback, whatever has become of the command that failed.
LEMMA AbandonKeeps ==
  ASSUME SegmentInv, NEW c \in ToolCalls, call[c].pc \in {"building", "checking"},
         NEW parts \in SUBSET Claimed(c),
         Grown(router, router', parts, c, call[c].bridge),
         \A w \in limbo' : \/ w \in limbo
                           \/ w.by = c /\ w.of = call[c].bridge /\ w.parts \subseteq Claimed(c),
         Abandon(c), UNCHANGED histories
  PROVE  SegmentInv'
<1>1. /\ call \in [ToolCalls -> ToolCallType]
      /\ call[c].op = "create" /\ call[c].told = "none"
      /\ Claimed(c) \subseteq Parts
  BY DEF SegmentInv, CallsInOrder, Standing, ClaimsInOrder
<1>2. Undo(Claimed(c)) \in Seq(SUBSET Parts) /\ Union(Undo(Claimed(c))) = Claimed(c)
  BY <1>1, UndoCovers
<1>3. /\ call' \in [ToolCalls -> ToolCallType]
      /\ \A d \in ToolCalls : d # c => call'[d] = call[d]
      /\ call'[c].n = 1 /\ call'[c].pc = "tearing" /\ call'[c].plan = Undo(Claimed(c))
      /\ \A d \in ToolCalls :
           /\ call'[d].op = call[d].op /\ call'[d].bridge = call[d].bridge
           /\ call'[d].told = call[d].told /\ call'[d].failed = call[d].failed
  <2> DEFINE plan == Undo(Claimed(c))
             new == Reversed(call[c], plan)
  <2>1. call[c] \in ToolCallType /\ plan \in Plans
    BY <1>1, <1>2 DEF Plans
  <2> HIDE DEF plan
  <2>2. call' = [call EXCEPT ![c] = new]
    BY <1>1, <2>1 DEF Abandon, ToolCallType, Reversed, plan
  <2>3. /\ new \in ToolCallType /\ new.n = 1 /\ new.pc = "tearing" /\ new.plan = plan
        /\ new.op = call[c].op /\ new.bridge = call[c].bridge
        /\ new.told = call[c].told /\ new.failed = call[c].failed
    BY <2>1, ReversedCall
  <2> HIDE DEF new
  <2> QED BY <1>1, <2>2, <2>3 DEF plan
<1>4. \A d \in ToolCalls : Claimed(d)' = Claimed(d) /\ (Exempt(d)' <=> Exempt(d))
  <2>1. Claimed(c)' = Claimed(c)
    BY <1>2, <1>3 DEF Claimed, Union
  <2>2. \A d \in ToolCalls : d # c => Claimed(d)' = Claimed(d)
    BY <1>3 DEF Claimed
  <2> QED BY <2>1, <2>2, <1>3 DEF Exempt
<1>5. UNCHANGED <<late, clash>>
  BY DEF histories
<1>6. CallsInOrder'
  BY <1>1, <1>3 DEF SegmentInv, CallsInOrder, Standing
<1>7. \A p \in Claimed(c) : p \in Parts /\ (p[1] = "bridge" => p[2] = call[c].bridge) /\ p # <<"trunk", 1>>
  BY <1>1 DEF SegmentInv, ClaimsInOrder
<1>8. MadeInOrder'
  <2>1. call[c].bridge \in Numbers
    BY CallFacts, SegmentAssumption DEF Numbers
  <2>2. MadeInOrder
    BY DEF SegmentInv
  <2>3. \A w \in limbo : w.by # c
    BY <2>2 DEF MadeInOrder
  <2>4. ASSUME NEW p \in DOMAIN router'
        PROVE  /\ p \in Parts /\ router'[p].of \in Numbers
               /\ \/ router'[p].by = "user"
                  \/ /\ router'[p].by \in ToolCalls /\ call'[router'[p].by].op = "create"
                     /\ router'[p].of = call'[router'[p].by].bridge
               /\ p[1] = "bridge" => router'[p].of = p[2]
               /\ p = <<"trunk", 1>> => router'[p].of = 0
    <3>1. CASE p \in DOMAIN router
      BY <3>1, <2>2, <1>3 DEF MadeInOrder, Grown
    <3>2. CASE p \notin DOMAIN router
      BY <3>2, <2>1, <1>1, <1>3, <1>7 DEF Grown
    <3> QED BY <3>1, <3>2
  <2>5. ASSUME NEW w \in limbo'
        PROVE  /\ w.by \in ToolCalls /\ call'[w.by].op = "create"
               /\ call'[w.by].pc \in {"tearing", "ended"} /\ call'[w.by].told # "created"
               /\ w.of = call'[w.by].bridge /\ w.parts \subseteq Parts
               /\ \A p \in w.parts : (p[1] = "bridge" => p[2] = w.of) /\ p # <<"trunk", 1>>
    <3>1. CASE w \in limbo
      BY <3>1, <2>2, <2>3, <1>3 DEF MadeInOrder
    <3>2. CASE w.by = c /\ w.of = call[c].bridge /\ w.parts \subseteq Claimed(c)
      BY <3>2, <1>1, <1>3, <1>7
    <3> QED BY <3>1, <3>2
  <2> QED BY <2>4, <2>5 DEF MadeInOrder
<1>9. ClaimsInOrder'
  BY <1>3, <1>4 DEF SegmentInv, ClaimsInOrder
<1>10. RollbackCovers'
  <2> SUFFICES ASSUME NEW d \in ToolCalls, NEW p \in DOMAIN router', router'[p].by = d
               PROVE  RollbackCovers!(d, p)'
    BY DEF RollbackCovers
  <2>1. CASE d = c
    <3>1. p \in Claimed(c)
      BY <2>1 DEF SegmentInv, RollbackCovers, Grown
    <3>2. \E i \in 1 .. Len(Undo(Claimed(c))) : p \in Undo(Claimed(c))[i]
      BY <3>1, <1>2 DEF Union, Range
    <3> QED BY <2>1, <3>1, <3>2, <1>1, <1>3
  <2>2. CASE d # c
    <3>1. p \in DOMAIN router /\ router[p].by = d
      BY <2>2 DEF Grown
    <3>2. RollbackCovers!(d, p)
      BY <3>1 DEF SegmentInv, RollbackCovers
    <3> QED BY <2>2, <3>1, <3>2, <1>3, <1>4, <1>5
  <2> QED BY <2>1, <2>2
<1>11. ASSUME clash' = FALSE
       PROVE  Separate'
  <2>1. Separate
    BY <1>11, <1>5 DEF SegmentInv
  <2>2. \A d \in ToolCalls :
          /\ Creating(d)' <=> Creating(d)
          /\ Removing(d)' <=> Removing(d)
          /\ Held(d)' <=> Held(d)
          /\ Standing(d)' => Standing(d) /\ d # c
    BY <1>1, <1>3, <1>4 DEF Creating, Removing, Held, Standing
  <2>3. Creating(c)
    BY <1>1 DEF Creating
  <2>4. CreationsApart'
    BY <2>1, <2>2, <1>4 DEF Separate, CreationsApart
  <2>5. ClaimedIsOwn'
    <3> SUFFICES ASSUME NEW e \in ToolCalls, Creating(e), NEW p \in Claimed(e), p \in DOMAIN router'
                 PROVE  router'[p].by = e
      BY <2>2, <1>4 DEF ClaimedIsOwn, Made
    <3>1. CASE p \in DOMAIN router
      BY <3>1, <2>1 DEF Separate, ClaimedIsOwn, Made, Grown
    <3>2. CASE p \notin DOMAIN router
      <4>1. p \in Claimed(c) /\ router'[p].by = c
        BY <3>2 DEF Grown
      <4>2. e = c
        BY <4>1, <2>1, <2>3 DEF Separate, CreationsApart, Apart, Held
      <4> QED BY <4>1, <4>2
    <3> QED BY <3>1, <3>2
  <2>6. \A p \in Claimed(c) : p \in DOMAIN router' => router'[p].of = call[c].bridge
    BY <2>2, <2>3, <2>5, <1>3, <1>4, <1>8, SegmentAssumption DEF ClaimedIsOwn, Made, MadeInOrder
  <2>7. \A w \in limbo : Apart(w.parts, Claimed(c))
    <3>1. \A w \in limbo : w.by # c
      BY DEF SegmentInv, MadeInOrder
    <3> QED BY <3>1, <2>1, <2>3 DEF Separate, LimboApart
  <2>8. LimboApart'
    <3>1. ASSUME NEW w \in limbo', NEW e \in ToolCalls, w.by # e, Creating(e)
          PROVE  Apart(w.parts, Claimed(e))
      <4>1. CASE w \in limbo
        BY <4>1, <3>1, <2>1 DEF Separate, LimboApart
      <4>2. CASE w.by = c /\ w.of = call[c].bridge /\ w.parts \subseteq Claimed(c)
        BY <4>2, <3>1, <2>1, <2>3 DEF Separate, CreationsApart, Apart, Held
      <4> QED BY <4>1, <4>2
    <3>2. ASSUME NEW w \in limbo', NEW x \in limbo', w.by # x.by
          PROVE  Apart(w.parts, x.parts)
      <4>1. CASE w \in limbo /\ x \in limbo
        BY <4>1, <3>2, <2>1 DEF Separate, LimboApart
      <4>2. CASE w \notin limbo
        <5>1. w.by = c /\ w.parts \subseteq Claimed(c) /\ x \in limbo
          BY <4>2, <3>2
        <5> QED BY <5>1, <2>7 DEF Apart
      <4>3. CASE x \notin limbo
        <5>1. x.by = c /\ x.parts \subseteq Claimed(c) /\ w \in limbo
          BY <4>3, <3>2
        <5> QED BY <5>1, <2>7 DEF Apart
      <4> QED BY <4>1, <4>2, <4>3
    <3> QED BY <3>1, <3>2, <2>2, <1>4 DEF LimboApart
  <2>9. LimboIsOwn'
    <3> SUFFICES ASSUME NEW w \in limbo', NEW p \in w.parts, p \in DOMAIN router'
                 PROVE  router'[p].of = w.of
      BY DEF LimboIsOwn, Made
    <3>1. CASE w \in limbo
      <4>1. p \in DOMAIN router
        BY <3>1, <2>7 DEF Apart, Grown
      <4> QED BY <4>1, <3>1, <2>1 DEF Separate, LimboIsOwn, Made, Grown
    <3>2. CASE w.by = c /\ w.of = call[c].bridge /\ w.parts \subseteq Claimed(c)
      BY <3>2, <2>6
    <3> QED BY <3>1, <3>2
  <2>10. RemovalIsOwn'
    <3> SUFFICES ASSUME NEW d \in ToolCalls, Removing(d), NEW p \in Claimed(d)
                 PROVE  /\ p \in DOMAIN router' => router'[p].of = call[d].bridge
                        /\ \A e \in ToolCalls :
                             Creating(e) /\ p \in Claimed(e) => call[e].bridge = call[d].bridge
                        /\ \A w \in limbo' : p \in w.parts => w.of = call[d].bridge
      BY <2>2, <1>3, <1>4 DEF RemovalIsOwn, Made
    <3>1. /\ p \in DOMAIN router => router[p].of = call[d].bridge
          /\ \A e \in ToolCalls :
               Creating(e) /\ p \in Claimed(e) => call[e].bridge = call[d].bridge
          /\ \A w \in limbo : p \in w.parts => w.of = call[d].bridge
      BY <2>1 DEF Separate, RemovalIsOwn, Made
    <3>2. \A w \in limbo' : p \in w.parts => w.of = call[d].bridge
      BY <3>1, <2>3
    <3>3. CASE p \in DOMAIN router
      BY <3>1, <3>2, <3>3 DEF Grown
    <3>4. CASE p \notin DOMAIN router
      BY <3>1, <3>2, <3>4, <2>3 DEF Grown
    <3> QED BY <3>1, <3>3, <3>4
  <2>11. PostedStands'
    <3> SUFFICES ASSUME NEW d \in ToolCalls, Standing(d), d # c, ~Exempt(d),
                        NEW i \in 1 .. (call[d].n - 1), NEW p \in call[d].plan[i]
                 PROVE  p \in DOMAIN router' /\ router'[p].by = d
      BY <2>2, <1>3, <1>4 DEF PostedStands, Made
    <3>1. p \in DOMAIN router /\ router[p].by = d
      BY <2>1 DEF Separate, PostedStands, Made
    <3> QED BY <3>1 DEF Grown
  <2> QED BY <2>4, <2>5, <2>8, <2>9, <2>10, <2>11 DEF Separate
<1> QED BY <1>5, <1>6, <1>8, <1>9, <1>10, <1>11 DEF SegmentInv

\* A command that was given up on is executed after all.
LEMMA StraggleKeeps ==
  ASSUME SegmentInv, Straggle
  PROVE  SegmentInv'
<1>1. PICK w \in limbo :
        /\ limbo' = limbo \ {w}
        /\ router' = Given(router, w.parts, w.by, w.of)
        /\ late' = late \cup {w.by}
        /\ UNCHANGED <<clash, call>>
  BY DEF Straggle
<1>2. Grown(router, router', w.parts, w.by, w.of)
  BY <1>1, GivenGrows
<1>3. MadeInOrder /\ ClaimsInOrder /\ RollbackCovers /\ CallsInOrder
  BY DEF SegmentInv
<1>4. /\ w.by \in ToolCalls /\ call[w.by].op = "create" /\ call[w.by].pc \in {"tearing", "ended"}
      /\ w.of = call[w.by].bridge /\ w.parts \subseteq Parts /\ call[w.by].told # "created"
      /\ \A p \in w.parts : (p[1] = "bridge" => p[2] = w.of) /\ p # <<"trunk", 1>>
  BY <1>3 DEF MadeInOrder
<1>5. CallsInOrder'
  BY <1>1, <1>3 DEF CallsInOrder, Standing
<1>6. \A d \in ToolCalls : Claimed(d)' = Claimed(d) /\ (Exempt(d)' <=> Exempt(d))
  BY <1>1 DEF Claimed, Exempt
<1>7. MadeInOrder'
  <2>1. w.of \in Numbers
    BY <1>4, CallFacts, SegmentAssumption DEF Numbers
  <2>2. ASSUME NEW p \in DOMAIN router'
        PROVE  /\ p \in Parts /\ router'[p].of \in Numbers
               /\ \/ router'[p].by = "user"
                  \/ /\ router'[p].by \in ToolCalls /\ call[router'[p].by].op = "create"
                     /\ router'[p].of = call[router'[p].by].bridge
               /\ p[1] = "bridge" => router'[p].of = p[2]
               /\ p = <<"trunk", 1>> => router'[p].of = 0
    <3>1. CASE p \in DOMAIN router
      BY <3>1, <1>2, <1>3 DEF MadeInOrder, Grown
    <3>2. CASE p \notin DOMAIN router
      BY <3>2, <2>1, <1>2, <1>4 DEF Grown
    <3> QED BY <3>1, <3>2
  <2> QED BY <2>2, <1>1, <1>3 DEF MadeInOrder
<1>8. ClaimsInOrder'
  BY <1>1, <1>3, <1>6 DEF ClaimsInOrder
<1>9. RollbackCovers'
  <2> SUFFICES ASSUME NEW d \in ToolCalls, NEW p \in DOMAIN router', router'[p].by = d
               PROVE  RollbackCovers!(d, p)'
    BY DEF RollbackCovers
  <2>1. CASE p \in DOMAIN router
    <3>1. router[p].by = d
      BY <2>1, <1>2 DEF Grown
    <3> QED BY <2>1, <3>1, <1>1, <1>3, <1>6 DEF RollbackCovers
  <2>2. CASE p \notin DOMAIN router
    BY <2>2, <1>1, <1>2, <1>4 DEF Grown
  <2> QED BY <2>1, <2>2
<1>10. ASSUME clash' = FALSE
       PROVE  Separate'
  <2>1. Separate
    BY <1>1, <1>10 DEF SegmentInv
  <2>2. \A d \in ToolCalls :
          /\ Creating(d)' <=> Creating(d)
          /\ Removing(d)' <=> Removing(d)
          /\ Held(d)' <=> Held(d)
          /\ Standing(d)' <=> Standing(d)
    BY <1>1, <1>6 DEF Creating, Removing, Held, Standing
  <2>3. CreationsApart'
    BY <2>1, <2>2, <1>6 DEF Separate, CreationsApart
  <2>4. LimboApart'
    BY <2>1, <2>2, <1>1, <1>6 DEF Separate, LimboApart
  <2>5. ClaimedIsOwn'
    <3> SUFFICES ASSUME NEW e \in ToolCalls, Creating(e), NEW p \in Claimed(e), p \in DOMAIN router'
                 PROVE  router'[p].by = e
      BY <2>2, <1>6 DEF ClaimedIsOwn, Made
    <3>1. CASE p \in DOMAIN router
      BY <3>1, <2>1, <1>2 DEF Separate, ClaimedIsOwn, Made, Grown
    <3>2. CASE p \notin DOMAIN router
      <4>1. p \in w.parts /\ router'[p].by = w.by
        BY <3>2, <1>2 DEF Grown
      <4> QED BY <4>1, <2>1 DEF Separate, LimboApart, Apart
    <3> QED BY <3>1, <3>2
  <2>6. LimboIsOwn'
    <3> SUFFICES ASSUME NEW x \in limbo, NEW p \in x.parts, p \in DOMAIN router'
                 PROVE  router'[p].of = x.of
      BY <1>1 DEF LimboIsOwn, Made
    <3>1. CASE p \in DOMAIN router
      BY <3>1, <2>1, <1>2 DEF Separate, LimboIsOwn, Made, Grown
    <3>2. CASE p \notin DOMAIN router
      <4>1. p \in w.parts /\ router'[p].of = w.of
        BY <3>2, <1>2 DEF Grown
      <4>2. x.by = w.by
        BY <4>1, <2>1 DEF Separate, LimboApart, Apart
      <4>3. x.of = w.of
        BY <4>2, <1>3, <1>4 DEF MadeInOrder
      <4> QED BY <4>1, <4>3
    <3> QED BY <3>1, <3>2
  <2>7. RemovalIsOwn'
    <3> SUFFICES ASSUME NEW d \in ToolCalls, Removing(d), NEW p \in Claimed(d)
                 PROVE  /\ p \in DOMAIN router' => router'[p].of = call[d].bridge
                        /\ \A e \in ToolCalls :
                             Creating(e) /\ p \in Claimed(e) => call[e].bridge = call[d].bridge
                        /\ \A x \in limbo' : p \in x.parts => x.of = call[d].bridge
      BY <2>2, <1>1, <1>6 DEF RemovalIsOwn, Made
    <3>1. /\ p \in DOMAIN router => router[p].of = call[d].bridge
          /\ \A e \in ToolCalls :
               Creating(e) /\ p \in Claimed(e) => call[e].bridge = call[d].bridge
          /\ \A x \in limbo : p \in x.parts => x.of = call[d].bridge
      BY <2>1 DEF Separate, RemovalIsOwn, Made
    <3>2. CASE p \in DOMAIN router
      BY <3>1, <3>2, <1>1, <1>2 DEF Grown
    <3>3. CASE p \notin DOMAIN router
      BY <3>1, <3>3, <1>1, <1>2 DEF Grown
    <3> QED BY <3>2, <3>3
  <2>8. PostedStands'
    <3> SUFFICES ASSUME NEW d \in ToolCalls, Standing(d), ~Exempt(d),
                        NEW i \in 1 .. (call[d].n - 1), NEW p \in call[d].plan[i]
                 PROVE  p \in DOMAIN router' /\ router'[p].by = d
      BY <2>2, <1>1, <1>6 DEF PostedStands, Made
    <3>1. p \in DOMAIN router /\ router[p].by = d
      BY <2>1 DEF Separate, PostedStands, Made
    <3> QED BY <3>1, <1>2 DEF Grown
  <2> QED BY <2>3, <2>4, <2>5, <2>6, <2>7, <2>8 DEF Separate
<1>11. late' \subseteq ToolCalls
  BY <1>1, <1>4 DEF SegmentInv
<1> QED BY <1>1, <1>5, <1>7, <1>8, <1>9, <1>10, <1>11 DEF SegmentInv

\* One command of a teardown, executed or not.
LEMMA TearKeeps ==
  ASSUME SegmentInv, NEW c \in ToolCalls, Tear(c)
  PROVE  SegmentInv'
<1>1. /\ call \in [ToolCalls -> ToolCallType]
      /\ call[c].pc = "tearing" /\ call[c].op # "none" /\ call[c].told = "none"
      /\ call[c].n \in 1 .. Len(call[c].plan)
  <2>1. call[c].n \in Nat \ {0} /\ Len(call[c].plan) \in Nat
    BY CallFacts
  <2> QED BY <2>1 DEF Tear, At, SegmentInv, CallsInOrder
<1>2. Group(c) = call[c].plan[call[c].n] /\ Group(c) \subseteq Claimed(c)
  BY <1>1, CallFacts DEF Group
<1>3. /\ \A p \in DOMAIN router' : p \in DOMAIN router /\ router'[p] = router[p]
      /\ \A p \in DOMAIN router : p \notin Group(c) => p \in DOMAIN router'
  <2>1. CASE router' = router
    BY <2>1
  <2>2. CASE router' = Cleared(Group(c))
    BY <2>2 DEF Cleared
  <2> QED BY <2>1, <2>2 DEF Tear
<1>4. /\ call' \in [ToolCalls -> ToolCallType]
      /\ \A d \in ToolCalls : d # c => call'[d] = call[d]
      /\ call'[c].n = call[c].n + 1
      /\ \A d \in ToolCalls :
           /\ call'[d].op = call[d].op /\ call'[d].bridge = call[d].bridge
           /\ call'[d].plan = call[d].plan /\ call'[d].told = call[d].told
           /\ call'[d].pc = call[d].pc
      /\ \/ call'[c].failed = call[c].failed /\ \A p \in Group(c) : p \notin DOMAIN router'
         \/ call'[c].failed = call[c].failed + 1
  <2>1. call[c] \in ToolCallType /\ call[c].n + 1 \in Nat \ {0} /\ call[c].failed + 1 \in Nat
    BY <1>1, CallFacts
  <2>2. CASE /\ router' = Cleared(Group(c))
             /\ call' = [call EXCEPT ![c].n = @ + 1]
    <3> DEFINE new == [call[c] EXCEPT !.n = call[c].n + 1]
    <3>1. call' = [call EXCEPT ![c] = new]
      BY <2>2, <1>1
    <3>2. /\ new \in ToolCallType /\ new.n = call[c].n + 1 /\ new.pc = call[c].pc
          /\ new.op = call[c].op /\ new.bridge = call[c].bridge /\ new.plan = call[c].plan
          /\ new.told = call[c].told /\ new.failed = call[c].failed
      BY <2>1 DEF ToolCallType
    <3>3. \A p \in Group(c) : p \notin DOMAIN router'
      BY <2>2 DEF Cleared
    <3> HIDE DEF new
    <3> QED BY <1>1, <3>1, <3>2, <3>3
  <2>3. CASE call' = [call EXCEPT ![c].n = @ + 1, ![c].failed = @ + 1]
    <3> DEFINE new == [call[c] EXCEPT !.n = call[c].n + 1, !.failed = call[c].failed + 1]
    <3>1. call' = [call EXCEPT ![c] = new]
      BY <2>1, <2>3, <1>1 DEF ToolCallType
    <3>2. /\ new \in ToolCallType /\ new.n = call[c].n + 1 /\ new.pc = call[c].pc
          /\ new.op = call[c].op /\ new.bridge = call[c].bridge /\ new.plan = call[c].plan
          /\ new.told = call[c].told /\ new.failed = call[c].failed + 1
      BY <2>1 DEF ToolCallType
    <3> HIDE DEF new
    <3> QED BY <1>1, <3>1, <3>2
  <2> QED BY <2>2, <2>3 DEF Tear
<1>5. \A d \in ToolCalls : Claimed(d)' = Claimed(d) /\ (Exempt(d)' <=> Exempt(d))
  BY <1>4 DEF Claimed, Exempt
<1>6. UNCHANGED <<limbo, late, clash>>
  BY DEF Tear, histories
<1>7. MadeInOrder /\ ClaimsInOrder /\ RollbackCovers /\ CallsInOrder
  BY DEF SegmentInv
<1>8. CallsInOrder'
  BY <1>1, <1>4, <1>7 DEF CallsInOrder, Standing
<1>9. MadeInOrder'
  BY <1>3, <1>4, <1>6, <1>7 DEF MadeInOrder
<1>10. ClaimsInOrder'
  BY <1>4, <1>5, <1>7 DEF ClaimsInOrder
<1>11. RollbackCovers'
  <2> SUFFICES ASSUME NEW d \in ToolCalls, NEW p \in DOMAIN router', router'[p].by = d
               PROVE  RollbackCovers!(d, p)'
    BY DEF RollbackCovers
  <2>1. p \in DOMAIN router /\ router[p].by = d
    BY <1>3
  <2>2. RollbackCovers!(d, p)
    BY <2>1, <1>7 DEF RollbackCovers
  <2>3. CASE d # c
    BY <2>1, <2>2, <2>3, <1>4, <1>5, <1>6
  <2>4. CASE d = c
    <3>1. ASSUME call'[c].failed = 0, call[c].op = "create", c \notin late
          PROVE  \E i \in call'[c].n .. Len(call[c].plan) : p \in call[c].plan[i]
      <4>1. call[c].failed = 0 /\ p \notin Group(c)
        BY <3>1, <1>4, CallFacts
      <4>2. PICK i \in call[c].n .. Len(call[c].plan) : p \in call[c].plan[i]
        BY <4>1, <3>1, <2>1, <2>2, <2>4, <1>1
      <4>3. i # call[c].n
        BY <4>1, <4>2, <1>2
      <4>4. i \in call'[c].n .. Len(call[c].plan)
        BY <4>2, <4>3, <1>1, <1>4
      <4> QED BY <4>2, <4>4
    <3> QED BY <3>1, <2>4, <1>1, <1>4, <1>6
  <2> QED BY <2>3, <2>4
<1>12. ASSUME clash' = FALSE
       PROVE  Separate'
  <2>1. Separate
    BY <1>6, <1>12 DEF SegmentInv
  <2>2. \A d \in ToolCalls :
          /\ Creating(d)' <=> Creating(d)
          /\ Removing(d)' <=> Removing(d)
          /\ Held(d)' <=> Held(d)
          /\ Standing(d)' <=> Standing(d)
    BY <1>4, <1>5 DEF Creating, Removing, Held, Standing
  <2>3. CreationsApart'
    BY <2>1, <2>2, <1>5 DEF Separate, CreationsApart
  <2>4. LimboApart'
    BY <2>1, <2>2, <1>5, <1>6 DEF Separate, LimboApart
  <2>5. ClaimedIsOwn'
    BY <2>1, <2>2, <1>3, <1>5 DEF Separate, ClaimedIsOwn, Made
  <2>6. LimboIsOwn'
    BY <2>1, <1>3, <1>6 DEF Separate, LimboIsOwn, Made
  <2>7. RemovalIsOwn'
    BY <2>1, <2>2, <1>3, <1>4, <1>5, <1>6 DEF Separate, RemovalIsOwn, Made
  <2>8. PostedStands'
    <3> SUFFICES ASSUME NEW d \in ToolCalls, Standing(d), ~Exempt(d),
                        NEW i \in 1 .. (call'[d].n - 1), NEW p \in call[d].plan[i]
                 PROVE  p \in DOMAIN router' /\ router'[p].by = d
      BY <2>2, <1>4, <1>5 DEF PostedStands, Made
    <3>1. d # c
      BY <1>1 DEF Standing
    <3>2. i \in 1 .. (call[d].n - 1) /\ call'[d].n = call[d].n
      BY <3>1, <1>4
    <3>3. p \in DOMAIN router /\ router[p].by = d
      BY <3>2, <2>1 DEF Separate, PostedStands, Made
    <3>4. p \in Claimed(d)
      <4>1. call[d].n <= Len(call[d].plan) + 1
        BY <1>7, CallFacts DEF CallsInOrder, Standing
      <4>2. i \in 1 .. Len(call[d].plan)
        <5>1. call[d].n \in Nat \ {0} /\ Len(call[d].plan) \in Nat
          BY CallFacts
        <5> QED BY <5>1, <4>1, <3>2
      <4> QED BY <4>2, CallFacts
    <3>5. p \notin Claimed(c)
      <4>1. CASE call[c].op = "create"
        <5>1. Held(d) /\ Creating(c)
          BY <4>1, <1>1, <1>7 DEF Held, Creating, Standing, CallsInOrder
        <5> QED BY <5>1, <3>1, <3>4, <2>1 DEF Separate, CreationsApart, Apart
      <4>2. CASE call[c].op = "delete"
        <5>1. Removing(c)
          BY <4>2, <1>1 DEF Removing
        <5>2. router[p].of = call[d].bridge
          BY <3>3, <1>7, SegmentAssumption DEF MadeInOrder
        <5>3. p \in Claimed(c) => call[d].bridge = call[c].bridge
          BY <5>1, <5>2, <3>3, <2>1 DEF Separate, RemovalIsOwn, Made
        <5> QED BY <5>3, <4>2 DEF Exempt
      <4>3. call[c].op \in {"create", "delete"}
        <5>1. call[c].op \in {"none", "create", "delete"}
          BY <1>1 DEF ToolCallType
        <5> QED BY <5>1, <1>1
      <4> QED BY <4>1, <4>2, <4>3
    <3> QED BY <3>3, <3>5, <1>2, <1>3
  <2> QED BY <2>3, <2>4, <2>5, <2>6, <2>7, <2>8 DEF Separate
<1> QED BY <1>6, <1>8, <1>9, <1>10, <1>11, <1>12 DEF SegmentInv

\* What serves a bridge is nobody's who works for another.
LEMMA ServedIsOwn ==
  ASSUME SegmentInv, Separate, NEW b, NEW p \in DOMAIN router, router[p].of = b
  PROVE  /\ \A e \in ToolCalls : Creating(e) /\ p \in Claimed(e) => call[e].bridge = b
         /\ \A w \in limbo : p \in w.parts => w.of = b
<1>1. ASSUME NEW e \in ToolCalls, Creating(e), p \in Claimed(e)
      PROVE  call[e].bridge = b
  <2>1. router[p].by = e
    BY <1>1 DEF Separate, ClaimedIsOwn, Made
  <2> QED BY <2>1, SegmentAssumption DEF SegmentInv, MadeInOrder
<1>2. ASSUME NEW w \in limbo, p \in w.parts
      PROVE  w.of = b
  BY <1>2 DEF Separate, LimboIsOwn, Made
<1> QED BY <1>1, <1>2

\* A removal that was accepted: which VLAN, and nothing else yet.
LEMMA DeleteKeeps ==
  ASSUME SegmentInv, NEW c \in ToolCalls, NEW b \in 1 .. Limit, At(c, "idle"),
         call' = [call EXCEPT ![c] = ToolCall("delete", "surveying", b,
           IF UiVisible(b) THEN <<ServedBy(b, {"vlan", "trunk"})>> ELSE <<>>)],
         UNCHANGED <<router, limbo, histories>>
  PROVE  SegmentInv'
<1>1. /\ call \in [ToolCalls -> ToolCallType] /\ call[c].pc = "idle" /\ call[c].op = "none"
      /\ call[c].told = "none"
  BY DEF At, SegmentInv, CallsInOrder
<1>2. MadeInOrder /\ ClaimsInOrder /\ RollbackCovers /\ CallsInOrder
  BY DEF SegmentInv
<1> DEFINE parts == ServedBy(b, {"vlan", "trunk"})
           plan == IF UiVisible(b) THEN <<parts>> ELSE <<>>
<1>3. \A p \in parts : p \in DOMAIN router /\ router[p].of = b /\ p \in Parts
                         /\ p[1] \in {"vlan", "trunk"}
  BY <1>2 DEF ServedBy, MadeInOrder
<1>4. plan \in Plans /\ Union(plan) \subseteq parts
  <2>1. parts \in SUBSET Parts
    BY <1>3
  <2> HIDE DEF parts
  <2>2. <<parts>> \in Seq(SUBSET Parts) /\ <<>> \in Seq(SUBSET Parts)
    BY <2>1
  <2>3. Range(<<parts>>) = {parts} /\ Range(<<>>) = {}
    BY DEF Range
  <2> QED BY <2>2, <2>3 DEF Plans, Union
<1> HIDE DEF plan, parts
<1>5. /\ call' \in [ToolCalls -> ToolCallType]
      /\ \A d \in ToolCalls : d # c => call'[d] = call[d]
      /\ call'[c].op = "delete" /\ call'[c].pc = "surveying" /\ call'[c].bridge = b
      /\ call'[c].plan = plan /\ call'[c].n = 1 /\ call'[c].failed = 0 /\ call'[c].told = "none"
  <2> DEFINE new == ToolCall("delete", "surveying", b, plan)
  <2>1. call' = [call EXCEPT ![c] = new]
    BY DEF plan, parts
  <2>2. new \in ToolCallType
    BY <1>4, SegmentAssumption DEF ToolCallType, ToolCall
  <2>3. /\ new.op = "delete" /\ new.pc = "surveying" /\ new.bridge = b
        /\ new.plan = plan /\ new.n = 1 /\ new.failed = 0 /\ new.told = "none"
    BY DEF ToolCall
  <2> HIDE DEF new
  <2> QED BY <2>1, <2>2, <2>3, <1>1
<1>6. UNCHANGED <<router, limbo, late, clash>>
  BY DEF histories
<1>7. /\ \A d \in ToolCalls : d # c => Claimed(d)' = Claimed(d)
      /\ Claimed(c)' \subseteq parts
      /\ \A d \in ToolCalls : d # c /\ Exempt(d) => Exempt(d)'
  <2>1. Claimed(c)' = Union(plan)
    BY <1>5 DEF Claimed, Union
  <2> QED BY <2>1, <1>1, <1>4, <1>5 DEF Claimed, Exempt
<1>8. CallsInOrder'
  BY <1>2, <1>5 DEF CallsInOrder, Standing
<1>9. MadeInOrder'
  <2>1. \A p \in DOMAIN router : router[p].by # c
    BY <1>1, <1>2, SegmentAssumption DEF MadeInOrder
  <2>2. \A w \in limbo : w.by # c
    BY <1>1, <1>2 DEF MadeInOrder
  <2> QED BY <2>1, <2>2, <1>2, <1>5, <1>6 DEF MadeInOrder
<1>10. ClaimsInOrder'
  <2>1. \A p \in parts : p \in Parts /\ p[1] # "policy" /\ p \notin {<<"bridge", 0>>, <<"trunk", 1>>}
    <3> TAKE p \in parts
    <3>1. p # <<"trunk", 1>>
      BY <1>2, <1>3 DEF MadeInOrder
    <3>2. p[1] # "bridge" /\ p[1] # "policy"
      BY <1>3
    <3> QED BY <3>1, <3>2, <1>3
  <2> QED BY <2>1, <1>2, <1>5, <1>7 DEF ClaimsInOrder
<1>11. RollbackCovers'
  BY <1>1, <1>2, <1>5, <1>6, <1>7 DEF RollbackCovers
<1>12. ASSUME clash' = FALSE
       PROVE  Separate'
  <2>1. Separate
    BY <1>6, <1>12 DEF SegmentInv
  <2>2. \A d \in ToolCalls :
          /\ Creating(d)' => Creating(d) /\ d # c
          /\ Removing(d)' => Removing(d) \/ d = c
          /\ Held(d)' => Held(d) /\ d # c
          /\ Standing(d)' => Standing(d) /\ d # c
    BY <1>5, <1>7 DEF Creating, Removing, Held, Standing
  <2>3. CreationsApart'
    BY <2>1, <2>2, <1>7 DEF Separate, CreationsApart
  <2>4. LimboApart'
    BY <2>1, <2>2, <1>6, <1>7 DEF Separate, LimboApart
  <2>5. ClaimedIsOwn'
    BY <2>1, <2>2, <1>6, <1>7 DEF Separate, ClaimedIsOwn, Made
  <2>6. LimboIsOwn'
    BY <2>1, <1>6 DEF Separate, LimboIsOwn, Made
  <2>7. RemovalIsOwn'
    <3> SUFFICES ASSUME NEW d \in ToolCalls, Removing(d)', NEW p \in Claimed(d)'
                 PROVE  /\ p \in DOMAIN router => router[p].of = call'[d].bridge
                        /\ \A e \in ToolCalls : Creating(e)' /\ p \in Claimed(e)'
                                                  => call'[e].bridge = call'[d].bridge
                        /\ \A w \in limbo : p \in w.parts => w.of = call'[d].bridge
      BY <1>6 DEF RemovalIsOwn, Made
    <3>1. CASE d = c
      <4>1. p \in DOMAIN router /\ router[p].of = b
        BY <3>1, <1>3, <1>7
      <4>2. /\ \A e \in ToolCalls : Creating(e) /\ p \in Claimed(e) => call[e].bridge = b
            /\ \A w \in limbo : p \in w.parts => w.of = b
        BY <4>1, <2>1, ServedIsOwn
      <4> QED BY <3>1, <4>1, <4>2, <2>2, <1>5, <1>7
    <3>2. CASE d # c
      BY <3>2, <2>1, <2>2, <1>5, <1>7 DEF Separate, RemovalIsOwn, Made
    <3> QED BY <3>1, <3>2
  <2>8. PostedStands'
    BY <2>1, <2>2, <1>5, <1>6, <1>7 DEF Separate, PostedStands, Made
  <2> QED BY <2>3, <2>4, <2>5, <2>6, <2>7, <2>8 DEF Separate
<1> QED BY <1>6, <1>8, <1>9, <1>10, <1>11, <1>12 DEF SegmentInv

\* A removal that has seen what is bound to its bridge.
LEMMA SurveyKeeps ==
  ASSUME SegmentInv, NEW c \in ToolCalls, call[c].pc = "surveying",
         NEW parts,
         parts = Claimed(c) \cup ServedBy(call[c].bridge, {"wlan", "pool"})
                   \cup {<<"bridge", call[c].bridge>>} \cup ServedBy(call[c].bridge, {"subnet"}),
         call' = [call EXCEPT ![c].pc = "tearing", ![c].n = 1, ![c].plan = Undo(parts)],
         UNCHANGED <<router, limbo, histories>>
  PROVE  SegmentInv'
<1> DEFINE b == call[c].bridge
<1>1. /\ call \in [ToolCalls -> ToolCallType] /\ call[c].op = "delete" /\ call[c].told = "none"
      /\ b \in 1 .. Limit
  BY DEF SegmentInv, CallsInOrder, ClaimsInOrder
<1>2. MadeInOrder /\ ClaimsInOrder /\ RollbackCovers /\ CallsInOrder
  BY DEF SegmentInv
<1>3. \A p \in parts :
        \/ p \in Claimed(c)
        \/ p = <<"bridge", b>>
        \/ p \in DOMAIN router /\ router[p].of = b /\ p[1] \in {"wlan", "pool", "subnet"}
  BY DEF ServedBy
<1>4. b \in Numbers /\ <<"bridge", b>> \in Parts
  BY <1>1, SegmentAssumption DEF Numbers, Parts, Kinds
<1> HIDE DEF b
<1>5. parts \in SUBSET Parts
  BY <1>2, <1>3, <1>4 DEF MadeInOrder, ClaimsInOrder
<1>6. \A p \in parts : p[1] # "policy" /\ p \notin {<<"bridge", 0>>, <<"trunk", 1>>}
  <2>1. \A p \in Claimed(c) : p[1] # "policy" /\ p \notin {<<"bridge", 0>>, <<"trunk", 1>>}
    BY <1>1, <1>2 DEF ClaimsInOrder
  <2>2. b # 0
    BY <1>1
  <2> QED BY <2>1, <2>2, <1>3
<1>7. Undo(parts) \in Plans /\ Union(Undo(parts)) = parts
  BY <1>5, UndoCovers DEF Plans
<1>8. /\ call' \in [ToolCalls -> ToolCallType]
      /\ \A d \in ToolCalls : d # c => call'[d] = call[d]
      /\ call'[c].n = 1 /\ call'[c].pc = "tearing" /\ call'[c].plan = Undo(parts)
      /\ \A d \in ToolCalls :
           /\ call'[d].op = call[d].op /\ call'[d].bridge = call[d].bridge
           /\ call'[d].told = call[d].told /\ call'[d].failed = call[d].failed
  <2> DEFINE plan == Undo(parts)
             new == Reversed(call[c], plan)
  <2>1. call[c] \in ToolCallType /\ plan \in Plans
    BY <1>1, <1>7
  <2> HIDE DEF plan
  <2>2. call' = [call EXCEPT ![c] = new]
    BY <1>1, <2>1 DEF ToolCallType, Reversed, plan
  <2>3. /\ new \in ToolCallType /\ new.n = 1 /\ new.pc = "tearing" /\ new.plan = plan
        /\ new.op = call[c].op /\ new.bridge = call[c].bridge
        /\ new.told = call[c].told /\ new.failed = call[c].failed
    BY <2>1, ReversedCall
  <2> HIDE DEF new
  <2> QED BY <1>1, <2>2, <2>3, ZenonT(40) DEF plan
<1>9. /\ \A d \in ToolCalls : d # c => Claimed(d)' = Claimed(d)
      /\ Claimed(c)' = parts
      /\ \A d \in ToolCalls : Exempt(d)' <=> Exempt(d)
  <2>1. Claimed(c)' = parts
    BY <1>7, <1>8 DEF Claimed, Union
  <2>2. \A d \in ToolCalls : d # c => Claimed(d)' = Claimed(d)
    BY <1>8 DEF Claimed
  <2> QED BY <2>1, <2>2, <1>8 DEF Exempt
<1>10. UNCHANGED <<router, limbo, late, clash>>
  BY DEF histories
<1>11. CallsInOrder'
  BY <1>1, <1>2, <1>8 DEF CallsInOrder, Standing
<1>12. MadeInOrder'
  <2>1. \A w \in limbo : w.by # c
    BY <1>1, <1>2 DEF MadeInOrder
  <2> QED BY <2>1, <1>2, <1>8, <1>10 DEF MadeInOrder
<1>13. ClaimsInOrder'
  BY <1>1, <1>2, <1>5, <1>6, <1>8, <1>9 DEF ClaimsInOrder
<1>14. RollbackCovers'
  BY <1>1, <1>2, <1>8, <1>9, <1>10 DEF RollbackCovers
<1>15. ASSUME clash' = FALSE
       PROVE  Separate'
  <2>1. Separate
    BY <1>10, <1>15 DEF SegmentInv
  <2>2. \A d \in ToolCalls :
          /\ Creating(d)' <=> Creating(d) /\ d # c
          /\ Removing(d)' <=> Removing(d)
          /\ Held(d)' <=> Held(d) /\ d # c
          /\ Standing(d)' <=> Standing(d) /\ d # c
    BY <1>1, <1>8, <1>9 DEF Creating, Removing, Held, Standing
  <2>3. CreationsApart'
    BY <2>1, <2>2, <1>9 DEF Separate, CreationsApart
  <2>4. LimboApart'
    BY <2>1, <2>2, <1>9, <1>10 DEF Separate, LimboApart
  <2>5. ClaimedIsOwn'
    BY <2>1, <2>2, <1>9, <1>10 DEF Separate, ClaimedIsOwn, Made
  <2>6. LimboIsOwn'
    BY <2>1, <1>10 DEF Separate, LimboIsOwn, Made
  <2>7. RemovalIsOwn'
    <3> SUFFICES ASSUME NEW d \in ToolCalls, Removing(d), NEW p \in Claimed(d)'
                 PROVE  /\ p \in DOMAIN router => router[p].of = call[d].bridge
                        /\ \A e \in ToolCalls : Creating(e) /\ e # c /\ p \in Claimed(e)
                                                  => call[e].bridge = call[d].bridge
                        /\ \A w \in limbo : p \in w.parts => w.of = call[d].bridge
      BY <2>2, <1>8, <1>9, <1>10 DEF RemovalIsOwn, Made
    <3>1. CASE p \in Claimed(d)
      BY <3>1, <2>1 DEF Separate, RemovalIsOwn, Made
    <3>2. CASE d = c /\ p = <<"bridge", b>>
      <4>1. p \in DOMAIN router => router[p].of = b
        BY <3>2, <1>2 DEF MadeInOrder
      <4>2. \A e \in ToolCalls : Creating(e) /\ p \in Claimed(e) => call[e].bridge = b
        BY <3>2, <1>2 DEF ClaimsInOrder, Creating
      <4>3. \A w \in limbo : p \in w.parts => w.of = b
        BY <3>2, <1>2 DEF MadeInOrder
      <4> QED BY <3>2, <4>1, <4>2, <4>3 DEF b
    <3>3. CASE d = c /\ p \in DOMAIN router /\ router[p].of = b
      <4>1. /\ \A e \in ToolCalls : Creating(e) /\ p \in Claimed(e) => call[e].bridge = b
            /\ \A w \in limbo : p \in w.parts => w.of = b
        BY <3>3, <2>1, ServedIsOwn
      <4> QED BY <3>3, <4>1 DEF b
    <3> QED BY <3>1, <3>2, <3>3, <1>3, <1>9
  <2>8. PostedStands'
    BY <2>1, <2>2, <1>8, <1>9, <1>10 DEF Separate, PostedStands, Made
  <2> QED BY <2>3, <2>4, <2>5, <2>6, <2>7, <2>8 DEF Separate
<1> QED BY <1>10, <1>11, <1>12, <1>13, <1>14, <1>15 DEF SegmentInv

\* A creation that has been given its identifiers.
LEMMA CreateKeeps ==
  ASSUME SegmentInv, NEW c \in ToolCalls, At(c, "idle"),
         NEW b \in FirstFree("bridge", 1, Limit), NEW v \in FirstFree("trunk", 2, MaxVlan),
         NEW s \in FirstFree("subnet", 2, Limit), NEW wants, NEW plan,
         plan = Allocation(b, v, s, Optional(wants)),
         call' = [call EXCEPT ![c] = ToolCall("create", "building", b, plan)],
         clash' = (clash \/ \E p \in UNION Range(plan) :
                     \/ Made(p)
                     \/ \E d \in ToolCalls \ {c} : Busy(d) /\ p \in Claimed(d)
                     \/ \E w \in limbo : p \in w.parts),
         UNCHANGED <<router, limbo, late>>
  PROVE  SegmentInv'
<1>1. /\ call \in [ToolCalls -> ToolCallType] /\ call[c].pc = "idle" /\ call[c].op = "none"
      /\ call[c].told = "none"
  BY DEF At, SegmentInv, CallsInOrder
<1>2. MadeInOrder /\ ClaimsInOrder /\ RollbackCovers /\ CallsInOrder
  BY DEF SegmentInv
<1>3. b \in 1 .. Limit /\ v \in 2 .. (MaxVlan + 1) /\ s \in 2 .. (Limit + 1)
  BY SegmentAssumption DEF FirstFree
<1>4. /\ plan \in Plans /\ Len(plan) \in Nat /\ Len(plan) >= 4
      /\ Union(plan) \subseteq Parts
      /\ \A p \in Union(plan) : (p[1] = "bridge" => p[2] = b) /\ p # <<"trunk", 1>>
  <2>1. Optional(wants) \in SUBSET ({"policy", "wlan"} \X Numbers)
    BY DEF Optional
  <2>2. /\ plan \in Seq(SUBSET Parts) /\ Len(plan) >= 4
        /\ \A p \in Union(plan) : (p[1] = "bridge" => p[2] = b) /\ p # <<"trunk", 1>>
    BY <1>3, <2>1, AllocationClaims
  <2>3. Union(plan) \subseteq Parts
    BY <2>2 DEF Union, Range
  <2> QED BY <2>2, <2>3 DEF Plans
<1>5. /\ call' \in [ToolCalls -> ToolCallType]
      /\ \A d \in ToolCalls : d # c => call'[d] = call[d]
      /\ call'[c].op = "create" /\ call'[c].pc = "building" /\ call'[c].bridge = b
      /\ call'[c].plan = plan /\ call'[c].n = 1 /\ call'[c].failed = 0 /\ call'[c].told = "none"
  <2> DEFINE new == ToolCall("create", "building", b, plan)
  <2>1. call' = [call EXCEPT ![c] = new]
    OBVIOUS
  <2>2. new \in ToolCallType
    BY <1>3, <1>4, SegmentAssumption DEF ToolCallType, ToolCall
  <2>3. /\ new.op = "create" /\ new.pc = "building" /\ new.bridge = b
        /\ new.plan = plan /\ new.n = 1 /\ new.failed = 0 /\ new.told = "none"
    BY DEF ToolCall
  <2> HIDE DEF new
  <2> QED BY <2>1, <2>2, <2>3, <1>1
<1>6. /\ \A d \in ToolCalls : d # c => Claimed(d)' = Claimed(d)
      /\ Claimed(c)' = Union(plan)
      /\ \A d \in ToolCalls : d # c => (Exempt(d)' <=> Exempt(d))
  BY <1>1, <1>5 DEF Claimed, Union, Exempt
<1>7. \A p \in DOMAIN router : router[p].by # c
  BY <1>1, <1>2, SegmentAssumption DEF MadeInOrder
<1>8. \A w \in limbo : w.by # c
  BY <1>1, <1>2 DEF MadeInOrder
<1>9. clash' \in BOOLEAN /\ late' \subseteq ToolCalls
  BY DEF SegmentInv
<1>10. CallsInOrder'
  BY <1>2, <1>4, <1>5 DEF CallsInOrder, Standing
<1>11. MadeInOrder'
  BY <1>2, <1>5, <1>7, <1>8 DEF MadeInOrder
<1>12. ClaimsInOrder'
  BY <1>2, <1>3, <1>4, <1>5, <1>6 DEF ClaimsInOrder
<1>13. RollbackCovers'
  BY <1>2, <1>5, <1>6, <1>7 DEF RollbackCovers
<1>14. ASSUME clash' = FALSE
       PROVE  Separate'
  <2>1. clash = FALSE
    BY <1>14 DEF SegmentInv
  <2>2. Separate
    BY <2>1 DEF SegmentInv
  <2>3. \A p \in Union(plan) :
          /\ p \notin DOMAIN router
          /\ \A d \in ToolCalls : d # c /\ Busy(d) => p \notin Claimed(d)
          /\ \A w \in limbo : p \notin w.parts
    BY <1>14 DEF Union, Made
  <2>4. \A d \in ToolCalls : d # c =>
          /\ Creating(d)' <=> Creating(d)
          /\ Removing(d)' <=> Removing(d)
          /\ Held(d)' <=> Held(d)
          /\ Standing(d)' <=> Standing(d)
    BY <1>5, <1>6 DEF Creating, Removing, Held, Standing
  <2>5. ~Removing(c)'
    BY <1>5 DEF Removing
  <2>6. ASSUME NEW d \in ToolCalls, d # c, Creating(d) \/ Held(d), NEW p \in Claimed(d)
        PROVE  p \notin Union(plan)
    <3>1. CASE Creating(d)
      BY <3>1, <2>3, <2>6 DEF Creating, Busy
    <3>2. CASE call[d].told = "created" /\ ~Exempt(d)
      <4>1. Standing(d) /\ call[d].n = Len(call[d].plan) + 1
        BY <3>2, <1>2 DEF CallsInOrder, Standing
      <4>2. PICK i \in 1 .. Len(call[d].plan) : p \in call[d].plan[i]
        <5>1. call[d].plan \in Seq(SUBSET Parts) /\ p \in UNION Range(call[d].plan)
          BY <2>6, CallFacts DEF Claimed
        <5> QED BY <5>1 DEF Range
      <4>3. i \in 1 .. (call[d].n - 1)
        <5>1. Len(call[d].plan) \in Nat
          BY CallFacts
        <5> QED BY <5>1, <4>1
      <4>4. p \in DOMAIN router
        BY <3>2, <4>1, <4>2, <4>3, <2>2 DEF Separate, PostedStands, Made
      <4> QED BY <4>4, <2>3
    <3> QED BY <3>1, <3>2, <2>6 DEF Held
  <2>7. CreationsApart'
    <3> SUFFICES ASSUME NEW d \in ToolCalls, NEW e \in ToolCalls, d # e, Held(d)', Creating(e)',
                        NEW p \in Claimed(d)'
                 PROVE  p \notin Claimed(e)'
      BY DEF CreationsApart, Apart
    <3>1. CASE d = c
      <4>1. e # c /\ Creating(e) /\ Claimed(e)' = Claimed(e) /\ p \in Union(plan)
        BY <3>1, <2>4, <1>6
      <4> QED BY <4>1, <2>6
    <3>2. CASE e = c
      <4>1. d # c /\ Held(d) /\ p \in Claimed(d) /\ Claimed(e)' = Union(plan)
        BY <3>2, <2>4, <1>6
      <4> QED BY <4>1, <2>6
    <3>3. CASE d # c /\ e # c
      BY <3>3, <2>2, <2>4, <1>6 DEF Separate, CreationsApart, Apart
    <3> QED BY <3>1, <3>2, <3>3
  <2>8. LimboApart'
    BY <2>2, <2>3, <2>4, <1>6 DEF Separate, LimboApart, Apart
  <2>9. ClaimedIsOwn'
    BY <2>2, <2>3, <2>4, <1>6 DEF Separate, ClaimedIsOwn, Made
  <2>10. LimboIsOwn'
    BY <2>2 DEF Separate, LimboIsOwn, Made
  <2>11. RemovalIsOwn'
    <3> SUFFICES ASSUME NEW d \in ToolCalls, Removing(d)', NEW p \in Claimed(d)'
                 PROVE  /\ p \in DOMAIN router => router[p].of = call'[d].bridge
                        /\ \A e \in ToolCalls : Creating(e)' /\ p \in Claimed(e)'
                                                  => call'[e].bridge = call'[d].bridge
                        /\ \A w \in limbo : p \in w.parts => w.of = call'[d].bridge
      BY DEF RemovalIsOwn, Made
    <3>1. d # c /\ Removing(d) /\ p \in Claimed(d) /\ call'[d] = call[d]
      BY <2>4, <2>5, <1>5, <1>6
    <3>2. p \notin Union(plan)
      BY <3>1, <2>3 DEF Removing, Busy
    <3> QED BY <3>1, <3>2, <2>2, <2>4, <1>5, <1>6 DEF Separate, RemovalIsOwn, Made
  <2>12. PostedStands'
    BY <2>2, <2>4, <1>5, <1>6 DEF Separate, PostedStands, Made
  <2> QED BY <2>7, <2>8, <2>9, <2>10, <2>11, <2>12 DEF Separate
<1> QED BY <1>9, <1>10, <1>11, <1>12, <1>13, <1>14 DEF SegmentInv

\* At first nothing is claimed and everything is the user's.
LEMMA SegmentStarts ==
  ASSUME SegmentInit
  PROVE  SegmentInv
<1>1. /\ router \in Routers /\ limbo = {} /\ late = {} /\ clash = FALSE
      /\ call = [c \in ToolCalls |-> ToolCall("none", "idle", 0, <<>>)]
  BY DEF SegmentInit
<1>2. ToolCall("none", "idle", 0, <<>>) \in ToolCallType
  BY SegmentAssumption DEF ToolCall, ToolCallType, Plans
<1>3. \A c \in ToolCalls :
        /\ call[c].op = "none" /\ call[c].pc = "idle" /\ call[c].bridge = 0 /\ call[c].plan = <<>>
        /\ call[c].n = 1 /\ call[c].failed = 0 /\ call[c].told = "none"
  BY <1>1 DEF ToolCall
<1>4. \A c \in ToolCalls : Claimed(c) = {}
  BY <1>3 DEF Claimed, Range
<1>5. \A c \in ToolCalls : ~Creating(c) /\ ~Removing(c) /\ ~Held(c) /\ ~Standing(c)
  BY <1>3 DEF Creating, Removing, Held, Standing
<1>6. CallsInOrder
  BY <1>1, <1>2, <1>3, <1>5 DEF CallsInOrder
<1>7. MadeInOrder
  BY <1>1, SegmentAssumption DEF MadeInOrder
<1>8. ClaimsInOrder
  BY <1>3, <1>4 DEF ClaimsInOrder
<1>9. RollbackCovers
  BY <1>1, SegmentAssumption DEF RollbackCovers
<1>10. Separate
  BY <1>1, <1>5 DEF Separate, CreationsApart, LimboApart, ClaimedIsOwn, LimboIsOwn,
                    RemovalIsOwn, PostedStands
<1> QED BY <1>1, <1>6, <1>7, <1>8, <1>9, <1>10 DEF SegmentInv

\* One lemma for each of the steps.
LEMMA SegmentGoesOn ==
  ASSUME SegmentInv, [SegmentNext]_segmentVars
  PROVE  SegmentInv'
<1> USE DEF histories
<1>1. ASSUME NEW c \in ToolCalls, NEW wants \in Wishes, Create(c, wants)
      PROVE  SegmentInv'
  <2>1. CASE Tell(c, "refused") /\ UNCHANGED clash
    BY <1>1, <2>1, TellKeeps DEF Create, At
  <2>2. CASE ~(Tell(c, "refused") /\ UNCHANGED clash)
    <3>1. PICK b \in FirstFree("bridge", 1, Limit), v \in FirstFree("trunk", 2, MaxVlan),
               s \in FirstFree("subnet", 2, Limit) :
             LET plan == Allocation(b, v, s, Optional(wants))
                 parts == UNION Range(plan)
             IN /\ call' = [call EXCEPT ![c] = ToolCall("create", "building", b, plan)]
                /\ clash' = (clash \/ \E p \in parts :
                     \/ Made(p)
                     \/ \E d \in ToolCalls \ {c} : Busy(d) /\ p \in Claimed(d)
                     \/ \E w \in limbo : p \in w.parts)
      BY <1>1, <2>2 DEF Create
    <3> DEFINE plan == Allocation(b, v, s, Optional(wants))
    <3>2. /\ call' = [call EXCEPT ![c] = ToolCall("create", "building", b, plan)]
          /\ clash' = (clash \/ \E p \in UNION Range(plan) :
                     \/ Made(p)
                     \/ \E d \in ToolCalls \ {c} : Busy(d) /\ p \in Claimed(d)
                     \/ \E w \in limbo : p \in w.parts)
      BY <3>1
    <3>3. At(c, "idle") /\ UNCHANGED <<router, limbo, late>>
      BY <1>1 DEF Create
    <3>4. plan = Allocation(b, v, s, Optional(wants))
      OBVIOUS
    <3> HIDE DEF plan
    <3> QED BY <3>2, <3>3, <3>4, CreateKeeps
  <2> QED BY <2>1, <2>2
<1>2. ASSUME NEW c \in ToolCalls, NEW b \in 1 .. Limit, Delete(c, b)
      PROVE  SegmentInv'
  <2>1. CASE Tell(c, "refused")
    BY <1>2, <2>1, TellKeeps DEF Delete, At
  <2>2. CASE ~Tell(c, "refused")
    BY <1>2, <2>2, DeleteKeeps DEF Delete
  <2> QED BY <2>1, <2>2
<1>3. ASSUME NEW c \in ToolCalls, Post(c)
      PROVE  SegmentInv'
  BY <1>3, PostKeeps
<1>4. ASSUME NEW c \in ToolCalls, GroupFails(c)
      PROVE  SegmentInv'
  <2>1. /\ call[c].pc = "building" /\ call[c].n \in 1 .. Len(call[c].plan)
        /\ Abandon(c) /\ UNCHANGED histories
    <3>1. call[c].n \in Nat \ {0} /\ Len(call[c].plan) \in Nat
      BY CallFacts
    <3> QED BY <3>1, <1>4 DEF GroupFails, At, SegmentInv, CallsInOrder
  <2>2. Group(c) \subseteq Claimed(c)
    BY <2>1, CallFacts DEF Group
  <2>3. Grown(router, router, {}, c, call[c].bridge)
    BY DEF Grown
  <2>4. CASE UNCHANGED <<router, limbo>>
    <3>1. Grown(router, router', {}, c, call[c].bridge)
      BY <2>3, <2>4
    <3>2. {} \in SUBSET Claimed(c) /\ \A w \in limbo' : w \in limbo
      BY <2>4
    <3> QED BY <2>1, <3>1, <3>2, AbandonKeeps
  <2>5. CASE router' = Given(router, Group(c), c, call[c].bridge) /\ UNCHANGED limbo
    <3>1. Grown(router, router', Group(c), c, call[c].bridge)
      BY <2>5, GivenGrows
    <3>2. Group(c) \in SUBSET Claimed(c) /\ \A w \in limbo' : w \in limbo
      BY <2>2, <2>5
    <3> QED BY <2>1, <3>1, <3>2, AbandonKeeps
  <2>6. CASE /\ limbo' = limbo \cup {[by |-> c, of |-> call[c].bridge, parts |-> Group(c)]}
             /\ UNCHANGED router
    <3>1. Grown(router, router', {}, c, call[c].bridge)
      BY <2>3, <2>6
    <3>2. {} \in SUBSET Claimed(c)
      OBVIOUS
    <3>3. \A w \in limbo' : \/ w \in limbo
                            \/ w.by = c /\ w.of = call[c].bridge /\ w.parts \subseteq Claimed(c)
      BY <2>2, <2>6
    <3> QED BY <2>1, <3>1, <3>2, <3>3, AbandonKeeps
  <2> QED BY <2>4, <2>5, <2>6, <1>4 DEF GroupFails
<1>5. ASSUME NEW c \in ToolCalls, Check(c)
      PROVE  SegmentInv'
  <2>1. CASE Tell(c, "created")
    BY <1>5, <2>1, TellKeeps DEF Check, At
  <2>2. CASE Abandon(c)
    <3>1. /\ call[c].pc = "checking" /\ {} \in SUBSET Claimed(c)
          /\ UNCHANGED histories /\ \A w \in limbo' : w \in limbo
      BY <1>5 DEF Check, At
    <3>2. Grown(router, router', {}, c, call[c].bridge)
      BY <1>5 DEF Check, Grown
    <3> QED BY <2>2, <3>1, <3>2, AbandonKeeps
  <2> QED BY <2>1, <2>2, <1>5 DEF Check
<1>6. ASSUME NEW c \in ToolCalls, Survey(c)
      PROVE  SegmentInv'
  <2>1. CASE Tell(c, "refused")
    BY <1>6, <2>1, TellKeeps DEF Survey, At
  <2>2. CASE ~Tell(c, "refused")
    <3> DEFINE parts == Claimed(c) \cup ServedBy(call[c].bridge, {"wlan", "pool"})
                   \cup {<<"bridge", call[c].bridge>>} \cup ServedBy(call[c].bridge, {"subnet"})
    <3>1. /\ call[c].pc = "surveying"
          /\ call' = [call EXCEPT ![c].pc = "tearing", ![c].n = 1, ![c].plan = Undo(parts)]
          /\ UNCHANGED <<router, limbo, histories>>
      BY <1>6, <2>2 DEF Survey, At
    <3>2. parts = Claimed(c) \cup ServedBy(call[c].bridge, {"wlan", "pool"})
                   \cup {<<"bridge", call[c].bridge>>} \cup ServedBy(call[c].bridge, {"subnet"})
      OBVIOUS
    <3> HIDE DEF parts
    <3> QED BY <3>1, <3>2, SurveyKeeps
  <2> QED BY <2>1, <2>2
<1>7. ASSUME NEW c \in ToolCalls, Tear(c)
      PROVE  SegmentInv'
  BY <1>7, TearKeeps
<1>8. ASSUME NEW c \in ToolCalls, Torn(c)
      PROVE  SegmentInv'
  BY <1>8, TellKeeps DEF Torn, At
<1>9. ASSUME Straggle
      PROVE  SegmentInv'
  BY <1>9, StraggleKeeps
<1>10. CASE UNCHANGED segmentVars
  <2>1. UNCHANGED <<router, limbo, late, clash, call>>
    BY <1>10 DEF segmentVars
  <2>2. CallsInOrder' <=> CallsInOrder
    BY <2>1 DEF CallsInOrder, Standing
  <2>3. MadeInOrder' <=> MadeInOrder
    BY <2>1 DEF MadeInOrder
  <2>4. \A c \in ToolCalls : Claimed(c)' = Claimed(c)
    BY <2>1 DEF Claimed
  <2>5. \A c \in ToolCalls :
          /\ Creating(c)' <=> Creating(c)
          /\ Removing(c)' <=> Removing(c)
          /\ Held(c)' <=> Held(c)
          /\ Standing(c)' <=> Standing(c)
          /\ Exempt(c)' <=> Exempt(c)
    BY <2>1 DEF Creating, Removing, Held, Standing, Exempt
  <2>6. ClaimsInOrder' <=> ClaimsInOrder
    BY <2>1, <2>4 DEF ClaimsInOrder
  <2>7. RollbackCovers' <=> RollbackCovers
    BY <2>1, <2>4 DEF RollbackCovers
  <2>8. Separate => Separate'
    BY <2>1, <2>4, <2>5 DEF Separate, CreationsApart, LimboApart, ClaimedIsOwn, LimboIsOwn,
                            RemovalIsOwn, PostedStands, Made
  <2> QED BY <2>1, <2>2, <2>3, <2>6, <2>7, <2>8 DEF SegmentInv
<1> QED BY <1>1, <1>2, <1>3, <1>4, <1>5, <1>6, <1>7, <1>8, <1>9, <1>10 DEF SegmentNext, CallStep

\* The inductive invariant of creations and removals, for any number of them at once.
THEOREM SegmentInvariant == SegmentSpec => []SegmentInv
<1>1. SegmentInit => SegmentInv
  BY SegmentStarts
<1>2. SegmentInv /\ [SegmentNext]_segmentVars => SegmentInv'
  BY SegmentGoesOn
<1> QED BY <1>1, <1>2, PTL DEF SegmentSpec, SegmentSafety

\* A creation that reports its segment has made all of it, and it is there until its bridge
\* is removed; one that says the router is as it was has left nothing (segments.ts:580-593).
THEOREM ReportsAreReal == SegmentSpec => []ReportedSegmentsAreReal
<1>1. ASSUME SegmentInv
      PROVE  ReportedSegmentsAreReal
  <2> USE <1>1
  <2>1. SegmentTypeOK
    <3>1. \A c \in ToolCalls :
            call[c].pc \in {"idle", "building", "checking", "surveying", "tearing", "ended"}
      BY CallFacts DEF ToolCallType
    <3> QED BY <3>1 DEF SegmentInv, MadeInOrder, ClaimsInOrder, SegmentTypeOK
  <2>2. UndoneLeavesNothing
    BY DEF SegmentInv, RollbackCovers, UndoneLeavesNothing
  <2>3. CreatedIsWhole
    <3> SUFFICES ASSUME NEW c \in ToolCalls, call[c].told = "created", ~clash, ~Exempt(c),
                        NEW p \in Claimed(c)
                 PROVE  Made(p) /\ router[p].by = c
      BY DEF CreatedIsWhole, Exempt
    <3>1. Separate
      <4>1. clash = FALSE
        BY DEF SegmentInv
      <4> QED BY <4>1 DEF SegmentInv
    <3>2. Standing(c) /\ call[c].n = Len(call[c].plan) + 1
      BY DEF SegmentInv, CallsInOrder, Standing
    <3>3. PICK i \in 1 .. Len(call[c].plan) : p \in call[c].plan[i]
      <4>1. call[c].plan \in Seq(SUBSET Parts) /\ p \in UNION Range(call[c].plan)
        BY CallFacts DEF Claimed
      <4> QED BY <4>1 DEF Range
    <3>4. i \in 1 .. (call[c].n - 1)
      <4>1. Len(call[c].plan) \in Nat
        BY CallFacts
      <4> QED BY <4>1, <3>2
    <3> QED BY <3>1, <3>2, <3>3, <3>4 DEF Separate, PostedStands
  <2> QED BY <2>1, <2>2, <2>3 DEF ReportedSegmentsAreReal
<1> QED BY <1>1, SegmentInvariant, PTL

\* Without a collision of identifiers nobody takes down what is another's, a policy is never
\* removed with a segment, and the home segment never at all (segments.ts:485-530).
THEOREM OwnTornDown == SegmentSpec => OnlyOwnTornDown
<1> DEFINE Own(p) ==
       /\ p \notin {<<"bridge", 0>>, <<"trunk", 1>>}
       /\ \/ clash
          \/ router[p].by \in ToolCalls /\ call[router[p].by].pc = "tearing"
          \/ \E d \in ToolCalls :
               /\ call[d].op = "delete" /\ At(d, "tearing")
               /\ router[p].of = call[d].bridge /\ p[1] # "policy"
<1>1. ASSUME SegmentInv, [SegmentNext]_segmentVars, NEW p \in DOMAIN router \ DOMAIN router'
      PROVE  Own(p)
  <2> USE <1>1
  <2>1. PICK c \in ToolCalls : Tear(c)
    <3>1. ASSUME NEW c \in ToolCalls, CallStep(c), ~Tear(c)
          PROVE  FALSE
      BY <3>1 DEF CallStep, Create, Delete, Post, GroupFails, Check, Survey, Torn, Given
    <3>2. ~Straggle
      BY DEF Straggle, Given
    <3>3. ~UNCHANGED segmentVars
      BY DEF segmentVars
    <3> QED BY <3>1, <3>2, <3>3 DEF SegmentNext
  <2>2. call[c].pc = "tearing" /\ call[c].op # "none" /\ p \in Claimed(c)
    <3>1. call[c].n \in Nat \ {0} /\ Len(call[c].plan) \in Nat
      BY CallFacts
    <3>2. call[c].pc = "tearing" /\ call[c].n \in 1 .. Len(call[c].plan)
      BY <2>1, <3>1 DEF Tear, At
    <3>3. p \in Group(c)
      BY <2>1 DEF Tear, Cleared
    <3>4. p \in Claimed(c)
      BY <3>2, <3>3, CallFacts DEF Group
    <3> QED BY <3>2, <3>4 DEF SegmentInv, CallsInOrder
  <2>3. clash = FALSE => Separate
    BY DEF SegmentInv
  <2>4. call[c].bridge \in 1 .. Limit
    BY <2>2 DEF SegmentInv, ClaimsInOrder
  <2>5. CASE call[c].op = "create"
    <3>1. p # <<"trunk", 1>> /\ (p[1] = "bridge" => p[2] # 0)
      BY <2>2, <2>4, <2>5 DEF SegmentInv, ClaimsInOrder
    <3>2. clash \/ router[p].by = c
      BY <2>2, <2>3, <2>5 DEF Separate, ClaimedIsOwn, Creating, Made, SegmentInv
    <3> QED BY <3>1, <3>2, <2>2
  <2>6. CASE call[c].op = "delete"
    <3>1. p \notin {<<"bridge", 0>>, <<"trunk", 1>>} /\ p[1] # "policy"
      BY <2>2, <2>6 DEF SegmentInv, ClaimsInOrder
    <3>2. clash \/ router[p].of = call[c].bridge
      BY <2>2, <2>3, <2>6 DEF Separate, RemovalIsOwn, Removing, Made, SegmentInv
    <3> QED BY <3>1, <3>2, <2>2, <2>6 DEF At
  <2>7. call[c].op \in {"none", "create", "delete"}
    BY CallFacts DEF ToolCallType
  <2> QED BY <2>2, <2>5, <2>6, <2>7
<1>2. SegmentInv /\ [SegmentNext]_segmentVars => [\A p \in DOMAIN router \ DOMAIN router' : Own(p)]_segmentVars
  BY <1>1
<1> QED BY <1>2, SegmentInvariant, PTL DEF SegmentSpec, SegmentSafety, OnlyOwnTornDown
=============================================================================
