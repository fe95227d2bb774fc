---------------------- MODULE ActiveDiagnosticsProofs ----------------------
(***************************************************************************)
(* Proofs about ActiveDiagnostics, for any finite set of calls, any limit  *)
(* and any window.  Every step of a call has one of four shapes; each      *)
(* shape, the router and the clocks keep the invariant.                    *)
(***************************************************************************)
EXTENDS ActiveDiagnostics, FiniteSetTheorems, TLAPS

Places == Operating \cup {"idle", "checking", "ended"}

-----------------------------------------------------------------------------
(***************************************************************************)
(* The shapes.                                                             *)
(***************************************************************************)

\* The coordinator or the tool turns the call away.
Refused(c) ==
  /\ pc[c] \in {"idle", "checking"}
  /\ starts' \in {starts, Recent}
  /\ \E why \in Refusals \cup Failures : Refuse(c, why)

\* The coordinator admits it.
Admitted(c) ==
  /\ pc[c] \in {"idle", "checking"}
  /\ ~active /\ ~uncertain /\ ~Full(Recent)
  /\ Start(c)

\* The operation goes on, or the tool before it.
Continued(c) ==
  /\ \/ pc[c] = "idle" /\ pc' = [pc EXCEPT ![c] = "checking"]
     \/ /\ pc[c] \in Operating
        /\ \E place \in Operating \ {"declined"} : pc' = [pc EXCEPT ![c] = place]
  /\ \E why \in Failures \cup {"none"} : failure' \in {failure, [failure EXCEPT ![c] = why]}
  /\ pc'[c] = "cancelling" => failure'[c] # "none"
  /\ UNCHANGED <<tool, aborted, expired, outcome, coordinatorVars, now, job, historyVars>>

\* The operation ends, and either its job is accounted for or it says so.
Released(c) ==
  /\ pc[c] \in Operating
  /\ \E state \in {"none", "transit", "running", "over", "lost"} :
       job' \in {job, [job EXCEPT ![c] = state]}
  /\ \E off \in BOOLEAN : writtenOff' \in {writtenOff, [writtenOff EXCEPT ![c] = off]}
  /\ \E why \in Outcomes \ {"none"} :
       /\ Release(c, why)
       /\ \/ why = "uncertain"
          \/ job'[c] \notin {"transit", "running"}
          \/ tool[c] = "ping" /\ writtenOff'[c]

\* Admission refuses or starts.
LEMMA AdmitShape ==
  ASSUME NEW c \in Calls, pc[c] \in {"idle", "checking"}, Admit(c)
  PROVE  Refused(c) \/ Admitted(c)
BY DEF Admit, Refused, Admitted, Refusals

\* What a failed call is told is an outcome, and never "uncertain".
LEMMA ToldType ==
  ASSUME NEW c \in Calls, NEW why \in Failures
  PROVE  Told(c, why) \in Outcomes \ {"none", "uncertain"}
BY DEF Told, Failures, Outcomes, Refusals

\* The catch block of a job that may have started continues the operation.
LEMMA CancelShape ==
  ASSUME TypeOK, NEW c \in Calls, pc[c] \in Operating, NEW why \in Failures, Cancel(c, why)
  PROVE  Continued(c)
BY DEF TypeOK, Cancel, Continued, Operating, Failures

\* Every step of a call has one of the four shapes.
LEMMA CallShape ==
  ASSUME TypeOK, JobInv, NEW c \in Calls, Call(c)
  PROVE  Refused(c) \/ Admitted(c) \/ Continued(c) \/ Released(c)
<1> USE DEF Operating
<1> DEFINE States == {"none", "transit", "running", "over", "lost"}
<1>j. job[c] \in States /\ job \in [Calls -> States] /\ writtenOff \in [Calls -> BOOLEAN]
  BY DEF TypeOK
<1>p. pc \in [Calls -> Operating \cup {"idle", "checking", "ended"}]
  BY DEF TypeOK
<1>1. CASE CallPing(c)
  BY <1>1, AdmitShape DEF CallPing
<1>2. CASE CallIperf3(c)
  BY <1>2, <1>p DEF CallIperf3, Continued, Failures, callVars
<1>3. CASE Checked(c)
  <2>1. CASE Admit(c)
    BY <1>3, <2>1, AdmitShape DEF Checked
  <2>2. CASE \E why \in Failures \cup {"unavailable"} : Refuse(c, why) /\ UNCHANGED starts
    BY <1>3, <2>2 DEF Checked, Refused, Refusals
  <2> QED BY <1>3, <2>1, <2>2 DEF Checked
<1>4. CASE Declined(c)
  <2>1. job[c] = "none"
    BY <1>4 DEF Declined, JobInv
  <2>2. Told(c, "transport") \in Outcomes \ {"none", "uncertain"}
    BY ToldType DEF Failures
  <2> QED BY <1>4, <1>j, <2>1, <2>2 DEF Declined, Released
<1>5. CASE ReplyContinues(c)
  BY <1>5, <1>p DEF ReplyContinues, Continued, Failures
<1>6. CASE ReplyCompletes(c)
  BY <1>6, <1>j DEF ReplyCompletes, Released, Outcomes
<1>7. CASE ReplyUnusable(c) \/ PostFails(c) \/ PollFails(c)
  BY <1>7, CancelShape DEF ReplyUnusable, PostFails, PollFails, Failures
<1>8. CASE PostRejected(c)
  <2>1. CASE tool[c] = "iperf3" /\ Cancel(c, "rci")
    BY <1>8, <2>1, CancelShape DEF PostRejected, Failures
  <2>2. CASE tool[c] = "ping" /\ NotStarted(c, "rci") /\ UNCHANGED writtenOff
    <3>1. Told(c, "rci") \in Outcomes \ {"none", "uncertain"}
      BY ToldType DEF Failures
    <3> QED BY <1>8, <1>j, <2>2, <3>1 DEF PostRejected, NotStarted, Released
  <2> QED BY <1>8, <2>1, <2>2 DEF PostRejected
<1>9. CASE PostErrorStatus(c)
  <2>1. CASE tool[c] = "iperf3" /\ Cancel(c, "rci")
    BY <1>9, <2>1, CancelShape DEF PostErrorStatus, Failures
  <2>2. CASE /\ tool[c] = "ping" /\ NotStarted(c, "rci")
             /\ writtenOff' = [writtenOff EXCEPT ![c] = TRUE]
    <3>1. Told(c, "rci") \in Outcomes \ {"none", "uncertain"}
      BY ToldType DEF Failures
    <3> QED BY <1>9, <1>j, <2>2, <3>1 DEF PostErrorStatus, NotStarted, Released
  <2> QED BY <1>9, <2>1, <2>2 DEF PostErrorStatus
<1>10. CASE PostUnauthorized(c)
  <2>1. Told(c, "auth") \in Outcomes \ {"none", "uncertain"}
    BY ToldType DEF Failures
  <2> QED BY <1>10, <1>j, <2>1 DEF PostUnauthorized, Released
<1>11. CASE PauseEnds(c)
  <2>1. CASE Cancel(c, "transport") \/ Cancel(c, "rci")
    BY <1>11, <2>1, CancelShape DEF PauseEnds, Failures
  <2>2. CASE ~(Cancel(c, "transport") \/ Cancel(c, "rci"))
    BY <1>11, <1>p, <2>2 DEF PauseEnds, Continued, Failures
  <2> QED BY <2>1, <2>2
<1>12. CASE CancelConfirmed(c)
  <2> DEFINE why == IF tool[c] = "iperf3" THEN "uncertain" ELSE Told(c, failure[c])
  <2>1. tool[c] \in {"ping", "iperf3"} /\ failure[c] \in Failures \cup {"none"}
    BY DEF TypeOK
  <2>2. why \in Outcomes \ {"none"}
    <3>1. failure[c] \in Failures
      BY <1>12, <2>1 DEF CancelConfirmed, JobInv, Failures
    <3> QED BY <3>1, ToldType DEF Outcomes
  <2> QED BY <1>12, <1>j, <2>1, <2>2 DEF CancelConfirmed, Released
<1>13. CASE CancelUnconfirmed(c)
  BY <1>13, <1>j DEF CancelUnconfirmed, Released, Outcomes
<1> QED BY <1>1, <1>2, <1>3, <1>4, <1>5, <1>6, <1>7, <1>8, <1>9, <1>10, <1>11, <1>12, <1>13
        DEF Call
-----------------------------------------------------------------------------
(***************************************************************************)
(* Types.                                                                  *)
(***************************************************************************)

\* The starts remembered are finitely many, and those of the window no more.
LEMMA RecentFits ==
  ASSUME TypeOK
  PROVE  /\ IsFiniteSet(Calls) /\ IsFiniteSet(Recent)
         /\ Recent \subseteq starts /\ Recent \subseteq Calls
         /\ Cardinality(Recent) \in Nat /\ Cardinality(Recent) <= Limit
<1>1. IsFiniteSet(Calls) /\ IsFiniteSet(starts) /\ Recent \subseteq starts /\ starts \subseteq Calls
  BY DiagnosticsAssumption, FS_Subset DEF TypeOK, Recent
<1>2. IsFiniteSet(Recent) /\ Cardinality(Recent) <= Cardinality(starts)
  BY <1>1, FS_Subset
<1>3. Cardinality(Recent) \in Nat /\ Cardinality(starts) \in Nat
  BY <1>1, <1>2, FS_CardinalityType
<1> QED BY <1>1, <1>2, <1>3, DiagnosticsAssumption DEF TypeOK

\* One more start still fits when the window is not full.
LEMMA OneMoreFits ==
  ASSUME TypeOK, NEW c \in Calls, ~Full(Recent)
  PROVE  /\ IsFiniteSet(Recent \cup {c})
         /\ Cardinality(Recent \cup {c}) \in Nat
         /\ Cardinality(Recent \cup {c}) <= Limit
<1>1. IsFiniteSet(Recent) /\ Cardinality(Recent) \in Nat /\ Cardinality(Recent) < Limit
  BY RecentFits, DiagnosticsAssumption DEF Full
<1>2. /\ IsFiniteSet(Recent \cup {c})
      /\ Cardinality(Recent \cup {c}) \in {Cardinality(Recent), Cardinality(Recent) + 1}
  BY <1>1, FS_AddElement
<1> QED BY <1>1, <1>2, DiagnosticsAssumption

\* The initial state is well typed.
LEMMA InitType ==
  ASSUME Init
  PROVE  TypeOK
<1>1. Cardinality({}) = 0
  BY FS_EmptySet
<1>2. starts \in SUBSET Calls /\ Cardinality(starts) <= Limit /\ now \in Time
  BY <1>1, DiagnosticsAssumption DEF Init, Time
<1>3. "none" \in Outcomes /\ Never \in Time \cup {Never}
  BY DEF Outcomes
<1> QED BY <1>2, <1>3 DEF Init, TypeOK

\* Every step of a call keeps every variable's type.
LEMMA CallType ==
  ASSUME TypeOK, JobInv, NEW c \in Calls, Call(c)
  PROVE  TypeOK'
<1>1. CASE Refused(c)
  <2>1. starts' \in SUBSET Calls /\ Cardinality(starts') <= Limit
    BY <1>1, RecentFits DEF Refused, TypeOK
  <2> QED BY <1>1, <2>1 DEF Refused, Refuse, Forget, TypeOK, Outcomes, historyVars
<1>2. CASE Admitted(c)
  <2>1. starts' \in SUBSET Calls /\ Cardinality(starts') <= Limit
    BY <1>2, RecentFits, OneMoreFits DEF Admitted, Start
  <2> QED BY <1>2, <2>1 DEF Admitted, Start, TypeOK, Operating, Time, historyVars
<1>3. CASE Continued(c)
  <2>1. pc' \in [Calls -> Operating \cup {"idle", "checking", "ended"}]
    BY <1>3 DEF Continued, TypeOK
  <2>2. failure' \in [Calls -> Failures \cup {"none"}]
    BY <1>3 DEF Continued, TypeOK
  <2> QED BY <1>3, <2>1, <2>2 DEF Continued, TypeOK, coordinatorVars, historyVars
<1>4. CASE Released(c)
  <2>1. job' \in [Calls -> {"none", "transit", "running", "over", "lost"}]
        /\ writtenOff' \in [Calls -> BOOLEAN]
    BY <1>4 DEF Released, TypeOK
  <2>2. PICK why \in Outcomes : Release(c, why)
    BY <1>4 DEF Released
  <2>4. uncertain' \in BOOLEAN /\ active' \in BOOLEAN
    BY <2>2 DEF Release
  <2>5. /\ pc' \in [Calls -> Operating \cup {"idle", "checking", "ended"}]
        /\ outcome' \in [Calls -> Outcomes]
    BY <2>2 DEF Release, TypeOK
  <2>3. /\ aborted' \in [Calls -> BOOLEAN]
        /\ expired' \in [Calls -> BOOLEAN]
        /\ failure' \in [Calls -> Failures \cup {"none"}]
        /\ UNCHANGED <<tool, starts, startedAt, now, setBack>>
    BY <1>4 DEF Released, Release, Forget, TypeOK
  <2> QED BY <2>1, <2>3, <2>4, <2>5 DEF TypeOK
<1> QED BY CallShape, <1>1, <1>2, <1>3, <1>4

\* So do the router, the callers and the clocks.
LEMMA EnvironmentType ==
  ASSUME TypeOK, Tick \/ \E c \in Calls : Environment(c)
  PROVE  TypeOK'
<1>1. CASE Tick
  BY <1>1 DEF Tick, TypeOK, Time, callVars, coordinatorVars
<1>2. ASSUME NEW c \in Calls, Environment(c)
      PROVE  TypeOK'
  <2>1. CASE Abort(c) \/ Expire(c)
    BY <2>1 DEF Abort, Expire, TypeOK, coordinatorVars, historyVars
  <2>2. CASE Transmit(c) \/ Arrive(c) \/ Finish(c)
    BY <2>2 DEF Transmit, Arrive, Finish, JobBecomes, TypeOK, callVars, coordinatorVars,
                historyVars
  <2> QED BY <1>2, <2>1, <2>2 DEF Environment
<1> QED BY <1>1, <1>2

-----------------------------------------------------------------------------
(***************************************************************************)
(* The coordinator.                                                        *)
(***************************************************************************)

\* Who is in operation after a step of call c.
LEMMA OperationStep ==
  ASSUME TypeOK, NEW c \in Calls, NEW place \in Places,
         pc' = [pc EXCEPT ![c] = place]
  PROVE  Operation' = IF place \in Operating THEN Operation \cup {c} ELSE Operation \ {c}
BY DEF TypeOK, Operation, Places

\* At most one operation is in progress, and the coordinator is taken by it.
LEMMA CallOperates ==
  ASSUME TypeOK, JobInv, OneOperation, NEW c \in Calls, Call(c)
  PROVE  OneOperation'
<1> USE DEF Places, Operating
<1>1. CASE Refused(c)
  <2>1. pc' = [pc EXCEPT ![c] = "ended"] /\ active' = active /\ c \notin Operation
    BY <1>1 DEF Refused, Refuse, Operation
  <2>2. Operation' = Operation \ {c}
    BY <2>1, OperationStep, ZenonT(40)
  <2> QED BY <2>1, <2>2 DEF OneOperation
<1>2. CASE Admitted(c)
  <2>1. \E place \in Operating : pc' = [pc EXCEPT ![c] = place]
    BY <1>2 DEF Admitted, Start
  <2>2. Operation' = Operation \cup {c}
    BY <2>1, OperationStep
  <2> QED BY <1>2, <2>2 DEF Admitted, Start, OneOperation
<1>3. CASE Continued(c)
  <2>1. CASE pc[c] = "idle" /\ pc' = [pc EXCEPT ![c] = "checking"]
    <3>1. Operation' = Operation \ {c} /\ c \notin Operation
      BY <2>1, OperationStep DEF Operation
    <3> QED BY <1>3, <3>1 DEF Continued, OneOperation, coordinatorVars
  <2>2. CASE pc[c] \in Operating /\ \E place \in Operating : pc' = [pc EXCEPT ![c] = place]
    <3>1. Operation' = Operation \cup {c} /\ c \in Operation
      BY <2>2, OperationStep DEF Operation
    <3> QED BY <1>3, <3>1 DEF Continued, OneOperation, coordinatorVars
  <2> QED BY <1>3, <2>1, <2>2 DEF Continued
<1>4. CASE Released(c)
  <2>1. pc' = [pc EXCEPT ![c] = "ended"] /\ active' = FALSE /\ c \in Operation
    BY <1>4 DEF Released, Release, Operation
  <2>2. Operation' = Operation \ {c}
    BY <2>1, OperationStep
  <2> QED BY <2>1, <2>2 DEF OneOperation
<1> QED BY CallShape, <1>1, <1>2, <1>3, <1>4

\* The environment takes no part in it.
LEMMA EnvironmentOperates ==
  ASSUME OneOperation, Tick \/ \E c \in Calls : Environment(c)
  PROVE  OneOperation'
<1>1. UNCHANGED <<pc, active>>
  BY DEF Tick, Environment, Abort, Expire, Transmit, Arrive, Finish, JobBecomes, callVars,
         coordinatorVars
<1> QED BY <1>1 DEF OneOperation, Operation

-----------------------------------------------------------------------------
(***************************************************************************)
(* The jobs.                                                               *)
(***************************************************************************)

\* A step of a call accounts for its job when it ends the call.
LEMMA CallAccounts ==
  ASSUME TypeOK, OneOperation, JobInv, NEW c \in Calls, Call(c)
  PROVE  JobInv'
<1> USE DEF Operating
<1>1. CASE Refused(c)
  <2>1. job[c] = "none" /\ UNCHANGED <<tool, active, uncertain, job, writtenOff>>
    BY <1>1 DEF Refused, Refuse, JobInv, historyVars
  <2>2. /\ pc' = [pc EXCEPT ![c] = "ended"]
        /\ failure' = [failure EXCEPT ![c] = "none"]
        /\ \E why \in Refusals \cup Failures : outcome' = [outcome EXCEPT ![c] = why]
    BY <1>1 DEF Refused, Refuse, Forget
  <2>3. outcome'[c] # "uncertain" /\ \A d \in Calls \ {c} : outcome'[d] = outcome[d]
    BY <2>2 DEF TypeOK, Refusals, Failures
  <2>4. \A d \in Calls \ {c} : pc'[d] = pc[d] /\ failure'[d] = failure[d]
    BY <2>2 DEF TypeOK
  <2>5. pc'[c] = "ended"
    BY <2>2 DEF TypeOK
  <2> QED BY <2>1, <2>3, <2>4, <2>5 DEF JobInv, JobsAccounted, Live
<1>2. CASE Admitted(c)
  <2>1. UNCHANGED <<tool, failure, outcome, uncertain, job, writtenOff>> /\ ~uncertain
    BY <1>2 DEF Admitted, Start, historyVars
  <2>2. pc'[c] \in {"declined", "posting"} /\ \A d \in Calls \ {c} : pc'[d] = pc[d]
    BY <1>2 DEF Admitted, Start, TypeOK
  <2>3. job[c] = "none" /\ ~writtenOff[c] /\ outcome[c] = "none"
    BY <1>2 DEF Admitted, JobInv
  <2> QED BY <2>1, <2>2, <2>3 DEF JobInv, JobsAccounted, Live
<1>3. CASE Continued(c)
  <2>1. UNCHANGED <<tool, active, uncertain, outcome, job, writtenOff>>
    BY <1>3 DEF Continued, coordinatorVars, historyVars
  <2>2. /\ \A d \in Calls \ {c} : pc'[d] = pc[d] /\ failure'[d] = failure[d]
        /\ pc'[c] = "cancelling" => failure'[c] # "none"
    BY <1>3 DEF Continued, TypeOK
  <2>3. \/ pc[c] = "idle" /\ pc'[c] = "checking"
        \/ pc[c] # "ended" /\ pc'[c] \in {"posting", "pausing", "polling", "cancelling"}
    BY <1>3 DEF Continued, TypeOK
  <2> QED BY <2>1, <2>2, <2>3 DEF JobInv, JobsAccounted, Live
<1>4. CASE Released(c)
  <2> PICK why \in Outcomes \ {"none"} :
        /\ Release(c, why)
        /\ \/ why = "uncertain"
           \/ job'[c] \notin {"transit", "running"}
           \/ tool[c] = "ping" /\ writtenOff'[c]
    BY <1>4 DEF Released
  <2>1. active /\ ~uncertain /\ \A d \in Calls : outcome[d] # "uncertain"
    BY <1>4 DEF Released, OneOperation, Operation, JobInv
  <2>2. /\ tool' = tool /\ active' = FALSE /\ (uncertain' <=> why = "uncertain")
        /\ pc'[c] = "ended" /\ outcome'[c] = why
        /\ \A d \in Calls \ {c} :
             pc'[d] = pc[d] /\ outcome'[d] = outcome[d] /\ failure'[d] = failure[d]
    BY <2>1 DEF Release, Forget, TypeOK
  <2>3. \A d \in Calls \ {c} : job'[d] = job[d] /\ writtenOff'[d] = writtenOff[d]
    BY <1>4 DEF Released, TypeOK
  <2> QED BY <2>1, <2>2, <2>3 DEF JobInv, JobsAccounted, Live
<1> QED BY CallShape, <1>1, <1>2, <1>3, <1>4

\* The router may start a job only while its call is posting it or after its
\* call has ended with it in transit.
LEMMA EnvironmentAccounts ==
  ASSUME TypeOK, JobInv, Tick \/ \E c \in Calls : Environment(c)
  PROVE  JobInv'
<1>1. UNCHANGED <<tool, pc, failure, outcome, active, uncertain, writtenOff>>
  BY DEF Tick, Environment, Abort, Expire, Transmit, Arrive, Finish, JobBecomes, callVars,
         coordinatorVars, historyVars
<1>2. \A c \in Calls :
        \/ job'[c] = job[c]
        \/ pc[c] = "posting"
        \/ Live(c)
  BY DEF Tick, Environment, Abort, Expire, Transmit, Arrive, Finish, JobBecomes, Live, TypeOK
<1>3. \A c \in Calls : pc[c] \in {"idle", "checking", "declined"} => job'[c] = "none"
  BY <1>2 DEF JobInv, Live
<1>4. \A c \in Calls : pc[c] = "ended" /\ Live(c)' => Live(c)
  BY <1>2 DEF Live
<1> QED BY <1>1, <1>3, <1>4 DEF JobInv, JobsAccounted

-----------------------------------------------------------------------------
(***************************************************************************)
(* The rate.                                                               *)
(***************************************************************************)

\* A start fills its own window no further than the limit, and no other window
\* but those that end at the same instant.
LEMMA StartKeepsRate ==
  ASSUME TypeOK, RateInv, NEW c \in Calls, Admitted(c)
  PROVE  RateInv'
<1>1. /\ startedAt' = [startedAt EXCEPT ![c] = now] /\ starts' = Recent \cup {c}
      /\ now' = now /\ setBack' = setBack /\ startedAt[c] = Never
      /\ ~Full(Recent)
  BY DEF Admitted, Start, RateInv, historyVars
<1>2. /\ now \in Nat /\ Window \in Nat /\ Limit \in Nat
      /\ \A d \in Calls : startedAt[d] \in Int
      /\ \A d \in Calls : startedAt'[d] = IF d = c THEN now ELSE startedAt[d]
  BY <1>1, DiagnosticsAssumption DEF TypeOK, Time, Never
<1>3. pc' \in [Calls -> Places]
      /\ \A d \in Calls : pc'[d] \in {"idle", "checking"} => d # c /\ pc[d] = pc'[d]
  BY DEF Admitted, Start, TypeOK, Places, Operating
<1>4. ~setBack => \A d \in Calls : startedAt'[d] # Never =>
        /\ startedAt'[d] <= now
        /\ startedAt'[d] > now - Window => d \in starts'
  BY <1>1, <1>2 DEF RateInv, Recent
<1>5. ASSUME ~setBack, NEW d \in Calls, startedAt'[d] # Never
      PROVE  Cardinality(WindowUpTo(d)') <= Limit
  <2>1. CASE startedAt'[d] = now
    <3>1. WindowUpTo(d)' \subseteq Recent \cup {c}
      BY <1>1, <1>2, <1>5, <2>1 DEF WindowUpTo, RateInv, Recent
    <3>2. /\ IsFiniteSet(Recent \cup {c}) /\ Cardinality(Recent \cup {c}) \in Nat
          /\ Cardinality(Recent \cup {c}) <= Limit
      BY <1>1, OneMoreFits
    <3>3. IsFiniteSet(WindowUpTo(d)')
          /\ Cardinality(WindowUpTo(d)') <= Cardinality(Recent \cup {c})
      BY <3>1, <3>2, FS_Subset
    <3>4. Cardinality(WindowUpTo(d)') \in Nat
      BY <3>3, FS_CardinalityType
    <3> QED BY <1>2, <3>2, <3>3, <3>4
  <2>2. CASE startedAt'[d] # now
    <3>1. d # c /\ startedAt[d] # Never /\ startedAt[d] < now
      BY <1>1, <1>2, <1>4, <1>5, <2>2
    <3>2. WindowUpTo(d)' = WindowUpTo(d)
      BY <1>1, <1>2, <3>1 DEF WindowUpTo
    <3> QED BY <1>5, <3>1, <3>2 DEF RateInv, RateBounded
  <2> QED BY <2>1, <2>2
<1> QED BY <1>1, <1>3, <1>4, <1>5 DEF RateInv, RateBounded

\* A call that does not start forgets no start that still counts.
LEMMA CallKeepsRate ==
  ASSUME TypeOK, JobInv, RateInv, NEW c \in Calls, Call(c)
  PROVE  RateInv'
<1> USE DEF Operating
<1>1. CASE Admitted(c)
  BY <1>1, StartKeepsRate
<1>2. CASE Refused(c) \/ Continued(c) \/ Released(c)
  <2>1. UNCHANGED <<startedAt, now, setBack>> /\ starts' \in {starts, Recent}
    BY <1>2 DEF Refused, Refuse, Continued, Released, Release, coordinatorVars, historyVars
  <2>2. \A d \in Calls : pc'[d] \in {"idle", "checking"} => pc[d] \in {"idle", "checking"}
    BY <1>2 DEF Refused, Refuse, Continued, Released, Release, TypeOK
  <2>3. RateBounded'
    BY <2>1 DEF RateInv, RateBounded, WindowUpTo
  <2> QED BY <2>1, <2>2, <2>3 DEF RateInv, Recent
<1> QED BY CallShape, <1>1, <1>2

\* Nor does the clock bring one back, unless it is set back.
LEMMA EnvironmentKeepsRate ==
  ASSUME TypeOK, RateInv, Tick \/ \E c \in Calls : Environment(c)
  PROVE  RateInv'
<1>1. UNCHANGED <<pc, starts, startedAt>>
  BY DEF Tick, Environment, Abort, Expire, Transmit, Arrive, Finish, JobBecomes, callVars,
         coordinatorVars
<1>2. ~setBack' => ~setBack /\ now <= now'
  <2>1. CASE Tick
    <3>1. now \in Int /\ now' \in Int
      BY <2>1, DiagnosticsAssumption DEF Tick, TypeOK, Time
    <3>2. ~setBack' => ~setBack /\ ~(now' < now)
      BY <2>1, Zenon DEF Tick
    <3> QED BY <3>1, <3>2
  <2>2. CASE \E c \in Calls : Environment(c)
    <3>1. setBack' = setBack /\ now' = now
      BY <2>2 DEF Environment, Abort, Expire, Transmit, Arrive, Finish, JobBecomes, historyVars
    <3> QED BY <3>1 DEF TypeOK, Time
  <2> QED BY <2>1, <2>2
<1>3. /\ now \in Int /\ now' \in Int /\ Window \in Int
      /\ \A d \in Calls : startedAt[d] \in Int
  BY EnvironmentType, DiagnosticsAssumption DEF TypeOK, Time, Never
<1>4. RateBounded'
  BY <1>1, <1>2 DEF RateInv, RateBounded, WindowUpTo
<1> QED BY <1>1, <1>2, <1>3, <1>4 DEF RateInv

-----------------------------------------------------------------------------
(***************************************************************************)
(* The theorems.                                                           *)
(***************************************************************************)

\* The invariant holds initially.
LEMMA InitInv ==
  ASSUME Init
  PROVE  Inv
<1>1. TypeOK
  BY InitType
<1>2. OneOperation /\ JobInv
  BY DEF Init, OneOperation, Operation, Operating, JobInv, JobsAccounted
<1>3. RateInv
  BY DEF Init, RateInv, RateBounded
<1> QED BY <1>1, <1>2, <1>3 DEF Inv

\* And every step keeps it.
LEMMA StepInv ==
  ASSUME Inv, [Next]_vars
  PROVE  Inv'
<1>1. CASE UNCHANGED vars
  BY <1>1 DEF Inv, TypeOK, OneOperation, Operation, JobInv, JobsAccounted, Live, RateInv,
              RateBounded, WindowUpTo, vars, callVars, coordinatorVars, historyVars
<1>2. ASSUME NEW c \in Calls, Call(c)
      PROVE  Inv'
  BY <1>2, CallType, CallOperates, CallAccounts, CallKeepsRate DEF Inv
<1>3. CASE Tick \/ \E c \in Calls : Environment(c)
  BY <1>3, EnvironmentType, EnvironmentOperates, EnvironmentAccounts, EnvironmentKeepsRate
     DEF Inv
<1> QED BY <1>1, <1>2, <1>3 DEF Next

\* The inductive invariant: types, who holds the coordinator, where the jobs are
\* and which starts it remembers.
THEOREM Invariant == Safety => []Inv
<1>1. Init => Inv
  BY InitInv
<1>2. Inv /\ [Next]_vars => Inv'
  BY StepInv
<1> QED BY <1>1, <1>2, PTL DEF Safety

\* Every variable keeps its type; the coordinator remembers no more starts than
\* it admits per window.
THEOREM TypeCorrect == Spec => []TypeOK
<1>1. Inv => TypeOK
  BY DEF Inv
<1> QED BY <1>1, Invariant, PTL DEF Spec

\* The coordinator is taken exactly while one operation is in progress.
THEOREM OperationsExclude == Spec => []OneOperation
<1>1. Inv => OneOperation
  BY DEF Inv
<1> QED BY <1>1, Invariant, PTL DEF Spec

\* A call that has ended left no job behind unless its caller was told so or the
\* code has written the job off.
THEOREM EveryJobAccounted == Spec => []JobsAccounted
<1>1. Inv => JobsAccounted
  BY DEF Inv, JobInv
<1> QED BY <1>1, Invariant, PTL DEF Spec

\* Those written off aside, at most one job is live on the router: a live job
\* belongs to the operation in progress, or to the call that closed the
\* coordinator for good.
THEOREM OneJobLives == Spec => []OneLiveJob
<1>1. ASSUME Inv
      PROVE  OneLiveJob
  <2> SUFFICES ASSUME NEW c \in Calls, NEW d \in Calls,
                      Live(c), ~writtenOff[c], Live(d), ~writtenOff[d]
               PROVE  c = d
    BY DEF OneLiveJob
  <2>1. \A e \in {c, d} : e \in Operation \/ (outcome[e] = "uncertain" /\ uncertain)
    BY <1>1 DEF Inv, TypeOK, JobInv, JobsAccounted, Operation, Operating, Live
  <2>2. Operation # {} => ~uncertain
    BY <1>1 DEF Inv, OneOperation, JobInv
  <2> QED BY <1>1, <2>1, <2>2 DEF Inv, OneOperation, JobInv
<1> QED BY <1>1, Invariant, PTL DEF Spec

\* No window that ends with a start holds more starts than the limit, unless the
\* clock was set back.
THEOREM RateIsBounded == Spec => []RateBounded
<1>1. Inv => RateBounded
  BY DEF Inv, RateInv
<1> QED BY <1>1, Invariant, PTL DEF Spec

\* One operation in the server (router/active-diagnostics.ts) and one live job on the
\* router behind it.
THEOREM OneAtATimeHolds == Spec => []OneAtATime
BY OperationsExclude, OneJobLives, PTL DEF OneAtATime
=============================================================================
