-------------------------- MODULE ActiveDiagnostics --------------------------
(***************************************************************************)
(* Active diagnostics: the coordinator that admits one job at a time       *)
(* (router/active-diagnostics.ts), the tools that ask it                   *)
(* (tools/active-diagnostics.ts) and the continued job they run            *)
(* (Rci.runContinued, router/rci.ts), against a router on which a job may  *)
(* start, run and end without the server learning of it.                   *)
(*                                                                         *)
(* A request of the session is what RemoteContract promises: the POST is   *)
(* carried out once at most, a refusal means that it never is, and one     *)
(* given up may still arrive.  Ping stands for traceroute, too: both take  *)
(* the same branches.                                                      *)
(***************************************************************************)
EXTENDS Integers, FiniteSets

CONSTANTS
  Calls,  \* calls of the tools
  Limit,  \* starts admitted per window: 10
  Window, \* its length: 60 seconds
  MaxNow  \* bound: the clock stops here

ASSUME DiagnosticsAssumption ==
  IsFiniteSet(Calls) /\ Limit \in Nat \ {0} /\ Window \in Nat \ {0} /\ MaxNow \in Nat

VARIABLES
  tool,       \* what each call runs
  pc,         \* where it is
  aborted,    \* its caller's signal is aborted
  expired,    \* runContinued's own timeout has fired
  failure,    \* the error its catch block holds
  outcome,    \* what its caller is told
  active,     \* coordinator: this.active
  uncertain,  \* coordinator: this.uncertain
  starts,     \* coordinator: this.starts, by the calls they belong to
  startedAt,  \* and the time of each
  now,        \* Date.now()
  job,        \* router: the job each call starts
  writtenOff, \* history: jobs the code takes for ended though they need not be
  setBack     \* history: the clock was set back

callVars == <<tool, pc, aborted, expired, failure, outcome>>
coordinatorVars == <<active, uncertain, starts, startedAt>>
historyVars == <<writtenOff, setBack>>
vars == <<callVars, coordinatorVars, now, job, historyVars>>

Time == 0 .. MaxNow
Never == -1
Operating == {"declined", "posting", "pausing", "polling", "cancelling"}
Failures == {"rci", "auth", "transport"} \* RciError, AuthError, any other
Refusals == {"busy", "quarantined", "limited", "unavailable"}
Outcomes == {"none", "completed", "timeout", "cancelled", "uncertain"}
              \cup Refusals \cup Failures

\* The coordinator remembers no more starts than it admits per window.
TypeOK ==
  /\ tool \in [Calls -> {"ping", "iperf3"}]
  /\ pc \in [Calls -> Operating \cup {"idle", "checking", "ended"}]
  /\ aborted \in [Calls -> BOOLEAN]
  /\ expired \in [Calls -> BOOLEAN]
  /\ failure \in [Calls -> Failures \cup {"none"}]
  /\ outcome \in [Calls -> Outcomes]
  /\ active \in BOOLEAN
  /\ uncertain \in BOOLEAN
  /\ starts \in SUBSET Calls /\ Cardinality(starts) <= Limit
  /\ startedAt \in [Calls -> Time \cup {Never}]
  /\ now \in Time
  /\ job \in [Calls -> {"none", "transit", "running", "over", "lost"}]
  /\ writtenOff \in [Calls -> BOOLEAN]
  /\ setBack \in BOOLEAN

Init ==
  /\ tool \in [Calls -> {"ping", "iperf3"}]
  /\ pc = [c \in Calls |-> "idle"]
  /\ aborted = [c \in Calls |-> FALSE]
  /\ expired = [c \in Calls |-> FALSE]
  /\ failure = [c \in Calls |-> "none"]
  /\ outcome = [c \in Calls |-> "none"]
  /\ active = FALSE
  /\ uncertain = FALSE
  /\ starts = {}
  /\ startedAt = [c \in Calls |-> Never]
  /\ now = 0
  /\ job = [c \in Calls |-> "none"]
  /\ writtenOff = [c \in Calls |-> FALSE]
  /\ setBack = FALSE

-----------------------------------------------------------------------------
(***************************************************************************)
(* ActiveDiagnosticCoordinator.run                                         *)
(***************************************************************************)
Forget(c) == \* the locals of the call
  /\ aborted' = [aborted EXCEPT ![c] = FALSE]
  /\ expired' = [expired EXCEPT ![c] = FALSE]
  /\ failure' = [failure EXCEPT ![c] = "none"]

Refuse(c, why) ==
  /\ pc' = [pc EXCEPT ![c] = "ended"]
  /\ outcome' = [outcome EXCEPT ![c] = why]
  /\ Forget(c)
  /\ UNCHANGED <<tool, active, uncertain, startedAt, now, job, historyVars>>

Recent == {c \in starts : startedAt[c] > now - Window}

FullPastLimit(recent) == Cardinality(recent) > Limit \* mutant: off by one
Full(recent) == Cardinality(recent) >= Limit

\* The operation begins in the same breath: a call whose signal is aborted gets
\* no further than the first check of runContinued.
Start(c) ==
  /\ active' = TRUE
  /\ starts' = Recent \cup {c}
  /\ startedAt' = [startedAt EXCEPT ![c] = now]
  /\ pc' = [pc EXCEPT ![c] = IF aborted[c] THEN "declined" ELSE "posting"]
  /\ UNCHANGED <<tool, aborted, expired, failure, outcome, uncertain,
                 now, job, historyVars>>

AdmitBesides(c) == \* mutant: a running diagnostic is no obstacle
  \/ uncertain /\ Refuse(c, "quarantined") /\ UNCHANGED starts
  \/ /\ ~uncertain /\ Full(Recent)
     /\ Refuse(c, "limited")
     /\ starts' = Recent
  \/ ~uncertain /\ ~Full(Recent) /\ Start(c)

Admit(c) ==
  \/ active /\ Refuse(c, "busy") /\ UNCHANGED starts
  \/ ~active /\ uncertain /\ Refuse(c, "quarantined") /\ UNCHANGED starts
  \/ /\ ~active /\ ~uncertain /\ Full(Recent)
     /\ Refuse(c, "limited")
     /\ starts' = Recent
  \/ ~active /\ ~uncertain /\ ~Full(Recent) /\ Start(c)

Release(c, why) ==
  /\ pc' = [pc EXCEPT ![c] = "ended"]
  /\ outcome' = [outcome EXCEPT ![c] = why]
  /\ uncertain' = (uncertain \/ why = "uncertain")
  /\ active' = FALSE
  /\ Forget(c)
  /\ UNCHANGED <<tool, starts, startedAt, now, setBack>>

-----------------------------------------------------------------------------
(***************************************************************************)
(* The tools.                                                              *)
(***************************************************************************)
CallPing(c) == pc[c] = "idle" /\ tool[c] = "ping" /\ Admit(c)

\* iperf3 asks for the router's components first, from a cache or twice from
\* the router, and only then the coordinator.
CallIperf3(c) ==
  /\ pc[c] = "idle" /\ tool[c] = "iperf3"
  /\ pc' = [pc EXCEPT ![c] = "checking"]
  /\ UNCHANGED <<tool, aborted, expired, failure, outcome,
                 coordinatorVars, now, job, historyVars>>

Checked(c) ==
  /\ pc[c] = "checking"
  /\ \/ Admit(c)
     \/ \E why \in Failures \cup {"unavailable"} : Refuse(c, why) /\ UNCHANGED starts

-----------------------------------------------------------------------------
(***************************************************************************)
(* Rci.runContinued                                                        *)
(***************************************************************************)

\* What a ping that failed is told.  The timeout is looked at now, not when the
\* error arose.
Told(c, why) ==
  IF tool[c] = "iperf3" THEN why
  ELSE IF expired[c] /\ ~aborted[c] THEN "timeout"
  ELSE IF aborted[c] /\ why # "rci" THEN "cancelled"
  ELSE why

Declined(c) ==
  /\ pc[c] = "declined"
  /\ Release(c, Told(c, "transport"))
  /\ UNCHANGED <<job, writtenOff>>

\* The catch block of a job that may have started: DELETE, with a timeout of its
\* own and without the caller's signal.
Cancel(c, why) ==
  /\ pc' = [pc EXCEPT ![c] = "cancelling"]
  /\ failure' = [failure EXCEPT ![c] = why]
  /\ UNCHANGED <<tool, aborted, expired, outcome, coordinatorVars, now, job, historyVars>>

\* The catch block of a ping whose start was answered with an error.
NotStarted(c, why) ==
  /\ Release(c, Told(c, why))
  /\ UNCHANGED job

\* A chunk that promises more.
ReplyContinues(c) ==
  /\ pc[c] \in {"posting", "polling"} /\ job[c] \in {"running", "over"}
  /\ pc' = [pc EXCEPT ![c] = "pausing"]
  /\ UNCHANGED <<tool, aborted, expired, failure, outcome,
                 coordinatorVars, now, job, historyVars>>

\* The last chunk: the router has ended the job.
ReplyCompletes(c) ==
  /\ pc[c] \in {"posting", "polling"} /\ job[c] = "over"
  /\ Release(c, "completed")
  /\ UNCHANGED <<job, writtenOff>>

\* No JSON, an unexpected shape, too many bytes; for a poll any error as well.
ReplyUnusable(c) ==
  /\ pc[c] \in {"posting", "polling"} /\ job[c] # "none"
  /\ Cancel(c, "rci")

\* The router refuses the job in the body of its answer.
PostRejected(c) ==
  /\ pc[c] = "posting" /\ job[c] = "lost"
  /\ \/ tool[c] = "ping" /\ NotStarted(c, "rci") /\ UNCHANGED writtenOff
     \/ tool[c] = "iperf3" /\ Cancel(c, "rci")

\* An HTTP error status, of the router or of a proxy before it, leaves open
\* whether the job was started.  For a ping the code takes it for refused.
PostErrorStatus(c) ==
  /\ pc[c] = "posting" /\ job[c] # "none"
  /\ \/ /\ tool[c] = "ping"
        /\ NotStarted(c, "rci")
        /\ writtenOff' = [writtenOff EXCEPT ![c] = TRUE]
     \/ tool[c] = "iperf3" /\ Cancel(c, "rci")

\* Credentials are rejected: no job was or will be started.
PostUnauthorized(c) ==
  /\ pc[c] = "posting" /\ job[c] \in {"none", "transit", "lost"}
  /\ Release(c, Told(c, "auth"))
  /\ job' = [job EXCEPT ![c] = "lost"]
  /\ UNCHANGED writtenOff

PostFailsAborted(c) == \* mutant: the timeout is not part of the signal
  /\ pc[c] = "posting" /\ aborted[c]
  /\ Cancel(c, "transport")

\* The connection fails, the signal is aborted or the timeout fires, be it
\* before anything was sent.
PostFails(c) == pc[c] = "posting" /\ Cancel(c, "transport")

PollFails(c) ==
  /\ pc[c] = "polling"
  /\ \E why \in {"auth", "transport"} : Cancel(c, why)

\* Half a second between polls, cut short by signal and timeout.
PauseEnds(c) ==
  /\ pc[c] = "pausing"
  /\ IF aborted[c] \/ expired[c] THEN Cancel(c, "transport")
     ELSE \/ Cancel(c, "rci") \* no byte of the budget is left
          \/ /\ pc' = [pc EXCEPT ![c] = "polling"]
             /\ UNCHANGED <<tool, aborted, expired, failure, outcome,
                            coordinatorVars, now, job, historyVars>>

CancelBelieved(c) == \* mutant: iperf3, too, is over once DELETE is acknowledged
  /\ pc[c] = "cancelling"
  /\ Release(c, Told(c, failure[c]))
  /\ job' \in {job, [job EXCEPT ![c] = IF @ = "running" THEN "over" ELSE @]}
  /\ tool[c] = "ping" => job'[c] # "running"
  /\ writtenOff' = [writtenOff EXCEPT ![c] = job[c] = "transit"]

\* DELETE is acknowledged.  A ping that ran has been stopped, one that is still
\* on its way has not; of iperf3 the acknowledgement says nothing.
CancelConfirmed(c) ==
  /\ pc[c] = "cancelling"
  /\ Release(c, IF tool[c] = "iperf3" THEN "uncertain" ELSE Told(c, failure[c]))
  /\ job' \in {job, [job EXCEPT ![c] = IF @ = "running" THEN "over" ELSE @]}
  /\ tool[c] = "ping" => job'[c] # "running"
  /\ writtenOff' = [writtenOff EXCEPT ![c] = tool[c] = "ping" /\ job[c] = "transit"]

\* It fails, times out, or its answer is anything but an empty object.
CancelUnconfirmed(c) ==
  /\ pc[c] = "cancelling"
  /\ Release(c, "uncertain")
  /\ job' \in {job, [job EXCEPT ![c] = IF @ = "running" THEN "over" ELSE @]}
  /\ UNCHANGED writtenOff

-----------------------------------------------------------------------------
(***************************************************************************)
(* The environment: callers, clocks, the way to the router, the router.    *)
(***************************************************************************)
Abort(c) ==
  /\ pc[c] \in Operating \cup {"checking"} /\ ~aborted[c]
  /\ aborted' = [aborted EXCEPT ![c] = TRUE]
  /\ UNCHANGED <<tool, pc, expired, failure, outcome, coordinatorVars, now, job, historyVars>>

Expire(c) ==
  /\ pc[c] \in Operating /\ ~expired[c]
  /\ expired' = [expired EXCEPT ![c] = TRUE]
  /\ UNCHANGED <<tool, pc, aborted, failure, outcome, coordinatorVars, now, job, historyVars>>

JobBecomes(c, state) ==
  /\ job' = [job EXCEPT ![c] = state]
  /\ UNCHANGED <<callVars, coordinatorVars, now, historyVars>>

Transmit(c) == pc[c] = "posting" /\ job[c] = "none" /\ JobBecomes(c, "transit")
Arrive(c) == job[c] = "transit" /\ \E s \in {"running", "lost"} : JobBecomes(c, s)
Finish(c) == job[c] = "running" /\ JobBecomes(c, "over")

Tick ==
  /\ now' \in Time \ {now}
  /\ setBack' = (setBack \/ now' < now)
  /\ UNCHANGED <<callVars, coordinatorVars, job, writtenOff>>

-----------------------------------------------------------------------------
Call(c) ==
  \/ CallPing(c) \/ CallIperf3(c) \/ Checked(c)
  \/ Declined(c)
  \/ ReplyContinues(c) \/ ReplyCompletes(c) \/ ReplyUnusable(c)
  \/ PostRejected(c) \/ PostErrorStatus(c) \/ PostUnauthorized(c) \/ PostFails(c)
  \/ PollFails(c) \/ PauseEnds(c)
  \/ CancelConfirmed(c) \/ CancelUnconfirmed(c)

Environment(c) ==
  Abort(c) \/ Expire(c) \/ Transmit(c) \/ Arrive(c) \/ Finish(c)

Next == Tick \/ \E c \in Calls : Call(c) \/ Environment(c)

\* Timers fire, every request of the session ends by its own timeout, and a
\* request whose signal is aborted or timed out rejects.
Fairness ==
  \A c \in Calls :
    /\ WF_vars(Expire(c))
    /\ WF_vars(Checked(c))
    /\ WF_vars(Declined(c))
    /\ WF_vars(expired[c] /\ PostFails(c))
    /\ WF_vars(expired[c] /\ PollFails(c))
    /\ WF_vars(PauseEnds(c))
    /\ WF_vars(CancelUnconfirmed(c))

Safety == Init /\ [][Next]_vars
Spec == Safety /\ Fairness
-----------------------------------------------------------------------------
(***************************************************************************)
(* Properties.                                                             *)
(***************************************************************************)
Operation == {c \in Calls : pc[c] \in Operating}
Live(c) == job[c] \in {"transit", "running"} \* it may run now or later
WindowUpTo(c) == \* the calls that started in the window that ends with c's start
  {d \in Calls : /\ startedAt[d] # Never
                 /\ startedAt[c] - Window < startedAt[d]
                 /\ startedAt[d] <= startedAt[c]}

\* The coordinator is taken exactly while one operation is in progress: no error
\* path leaves it taken, none gives it up early.
OneOperation ==
  /\ \A c, d \in Operation : c = d
  /\ active <=> Operation # {}

\* A call that has ended left no job behind, or its caller was told so and the
\* coordinator closed for good, or it is a ping the code has written off: its
\* start was answered by an error status, or overtaken by its own DELETE.
JobsAccounted ==
  \A c \in Calls : pc[c] = "ended" /\ Live(c) =>
    \/ outcome[c] = "uncertain" /\ uncertain
    \/ tool[c] = "ping" /\ writtenOff[c]

\* docs/ARCHITECTURE.md:213 "permits one active job at a time": on the router
\* itself at most one job is live, those written off aside.
OneLiveJob ==
  \A c, d \in Calls :
    Live(c) /\ ~writtenOff[c] /\ Live(d) /\ ~writtenOff[d] => c = d

\* The exclusion, in the server and on the router behind it.
OneAtATime == OneOperation /\ OneLiveJob

\* docs/ARCHITECTURE.md:213 "ten starts per rolling minute": unless the clock was
\* set back, no window that ends with a start holds more starts than the limit.
RateBounded ==
  ~setBack =>
    \A c \in Calls : startedAt[c] # Never => Cardinality(WindowUpTo(c)) <= Limit

\* Every call comes to an end, though the router never answers anything and the
\* caller never gives up.
EveryCallEnds == \A c \in Calls : pc[c] \in Operating \cup {"checking"} ~> pc[c] = "ended"

-----------------------------------------------------------------------------
(***************************************************************************)
(* The invariant the proofs rest on.                                       *)
(***************************************************************************)

\* Where a job can be, seen from its call; and the coordinator closes after the
\* first call that ends as uncertain, with no operation left.
JobInv ==
  /\ JobsAccounted
  /\ \A c \in Calls : pc[c] \in {"idle", "checking", "declined"} => job[c] = "none"
  /\ \A c \in Calls : pc[c] # "ended" => ~writtenOff[c] /\ outcome[c] = "none"
  /\ \A c \in Calls : pc[c] = "cancelling" => failure[c] # "none"
  /\ active => ~uncertain
  /\ \A c \in Calls : outcome[c] = "uncertain" => uncertain
  /\ \A c, d \in Calls : outcome[c] = "uncertain" /\ outcome[d] = "uncertain" => c = d

\* The coordinator remembers every start of the last window.
RateInv ==
  /\ RateBounded
  /\ \A c \in Calls : pc[c] \in {"idle", "checking"} => startedAt[c] = Never
  /\ ~setBack =>
       \A c \in Calls : startedAt[c] # Never =>
         /\ startedAt[c] <= now
         /\ startedAt[c] > now - Window => c \in starts

Inv == TypeOK /\ OneOperation /\ JobInv /\ RateInv
=============================================================================
