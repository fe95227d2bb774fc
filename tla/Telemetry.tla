------------------------------ MODULE Telemetry ------------------------------
(***************************************************************************)
(* The call journal (src/telemetry): instrumentToolRegistration wraps      *)
(* every tool call, an RciTransportCollector gathers what its requests did *)
(* and createTelemetryWriter appends one record per call to a file that    *)
(* all the user's server processes share under an append lock.             *)
(*                                                                         *)
(* A record is reduced to its counts of requests, attempts and terminals;  *)
(* edges and fallback events are lists of such evidence.  A process that   *)
(* starts again after a death is a server that has not been used yet.      *)
(***************************************************************************)
EXTENDS Naturals, Sequences, FiniteSets

CONSTANTS Servers, Calls, NoServer,
          Requests,    \* bound: the logical requests of a call
          MaxTries,    \* bound: the attempts one request is counted for
          MaxPending, LockAttempts

ASSUME TelemetryAssumption ==
  /\ NoServer \notin Servers /\ Requests # {} /\ IsFiniteSet(Requests)
  /\ MaxTries \in Nat /\ MaxPending \in Nat \ {0} /\ LockAttempts \in Nat \ {0}

VARIABLES
  handler,   \* of each call: [at, server]
  collector, \* of each call: the RciTransportCollector
  operation, \* of each call and request: [request, flight, terminal, tries]
  record,    \* of each call: what was handed to the writer, NoRecord before
  fate,      \* of each call: what became of its record
  queue,     \* of each server: the writer's queue; its length is pending
  writer,    \* of each server: where append() stands, its lock attempts, the size to return to
  lock,      \* the lock file: who created it, or NoServer
  journal,   \* the file: the pieces appended to it, each a whole record or part of one
  alive      \* the servers that still run

callVars == <<handler, collector, operation>>
writeVars == <<queue, writer, lock, journal>>
telemetryVars == <<callVars, record, fate, writeVars, alive>>

NoRecord == [late |-> FALSE, requests |-> 0, attempts |-> 0, terminals |-> 0, made |-> FALSE]
Fresh == [sealed |-> FALSE, leases |-> 0, requests |-> 0, attempts |-> 0, terminals |-> 0, delayed |-> FALSE]
NotWriting == [at |-> "idle", tries |-> 0, size |-> 0]
Unbegun == [request |-> "none", flight |-> "none", terminal |-> FALSE, tries |-> 0]

TelemetryInit ==
  /\ handler = [c \in Calls |-> [at |-> "none", server |-> NoServer]]
  /\ collector = [c \in Calls |-> Fresh]
  /\ operation = [c \in Calls |-> [r \in Requests |-> Unbegun]]
  /\ record = [c \in Calls |-> NoRecord] /\ fate = [c \in Calls |-> "none"]
  /\ queue = [s \in Servers |-> <<>>] /\ writer = [s \in Servers |-> NotWriting]
  /\ lock = NoServer /\ journal = <<>> /\ alive = Servers

Lives(c) == handler[c].server \in alive

-----------------------------------------------------------------------------
(***************************************************************************)
(* RciTransportCollector, and the writer's door.                           *)
(***************************************************************************)
\* append(snapshot(late)): the record joins the queue, or is refused when the queue is full.
Hand(c, col, late) ==
  LET s == handler[c].server
  IN /\ record' = [record EXCEPT ![c] =
          [late |-> late, requests |-> col.requests, attempts |-> col.attempts,
           terminals |-> col.terminals, made |-> TRUE]]
     /\ IF Len(queue[s]) < MaxPending
        THEN queue' = [queue EXCEPT ![s] = Append(@, c)] /\ fate' = [fate EXCEPT ![c] = "queued"]
        ELSE fate' = [fate EXCEPT ![c] = "dropped"] /\ UNCHANGED queue

CollectedAtOnce(c, col) == \* mutant: the snapshot is taken when any lease ends
  IF col.delayed
  THEN collector' = [collector EXCEPT ![c] = [col EXCEPT !.delayed = FALSE]] /\ Hand(c, col, TRUE)
  ELSE collector' = [collector EXCEPT ![c] = col] /\ UNCHANGED <<record, fate, queue>>

\* The last lease of a sealed collector resolves the delayed snapshot.
Collected(c, col) ==
  IF col.delayed /\ col.leases = 0
  THEN collector' = [collector EXCEPT ![c] = [col EXCEPT !.delayed = FALSE]] /\ Hand(c, col, TRUE)
  ELSE collector' = [collector EXCEPT ![c] = col] /\ UNCHANGED <<record, fate, queue>>

CallTool(c, s) ==
  /\ handler[c].at = "none" /\ s \in alive
  /\ handler' = [handler EXCEPT ![c] = [at |-> "running", server |-> s]]
  /\ UNCHANGED <<collector, operation, record, fate, writeVars, alive>>

\* beginOperation and the request's lease; a cold request also starts the shared login, which
\* holds a lease of its own.  A sealed collector counts nothing more.
Opened(flight) == [request |-> "open", flight |-> flight, terminal |-> FALSE, tries |-> 0]
LeasesOf(flight) == IF flight = "open" THEN 2 ELSE 1

BeginRequest(c, r) ==
  /\ Lives(c) /\ operation[c][r] = Unbegun /\ handler[c].at = "running"
  /\ \E flight \in {"none", "open"} :
       /\ operation' = [operation EXCEPT ![c][r] = Opened(flight)]
       /\ collector' = [collector EXCEPT
            ![c] = [collector[c] EXCEPT !.requests = @ + 1, !.leases = @ + LeasesOf(flight)]]
  /\ UNCHANGED <<handler, record, fate, writeVars, alive>>

\* A Digest challenge that a response brought is kept even if it cannot be answered.  A request
\* that finds it throws before it is sent, all in one turn: it is counted, and leaves no terminal.
ChallengeKept(s) == \E d \in Calls, q \in Requests : handler[d].server = s /\ operation[d][q].tries > 0

DenyRequest(c, r) ==
  /\ Lives(c) /\ operation[c][r] = Unbegun /\ handler[c].at = "running"
  /\ ChallengeKept(handler[c].server)
  /\ operation' = [operation EXCEPT ![c][r].request = "denied"]
  /\ collector' = [collector EXCEPT ![c].requests = @ + 1]
  /\ UNCHANGED <<handler, record, fate, writeVars, alive>>

Underway(c, r) == Lives(c) /\ "open" \in {operation[c][r].request, operation[c][r].flight}

\* normalAttempt, by the request or by the login it started.
Try(c, r) ==
  /\ Underway(c, r) /\ operation[c][r].tries < MaxTries
  /\ operation' = [operation EXCEPT ![c][r].tries = @ + 1]
  /\ collector' = [collector EXCEPT ![c].attempts = @ + 1]
  /\ UNCHANGED <<handler, record, fate, writeVars, alive>>

\* A request that was sent, or waited for a login, records how it ended; only the first terminal of an operation counts.
Terminal(c, r, col) == [col EXCEPT !.terminals = IF operation[c][r].terminal THEN @ ELSE @ + 1]

LeaveRequest(c, r) ==
  /\ Lives(c) /\ operation[c][r].request = "open"
  /\ operation' = [operation EXCEPT ![c][r] = [operation[c][r] EXCEPT !.request = "left", !.terminal = TRUE]]
  /\ Collected(c, [Terminal(c, r, collector[c]) EXCEPT !.leases = @ - 1])
  /\ UNCHANGED <<handler, writer, lock, journal, alive>>

\* The login ends, with an answer that settles the operation or with one that does not.
FlightEnds(c, r) ==
  /\ Lives(c) /\ operation[c][r].flight = "open"
  /\ \E settles \in BOOLEAN :
       LET col == IF settles THEN Terminal(c, r, collector[c]) ELSE collector[c]
       IN /\ operation' = [operation EXCEPT
               ![c][r] = [operation[c][r] EXCEPT !.flight = "ended", !.terminal = @ \/ settles]]
          /\ Collected(c, [col EXCEPT !.leases = @ - 1])
  /\ UNCHANGED <<handler, writer, lock, journal, alive>>

\* seal(), and the handler's answer goes out whatever the journal does.
CallReturns(c) ==
  /\ Lives(c) /\ handler[c].at = "running"
  /\ handler' = [handler EXCEPT ![c].at = "returned"]
  /\ LET col == [collector[c] EXCEPT !.sealed = TRUE, !.delayed = collector[c].leases > 0]
     IN /\ collector' = [collector EXCEPT ![c] = col]
        /\ IF col.delayed THEN UNCHANGED <<record, fate, queue>> ELSE Hand(c, col, FALSE)
  /\ UNCHANGED <<operation, writer, lock, journal, alive>>

-----------------------------------------------------------------------------
(***************************************************************************)
(* append(): one at a time in a process, under the lock between processes. *)
(***************************************************************************)
Goes(s, at) == writer' = [writer EXCEPT ![s].at = at]
Turn(s, at) == s \in alive /\ writer[s].at = at

\* The queue moves on and the write promise settles.
Settle(s, end) ==
  /\ writer' = [writer EXCEPT ![s] = NotWriting]
  /\ fate' = [fate EXCEPT ![Head(queue[s])] = end]
  /\ queue' = [queue EXCEPT ![s] = Tail(@)]

\* A lock file that cannot be removed stays.
Release == lock' \in {NoServer, lock}

\* Creating the lock file is one step; a file that exists is waited for, whoever made it.  The
\* directory or the lock file may also fail to be created.
TakeLockPatient(s) == \* mutant: the lock is waited for without an end
  /\ Turn(s, "idle") /\ queue[s] # <<>>
  /\ lock = NoServer /\ lock' = s /\ Goes(s, "open")
  /\ UNCHANGED <<fate, queue, callVars, record, journal, alive>>

TakeLock(s) ==
  /\ Turn(s, "idle") /\ queue[s] # <<>>
  /\ \/ lock = NoServer /\ lock' = s /\ Goes(s, "open") /\ UNCHANGED <<fate, queue>>
     \/ /\ lock # NoServer /\ writer[s].tries + 1 < LockAttempts
        /\ writer' = [writer EXCEPT ![s].tries = @ + 1] /\ UNCHANGED <<lock, fate, queue>>
     \/ lock # NoServer /\ writer[s].tries + 1 = LockAttempts /\ Settle(s, "busy") /\ UNCHANGED lock
     \/ Settle(s, "refused") /\ UNCHANGED lock
  /\ UNCHANGED <<callVars, record, journal, alive>>

\* inspectTarget and the checks on the open file; then the size to return to is known.
OpenJournal(s) ==
  /\ Turn(s, "open")
  /\ \/ writer' = [writer EXCEPT ![s].at = "write", ![s].size = Len(journal)] /\ UNCHANGED <<lock, fate, queue>>
     \/ Settle(s, "refused") /\ Release
  /\ UNCHANGED <<callVars, record, journal, alive>>

\* Part of a record has no newline: what is appended next stands on the same line.
Piece(s, whole) == [call |-> Head(queue[s]), whole |-> whole]

WriteLine(s) ==
  /\ Turn(s, "write")
  /\ \/ journal' = Append(journal, Piece(s, TRUE)) /\ Release
        /\ \E end \in {"written", "failed"} : Settle(s, end) \* closing the file may fail
     \/ journal' = Append(journal, Piece(s, FALSE)) /\ Goes(s, "repair") /\ UNCHANGED <<lock, fate, queue>>
     \/ Settle(s, "failed") /\ Release /\ UNCHANGED journal
  /\ UNCHANGED <<callVars, record, alive>>

\* A short write is truncated to the size before it, unless that fails too.
RepairJournal(s) ==
  /\ Turn(s, "repair") /\ Release
  /\ \/ journal' = SubSeq(journal, 1, writer[s].size) /\ Settle(s, "failed")
     \/ Settle(s, "torn") /\ UNCHANGED journal
  /\ UNCHANGED <<callVars, record, alive>>

\* A process dies wherever it stands; its lock file stays.
Die(s) ==
  /\ s \in alive /\ alive' = alive \ {s}
  /\ UNCHANGED <<callVars, record, fate, writeVars>>

\* Whoever runs the servers may remove the lock file of one that died.
ClearLock ==
  /\ lock \notin alive \cup {NoServer} /\ lock' = NoServer
  /\ UNCHANGED <<callVars, record, fate, queue, writer, journal, alive>>

Write(s) == TakeLock(s) \/ OpenJournal(s) \/ WriteLine(s) \/ RepairJournal(s)

TelemetryNext ==
  \/ \E c \in Calls, s \in Servers : CallTool(c, s)
  \/ \E c \in Calls, r \in Requests : BeginRequest(c, r) \/ DenyRequest(c, r) \/ Try(c, r)
                                     \/ LeaveRequest(c, r) \/ FlightEnds(c, r)
  \/ \E c \in Calls : CallReturns(c)
  \/ \E s \in Servers : Write(s) \/ Die(s)
  \/ ClearLock

TelemetrySafety == TelemetryInit /\ [][TelemetryNext]_telemetryVars

\* Requests, logins and handlers have deadlines, so a call goes on to its end; the writer is a
\* loop of awaited file calls.
TelemetryFairness ==
  /\ \A c \in Calls :
       WF_telemetryVars(CallReturns(c) \/ \E r \in Requests : LeaveRequest(c, r) \/ FlightEnds(c, r))
  /\ \A s \in Servers : WF_telemetryVars(Write(s))

-----------------------------------------------------------------------------
(***************************************************************************)
(* Properties.                                                             *)
(***************************************************************************)
Writing(s) == writer[s].at \in {"open", "write", "repair"}

\* The file is read by its lines.  A record that was reported written is in it once, on a line
\* of its own, whatever another writer truncated, unless the piece before it is part of a record
\* that could not be truncated or whose writer died, and that for no other reason.  A record that
\* was not reported written is not whole in it, but for a write that failed after it.  Part of a
\* record is otherwise there only at the end, while its writer repairs it, and one process
\* writes at a time.
OnLines ==
  LET Whole(c) == {i \in DOMAIN journal : journal[i] = [call |-> c, whole |-> TRUE]}
      Owner(i) == handler[journal[i].call].server
      LeftBehind(i) ==
        /\ ~journal[i].whole
        /\ \/ fate[journal[i].call] = "torn"
           \/ fate[journal[i].call] = "queued" /\ Owner(i) \notin alive
  IN /\ Cardinality({s \in alive : Writing(s)}) <= 1
     /\ \A c \in Calls : Cardinality(Whole(c)) \in
          CASE fate[c] = "written" -> {1} [] fate[c] = "failed" -> {0, 1} [] OTHER -> {0}
     /\ \A c \in Calls : \A i \in Whole(c) : i = 1 \/ journal[i - 1].whole \/ LeftBehind(i - 1)
     /\ \A i \in DOMAIN journal : ~journal[i].whole =>
          LeftBehind(i) \/ (i = Len(journal) /\ writer[Owner(i)].at = "repair")

\* What is recorded is all the call ever did: each of its requests has exactly one end, but
\* those that were denied before they were sent; no request or shared login of it is still under
\* way, and nothing is counted afterwards.
RecordsAreFinal ==
  \A c \in Calls : record[c].made =>
    /\ record[c].requests =
         record[c].terminals + Cardinality({r \in Requests : operation[c][r].request = "denied"})
    /\ \A r \in Requests : ~Underway(c, r)
    /\ record[c] = [late |-> record[c].late, made |-> TRUE, requests |-> collector[c].requests,
                    attempts |-> collector[c].attempts, terminals |-> collector[c].terminals]

\* The journal can be relied on (docs/TELEMETRY.md:24-25 and 64-67): both of the above.
JournalIsSound == OnLines /\ RecordsAreFinal

\* A call ends and its record is settled, whatever becomes of the journal and of the other
\* processes, unless its own process dies.
RecordsSettle ==
  \A c \in Calls : []<>(handler[c].at # "none" /\ Lives(c) => fate[c] \notin {"none", "queued"})
=============================================================================
