# keenetic-noc-mcp in TLA+

Specifications, model-checking runs and proofs for
keenetic-noc-mcp, the MCP server that reads and configures Keenetic routers.
Paths below are relative to the repository's `src/` directory (the sources live
in `src/src`, so `router/edge-pool.ts` is `src/src/router/edge-pool.ts`).

What is modelled, in the order of its weight: the transports, which decide whether a
router command is executed zero, one or two times, and on which most of the concurrency
is; the active diagnostics, which start jobs on the router and have to know what became
of them; the tools that change the router, with their backup and their audit; the
creation and removal of network segments; what several processes of one machine share on disk, the
registry of routers with its secrets, the snapshots and the call journal; the
procedures that end in a judgement, the wizard with its preflight and the composite diagnoses; and
what the readers of the configuration share.

To check or prove by hand:

    tlc -workers 2 -config MCSessions.cfg MCSessions
    tlapm CloudProofs.tla

## 1. The system

An MCP client calls tools over stdio. A tool reads through a projection (`shape/`)
or changes the router through the write-safety path. Both talk to the RCI client
(`router/rci.ts`), which talks to one of two transports: the LAN session
(`router/session.ts`, cookie login) or the remote session
(`router/remote-session.ts`, HTTPS through KeenDNS cloud edges with Digest or
Basic authentication). A command line (`cli/`) registers routers, tests them and
takes snapshots. State on disk is shared by every process of the machine.

Node runs one callback at a time: a stretch of code without `await` is atomic,
and everything else interleaves, at every `await`. Files and lock files are
shared by processes, and between processes nothing is atomic but a system call.

| component | state it keeps | operations | talks to | what is hard | what makes it correct |
|---|---|---|---|---|---|
| edge pool (`router/edge-pool.ts`) | a bounded map from edge address to the times of its last observation, success and failure | `observe`, `recordSuccess`, `recordFailure`, `candidateDetails` | called by the remote session; pure memory | limits, ties within a millisecond, a clock set back, stale entries | bounded; best candidates first; nothing excluded or stale; only the oldest is evicted |
| remote session (`router/remote-session.ts`) | the shared handshake flight and its waiters, the authorization, `rciAccessProven`, the pool | `request` (GET, POST, DELETE), `discover`, `send`, `fallback` | `fetch`, diagnostics channels, the pool; called by the RCI client | callers that leave at any point; one handshake for many; retries of what may have run | a mutation runs at most once and is acknowledged only when it ran; one handshake; everybody gets out |
| LAN session (`router/session.ts`) | the cookie, the login in progress and its waiters | `request`, `ensureAuthenticated`, `authenticate` | `fetch` | every response may replace the cookie; a POST is repeated after a 401; callers leave the shared login | one login for all, stopped when nobody waits; a mutation runs at most once |
| RCI client (`router/rci.ts`) | none between calls; a job that continues on the router | `get`, `post`, `runContinued`, `getText` | a transport | a job must be cancelled although its start, its polls or its DELETE are lost | no job is left running while the caller is told that it has stopped |
| active diagnostics (`router/active-diagnostics.ts`, `tools/active-diagnostics.ts`) | `busy`, the `uncertain` latch, the starts of the last minute | `run`, with a recheck before it | `runContinued`, component list | a rolling window, a latch after an unconfirmed cancellation | one job at a time; a bounded rate; nothing starts while another may still run |
| write safety (`router/backup.ts`, `security/audit.ts`, `tools/write.ts` and the mutating tools) | the backup taken once, the audit file, the router's running and startup configurations | guard, back up, apply, read back, verify, audit, `save_config` | RCI client, disk | a failed step after a change; another client changing the router meanwhile | nothing is changed without a backup; every change is audited; `saved` is what the router says |
| segments (`router/segments.ts`, `tools/segments.ts`; the server registers the reading tool only, `index.ts:67`) | the router's bridges, VLANs, access points and pools | read inventory, allocate, create, tear down | RCI client | creation in a dozen commands with a rollback; two creations at once; what the inventory cannot see | only unused identifiers; a failed creation leaves the router as it was; nobody's segment but one's own is removed |
| snapshot store (`router/snapshot-store.ts`) | snapshot files, a lock file with its owner | `write`, `list`, `removeAll` | disk, other processes | crash between any two steps; stale lock | nothing half written is listed; the retention limit; two writers never at once |
| snapshot collection (`router/snapshot-collector.ts`) | its sections, and the first error of the session | collect | RCI client, the capabilities | a session lost in the middle; two checksums of two moments | without gaps means without gaps; what it says of unsaved changes was so |
| profile registry (`profiles/`) | `routers.json`, one secret per profile | add, remove, set default, save registration | disk, keychain, other processes | read, change and write back without a lock; a file that cannot be read passes for none | always a consistent registry; no profile loses its secret to a newcomer |
| command line (`cli/`) | the wizard's draft, the persistence lock | `router add`, `remove`, `set-default`, `register`, `rotate-password`, `test`, `snapshot` | registry, secrets, preflight | going back and forth; recovery of a stale lock; secret and profile in two steps | what is saved is what passed the preflight; one wizard saves at a time |
| preflight (`router/preflight.ts`) | its report | DNS, TLS attempts, authenticated reads | transports | retries over several addresses within one budget | a check fails only if what it needs has passed; it ends |
| telemetry (`telemetry/`) | collectors with their leases, the writer's queue, the append lock, the journal | begin, count, seal, append, repair | disk, other processes, the transports | logins that outlive the call that began them; short writes; a lock nobody removes after a crash | records are in it once, on lines of their own unless a part was left before them, and final; a failing journal stalls nobody |
| capabilities (`router/client.ts` and its neighbours) | two cached promises, what was last measured | fetch, probe, drop, patch; the reads that go by it | RCI client | a measured capability patched into a probe in flight; a probe that failed in part; a configuration that changes between reads | one probe for concurrent first callers; no stale answer after a drop; claims that were true |
| diagnostic tools and reports (`tools/diagnose-*.ts`, `tools/wifi-diagnostic.ts`, `shape/*-diagnostic.ts`) | the evidence of one call, the session failure | eight reads in a row, checks, verdict, budget | RCI client | any read may fail on its own or end all later ones | a verdict rests on what was read; a gap proves nothing; complete means complete |
| reading tools, projections, server assembly | none | pure functions, I/O and wiring | everything | little that interleaves | output shape, redaction, budgets |


`PROJECT.json` lists the hazards line by line, with the properties that cover
them or the reason why none does yet.

## 2. The modules

    EdgeTiers <---------- EdgePool          EdgePool implements EdgeTiers
        ^
        | EXTENDS
    RemoteSend                              sends on the abstract pool

    RemoteContract <----- RemoteSession     RemoteSession implements RemoteContract
              ^
              |
              +---------- LanSession        LanSession implements RemoteContract

    RemoteSession, EdgePool <-- CloudProofs (they share no state)
    RemoteSend, LanSession <-- TransportProofs
    ActiveDiagnostics <--- ActiveDiagnosticsProofs
    WriteSafety, Segments <-- WriteProofs (they share no state)
    SnapshotStore <------- SnapshotStoreProofs
    ProfileRegistry <----- ProfileRegistryProofs
    Onboarding, Diagnosis, Telemetry <--- ProceduresProofs, MCProcedures

    Capabilities <-------- CapabilitiesProofs

    MCEdgePool, MCTransport, MCSessions, MCActiveDiagnostics,
    MCWriteSafety, MCSegments, MCSnapshotStore, MCProfileRegistry, MCProcedures, MCCapabilities
                                            instances for TLC

**`EdgePool`** is `router/edge-pool.ts`, operation by operation. `entries` is the
Map; `Observe`, `RecordSuccess` and `RecordFailure` are the three methods, with
`Insert` and `OldestEvicted` for the insertion into a full pool; `Candidates` is
`candidateDetails`, the ranking and its cut. Inputs are strings, `Canonical` is
what `canonicalIp` makes of them: two spellings of one address, and junk that is
turned away. `now` is `Date.now()`. It is a wall clock, so `Tick` sets it to any
value, backwards too unless `Steady` says that nobody sets it back. The three sorted lists are
`SortedBy`: by one key, the address deciding ties. Addresses are numbers whose order stands for
`localeCompare`. `firstObservedAt` is left out because no code reads it.

**`EdgeTiers`** is what the transport may rely on: every address is absent,
unknown, healthy or failed. Its operators give the *set* of pools an operation may
lead to, because which entry is evicted and whether a success outweighs a failure
depend on timestamps (`outdone`: an entry that comes out in the other tier, because both
happened in one millisecond or, if the clock is not `Steady`, because the earlier of the two has the later
stamp: a first success after a clock was set back may leave an entry failed, a failure may leave it healthy).

**`RemoteSend`** is `send` and `fallback` of `router/remote-session.ts`, several of
them at once over one shared pool. A send goes through normal attempts
(`NormalResponse`, `FailedAttempt`), backoff (`Wake`), and pinned attempts on at
most two other edges (`PinnedResponse`, `PinnedFailure`). What the connector and
the diagnostics channels tell the session about one attempt is a record of
`Evidence`: the edges the attempt really turned to are in `edges`, and everything
else is only what the code gets to see of it. `Abort` is the caller's signal, `Expire`
the deadline; either may come between any two steps, and a send may begin with
either already there. The disjuncts of `FailedAttempt` are the exits of the catch
block in its order: interrupted, retried, too late, hopeless, admitted to the
fallback. When a send settles its context is forgotten; the senders of the model
then begin another one, so the pool has a long history. `tried` and `sent` are
history variables.

**`RemoteSession`** is `request` and the shared handshake. A request that finds no
authorization starts a discovery (`Initiate`) or joins the one in progress
(`Join`); its signal or its deadline may release it from the wait (`Interrupt`,
then `Leave`, because the `finally` runs some microtasks later); the last to leave
aborts the discovery (`doomed`), which goes on running until its `fetch` has
rejected (`DiscoveryFails`), or answers after all. A settled flight releases its waiters one by
one (`Resume`); the initiator of a GET takes the discovery's own response, the
others send. A first 401 brings a new challenge and a second send
(`SendChallenged`). One send is one step to the network and one step back:
that a mutation is transmitted at most once per send is `RemoteSend`'s
`SentWithinBound`. On the router's side `limbo[r]` counts the transmissions that it may
still execute and `executed[r]` those that it did; `Execute` and `Lose` may happen
long after the request has ended. The router is external: it is assumed that
it acknowledges only what it executed, and that a 401 or 403 means that this
transmission was not and will not be executed. A flight is named after its
initiator, which starts at most one. A flight's result is `proceed` when nobody
takes its response. The authorization is reduced to `null`, `usable` (none
needed, Basic, Digest) and `unusable` (a Digest challenge the client cannot
answer); the Digest arithmetic and the nonce count are left out.

**`RemoteContract`** is what the caller of a mutation may rely on: it is executed at
most once, an acknowledgement means that it has been executed, a refusal that it
has not and will not, and nothing is transmitted once the caller has been told
anything. `RemoteSession` implements it by `INSTANCE ... WITH`: `told` is the
outcome, `pending` is `limbo`, `runs` is `executed`.

**`ActiveDiagnostics`** composes three layers. The coordinator
(`router/active-diagnostics.ts`): `active`, `uncertain` and `starts` are its
fields, `Admit` is the stretch of `run` up to the operation, `Release` its
`catch` and `finally`. The tools (`tools/active-diagnostics.ts`): `CallPing` goes
straight to the coordinator, `CallIperf3` awaits the router's components first and
asks the coordinator later (`Checked`). The continued job (`runContinued` of
`router/rci.ts`): `posting`, `pausing` and `polling` are the `await`s of its loop,
`cancelling` that of the DELETE in its catch block, and every way out of each is an
action: an answer that promises more, the last one, one that cannot be
used, a rejection in the body, an HTTP error status, rejected credentials, a failed
connection, an abort, the timeout. `Told` is the end of the catch block, which looks at
the timeout only then. `ping` stands for `traceroute`, too.

`job[c]` is the router's side of a call: not sent, in transit, running, over, or lost
(never started). The router is external; assumed of it is that a rejection
in the body of a 200, or of the credentials, means that no job is started; that the
last chunk means that the job is over; and that an acknowledged DELETE has stopped a
ping that was running. It says nothing of iperf3, as the
code says itself, nor of a POST that is still on its way. What an HTTP error status
(of the router, or of a cloud proxy in front of it) means for the job is left open.
The transport below is taken as what `RemoteContract` promises. `writtenOff` and
`setBack` are history variables: the jobs the code takes for over though they need not
be, and whether the wall clock was ever set back.

**`WriteSafety`** is the path of a change, several calls at once. A call is a request of
one of the tools that change the router: `set_interface_state`,
`restart_interface` (`tools/interfaces.ts`), `save_config` (`tools/config.ts`), a raw
POST (`tools/raw.ts`); only confirmed calls that were not refused at once are
modelled. `pc` names the `await` a call is at. `Begin` is the first audit record;
`Inspect` the look at the interface before a change, `Note` that of `save_config` at
last-change, which is outside its `try`; `Ensure` is the backup guard, with `backup`
and `copy` for its `done` and `pending`, and `take()` as the actions `BackupRead`,
`BackupWritten` and `BackupFails`; `Send`, `Posted`, `PostFails` the POST; `ReadBack` the
verification and the turn of `restart_interface` from down to up; `Poll` and `Compare`
are `waitForSaved`, whose two reads are of different moments. The last three actions are
`writeAuditOutcome`, which may fail to record but never fails. A configuration is
what it says of the interfaces, and two checksums are equal exactly when the
configurations are.

The router is external and trusted little: a command may be ignored although it was
answered with success (`Ignore`), carried out after the client gave it up
(`Execute`), and another administrator or a reboot may change `running` and `startup` at
any time (`Elsewhere`). `since` and `kept` are history variables: every running
configuration, and for a save every startup configuration, that the router had since
the last command of the call was sent.

**`SnapshotStore`** is the writing side of `router/snapshot-store.ts`, called by several
processes: `router snapshot` (`write`, with the check that the profile is still there)
and `router remove` (`removeAll`, which removes the profile as its last act under the
lock). Each process makes one call. `pc` names the system call that is next:
`TryLock` is `open(lock, 'wx')`, `WriteOwner` fills the lock file, `Inspect` is
`readOwner` after an `EEXIST` and `Judge` the `process.kill(pid, 0)` on what was read;
between any two of these others go on. `Release` is `releaseOwnedLock`, which
ignores a failing unlink. Under the lock come `Validate` (with the sweep of temporary
files), `Prune` (one file per step; the too old files are the oldest ones, so the two loops
of the code take files in one order), `Open`, `Fill`, `Rename`, `Stamp`, or `Clear` and
`Finalize`. `Fail` is an exception at any of them. `Die` ends a process anywhere, with
whatever it holds; `RemoveLock` is the user who follows `docs/SAFETY.md`.
A stored file has a size, a time (that of the file system until `utimes`) and is whole or
not. The `now` of a call is any time, since it is taken before the wait for the lock
and the wall clock may be set. A lock file names who created it or nobody yet; the random token is the
process. Reads of an existing lock file succeed, and process ids are not reused.

**`LanSession`** is `router/session.ts`. `FirstSend` transmits with the cookie there is; every
response may set another (`MayCapture`, `Capture`). A first 401 leads to the login, begun or
joined in the same step (`Refused`); a second one is final (`RefusedTwice`). A login is
named after the request that began it and makes two requests: `ProbeAnswered` finds the
cookie logged in already, receives a challenge or an answer without one, which is an `AuthError`; `PostAnswered`
answers the challenge. Whatever the router answers to it but 200, a 503 or a lockout too, is an `AuthError`, so credentials
that are right may be refused (`valid` says whether they are). An answer the router accepted may be lost on
the way back (`Accept` in `LoginFails`). The challenge is tied
to the session it was issued in (`challenge`), and the answer goes out with the cookie of
that later moment (`probe`): if a response replaced it in between, the two differ. `Leave` and `Resume` give
up a place among the waiters; the last one to leave while the login runs dooms it. `Cut` is a
caller's signal or its deadline, which have the same effect. Assumed of the router, which is external:
it knows a session by its cookie, gives a new one to who has none, executes
nothing that it answers with a 401, and may forget sessions (`SessionExpires`). Towards its callers
the session keeps `RemoteContract`, as the remote one does.

**`Segments`** is the path from the inventory to the router and back, several calls at once
and nothing that serializes them. An object of the router is its kind and its
number; `by` is who made it, `of` the bridge it serves. `Seen` is what `readInventory` can see of
them, `FirstFree` and `Allocation` what `allocate` makes of it, `Create` both together. `Post` sends
one group of commands; `GroupFails` may have been executed, or be executed later (`limbo`,
`Straggle`). `Abandon` is the catch block: the teardown of all that was
allocated, in the order of `Undo`, each command tried whatever became of the one before (`Tear`). `Delete`
reads the VLAN of a bridge, `Survey` what is bound to it some time after. `clash` records that
an allocation overlapped with something that existed, was being built or removed, or might yet
come: what the properties except. A removal counts from the moment it has read its VLAN (`surveying`). Addresses are numbers of networks; whether a pool's range lies in one
of them is kept (`Evidenced`).

**`ProfileRegistry`** is a machine with several commands running: `router add` from its review on
(`cli/router-wizard.ts:370-435`), `remove`, `set-default`, `register` and `rotate-password`. Each is a process,
`pc` the system call that is next, and any may die. `Link` is the `link()` that takes
the lock with its owner already in it, `Judge` the look at the owner found there, `Recover` the `unlink` after it, `Release`
and `Unlock` the two steps of giving it back. Under the lock come `Check`, `Probe`, `Save`, `Add`,
`Write` and, if something fails, `Rollback`; the other commands take no lock, and read (`Find`,
`Change`) and write (`Write`) in steps of their own. `Readable` is `readProfiles` and the
secret's `read`: what cannot be read passes for what is not there, `MaxFaults` times in a
behaviour; `blind` remembers of a wizard that its look at the secret was such a one. A keychain may refuse to delete and say nothing. `stolen` records that the lock of a
living process was unlinked by another.

**`Onboarding`** is the wizard up to that point, and the preflight. `step` and `draft` are
its variables by those names; every prompt may be answered, gone back from or cancelled, for
ever. `draft.ready` is `draft.preflight`, which `Edited` forgets when a value changes. The
preflight goes from `ResolveDns` over the attempts of `TryTls`, each of which takes no time or
all it is allowed, to the two reads; every failure marks what comes behind it as skipped.
`checked` and `confirmed` are history variables: for which values the preflight ran, and
which account the person said to have set up.

**`Diagnosis`** is five tools of one form: read the sources in their order, latch the first
transport failure, build a report. A source's answer is a record of the facts that the verdicts
tell apart (`Facts`); no fact constrains those of another source, since they are read at different
moments. `ReadAnswered`, `ReadRefused`, `ReadCut`, `Skip` and `CallFails` are the ways a read goes;
the last one builds the checks and the verdict in the same step (`InternetChecks` and
`InternetStatus`, `DnsChecks` and so on), and the budget may take evidence out (`Dropped`).

**`Telemetry`** is the call journal. Each call has a collector: `BeginRequest` and a shared login
hold leases of it, `CallReturns` seals it and hands the record over at once or, if a lease is
held, when the last one ends (`Collected`). `Hand` is the door of the writer's queue, `TakeLock`, `OpenJournal`,
`WriteLine` and `RepairJournal` are `append` of several server processes on one file. The file is the sequence of the pieces
that were appended to it, each a whole record or part of one (`Piece`). Only a whole record ends its line, so what
follows a part is on the same line: `OnLines` says when that may happen. A lock file may stay behind, because its
process died or could not remove it; `ClearLock` is the user who removes the one of a process that died, as
`docs/TELEMETRY.md:24-26` describes. `DenyRequest` is a request of a remote session that is counted but never sent: an
earlier response has left a Digest challenge that cannot be answered (`ChallengeKept`), and `authorizationHeader` throws
in the same turn in which the request began (`router/remote-session.ts:486`).

**`Capabilities`** is `clientFor` of `router/client.ts` with what goes by it. `pending` and `probedPending` are
its two cached promises, named by their numbers in `fetch` and `probe`; 0 is `null`. A probe goes from
`ProbeAccess` (the capabilities it awaits) over `ProbeReads` (its three reads, two on a remote
connection, each available, unavailable or unknown) to `ProbeEnds`, which drops it from the cache if any
surface may answer next time, or to `ProbeClears`, the catch handler. `Mark` and `Patch` are
`markRunningStructured` and its continuation; continuations of one promise run in the order in which
they were attached, which `behind` keeps. The calls are `get_connection_status` (`status`),
a structured read (`structured`), `get_config_state` (`state`), `get_config_diff` (`diff`) and the `router
snapshot` command (`snapshot`), which has a client to itself. `Begin` to `ReadRest` are their awaits in the order of
the code. `Conclude` is the end of `readConfigState` and of `configurationSnapshot`, `ReadAfter` that of the
comparison. A configuration is its checksum; `Elsewhere` is everybody who changes or saves it. Assumed of the router, which is
external: every change and every save moves the date of `show/last-change` (`dated`). `moments`, `knew` and `late` are history
variables: the pairs of configurations there were during a call, what had been measured when it asked,
and whether it asked after the probe had ended.

**`MCTransport`** runs sends to the cloud or a local session, each alone: `machine` says which.

**`MCProcedures`** runs `Onboarding`, `Diagnosis` and `Telemetry`, which share no state, each alone: `machine` says which.

Operators commented `mutant:` are faulty variants of the definition that follows
them: each breaks at least one property, which shows that the property is not
empty. No specification uses them.

## 3. The runs

| run | question | instance | distinct states |
|---|---|---|---|
| `edge_pool` | Are the candidates the best allowed ones, does the pool evict only its oldest entry, does it implement `EdgeTiers`? | 3 addresses, a second spelling of one and a junk string, pool of 2, clock 0..2 that may be set back, staleness 1 | 21 171 |
| `transport` | Cloud: how often does a send reach the network, does it go back to an edge, is health earned and blame deserved? Local: is the login shared, and stopped when and only when all have left? Is who has logged in refused again only for a reason? Do mutations keep the contract? On either: is everybody answered? | 2 senders that share a pool of 2, 2 edges, 2 attempts, a clock never set back; or 2 requests, 3 cookies, right or wrong credentials | 512 521 |
| `sessions` | Does each request get its own answer? Is the handshake never doubled, never overtaken, stopped when and only when both have left? Do mutations keep the contract, does every request end? | 2 requests of any of the 5 kinds | 220 783 |
| `active_diagnostics` | One operation at a time, in the server and on the router? Is every job accounted for that its call leaves behind? Is the rate bounded? Does every call end? | 2 calls of either tool, 1 start per window of 2, clock 0..2 | 118 584 |
| `write_safety` | Is anything sent before the backup and the first record exist? Is what is reported as applied or saved true? Does the audit agree with the caller? Does a failed backup lock anybody out? Does every call end? | 2 calls, each a set, a restart, a save or a raw POST, 1 interface, any initial configurations | 356 956 |
| `segments` | Is what a creation reports so? Does anybody take down what is another's? Does every call end? | 2 calls, creations or removals, 2 probed bridges of 3, 3 VLANs; a router with a whole guest segment or with leftovers the inventory misses; 1 failing command of a teardown, 1 late one | 256 190 |
| `snapshot_store` | Do processes exclude each other whatever dies? Is anything half written or past the limits ever to be seen? Does anything outlive its profile? Is a lock left by the dead left alone? Does every call end? | 2 processes, each a write or a removal; store empty or full; at most 2 files, 3 units of size, age 1, clock 0..2, 2 tries for the lock | 385 551 |
| `registration` | Is the registry always one that a command wrote? Do two wizards save at once? Does a profile ever lose its secret to another's command? Does every command end? | 2 processes with any of 5 commands on 2 ids, one of them registered already; file or keychain; no lock or a dead one; 1 unreadable file, 3 tries for the lock | 339 431 |
| `procedures` | Is what the wizard saves what the preflight passed? Do verdicts rest on evidence, do gaps prove nothing? Are the records of the journal on lines of their own, once and final? Does what was started end? | Wizard: 2 logins, endpoints and passwords, 2 addresses, the code's TLS budget. Diagnoses: 5 tools, 5 sources that may be refused, each of which and all others cut. Journal: 2 servers, 2 calls of 1 request and 1 attempt each, queue of 1, 2 tries for the lock | 980 123 |
| `capabilities` | Do callers share one fetch and one probe, is a failed part tried again, is anybody told less than was measured? Was it so what is said of unsaved changes? | 2 calls of a server, each a status, a structured read, a state or a comparison, or one snapshot with 1 source behind the configuration; local connection, 2 configurations | 1 508 193 |
| `snapshot_store_corrupt` | Is the lock called corrupt only if somebody died or failed? **No** (finding 1) | as `snapshot_store` | |
| `segments_unused` | Is what `allocate` hands out unused? **No** (finding 2) | 1 call on the routers of `segments` | |

Why the bounds are enough for the cases that matter:

- *Pool.* Three addresses over a pool of two is the smallest instance in which an
  insertion has to choose whom to evict and an excluded address leaves others to
  choose from. Three instants and a threshold of one give fresh, just not stale
  and stale entries, ties, and a clock set back. Both kinds of clock and every size are covered by the proofs.
- *Sends.* Two attempts are a first, a retry and a last one; of two edges one is left for
  the fallback when the send has turned to the other. The clock is steady here: under one set
  back credit where it is due is more than the pool can promise. A second
  sender changes the pool at every point of a send. The code has five attempts and two pinned ones.
- *Sessions.* With two requests every pair of roles meets: initiator and joiner,
  leaver and stayer, a GET that takes the discovery's response and a mutation
  that must not. Each request is made once, so there are two flights at most, one of
  them possibly dying. Three cookies are one to lose, one to replace it and one that arrives
  late. Where three requests would differ ("the last one out" from "the other
  one"), the proofs hold for any number, and for any number of cookies.
- *Diagnostics.* Two calls are what "busy", "uncertain" and "overlapping" are about: each of
  these properties relates two calls, of which one has ended or not. One start
  per window makes the second call meet the limit; a window of two in a
  clock of three instants puts a start inside the window, on its edge and outside.
  A larger window or more calls are covered by the proofs.
- *Writes.* Two calls are one that takes the backup and one that joins it, or a save that
  races a change. One interface suffices: calls for different interfaces meet only in
  the backup, in the checksum and in a save, where one interface and another
  administrator make every combination of equal and unequal configurations. Two
  interfaces and more calls are covered by the proofs.
- *Segments.* Two calls are two creations that read the same inventory, a creation beside a removal,
  or a segment removed twice. With two probed bridges of which the home segment has one,
  the second creation may be given the one past those probed. One failing teardown command
  is enough to leave something behind, one late command to bring something back. Some clashes take three calls
  (see the observations); more calls are covered by the proofs.
- *Snapshots.* Two processes are the holder and the contender, or a writer and what a dead one
  left. Two files of two sizes make the count and the total bind separately and
  together; an age of one in a clock of three instants has files inside, on and past the
  limit, with clocks that go back. Two tries are a first and a last one. The code has 96 files,
  30 days, 1 MiB and fifty tries. More processes are covered by the proofs.
- *Registration.* Two processes and a lock left by a dead third are what it takes to steal a fresh lock. Two ids let
  commands meet on one profile or miss each other. One unreadable file may be the registry or the secret. What takes more
  commands or more misreads is covered by the proofs.
- *Procedures.* Two values of everything the person types are what a stale one and a new one need. Every
  subset of sources is missing at once only after a cut; the five that may be refused alone
  are those whose loss changes a verdict. A queue of one makes a second call meet its limit.
- *Capabilities.* Two calls are one that starts a probe and one that joins it, or one that reads while the other
  marks what it read. Two configurations make every pair of equal and unequal ones, and a change that is
  taken back. The local connection has one surface more than the remote one, which makes up for another.

**Fairness.** `Expire`, `Cut`: Node's timers fire. `Wake`, `Leave`, `Resume`: a settled promise's
continuations run. `Interrupted(...) /\ FailedAttempt` and `PinnedFailure` (one condition with the former, `Proceed`), `expired[r] /\ SendFails(r)`,
`cut[r] /\ SendFails(r)` (one condition with the other steps of a local request, `LanProceed`), `doomed[f] /\ DiscoveryFails(f)`: `fetch` rejects when its signal is aborted or
timed out; `LoginFails`: the login of the local session has a timeout of its own. In
`ActiveDiagnostics` the same holds of `expired[c] /\ PostFails(c)` and `expired[c] /\
PollFails(c)`; `PauseEnds` is a timer; `Checked`, `Declined` and `CancelUnconfirmed` are
requests with a timeout of their own. In `WriteSafety` a call that has begun goes on (`Call`), because each of its `await`s is
a request with a timeout, a file operation or a timer, and so does `take()` (`Guard`); in `Segments` likewise (`CallStep`); the
router owes nothing. In `SnapshotStore` and `ProfileRegistry` a call that has begun goes on: its steps are file operations,
pauses, a started program that ends and, in the latter, a person who answers; a process need not die, and nobody need remove a lock.
Of the wizard only the preflight goes on (`Preflight`), whose every step has a deadline; in `Telemetry`
calls and logins end, and so does each step of the writer. All are weak. `Capabilities` has no liveness property: each of its reads is a request, which `EveryRequestEnds` and `EverySendEnds` are about. Nothing is assumed of callers (they need never abort), of the network
(it need never answer) or of the router. That every request has a deadline is in
the code: `timeoutMs` of a session bounds each request.

**Deadlock** is checked in `edge_pool`, `transport` and `write_safety`, whose behaviours can
always go on, or in `transport` may be over when all requests have ended (`Over`). Elsewhere each request, call or command is made once, so the
system may really be over, and `CHECK_DEADLOCK FALSE` says so; the liveness properties say
that nobody is left waiting.

### The properties, by what they guard against

- Two executions of a command: `SendsBounded` (a failed attempt of a request
  that is not replay safe is never followed by another, and no edge gets two pinned
  attempts), `ImplementsContract`, `LanImplementsContract`
  (also across the second send after a 401, and after the caller has left).
- A caller given the answer of another: `AnswersOwnRequest`.
- What callers share: `SharedHandshake` (one discovery, before anyone sends, stopped once
  abandoned), `LeavingHarmsNobody`, and for the local login `LoginIsSound`, which says both of it.
- Edges blamed, credited or chosen wrongly: `HealthIsEarned`, `CandidatesAreRight`,
  `ImplementsTiers`, `OnlyTheOldestLeaves`.
- A login that succeeded and did not help: in `LoginIsSound`, a request is refused again after it only if a
  session expired or a response replaced the cookie meanwhile. A login itself may be refused for any reason.
- Waiting forever: `EverySendEnds`, `EveryRequestEnds`, `ProceduresEnd`,
  `EveryCallEnds` (of four modules), `EveryToolCallEnds`.
- Jobs on the router: `OneAtATime` (the coordinator is released on every path, and
  by its owner only; one live job on the router itself), `JobsAccounted`, `RateBounded`.
- Changes: `BackupProtects` (a copy of the configuration before the first
  command, whatever calls overlap; a failed backup neither counts nor
  blocks), `ReportedChangeWasSeen` (success is claimed only if the router was seen in
  the state claimed after the command had been sent; for a save, only if what runs and
  what would boot were the same at two moments that may differ), `AuditAgrees`.
- Segments: `ReportedSegmentsAreReal` ("created" is whole until somebody removes it, "as it
  was" has left nothing), `OnlyOwnTornDown`.
- Processes that share files: `Exclusive`, `StoreIsWhole` (no reader, who takes no lock,
  ever sees a part of a snapshot; a writer that waited while the
  router was removed must not bring it back), `RetentionBounded` (before every write,
  not only after it), `LeftLockStays` (nobody recovers a lock on a guess); for the registry
  `RegistryConsistent` (always a registry that one command made of one read; two wizards save at once
  only if a lock was stolen), `SecretsKept`; for the journal `JournalIsSound`
  (a part of a record stays only if its truncation failed or its writer died; a record is glued to such a part and to nothing else;
  requests and ends agree but for those denied before they were sent).
- Judgements on stale or missing grounds: `SavedAsChecked`, `VerdictIsBacked`,
  `FailureProvesNothing` (take away a source that was read: no report turns into an
  accusation, none becomes complete), `AnswersAreCurrent` and `CacheIsSound` (an answer of the cache is not
  that of a probe that had failed in part, and knows what has been measured since), `ClaimsWereTrue` ("saved" and "unsaved" were so
  at a moment of the call; two texts are compared only if they were there together).

### Findings

1. `tests/router/snapshot-store.test.ts:180` "serializes concurrent writers under the
   count limit", and the loop of `withLock` waits up to fifty times for a living owner. But a
   contender that finds the lock file before its owner has written into it (`router/snapshot-store.ts:271-273`),
   or after its owner has unlinked it (between line 271 and line 286), reads no
   owner and fails at once: "Snapshot lock is corrupt; remove it only after confirming no
   snapshot command is running." Nobody has died. Nothing is lost but the call; waiting
   in these two cases as in the others, a bounded number of times, would be enough.
2. The comment on `allocate` says that it "Picks identifiers nothing else is using"
   (`router/segments.ts:271`), and the one on `readInventory` "Everything the allocator needs, so nothing is
   handed out twice" (line 160). The inventory probes Bridge0 to Bridge15, but `firstFree` counts sixteen
   from 1 and may hand out Bridge16 (line 278); a VLAN subinterface that no port trunks is not
   seen; and the pool is named after the bridge although the inventory has read which pools
   there are. Such leftovers are what a partial removal leaves. The creation then
   configures what it believes to make, and its rollback removes it. The server does not
   register the tool.

### Observations

They are not findings, because nothing in the repository says otherwise or
because they need more than one thing to go wrong:

- `docs/REMOTE_RCI.md:54-55` speaks of at most five attempts. A repeatable request whose five
  attempts fail is then tried on up to two pinned edges (`router/remote-session.ts:635-680`);
  the bound that holds is `SendsBounded`.
- A request that joins a handshake whose last waiter has just left is told `request
  cancelled` although nobody cancelled it: `this.handshake` is cleared only after the aborted `fetch`
  has rejected (`router/remote-session.ts:326`, `358`, `432`). In the local session a 401 that arrives in
  that window joins the dying login in the same way (`router/session.ts:72`). A ping
  cancelled during the first handshake sends its DELETE into this window, and leaves the
  coordinator `uncertain` until the server is restarted although nothing was started.
- `runContinued` cancels a failed job first and looks at the deadline afterwards (`router/rci.ts:338`): a malformed
  answer is reported as a timeout when the deadline passes in between, where `docs/rci-api.md:476` has it
  remain an error.
- `writtenOff` marks the two ways in which a ping may still run on the router while the
  coordinator admits the next diagnostic: its start was answered by an HTTP error
  status, which `router/rci.ts:249` takes for "not started", or its POST was
  overtaken by its own acknowledged DELETE. For iperf3 the code takes neither
  for granted.
- The note of every verified write says that a reboot discards it (`tools/write.ts:53-54`); a change back into
  the saved state, or one that a concurrent `save_config` saves, leaves nothing unsaved.
- `save_config` saves whatever runs. If it overlaps a `restart_interface`, the interface
  may be saved as down; `ReportedChangeWasSeen` says no more than that the two
  configurations agreed, at moments since the command. By the time the caller hears "saved" another change may have been made.
- A raw POST whose backup fails, and a `save_config` whose first read fails, end with a
  `started` record and no outcome (`tools/raw.ts:129`, `tools/config.ts:286`).
- The default-gateway check reads the interface before the backup is taken
  (`tools/interfaces.ts:151-153`): with the first write of a process a whole download lies between
  the check and the command.
- Two creations that overlap read the same inventory and are given the same identifiers; the
  rollback of one takes down what the other reported as created (`clash`).
- A removal reads the VLAN of its bridge before the backup and the inventory (`tools/segments.ts:192-216`). If
  meanwhile a second removal of that bridge takes the VLAN and fails on the bridge, and a creation is given the
  VLAN number that is now free, the first removal takes the creation's VLAN away. It takes three calls; the
  attempt to prove `OnlyOwnTornDown` showed it. This, too, counts as a clash.
- The contender of finding 1 may also be told "belongs to a stopped process" by an owner that
  released the lock and ended normally between the read and the check (`Judge`).
- An unlink that fails in `releaseOwnedLock` is ignored: the call reports success and the
  lock stays until the user removes it. The same holds of the journal's append lock, left by a failed unlink
  or a death: every later record is given up on as busy, until the user removes
  the file, as `docs/TELEMETRY.md:24-26` asks.
- A snapshot `write` that fails after the rename (at `chmod` or `utimes`) reports a failure although
  its snapshot is stored, under the file system's time; one that fails after pruning has cost older
  snapshots.
- `readProfiles` takes any error for an empty registry (`profiles/registry.ts:34-44`): a command that then writes
  replaces the file by one without the other profiles. For `router add` to overwrite a secret its own look at that
  secret must fail (`blind`). That one misread may be enough: the look at the registry is no second safeguard, since the profile it would
  have found may be missing from a file that another command wrote back from an older read, and be back after a third. The
  proof of `SecretsAreKept` showed this; it takes four commands.
- Commands other than `router add` change the registry without a lock, and `add` without regard to
  them: of two updates that overlap, one is lost, and a registry may be left without a default.
- A keychain that refuses to delete is not noticed: the rollback and `router remove` report success and the
  secret stays, in the way of the next profile of that id.
- The stale lock is unlinked after its owner was read (`cli/router-wizard.ts:138-144`), and the own one after its token was
  compared: either may hit a fresh lock, and two wizards save at once (`stolen`). For both to lose
  something they must have derived the same id.
- A late response may replace the cookie between the probe and the POST of a login; the right
  credentials are then refused. The next request logs in again.
- Every status of `POST /auth` but 200, a 503 or a lockout too, is reported as "rejected credentials (HTTP n)"
  (`router/session.ts:157-161`), and an answer to the probe without a challenge is an `AuthError` as well (line 147); what
  `docs/ARCHITECTURE.md:225` calls an `AuthError` is "HTTP 401/403 or rejected LAN credentials". The preflight then says "credentials rejected".
- A record that could only be written in part, and whose truncation failed too or whose process died before it, has no
  newline: the next record is appended to the same line and reported written, and no reader of lines finds it
  (`telemetry/writer.ts:97-119`; `OnLines`).
- Once a response has left a Digest challenge that cannot be answered (`router/remote-session.ts:470-474`), a request that
  finds it throws at line 486 before it is sent: the journal counts the request, but no end of it (line 394).
- The comment at `router/preflight.ts:200-202` says that a dead address cannot consume the shared deadline while
  another candidate is untried. One cannot; three that each take their ten seconds do.
- `diagnose_internet` may be healthy with the system or the DNS source missing, which
  only `complete` tells. Losing the `internet` source may leave another route as the one in use, and
  losing the associations a device's older record: these are the sources `Arbiter` excepts.
- The status `unknown` of `diagnose_device` cannot be reached (`shape/device-diagnostic.ts:411-413`): whatever is unknown has made
  the report degraded before.

## 4. The proofs

`CloudProofs` proves of the session, for every finite set of requests, of any kinds:

| theorem | states |
|---|---|
| `Invariant` | `Safety => []Inv` |
| `TypeCorrect` | `TypeOK` always holds |
| `HandshakeIsShared` | `OneHandshake` |
| `NothingSentUnauthorized` | `SendsAfterHandshake` |
| `AnswersAreOwn` | `AnswersOwnRequest` |
| `AbandonedStops` | `AbandonedDiscoveryStops` |
| `HandshakeHolds` | `SharedHandshake`, the three above in one |
| `LeavingIsHarmless` | `LeavingHarmsNobody`, an action property |
| `Implements` | `RemoteSession` implements `RemoteContract` |

The one assumption is `SessionAssumption`: `Requests` is finite, `Kinds` are some of
the five kinds, `Null` is no request.

The properties are not inductive by themselves. `Inv` adds what they rest on:

- `WaitersCounted`: `waiters[f]` is the number of requests whose `finally` has yet to
  run for flight `f`. Without it, "the count has reached zero" says nothing
  about who is still waiting, which is what both leaving properties are about. It is
  the reason for the finite-set lemmas: one request more or less in a set changes
  its cardinality by one.
- `HandshakeInv`: `this.handshake` is exactly the running flight; while there is one
  there is no authorization yet; a flight that settled well has left an authorization
  behind. Hence nobody can send while a discovery runs, and nobody resumes into
  a send without an authorization.
- `OnceInv`: what the router holds or has executed of a mutation is one
  transmission at most, and none before its request sends. It is what the steps of
  the refinement need, together with "no outcome before the request has ended".

Each conjunct is preserved by a lemma with one case per action (`RequestType`,
`DiscoveryType` and `EnvironmentType` for the types, then `StepCounted`,
`StepHandshake`, `StepOnce`), and `StepInv` puts them together. `AnswersAreOwn` is
inductive on top of `Inv` (`StepAnswers`). `Implements` maps every action to a
step of the contract or to a stutter (`RequestImplements`, `EnvironmentImplements`).
The two leaving theorems follow from `WaitersCounted` with one auxiliary
invariant (`StepAttended`: a discovery that nobody waits for is doomed).

Of the pool, `CloudProofs` proves for every finite set of addresses, pool size, staleness limit and length of the clock, set back or
not (`PoolAssumption`):

| theorem | states |
|---|---|
| `PoolInvariant` | `PoolSpec => []PoolInv` |
| `OldestLeaves` | `OnlyTheOldestLeaves`, an action property |
| `PoolImplementsTiers` | `EdgePool` implements `EdgeTiers` |
| `CandidatesRight` | `CandidatesAreRight` |

- `PoolInv` is well-formedness, the limit and, under a steady clock, that no stamp is later than now
  (`StampsPast`): only then is what happens now later than all that happened, which is what the tiers are about.
- That exactly one entry is evicted (`OneIsOldest`) needs the minimum of a finite non-empty set under a total
  order, which `SmallestNat` gets from the library's theorem that `<` is well founded on the naturals. An insertion
  then keeps the limit (`InsertMakesRoom`).
- The refinement goes by operation (`ObserveNewIsAllowed`, `SuccessIsAllowed`, `FailureIsAllowed`): each names the
  `kept`, `replaced` or `outdone` of the abstract step. An observation of a known address is a stutter.
- For the candidates, `SortedListExists` shows that `SortedBy` chooses from something: the sorted list of a
  set is built from the ranks of its elements. `RankingIsRight` puts the three lists together, `CandidatesAreTheFirst` cuts them;
  `InvGivesTheBest` compares the list with the preference pair by pair, `InvGivesTheAllowed` with `EdgeTiers`.

`ActiveDiagnosticsProofs` proves for any finite set of calls, any limit and any window
of at least one (`DiagnosticsAssumption`):

| theorem | states |
|---|---|
| `Invariant` | `Safety => []Inv` |
| `TypeCorrect` | `TypeOK`, the bound on remembered starts included |
| `OperationsExclude` | `OneOperation` |
| `EveryJobAccounted` | `JobsAccounted` |
| `OneJobLives` | `OneLiveJob` |
| `OneAtATimeHolds` | `OneAtATime`, the two in one |
| `RateIsBounded` | `RateBounded` |

`OneOperation` and the type invariant are nearly inductive: the size of `starts` needs
a lemma on one element more in a finite set. The rest is strengthened:

- `JobInv` says where a job can be while its call is at a given place, that at most
  one call ever ends as `uncertain` and that nothing operates afterwards. `OneLiveJob`
  follows: of two live jobs not written off, each belongs to the operation in progress
  or to the one uncertain call, and these exclude each other.
- `RateInv` says that the coordinator still remembers every start of the current window.
  Its filter forgets the others, so the count it tests is the count of the property.
  This is where a clock set back breaks the bound, and why the property excludes it.

Every action of a call has one of four shapes (`CallShape`: it is refused, admitted, it
continues, or it releases the coordinator); the preservation lemmas go by shape
instead of by action.

`WriteProofs` proves of the path of a change, for any calls, interfaces and requests (`WriteAssumption`: requests are
well formed, `Null` is no configuration):

| theorem | states |
|---|---|
| `Invariant` | `Spec => []Inv` |
| `TypeCorrect` | `TypeOK` |
| `BackupComesFirst` | `BackupFirst` |
| `BackupIsShared` | `BackupShared` |
| `BackupStaysOriginal` | `BackupIsOriginal` of every step |
| `BackupHolds` | `BackupProtects`, the three above in one |
| `AuditAgreesAlways` | `AuditAgrees` |
| `ReportedChangesWereSeen` | `ReportedChangeWasSeen`, an action property |

The invariant is pointwise, `CallOK(c)` for each call: where its tool can be
(`PlaceOK`), that it sends nothing before the backup is there (`SentOK`), that it has one
record and has told nothing until it ends (`RecordOK`), and that its history holds what
it saw (`SeenOK`): `running` is in `since` from the POST on, so whatever is read later is in it
too. `CallFrame` says what a step leaves alone, so that `OthersKeep` needs no cases; `CallKeeps` has one per
action; `GuardKeeps` and `RouterKeeps` are the steps of the backup and of the router.
Because nothing is sent before `backup = "done"`, the copy read before that is of a router
this server has not touched.

Of the segments it proves, for any calls, numbers and answers of the router (`SegmentAssumption`: of the router at
first, that what it has was made by the user, that a bridge serves itself, and that the trunk of VLAN 1 belongs
to the home segment, as `router/segments.ts:273` has it):

| theorem | states |
|---|---|
| `SegmentInvariant` | `SegmentSpec => []SegmentInv` |
| `ReportsAreReal` | `ReportedSegmentsAreReal` |
| `OwnTornDown` | `OnlyOwnTornDown`, an action property |

`SegmentInv` has two halves. Whatever clashes, each call is in order (`CallsInOrder`, `ClaimsInOrder`), what it has made
or given up on serves its own bridge (`MadeInOrder`), and all it has made is among what it claims, or among the
commands of the rollback that are still to come as long as none failed (`RollbackCovers`; `UndoCovers` says that the
order of the teardown loses nothing of what was allocated). That alone makes "as it was" true. Until something
clashes, also `Separate`: what a creation holds belongs to no other creation (`CreationsApart`), nor to a command that
may yet be executed (`LimboApart`), and exists only if it is its own (`ClaimedIsOwn`); what is given up on configures
nothing of another bridge (`LimboIsOwn`); a removal claims only what serves its bridge, whoever might make it
(`RemovalIsOwn`); and a creation has what it has posted (`PostedStands`). There is one lemma for each step of a call, and
`StraggleKeeps` for the router; `GivenGrows` says what a command may change. A late command of a creation that was rolled back is
why `UndoneLeavesNothing` speaks of `late`.

`SnapshotStoreProofs` proves for any processes, times, sizes and limits (`StoreAssumption`: the
numbers are numbers, `Null` is no lock, what is stored at first is finite, whole, within the limits and of other
processes):

| theorem | states |
|---|---|
| `Invariant` | `Safety => []Inv` |
| `TypeCorrect` | `TypeOK` |
| `HoldersExclude` | `Exclusive` |
| `NothingOutlives` | `NothingOutlivesProfile` |
| `WrittenAreKept` | `WrittenIsKept` |
| `StoreHolds` | `StoreIsWhole`, the two above in one |
| `RetentionStaysBounded` | `RetentionBounded` |
| `LeftLocksStay` | `LeftLockStays`, an action property |

The heart is `LockInv`: who is between the creation and the release of the lock is named
by it, or is about to be. One lock has one creator (`LockExcludes`), and a process that does
not own the lock changes no file but an absent lock (`OutsidersStay`); so whatever others do, the files
of the owner stay as they are (`OwnersAreAlone`). With that, each of `StoreInv` (a writer that
has validated still has its profile, a remover that has cleared finds nothing) and `KeptInv`
(what is renamed is whole, what is to be stamped is there) is preserved for the others without
looking at their actions, and for the acting process by one case per action. `RetentionInv` adds that whoever is about to
store has made room (`Fits`), which the lock keeps for it. The total is counted as the number of bytes (`Bytes`), since
the prover cannot unfold a sum over a set: a file adds as many as its size says (`BytesOfOneMore`), a removal none
(`FewerBytes`), a new time none (`BytesStamped`).

`TransportProofs` proves, of the two ways over the wire, which share nothing: for any senders, attempts, answers of the
lookup and finite set of edges (`SendAssumption`: at least one attempt; `TiersAssumption`) and for every finite set of
requests and any cookies (`LanAssumption`: `Null` is neither)

| theorem | states |
|---|---|
| `SendsStayBounded` | `SendSafety => []SendsBounded` |
| `HealthIsAlwaysEarned` | `HealthIsEarned`, an action property |
| `LanInvariant` | `LanSafety => []LanInv` |
| `LanTypeCorrect` | `LanTypeOK` |
| `LoginShared` | `LoginIsShared` |
| `RejectionsHaveReasons` | `RejectionHasReason` |
| `LoginSound` | `LoginIsSound`: the two above, and that leaving leaves the login of others alone |
| `LanImplements` | `LanSession` implements `RemoteContract` |

`SendInv` says of each send that what it has sent is what its place in the loops says: the attempt it is at while
those follow the name, and while it goes through the pinned edges, no more than `Attempts + 3` together with those that
are left. As long as every attempt could be accounted for, what it turned to is among `attempted`; the fallback is only
reached by such a send, and the pool leaves out what was attempted (`CandidatesAreNew`). `Earned(s)` is what a step of
`s` may do to the tiers: each action has one lemma that gives both, `SendInv` and `Earned`, and what an action does
with the evidence of an attempt rests on what the operations of the pool do (`ObservingMarksNothing`,
`SuccessMarksOwn`, `FailureCreditsNobody`).

`LanInv` counts the waiters like the remote session's invariant (`Counted`), says of the login that runs
that it is the current one and of a challenge that there is one when it is to be answered (`Current`),
and what the router holds of a request by what its caller has been told (`Once`). The last part, `SteadySession`, is what
`RejectionHasReason` rests on: as long as nothing has disturbed the session there is at most one cookie, a
challenge was issued in it, a login that succeeded has authorized it, and what is resent carries it. Hence a second
401 cannot happen, whatever answers the logins before it met and whichever of them were lost.

`ProfileRegistryProofs` proves for any commands, ids, tries and numbers of failed reads (`RegistryAssumption`:
no id twice in the file at first, `Null` is neither process nor id, `Gone` is no process):

| theorem | states |
|---|---|
| `RegistryInvariant` | `Safety => []RegInv` |
| `RegistryStaysConsistent` | `RegistryConsistent` |
| `SecretsAreKept` | `SecretsKept`, an action property |

The registry is `Sound` if no id is in it twice, at most one is the default and default and registrations are of
profiles; an empty one is, and whatever the commands make of a sound one (`AddedIsSound`, `RemovedIsSound`, `ChangedIsSound`).
The counting in `RegistryConsistent` follows (`SoundIsConsistent`), and with `PlacesAreTaken` that a filter keeps the others, each
once. `RegInv` carries soundness through the drafts, since any of them may become the file however old it is (`OnPath`). `Locked` says
that who saves is named by the lock unless it has been stolen; `NothingStored`, that no secret is of a process that has not
saved yet; `Looked`, what there is at the id of a wizard: nothing if it has looked and seen, then its own secret. The last
holds as long as no command that is to change that secret has been at it (`Meddled`), since such commands do not ask for the lock. Each action has
a lemma; they rest on two about what a step leaves alone, `StepKeeps` (it changes no secret) and `SecretStepKeeps` (it
changes one, of its own id).

`ProceduresProofs` proves, of three procedures that share nothing: for any logins, endpoints, passwords and attempts
(`OnboardingAssumption`: `None` is no endpoint and no backend; the budget covers an attempt), for any of the five tools, of the things a source may
say and of the paths (`DiagnosisAssumption`) and for any calls,
requests of a call and server processes (`TelemetryAssumption`: a call has finitely many requests, `NoServer` is no server)

| theorem | states |
|---|---|
| `WizardSavesWhatPassed` | `OnboardingSafety => []SavedAsChecked` |
| `VerdictsAreBacked` | `DiagnosisSafety => []VerdictIsBacked` |
| `FailuresProveNothing` | `DiagnosisSafety => []FailureProvesNothing` |
| `JournalCanBeReliedOn` | `TelemetrySafety => []JournalIsSound` |

- The wizard: `OnboardingInv` says of each step what those before it have settled (`StepsInOrder`), that a preflight
  is of the draft as it is (`PreflightIsOfDraft`), and what the checks made so far say (`ReportSoFar`): a report that passes, passed each of its
  parts. Going back is no exception, since it undoes the steps after it.
- The diagnoses: `DiagnosisInv` says of the evidence, before the k-th read, that of the sources before it each has told what it may tell
  or is missing, all after a cut, and the others have not been asked (`Gathered`), and of the device's record that it comes before anything that may be cut. Each check of
  each of the five reports is characterised by the facts that fail it; of these facts a lost source takes away its own and changes no
  other, so that a report without it accuses nobody whom it did not accuse before (`LossAccusesNobody`) and is not complete
  (`LossCompletesNothing`). The sources excepted by `Arbiter` are where this fails.
- The journal, for a call: `CallOK` counts. Requests begun, ended and under way, and logins under way, are as many as its
  collector says (`Counted`), so that no lease means that nothing is under way (`NoLeaseAllEnded`) and a record is made
  exactly then. `CountsChanged` is the one lemma about cardinalities; `BegunIsCounted` and `EndIsCounted` use it for
  every step of a call, `DeniedIsCounted` for a request that is denied, and each leaves to the writer what `LeavesTheWriter` says.
- The journal, for the writers: `WritersOK` says that who is alive and writes holds the lock, and that what a writer repairs is the last
  piece and the size it returns to is that of the file before it; `QueuesOK` that each call waits once, in its own process.
  From the two, `PiecesOK`: a whole record is of a settled call, once; a part of one is of a record that was torn, of a dead process, or is
  at the end under repair. So a truncation takes away just that part (`RepairJournalSafe`), though others append before and after,
  and at the moment a record is appended no part before it is still to be repaired: what it may be glued to was left behind (`RecordsStandOnLines`).

`CapabilitiesProofs` proves for any calls and configurations, either connection and any number of sources of a
snapshot (`CapabilitiesAssumption`: `Null` is no configuration)

| theorem | states |
|---|---|
| `CapInvariant` | `Spec => []CapInv` |
| `CacheStaysSound` | `CacheIsSound` |
| `AnswersStayCurrent` | `AnswersAreCurrent`, an action property |
| `ClaimsAreTrue` | `ClaimsWereTrue`, an action property |

- `CacheInv`: what is under way, or has failed and is yet to be cleared, is what is cached; so there is one of it, whoever asks. What is cached and
  has settled is whole and holds what was last measured, or has a patch coming.
- `Waits` is what a call may rely on while it waits: its probe has not been forgotten; if something had been measured when it asked,
  the answer will hold it, or a patch that was attached before the call's own continuation is still to come; if the probe had ended when it asked, it
  had ended whole. A probe is replaced only by those who hold it (`WaitersStay`, `PatchStep`), and the last to let go forgets it (`AnswerIsTaken`).
- `MomentsOK` is about the reads. For a call that says only whether the two configurations are the same: whatever the others do, among the moments since its first
  read there is one of which "same" is true if the first checksum is that of the saved configuration now, and one of which it is false if not
  (`ElsewhereStep`: a save makes the saved configuration that which runs). So whenever the saved one is read, the comparison with
  the first is true of some moment. For a comparison: unless the date has moved, what it has read is what is there.
- `GapsOK`: a snapshot that goes on has its claim or a gap.

Only model-checked:

- liveness (`EverySendEnds`, `EveryRequestEnds`, `EveryCallEnds`, `EveryToolCallEnds`, `ProceduresEnd`), which the prover does
  not reach.

## 5. What is not modelled

- In the remote session: the text of errors and whether an abort is reported as
  a cancellation or as the deadline when both are there; response bodies and their size limits; the
  Digest computation and its nonce count (`nc` is taken once per send and reused
  by its retries: concurrent sends may arrive out of order, what a router makes of
  it is unknown); TLS and the sockets of the pinned connector. These are data
  or external; the control around them is in the modules.
- In the local session: the hash of the challenge, beyond whether it answers the right session.
- In the tools that change the router: previews, refusals before anything is recorded,
  `backup_config` (one new local file), the text of records and results. How often
  `waitForSaved` polls makes no difference to what it answers. `tools/devices.ts` contains
  mutating code that the server never registers.
- In the segments: addresses and ranges as numbers, the tool that reads them, the preview, and the audit and backup
  in front of both tools, which are those of `WriteSafety`.
- In the snapshot store: `list` and the validation of what is read (parsing; it sees whatever is
  stored at any moment), directories, links and permissions, the limits on a single file
  and on directory entries. What `router remove` does to secret and registry is in `ProfileRegistry`.
- In the registry and the wizard: the migration of older directories, secrets from the environment, the validation
  of a file, the texts; of the commands, those that only read (`list`, `show`, `test`).
- In the diagnoses: the parsing of the router's answers into facts, findings that do not count for a verdict,
  the shortening of lists to a budget, `diagnose_mesh`, logs, system and the comparison of states.
- In the telemetry: fallback events and reasons beside the counters, the fields of a record.
- Of the capabilities: how an answer is read and its size limits, the single reads of `router/device-state.ts` and
  `router/dns-config.ts`, a `show/last-change` without a checksum (nothing is claimed then); of the snapshot, the
  validation and projection of its other sources.
- Not at all: the tools that read, server assembly. Pure formatting (projections, prompts,
  redaction) is left out for good: it has no states.

## 6. What comes next

Composition: `ActiveDiagnostics` and `WriteSafety` over a session that takes part in the same behaviour, instead of over what
`RemoteContract` promises. All safety properties and refinements that the runs check are proved.
