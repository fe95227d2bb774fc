----------------------------- MODULE WriteSafety -----------------------------
(***************************************************************************)
(* The tools that change the router, several calls at once:                *)
(* set_interface_state and restart_interface (tools/interfaces.ts),        *)
(* save_config (tools/config.ts) and raw POSTs (tools/raw.ts), with the    *)
(* backup they share (router/backup.ts) and the audit (security/audit.ts). *)
(*                                                                         *)
(* A configuration is what it says of the interfaces: checksums are equal  *)
(* exactly when configurations are.  A command that was given up may still *)
(* be carried out, and one that was answered may have been ignored.        *)
(***************************************************************************)
EXTENDS FiniteSets

CONSTANTS
  Calls,       \* calls of the tools: confirmed, no dry run, of no protected interface
  Interfaces,
  Requests,    \* what is asked for
  Null

Configs == [Interfaces -> {"up", "down"}]
Steps == {"up", "down", "save"}

AllRequests == [tool : {"set"}, target : Interfaces, goal : {"up", "down"}]
  \cup [tool : {"restart"}, target : Interfaces, goal : {"up"}]
  \cup [tool : {"save"}, target : Interfaces, goal : {"save"}]
  \cup [tool : {"raw"}, target : Interfaces, goal : Steps]

ASSUME WriteAssumption ==
  /\ Requests \subseteq AllRequests
  /\ Null \notin Configs

VARIABLES
  running,  \* router: the configuration in force
  startup,  \* router: the one a reboot returns to
  command,  \* router: what has become of the last command of each call
  backup,   \* guard: none, or where take() is, or done
  copy,     \* guard: the content of the backup file
  request,  \* what each call is asked for
  pc,       \* where it is
  step,     \* the command it sends next, or sent last
  seen,     \* the running configuration save_config compares with
  told,     \* what its caller is told
  journal,  \* audit records of each call
  since,    \* history: running configurations since its command was sent
  kept      \* history: startup configurations since then

routerVars == <<running, startup, command>>
guardVars == <<backup, copy>>
callVars == <<request, pc, step, seen, told>>
historyVars == <<since, kept>>
vars == <<routerVars, guardVars, callVars, journal, historyVars>>

Records == {"started", "succeeded", "failed", "unknown"}
Done == {"done", "unrecorded"} \* the latter: auditRecorded = false

TypeOK ==
  /\ running \in Configs /\ startup \in Configs
  /\ command \in [Calls -> {"none", "limbo", "ran", "lost"}]
  /\ backup \in {"none", "reading", "writing", "done"}
  /\ copy \in IF backup \in {"writing", "done"} THEN Configs ELSE {Null}
  /\ request \in [Calls -> Requests]
  /\ pc \in [Calls -> {"idle", "inspecting", "noting", "waiting", "sending", "posting",
                       "reading", "polling", "comparing", "succeeding", "failing",
                       "doubting", "ended"}]
  /\ step \in [Calls -> Steps]
  /\ seen \in [Calls -> Configs \cup {Null}]
  /\ told \in [Calls -> Done \cup {"none", "failed", "unknown"}]
  /\ journal \in [Calls -> SUBSET Records]
  /\ since \in [Calls -> SUBSET Configs]
  /\ kept \in [Calls -> SUBSET Configs]

FirstStep(r) == IF r.tool = "restart" THEN "down" ELSE r.goal

Init ==
  /\ running \in Configs /\ startup \in Configs
  /\ command = [c \in Calls |-> "none"]
  /\ backup = "none" /\ copy = Null
  /\ request \in [Calls -> Requests]
  /\ pc = [c \in Calls |-> "idle"]
  /\ step = [c \in Calls |-> FirstStep(request[c])]
  /\ seen = [c \in Calls |-> Null]
  /\ told = [c \in Calls |-> "none"]
  /\ journal = [c \in Calls |-> {}]
  /\ since = [c \in Calls |-> {}] /\ kept = [c \in Calls |-> {}]

-----------------------------------------------------------------------------
(***************************************************************************)
(* Steps of a call.                                                        *)
(***************************************************************************)
Step(c, place) ==
  /\ pc' = [pc EXCEPT ![c] = place]
  /\ UNCHANGED <<request, seen, told>>

GoTo(c, place) == Step(c, place) /\ UNCHANGED <<step, historyVars>>

\* No more is done: the caller is told.
End(c, what) ==
  /\ pc' = [pc EXCEPT ![c] = "ended"]
  /\ told' = [told EXCEPT ![c] = what]
  /\ seen' = [seen EXCEPT ![c] = Null]
  /\ since' = [since EXCEPT ![c] = {}] /\ kept' = [kept EXCEPT ![c] = {}]
  /\ UNCHANGED <<request, step>>

FailAlike(c) == GoTo(c, "failing") \* mutant: a raw POST that failed is a failure

\* Where an error leads: a raw POST that failed may have been carried out.
Fail(c) == GoTo(c, IF request[c].tool = "raw" THEN "doubting" ELSE "failing")

EnsureUnlatched(c) == \* mutant: whoever finds a backup in progress does not wait
  \/ backup # "none" /\ GoTo(c, "sending") /\ UNCHANGED backup
  \/ backup = "none" /\ GoTo(c, "waiting") /\ backup' = "reading"

\* BackupGuard.ensure
Ensure(c) ==
  \/ backup = "done" /\ GoTo(c, "sending") /\ UNCHANGED backup
  \/ backup \in {"reading", "writing"} /\ GoTo(c, "waiting") /\ UNCHANGED backup
  \/ backup = "none" /\ GoTo(c, "waiting") /\ backup' = "reading"

\* The call is recorded first; one that cannot be recorded is refused.
Begin(c) ==
  /\ pc[c] = "idle"
  /\ \/ /\ journal' = [journal EXCEPT ![c] = {"started"}]
        /\ \/ request[c].tool = "save" /\ GoTo(c, "noting") /\ UNCHANGED backup
           \/ request[c].tool = "raw" /\ Ensure(c)
           \/ request[c].tool \in {"set", "restart"} /\ GoTo(c, "inspecting") /\ UNCHANGED backup
     \/ End(c, "failed") /\ UNCHANGED <<journal, backup>>
  /\ UNCHANGED <<routerVars, copy>>

\* set_interface_state and restart_interface look at the interface: it cannot be
\* read, is a default gateway that must not be taken down, or may be changed.
Inspect(c) ==
  /\ pc[c] = "inspecting"
  /\ \/ Fail(c) /\ UNCHANGED backup
     \/ Ensure(c)
  /\ UNCHANGED <<routerVars, copy, journal>>

\* save_config reads last-change, outside its try block.
Note(c) ==
  /\ pc[c] = "noting"
  /\ \/ End(c, "failed") /\ UNCHANGED backup
     \/ Ensure(c)
  /\ UNCHANGED <<routerVars, copy, journal>>

\* The POST leaves.
Send(c) ==
  /\ pc[c] = "sending"
  /\ command' = [command EXCEPT ![c] = "limbo"]
  /\ since' = [since EXCEPT ![c] = IF request[c].tool = "raw" THEN {} ELSE {running}]
  /\ kept' = [kept EXCEPT ![c] = IF request[c].tool = "save" THEN {startup} ELSE {}]
  /\ Step(c, "posting")
  /\ UNCHANGED <<step, running, startup, guardVars, journal>>

\* It fails, before or after it has left.
PostFails(c) ==
  /\ pc[c] \in {"sending", "posting"}
  /\ Fail(c)
  /\ UNCHANGED <<routerVars, guardVars, journal>>

PostedTrusting(c) == \* mutant: the answer is taken for the change
  /\ pc[c] = "posting"
  /\ command[c] \in {"ran", "lost"} \/ step[c] = "save"
  /\ GoTo(c, IF step[c] = "save" THEN "polling" ELSE "succeeding")
  /\ UNCHANGED <<routerVars, guardVars, journal>>

\* It is answered; "saving" is said before it is done.
Posted(c) ==
  /\ pc[c] = "posting"
  /\ command[c] \in {"ran", "lost"} \/ step[c] = "save"
  /\ GoTo(c, IF request[c].tool = "raw" THEN "succeeding"
             ELSE IF request[c].tool = "save" THEN "polling"
             ELSE "reading")
  /\ UNCHANGED <<routerVars, guardVars, journal>>

\* The interface is read back; restart_interface then brings it up again.
ReadBack(c) ==
  /\ pc[c] = "reading"
  /\ \/ Fail(c)
     \/ /\ running[request[c].target] = step[c]
        /\ IF request[c].goal = step[c] THEN GoTo(c, "succeeding")
           ELSE /\ Step(c, "sending")
                /\ step' = [step EXCEPT ![c] = "up"]
                /\ UNCHANGED historyVars
  /\ UNCHANGED <<routerVars, guardVars, journal>>

\* waitForSaved: the last poll, and the running checksum.  How often last-change
\* was read before, and why that stopped, makes no difference.
Poll(c) ==
  /\ pc[c] = "polling"
  /\ \/ Fail(c)
     \/ /\ pc' = [pc EXCEPT ![c] = "comparing"]
        /\ seen' = [seen EXCEPT ![c] = running]
        /\ UNCHANGED <<request, step, told, historyVars>>
  /\ UNCHANGED <<routerVars, guardVars, journal>>

\* The startup checksum, if it can be read.
Compare(c) ==
  /\ pc[c] = "comparing"
  /\ \/ Fail(c)
     \/ seen[c] = startup /\ GoTo(c, "succeeding")
  /\ UNCHANGED <<routerVars, guardVars, journal>>

\* writeAuditOutcome never fails.
RecordSuccess(c) ==
  /\ pc[c] = "succeeding"
  /\ \/ End(c, "done") /\ journal' = [journal EXCEPT ![c] = @ \cup {"succeeded"}]
     \/ End(c, "unrecorded") /\ UNCHANGED journal
  /\ UNCHANGED <<routerVars, guardVars>>

RecordFailure(c) ==
  /\ pc[c] = "failing"
  /\ End(c, "failed")
  /\ journal' \in {journal, [journal EXCEPT ![c] = @ \cup {"failed"}]}
  /\ UNCHANGED <<routerVars, guardVars>>

RecordDoubt(c) ==
  /\ pc[c] = "doubting"
  /\ End(c, "unknown")
  /\ journal' \in {journal, [journal EXCEPT ![c] = @ \cup {"unknown"}]}
  /\ UNCHANGED <<routerVars, guardVars>>

-----------------------------------------------------------------------------
(***************************************************************************)
(* take(), once for all who wait for it.                                   *)
(***************************************************************************)
Waiting == {c \in Calls : pc[c] = "waiting"}

BackupRead ==
  /\ backup = "reading"
  /\ backup' = "writing" /\ copy' = startup
  /\ UNCHANGED <<routerVars, callVars, journal, historyVars>>

BackupWakesOne == \* mutant: those who joined are forgotten
  /\ backup = "writing"
  /\ backup' = "done"
  /\ \E c \in Waiting : pc' = [pc EXCEPT ![c] = "sending"]
  /\ UNCHANGED <<routerVars, copy, request, step, seen, told, journal, historyVars>>

BackupWritten ==
  /\ backup = "writing"
  /\ backup' = "done"
  /\ pc' = [c \in Calls |-> IF c \in Waiting THEN "sending" ELSE pc[c]]
  /\ UNCHANGED <<routerVars, copy, request, step, seen, told, journal, historyVars>>

Rejected(c) == \* the raw tool asks for the backup outside its try block
  IF request[c].tool = "raw" THEN "ended" ELSE "failing"

Reject == \* those who wait for the backup
  /\ pc' = [c \in Calls |-> IF c \in Waiting THEN Rejected(c) ELSE pc[c]]
  /\ told' = [c \in Calls |->
                IF c \in Waiting /\ Rejected(c) = "ended" THEN "failed" ELSE told[c]]
  /\ UNCHANGED <<routerVars, request, step, seen, journal, historyVars>>

BackupFails ==
  /\ backup \in {"reading", "writing"}
  /\ backup' = "none" /\ copy' = Null
  /\ Reject

-----------------------------------------------------------------------------
(***************************************************************************)
(* The router, and others who use it.                                      *)
(***************************************************************************)
Witness(config, saved) == \* the history of every call that has sent a command
  /\ since' = [c \in Calls |-> IF since[c] = {} THEN {} ELSE since[c] \cup {config}]
  /\ kept' = [c \in Calls |-> IF kept[c] = {} THEN {} ELSE kept[c] \cup {saved}]

Execute(c) ==
  /\ command[c] = "limbo"
  /\ command' = [command EXCEPT ![c] = "ran"]
  /\ IF step[c] = "save"
     THEN startup' = running /\ UNCHANGED running
     ELSE running' = [running EXCEPT ![request[c].target] = step[c]] /\ UNCHANGED startup
  /\ Witness(running', startup')
  /\ UNCHANGED <<guardVars, callVars, journal>>

Ignore(c) ==
  /\ command[c] = "limbo"
  /\ command' = [command EXCEPT ![c] = "lost"]
  /\ UNCHANGED <<running, startup, guardVars, callVars, journal, historyVars>>

\* Another administrator, or a reboot.
Elsewhere ==
  /\ \/ running' \in Configs \ {running} /\ UNCHANGED startup
     \/ startup' = running /\ startup' # startup /\ UNCHANGED running
  /\ Witness(running', startup')
  /\ UNCHANGED <<command, guardVars, callVars, journal>>

-----------------------------------------------------------------------------
Call(c) ==
  \/ Begin(c) \/ Inspect(c) \/ Note(c)
  \/ Send(c) \/ PostFails(c) \/ Posted(c)
  \/ ReadBack(c) \/ Poll(c) \/ Compare(c)
  \/ RecordSuccess(c) \/ RecordFailure(c) \/ RecordDoubt(c)

Guard == BackupRead \/ BackupWritten \/ BackupFails
Router == (\E c \in Calls : Execute(c) \/ Ignore(c)) \/ Elsewhere

Next == (\E c \in Calls : Call(c)) \/ Guard \/ Router

\* Every request of the session ends by its own timeout, every operation on
\* files ends, and timers fire.
Fairness ==
  /\ \A c \in Calls : WF_vars(pc[c] # "idle" /\ Call(c))
  /\ WF_vars(Guard)

Safety == Init /\ [][Next]_vars
Spec == Safety /\ Fairness
-----------------------------------------------------------------------------
(***************************************************************************)
(* Properties.                                                             *)
(***************************************************************************)

\* README.md:98, docs/SAFETY.md:57 and 74: no command is sent before the backup
\* exists and the call has been recorded.
BackupFirst ==
  \A c \in Calls : command[c] # "none" => backup = "done" /\ "started" \in journal[c]

\* Concurrent calls share one backup in progress, and one that failed does not
\* stand in the way of the next.
BackupShared == backup \in {"reading", "writing"} <=> Waiting # {}

\* The backup is what a reboot would have returned to before this server changed
\* anything, and stays so.
BackupIsOriginal ==
  /\ copy' \notin {copy, Null} => copy' = startup /\ \A c \in Calls : command[c] = "none"
  /\ backup = "done" => copy' = copy

\* The backup: taken once for all concurrent calls, before the first command, of
\* what the first command has not touched, and again if it failed.
BackupProtects == [][BackupFirst' /\ BackupShared' /\ BackupIsOriginal]_vars

\* A change is reported as applied only if the router had it after the command
\* was sent, and as saved only if what it would boot was then what it ran.
ReportedChangeWasSeen ==
  [][\A c \in Calls : told[c] = "none" /\ told'[c] \in Done =>
       CASE request[c].tool = "save" -> since[c] \cap kept[c] # {}
         [] request[c].tool = "raw" -> command[c] # "none"
         [] OTHER -> \E config \in since[c] : config[request[c].target] = request[c].goal]_vars

\* The audit and the caller are told the same, whatever could not be recorded;
\* a raw command that was sent is never reported as a plain failure.
AuditAgrees ==
  \A c \in Calls :
    /\ told[c] = "done" <=> "succeeded" \in journal[c]
    /\ "failed" \in journal[c] => told[c] = "failed"
    /\ "unknown" \in journal[c] => told[c] = "unknown"
    /\ told[c] = "failed" /\ command[c] # "none" => request[c].tool # "raw"

\* Every call that begins ends, though backups fail and the router never answers.
EveryCallEnds == \A c \in Calls : []<>(pc[c] \in {"idle", "ended"})
=============================================================================
