----------------------------- MODULE Onboarding -----------------------------
(***************************************************************************)
(* Setting up a router: the wizard's draft (src/cli/router-wizard.ts) and  *)
(* the preflight it runs (src/router/preflight.ts).                        *)
(*                                                                         *)
(* The person answers a prompt with a value, back or cancel, and may go    *)
(* round as often as they like; the DNS, the TLS endpoint and the router   *)
(* answer as they like.  Saving the draft is the module ProfileRegistry.   *)
(* Time is counted in seconds and only while TLS is tried.                 *)
(***************************************************************************)
EXTENDS Naturals

CONSTANTS Logins, Endpoints, \* bounds: what the person may type
          Passwords,         \* bound: how many passwords are generated; they are numbered
          Addresses,                    \* bound: the most addresses a name has
          Budget, AttemptTimeout, Attempts, None

ASSUME OnboardingAssumption ==
  /\ Passwords \in Nat \ {0} /\ Logins # {} /\ Endpoints # {}
  /\ Addresses \in Nat \ {0} /\ Attempts \in Nat \ {0}
  /\ Budget \in Nat \ {0} /\ AttemptTimeout \in 1..Budget
  /\ None \notin Endpoints \cup {"keychain", "file"}

VARIABLES
  step,      \* of runRouterWizard, by name; "saved" and "left" are its two ends
  draft,     \* [mode, login, endpoint, password, backend, ready]; ready is draft.preflight
  kept,      \* endpoints: the endpoint typed for each mode
  revealed, instructed, \* revealed and instructionsKey
  confirmed, \* history: what the router's account was last confirmed to be
  fallback,  \* history: the person agreed to the file fallback
  probe,     \* the preflight: [at, addresses, attempt, left]
  checks,    \* its report
  checked    \* history: what it was run for

wizardVars == <<step, draft, kept, revealed, instructed, confirmed, fallback>>
preflightVars == <<probe, checks, checked>>
onboardingVars == <<wizardVars, preflightVars>>

Modes == {"remote", "lan"}
CheckNames == {"Endpoint", "DNS resolution", "TLS", "Reachability", "Authentication", "RCI", "Backup"}
NoChecks == [c \in CheckNames |-> "none"]
Idle == [at |-> "idle", addresses |-> 0, attempt |-> 0, left |-> Budget]

OnboardingInit ==
  /\ step = "name"
  /\ draft = [mode |-> "remote", login |-> None, endpoint |-> None, password |-> 1,
              backend |-> None, ready |-> "none"]
  /\ kept = [m \in Modes |-> None]
  /\ revealed = FALSE /\ instructed = None /\ confirmed = None /\ fallback = FALSE
  /\ probe = Idle /\ checks = NoChecks /\ checked = None

\* What a profile is made of, and what the account on the router is made of.
Profile(d) == [mode |-> d.mode, login |-> d.login, endpoint |-> d.endpoint, password |-> d.password]
Account(d) == [mode |-> d.mode, login |-> d.login, password |-> d.password]

-----------------------------------------------------------------------------
(***************************************************************************)
(* The prompts.                                                            *)
(***************************************************************************)
\* The preflight is kept only by a change that changes nothing.
Edited(field, value) ==
  [draft EXCEPT ![field] = value, !.ready = IF draft[field] = value THEN @ ELSE "none"]

NameRouter ==
  /\ step = "name" /\ step' = "mode"
  /\ UNCHANGED <<draft, kept, revealed, instructed, confirmed, fallback, preflightVars>>

ChooseMode ==
  /\ step = "mode" /\ step' = "login"
  /\ \E m \in Modes :
       /\ draft' = [Edited("mode", m) EXCEPT !.endpoint = IF m = draft.mode THEN @ ELSE kept[m]]
       /\ kept' = IF m = draft.mode THEN kept ELSE [kept EXCEPT ![draft.mode] = draft.endpoint]
  /\ UNCHANGED <<revealed, instructed, confirmed, fallback, preflightVars>>

EnterLoginKeeping == \* mutant: a new login leaves the preflight
  /\ step = "login" /\ step' = "account"
  /\ \E l \in Logins : draft' = [draft EXCEPT !.login = l]
  /\ UNCHANGED <<kept, revealed, instructed, confirmed, fallback, preflightVars>>

EnterLogin ==
  /\ step = "login" /\ step' = "account"
  /\ \E l \in Logins : draft' = Edited("login", l)
  /\ UNCHANGED <<kept, revealed, instructed, confirmed, fallback, preflightVars>>

\* The instructions are shown, the password with the first of them.
Instruct == revealed' = TRUE /\ instructed' = <<draft.mode, draft.login>>

ConfirmAccount ==
  /\ step = "account" /\ Instruct
  /\ \/ step' = "endpoint" /\ confirmed' = Account(draft)
     \/ step' = "login" /\ UNCHANGED confirmed
  /\ UNCHANGED <<draft, kept, fallback, preflightVars>>

EnterEndpoint ==
  /\ step = "endpoint" /\ step' = "preflight"
  /\ \E e \in Endpoints :
       draft' = Edited("endpoint", e) /\ kept' = [kept EXCEPT ![draft.mode] = e]
  /\ UNCHANGED <<revealed, instructed, confirmed, fallback, preflightVars>>

\* Both branches of step 5: a failed preflight is forgotten, a passed one is kept by going back.
AfterPreflight ==
  /\ step = "preflight" /\ draft.ready # "none"
  /\ \/ draft.ready = "ready" /\ step' = "backend" /\ UNCHANGED draft
     \/ draft.ready = "failed" /\ step' = "preflight" /\ draft' = [draft EXCEPT !.ready = "none"]
     \/ step' = "endpoint" /\ draft' = [draft EXCEPT !.ready = IF @ = "ready" THEN @ ELSE "none"]
  /\ UNCHANGED <<kept, revealed, instructed, confirmed, fallback, preflightVars>>

Regenerate ==
  /\ step = "preflight" /\ draft.ready # "none" /\ step' = "account" /\ revealed' = FALSE
  /\ draft.password < Passwords /\ draft' = [draft EXCEPT !.password = @ + 1, !.ready = "none"]
  /\ UNCHANGED <<kept, instructed, confirmed, fallback, preflightVars>>

\* The keychain if there is one; else the person is asked.
ChooseBackend ==
  /\ step = "backend"
  /\ \/ draft.backend # None /\ step' = "review" /\ UNCHANGED <<draft, fallback>>
     \/ /\ draft.backend = None /\ step' = "review"
        /\ \/ draft' = [draft EXCEPT !.backend = "keychain"] /\ UNCHANGED fallback
           \/ draft' = [draft EXCEPT !.backend = "file"] /\ fallback' = TRUE
     \/ draft.backend = None /\ step' = "preflight" /\ UNCHANGED <<draft, fallback>>
  /\ UNCHANGED <<kept, revealed, instructed, confirmed, preflightVars>>

Review ==
  /\ step = "review"
  /\ \/ /\ step' = IF draft.ready = "ready" THEN "saved" ELSE "left"
        /\ UNCHANGED <<draft, fallback>>
     \/ IF draft.backend = "file"
        THEN step' = "backend" /\ draft' = [draft EXCEPT !.backend = None] /\ fallback' = FALSE
        ELSE step' = "preflight" /\ UNCHANGED <<draft, fallback>>
  /\ UNCHANGED <<kept, revealed, instructed, confirmed, preflightVars>>

Before(s) == CASE s = "mode" -> "name" [] s = "login" -> "mode" [] s = "endpoint" -> "account"

GoBack ==
  /\ step \in {"mode", "login", "endpoint"} /\ step' = Before(step)
  /\ UNCHANGED <<draft, kept, revealed, instructed, confirmed, fallback, preflightVars>>

Cancel ==
  /\ step \notin {"saved", "left"} /\ probe.at = "idle" /\ step' = "left"
  /\ UNCHANGED <<draft, kept, revealed, instructed, confirmed, fallback, preflightVars>>

-----------------------------------------------------------------------------
(***************************************************************************)
(* runRouterPreflight.                                                     *)
(***************************************************************************)
Report(c, ready) ==
  /\ checks' = c /\ probe' = Idle /\ checked' = checked
  /\ draft' = [draft EXCEPT !.ready = ready]
  /\ UNCHANGED <<step, kept, revealed, instructed, confirmed, fallback>>

Proceed(c, p) == checks' = c /\ probe' = p /\ UNCHANGED <<wizardVars, checked>>

\* checks with the names in N as status
Mark(c, N, status) == [n \in CheckNames |-> IF n \in N THEN status ELSE c[n]]

StartPreflight ==
  /\ step = "preflight" /\ draft.ready = "none" /\ probe.at = "idle"
  /\ checked' = Profile(draft)
  /\ IF draft.mode = "remote"
     THEN /\ checks' = Mark(NoChecks, {"Endpoint"}, "pass")
          /\ probe' = [Idle EXCEPT !.at = "dns"]
     ELSE /\ checks' = Mark(Mark(NoChecks, {"Endpoint"}, "pass"), {"DNS resolution", "TLS"}, "skipped")
          /\ probe' = [Idle EXCEPT !.at = "version"]
  /\ UNCHANGED wizardVars

ResolveDns ==
  /\ probe.at = "dns"
  /\ \/ \E n \in 1..Addresses :
          Proceed(Mark(checks, {"DNS resolution"}, "pass"),
                  [probe EXCEPT !.at = "tls", !.addresses = n, !.attempt = 1])
     \/ Report(Mark(Mark(checks, {"DNS resolution"}, "fail"),
                    {"TLS", "Reachability", "Authentication", "RCI"}, "skipped"), "failed")

TlsFails ==
  Report(Mark(Mark(checks, {"TLS"}, "fail"), {"Reachability", "Authentication", "RCI"}, "skipped"), "failed")

\* A certificate or an unknown error is final; a timeout or an interrupted connection is
\* retried, at the next address at once, after a growing pause when all have been tried.
RetryDelay(attempt) == IF attempt % probe.addresses # 0 THEN 0 ELSE 2 ^ (attempt - 1)

TryTls ==
  /\ probe.at = "tls"
  /\ \E spent \in {0, IF AttemptTimeout < probe.left THEN AttemptTimeout ELSE probe.left} :
       LET left == probe.left - spent
           delay == RetryDelay(probe.attempt)
       IN \/ /\ left > 0
             /\ Proceed(Mark(checks, {"TLS", "Reachability"}, "pass"), [probe EXCEPT !.at = "version", !.left = left])
          \/ TlsFails
          \/ /\ probe.attempt < Attempts /\ left > delay
             /\ Proceed(checks, [probe EXCEPT !.attempt = @ + 1, !.left = left - delay])

\* capabilities(): the first read that is authenticated.  The last case is any other error, of a
\* body that breaks off for one.
ReadVersion ==
  /\ probe.at = "version"
  /\ LET here(status) == IF checks["Reachability"] = "none" THEN Mark(checks, {"Reachability"}, status) ELSE checks
         reached == here("pass")
     IN \/ Proceed(Mark(checks, {"Reachability", "Authentication", "RCI"}, "pass"), [probe EXCEPT !.at = "probes"])
        \/ Report(Mark(Mark(checks, {"Reachability"}, "fail"), {"Authentication", "RCI"}, "skipped"), "failed")
        \/ Report(Mark(Mark(reached, {"Authentication"}, "fail"), {"RCI"}, "skipped"), "failed")
        \/ Report(Mark(Mark(reached, {"Authentication"}, "pass"), {"RCI"}, "fail"), "failed")
        \/ Report(Mark(Mark(here("fail"), {"Authentication"}, "skipped"), {"RCI"}, "fail"), "failed")

\* What is optional only warns; a backup is taken on the local network alone.
ReadOptional ==
  /\ probe.at = "probes"
  /\ \E b \in {"pass", "warning"} :
       Report(Mark(checks, {"Backup"}, IF draft.mode = "remote" THEN "skipped" ELSE b), "ready")

-----------------------------------------------------------------------------
Preflight == StartPreflight \/ ResolveDns \/ TryTls \/ ReadVersion \/ ReadOptional

OnboardingNext ==
  \/ NameRouter \/ ChooseMode \/ EnterLogin \/ ConfirmAccount \/ EnterEndpoint
  \/ AfterPreflight \/ Regenerate \/ ChooseBackend \/ Review \/ GoBack \/ Cancel
  \/ Preflight

OnboardingSafety == OnboardingInit /\ [][OnboardingNext]_onboardingVars

\* Every step of the preflight has a deadline.
OnboardingFairness == WF_onboardingVars(Preflight)

-----------------------------------------------------------------------------
(***************************************************************************)
(* Properties.                                                             *)
(***************************************************************************)
\* The report says ready only of who was authenticated over a verified connection, that the
\* credentials are rejected only if the router was reached, and of what was not tried neither
\* pass nor fail.
ReportIsSound ==
  /\ draft.ready = "ready" =>
       /\ \A c \in {"Endpoint", "Reachability", "Authentication", "RCI"} : checks[c] = "pass"
       /\ checked.mode = "remote" => checks["TLS"] = "pass" /\ checks["DNS resolution"] = "pass"
  /\ checks["Authentication"] = "fail" => checks["Reachability"] = "pass"
  /\ checks["TLS"] = "fail" => checks["Authentication"] = "skipped"

\* However the person went back and forth (docs/REMOTE_RCI.md:47-49), what is saved is
\* exactly what the passing preflight was run for, on an account the person confirmed with this
\* mode, login and password after they were shown; the file backend was agreed to; and the
\* report it rests on is sound.
SavedAsChecked ==
  /\ ReportIsSound
  /\ step = "saved" =>
       /\ draft.ready = "ready" /\ checked = Profile(draft) /\ confirmed = Account(draft)
       /\ revealed /\ instructed = <<draft.mode, draft.login>>
       /\ draft.backend = "file" => fallback
       /\ draft.endpoint # None

\* The preflight ends, whatever fails.
PreflightEnds == []<>(probe.at = "idle")
=============================================================================
