-------------------------- MODULE ProceduresProofs --------------------------
(***************************************************************************)
(* Proofs about the procedures that share no state: the wizard with its    *)
(* preflight, for any logins, endpoints and passwords; the journal, for    *)
(* any number of calls, requests and server processes; and the diagnoses,  *)
(* for any answers of the sources.                                         *)
(***************************************************************************)
EXTENDS Onboarding, Telemetry, Diagnosis, FiniteSetTheorems, TLAPS

-----------------------------------------------------------------------------
(***************************************************************************)
(* The wizard.  What a step relies on is what the steps before it did, and *)
(* going back is going through them again.                                 *)
(***************************************************************************)
Verdicts == {"none", "ready", "failed"}

DraftTypeOK ==
  draft \in [mode : Modes, login : Logins \cup {None}, endpoint : Endpoints \cup {None},
             password : Nat, backend : {None, "keychain", "file"}, ready : Verdicts]

ChecksTypeOK == checks \in [CheckNames -> {"none", "pass", "fail", "skipped", "warning"}]

\* Of the rest of the probe nothing depends: only the delays are computed from it.
ProbeTypeOK ==
  probe = [at |-> probe.at, addresses |-> probe.addresses, attempt |-> probe.attempt, left |-> probe.left]

KeptTypeOK == kept \in [Modes -> Endpoints \cup {None}]

\* The steps that come only after the account was confirmed, and those after the endpoint.
AfterAccount == {"endpoint", "preflight", "backend", "review", "saved"}
AfterEndpoint == AfterAccount \ {"endpoint"}

StepsInOrder ==
  /\ step \in AfterAccount =>
       /\ confirmed = Account(draft) /\ revealed /\ instructed = <<draft.mode, draft.login>>
  /\ step \in AfterEndpoint => draft.endpoint # None
  /\ step = "saved" => draft.ready = "ready"
  /\ draft.backend = "file" => fallback

\* A preflight that runs, or that has passed, is the one of this draft.
PreflightIsOfDraft ==
  /\ probe.at # "idle" => step = "preflight" /\ draft.ready = "none"
  /\ probe.at # "idle" \/ draft.ready = "ready" => checked = Profile(draft)

\* The report so far, by where the preflight stands.
ReportSoFar ==
  /\ probe.at = "dns" => draft.mode = "remote"
  /\ probe.at = "tls" => draft.mode = "remote" /\ checks["DNS resolution"] = "pass"
  /\ probe.at \in {"version", "probes"} /\ draft.mode = "remote" =>
       /\ checks["DNS resolution"] = "pass" /\ checks["TLS"] = "pass"
       /\ checks["Reachability"] = "pass"
  /\ probe.at \notin {"idle", "dns", "tls"} => checks["TLS"] # "fail"
  /\ probe.at # "idle" => checks["Endpoint"] = "pass"
  /\ probe.at \in {"dns", "tls", "version"} => checks["Authentication"] = "none"
  /\ probe.at \in {"dns", "tls"} => checks["TLS"] = "none"
  /\ probe.at = "version" => checks["Reachability"] \in {"none", "pass"}
  /\ probe.at = "probes" =>
       \A c \in {"Reachability", "Authentication", "RCI"} : checks[c] = "pass"

OnboardingInv ==
  /\ DraftTypeOK /\ ChecksTypeOK /\ KeptTypeOK /\ ProbeTypeOK
  /\ StepsInOrder /\ PreflightIsOfDraft /\ ReportSoFar /\ ReportIsSound

LEMMA OnboardingInitially == OnboardingInit => OnboardingInv
<1> SUFFICES ASSUME OnboardingInit PROVE OnboardingInv
  OBVIOUS
<1> USE OnboardingAssumption DEF OnboardingInit
<1>1. DraftTypeOK /\ ChecksTypeOK /\ KeptTypeOK /\ ProbeTypeOK
  BY DEF DraftTypeOK, ChecksTypeOK, KeptTypeOK, ProbeTypeOK, Idle, Verdicts, Modes, NoChecks
<1>2. StepsInOrder
  BY DEF StepsInOrder, AfterAccount, AfterEndpoint
<1>3. PreflightIsOfDraft /\ ReportSoFar /\ ReportIsSound
  BY DEF PreflightIsOfDraft, ReportSoFar, ReportIsSound, Idle, NoChecks, CheckNames
<1> QED BY <1>1, <1>2, <1>3 DEF OnboardingInv

\* The draft is edited by the person, with the preflight not running and the report untouched.
LEMMA PromptKeepsReport ==
  ASSUME OnboardingInv, UNCHANGED preflightVars, probe.at = "idle",
         draft'.ready = "ready" => draft.ready = "ready" /\ Profile(draft') = Profile(draft)
  PROVE  ChecksTypeOK' /\ ProbeTypeOK' /\ PreflightIsOfDraft' /\ ReportSoFar' /\ ReportIsSound'
<1>1. probe' = probe /\ checks' = checks /\ checked' = checked
  BY DEF preflightVars
<1>2. ChecksTypeOK' /\ ProbeTypeOK' BY <1>1 DEF OnboardingInv, ChecksTypeOK, ProbeTypeOK
<1>3. PreflightIsOfDraft' BY <1>1 DEF OnboardingInv, PreflightIsOfDraft, Profile
<1>4. ReportSoFar' BY <1>1 DEF OnboardingInv, ReportSoFar
<1>5. ReportIsSound' BY <1>1 DEF OnboardingInv, ReportIsSound
<1> QED BY <1>2, <1>3, <1>4, <1>5

LEMMA EditedDraft ==
  ASSUME DraftTypeOK, NEW value
  PROVE  /\ Edited("mode", value) =
              [draft EXCEPT !.mode = value, !.ready = IF draft.mode = value THEN @ ELSE "none"]
         /\ Edited("login", value) =
              [draft EXCEPT !.login = value, !.ready = IF draft.login = value THEN @ ELSE "none"]
         /\ Edited("endpoint", value) =
              [draft EXCEPT !.endpoint = value, !.ready = IF draft.endpoint = value THEN @ ELSE "none"]
         /\ draft.mode = value => Edited("mode", value) = draft
  BY DEF Edited, DraftTypeOK

LEMMA PromptKeepsOnboarding ==
  ASSUME OnboardingInv,
         NameRouter \/ ChooseMode \/ EnterLogin \/ ConfirmAccount \/ EnterEndpoint
         \/ AfterPreflight \/ Regenerate \/ ChooseBackend \/ Review \/ GoBack \/ Cancel
  PROVE  OnboardingInv'
<1> USE OnboardingAssumption
<1>1. probe.at = "idle" /\ UNCHANGED preflightVars
  BY DEF OnboardingInv, PreflightIsOfDraft, NameRouter, ChooseMode, EnterLogin, ConfirmAccount,
         EnterEndpoint, AfterPreflight, Regenerate, ChooseBackend, Review, GoBack, Cancel
<1>2. DraftTypeOK' /\ KeptTypeOK'
      /\ (draft'.ready = "ready" => draft.ready = "ready" /\ Profile(draft') = Profile(draft))
  <2> USE DEF OnboardingInv, DraftTypeOK, KeptTypeOK, Profile, Verdicts
  <2>1. CASE NameRouter \/ ConfirmAccount \/ GoBack \/ Cancel
    BY <2>1 DEF NameRouter, ConfirmAccount, GoBack, Cancel
  <2>2. CASE ChooseMode
    <3>1. PICK m \in Modes :
            /\ draft' = [Edited("mode", m) EXCEPT !.endpoint = IF m = draft.mode THEN @ ELSE kept[m]]
            /\ kept' = IF m = draft.mode THEN kept ELSE [kept EXCEPT ![draft.mode] = draft.endpoint]
      BY <2>2 DEF ChooseMode
    <3>2. CASE m = draft.mode
      <4>1. Edited("mode", m) = draft
        BY <3>2, EditedDraft
      <4>2. draft' = [draft EXCEPT !.endpoint = draft.endpoint] /\ kept' = kept
        BY <3>1, <3>2, <4>1
      <4>3. draft' = draft
        BY <4>2
      <4> QED BY <4>2, <4>3
    <3>3. CASE m # draft.mode
      <4>1. draft' = [draft EXCEPT !.mode = m, !.ready = "none", !.endpoint = kept[m]]
        BY <3>1, <3>3, EditedDraft
      <4>2. kept[m] \in Endpoints \cup {None} BY <3>1
      <4>3. DraftTypeOK' BY <4>1, <4>2
      <4>4. KeptTypeOK' BY <3>1, <3>3
      <4> QED BY <4>1, <4>3, <4>4
    <3> QED BY <3>2, <3>3
  <2>3. CASE EnterLogin
    <3>1. PICK l \in Logins : draft' = Edited("login", l)
      BY <2>3 DEF EnterLogin
    <3>2. draft' = [draft EXCEPT !.login = l, !.ready = IF draft.login = l THEN @ ELSE "none"]
      BY <3>1, EditedDraft
    <3>3. DraftTypeOK' BY <3>2
    <3>4. kept' = kept BY <2>3 DEF EnterLogin
    <3>5. draft'.ready = "ready" => draft.ready = "ready" /\ l = draft.login BY <3>2
    <3>6. l = draft.login => draft' = draft BY <3>2
    <3> QED BY <3>3, <3>4, <3>5, <3>6
  <2>4. CASE EnterEndpoint
    <3>1. PICK e \in Endpoints :
            draft' = Edited("endpoint", e) /\ kept' = [kept EXCEPT ![draft.mode] = e]
      BY <2>4 DEF EnterEndpoint
    <3>2. draft' = [draft EXCEPT !.endpoint = e, !.ready = IF draft.endpoint = e THEN @ ELSE "none"]
      BY <3>1, EditedDraft
    <3>3. DraftTypeOK' BY <3>2
    <3>4. KeptTypeOK' BY <3>1
    <3>5. draft'.ready = "ready" => draft.ready = "ready" /\ e = draft.endpoint BY <3>2
    <3>6. e = draft.endpoint => draft' = draft BY <3>2
    <3> QED BY <3>3, <3>4, <3>5, <3>6
  <2>5. CASE AfterPreflight
    BY <2>5 DEF AfterPreflight
  <2>6. CASE Regenerate
    <3>1. /\ draft' = [draft EXCEPT !.password = draft.password + 1, !.ready = "none"]
          /\ kept' = kept
      BY <2>6 DEF Regenerate
    <3>2. draft.password + 1 \in Nat
      OBVIOUS
    <3> QED BY <3>1, <3>2
  <2>7. CASE ChooseBackend
    BY <2>7 DEF ChooseBackend
  <2>8. CASE Review
    BY <2>8 DEF Review
  <2> QED BY <2>1, <2>2, <2>3, <2>4, <2>5, <2>6, <2>7, <2>8
<1>3. StepsInOrder'
  <2> USE DEF OnboardingInv, DraftTypeOK, StepsInOrder, AfterAccount, AfterEndpoint, Account
  <2>1. CASE NameRouter \/ GoBack \/ Cancel
    BY <2>1 DEF NameRouter, GoBack, Before, Cancel
  <2>2. CASE ChooseMode
    BY <2>2 DEF ChooseMode, Edited, Modes
  <2>3. CASE EnterLogin
    BY <2>3 DEF EnterLogin, Edited
  <2>4. CASE EnterEndpoint
    <3>1. PICK e \in Endpoints : draft' = Edited("endpoint", e)
      BY <2>4 DEF EnterEndpoint
    <3>2. draft' = [draft EXCEPT !.endpoint = e, !.ready = IF draft.endpoint = e THEN @ ELSE "none"]
      BY <3>1, EditedDraft
    <3>3. /\ draft'.mode = draft.mode /\ draft'.login = draft.login /\ draft'.password = draft.password
          /\ draft'.backend = draft.backend /\ draft'.endpoint = e
      BY <3>2
    <3> QED BY <2>4, <3>1, <3>3 DEF EnterEndpoint
  <2>5. CASE AfterPreflight
    BY <2>5 DEF AfterPreflight
  <2>6. CASE Regenerate
    BY <2>6 DEF Regenerate
  <2>7. CASE ChooseBackend
    BY <2>7 DEF ChooseBackend
  <2>8. CASE Review
    BY <2>8 DEF Review
  <2>9. CASE ConfirmAccount
    BY <2>9 DEF ConfirmAccount, Instruct
  <2> QED BY <2>1, <2>2, <2>3, <2>4, <2>5, <2>6, <2>7, <2>8, <2>9
<1>4. ChecksTypeOK' /\ ProbeTypeOK' /\ PreflightIsOfDraft' /\ ReportSoFar' /\ ReportIsSound'
  BY <1>1, <1>2, PromptKeepsReport
<1> QED BY <1>2, <1>3, <1>4 DEF OnboardingInv

\* The preflight writes its report; of the draft only the verdict.
LEMMA PreflightKeepsOnboarding ==
  ASSUME OnboardingInv, Preflight
  PROVE  OnboardingInv'
<1> USE OnboardingAssumption
<1>1. /\ step = "preflight" /\ draft.ready = "none"
      /\ draft' \in {draft, [draft EXCEPT !.ready = "ready"], [draft EXCEPT !.ready = "failed"]}
      /\ UNCHANGED <<step, kept, revealed, instructed, confirmed, fallback>>
  <2> USE DEF OnboardingInv, PreflightIsOfDraft, wizardVars, Proceed, Report
  <2>1. CASE StartPreflight BY <2>1 DEF StartPreflight
  <2>2. CASE ResolveDns BY <2>2 DEF ResolveDns
  <2>3. CASE TryTls BY <2>3 DEF TryTls, TlsFails
  <2>4. CASE ReadVersion BY <2>4 DEF ReadVersion
  <2>5. CASE ReadOptional BY <2>5 DEF ReadOptional
  <2> QED BY <2>1, <2>2, <2>3, <2>4, <2>5 DEF Preflight
<1>2. DraftTypeOK' /\ KeptTypeOK' /\ StepsInOrder'
  <2>1. DraftTypeOK' /\ KeptTypeOK'
    BY <1>1 DEF OnboardingInv, DraftTypeOK, KeptTypeOK, Verdicts
  <2>2. /\ Account(draft') = Account(draft) /\ draft'.mode = draft.mode /\ draft'.login = draft.login
        /\ draft'.endpoint = draft.endpoint /\ draft'.backend = draft.backend
    BY <1>1 DEF OnboardingInv, DraftTypeOK, Account
  <2>3. StepsInOrder'
    BY <1>1, <2>2 DEF OnboardingInv, StepsInOrder, AfterAccount, AfterEndpoint
  <2> QED BY <2>1, <2>3
<1>3. Profile(draft') = Profile(draft)
  BY <1>1 DEF Profile, OnboardingInv, DraftTypeOK
<1>4. PreflightIsOfDraft'
  <2> USE <1>1, <1>3 DEF OnboardingInv, PreflightIsOfDraft, wizardVars, Proceed, Report, Idle
  <2>1. CASE StartPreflight BY <2>1 DEF StartPreflight, DraftTypeOK
  <2>2. CASE ResolveDns
    <3>1. CASE \E n \in 1..Addresses :
                 Proceed(Mark(checks, {"DNS resolution"}, "pass"),
                         [probe EXCEPT !.at = "tls", !.addresses = n, !.attempt = 1])
      BY <2>2, <3>1 DEF ResolveDns
    <3>2. CASE Report(Mark(Mark(checks, {"DNS resolution"}, "fail"),
                           {"TLS", "Reachability", "Authentication", "RCI"}, "skipped"), "failed")
      BY <2>2, <3>2 DEF ResolveDns, DraftTypeOK
    <3> QED BY <2>2, <3>1, <3>2 DEF ResolveDns
  <2>3. CASE TryTls BY <2>3 DEF TryTls, TlsFails, DraftTypeOK
  <2>4. CASE ReadVersion BY <2>4 DEF ReadVersion, DraftTypeOK
  <2>5. CASE ReadOptional BY <2>5 DEF ReadOptional, DraftTypeOK
  <2> QED BY <2>1, <2>2, <2>3, <2>4, <2>5 DEF Preflight
<1>5. ChecksTypeOK'
  <2> USE DEF OnboardingInv, ChecksTypeOK, Mark, Proceed, Report, NoChecks
  <2>1. CASE StartPreflight BY <2>1 DEF StartPreflight
  <2>2. CASE ResolveDns BY <2>2 DEF ResolveDns
  <2>3. CASE TryTls BY <2>3 DEF TryTls, TlsFails
  <2>4. CASE ReadVersion BY <2>4 DEF ReadVersion
  <2>5. CASE ReadOptional BY <2>5 DEF ReadOptional
  <2> QED BY <2>1, <2>2, <2>3, <2>4, <2>5 DEF Preflight
<1>6. ProbeTypeOK'
  <2> USE DEF OnboardingInv, ProbeTypeOK, Idle, Proceed, Report
  <2>1. CASE StartPreflight BY <2>1 DEF StartPreflight
  <2>2. CASE ResolveDns BY <2>2 DEF ResolveDns
  <2>3. CASE TryTls
    <3>1. (\E n, l : probe' = [probe EXCEPT !.attempt = n, !.left = l])
          \/ (\E l : probe' = [probe EXCEPT !.at = "version", !.left = l]) \/ probe' = Idle
      BY <2>3 DEF TryTls, TlsFails
    <3> QED BY <3>1
  <2>4. CASE ReadVersion BY <2>4 DEF ReadVersion
  <2>5. CASE ReadOptional BY <2>5 DEF ReadOptional
  <2> QED BY <2>1, <2>2, <2>3, <2>4, <2>5 DEF Preflight
<1>7. ReportSoFar' /\ ReportIsSound'
  <2>1. /\ draft'.mode = draft.mode
        /\ checked' = Profile(draft) => checked'.mode = draft.mode
    BY <1>1 DEF OnboardingInv, DraftTypeOK, ProbeTypeOK, Profile
  <2> USE DEF CheckNames
  <2>2. CASE StartPreflight
    <3>1. /\ draft' = draft
          /\ draft.mode # "remote" => probe'.at = "version"
                                      /\ checks' = Mark(Mark(NoChecks, {"Endpoint"}, "pass"), {"DNS resolution", "TLS"}, "skipped")
          /\ draft.mode = "remote" => probe'.at = "dns" /\ checks' = Mark(NoChecks, {"Endpoint"}, "pass")
      BY <2>2 DEF StartPreflight, wizardVars, Idle
    <3>2. /\ checks'["Endpoint"] = "pass" /\ checks'["Authentication"] = "none"
          /\ checks'["Reachability"] = "none" /\ checks'["TLS"] \in {"none", "skipped"}
          /\ draft.mode = "remote" => checks'["TLS"] = "none"
      BY <3>1 DEF Mark, NoChecks
    <3> QED BY <1>1, <2>1, <3>1, <3>2 DEF ReportSoFar, ReportIsSound
  <2> HIDE DEF CheckNames
  <2>3. CASE ResolveDns
    <3>1. CASE \E n \in 1..Addresses :
                 Proceed(Mark(checks, {"DNS resolution"}, "pass"),
                         [probe EXCEPT !.at = "tls", !.addresses = n, !.attempt = 1])
      <4>1. draft' = draft /\ checks' = Mark(checks, {"DNS resolution"}, "pass")
        BY <3>1 DEF Proceed, wizardVars
      <4>2. probe'.at = "tls"
        BY <3>1 DEF Proceed, OnboardingInv, ProbeTypeOK
      <4>3. /\ checks'["DNS resolution"] = "pass" /\ checks'["Endpoint"] = checks["Endpoint"]
            /\ checks'["Authentication"] = checks["Authentication"] /\ checks'["TLS"] = checks["TLS"]
        BY <4>1 DEF Mark, CheckNames
      <4> QED BY <1>1, <2>3, <4>1, <4>2, <4>3 DEF ResolveDns, OnboardingInv, ReportSoFar, ReportIsSound
    <3>2. CASE Report(Mark(Mark(checks, {"DNS resolution"}, "fail"),
                           {"TLS", "Reachability", "Authentication", "RCI"}, "skipped"), "failed")
      <4>1. checks'["TLS"] = "skipped" /\ checks'["Authentication"] = "skipped"
        BY <3>2 DEF Report, Mark, CheckNames
      <4>2. probe'.at = "idle" /\ draft'.ready = "failed"
        BY <3>2 DEF Report, Idle, OnboardingInv, DraftTypeOK
      <4> QED BY <4>1, <4>2 DEF ReportSoFar, ReportIsSound
    <3> QED BY <2>3, <3>1, <3>2 DEF ResolveDns
  <2>4. CASE TryTls
    <3>1. CASE \E l : Proceed(Mark(checks, {"TLS", "Reachability"}, "pass"),
                              [probe EXCEPT !.at = "version", !.left = l])
      <4>1. draft' = draft /\ checks' = Mark(checks, {"TLS", "Reachability"}, "pass")
        BY <3>1 DEF Proceed, wizardVars
      <4>2. probe'.at = "version"
        BY <3>1 DEF Proceed, OnboardingInv, ProbeTypeOK
      <4>3. /\ checks'["TLS"] = "pass" /\ checks'["Reachability"] = "pass"
            /\ checks'["Endpoint"] = checks["Endpoint"]
            /\ checks'["DNS resolution"] = checks["DNS resolution"]
            /\ checks'["Authentication"] = checks["Authentication"]
        BY <4>1 DEF Mark, CheckNames
      <4> QED BY <1>1, <2>4, <4>1, <4>2, <4>3 DEF TryTls, OnboardingInv, ReportSoFar, ReportIsSound
    <3>2. CASE TlsFails
      <4>1. checks'["TLS"] = "fail" /\ checks'["Authentication"] = "skipped"
        BY <3>2 DEF TlsFails, Report, Mark, CheckNames
      <4>2. probe'.at = "idle" /\ draft'.ready = "failed"
        BY <3>2 DEF TlsFails, Report, Idle, OnboardingInv, DraftTypeOK
      <4> QED BY <4>1, <4>2 DEF ReportSoFar, ReportIsSound
    <3>3. CASE \E n, l : Proceed(checks, [probe EXCEPT !.attempt = n, !.left = l])
      <4>1. draft' = draft /\ checks' = checks /\ checked' = checked
        BY <3>3 DEF Proceed, wizardVars
      <4>2. probe'.at = probe.at
        BY <3>3 DEF Proceed, OnboardingInv, ProbeTypeOK
      <4> QED BY <4>1, <4>2 DEF OnboardingInv, ReportSoFar, ReportIsSound
    <3> QED BY <2>4, <3>1, <3>2, <3>3 DEF TryTls
  <2>5. CASE ReadVersion
    <3> DEFINE here(status) ==
                 IF checks["Reachability"] = "none" THEN Mark(checks, {"Reachability"}, status) ELSE checks
               reached == here("pass")
               other == here("fail")
    <3>1. /\ reached["Reachability"] = "pass"
          /\ reached["TLS"] = checks["TLS"] /\ checks["TLS"] # "fail"
      BY <1>1, <2>5 DEF ReadVersion, OnboardingInv, ReportSoFar, Mark, CheckNames
    <3>2. CASE Proceed(Mark(checks, {"Reachability", "Authentication", "RCI"}, "pass"),
                       [probe EXCEPT !.at = "probes"])
      <4>1. draft' = draft /\ checks' = Mark(checks, {"Reachability", "Authentication", "RCI"}, "pass")
        BY <3>2 DEF Proceed, wizardVars
      <4>2. probe'.at = "probes"
        BY <3>2 DEF Proceed, OnboardingInv, ProbeTypeOK
      <4>3. /\ \A n \in {"Reachability", "Authentication", "RCI"} : checks'[n] = "pass"
            /\ \A n \in {"Endpoint", "DNS resolution", "TLS"} : checks'[n] = checks[n]
        BY <4>1 DEF Mark, CheckNames
      <4> QED BY <1>1, <2>5, <3>1, <4>1, <4>2, <4>3 DEF ReadVersion, OnboardingInv, ReportSoFar, ReportIsSound
    <3>3. CASE Report(Mark(Mark(checks, {"Reachability"}, "fail"), {"Authentication", "RCI"}, "skipped"), "failed")
      <4>1. checks'["TLS"] = checks["TLS"] /\ checks'["Authentication"] = "skipped"
        BY <3>3 DEF Report, Mark, CheckNames
      <4>2. probe'.at = "idle" /\ draft'.ready = "failed"
        BY <3>3 DEF Report, Idle, OnboardingInv, DraftTypeOK
      <4> QED BY <3>1, <4>1, <4>2 DEF ReportSoFar, ReportIsSound
    <3>5. CASE Report(Mark(Mark(other, {"Authentication"}, "skipped"), {"RCI"}, "fail"), "failed")
      <4>1. checks'["TLS"] = checks["TLS"] /\ checks'["Authentication"] = "skipped"
        BY <3>5 DEF Report, Mark, CheckNames
      <4>2. probe'.at = "idle" /\ draft'.ready = "failed"
        BY <3>5 DEF Report, Idle, OnboardingInv, DraftTypeOK
      <4> QED BY <3>1, <4>1, <4>2 DEF ReportSoFar, ReportIsSound
    <3> HIDE DEF reached, other
    <3>4. CASE \/ Report(Mark(Mark(reached, {"Authentication"}, "fail"), {"RCI"}, "skipped"), "failed")
               \/ Report(Mark(Mark(reached, {"Authentication"}, "pass"), {"RCI"}, "fail"), "failed")
      <4>1. checks'["TLS"] = reached["TLS"] /\ checks'["Reachability"] = reached["Reachability"]
        BY <3>4 DEF Report, Mark, CheckNames
      <4>2. probe'.at = "idle" /\ draft'.ready = "failed"
        BY <3>4 DEF Report, Idle, OnboardingInv, DraftTypeOK
      <4> QED BY <3>1, <4>1, <4>2 DEF ReportSoFar, ReportIsSound
    <3> QED BY <2>5, <3>2, <3>3, <3>4, <3>5 DEF ReadVersion, reached, other
  <2>6. CASE ReadOptional
    <3>1. PICK b \in {"pass", "warning", "skipped"} : checks' = Mark(checks, {"Backup"}, b)
      BY <2>6 DEF ReadOptional, Report
    <3>2. probe'.at = "idle" /\ checked' = checked
      BY <2>6 DEF ReadOptional, Report, Idle
    <3>3. /\ checks'["Endpoint"] = "pass" /\ checks'["Reachability"] = "pass"
          /\ checks'["Authentication"] = "pass" /\ checks'["RCI"] = "pass"
          /\ checks'["TLS"] = checks["TLS"] /\ checks'["DNS resolution"] = checks["DNS resolution"]
      BY <2>6, <3>1 DEF ReadOptional, OnboardingInv, ReportSoFar, Mark, CheckNames
    <3>4. checks["TLS"] # "fail"
      BY <2>6 DEF ReadOptional, OnboardingInv, ReportSoFar
    <3>5. checked.mode = draft.mode
      BY <2>6 DEF ReadOptional, OnboardingInv, PreflightIsOfDraft, Profile
    <3>6. draft.mode = "remote" => checks["TLS"] = "pass" /\ checks["DNS resolution"] = "pass"
      BY <2>6 DEF ReadOptional, OnboardingInv, ReportSoFar
    <3>7. ReportSoFar' BY <3>2 DEF ReportSoFar
    <3>8. ReportIsSound' BY <3>2, <3>3, <3>5, <3>6, <3>4 DEF ReportIsSound
    <3> QED BY <3>7, <3>8
  <2> QED BY <2>2, <2>3, <2>4, <2>5, <2>6 DEF Preflight
<1> QED BY <1>6, <1>2, <1>4, <1>5, <1>7 DEF OnboardingInv

LEMMA OnboardingStep == OnboardingInv /\ [OnboardingNext]_onboardingVars => OnboardingInv'
<1> SUFFICES ASSUME OnboardingInv, [OnboardingNext]_onboardingVars PROVE OnboardingInv'
  OBVIOUS
<1>1. CASE OnboardingNext
  BY <1>1, PromptKeepsOnboarding, PreflightKeepsOnboarding DEF OnboardingNext
<1>2. CASE UNCHANGED onboardingVars
  <2>1. UNCHANGED <<step, draft, kept, revealed, instructed, confirmed, fallback, probe, checks, checked>>
    BY <1>2 DEF onboardingVars, wizardVars, preflightVars
  <2>2. DraftTypeOK' /\ ChecksTypeOK' /\ KeptTypeOK' /\ ProbeTypeOK' /\ StepsInOrder'
    BY <2>1 DEF OnboardingInv, DraftTypeOK, ChecksTypeOK, KeptTypeOK, ProbeTypeOK, StepsInOrder, Account
  <2>3. PreflightIsOfDraft' /\ ReportSoFar' /\ ReportIsSound'
    BY <2>1 DEF OnboardingInv, PreflightIsOfDraft, ReportSoFar, ReportIsSound, Profile
  <2> QED BY <2>2, <2>3 DEF OnboardingInv
<1> QED BY <1>1, <1>2

\* What the wizard saves (runRouterWizard, src/cli/router-wizard.ts) is what its preflight
\* passed, on the account that was confirmed, however often the person went back.
THEOREM WizardSavesWhatPassed == OnboardingSafety => []SavedAsChecked
<1>1. OnboardingInv => SavedAsChecked
  BY DEF OnboardingInv, SavedAsChecked, StepsInOrder, PreflightIsOfDraft, AfterAccount, AfterEndpoint
<1> QED BY <1>1, OnboardingInitially, OnboardingStep, PTL DEF OnboardingSafety

-----------------------------------------------------------------------------
(***************************************************************************)
(* The journal: what a call counts.  A lease is a request or a login that  *)
(* is under way, and a record is made when there is none.                  *)
(***************************************************************************)
HandlerType == [at : {"none", "running", "returned"}, server : Servers \cup {NoServer}]
OperationType == [request : {"none", "open", "denied", "left"}, flight : {"none", "open", "ended"},
                  terminal : BOOLEAN, tries : Nat]
CollectorType == [sealed : BOOLEAN, leases : Nat, requests : Nat, attempts : Nat,
                  terminals : Nat, delayed : BOOLEAN]
RecordType == [late : BOOLEAN, requests : Nat, attempts : Nat, terminals : Nat, made : BOOLEAN]
Fates == {"none", "queued", "dropped", "busy", "refused", "written", "failed", "torn"}

Begun(o) == {r \in Requests : o[r].request # "none"}
Terminated(o) == {r \in Requests : o[r].terminal}
Denied(o) == {r \in Requests : o[r].request = "denied"}
OpenRequests(o) == {r \in Requests : o[r].request = "open"}
OpenFlights(o) == {r \in Requests : o[r].flight = "open"}

\* The operations o of a call are counted in its collector k.
Counted(o, k) ==
  /\ k.requests = Cardinality(Begun(o))
  /\ k.terminals = Cardinality(Terminated(o))
  /\ k.leases = Cardinality(OpenRequests(o)) + Cardinality(OpenFlights(o))

OperationsOK(o) ==
  /\ o \in [Requests -> OperationType]
  /\ \A r \in Requests :
       /\ o[r].request = "none" => o[r].flight = "none" /\ ~o[r].terminal
       /\ o[r].request = "denied" => o[r].flight = "none" /\ ~o[r].terminal
       /\ o[r].request = "left" => o[r].terminal

Recorded(k, rec) ==
  /\ k.leases = 0
  /\ rec = [late |-> rec.late, made |-> TRUE, requests |-> k.requests,
             attempts |-> k.attempts, terminals |-> k.terminals]

\* A call with handler h, operations o, collector k, record rec and fate f.
CallOK(h, o, k, rec, f) ==
  /\ h \in HandlerType /\ OperationsOK(o) /\ k \in CollectorType /\ Counted(o, k)
  /\ rec \in RecordType /\ f \in Fates
  /\ h.at # "returned" => ~rec.made /\ ~k.delayed
  /\ h.at = "none" => Begun(o) = {}
  /\ k.delayed => ~rec.made
  /\ rec.made => Recorded(k, rec)
  /\ f = "none" <=> ~rec.made

Bit(b) == IF b THEN 1 ELSE 0

LEMMA OneChanged ==
  ASSUME NEW S, NEW T, NEW x, IsFiniteSet(S), IsFiniteSet(T), S \ {x} = T \ {x}
  PROVE  Cardinality(T) = Cardinality(S) + Bit(x \in T) - Bit(x \in S)
<1>1. Cardinality(S) \in Nat /\ Cardinality(T) \in Nat
  BY FS_CardinalityType
<1>2. Cardinality(S \ {x}) = Cardinality(S) - Bit(x \in S)
  BY <1>1, FS_RemoveElement DEF Bit
<1>3. Cardinality(T \ {x}) = Cardinality(T) - Bit(x \in T)
  BY <1>1, FS_RemoveElement DEF Bit
<1> QED BY <1>1, <1>2, <1>3 DEF Bit

LEMMA OperationsAreFinite ==
  ASSUME NEW o
  PROVE  /\ IsFiniteSet(Begun(o)) /\ IsFiniteSet(Terminated(o))
         /\ IsFiniteSet(OpenRequests(o)) /\ IsFiniteSet(OpenFlights(o))
<1>1. /\ Begun(o) \subseteq Requests /\ Terminated(o) \subseteq Requests
      /\ OpenRequests(o) \subseteq Requests /\ OpenFlights(o) \subseteq Requests
  BY DEF Begun, Terminated, OpenRequests, OpenFlights
<1> QED BY <1>1, FS_Subset, TelemetryAssumption

\* Request r went on, and nothing else of the call.
ChangedAt(o, p, r) ==
  /\ p \in [Requests -> OperationType]
  /\ \A x \in Requests \ {r} : p[x] = o[x]

LEMMA CountsChanged ==
  ASSUME NEW o \in [Requests -> OperationType], NEW p, NEW r \in Requests, ChangedAt(o, p, r)
  PROVE  /\ Cardinality(Begun(p)) = Cardinality(Begun(o))
              + Bit(p[r].request # "none") - Bit(o[r].request # "none")
         /\ Cardinality(Terminated(p)) = Cardinality(Terminated(o))
              + Bit(p[r].terminal) - Bit(o[r].terminal)
         /\ Cardinality(OpenRequests(p)) = Cardinality(OpenRequests(o))
              + Bit(p[r].request = "open") - Bit(o[r].request = "open")
         /\ Cardinality(OpenFlights(p)) = Cardinality(OpenFlights(o))
              + Bit(p[r].flight = "open") - Bit(o[r].flight = "open")
<1>1. /\ Begun(o) \ {r} = Begun(p) \ {r} /\ Terminated(o) \ {r} = Terminated(p) \ {r}
      /\ OpenRequests(o) \ {r} = OpenRequests(p) \ {r}
      /\ OpenFlights(o) \ {r} = OpenFlights(p) \ {r}
  BY DEF ChangedAt, Begun, Terminated, OpenRequests, OpenFlights
<1>2. \A x \in {o, p} :
        /\ r \in Begun(x) <=> x[r].request # "none"
        /\ r \in Terminated(x) <=> x[r].terminal
        /\ r \in OpenRequests(x) <=> x[r].request = "open"
        /\ r \in OpenFlights(x) <=> x[r].flight = "open"
  BY DEF Begun, Terminated, OpenRequests, OpenFlights
<1>3. Cardinality(Begun(p)) = Cardinality(Begun(o)) + Bit(r \in Begun(p)) - Bit(r \in Begun(o))
  BY <1>1, OperationsAreFinite, OneChanged
<1>4. Cardinality(Terminated(p)) = Cardinality(Terminated(o))
        + Bit(r \in Terminated(p)) - Bit(r \in Terminated(o))
  BY <1>1, OperationsAreFinite, OneChanged
<1>5. Cardinality(OpenRequests(p)) = Cardinality(OpenRequests(o))
        + Bit(r \in OpenRequests(p)) - Bit(r \in OpenRequests(o))
  BY <1>1, OperationsAreFinite, OneChanged
<1>6. Cardinality(OpenFlights(p)) = Cardinality(OpenFlights(o))
        + Bit(r \in OpenFlights(p)) - Bit(r \in OpenFlights(o))
  BY <1>1, OperationsAreFinite, OneChanged
<1> QED BY <1>2, <1>3, <1>4, <1>5, <1>6 DEF Bit

LEMMA CountsAreNumbers ==
  ASSUME NEW o
  PROVE  /\ Cardinality(Begun(o)) \in Nat /\ Cardinality(Terminated(o)) \in Nat
         /\ Cardinality(OpenRequests(o)) \in Nat /\ Cardinality(OpenFlights(o)) \in Nat
  BY OperationsAreFinite, FS_CardinalityType

\* Without a lease every request that was begun has ended, or was denied.
LEMMA NoLeaseAllEnded ==
  ASSUME NEW o, NEW k, OperationsOK(o), Counted(o, k), k.leases = 0
  PROVE  /\ OpenRequests(o) = {} /\ OpenFlights(o) = {}
         /\ k.requests = k.terminals + Cardinality(Denied(o))
<1>1. Cardinality(OpenRequests(o)) = 0 /\ Cardinality(OpenFlights(o)) = 0
  BY CountsAreNumbers DEF Counted
<1>2. OpenRequests(o) = {} /\ OpenFlights(o) = {}
  BY <1>1, OperationsAreFinite, FS_EmptySet
<1>3. Begun(o) = Terminated(o) \cup Denied(o) /\ Terminated(o) \cap Denied(o) = {}
  BY <1>2 DEF OperationsOK, OperationType, Begun, Terminated, Denied, OpenRequests
<1>4. IsFiniteSet(Terminated(o)) /\ IsFiniteSet(Denied(o))
  <2>1. Denied(o) \subseteq Begun(o)
    BY <1>3
  <2> QED BY <2>1, OperationsAreFinite, FS_Subset
<1>5. Cardinality(Begun(o)) = Cardinality(Terminated(o)) + Cardinality(Denied(o))
  <2>1. Cardinality(Begun(o)) = Cardinality(Terminated(o)) + Cardinality(Denied(o))
                                  - Cardinality(Terminated(o) \cap Denied(o))
    BY <1>3, <1>4, FS_Union
  <2>2. Cardinality(Terminated(o) \cap Denied(o)) = 0
    BY <1>3, FS_EmptySet
  <2>3. Cardinality(Terminated(o)) \in Nat /\ Cardinality(Denied(o)) \in Nat
    BY <1>4, FS_CardinalityType
  <2> QED BY <2>1, <2>2, <2>3
<1> QED BY <1>2, <1>5 DEF Counted

\* beginOperation: the request, and the login it may start, are counted.
LEMMA BegunIsCounted ==
  ASSUME NEW h, NEW o, NEW k, NEW rec, NEW f, NEW p, NEW m, NEW r \in Requests,
         NEW flight \in {"none", "open"},
         CallOK(h, o, k, rec, f), h.at = "running", o[r].request = "none", ChangedAt(o, p, r),
         p[r] = Opened(flight), m = [k EXCEPT !.requests = @ + 1, !.leases = @ + LeasesOf(flight)]
  PROVE  CallOK(h, p, m, rec, f)
<1>1. p[r].request = "open" /\ p[r].flight = flight /\ ~p[r].terminal
  BY DEF Opened
<1>2. OperationsOK(p)
  BY <1>1 DEF CallOK, OperationsOK, ChangedAt
<1>3. /\ m \in CollectorType /\ m.requests = k.requests + 1 /\ m.terminals = k.terminals
      /\ m.leases = k.leases + LeasesOf(flight) /\ m.delayed = k.delayed
  <2>1. k \in CollectorType
    BY DEF CallOK
  <2>2. LeasesOf(flight) \in Nat
    BY DEF LeasesOf
  <2>3. k.leases + LeasesOf(flight) \in Nat /\ k.requests + 1 \in Nat
    BY <2>1, <2>2 DEF CollectorType
  <2>4. m \in CollectorType
    BY <2>1, <2>3 DEF CollectorType
  <2>5. /\ m.requests = k.requests + 1 /\ m.terminals = k.terminals
        /\ m.leases = k.leases + LeasesOf(flight) /\ m.delayed = k.delayed
    BY <2>1 DEF CollectorType
  <2> QED BY <2>4, <2>5
<1>4. o[r].flight = "none" /\ ~o[r].terminal /\ o \in [Requests -> OperationType]
  BY DEF CallOK, OperationsOK
<1>5. Counted(p, m)
  BY <1>1, <1>3, <1>4, CountsChanged, CountsAreNumbers DEF CallOK, Counted, Bit, LeasesOf
<1>6. /\ ~rec.made /\ ~k.delayed /\ h \in HandlerType /\ rec \in RecordType /\ f \in Fates
      /\ f = "none"
  BY DEF CallOK
<1> QED BY <1>2, <1>3, <1>5, <1>6 DEF CallOK

\* A request that is denied is counted too, and takes no lease.
LEMMA DeniedIsCounted ==
  ASSUME NEW h, NEW o, NEW k, NEW rec, NEW f, NEW p, NEW m, NEW r \in Requests,
         CallOK(h, o, k, rec, f), h.at = "running", o[r] = Unbegun, ChangedAt(o, p, r),
         p[r] = [Unbegun EXCEPT !.request = "denied"], m = [k EXCEPT !.requests = @ + 1]
  PROVE  CallOK(h, p, m, rec, f)
<1>1. p[r].request = "denied" /\ p[r].flight = "none" /\ ~p[r].terminal
  BY DEF Unbegun
<1>2. OperationsOK(p)
  BY <1>1 DEF CallOK, OperationsOK, ChangedAt
<1>3. /\ m \in CollectorType /\ m.requests = k.requests + 1 /\ m.terminals = k.terminals
      /\ m.leases = k.leases /\ m.delayed = k.delayed
  <2>1. k \in CollectorType
    BY DEF CallOK
  <2> QED BY <2>1 DEF CollectorType
<1>4. o[r].request = "none" /\ o[r].flight = "none" /\ ~o[r].terminal /\ o \in [Requests -> OperationType]
  BY DEF CallOK, OperationsOK, Unbegun
<1>5. Counted(p, m)
  <2>1. p[r].request # "none" /\ p[r].request # "open" /\ p[r].flight # "open"
    BY <1>1
  <2>2. o[r].request # "open" /\ o[r].flight # "open"
    BY <1>4
  <2>3. /\ Cardinality(Begun(p)) = Cardinality(Begun(o)) + 1
        /\ Cardinality(Terminated(p)) = Cardinality(Terminated(o))
        /\ Cardinality(OpenRequests(p)) = Cardinality(OpenRequests(o))
        /\ Cardinality(OpenFlights(p)) = Cardinality(OpenFlights(o))
    <3>1. /\ Bit(p[r].request # "none") = 1 /\ Bit(o[r].request # "none") = 0
          /\ Bit(p[r].terminal) = 0 /\ Bit(o[r].terminal) = 0
          /\ Bit(p[r].request = "open") = 0 /\ Bit(o[r].request = "open") = 0
          /\ Bit(p[r].flight = "open") = 0 /\ Bit(o[r].flight = "open") = 0
      BY <1>1, <1>4, <2>1, <2>2 DEF Bit
    <3>2. /\ Cardinality(Begun(p)) = Cardinality(Begun(o))
               + Bit(p[r].request # "none") - Bit(o[r].request # "none")
          /\ Cardinality(Terminated(p)) = Cardinality(Terminated(o))
               + Bit(p[r].terminal) - Bit(o[r].terminal)
          /\ Cardinality(OpenRequests(p)) = Cardinality(OpenRequests(o))
               + Bit(p[r].request = "open") - Bit(o[r].request = "open")
          /\ Cardinality(OpenFlights(p)) = Cardinality(OpenFlights(o))
               + Bit(p[r].flight = "open") - Bit(o[r].flight = "open")
      BY <1>4, CountsChanged, Zenon
    <3>3. /\ Cardinality(Begun(p)) = Cardinality(Begun(o)) + 1 - 0
          /\ Cardinality(Terminated(p)) = Cardinality(Terminated(o)) + 0 - 0
          /\ Cardinality(OpenRequests(p)) = Cardinality(OpenRequests(o)) + 0 - 0
          /\ Cardinality(OpenFlights(p)) = Cardinality(OpenFlights(o)) + 0 - 0
      BY <3>1, <3>2, Zenon
    <3> QED BY <3>3, CountsAreNumbers
  <2>4. Counted(o, k)
    BY DEF CallOK
  <2> QED BY <1>3, <2>3, <2>4 DEF Counted
<1>6. /\ ~rec.made /\ ~k.delayed /\ h \in HandlerType /\ rec \in RecordType /\ f \in Fates
      /\ f = "none"
  BY DEF CallOK
<1> QED BY <1>2, <1>3, <1>5, <1>6 DEF CallOK

\* A collector with one lease less and t terminals more.
Less(k, t) ==
  [sealed |-> k.sealed, leases |-> k.leases - 1, requests |-> k.requests,
   attempts |-> k.attempts, terminals |-> k.terminals + t, delayed |-> k.delayed]

\* A request or a login ends: one lease less, and one terminal more at the most.
LEMMA EndIsCounted ==
  ASSUME NEW h, NEW o, NEW k, NEW rec, NEW f, NEW p, NEW m, NEW r \in Requests,
         CallOK(h, o, k, rec, f), ChangedAt(o, p, r),
         \/ o[r].request = "open" /\ p[r].request = "left" /\ p[r].flight = o[r].flight /\ p[r].terminal
         \/ /\ o[r].flight = "open" /\ p[r].flight = "ended" /\ p[r].request = o[r].request
            /\ o[r].terminal => p[r].terminal,
         m = Less(k, Bit(p[r].terminal) - Bit(o[r].terminal))
  PROVE  /\ OperationsOK(p) /\ Counted(p, m) /\ m \in CollectorType /\ m.delayed = k.delayed
         /\ ~rec.made /\ f = "none" /\ h.at # "none"
<1>1. o \in [Requests -> OperationType] /\ p[r] \in OperationType
  BY DEF CallOK, OperationsOK, ChangedAt
<1>2. o[r].request # "none" /\ p[r].request # "none"
  BY <1>1 DEF CallOK, OperationsOK, OperationType
<1>3. OperationsOK(p)
  BY <1>1, <1>2 DEF CallOK, OperationsOK, ChangedAt
<1>4. /\ Cardinality(Begun(p)) = Cardinality(Begun(o))
      /\ Cardinality(Terminated(p)) = Cardinality(Terminated(o)) + Bit(p[r].terminal) - Bit(o[r].terminal)
      /\ Cardinality(OpenRequests(p)) + Cardinality(OpenFlights(p)) =
           Cardinality(OpenRequests(o)) + Cardinality(OpenFlights(o)) - 1
  BY <1>1, <1>2, CountsChanged, CountsAreNumbers DEF Bit
<1>5. k \in CollectorType /\ Counted(o, k)
  BY DEF CallOK
<1>6. Counted(p, m) /\ m \in CollectorType /\ m.delayed = k.delayed
  <2>1. /\ m.requests = k.requests /\ m.leases = k.leases - 1
        /\ m.terminals = k.terminals + (Bit(p[r].terminal) - Bit(o[r].terminal))
        /\ m.delayed = k.delayed /\ m.sealed = k.sealed /\ m.attempts = k.attempts
    BY DEF Less
  <2>2. Counted(p, m)
    BY <1>4, <1>5, <2>1, CountsAreNumbers DEF Counted, Bit
  <2>3. m.leases \in Nat /\ m.terminals \in Nat
    BY <2>2, CountsAreNumbers DEF Counted
  <2>4. m \in CollectorType
    BY <1>5, <2>1, <2>3 DEF CollectorType, Less
  <2> QED BY <2>1, <2>2, <2>4
<1>7. k.leases # 0
  <2>1. k.leases = 0 => OpenRequests(o) = {} /\ OpenFlights(o) = {}
    BY <1>5, NoLeaseAllEnded DEF CallOK
  <2> QED BY <2>1 DEF OpenRequests, OpenFlights
<1>8. ~rec.made /\ f = "none"
  BY <1>7 DEF CallOK, Recorded
<1>9. h.at # "none"
  BY <1>2 DEF CallOK, Begun
<1> QED BY <1>3, <1>6, <1>8, <1>9

\* What is handed to the writer is all the collector has, once nothing is under way.
SnapshotOf(k, late) ==
  [late |-> late, requests |-> k.requests, attempts |-> k.attempts, terminals |-> k.terminals, made |-> TRUE]

LEMMA HandedIsFinal ==
  ASSUME NEW h \in HandlerType, NEW o, NEW k \in CollectorType, NEW late \in BOOLEAN,
         NEW f \in {"queued", "dropped"}, h.at = "returned", OperationsOK(o), Counted(o, k),
         k.leases = 0, ~k.delayed
  PROVE  CallOK(h, o, k, SnapshotOf(k, late), f)
<1>1. SnapshotOf(k, late) \in RecordType /\ SnapshotOf(k, late).made
  BY DEF SnapshotOf, RecordType, CollectorType
<1>2. Recorded(k, SnapshotOf(k, late))
  BY DEF Recorded, SnapshotOf
<1> QED BY <1>1, <1>2 DEF CallOK, Fates

-----------------------------------------------------------------------------
(***************************************************************************)
(* The journal: the steps of a call.                                       *)
(***************************************************************************)
CallsTypeOK ==
  /\ handler \in [Calls -> HandlerType] /\ operation \in [Calls -> [Requests -> OperationType]]
  /\ collector \in [Calls -> CollectorType] /\ record \in [Calls -> RecordType]
  /\ fate \in [Calls -> Fates]

CallsOK ==
  /\ CallsTypeOK
  /\ \A c \in Calls : CallOK(handler[c], operation[c], collector[c], record[c], fate[c])

\* Only call c goes on.
OtherCallsStay(c) ==
  \A d \in Calls \ {c} :
    /\ handler'[d] = handler[d] /\ operation'[d] = operation[d] /\ collector'[d] = collector[d]
    /\ record'[d] = record[d] /\ fate'[d] = fate[d]

\* What a step of call c may do to the queues: nothing, or hand over a record it had not made.
Hands(c) ==
  \/ UNCHANGED <<fate, queue>>
  \/ /\ fate[c] = "none" /\ handler[c].server \in Servers
     /\ \/ /\ queue' = [queue EXCEPT ![handler[c].server] = Append(@, c)]
           /\ fate' = [fate EXCEPT ![c] = "queued"]
        \/ UNCHANGED queue /\ fate' = [fate EXCEPT ![c] = "dropped"]

LEMMA CallGoesOn ==
  ASSUME CallsOK, CallsTypeOK', NEW c \in Calls, OtherCallsStay(c),
         CallOK(handler'[c], operation'[c], collector'[c], record'[c], fate'[c])
  PROVE  CallsOK'
<1> SUFFICES ASSUME NEW d \in Calls
             PROVE  CallOK(handler'[d], operation'[d], collector'[d], record'[d], fate'[d])
  BY DEF CallsOK
<1>1. CASE d = c
  BY <1>1
<1>2. CASE d # c
  BY <1>2 DEF CallsOK, OtherCallsStay
<1> QED BY <1>1, <1>2

LEMMA HandEffect ==
  ASSUME CallsOK, NEW c \in Calls, NEW k \in CollectorType, NEW late \in BOOLEAN,
         Hand(c, k, late), fate[c] = "none", handler[c].server \in Servers
  PROVE  /\ record' = [record EXCEPT ![c] = SnapshotOf(k, late)]
         /\ fate' \in {[fate EXCEPT ![c] = "queued"], [fate EXCEPT ![c] = "dropped"]}
         /\ Hands(c)
  BY DEF Hand, SnapshotOf, Hands

LEMMA CollectedKeepsCalls ==
  ASSUME CallsOK, NEW c \in Calls, NEW k \in CollectorType, Collected(c, k),
         handler' = handler, handler[c].server \in Servers,
         operation' \in [Calls -> [Requests -> OperationType]],
         \A d \in Calls \ {c} : operation'[d] = operation[d],
         OperationsOK(operation'[c]), Counted(operation'[c], k), k.delayed = collector[c].delayed,
         ~record[c].made, fate[c] = "none", handler[c].at # "none"
  PROVE  CallsOK' /\ Hands(c)
<1>1. CallOK(handler[c], operation[c], collector[c], record[c], fate[c]) /\ CallsTypeOK
  BY DEF CallsOK
<1>2. CASE k.delayed /\ k.leases = 0
  <2> DEFINE m == [k EXCEPT !.delayed = FALSE]
  <2>1. collector' = [collector EXCEPT ![c] = m] /\ Hand(c, k, TRUE)
    BY <1>2 DEF Collected
  <2>2. /\ m \in CollectorType /\ m.leases = 0 /\ ~m.delayed /\ SnapshotOf(k, TRUE) = SnapshotOf(m, TRUE)
        /\ Counted(operation'[c], m)
    BY <1>2 DEF CollectorType, SnapshotOf, Counted
  <2> HIDE DEF m
  <2>3. /\ record' = [record EXCEPT ![c] = SnapshotOf(m, TRUE)]
        /\ fate' \in {[fate EXCEPT ![c] = "queued"], [fate EXCEPT ![c] = "dropped"]}
        /\ Hands(c)
    <3>1. /\ record' = [record EXCEPT ![c] = SnapshotOf(k, TRUE)]
          /\ fate' \in {[fate EXCEPT ![c] = "queued"], [fate EXCEPT ![c] = "dropped"]}
          /\ Hands(c)
      BY <2>1, HandEffect, Zenon
    <3> QED BY <2>2, <3>1, Zenon
  <2>4. handler[c] \in HandlerType /\ handler[c].at = "returned"
    BY <1>1, <1>2 DEF CallOK
  <2>5. collector'[c] = m /\ record'[c] = SnapshotOf(m, TRUE) /\ fate'[c] \in {"queued", "dropped"}
    BY <1>1, <2>1, <2>3 DEF CallsTypeOK
  <2>6. CallOK(handler'[c], operation'[c], collector'[c], record'[c], fate'[c])
    BY <2>2, <2>4, <2>5, HandedIsFinal
  <2>7. SnapshotOf(m, TRUE) \in RecordType
    BY <2>2 DEF SnapshotOf, RecordType, CollectorType
  <2>8. CallsTypeOK'
    BY <1>1, <2>1, <2>2, <2>3, <2>7 DEF CallsTypeOK, Fates
  <2>9. OtherCallsStay(c)
    BY <1>1, <2>1, <2>3 DEF CallsTypeOK, OtherCallsStay
  <2> QED BY <2>3, <2>6, <2>8, <2>9, CallGoesOn
<1>3. CASE ~(k.delayed /\ k.leases = 0)
  <2>1. collector' = [collector EXCEPT ![c] = k] /\ UNCHANGED <<record, fate, queue>>
    BY <1>3 DEF Collected
  <2>2. CallsTypeOK' /\ OtherCallsStay(c) /\ collector'[c] = k
    BY <1>1, <2>1 DEF CallsTypeOK, OtherCallsStay
  <2>3. CallOK(handler[c], operation'[c], k, record[c], fate[c])
    <3>1. /\ handler[c] \in HandlerType /\ record[c] \in RecordType /\ fate[c] \in Fates
          /\ handler[c].at # "returned" => ~collector[c].delayed
      BY <1>1 DEF CallOK
    <3> QED BY <3>1 DEF CallOK
  <2> QED BY <2>1, <2>2, <2>3, CallGoesOn DEF Hands
<1> QED BY <1>2, <1>3

\* What a step of a call leaves to the writer.
LeavesTheWriter(c) ==
  /\ CallsOK' /\ Hands(c) /\ UNCHANGED <<writer, lock, journal, alive>>
  /\ \A d \in Calls : fate'[d] # "none" => handler'[d].server = handler[d].server

LEMMA CallToolSafe ==
  ASSUME CallsOK, alive \subseteq Servers, NEW c \in Calls, NEW s \in Servers, CallTool(c, s)
  PROVE  LeavesTheWriter(c)
<1>1. CallsTypeOK /\ CallOK(handler[c], operation[c], collector[c], record[c], fate[c])
  BY DEF CallsOK
<1>2. /\ handler[c].at = "none" /\ handler' = [handler EXCEPT ![c] = [at |-> "running", server |-> s]]
      /\ UNCHANGED <<collector, operation, record, fate, queue, writer, lock, journal, alive>>
  BY DEF CallTool, writeVars
<1>3. fate[c] = "none" /\ ~record[c].made
  BY <1>1, <1>2 DEF CallOK
<1>4. CallsTypeOK' /\ OtherCallsStay(c) /\ handler'[c] = [at |-> "running", server |-> s]
  BY <1>1, <1>2 DEF CallsTypeOK, OtherCallsStay, HandlerType
<1>5. CallOK(handler'[c], operation[c], collector[c], record[c], fate[c])
  BY <1>1, <1>2, <1>3, <1>4 DEF CallOK, HandlerType
<1>6. CallsOK'
  BY <1>2, <1>4, <1>5, CallGoesOn
<1>7. \A d \in Calls : fate'[d] # "none" => handler'[d].server = handler[d].server
  BY <1>1, <1>2, <1>3 DEF CallsTypeOK
<1> QED BY <1>2, <1>6, <1>7 DEF LeavesTheWriter, Hands

LEMMA BeginRequestSafe ==
  ASSUME CallsOK, NEW c \in Calls, NEW r \in Requests, BeginRequest(c, r)
  PROVE  LeavesTheWriter(c)
<1>1. CallsTypeOK /\ CallOK(handler[c], operation[c], collector[c], record[c], fate[c])
  BY DEF CallsOK
<1>2. /\ operation[c][r] = Unbegun /\ handler[c].at = "running"
      /\ UNCHANGED <<handler, record, fate, queue, writer, lock, journal, alive>>
  BY DEF BeginRequest, writeVars
<1>3. PICK flight \in {"none", "open"} :
        /\ operation' = [operation EXCEPT ![c] = [operation[c] EXCEPT ![r] = Opened(flight)]]
        /\ collector' = [collector EXCEPT
             ![c] = [collector[c] EXCEPT !.requests = @ + 1, !.leases = @ + LeasesOf(flight)]]
  BY DEF BeginRequest
<1>4. Opened(flight) \in OperationType
  BY DEF Opened, OperationType
<1> DEFINE m == [collector[c] EXCEPT !.requests = @ + 1, !.leases = @ + LeasesOf(flight)]
<1> DEFINE o == operation[c]
           p == operation'[c]
<1>5. /\ operation' \in [Calls -> [Requests -> OperationType]]
      /\ \A d \in Calls \ {c} : operation'[d] = operation[d]
      /\ ChangedAt(o, p, r) /\ p[r] = Opened(flight) /\ o[r].request = "none"
  BY <1>1, <1>2, <1>3, <1>4 DEF CallsTypeOK, ChangedAt, Unbegun
<1> HIDE DEF o, p
<1>6. CallOK(handler[c], p, m, record[c], fate[c])
  BY <1>1, <1>2, <1>5, BegunIsCounted, ZenonT(40) DEF o
<1> HIDE DEF m
<1>7. CallsTypeOK' /\ OtherCallsStay(c) /\ collector'[c] = m
  <2>1. m \in CollectorType
    BY <1>6 DEF CallOK
  <2>2. collector' = [collector EXCEPT ![c] = m]
    BY <1>3 DEF m
  <2> QED BY <1>1, <1>2, <1>5, <2>1, <2>2 DEF CallsTypeOK, OtherCallsStay
<1>8. CallsOK'
  BY <1>2, <1>6, <1>7, CallGoesOn DEF p
<1> QED BY <1>2, <1>8 DEF LeavesTheWriter, Hands

LEMMA DenyRequestSafe ==
  ASSUME CallsOK, NEW c \in Calls, NEW r \in Requests, DenyRequest(c, r)
  PROVE  LeavesTheWriter(c)
<1>1. CallsTypeOK /\ CallOK(handler[c], operation[c], collector[c], record[c], fate[c])
  BY DEF CallsOK
<1> DEFINE q == [operation[c][r] EXCEPT !.request = "denied"]
           m == [collector[c] EXCEPT !.requests = @ + 1]
           o == operation[c]
           p == operation'[c]
<1>2. /\ operation[c][r] = Unbegun /\ handler[c].at = "running"
      /\ operation' = [operation EXCEPT ![c] = [operation[c] EXCEPT ![r] = q]]
      /\ collector' = [collector EXCEPT ![c] = m]
      /\ UNCHANGED <<handler, record, fate, queue, writer, lock, journal, alive>>
  BY DEF DenyRequest, writeVars
<1>3. q \in OperationType /\ q = [Unbegun EXCEPT !.request = "denied"]
  <2>1. q = [Unbegun EXCEPT !.request = "denied"]
    BY <1>2
  <2> HIDE DEF q
  <2>2. q = [request |-> "denied", flight |-> "none", terminal |-> FALSE, tries |-> 0]
    BY <2>1 DEF Unbegun
  <2>3. q \in OperationType
    BY <2>2 DEF OperationType
  <2> QED BY <2>1, <2>3
<1> HIDE DEF q
<1>4. /\ operation' \in [Calls -> [Requests -> OperationType]]
      /\ \A d \in Calls \ {c} : operation'[d] = operation[d]
      /\ ChangedAt(o, p, r) /\ p[r] = q
  BY <1>1, <1>2, <1>3 DEF CallsTypeOK, ChangedAt
<1> HIDE DEF o, p
<1>5. CallOK(handler[c], p, m, record[c], fate[c])
  BY <1>1, <1>2, <1>3, <1>4, DeniedIsCounted DEF o
<1> HIDE DEF m
<1>6. CallsTypeOK' /\ OtherCallsStay(c) /\ collector'[c] = m
  <2>1. m \in CollectorType
    BY <1>5 DEF CallOK
  <2> QED BY <1>1, <1>2, <1>4, <2>1 DEF CallsTypeOK, OtherCallsStay
<1>7. CallsOK'
  BY <1>2, <1>5, <1>6, CallGoesOn DEF p
<1> QED BY <1>2, <1>7 DEF LeavesTheWriter, Hands

\* While anything of a call is under way its record is not made.
LEMMA UnderwayUnrecorded ==
  ASSUME CallsOK, NEW c \in Calls, NEW r \in Requests,
         "open" \in {operation[c][r].request, operation[c][r].flight}
  PROVE  ~record[c].made /\ fate[c] = "none"
<1>1. CallOK(handler[c], operation[c], collector[c], record[c], fate[c])
  BY DEF CallsOK
<1>2. collector[c].leases # 0
  <2>1. collector[c].leases = 0 => OpenRequests(operation[c]) = {} /\ OpenFlights(operation[c]) = {}
    BY <1>1, NoLeaseAllEnded DEF CallOK
  <2> QED BY <2>1 DEF OpenRequests, OpenFlights
<1> QED BY <1>1, <1>2 DEF CallOK, Recorded

LEMMA TrySafe ==
  ASSUME CallsOK, NEW c \in Calls, NEW r \in Requests, Try(c, r)
  PROVE  LeavesTheWriter(c)
<1>1. CallsTypeOK /\ CallOK(handler[c], operation[c], collector[c], record[c], fate[c])
  BY DEF CallsOK
<1>2. /\ operation' = [operation EXCEPT ![c][r].tries = @ + 1]
      /\ collector' = [collector EXCEPT ![c].attempts = @ + 1]
      /\ UNCHANGED <<handler, record, fate, queue, writer, lock, journal, alive>>
      /\ "open" \in {operation[c][r].request, operation[c][r].flight}
  BY DEF Try, writeVars, Underway
<1>3. ~record[c].made /\ fate[c] = "none"
  BY <1>2, UnderwayUnrecorded
<1> DEFINE q == [operation[c][r] EXCEPT !.tries = @ + 1]
           m == [collector[c] EXCEPT !.attempts = @ + 1]
<1>4. /\ q \in OperationType /\ q.request = operation[c][r].request
      /\ q.flight = operation[c][r].flight /\ q.terminal = operation[c][r].terminal
  <2>1. operation[c][r] \in OperationType
    BY <1>1 DEF CallsTypeOK
  <2> QED BY <2>1 DEF OperationType
<1>5. /\ m \in CollectorType /\ m.requests = collector[c].requests
      /\ m.terminals = collector[c].terminals /\ m.leases = collector[c].leases
      /\ m.delayed = collector[c].delayed
  BY <1>1, SMTT(20) DEF CallsTypeOK, CollectorType
<1>6. /\ operation' = [operation EXCEPT ![c] = [operation[c] EXCEPT ![r] = q]]
      /\ collector' = [collector EXCEPT ![c] = m]
  BY <1>2
<1> HIDE DEF q, m
<1> DEFINE p == operation'[c]
<1>7. /\ operation' \in [Calls -> [Requests -> OperationType]]
      /\ \A d \in Calls \ {c} : operation'[d] = operation[d]
      /\ p = [operation[c] EXCEPT ![r] = q]
  BY <1>1, <1>4, <1>6 DEF CallsTypeOK
<1>8. /\ Begun(p) = Begun(operation[c]) /\ Terminated(p) = Terminated(operation[c])
      /\ OpenRequests(p) = OpenRequests(operation[c]) /\ OpenFlights(p) = OpenFlights(operation[c])
  BY <1>1, <1>4, <1>7 DEF CallsTypeOK, Begun, Terminated, OpenRequests, OpenFlights
<1>9. OperationsOK(p)
  BY <1>1, <1>4, <1>7 DEF CallsTypeOK, CallOK, OperationsOK
<1> HIDE DEF p
<1>10. CallOK(handler[c], p, m, record[c], fate[c])
  BY <1>1, <1>3, <1>5, <1>8, <1>9 DEF CallOK, Counted
<1>11. CallsTypeOK' /\ OtherCallsStay(c) /\ collector'[c] = m
  BY <1>1, <1>2, <1>5, <1>6, <1>7, ZenonT(40) DEF CallsTypeOK, OtherCallsStay
<1>12. CallsOK'
  BY <1>2, <1>10, <1>11, CallGoesOn DEF p
<1> QED BY <1>2, <1>12 DEF LeavesTheWriter, Hands

LEMMA TerminalIsCounted ==
  ASSUME NEW k \in CollectorType, NEW c, NEW r
  PROVE  /\ [Terminal(c, r, k) EXCEPT !.leases = @ - 1]
              = Less(k, IF operation[c][r].terminal THEN 0 ELSE 1)
         /\ [k EXCEPT !.leases = @ - 1] = Less(k, 0)
<1>1. [k EXCEPT !.leases = @ - 1] = Less(k, 0)
  BY DEF CollectorType, Less
<1> DEFINE m == Terminal(c, r, k)
<1>2. CASE operation[c][r].terminal
  <2>1. m = k
    BY <1>2 DEF CollectorType, Terminal
  <2> QED BY <1>1, <1>2, <2>1
<1>3. CASE ~operation[c][r].terminal
  <2>1. m = [sealed |-> k.sealed, leases |-> k.leases, requests |-> k.requests,
             attempts |-> k.attempts, terminals |-> k.terminals + 1, delayed |-> k.delayed]
    BY <1>3 DEF CollectorType, Terminal
  <2> HIDE DEF m
  <2>2. [m EXCEPT !.leases = @ - 1] = Less(k, 1)
    BY <2>1 DEF Less
  <2> QED BY <1>1, <1>3, <2>2 DEF m
<1> QED BY <1>2, <1>3

LEMMA LeaveRequestSafe ==
  ASSUME CallsOK, alive \subseteq Servers, NEW c \in Calls, NEW r \in Requests, LeaveRequest(c, r)
  PROVE  LeavesTheWriter(c)
<1>1. CallsTypeOK /\ CallOK(handler[c], operation[c], collector[c], record[c], fate[c])
  BY DEF CallsOK
<1> DEFINE q == [operation[c][r] EXCEPT !.request = "left", !.terminal = TRUE]
           k == [Terminal(c, r, collector[c]) EXCEPT !.leases = @ - 1]
           o == operation[c]
           p == operation'[c]
<1>2. /\ operation[c][r].request = "open" /\ handler[c].server \in Servers
      /\ operation' = [operation EXCEPT ![c] = [operation[c] EXCEPT ![r] = q]]
      /\ Collected(c, k) /\ UNCHANGED <<handler, writer, lock, journal, alive>>
  BY DEF LeaveRequest, Lives
<1>3. /\ q \in OperationType /\ q.request = "left" /\ q.terminal
      /\ q.flight = operation[c][r].flight
  <2>1. operation[c][r] \in OperationType
    BY <1>1 DEF CallsTypeOK
  <2> QED BY <2>1 DEF OperationType
<1> HIDE DEF q
<1>4. /\ operation' \in [Calls -> [Requests -> OperationType]]
      /\ \A d \in Calls \ {c} : operation'[d] = operation[d]
      /\ ChangedAt(o, p, r) /\ p[r] = q
  BY <1>1, <1>2, <1>3 DEF CallsTypeOK, ChangedAt
<1>5. k = Less(collector[c], Bit(p[r].terminal) - Bit(o[r].terminal))
  <2>1. collector[c] \in CollectorType /\ o[r].terminal \in BOOLEAN
    BY <1>1 DEF CallsTypeOK, OperationType
  <2>2. k = Less(collector[c], IF o[r].terminal THEN 0 ELSE 1)
    BY <2>1, TerminalIsCounted
  <2> QED BY <1>3, <1>4, <2>1, <2>2 DEF Bit
<1>6. \/ o[r].request = "open" /\ p[r].request = "left" /\ p[r].flight = o[r].flight /\ p[r].terminal
      \/ /\ o[r].flight = "open" /\ p[r].flight = "ended" /\ p[r].request = o[r].request
         /\ o[r].terminal => p[r].terminal
  BY <1>2, <1>3, <1>4
<1>7. CallOK(handler[c], o, collector[c], record[c], fate[c])
  BY <1>1
<1> HIDE DEF k, o, p
<1>8. /\ OperationsOK(p) /\ Counted(p, k) /\ k \in CollectorType /\ k.delayed = collector[c].delayed
      /\ ~record[c].made /\ fate[c] = "none" /\ handler[c].at # "none"
  BY <1>4, <1>5, <1>6, <1>7, EndIsCounted
<1>9. CallsOK' /\ Hands(c)
  BY <1>2, <1>4, <1>8, CollectedKeepsCalls DEF p
<1> QED BY <1>2, <1>9 DEF LeavesTheWriter

LEMMA FlightEndsSafe ==
  ASSUME CallsOK, alive \subseteq Servers, NEW c \in Calls, NEW r \in Requests, FlightEnds(c, r)
  PROVE  LeavesTheWriter(c)
<1>1. CallsTypeOK /\ CallOK(handler[c], operation[c], collector[c], record[c], fate[c])
  BY DEF CallsOK
<1>2. PICK settles \in BOOLEAN :
        /\ operation' = [operation EXCEPT ![c] = [operation[c] EXCEPT ![r] =
             [operation[c][r] EXCEPT !.flight = "ended", !.terminal = operation[c][r].terminal \/ settles]]]
        /\ Collected(c, [(IF settles THEN Terminal(c, r, collector[c]) ELSE collector[c])
                          EXCEPT !.leases = @ - 1])
  BY DEF FlightEnds
<1> DEFINE q == [operation[c][r] EXCEPT !.flight = "ended", !.terminal = operation[c][r].terminal \/ settles]
           k == [(IF settles THEN Terminal(c, r, collector[c]) ELSE collector[c]) EXCEPT !.leases = @ - 1]
           o == operation[c]
           p == operation'[c]
<1>3. /\ operation[c][r].flight = "open" /\ handler[c].server \in Servers
      /\ UNCHANGED <<handler, writer, lock, journal, alive>>
  BY DEF FlightEnds, Lives
<1>4. /\ q \in OperationType /\ q.flight = "ended" /\ q.request = operation[c][r].request
      /\ q.terminal = (operation[c][r].terminal \/ settles)
  <2>1. operation[c][r] \in OperationType
    BY <1>1 DEF CallsTypeOK
  <2> QED BY <2>1 DEF OperationType
<1>5. operation' = [operation EXCEPT ![c] = [operation[c] EXCEPT ![r] = q]] /\ Collected(c, k)
  BY <1>2
<1> HIDE DEF q
<1>6. /\ operation' \in [Calls -> [Requests -> OperationType]]
      /\ \A d \in Calls \ {c} : operation'[d] = operation[d]
      /\ ChangedAt(o, p, r) /\ p[r] = q
  BY <1>1, <1>4, <1>5 DEF CallsTypeOK, ChangedAt
<1>7. k = Less(collector[c], Bit(p[r].terminal) - Bit(o[r].terminal))
  <2>1. collector[c] \in CollectorType /\ o[r].terminal \in BOOLEAN
    BY <1>1 DEF CallsTypeOK, OperationType
  <2>2. k = Less(collector[c], IF settles THEN IF o[r].terminal THEN 0 ELSE 1 ELSE 0)
    BY <2>1, TerminalIsCounted
  <2> QED BY <1>4, <1>6, <2>1, <2>2 DEF Bit
<1>8. /\ o[r].flight = "open" /\ p[r].flight = "ended" /\ p[r].request = o[r].request
      /\ o[r].terminal => p[r].terminal
  BY <1>3, <1>4, <1>6
<1> HIDE DEF k, o, p
<1>9. /\ OperationsOK(p) /\ Counted(p, k) /\ k \in CollectorType /\ k.delayed = collector[c].delayed
      /\ ~record[c].made /\ fate[c] = "none" /\ handler[c].at # "none"
  BY <1>1, <1>6, <1>7, <1>8, EndIsCounted DEF o
<1>10. CallsOK' /\ Hands(c)
  BY <1>3, <1>5, <1>6, <1>9, CollectedKeepsCalls DEF p
<1> QED BY <1>3, <1>10 DEF LeavesTheWriter

LEMMA CallReturnsSafe ==
  ASSUME CallsOK, alive \subseteq Servers, NEW c \in Calls, CallReturns(c)
  PROVE  LeavesTheWriter(c)
<1>1. CallsTypeOK /\ CallOK(handler[c], operation[c], collector[c], record[c], fate[c])
  BY DEF CallsOK
<1> DEFINE k == [collector[c] EXCEPT !.sealed = TRUE, !.delayed = collector[c].leases > 0]
<1>2. /\ handler[c].at = "running" /\ handler[c].server \in Servers
      /\ handler' = [handler EXCEPT ![c].at = "returned"]
      /\ collector' = [collector EXCEPT ![c] = k]
      /\ k.delayed => UNCHANGED <<record, fate, queue>>
      /\ ~k.delayed => Hand(c, k, FALSE)
      /\ UNCHANGED <<operation, writer, lock, journal, alive>>
  BY DEF CallReturns, Lives
<1>3. /\ k \in CollectorType /\ k.leases = collector[c].leases /\ k.delayed = (collector[c].leases > 0)
      /\ k.requests = collector[c].requests /\ k.terminals = collector[c].terminals
  <2>1. collector[c] \in CollectorType
    BY <1>1 DEF CallsTypeOK
  <2>2. k = [sealed |-> TRUE, leases |-> collector[c].leases, requests |-> collector[c].requests,
             attempts |-> collector[c].attempts, terminals |-> collector[c].terminals,
             delayed |-> collector[c].leases > 0]
    <3> DEFINE b == collector[c].leases > 0
    <3>1. k = [collector[c] EXCEPT !.sealed = TRUE, !.delayed = b]
      OBVIOUS
    <3> HIDE DEF b, k
    <3>2. k = [sealed |-> TRUE, leases |-> collector[c].leases, requests |-> collector[c].requests,
               attempts |-> collector[c].attempts, terminals |-> collector[c].terminals, delayed |-> b]
      BY <2>1, <3>1 DEF CollectorType
    <3> QED BY <3>2 DEF b
  <2> HIDE DEF k
  <2> QED BY <2>1, <2>2 DEF CollectorType
<1> HIDE DEF k
<1>4. /\ ~record[c].made /\ fate[c] = "none" /\ OperationsOK(operation[c])
      /\ Counted(operation[c], k) /\ handler[c] \in HandlerType
  BY <1>1, <1>2, <1>3 DEF CallOK, Counted
<1>5. /\ handler' \in [Calls -> HandlerType] /\ handler'[c] \in HandlerType
      /\ handler'[c].at = "returned" /\ handler'[c].server = handler[c].server
      /\ \A d \in Calls \ {c} : handler'[d] = handler[d]
  BY <1>1, <1>2 DEF CallsTypeOK, HandlerType
<1>6. CASE k.delayed
  <2>1. UNCHANGED <<record, fate, queue, operation>> /\ collector'[c] = k
    BY <1>1, <1>2, <1>6 DEF CallsTypeOK
  <2>2. CallOK(handler'[c], operation[c], k, record[c], fate[c])
    BY <1>1, <1>3, <1>4, <1>5 DEF CallOK
  <2>3. CallsTypeOK' /\ OtherCallsStay(c)
    BY <1>1, <1>2, <1>3, <1>5, <2>1 DEF CallsTypeOK, OtherCallsStay
  <2>4. CallsOK'
    BY <2>1, <2>2, <2>3, CallGoesOn
  <2> QED BY <1>1, <1>2, <1>5, <2>1, <2>4 DEF LeavesTheWriter, Hands
<1>7. CASE ~k.delayed
  <2>1. /\ record' = [record EXCEPT ![c] = SnapshotOf(k, FALSE)]
        /\ fate' \in {[fate EXCEPT ![c] = "queued"], [fate EXCEPT ![c] = "dropped"]}
        /\ Hands(c)
    BY <1>2, <1>3, <1>4, <1>7, HandEffect, Zenon
  <2>2. k.leases = 0
    BY <1>3, <1>7 DEF CollectorType
  <2>3. collector'[c] = k /\ record'[c] = SnapshotOf(k, FALSE) /\ fate'[c] \in {"queued", "dropped"}
    BY <1>1, <1>2, <2>1 DEF CallsTypeOK
  <2>4. CallOK(handler'[c], operation'[c], collector'[c], record'[c], fate'[c])
    <3> DEFINE h == handler'[c]
               f == fate'[c]
    <3>1. h \in HandlerType /\ h.at = "returned" /\ f \in {"queued", "dropped"}
      BY <1>5, <2>3
    <3> HIDE DEF h, f
    <3>2. CallOK(h, operation[c], k, SnapshotOf(k, FALSE), f)
      BY <1>3, <1>4, <1>7, <2>2, <3>1, HandedIsFinal
    <3>3. operation'[c] = operation[c]
      BY <1>2
    <3> QED BY <2>3, <3>2, <3>3 DEF h, f
  <2>5. SnapshotOf(k, FALSE) \in RecordType
    BY <1>3 DEF SnapshotOf, RecordType, CollectorType
  <2>6. CallsTypeOK' /\ OtherCallsStay(c)
    BY <1>1, <1>2, <1>3, <1>5, <2>1, <2>5 DEF CallsTypeOK, OtherCallsStay, Fates
  <2> QED BY <1>2, <1>5, <2>1, <2>4, <2>6, CallGoesOn DEF LeavesTheWriter
<1> QED BY <1>6, <1>7

-----------------------------------------------------------------------------
(***************************************************************************)
(* The journal: the writers and the file.  Who writes holds the lock, and  *)
(* the size it returns to is that of the file before its line.             *)
(***************************************************************************)
PieceType == [call : Calls, whole : BOOLEAN]
WriterType == [at : {"idle", "open", "write", "repair"}, tries : Nat, size : Nat]

JournalTypeOK ==
  /\ queue \in [Servers -> Seq(Calls)] /\ writer \in [Servers -> WriterType]
  /\ lock \in Servers \cup {NoServer} /\ journal \in Seq(PieceType) /\ alive \subseteq Servers

\* What waits is queued once, in the process of its call.
QueuesOK ==
  \A s \in Servers : \A i \in 1 .. Len(queue[s]) :
    /\ fate[queue[s][i]] = "queued" /\ handler[queue[s][i]].server = s
    /\ \A j \in 1 .. Len(queue[s]) : queue[s][i] = queue[s][j] => i = j

WritersOK ==
  \A s \in alive :
    /\ Writing(s) => lock = s /\ queue[s] # <<>>
    /\ writer[s].at = "write" => writer[s].size = Len(journal)
    /\ writer[s].at = "repair" =>
         /\ Len(journal) = writer[s].size + 1
         /\ journal[Len(journal)] = [call |-> Head(queue[s]), whole |-> FALSE]

OwnerOf(i) == handler[journal[i].call].server

PiecesOK ==
  /\ \A i \in 1 .. Len(journal) : journal[i].whole => fate[journal[i].call] \in {"written", "failed"}
  /\ \A i, j \in 1 .. Len(journal) :
       journal[i].whole /\ journal[j].whole /\ journal[i].call = journal[j].call => i = j
  /\ \A c \in Calls : fate[c] = "written" =>
       \E i \in 1 .. Len(journal) : journal[i].whole /\ journal[i].call = c
  /\ \A i \in 1 .. Len(journal) : ~journal[i].whole =>
       \/ fate[journal[i].call] = "torn"
       \/ /\ fate[journal[i].call] = "queued"
          /\ OwnerOf(i) \notin alive \/ (writer[OwnerOf(i)].at = "repair" /\ i = Len(journal))

JournalOK == JournalTypeOK /\ QueuesOK /\ WritersOK /\ PiecesOK

LEMMA PiecesArePieces ==
  ASSUME JournalTypeOK
  PROVE  \A i \in 1 .. Len(journal) : journal[i].call \in Calls /\ journal[i].whole \in BOOLEAN
<1>1. journal \in Seq(PieceType)
  BY DEF JournalTypeOK
<1>2. \A i \in 1 .. Len(journal) : journal[i] \in PieceType
  BY <1>1
<1> QED BY <1>2 DEF PieceType

LEMMA CallStepKeepsJournal ==
  ASSUME CallsOK, JournalOK, NEW c \in Calls, LeavesTheWriter(c)
  PROVE  JournalOK'
<1>1. /\ CallsTypeOK /\ CallsTypeOK' /\ JournalTypeOK
      /\ writer' = writer /\ lock' = lock /\ journal' = journal /\ alive' = alive
      /\ \A d \in Calls : fate'[d] # "none" => handler'[d].server = handler[d].server
  BY DEF LeavesTheWriter, CallsOK, JournalOK
<1>2. \A d \in Calls : fate[d] # "none" => fate'[d] = fate[d]
  BY <1>1 DEF LeavesTheWriter, Hands, CallsTypeOK
<1>3. \A d \in Calls : fate'[d] \in {"written", "failed", "torn"} => fate[d] = fate'[d]
  BY <1>1 DEF LeavesTheWriter, Hands, CallsTypeOK
<1>4. PiecesOK'
  <2>1. \A i \in 1 .. Len(journal) : journal[i].call \in Calls
    BY <1>1, PiecesArePieces
  <2>2. \A i \in 1 .. Len(journal) : fate[journal[i].call] # "none" => OwnerOf(i)' = OwnerOf(i)
    BY <1>1, <1>2, <2>1 DEF OwnerOf
  <2> QED BY <1>1, <1>2, <1>3, <2>1, <2>2 DEF JournalOK, PiecesOK
<1>5. CASE UNCHANGED <<fate, queue>>
  <2>1. JournalTypeOK' /\ WritersOK'
    BY <1>1, <1>5 DEF JournalOK, JournalTypeOK, WritersOK, Writing
  <2>2. QueuesOK'
    <3>1. \A s \in Servers : \A i \in 1 .. Len(queue[s]) : queue[s][i] \in Calls
      BY <1>1 DEF JournalTypeOK
    <3> QED BY <1>1, <1>5, <3>1 DEF JournalOK, QueuesOK
  <2> QED BY <1>4, <2>1, <2>2 DEF JournalOK
<1>6. CASE UNCHANGED queue /\ fate[c] = "none" /\ fate' = [fate EXCEPT ![c] = "dropped"]
  <2>1. JournalTypeOK' /\ WritersOK'
    BY <1>1, <1>6 DEF JournalOK, JournalTypeOK, WritersOK, Writing
  <2>2. QueuesOK'
    <3>1. \A s \in Servers : \A i \in 1 .. Len(queue[s]) : queue[s][i] \in Calls
      BY <1>1 DEF JournalTypeOK
    <3> QED BY <1>1, <1>2, <1>6, <3>1 DEF JournalOK, QueuesOK
  <2> QED BY <1>4, <2>1, <2>2 DEF JournalOK
<1>7. CASE /\ fate[c] = "none" /\ handler[c].server \in Servers
           /\ queue' = [queue EXCEPT ![handler[c].server] = Append(@, c)]
           /\ fate' = [fate EXCEPT ![c] = "queued"]
  <2> DEFINE s == handler[c].server
  <2>1. /\ s \in Servers /\ queue'[s] = Append(queue[s], c) /\ queue[s] \in Seq(Calls)
        /\ \A t \in Servers \ {s} : queue'[t] = queue[t]
        /\ handler'[c].server = s /\ fate'[c] = "queued"
    BY <1>1, <1>7 DEF JournalTypeOK, CallsTypeOK
  <2>2. JournalTypeOK'
    <3>1. Append(queue[s], c) \in Seq(Calls)
      BY <2>1
    <3> QED BY <1>1, <1>7, <3>1 DEF JournalTypeOK
  <2> HIDE DEF s
  <2>3. /\ Len(Append(queue[s], c)) = Len(queue[s]) + 1 /\ Len(queue[s]) \in Nat
        /\ \A i \in 1 .. Len(queue[s]) : Append(queue[s], c)[i] = queue[s][i] /\ queue[s][i] \in Calls
        /\ Append(queue[s], c)[Len(queue[s]) + 1] = c
        /\ queue[s] # <<>> => Head(Append(queue[s], c)) = Head(queue[s])
        /\ Append(queue[s], c) # <<>>
    BY <2>1
  <2>4. WritersOK'
    <3>1. \A t \in Servers : queue[t] # <<>> => queue'[t] # <<>> /\ Head(queue'[t]) = Head(queue[t])
      <4> TAKE t \in Servers
      <4>1. CASE t = s
        BY <2>1, <2>3, <4>1
      <4>2. CASE t # s
        BY <2>1, <4>2
      <4> QED BY <4>1, <4>2
    <3>2. WritersOK
      BY DEF JournalOK
    <3>3. \A t \in alive : t \in Servers /\ (writer[t].at = "repair" => queue[t] # <<>>)
      BY <1>1, <3>2 DEF WritersOK, Writing, JournalTypeOK
    <3> QED BY <1>1, <3>1, <3>2, <3>3 DEF WritersOK, Writing
  <2>5. QueuesOK'
    <3> SUFFICES ASSUME NEW t \in Servers
                 PROVE  \A i \in 1 .. Len(queue'[t]) :
                          /\ fate'[queue'[t][i]] = "queued" /\ handler'[queue'[t][i]].server = t
                          /\ \A j \in 1 .. Len(queue'[t]) : queue'[t][i] = queue'[t][j] => i = j
      BY DEF QueuesOK
    <3>1. \A i \in 1 .. Len(queue[t]) :
            /\ queue[t][i] \in Calls /\ fate[queue[t][i]] = "queued" /\ handler[queue[t][i]].server = t
            /\ \A j \in 1 .. Len(queue[t]) : queue[t][i] = queue[t][j] => i = j
      BY <1>1 DEF JournalOK, QueuesOK, JournalTypeOK
    <3>2. \A i \in 1 .. Len(queue[t]) :
            queue[t][i] # c /\ fate'[queue[t][i]] = "queued" /\ handler'[queue[t][i]].server = t
      BY <1>1, <1>2, <1>7, <3>1
    <3>3. CASE t # s
      BY <2>1, <3>1, <3>2, <3>3
    <3>4. CASE t = s
      <4> DEFINE q == Append(queue[s], c)
      <4>1. /\ Len(q) = Len(queue[s]) + 1 /\ Len(queue[s]) \in Nat /\ q[Len(queue[s]) + 1] = c
            /\ \A i \in 1 .. Len(queue[s]) : q[i] = queue[s][i]
        BY <2>3
      <4>2. queue'[t] = q
        BY <2>1, <3>4
      <4> HIDE DEF q
      <4>3. \A i \in 1 .. Len(q) : i \in 1 .. Len(queue[s]) \/ i = Len(queue[s]) + 1
        BY <4>1
      <4>4. \A i \in 1 .. Len(q) : fate'[q[i]] = "queued" /\ handler'[q[i]].server = s
        BY <2>1, <3>2, <3>4, <4>1, <4>3
      <4>5. \A i, j \in 1 .. Len(q) : q[i] = q[j] => i = j
        <5>1. \A i, j \in 1 .. Len(queue[s]) : q[i] = q[j] => i = j
          BY <3>1, <3>4, <4>1
        <5>2. \A i \in 1 .. Len(queue[s]) : q[i] # q[Len(queue[s]) + 1]
          BY <3>2, <3>4, <4>1
        <5> QED BY <4>3, <5>1, <5>2
      <4> QED BY <3>4, <4>2, <4>4, <4>5
    <3> QED BY <3>3, <3>4
  <2> QED BY <1>4, <2>2, <2>4, <2>5 DEF JournalOK
<1> QED BY <1>5, <1>6, <1>7 DEF LeavesTheWriter, Hands

\* Whose record is at the head of a queue, and what waits behind it.
LEMMA HeadOfQueue ==
  ASSUME JournalTypeOK, QueuesOK, NEW s \in Servers, queue[s] # <<>>
  PROVE  /\ Head(queue[s]) \in Calls /\ fate[Head(queue[s])] = "queued"
         /\ handler[Head(queue[s])].server = s
         /\ Tail(queue[s]) \in Seq(Calls) /\ Len(Tail(queue[s])) = Len(queue[s]) - 1
         /\ Len(queue[s]) \in Nat
         /\ \A i \in 1 .. Len(Tail(queue[s])) :
              /\ i + 1 \in 1 .. Len(queue[s]) /\ Tail(queue[s])[i] = queue[s][i + 1]
              /\ Tail(queue[s])[i] \in Calls /\ Tail(queue[s])[i] # Head(queue[s])
<1>1. queue[s] \in Seq(Calls)
  BY DEF JournalTypeOK
<1>2. /\ Head(queue[s]) = queue[s][1] /\ 1 \in 1 .. Len(queue[s]) /\ queue[s][1] \in Calls
      /\ Tail(queue[s]) \in Seq(Calls) /\ Len(Tail(queue[s])) = Len(queue[s]) - 1
      /\ Len(queue[s]) \in Nat
      /\ \A i \in 1 .. Len(Tail(queue[s])) :
           /\ i + 1 \in 1 .. Len(queue[s]) /\ Tail(queue[s])[i] = queue[s][i + 1]
           /\ Tail(queue[s])[i] \in Calls /\ i + 1 # 1
  BY <1>1
<1>3. \A i \in 1 .. Len(Tail(queue[s])) : Tail(queue[s])[i] # Head(queue[s])
  BY <1>2 DEF QueuesOK
<1> QED BY <1>2, <1>3 DEF QueuesOK

Ends == {"busy", "refused", "written", "failed", "torn"}

\* The write promise of the head settles: nothing else that waits is touched.
LEMMA SettleEffect ==
  ASSUME CallsOK, JournalOK, NEW s \in Servers, queue[s] # <<>>, NEW end \in Ends,
         Settle(s, end), UNCHANGED <<callVars, record, alive>>
  PROVE  /\ CallsOK' /\ QueuesOK' /\ queue' \in [Servers -> Seq(Calls)]
         /\ writer' \in [Servers -> WriterType] /\ writer'[s] = NotWriting
         /\ fate'[Head(queue[s])] = end
         /\ \A d \in Calls \ {Head(queue[s])} : fate'[d] = fate[d]
         /\ \A t \in Servers \ {s} : writer'[t] = writer[t] /\ queue'[t] = queue[t]
         /\ handler' = handler
<1> DEFINE c == Head(queue[s])
<1>1. /\ c \in Calls /\ fate[c] = "queued" /\ handler[c].server = s
      /\ Tail(queue[s]) \in Seq(Calls) /\ Len(Tail(queue[s])) = Len(queue[s]) - 1
      /\ Len(queue[s]) \in Nat
      /\ \A i \in 1 .. Len(Tail(queue[s])) :
           /\ i + 1 \in 1 .. Len(queue[s]) /\ Tail(queue[s])[i] = queue[s][i + 1]
           /\ Tail(queue[s])[i] \in Calls /\ Tail(queue[s])[i] # c
  BY HeadOfQueue DEF JournalOK
<1>2. /\ writer' = [writer EXCEPT ![s] = NotWriting] /\ fate' = [fate EXCEPT ![c] = end]
      /\ queue' = [queue EXCEPT ![s] = Tail(queue[s])]
      /\ UNCHANGED <<handler, collector, operation, record, alive>>
  BY DEF Settle, callVars
<1> HIDE DEF c
<1>3. CallsTypeOK /\ JournalTypeOK
  BY DEF CallsOK, JournalOK
<1>4. /\ queue' \in [Servers -> Seq(Calls)] /\ queue'[s] = Tail(queue[s])
      /\ \A t \in Servers \ {s} : writer'[t] = writer[t] /\ queue'[t] = queue[t]
  BY <1>1, <1>2, <1>3 DEF JournalTypeOK
<1>5. writer' \in [Servers -> WriterType] /\ writer'[s] = NotWriting
  <2>1. NotWriting \in WriterType
    BY DEF NotWriting, WriterType
  <2> QED BY <1>2, <1>3, <2>1 DEF JournalTypeOK
<1>6. fate'[c] = end /\ (\A d \in Calls \ {c} : fate'[d] = fate[d]) /\ fate' \in [Calls -> Fates]
  BY <1>1, <1>2, <1>3 DEF CallsTypeOK, Ends, Fates
<1>7. CallsOK'
  <2>1. CallsTypeOK'
    BY <1>2, <1>3, <1>6 DEF CallsTypeOK
  <2>2. CallOK(handler[c], operation[c], collector[c], record[c], fate[c])
    BY <1>1 DEF CallsOK
  <2>3. CallOK(handler'[c], operation'[c], collector'[c], record'[c], fate'[c])
    <3>1. fate'[c] # "none" /\ fate'[c] \in Fates /\ fate[c] # "none"
      BY <1>1, <1>6 DEF Ends, Fates
    <3> QED BY <1>2, <2>2, <3>1 DEF CallOK
  <2>4. OtherCallsStay(c)
    BY <1>2, <1>6 DEF OtherCallsStay
  <2> QED BY <1>1, <2>1, <2>3, <2>4, CallGoesOn
<1>8. QueuesOK'
  <2> SUFFICES ASSUME NEW t \in Servers
               PROVE  \A i \in 1 .. Len(queue'[t]) :
                        /\ fate'[queue'[t][i]] = "queued" /\ handler'[queue'[t][i]].server = t
                        /\ \A j \in 1 .. Len(queue'[t]) : queue'[t][i] = queue'[t][j] => i = j
    BY DEF QueuesOK
  <2>1. \A i \in 1 .. Len(queue[t]) :
          /\ queue[t][i] \in Calls /\ fate[queue[t][i]] = "queued" /\ handler[queue[t][i]].server = t
          /\ \A j \in 1 .. Len(queue[t]) : queue[t][i] = queue[t][j] => i = j
    BY <1>3 DEF JournalOK, QueuesOK, JournalTypeOK
  <2>2. CASE t # s
    <3>1. \A i \in 1 .. Len(queue[t]) : queue[t][i] # c
      BY <1>1, <2>1, <2>2
    <3> QED BY <1>2, <1>4, <1>6, <2>1, <2>2, <3>1
  <2>3. CASE t = s
    <3> DEFINE q == Tail(queue[s])
    <3>1. \A i \in 1 .. Len(q) : /\ i + 1 \in 1 .. Len(queue[s]) /\ q[i] = queue[s][i + 1]
                                 /\ q[i] \in Calls /\ q[i] # c /\ i \in Nat
      BY <1>1
    <3>2. queue'[t] = q
      BY <1>4, <2>3
    <3> HIDE DEF q
    <3>3. \A i \in 1 .. Len(q) : fate'[q[i]] = "queued" /\ handler'[q[i]].server = t
      <4>1. \A i \in 1 .. Len(queue[s]) : fate[queue[s][i]] = "queued" /\ handler[queue[s][i]].server = s
        BY <2>1, <2>3
      <4>2. \A i \in 1 .. Len(q) : fate[q[i]] = "queued" /\ handler[q[i]].server = s
        BY <3>1, <4>1
      <4>3. \A i \in 1 .. Len(q) : q[i] \in Calls \ {c}
        BY <3>1
      <4>4. \A i \in 1 .. Len(q) : fate'[q[i]] = fate[q[i]]
        BY <1>6, <4>3
      <4>5. handler' = handler
        BY <1>2
      <4> QED BY <2>3, <4>2, <4>4, <4>5
    <3>4. \A i, j \in 1 .. Len(q) : q[i] = q[j] => i + 1 = j + 1
      <4>1. \A i, j \in 1 .. Len(queue[s]) : queue[s][i] = queue[s][j] => i = j
        BY <2>1, <2>3
      <4> SUFFICES ASSUME NEW i \in 1 .. Len(q), NEW j \in 1 .. Len(q), q[i] = q[j]
                   PROVE  i + 1 = j + 1
        OBVIOUS
      <4>2. /\ i + 1 \in 1 .. Len(queue[s]) /\ j + 1 \in 1 .. Len(queue[s])
            /\ queue[s][i + 1] = queue[s][j + 1]
        BY <3>1
      <4> QED BY <4>1, <4>2
    <3>5. \A i, j \in 1 .. Len(q) : i + 1 = j + 1 => i = j
      BY <3>1
    <3> QED BY <3>2, <3>3, <3>4, <3>5
  <2> QED BY <2>2, <2>3
<1> QED BY <1>2, <1>4, <1>5, <1>6, <1>7, <1>8 DEF c

\* A live writer that does not repair has no line of its record in the file yet.
LEMMA HeadUnwritten ==
  ASSUME JournalOK, NEW s \in Servers, queue[s] # <<>>, s \in alive
  PROVE  \A i \in 1 .. Len(journal) : journal[i].call = Head(queue[s]) =>
           ~journal[i].whole /\ writer[s].at = "repair" /\ i = Len(journal)
<1>1. fate[Head(queue[s])] = "queued" /\ handler[Head(queue[s])].server = s
  BY HeadOfQueue DEF JournalOK
<1> SUFFICES ASSUME NEW i \in 1 .. Len(journal), journal[i].call = Head(queue[s])
             PROVE  ~journal[i].whole /\ writer[s].at = "repair" /\ i = Len(journal)
  OBVIOUS
<1>2. fate[journal[i].call] = "queued" /\ OwnerOf(i) = s
  BY <1>1 DEF OwnerOf
<1> QED BY <1>2 DEF JournalOK, PiecesOK

\* The head is settled and the file stays as it is.
LEMMA SettledWithoutALine ==
  ASSUME CallsOK, JournalOK, NEW s \in Servers, queue[s] # <<>>, s \in alive,
         NEW end \in {"busy", "refused", "failed", "torn"}, end # "torn" => writer[s].at # "repair",
         Settle(s, end), UNCHANGED <<callVars, record, alive, journal>>,
         lock' = lock \/ (lock = s /\ lock' = NoServer)
  PROVE  CallsOK' /\ JournalOK'
<1> DEFINE c == Head(queue[s])
<1>1. /\ CallsOK' /\ QueuesOK' /\ queue' \in [Servers -> Seq(Calls)]
      /\ writer' \in [Servers -> WriterType] /\ writer'[s] = NotWriting
      /\ fate'[c] = end /\ \A d \in Calls \ {c} : fate'[d] = fate[d]
      /\ \A t \in Servers \ {s} : writer'[t] = writer[t] /\ queue'[t] = queue[t]
      /\ handler' = handler /\ journal' = journal /\ alive' = alive
  BY SettleEffect DEF Ends
<1>2. /\ c \in Calls /\ fate[c] = "queued" /\ handler[c].server = s
      /\ JournalTypeOK /\ WritersOK /\ PiecesOK
  BY HeadOfQueue DEF JournalOK
<1>3. \A i \in 1 .. Len(journal) : journal[i].call = c =>
        ~journal[i].whole /\ writer[s].at = "repair" /\ i = Len(journal)
  BY HeadUnwritten
<1>4. \A i \in 1 .. Len(journal) : journal[i].call \in Calls
  BY <1>2, PiecesArePieces
<1> HIDE DEF c
<1>5. JournalTypeOK'
  BY <1>1, <1>2 DEF JournalTypeOK
<1>6. WritersOK'
  <2> SUFFICES ASSUME NEW t \in alive, t \in Servers
               PROVE  /\ Writing(t)' => lock' = t /\ queue'[t] # <<>>
                      /\ writer'[t].at = "write" => writer'[t].size = Len(journal')
                      /\ writer'[t].at = "repair" =>
                           /\ Len(journal') = writer'[t].size + 1
                           /\ journal'[Len(journal')] = [call |-> Head(queue'[t]), whole |-> FALSE]
    BY <1>1, <1>2 DEF WritersOK, JournalTypeOK
  <2>1. CASE t = s
    BY <1>1, <2>1 DEF Writing, NotWriting
  <2>2. CASE t # s
    BY <1>1, <1>2, <2>2 DEF WritersOK, Writing
  <2> QED BY <2>1, <2>2
<1>7. PiecesOK'
  <2>1. \A i \in 1 .. Len(journal) : OwnerOf(i)' = OwnerOf(i)
    BY <1>1 DEF OwnerOf
  <2>2. \A i \in 1 .. Len(journal) : journal[i].call = c => OwnerOf(i) = s
    BY <1>2 DEF OwnerOf
  <2>3. \A i \in 1 .. Len(journal) : journal[i].whole =>
          journal[i].call # c /\ fate'[journal[i].call] \in {"written", "failed"}
    BY <1>1, <1>2, <1>3, <1>4 DEF PiecesOK
  <2>4. \A d \in Calls : fate'[d] = "written" => fate[d] = "written"
    BY <1>1
  <2>5. \A i \in 1 .. Len(journal) : ~journal[i].whole =>
          \/ fate'[journal[i].call] = "torn"
          \/ /\ fate'[journal[i].call] = "queued"
             /\ OwnerOf(i) \notin alive \/ (writer'[OwnerOf(i)].at = "repair" /\ i = Len(journal))
    <3> SUFFICES ASSUME NEW i \in 1 .. Len(journal), ~journal[i].whole
                 PROVE  \/ fate'[journal[i].call] = "torn"
                        \/ /\ fate'[journal[i].call] = "queued"
                           /\ OwnerOf(i) \notin alive \/ (writer'[OwnerOf(i)].at = "repair" /\ i = Len(journal))
      OBVIOUS
    <3>1. CASE journal[i].call = c
      BY <1>1, <1>3, <3>1
    <3>2. CASE journal[i].call # c
      <4>1. fate'[journal[i].call] = fate[journal[i].call]
        BY <1>1, <1>4, <3>2
      <4>2. CASE fate[journal[i].call] = "torn"
        BY <4>1, <4>2
      <4>3. CASE /\ fate[journal[i].call] = "queued"
                 /\ OwnerOf(i) \notin alive \/ (writer[OwnerOf(i)].at = "repair" /\ i = Len(journal))
        <5>1. CASE OwnerOf(i) \notin alive
          BY <4>1, <4>3, <5>1
        <5>2. CASE writer[OwnerOf(i)].at = "repair" /\ i = Len(journal) /\ OwnerOf(i) \in alive
          <6>1. OwnerOf(i) \in Servers
            BY <1>2, <5>2 DEF JournalTypeOK
          <6>2. OwnerOf(i) # s
            <7>1. SUFFICES ASSUME OwnerOf(i) = s PROVE FALSE
              OBVIOUS
            <7>2. writer[s].at = "repair" /\ i = Len(journal)
              BY <5>2, <7>1
            <7>3. journal[Len(journal)] = [call |-> c, whole |-> FALSE]
              BY <1>2, <7>2 DEF WritersOK, c
            <7> QED BY <3>2, <7>2, <7>3
          <6> QED BY <1>1, <4>1, <4>3, <5>2, <6>1, <6>2
        <5> QED BY <4>3, <5>1, <5>2
      <4> QED BY <1>2, <4>2, <4>3 DEF PiecesOK
    <3> QED BY <3>1, <3>2
  <2> QED BY <1>1, <1>2, <2>1, <2>3, <2>4, <2>5 DEF PiecesOK
<1> QED BY <1>1, <1>5, <1>6, <1>7 DEF JournalOK

\* The writer of s moves on and the file, the queue and every fate stay.
LEMMA WriterMoves ==
  ASSUME CallsOK, JournalOK, NEW s \in Servers, NEW w \in WriterType,
         writer' = [writer EXCEPT ![s] = w], writer[s].at # "repair", w.at # "repair",
         lock' = lock \/ (lock = NoServer /\ lock' = s),
         w.at # "idle" => lock' = s /\ queue[s] # <<>>,
         w.at = "write" => w.size = Len(journal),
         UNCHANGED <<callVars, record, fate, queue, journal, alive>>
  PROVE  CallsOK' /\ JournalOK'
<1>1. /\ handler' = handler /\ collector' = collector /\ operation' = operation /\ record' = record
      /\ fate' = fate /\ queue' = queue /\ journal' = journal /\ alive' = alive
  BY DEF callVars
<1>2. CallsTypeOK /\ JournalTypeOK /\ QueuesOK /\ WritersOK /\ PiecesOK
  BY DEF CallsOK, JournalOK
<1>3. CallsOK'
  BY <1>1 DEF CallsOK, CallsTypeOK
<1>4. /\ writer' \in [Servers -> WriterType] /\ writer'[s] = w
      /\ \A t \in Servers \ {s} : writer'[t] = writer[t]
  BY <1>2 DEF JournalTypeOK
<1>5. JournalTypeOK' /\ QueuesOK'
  <2>1. \A t \in Servers : \A i \in 1 .. Len(queue[t]) : queue[t][i] \in Calls
    BY <1>2 DEF JournalTypeOK
  <2> QED BY <1>1, <1>2, <1>4, <2>1 DEF JournalTypeOK, QueuesOK
<1>6. WritersOK'
  <2> SUFFICES ASSUME NEW t \in alive, t \in Servers
               PROVE  /\ Writing(t)' => lock' = t /\ queue[t] # <<>>
                      /\ writer'[t].at = "write" => writer'[t].size = Len(journal)
                      /\ writer'[t].at = "repair" =>
                           /\ Len(journal) = writer'[t].size + 1
                           /\ journal[Len(journal)] = [call |-> Head(queue[t]), whole |-> FALSE]
    BY <1>1, <1>2 DEF WritersOK, JournalTypeOK
  <2>1. CASE t = s
    BY <1>4, <2>1 DEF Writing
  <2>2. CASE t # s
    <3>1. Writing(t) => lock' = t
      BY <1>2, TelemetryAssumption DEF WritersOK
    <3> QED BY <1>2, <1>4, <2>2, <3>1 DEF WritersOK, Writing
  <2> QED BY <2>1, <2>2
<1>7. PiecesOK'
  <2>1. \A i \in 1 .. Len(journal) : journal[i].call \in Calls
    BY <1>2, PiecesArePieces
  <2>2. \A i \in 1 .. Len(journal) : OwnerOf(i)' = OwnerOf(i)
    BY <1>1 DEF OwnerOf
  <2>3. \A t \in alive : writer[t].at = "repair" => writer'[t].at = "repair"
    BY <1>2, <1>4 DEF JournalTypeOK
  <2> QED BY <1>1, <1>2, <2>1, <2>2, <2>3 DEF PiecesOK
<1> QED BY <1>3, <1>5, <1>6, <1>7 DEF JournalOK

\* Who writes holds the lock, so nobody else is at the file.
LEMMA WriterIsAlone ==
  ASSUME JournalOK, NEW s \in alive, Writing(s)
  PROVE  lock = s /\ queue[s] # <<>> /\ \A t \in alive \ {s} : writer[t].at = "idle"
<1>1. JournalTypeOK /\ WritersOK
  BY DEF JournalOK
<1>2. \A t \in alive : writer[t].at \in {"idle", "open", "write", "repair"}
  BY <1>1 DEF JournalTypeOK, WriterType
<1> QED BY <1>1, <1>2 DEF WritersOK, Writing

LEMMA TakeLockSafe ==
  ASSUME CallsOK, JournalOK, NEW s \in Servers, TakeLock(s)
  PROVE  CallsOK' /\ JournalOK'
<1>1. /\ s \in alive /\ writer[s].at = "idle" /\ queue[s] # <<>> /\ writer[s] \in WriterType
      /\ UNCHANGED <<callVars, record, journal, alive>> /\ writer[s].tries + 1 \in Nat
  <2>1. writer[s] \in WriterType
    BY DEF JournalOK, JournalTypeOK
  <2> QED BY <2>1 DEF TakeLock, Turn, WriterType
<1>2. CASE lock = NoServer /\ lock' = s /\ Goes(s, "open") /\ UNCHANGED <<fate, queue>>
  <2> DEFINE w == [writer[s] EXCEPT !.at = "open"]
  <2>1. w \in WriterType /\ w.at = "open"
    BY <1>1 DEF WriterType
  <2>2. writer' = [writer EXCEPT ![s] = w]
    BY <1>2 DEF Goes
  <2> HIDE DEF w
  <2> QED BY <1>1, <1>2, <2>1, <2>2, WriterMoves
<1>3. CASE /\ writer' = [writer EXCEPT ![s].tries = @ + 1] /\ UNCHANGED <<lock, fate, queue>>
  <2> DEFINE w == [writer[s] EXCEPT !.tries = @ + 1]
  <2>1. w \in WriterType /\ w.at = "idle"
    BY <1>1 DEF WriterType
  <2>2. writer' = [writer EXCEPT ![s] = w]
    BY <1>3
  <2> HIDE DEF w
  <2> QED BY <1>1, <1>3, <2>1, <2>2, WriterMoves
<1>4. CASE Settle(s, "busy") /\ UNCHANGED lock
  BY <1>1, <1>4, SettledWithoutALine
<1>5. CASE Settle(s, "refused") /\ UNCHANGED lock
  BY <1>1, <1>5, SettledWithoutALine
<1> QED BY <1>2, <1>3, <1>4, <1>5 DEF TakeLock

LEMMA OpenJournalSafe ==
  ASSUME CallsOK, JournalOK, NEW s \in Servers, OpenJournal(s)
  PROVE  CallsOK' /\ JournalOK'
<1>1. /\ s \in alive /\ writer[s].at = "open" /\ writer[s] \in WriterType
      /\ UNCHANGED <<callVars, record, journal, alive>> /\ Len(journal) \in Nat
  <2>1. writer[s] \in WriterType /\ journal \in Seq(PieceType)
    BY DEF JournalOK, JournalTypeOK
  <2> QED BY <2>1 DEF OpenJournal, Turn
<1>2. lock = s /\ queue[s] # <<>>
  BY <1>1, WriterIsAlone DEF Writing
<1>3. CASE writer' = [writer EXCEPT ![s].at = "write", ![s].size = Len(journal)] /\ UNCHANGED <<lock, fate, queue>>
  <2> DEFINE w == [at |-> "write", tries |-> writer[s].tries, size |-> Len(journal)]
  <2>1. w \in WriterType /\ w.at = "write" /\ w.size = Len(journal)
    BY <1>1 DEF WriterType
  <2>2. writer' = [writer EXCEPT ![s] = w]
    <3>1. writer \in [Servers -> WriterType]
      BY DEF JournalOK, JournalTypeOK
    <3>2. [writer[s] EXCEPT !.at = "write", !.size = Len(journal)] = w
      <4> DEFINE k == writer[s]
                 n == Len(journal)
                 e == [k EXCEPT !.at = "write", !.size = n]
      <4>1. k \in WriterType /\ e = [k EXCEPT !.at = "write", !.size = n]
        BY <1>1
      <4> HIDE DEF k, n, e
      <4>2. e = [at |-> "write", tries |-> k.tries, size |-> n]
        BY <4>1 DEF WriterType
      <4> QED BY <4>2 DEF k, n, e
    <3>3. writer' = [writer EXCEPT ![s] = [writer[s] EXCEPT !.at = "write", !.size = Len(journal)]]
      <4>1. DOMAIN writer' = Servers /\ \A t \in Servers \ {s} : writer'[t] = writer[t]
        BY <1>3, <3>1
      <4>2. writer'[s] = [writer[s] EXCEPT !.at = "write", !.size = Len(journal)]
        BY <1>3, <3>1
      <4> QED BY <1>3, <3>1, <4>1, <4>2
    <3> QED BY <3>2, <3>3
  <2> HIDE DEF w
  <2> QED BY <1>1, <1>2, <1>3, <2>1, <2>2, WriterMoves
<1>4. CASE Settle(s, "refused") /\ Release
  BY <1>1, <1>2, <1>4, SettledWithoutALine DEF Release
<1> QED BY <1>3, <1>4 DEF OpenJournal

\* No living writer holds the lock of a dead one.
LEMMA ClearLockSafe ==
  ASSUME CallsOK, JournalOK, ClearLock
  PROVE  CallsOK' /\ JournalOK'
<1>1. /\ handler' = handler /\ collector' = collector /\ operation' = operation /\ record' = record
      /\ fate' = fate /\ queue' = queue /\ journal' = journal /\ writer' = writer
      /\ alive' = alive /\ lock' = NoServer /\ lock \notin alive
  BY DEF ClearLock, callVars
<1>2. CallsTypeOK /\ JournalTypeOK /\ QueuesOK /\ WritersOK /\ PiecesOK
  BY DEF CallsOK, JournalOK
<1>3. CallsOK'
  BY <1>1 DEF CallsOK, CallsTypeOK
<1>4. JournalTypeOK' /\ QueuesOK' /\ WritersOK'
  <2>1. \A t \in Servers : \A i \in 1 .. Len(queue[t]) : queue[t][i] \in Calls
    BY <1>2 DEF JournalTypeOK
  <2> QED BY <1>1, <1>2, <2>1 DEF JournalTypeOK, QueuesOK, WritersOK, Writing
<1>5. PiecesOK'
  BY <1>1, <1>2 DEF PiecesOK, OwnerOf
<1> QED BY <1>3, <1>4, <1>5 DEF JournalOK

LEMMA DieSafe ==
  ASSUME CallsOK, JournalOK, NEW s \in Servers, Die(s)
  PROVE  CallsOK' /\ JournalOK'
<1>1. /\ handler' = handler /\ collector' = collector /\ operation' = operation /\ record' = record
      /\ fate' = fate /\ queue' = queue /\ journal' = journal /\ writer' = writer /\ lock' = lock
      /\ alive' = alive \ {s}
  BY DEF Die, callVars, writeVars
<1>2. CallsTypeOK /\ JournalTypeOK /\ QueuesOK /\ WritersOK /\ PiecesOK
  BY DEF CallsOK, JournalOK
<1>3. CallsOK'
  BY <1>1 DEF CallsOK, CallsTypeOK
<1>4. JournalTypeOK' /\ QueuesOK' /\ WritersOK'
  <2>1. \A t \in Servers : \A i \in 1 .. Len(queue[t]) : queue[t][i] \in Calls
    BY <1>2 DEF JournalTypeOK
  <2> QED BY <1>1, <1>2, <2>1 DEF JournalTypeOK, QueuesOK, WritersOK, Writing
<1>5. PiecesOK'
  <2>1. \A i \in 1 .. Len(journal) : OwnerOf(i)' = OwnerOf(i)
    BY <1>1 DEF OwnerOf
  <2> QED BY <1>1, <1>2, <2>1 DEF PiecesOK
<1> QED BY <1>3, <1>4, <1>5 DEF JournalOK

\* The file with one more line.
LEMMA OnePieceMore ==
  ASSUME JournalTypeOK, NEW x \in PieceType, journal' = Append(journal, x)
  PROVE  /\ journal' \in Seq(PieceType) /\ Len(journal') = Len(journal) + 1
         /\ 1 .. Len(journal') = (1 .. Len(journal)) \cup {Len(journal')}
         /\ Len(journal') \notin 1 .. Len(journal)
         /\ journal'[Len(journal')] = x
         /\ \A i \in 1 .. Len(journal) : journal'[i] = journal[i]
<1>1. journal \in Seq(PieceType)
  BY DEF JournalTypeOK
<1> QED BY <1>1

\* A short write: the line is there in part and its writer goes on to repair it.
LEMMA TornPieceSafe ==
  ASSUME CallsOK, JournalOK, NEW s \in Servers, s \in alive, writer[s].at = "write",
         journal' = Append(journal, Piece(s, FALSE)), Goes(s, "repair"),
         UNCHANGED <<lock, fate, queue, callVars, record, alive>>
  PROVE  CallsOK' /\ JournalOK'
<1> DEFINE c == Head(queue[s])
<1>1. /\ handler' = handler /\ collector' = collector /\ operation' = operation /\ record' = record
      /\ fate' = fate /\ queue' = queue /\ lock' = lock /\ alive' = alive
  BY DEF callVars
<1>2. CallsTypeOK /\ JournalTypeOK /\ QueuesOK /\ WritersOK /\ PiecesOK
  BY DEF CallsOK, JournalOK
<1>3. lock = s /\ queue[s] # <<>> /\ \A t \in alive \ {s} : writer[t].at = "idle"
  BY WriterIsAlone DEF Writing
<1>4. c \in Calls /\ fate[c] = "queued" /\ handler[c].server = s
  BY <1>2, <1>3, HeadOfQueue
<1>5. CallsOK'
  BY <1>1 DEF CallsOK, CallsTypeOK
<1>6. /\ writer' \in [Servers -> WriterType] /\ writer'[s].at = "repair" /\ writer'[s].size = writer[s].size
      /\ \A t \in Servers \ {s} : writer'[t] = writer[t]
  BY <1>2 DEF JournalTypeOK, Goes, WriterType
<1>7. /\ [call |-> c, whole |-> FALSE] \in PieceType
      /\ journal' = Append(journal, [call |-> c, whole |-> FALSE])
  BY <1>4 DEF Piece, PieceType
<1> DEFINE m == Len(journal) + 1
           D == 1 .. Len(journal)
           E == D \cup {m}
           x == [call |-> c, whole |-> FALSE]
<1>8. /\ journal' \in Seq(PieceType) /\ Len(journal') = m
      /\ 1 .. Len(journal') = E /\ m \notin D /\ journal'[m] = x
      /\ \A i \in D : i \in E /\ journal'[i] = journal[i] /\ i # m
      /\ m \in E /\ \A i \in E : i \in D \/ i = m
  BY <1>2, <1>7, OnePieceMore
<1>9. \A i \in D : journal[i].call \in Calls
  BY <1>2, PiecesArePieces
<1>10. writer[s].size + 1 = m
  BY <1>2 DEF WritersOK
<1>11. x = [call |-> c, whole |-> FALSE] /\ x.call = c /\ ~x.whole
  OBVIOUS
<1> HIDE DEF x, m, E, D
<1>12. JournalTypeOK' /\ QueuesOK'
  <2>1. \A t \in Servers : \A i \in 1 .. Len(queue[t]) : queue[t][i] \in Calls
    BY <1>2 DEF JournalTypeOK
  <2>2. QueuesOK'
    BY <1>1, <1>2, <2>1 DEF QueuesOK
  <2>3. JournalTypeOK'
    BY <1>1, <1>2, <1>6, <1>8 DEF JournalTypeOK
  <2> QED BY <2>2, <2>3
<1>13. WritersOK'
  <2> SUFFICES ASSUME NEW t \in alive, t \in Servers
               PROVE  /\ Writing(t)' => lock = t /\ queue[t] # <<>>
                      /\ writer'[t].at = "write" => writer'[t].size = Len(journal')
                      /\ writer'[t].at = "repair" =>
                           /\ Len(journal') = writer'[t].size + 1
                           /\ journal'[Len(journal')] = [call |-> Head(queue[t]), whole |-> FALSE]
    BY <1>1, <1>2 DEF WritersOK, JournalTypeOK
  <2>1. CASE t = s
    BY <1>3, <1>6, <1>8, <1>10, <1>11, <2>1 DEF Writing
  <2>2. CASE t # s
    BY <1>3, <1>6, <2>2 DEF Writing
  <2> QED BY <2>1, <2>2
<1>14. PiecesOK'
  <2>1. \A i \in D : handler'[journal'[i].call].server = OwnerOf(i) /\ handler'[journal'[m].call].server = s
    <3>1. journal'[m].call = c
      BY <1>8, <1>11
    <3> QED BY <1>1, <1>4, <1>8, <3>1 DEF OwnerOf
  <2>2. \A i \in D : ~journal[i].whole =>
          fate[journal[i].call] = "torn" \/ (fate[journal[i].call] = "queued" /\ OwnerOf(i) \notin alive)
    <3> SUFFICES ASSUME NEW i \in D, ~journal[i].whole, fate[journal[i].call] # "torn",
                        OwnerOf(i) \in alive
                 PROVE  FALSE
      BY <1>2 DEF PiecesOK, D
    <3>1. writer[OwnerOf(i)].at = "repair" /\ OwnerOf(i) \in Servers
      BY <1>2 DEF PiecesOK, JournalTypeOK, D
    <3> QED BY <1>3, <3>1
  <2>3. /\ \A i \in D : journal[i].whole => fate[journal[i].call] \in {"written", "failed"}
        /\ \A i, j \in D :
             journal[i].whole /\ journal[j].whole /\ journal[i].call = journal[j].call => i = j
        /\ \A d \in Calls : fate[d] = "written" =>
             \E i \in D : journal[i].whole /\ journal[i].call = d
    BY <1>2 DEF PiecesOK, D
  <2>4. /\ \A i \in E : journal'[i].whole => i \in D /\ journal[i].whole
        /\ \A i \in E : ~journal'[i].whole => i = m \/ (i \in D /\ ~journal[i].whole)
    BY <1>8, <1>11
  <2>5. \A i \in E : journal'[i].whole => fate'[journal'[i].call] \in {"written", "failed"}
    BY <1>1, <1>8, <2>3, <2>4
  <2>6. \A i, j \in E :
          journal'[i].whole /\ journal'[j].whole /\ journal'[i].call = journal'[j].call => i = j
    <3> SUFFICES ASSUME NEW i \in E, NEW j \in E, journal'[i].whole, journal'[j].whole,
                        journal'[i].call = journal'[j].call
                 PROVE  i = j
      OBVIOUS
    <3>1. i \in D /\ j \in D
      BY <2>4
    <3>2. journal'[i] = journal[i] /\ journal'[j] = journal[j]
      BY <1>8, <3>1
    <3> QED BY <2>3, <3>1, <3>2, ZenonT(40)
  <2>7. \A d \in Calls : fate'[d] = "written" =>
          \E i \in E : journal'[i].whole /\ journal'[i].call = d
    BY <1>1, <1>8, <2>3, ZenonT(40)
  <2>8. \A i \in E : ~journal'[i].whole =>
          \/ fate'[journal'[i].call] = "torn"
          \/ /\ fate'[journal'[i].call] = "queued"
             /\ handler'[journal'[i].call].server \notin alive'
                \/ (writer'[handler'[journal'[i].call].server].at = "repair" /\ i = m)
    <3> SUFFICES ASSUME NEW i \in E, ~journal'[i].whole
                 PROVE  \/ fate'[journal'[i].call] = "torn"
                        \/ /\ fate'[journal'[i].call] = "queued"
                           /\ handler'[journal'[i].call].server \notin alive'
                              \/ (writer'[handler'[journal'[i].call].server].at = "repair" /\ i = m)
      OBVIOUS
    <3>1. CASE i = m
      <4>1. journal'[i].call = c /\ handler'[journal'[i].call].server = s
        BY <1>1, <1>4, <1>8, <1>11, <3>1 DEF OwnerOf
      <4> QED BY <1>1, <1>4, <1>6, <1>8, <3>1, <4>1
    <3>2. CASE i \in D /\ ~journal[i].whole
      BY <1>1, <1>8, <2>1, <2>2, <3>2
    <3> QED BY <2>4, <3>1, <3>2
  <2> QED BY <1>8, <2>5, <2>6, <2>7, <2>8, ZenonT(40) DEF PiecesOK, OwnerOf
<1> QED BY <1>5, <1>12, <1>13, <1>14 DEF JournalOK

\* The line is there as a whole and its record settles.
LEMMA WholePieceSafe ==
  ASSUME CallsOK, JournalOK, NEW s \in Servers, s \in alive, writer[s].at = "write",
         NEW end \in {"written", "failed"}, Settle(s, end), Release,
         journal' = Append(journal, Piece(s, TRUE)), UNCHANGED <<callVars, record, alive>>
  PROVE  CallsOK' /\ JournalOK'
<1> DEFINE c == Head(queue[s])
<1>1. CallsTypeOK /\ JournalTypeOK /\ QueuesOK /\ WritersOK /\ PiecesOK
  BY DEF CallsOK, JournalOK
<1>2. lock = s /\ queue[s] # <<>> /\ \A t \in alive \ {s} : writer[t].at = "idle"
  BY WriterIsAlone DEF Writing
<1>3. /\ CallsOK' /\ QueuesOK' /\ queue' \in [Servers -> Seq(Calls)]
      /\ writer' \in [Servers -> WriterType] /\ writer'[s] = NotWriting
      /\ fate'[c] = end /\ \A d \in Calls \ {c} : fate'[d] = fate[d]
      /\ \A t \in Servers \ {s} : writer'[t] = writer[t] /\ queue'[t] = queue[t]
      /\ handler' = handler /\ alive' = alive
  BY <1>2, SettleEffect DEF Ends
<1>4. c \in Calls /\ fate[c] = "queued" /\ handler[c].server = s
  BY <1>1, <1>2, HeadOfQueue
<1>5. \A i \in 1 .. Len(journal) : journal[i].call # c
  BY <1>2, HeadUnwritten
<1>6. /\ [call |-> c, whole |-> TRUE] \in PieceType
      /\ journal' = Append(journal, [call |-> c, whole |-> TRUE])
  BY <1>4 DEF Piece, PieceType
<1> DEFINE m == Len(journal) + 1
           D == 1 .. Len(journal)
           E == D \cup {m}
           x == [call |-> c, whole |-> TRUE]
<1>7. /\ journal' \in Seq(PieceType) /\ Len(journal') = m
      /\ 1 .. Len(journal') = E /\ m \notin D /\ journal'[m] = x
      /\ \A i \in D : i \in E /\ journal'[i] = journal[i] /\ i # m
      /\ m \in E /\ \A i \in E : i \in D \/ i = m
  BY <1>1, <1>6, OnePieceMore
<1>8. \A i \in D : journal[i].call \in Calls \ {c}
  BY <1>1, <1>5, PiecesArePieces
<1>9. x.call = c /\ x.whole
  OBVIOUS
<1> HIDE DEF x, m, E, D, c
<1>10. JournalTypeOK'
  BY <1>1, <1>2, <1>3, <1>7 DEF JournalTypeOK, Release
<1>11. WritersOK'
  <2>1. \A t \in alive : writer'[t].at = "idle"
    <3>1. writer'[s].at = "idle"
      BY <1>3 DEF NotWriting
    <3>2. \A t \in alive \ {s} : writer'[t].at = "idle"
      <4>1. \A t \in alive \ {s} : writer'[t] = writer[t]
        BY <1>1, <1>3 DEF JournalTypeOK
      <4> QED BY <1>2, <4>1
    <3> QED BY <3>1, <3>2
  <2> QED BY <1>3, <2>1 DEF WritersOK, Writing
<1>12. PiecesOK'
  <2>1. \A i \in D : fate'[journal[i].call] = fate[journal[i].call] /\ handler'[journal'[i].call].server = OwnerOf(i)
    BY <1>3, <1>7, <1>8 DEF OwnerOf
  <2>2. \A i \in D : ~journal[i].whole =>
          fate[journal[i].call] = "torn" \/ (fate[journal[i].call] = "queued" /\ OwnerOf(i) \notin alive)
    <3> SUFFICES ASSUME NEW i \in D, ~journal[i].whole, fate[journal[i].call] # "torn",
                        OwnerOf(i) \in alive
                 PROVE  FALSE
      BY <1>1 DEF PiecesOK, D
    <3>1. writer[OwnerOf(i)].at = "repair" /\ OwnerOf(i) \in Servers
      BY <1>1 DEF PiecesOK, JournalTypeOK, D
    <3> QED BY <1>2, <3>1
  <2>3. /\ \A i \in D : journal[i].whole => fate[journal[i].call] \in {"written", "failed"}
        /\ \A i, j \in D :
             journal[i].whole /\ journal[j].whole /\ journal[i].call = journal[j].call => i = j
        /\ \A d \in Calls : fate[d] = "written" =>
             \E i \in D : journal[i].whole /\ journal[i].call = d
    BY <1>1 DEF PiecesOK, D
  <2>4. /\ m \in E /\ journal'[m].call = c /\ journal'[m].whole
        /\ \A i \in D : i \in E /\ journal'[i] = journal[i]
        /\ \A i \in E : i \in D \/ i = m
    BY <1>7, <1>9
  <2>5. \A i \in E : journal'[i].whole => fate'[journal'[i].call] \in {"written", "failed"}
    <3> SUFFICES ASSUME NEW i \in E, journal'[i].whole
                 PROVE  fate'[journal'[i].call] \in {"written", "failed"}
      OBVIOUS
    <3>1. CASE i = m
      BY <1>3, <2>4, <3>1
    <3>2. CASE i \in D
      <4>1. journal'[i] = journal[i]
        BY <2>4, <3>2
      <4> QED BY <2>1, <2>3, <3>2, <4>1
    <3> QED BY <2>4, <3>1, <3>2
  <2>6. \A i, j \in E :
          journal'[i].whole /\ journal'[j].whole /\ journal'[i].call = journal'[j].call => i = j
    <3> SUFFICES ASSUME NEW i \in E, NEW j \in E, journal'[i].whole, journal'[j].whole,
                        journal'[i].call = journal'[j].call
                 PROVE  i = j
      OBVIOUS
    <3>1. \A k \in D : journal'[k].call # c
      BY <1>8, <2>4
    <3>2. CASE i = m \/ j = m
      BY <2>4, <3>1, <3>2
    <3>3. CASE i \in D /\ j \in D
      <4>1. journal'[i] = journal[i] /\ journal'[j] = journal[j]
        BY <2>4, <3>3
      <4> QED BY <2>3, <3>3, <4>1
    <3> QED BY <2>4, <3>2, <3>3
  <2>7. \A d \in Calls : fate'[d] = "written" =>
          \E i \in E : journal'[i].whole /\ journal'[i].call = d
    <3> SUFFICES ASSUME NEW d \in Calls, fate'[d] = "written"
                 PROVE  \E i \in E : journal'[i].whole /\ journal'[i].call = d
      OBVIOUS
    <3>1. CASE d = c
      BY <2>4, <3>1
    <3>2. CASE d # c
      <4>1. PICK i \in D : journal[i].whole /\ journal[i].call = d
        BY <1>3, <2>3, <3>2
      <4> QED BY <2>4, <4>1
    <3> QED BY <3>1, <3>2
  <2>8. \A i \in E : ~journal'[i].whole =>
          \/ fate'[journal'[i].call] = "torn"
          \/ fate'[journal'[i].call] = "queued" /\ handler'[journal'[i].call].server \notin alive'
    <3> SUFFICES ASSUME NEW i \in E, ~journal'[i].whole
                 PROVE  \/ fate'[journal'[i].call] = "torn"
                        \/ fate'[journal'[i].call] = "queued" /\ handler'[journal'[i].call].server \notin alive'
      OBVIOUS
    <3>1. i \in D /\ journal'[i] = journal[i]
      BY <2>4
    <3> QED BY <1>3, <2>1, <2>2, <3>1 DEF OwnerOf
  <2> QED BY <1>7, <2>5, <2>6, <2>7, <2>8 DEF PiecesOK, OwnerOf
<1> QED BY <1>3, <1>10, <1>11, <1>12 DEF JournalOK

LEMMA WriteLineSafe ==
  ASSUME CallsOK, JournalOK, NEW s \in Servers, WriteLine(s)
  PROVE  CallsOK' /\ JournalOK'
<1>1. s \in alive /\ writer[s].at = "write" /\ UNCHANGED <<callVars, record, alive>>
  BY DEF WriteLine, Turn
<1>2. lock = s /\ queue[s] # <<>>
  BY <1>1, WriterIsAlone DEF Writing
<1>3. CASE journal' = Append(journal, Piece(s, TRUE)) /\ Release /\ \E end \in {"written", "failed"} : Settle(s, end)
  BY <1>1, <1>3, WholePieceSafe
<1>4. CASE journal' = Append(journal, Piece(s, FALSE)) /\ Goes(s, "repair") /\ UNCHANGED <<lock, fate, queue>>
  BY <1>1, <1>4, TornPieceSafe
<1>5. CASE Settle(s, "failed") /\ Release /\ UNCHANGED journal
  BY <1>1, <1>2, <1>5, SettledWithoutALine DEF Release
<1> QED BY <1>3, <1>4, <1>5 DEF WriteLine

\* What a writer repairs is the last line of the file, and what goes is that line alone.
LEMMA RepairJournalSafe ==
  ASSUME CallsOK, JournalOK, NEW s \in Servers, RepairJournal(s)
  PROVE  CallsOK' /\ JournalOK'
<1> DEFINE c == Head(queue[s])
<1>1. /\ s \in alive /\ writer[s].at = "repair" /\ Release
      /\ UNCHANGED <<callVars, record, alive>>
  BY DEF RepairJournal, Turn
<1>2. lock = s /\ queue[s] # <<>> /\ \A t \in alive \ {s} : writer[t].at = "idle"
  BY <1>1, WriterIsAlone DEF Writing
<1>3. CASE Settle(s, "torn") /\ UNCHANGED journal
  BY <1>1, <1>2, <1>3, SettledWithoutALine DEF Release
<1>4. CASE journal' = SubSeq(journal, 1, writer[s].size) /\ Settle(s, "failed")
  <2>1. /\ CallsTypeOK /\ JournalTypeOK /\ QueuesOK /\ WritersOK /\ PiecesOK
        /\ writer[s].size \in Nat /\ journal \in Seq(PieceType)
    BY DEF CallsOK, JournalOK, JournalTypeOK, WriterType
  <2>2. /\ CallsOK' /\ QueuesOK' /\ queue' \in [Servers -> Seq(Calls)]
        /\ writer' \in [Servers -> WriterType] /\ writer'[s] = NotWriting
        /\ fate'[c] = "failed" /\ \A d \in Calls \ {c} : fate'[d] = fate[d]
        /\ \A t \in Servers \ {s} : writer'[t] = writer[t] /\ queue'[t] = queue[t]
        /\ handler' = handler /\ alive' = alive
    BY <1>1, <1>2, <1>4, SettleEffect DEF Ends
  <2> DEFINE m == Len(journal)
             D == 1 .. writer[s].size
  <2>3. m = writer[s].size + 1 /\ journal[m] = [call |-> c, whole |-> FALSE]
    BY <1>1, <2>1 DEF WritersOK
  <2>4. /\ journal' \in Seq(PieceType) /\ 1 .. Len(journal') = D
        /\ \A i \in D : journal'[i] = journal[i] /\ i \in 1 .. Len(journal) /\ i # m
        /\ \A i \in 1 .. Len(journal) : i \in D \/ i = m
    BY <1>4, <2>1, <2>3
  <2>5. \A i \in 1 .. Len(journal) : journal[i].call = c => i = m
    BY <1>1, <1>2, HeadUnwritten
  <2>6. \A i \in 1 .. Len(journal) : journal[i].call \in Calls
    BY <2>1, PiecesArePieces
  <2> HIDE DEF D, m, c
  <2>7. \A i \in D : /\ journal'[i] = journal[i] /\ fate'[journal'[i].call] = fate[journal[i].call]
                     /\ handler'[journal'[i].call].server = OwnerOf(i)
    BY <2>2, <2>4, <2>5, <2>6 DEF OwnerOf
  <2>8. JournalTypeOK'
    BY <1>1, <1>2, <2>1, <2>2, <2>4 DEF JournalTypeOK, Release
  <2>9. WritersOK'
    <3>1. \A t \in alive : writer'[t].at = "idle"
      <4>1. writer'[s].at = "idle"
        BY <2>2 DEF NotWriting
      <4>2. \A t \in alive \ {s} : writer'[t].at = "idle"
        <5>1. \A t \in alive \ {s} : writer'[t] = writer[t]
          BY <2>1, <2>2 DEF JournalTypeOK
        <5> QED BY <1>2, <5>1
      <4> QED BY <4>1, <4>2
    <3> QED BY <2>2, <3>1 DEF WritersOK, Writing
  <2>10. PiecesOK'
    <3>1. /\ \A i \in D : journal[i].whole => fate[journal[i].call] \in {"written", "failed"}
          /\ \A i, j \in D :
               journal[i].whole /\ journal[j].whole /\ journal[i].call = journal[j].call => i = j
      BY <2>1, <2>4 DEF PiecesOK
    <3>2. \A i \in D : ~journal[i].whole =>
            fate[journal[i].call] = "torn" \/ (fate[journal[i].call] = "queued" /\ OwnerOf(i) \notin alive)
      <4> SUFFICES ASSUME NEW i \in D, ~journal[i].whole
                   PROVE  fate[journal[i].call] = "torn" \/ (fate[journal[i].call] = "queued" /\ OwnerOf(i) \notin alive)
        OBVIOUS
      <4>1. i \in 1 .. Len(journal) /\ i # m
        BY <2>4
      <4> QED BY <2>1, <4>1 DEF PiecesOK, m
    <3>3. \A d \in Calls : fate'[d] = "written" =>
            \E i \in D : journal'[i].whole /\ journal'[i].call = d
      <4> SUFFICES ASSUME NEW d \in Calls, fate'[d] = "written"
                   PROVE  \E i \in D : journal'[i].whole /\ journal'[i].call = d
        OBVIOUS
      <4>1. fate[d] = "written"
        BY <2>2
      <4>2. PICK i \in 1 .. Len(journal) : journal[i].whole /\ journal[i].call = d
        BY <2>1, <4>1 DEF PiecesOK
      <4>3. ~journal[m].whole
        BY <2>3
      <4>4. i \in D
        BY <2>4, <4>2, <4>3
      <4> QED BY <2>7, <4>2, <4>4
    <3>4. /\ \A i \in D : journal'[i].whole => fate'[journal'[i].call] \in {"written", "failed"}
          /\ \A i, j \in D :
               journal'[i].whole /\ journal'[j].whole /\ journal'[i].call = journal'[j].call => i = j
          /\ \A i \in D : ~journal'[i].whole =>
               \/ fate'[journal'[i].call] = "torn"
               \/ fate'[journal'[i].call] = "queued" /\ handler'[journal'[i].call].server \notin alive'
      <4>1. /\ \A i \in D : journal'[i].whole => fate'[journal'[i].call] \in {"written", "failed"}
            /\ \A i, j \in D :
                 journal'[i].whole /\ journal'[j].whole /\ journal'[i].call = journal'[j].call => i = j
        BY <2>7, <3>1
      <4>2. ASSUME NEW i \in D, ~journal'[i].whole
            PROVE  \/ fate'[journal'[i].call] = "torn"
                   \/ fate'[journal'[i].call] = "queued" /\ handler'[journal'[i].call].server \notin alive'
        <5>1. /\ ~journal[i].whole /\ fate'[journal'[i].call] = fate[journal[i].call]
              /\ handler'[journal'[i].call].server = OwnerOf(i)
          BY <2>7, <4>2
        <5> QED BY <2>2, <3>2, <5>1
      <4> QED BY <4>1, <4>2
    <3> QED BY <2>4, <3>3, <3>4 DEF PiecesOK, OwnerOf
  <2> QED BY <2>2, <2>8, <2>9, <2>10 DEF JournalOK
<1> QED BY <1>3, <1>4 DEF RepairJournal

-----------------------------------------------------------------------------
(***************************************************************************)
(* The journal: the inductive invariant and the theorem.                   *)
(***************************************************************************)
TelemetryInv == CallsOK /\ JournalOK

LEMMA TelemetryStarts ==
  ASSUME TelemetryInit
  PROVE  TelemetryInv
<1>1. CallsOK
  <2>1. CallsTypeOK
    BY DEF TelemetryInit, CallsTypeOK, HandlerType, OperationType, CollectorType, RecordType, Fates,
           NoRecord, Fresh, Unbegun
  <2>2. ASSUME NEW c \in Calls
        PROVE  CallOK(handler[c], operation[c], collector[c], record[c], fate[c])
    <3>1. /\ handler[c].at = "none" /\ operation[c] = [r \in Requests |-> Unbegun]
          /\ collector[c] = Fresh /\ record[c] = NoRecord /\ fate[c] = "none"
      BY DEF TelemetryInit
    <3>2. /\ Begun(operation[c]) = {} /\ Terminated(operation[c]) = {}
          /\ OpenRequests(operation[c]) = {} /\ OpenFlights(operation[c]) = {}
      BY <3>1 DEF Begun, Terminated, OpenRequests, OpenFlights, Unbegun
    <3>3. Counted(operation[c], collector[c])
      BY <3>1, <3>2, FS_EmptySet DEF Counted, Fresh
    <3>4. OperationsOK(operation[c])
      <4>1. operation[c] \in [Requests -> OperationType]
        BY <2>1 DEF CallsTypeOK
      <4>2. \A r \in Requests : operation[c][r].request = "none" /\ operation[c][r].flight = "none" /\ ~operation[c][r].terminal
        BY <3>1 DEF Unbegun
      <4> QED BY <4>1, <4>2 DEF OperationsOK
    <3>5. /\ ~record[c].made /\ ~collector[c].delayed /\ handler[c] \in HandlerType
          /\ collector[c] \in CollectorType /\ record[c] \in RecordType /\ fate[c] \in Fates
      <4>1. ~record[c].made /\ ~collector[c].delayed
        BY <3>1 DEF NoRecord, Fresh
      <4> QED BY <2>1, <4>1 DEF CallsTypeOK
    <3> QED BY <3>1, <3>2, <3>3, <3>4, <3>5 DEF CallOK
  <2> QED BY <2>1, <2>2 DEF CallsOK
<1>2. JournalOK
  <2>1. /\ queue = [s \in Servers |-> <<>>] /\ writer = [s \in Servers |-> NotWriting]
        /\ lock = NoServer /\ journal = <<>> /\ alive = Servers /\ fate = [c \in Calls |-> "none"]
    BY DEF TelemetryInit
  <2>2. JournalTypeOK
    BY <2>1 DEF JournalTypeOK, WriterType, NotWriting
  <2>3. QueuesOK
    BY <2>1 DEF QueuesOK
  <2>4. WritersOK
    BY <2>1 DEF WritersOK, Writing, NotWriting
  <2>5. PiecesOK
    <3>1. Len(journal) = 0 /\ 1 .. Len(journal) = {}
      BY <2>1
    <3> QED BY <2>1, <3>1 DEF PiecesOK
  <2> QED BY <2>2, <2>3, <2>4, <2>5 DEF JournalOK
<1> QED BY <1>1, <1>2 DEF TelemetryInv

LEMMA TelemetryGoesOn ==
  ASSUME TelemetryInv, [TelemetryNext]_telemetryVars
  PROVE  TelemetryInv'
<1>1. CallsOK /\ JournalOK /\ alive \subseteq Servers
  BY DEF TelemetryInv, JournalOK, JournalTypeOK
<1>2. ASSUME NEW c \in Calls, LeavesTheWriter(c)
      PROVE  TelemetryInv'
  BY <1>1, <1>2, CallStepKeepsJournal DEF TelemetryInv, LeavesTheWriter
<1>3. ASSUME NEW c \in Calls, NEW s \in Servers, CallTool(c, s)
      PROVE  TelemetryInv'
  BY <1>1, <1>2, <1>3, CallToolSafe
<1>4. ASSUME NEW c \in Calls, NEW r \in Requests, BeginRequest(c, r)
      PROVE  TelemetryInv'
  BY <1>1, <1>2, <1>4, BeginRequestSafe
<1>5. ASSUME NEW c \in Calls, NEW r \in Requests, DenyRequest(c, r) \/ Try(c, r)
      PROVE  TelemetryInv'
  BY <1>1, <1>2, <1>5, DenyRequestSafe, TrySafe
<1>6. ASSUME NEW c \in Calls, NEW r \in Requests, LeaveRequest(c, r)
      PROVE  TelemetryInv'
  BY <1>1, <1>2, <1>6, LeaveRequestSafe
<1>7. ASSUME NEW c \in Calls, NEW r \in Requests, FlightEnds(c, r)
      PROVE  TelemetryInv'
  BY <1>1, <1>2, <1>7, FlightEndsSafe
<1>8. ASSUME NEW c \in Calls, CallReturns(c)
      PROVE  TelemetryInv'
  BY <1>1, <1>2, <1>8, CallReturnsSafe
<1>9. ASSUME NEW s \in Servers, Write(s)
      PROVE  TelemetryInv'
  BY <1>1, <1>9, TakeLockSafe, OpenJournalSafe, WriteLineSafe, RepairJournalSafe DEF Write, TelemetryInv
<1>10. ASSUME ClearLock \/ \E s \in Servers : Die(s)
       PROVE  TelemetryInv'
  BY <1>1, <1>10, DieSafe, ClearLockSafe DEF TelemetryInv
<1>11. CASE UNCHANGED telemetryVars
  <2>1. /\ handler' = handler /\ collector' = collector /\ operation' = operation /\ record' = record
        /\ fate' = fate /\ queue' = queue /\ journal' = journal /\ writer' = writer /\ lock' = lock
        /\ alive' = alive
    BY <1>11 DEF telemetryVars, callVars, writeVars
  <2>2. CallsOK'
    BY <1>1, <2>1 DEF CallsOK, CallsTypeOK
  <2>3. JournalTypeOK' /\ QueuesOK' /\ WritersOK'
    BY <1>1, <2>1 DEF JournalOK, JournalTypeOK, QueuesOK, WritersOK, Writing
  <2>4. PiecesOK'
    BY <1>1, <2>1 DEF JournalOK, PiecesOK, OwnerOf
  <2> QED BY <1>1, <2>1, <2>2, <2>3, <2>4 DEF TelemetryInv, JournalOK
<1> QED BY <1>3, <1>4, <1>5, <1>6, <1>7, <1>8, <1>9, <1>10, <1>11 DEF TelemetryNext

LEMMA RecordsStandOnLines ==
  ASSUME TelemetryInv
  PROVE  OnLines
<1>1. JournalTypeOK /\ WritersOK /\ PiecesOK /\ journal \in Seq(PieceType) /\ CallsTypeOK
  BY DEF TelemetryInv, JournalOK, JournalTypeOK, CallsOK
<1>2. DOMAIN journal = 1 .. Len(journal) /\ \A i \in DOMAIN journal : journal[i] \in PieceType
  BY <1>1
<1>3. Cardinality({s \in alive : Writing(s)}) <= 1
  <2> DEFINE T == {s \in alive : Writing(s)}
  <2>1. T \in SUBSET {lock}
    BY <1>1 DEF WritersOK
  <2>2. IsFiniteSet({lock}) /\ Cardinality({lock}) = 1
    BY FS_Singleton
  <2> HIDE DEF T
  <2>3. Cardinality(T) <= Cardinality({lock})
    BY <2>1, <2>2, FS_Subset
  <2>4. Cardinality(T) <= 1
    BY <2>2, <2>3
  <2> QED BY <2>4 DEF T
<1> DEFINE Whole(c) == {i \in DOMAIN journal : journal[i] = [call |-> c, whole |-> TRUE]}
<1>4. ASSUME NEW c \in Calls
      PROVE  Cardinality(Whole(c)) \in
               CASE fate[c] = "written" -> {1} [] fate[c] = "failed" -> {0, 1} [] OTHER -> {0}
  <2> DEFINE W == {i \in DOMAIN journal : journal[i] = [call |-> c, whole |-> TRUE]}
  <2>1. \A i : i \in W <=> i \in 1 .. Len(journal) /\ journal[i].call = c /\ journal[i].whole
    <3> SUFFICES ASSUME NEW i \in DOMAIN journal
                 PROVE  journal[i] = [call |-> c, whole |-> TRUE] <=> journal[i].call = c /\ journal[i].whole
      BY <1>2
    <3> DEFINE l == journal[i]
    <3>1. l \in PieceType
      BY <1>2
    <3> HIDE DEF l
    <3>2. l = [call |-> l.call, whole |-> l.whole] /\ l.whole \in BOOLEAN
      BY <3>1 DEF PieceType
    <3>3. l.call = c /\ l.whole => l = [call |-> c, whole |-> TRUE]
      <4>1. l.whole => l.whole = TRUE
        BY <3>2
      <4> QED BY <3>2, <4>1
    <3>4. l = [call |-> c, whole |-> TRUE] => l.call = c /\ l.whole
      OBVIOUS
    <3> QED BY <3>3, <3>4 DEF l
  <2> HIDE DEF W
  <2>2. W = {} \/ \E i : W = {i}
    <3>1. \A i, j \in W : i = j
      BY <1>1, <2>1 DEF PiecesOK
    <3> QED BY <3>1
  <2>3. W # {} => fate[c] \in {"written", "failed"}
    BY <1>1, <2>1 DEF PiecesOK
  <2>4. fate[c] = "written" => W # {}
    BY <1>1, <2>1 DEF PiecesOK
  <2>5. (W = {} => Cardinality(W) = 0) /\ (W # {} => Cardinality(W) = 1)
    BY <2>2, FS_EmptySet, FS_Singleton
  <2>6. Cardinality(W) \in
          CASE fate[c] = "written" -> {1} [] fate[c] = "failed" -> {0, 1} [] OTHER -> {0}
    BY <2>3, <2>4, <2>5
  <2> QED BY <2>6 DEF W
<1> DEFINE Owner(i) == handler[journal[i].call].server
           LeftBehind(i) ==
             /\ ~journal[i].whole
             /\ \/ fate[journal[i].call] = "torn"
                \/ fate[journal[i].call] = "queued" /\ Owner(i) \notin alive
<1>5. \A i \in DOMAIN journal : ~journal[i].whole =>
        LeftBehind(i) \/ (i = Len(journal) /\ writer[Owner(i)].at = "repair")
  BY <1>1, <1>2 DEF PiecesOK, OwnerOf
<1>6. ASSUME NEW c \in Calls, NEW i \in Whole(c)
      PROVE  i = 1 \/ journal[i - 1].whole \/ LeftBehind(i - 1)
  <2>1. i \in 1 .. Len(journal)
    BY <1>2
  <2>2. i = 1 \/ (i - 1 \in 1 .. Len(journal) /\ i - 1 # Len(journal))
    BY <2>1
  <2>3. i = 1 \/ (i - 1 \in DOMAIN journal /\ i - 1 # Len(journal))
    BY <1>2, <2>2
  <2> HIDE DEF LeftBehind
  <2> QED BY <1>5, <2>3
<1> QED BY <1>3, <1>4, <1>5, <1>6 DEF OnLines

LEMMA WhatIsRecordedIsFinal ==
  ASSUME TelemetryInv
  PROVE  RecordsAreFinal
<1> SUFFICES ASSUME NEW c \in Calls, record[c].made
             PROVE  /\ record[c].requests =
                         record[c].terminals + Cardinality({r \in Requests : operation[c][r].request = "denied"})
                    /\ \A r \in Requests : ~Underway(c, r)
                    /\ record[c] = [late |-> record[c].late, made |-> TRUE, requests |-> collector[c].requests,
                                    attempts |-> collector[c].attempts, terminals |-> collector[c].terminals]
  BY DEF RecordsAreFinal
<1>1. CallOK(handler[c], operation[c], collector[c], record[c], fate[c])
  BY DEF TelemetryInv, CallsOK
<1>2. Recorded(collector[c], record[c])
  BY <1>1 DEF CallOK
<1>3. /\ OpenRequests(operation[c]) = {} /\ OpenFlights(operation[c]) = {}
      /\ collector[c].requests = collector[c].terminals + Cardinality(Denied(operation[c]))
  <2>1. OperationsOK(operation[c]) /\ Counted(operation[c], collector[c]) /\ collector[c].leases = 0
    BY <1>1, <1>2 DEF CallOK, Recorded
  <2> QED BY <2>1, NoLeaseAllEnded
<1>4. \A r \in Requests : ~Underway(c, r)
  BY <1>3 DEF Underway, OpenRequests, OpenFlights
<1>5. record[c].requests = collector[c].requests /\ record[c].terminals = collector[c].terminals
  BY <1>2 DEF Recorded
<1> QED BY <1>2, <1>3, <1>4, <1>5 DEF Recorded, Denied

\* The journal can be relied on (src/telemetry/writer.ts and rci-transport.ts): every record that
\* was reported written is in it once, on a line of its own unless part of a record was left
\* behind before it, which happens only if a truncation failed or a writer died; and what a
\* record says of its call is all the call ever did, one end for every request but those that
\* were denied before they were sent.
THEOREM JournalCanBeReliedOn == TelemetrySafety => []JournalIsSound
<1>1. TelemetryInit => TelemetryInv
  BY TelemetryStarts
<1>2. TelemetryInv /\ [TelemetryNext]_telemetryVars => TelemetryInv'
  BY TelemetryGoesOn
<1>3. TelemetryInv => JournalIsSound
  BY RecordsStandOnLines, WhatIsRecordedIsFinal DEF JournalIsSound
<1> QED BY <1>1, <1>2, <1>3, PTL DEF TelemetrySafety

-----------------------------------------------------------------------------
(***************************************************************************)
(* A diagnosis.  Its sources and what they may say.                        *)
(***************************************************************************)
AllTools == {"internet", "dns", "device", "wifi", "client"}

LEMMA EverySource ==
  /\ SourceSet("internet") =
       {"version", "system", "internet", "interfaces", "routes", "dns", "configuration", "logs"}
  /\ SourceSet("dns") =
       {"version", "internet", "runtime", "proxyConfig", "nameServers", "routes", "interfaces", "logs"}
  /\ SourceSet("device") =
       {"version", "host", "bindings", "associations", "interfaces", "policies", "internet", "logs"}
  /\ SourceSet("wifi") = {"version", "interfaces", "associations"}
  /\ SourceSet("client") = {"host", "associations", "interfaces"}
BY DEF SourceSet, Sources

LEMMA ReadOnce ==
  ASSUME NEW t \in AllTools
  PROVE  /\ Len(Sources(t)) \in Nat \ {0} /\ DOMAIN Sources(t) = 1 .. Len(Sources(t))
         /\ \A i, j \in DOMAIN Sources(t) : Sources(t)[i] = Sources(t)[j] => i = j
         /\ \A i \in DOMAIN Sources(t) : Sources(t)[i] \in SourceSet(t)
         /\ \A s \in SourceSet(t) : \E i \in DOMAIN Sources(t) : s = Sources(t)[i]
<1>1. CASE t = "internet" BY <1>1 DEF SourceSet, Sources
<1>2. CASE t = "dns" BY <1>2 DEF SourceSet, Sources
<1>3. CASE t = "device" BY <1>3 DEF SourceSet, Sources
<1>4. CASE t = "wifi" BY <1>4 DEF SourceSet, Sources
<1>5. CASE t = "client" BY <1>5 DEF SourceSet, Sources
<1> QED BY <1>1, <1>2, <1>3, <1>4, <1>5 DEF AllTools

LEMMA HostComesEarly ==
  ASSUME NEW t \in AllTools, NEW i \in DOMAIN Sources(t), NEW j \in DOMAIN Sources(t),
         Sources(t)[i] = "host", j <= i
  PROVE  Sentinel(t, Sources(t)[j]) \/ Identity(Sources(t)[j])
BY DEF AllTools, Sources, Sentinel, Identity

LEMMA FactsAreAvailable ==
  ASSUME NEW t \in AllTools, NEW s \in SourceSet(t), NEW f \in Facts(t, s)
  PROVE  f.state = "available"
         /\ (t = "internet" /\ s = "routes" => f.best \in f.usable \cup {NoInterface})
<1>1. CASE s = "internet" /\ t # "device"
  BY <1>1 DEF Facts, InternetFacts
<1>2. CASE s = "interfaces" \/ s = "dns" \/ s = "configuration"
  BY <1>2 DEF Facts
<1>3. CASE s = "routes"
  BY <1>3 DEF Facts, RouteFacts
<1>4. CASE s \in {"runtime", "proxyConfig", "nameServers"}
  BY <1>4 DEF Facts, DnsFacts
<1>5. CASE s \in {"host", "bindings", "associations", "policies"}
  BY <1>5 DEF Facts, DeviceFacts, WifiFacts, StationFacts
<1>6. CASE s \in {"version", "system", "logs"} \/ (s = "internet" /\ t = "device")
  BY <1>6 DEF Facts
<1> QED BY <1>1, <1>2, <1>3, <1>4, <1>5, <1>6, EverySource DEF AllTools

-----------------------------------------------------------------------------
(***************************************************************************)
(* What a report is built from: every source has been read or is missing,  *)
(* the device's own record among those read.                               *)
(***************************************************************************)
Evident(t, e) ==
  /\ e = [s \in SourceSet(t) |-> e[s]]
  /\ "host" \in SourceSet(t) => Read(e, "host")
  /\ t = "internet" /\ Read(e, "routes") => e["routes"].best \in e["routes"].usable \cup {NoInterface}

LEMMA UnhealthyInternet ==
  ASSUME NEW e
  PROVE  InternetStatus(e) = "unhealthy" <=>
           \/ UplinkDown(e)
           \/ /\ Current(e)
              /\ \/ e["internet"].internet = "no"
                 \/ /\ ~Conflict(e)
                    /\ \/ e["internet"].gateway = "no"
                       \/ e["internet"].gateway = "yes" /\ e["internet"].dns = "no"
<1> DEFINE c == InternetChecks(e)
<1>1. c = [internet |-> c.internet, wan |-> c.wan, route |-> c.route, dns |-> c.dns, vpn |-> c.vpn]
  BY DEF InternetChecks
<1>2. c.internet = "fail" <=> Current(e) /\ ~Conflict(e) /\ "no" \in {e["internet"].internet, e["internet"].gateway}
  BY DEF InternetChecks
<1>3. c.wan = "fail" <=> UplinkDown(e)
  BY DEF InternetChecks
<1>4. c.route = "fail" => Current(e) /\ e["internet"].internet = "no"
  BY DEF InternetChecks
<1>5. c.dns = "fail" <=> ~Conflict(e) /\ Current(e) /\ e["internet"].gateway = "yes" /\ e["internet"].dns = "no"
  BY DEF InternetChecks
<1>6. c.vpn # "fail"
  BY DEF InternetChecks
<1> HIDE DEF c
<1>7. "fail" \in {c[n] : n \in DOMAIN c} <=>
        "fail" \in {c.internet, c.wan, c.route, c.dns, c.vpn}
  BY <1>1
<1>8. InternetStatus(e) = "unhealthy" <=>
        UplinkDown(e) \/ (Current(e) /\ e["internet"].internet = "no") \/ "fail" \in {c[n] : n \in DOMAIN c}
  BY DEF InternetStatus, c
<1> QED BY <1>2, <1>3, <1>4, <1>5, <1>6, <1>7, <1>8

LEMMA HealthyInternet ==
  ASSUME NEW e, InternetStatus(e) = "healthy"
  PROVE  /\ \A n \in {"internet", "wan", "route", "dns", "vpn"} : InternetChecks(e)[n] = "pass"
         /\ Read(e, "dns") => e["dns"].health # "unhealthy"
<1> DEFINE c == InternetChecks(e)
<1>1. c = [internet |-> c.internet, wan |-> c.wan, route |-> c.route, dns |-> c.dns, vpn |-> c.vpn]
  BY DEF InternetChecks
<1> HIDE DEF c
<1>2. {c[n] : n \in DOMAIN c} = {"pass"} /\ (Read(e, "dns") => e["dns"].health # "unhealthy")
  BY DEF InternetStatus, c
<1>3. \A n \in DOMAIN c : c[n] = "pass"
  BY <1>2
<1>4. DOMAIN c = {"internet", "wan", "route", "dns", "vpn"}
  BY <1>1
<1> QED BY <1>2, <1>3, <1>4 DEF c

LEMMA InternetBacked ==
  ASSUME NEW e, Evident("internet", e)
  PROVE  /\ InternetStatus(e) = "unhealthy" => ~Blameless("internet", e)
         /\ InternetStatus(e) = "healthy" => Proven("internet", e)
<1>1. ASSUME InternetStatus(e) = "unhealthy"
      PROVE  ~Blameless("internet", e)
  BY <1>1, UnhealthyInternet DEF Blameless, UplinkDown
<1>2. ASSUME InternetStatus(e) = "healthy"
      PROVE  Proven("internet", e)
  <2> DEFINE c == InternetChecks(e)
  <2>1. c.internet = "pass" /\ c.wan = "pass" /\ c.route = "pass" /\ c.vpn = "pass"
    BY <1>2, HealthyInternet
  <2>2. Current(e) /\ e["internet"].internet = "yes" /\ "no" \notin {e["internet"].gateway, e["internet"].dns}
    BY <2>1 DEF InternetChecks, Conflict
  <2>3. Read(e, "interfaces") /\ e["interfaces"].wan = "up"
    BY <2>1 DEF InternetChecks
  <2>4. /\ Read(e, "routes") /\ e["routes"].usable # {} /\ ~Active(e).ambiguous
        /\ Active(e).routes \subseteq {"wan"}
    BY <2>1, <2>3 DEF InternetChecks
  <2>5. Active(e).routes \subseteq e["routes"].usable /\ Active(e).routes # {}
    <3> DEFINE usable == e["routes"].usable
               via == e["internet"].via
               defaults == usable \cap e["interfaces"].defaults
    <3>1. CASE via # NoInterface
      <4>1. Active(e) = [routes |-> usable \cap {via}, ambiguous |-> via \notin usable]
        BY <2>2, <2>3, <2>4, <3>1 DEF Active
      <4>2. CASE via \in usable
        <5>1. Active(e).routes = e["routes"].usable \cap {via}
          BY <4>1
        <5> QED BY <4>2, <5>1
      <4>3. CASE via \notin usable
        <5>1. Active(e) = [routes |-> usable \cap {via}, ambiguous |-> TRUE]
          BY <4>1, <4>3
        <5> QED BY <2>4, <5>1
      <4> QED BY <4>2, <4>3
    <3>2. CASE via = NoInterface /\ Cardinality(usable) = 1
      <4>1. Active(e) = [routes |-> usable, ambiguous |-> FALSE]
        BY <2>2, <2>3, <2>4, <3>2 DEF Active
      <4>2. Active(e).routes = e["routes"].usable
        BY <4>1
      <4> QED BY <2>4, <4>2
    <3>3. CASE via = NoInterface /\ Cardinality(usable) > 1 /\ Cardinality(defaults) = 1
      <4>1. Active(e) = [routes |-> defaults, ambiguous |-> FALSE]
        BY <2>2, <2>3, <2>4, <3>3 DEF Active
      <4>2. defaults # {}
        BY <3>3, FS_EmptySet
      <4> QED BY <2>4, <4>1, <4>2
    <3>4. CASE /\ via = NoInterface /\ Cardinality(usable) # 1
               /\ ~(Cardinality(usable) > 1 /\ Cardinality(defaults) = 1)
      <4>1. Active(e) = [routes |-> {e["routes"].best} \ {NoInterface},
                         ambiguous |-> e["routes"].best = NoInterface]
        BY <2>2, <2>3, <2>4, <3>4 DEF Active
      <4>2. e["routes"].best # NoInterface /\ Active(e).routes = {e["routes"].best} \ {NoInterface}
        <5>1. CASE e["routes"].best = NoInterface
          <6>1. Active(e) = [routes |-> {}, ambiguous |-> TRUE]
            BY <4>1, <5>1
          <6> QED BY <2>4, <6>1
        <5>2. CASE e["routes"].best # NoInterface
          <6>1. Active(e).routes = {e["routes"].best} \ {NoInterface}
            BY <4>1
          <6> QED BY <5>2, <6>1
        <5> QED BY <5>1, <5>2
      <4>3. e["routes"].best \in e["routes"].usable
        BY <2>4, <4>2 DEF Evident
      <4> QED BY <4>2, <4>3
    <3> QED BY <3>1, <3>2, <3>3, <3>4
  <2>6. Read(e, "dns") => e["dns"].health # "unhealthy"
    BY <1>2, HealthyInternet
  <2>7. "wan" \in e["routes"].usable
    BY <2>4, <2>5
  <2> QED BY <2>2, <2>3, <2>4, <2>6, <2>7 DEF Proven
<1> QED BY <1>1, <1>2

LEMMA PairIsTwo ==
  ASSUME NEW a, NEW b, a # b
  PROVE  Cardinality({a, b}) = 2
<1>1. IsFiniteSet({a}) /\ Cardinality({a}) = 1
  BY FS_Singleton
<1>2. Cardinality({a} \cup {b}) = Cardinality({a}) + 1
  BY <1>1, FS_AddElement
<1>3. {a, b} = {a} \cup {b}
  OBVIOUS
<1> QED BY <1>1, <1>2, <1>3

LEMMA DnsBacked ==
  ASSUME NEW e, Evident("dns", e)
  PROVE  /\ DnsStatus(e) = "unhealthy" <=>
              \/ Read(e, "runtime") /\ e["runtime"].rows = {"bad"}
              \/ Current(e) /\ ~Conflict(e) /\ e["internet"].gateway = "yes" /\ e["internet"].dns = "no"
         /\ DnsStatus(e) = "healthy" => Proven("dns", e)
<1> DEFINE c == DnsChecks(e)
           core == {c[n] : n \in {m \in DOMAIN c : m # "routing" \/ c[m] # "unknown"}}
           refused == {s \in {"proxyConfig", "nameServers"} : ~Read(e, s)}
<1>1. c = [proxy |-> c.proxy, reachability |-> c.reachability, configuration |-> c.configuration,
           routing |-> c.routing]
  BY DEF DnsChecks
<1>2. DnsStatus(e) = CASE "fail" \in core -> "unhealthy"
                       [] "fail" \notin core -> IF core # {"pass"} THEN "degraded" ELSE "healthy"
  BY DEF DnsStatus
<1>3. /\ c.proxy = "fail" <=> Read(e, "runtime") /\ e["runtime"].rows = {"bad"}
      /\ c.proxy = "pass" =>
           Read(e, "runtime") /\ "bad" \notin e["runtime"].rows /\ e["runtime"].proxy # "failed"
  BY DEF DnsChecks
<1>4. /\ c.reachability = "fail" <=>
           Current(e) /\ ~Conflict(e) /\ e["internet"].gateway = "yes" /\ e["internet"].dns = "no"
      /\ c.reachability = "pass" => Current(e) /\ e["internet"].dns = "yes"
  BY DEF DnsChecks
<1>5. c.configuration = CASE Cardinality(refused) = 2 -> "unknown"
                          [] Cardinality(refused) = 1 -> "warning" [] OTHER -> "pass"
  BY DEF DnsChecks
<1>6. c.routing # "fail"
  BY DEF DnsChecks
<1> HIDE DEF c
<1>7. "fail" \in core <=> "fail" \in {c.proxy, c.reachability, c.configuration, c.routing}
  BY <1>1, <1>6
<1>8. core = {"pass"} => c.proxy = "pass" /\ c.reachability = "pass" /\ c.configuration = "pass"
  <2>1. {"proxy", "reachability", "configuration"} \subseteq {m \in DOMAIN c : m # "routing" \/ c[m] # "unknown"}
    BY <1>1
  <2> QED BY <2>1
<1> HIDE DEF core
<1>9. ASSUME ~Read(e, "proxyConfig") \/ ~Read(e, "nameServers")
      PROVE  Cardinality(refused) \in {1, 2}
  <2>1. refused \in {{"proxyConfig"}, {"nameServers"}, {"proxyConfig", "nameServers"}}
    BY <1>9
  <2>2. /\ Cardinality({"proxyConfig"}) = 1 /\ Cardinality({"nameServers"}) = 1
        /\ Cardinality({"proxyConfig", "nameServers"}) = 2
    <3>1. "proxyConfig" # "nameServers"
      OBVIOUS
    <3> QED BY <3>1, FS_Singleton, PairIsTwo
  <2> QED BY <2>1, <2>2
<1> HIDE DEF refused
<1>10. c.configuration # "fail" /\ (c.configuration = "pass" => Read(e, "proxyConfig") /\ Read(e, "nameServers"))
  BY <1>5, <1>9
<1>11. DnsStatus(e) = "unhealthy" <=>
         \/ Read(e, "runtime") /\ e["runtime"].rows = {"bad"}
         \/ Current(e) /\ ~Conflict(e) /\ e["internet"].gateway = "yes" /\ e["internet"].dns = "no"
  <2>1. DnsStatus(e) = "unhealthy" <=> "fail" \in core
    BY <1>2
  <2> QED BY <1>3, <1>4, <1>6, <1>7, <1>10, <2>1
<1>12. ASSUME DnsStatus(e) = "healthy"
       PROVE  Proven("dns", e)
  <2>1. core = {"pass"}
    BY <1>2, <1>12
  <2> QED BY <1>3, <1>4, <1>8, <1>10, <2>1 DEF Proven
<1> QED BY <1>11, <1>12

LEMMA DeviceBacked ==
  ASSUME NEW e, Evident("device", e)
  PROVE  /\ DeviceStatus(e) = "unhealthy" <=>
              \/ e["host"].kind = "wireless" /\ Authenticated(e) = "no"
              \/ e["host"].permitted = "no"
         /\ DeviceStatus(e) = "healthy" => Proven("device", e)
<1> DEFINE c == DeviceChecks(e)
           core == {"pass"} \cup {c[n] : n \in DOMAIN c}
<1>1. c = [address |-> c.address, connection |-> c.connection, wifi |-> c.wifi, access |-> c.access,
           policy |-> c.policy]
  BY DEF DeviceChecks
<1>2. DeviceStatus(e) = CoreStatus(core)
  BY DEF DeviceStatus
<1>3. c.address # "fail" /\ c.connection # "fail" /\ c.policy # "fail"
  BY DEF DeviceChecks
<1>4. c.wifi = "fail" <=> e["host"].kind = "wireless" /\ Authenticated(e) = "no"
  BY DEF DeviceChecks
<1>5. c.access = "fail" <=> e["host"].permitted = "no"
  BY DEF DeviceChecks
<1>6. /\ c.access \in {"pass", "not-applicable"} => e["host"].permitted = "yes"
      /\ c.connection \in {"pass", "not-applicable"} => e["host"].active = "yes"
      /\ c.policy \in {"pass", "not-applicable"} => Read(e, "policies")
  BY DEF DeviceChecks
<1> HIDE DEF c
<1>7. core = {"pass", c.address, c.connection, c.wifi, c.access, c.policy}
  BY <1>1
<1> HIDE DEF core
<1>8. CoreStatus(core) = "unhealthy" <=> "fail" \in core
  BY DEF CoreStatus
<1>9. CoreStatus(core) = "healthy" => core \subseteq {"pass", "not-applicable"}
  BY DEF CoreStatus
<1> QED BY <1>2, <1>3, <1>4, <1>5, <1>6, <1>7, <1>8, <1>9 DEF Proven

LEMMA WifiBacked ==
  ASSUME NEW e, Evident("wifi", e)
  PROVE  /\ WifiStatus(e) = "unhealthy" <=> Read(e, "associations") /\ e["associations"].rejected
         /\ WifiStatus(e) = "healthy" => Proven("wifi", e)
<1> DEFINE c == WifiChecks(e)
           core == {c[n] : n \in DOMAIN c}
<1>1. c = [sources |-> c.sources, radios |-> c.radios, accessPoints |-> c.accessPoints, clients |-> c.clients,
           signal |-> c.signal]
  BY DEF WifiChecks
<1>2. WifiStatus(e) = CoreStatus(core)
  BY DEF WifiStatus
<1>3. c.sources # "fail" /\ c.radios # "fail" /\ c.accessPoints # "fail" /\ c.signal # "fail"
  BY DEF WifiChecks
<1>4. c.clients = "fail" <=> Read(e, "associations") /\ e["associations"].rejected
  BY DEF WifiChecks
<1>5. c.sources \in {"pass", "not-applicable"} => \A s \in DOMAIN e : Read(e, s)
  BY DEF WifiChecks
<1> HIDE DEF c
<1>6. core = {c.sources, c.radios, c.accessPoints, c.clients, c.signal}
  BY <1>1
<1> HIDE DEF core
<1>7. CoreStatus(core) = "unhealthy" <=> "fail" \in core
  BY DEF CoreStatus
<1>8. CoreStatus(core) = "healthy" => core \subseteq {"pass", "not-applicable"}
  BY DEF CoreStatus
<1> QED BY <1>2, <1>3, <1>4, <1>5, <1>6, <1>7, <1>8 DEF Proven

\* What the association says of a client, or else its own record.
ClientSays(e) ==
  IF Read(e, "associations") /\ e["associations"].station # "none"
  THEN e["associations"].authenticated ELSE e["host"].authenticated

LEMMA ClientBacked ==
  ASSUME NEW e, Evident("client", e)
  PROVE  /\ ClientStatus(e) = "unhealthy" <=>
              Kind(e) # "wired" /\ Read(e, "associations") /\ ClientSays(e) = "no"
         /\ ClientStatus(e) = "healthy" => Proven("client", e)
<1> DEFINE c == ClientChecks(e)
           core == {c[n] : n \in DOMAIN c}
<1>1. c = [connection |-> c.connection, association |-> c.association, authentication |-> c.authentication,
           signal |-> c.signal, accessPoint |-> c.accessPoint, radio |-> c.radio]
  BY DEF ClientChecks
<1>2. ClientStatus(e) = IF Kind(e) = "wired" THEN "not-applicable" ELSE CoreStatus(core)
  BY DEF ClientStatus
<1>3. /\ c.connection # "fail" /\ c.association # "fail" /\ c.signal # "fail" /\ c.accessPoint # "fail"
      /\ c.radio # "fail"
  BY DEF ClientChecks
<1>4. c.authentication = "fail" <=> Read(e, "associations") /\ ClientSays(e) = "no"
  BY DEF ClientChecks, ClientSays
<1>5. /\ c.association \in {"pass", "not-applicable"} => Read(e, "associations")
      /\ c.radio \in {"pass", "not-applicable"} => Read(e, "interfaces")
  BY DEF ClientChecks
<1> HIDE DEF c
<1>6. core = {c.connection, c.association, c.authentication, c.signal, c.accessPoint, c.radio}
  BY <1>1
<1> HIDE DEF core
<1>7. CoreStatus(core) = "unhealthy" <=> "fail" \in core
  BY DEF CoreStatus
<1>8. CoreStatus(core) = "healthy" => core \subseteq {"pass", "not-applicable"}
  BY DEF CoreStatus
<1>9. ClientStatus(e) = "unhealthy" <=> Kind(e) # "wired" /\ "fail" \in core
  BY <1>2, <1>7
<1>10. ASSUME ClientStatus(e) = "healthy"
       PROVE  Proven("client", e)
  <2>1. core \subseteq {"pass", "not-applicable"}
    BY <1>2, <1>8, <1>10
  <2>2. Read(e, "associations") /\ Read(e, "interfaces") /\ Read(e, "host")
    BY <1>5, <1>6, <2>1, EverySource DEF Evident
  <2>3. DOMAIN e = {"host", "associations", "interfaces"}
    BY EverySource DEF Evident
  <2> QED BY <2>2, <2>3 DEF Proven
<1> QED BY <1>3, <1>4, <1>6, <1>9, <1>10

LEMMA Backed ==
  ASSUME NEW t \in AllTools, NEW e, Evident(t, e)
  PROVE  /\ Status(t, e) = "unhealthy" => ~Blameless(t, e)
         /\ Status(t, e) = "healthy" => Proven(t, e)
<1>1. CASE t = "internet"
  BY <1>1, InternetBacked DEF Status
<1>2. CASE t = "dns"
  BY <1>2, DnsBacked DEF Status, Blameless
<1>3. CASE t = "device"
  BY <1>3, DeviceBacked DEF Status, Blameless, Authenticated
<1>4. CASE t = "wifi"
  BY <1>4, WifiBacked DEF Status, Blameless
<1>5. CASE t = "client"
  BY <1>5, ClientBacked DEF Status, Blameless, ClientSays
<1> QED BY <1>1, <1>2, <1>3, <1>4, <1>5 DEF AllTools

-----------------------------------------------------------------------------
(***************************************************************************)
(* Evidence with one source lost.                                          *)
(***************************************************************************)
Lost(e, s) == [e EXCEPT ![s] = Missing("refused")]

LEMMA OthersRemain ==
  ASSUME NEW t, NEW e, Evident(t, e), NEW s \in SourceSet(t)
  PROVE  /\ DOMAIN Lost(e, s) = SourceSet(t)
         /\ ~Read(Lost(e, s), s)
         /\ \A u \in SourceSet(t) \ {s} : Lost(e, s)[u] = e[u]
         /\ \A u : u # s => (Read(Lost(e, s), u) <=> Read(e, u))
BY DEF Evident, Lost, Read, Missing

LEMMA StillEvident ==
  ASSUME NEW t, NEW e, Evident(t, e), NEW s \in SourceSet(t) \ {"host"}
  PROVE  Evident(t, Lost(e, s))
<1>1. Lost(e, s) = [u \in SourceSet(t) |-> Lost(e, s)[u]]
  BY DEF Evident, Lost
<1>2. "host" \in SourceSet(t) => Read(Lost(e, s), "host")
  BY OthersRemain DEF Evident
<1>3. ASSUME t = "internet", Read(Lost(e, s), "routes")
      PROVE  Lost(e, s)["routes"] = e["routes"] /\ Read(e, "routes")
  BY <1>3, OthersRemain, EverySource
<1> QED BY <1>1, <1>2, <1>3 DEF Evident

LEMMA LossAccusesNobody ==
  ASSUME NEW t \in AllTools, NEW e, Evident(t, e), NEW s \in SourceSet(t) \ Arbiter(t),
         Status(t, Lost(e, s)) = "unhealthy"
  PROVE  Status(t, e) = "unhealthy"
<1> DEFINE w == Lost(e, s)
<1>1. /\ DOMAIN w = SourceSet(t) /\ ~Read(w, s)
      /\ \A u \in SourceSet(t) \ {s} : w[u] = e[u]
      /\ \A u : u # s => (Read(w, u) <=> Read(e, u))
  BY OthersRemain
<1>2. s # "host" => Evident(t, w)
  BY StillEvident
<1> HIDE DEF w
<1>3. CASE t = "internet"
  <2>1. s # "internet" /\ w["internet"] = e["internet"] /\ (Current(w) <=> Current(e)) /\ (Conflict(w) <=> Conflict(e))
    BY <1>1, <1>3, EverySource DEF Arbiter, Current, Conflict
  <2>2. ASSUME UplinkDown(w)
        PROVE  UplinkDown(e)
    <3>1. s # "interfaces" /\ w["interfaces"] = e["interfaces"] /\ Read(e, "interfaces")
      BY <1>1, <1>3, <2>2, EverySource DEF UplinkDown
    <3>2. CASE s = "routes"
      <4>1. Active(w) = [routes |-> {}, ambiguous |-> FALSE]
        BY <1>1, <3>2 DEF Active
      <4>2. Active(w).routes = {}
        BY <4>1
      <4> QED BY <2>1, <2>2, <3>1, <4>2 DEF UplinkDown
    <3>3. CASE s # "routes"
      <4>1. w["routes"] = e["routes"] /\ (Read(w, "routes") <=> Read(e, "routes"))
        BY <1>1, <1>3, <3>3, EverySource
      <4>2. Active(w) = Active(e)
        BY <1>1, <2>1, <3>1, <4>1 DEF Active
      <4> QED BY <2>1, <2>2, <3>1, <4>2 DEF UplinkDown
    <3> QED BY <3>2, <3>3
  <2> QED BY <1>3, <2>1, <2>2, UnhealthyInternet DEF Status, w
<1>4. CASE t = "dns"
  <2>1. ASSUME Read(w, "runtime"), w["runtime"].rows = {"bad"}
        PROVE  Read(e, "runtime") /\ e["runtime"].rows = {"bad"}
    BY <1>1, <1>4, <2>1, EverySource
  <2>2. ASSUME Current(w)
        PROVE  w["internet"] = e["internet"] /\ Current(e) /\ (Conflict(w) <=> Conflict(e))
    BY <1>1, <1>4, <2>2, EverySource DEF Current, Conflict
  <2> QED BY <1>2, <1>4, <2>1, <2>2, DnsBacked, EverySource DEF Status, w
<1>5. CASE t = "device"
  <2>1. s \notin {"host", "associations"} /\ w["host"] = e["host"] /\ w["associations"] = e["associations"]
    BY <1>1, <1>5, EverySource DEF Arbiter
  <2>2. Authenticated(w) = Authenticated(e)
    BY <1>1, <2>1 DEF Authenticated
  <2> QED BY <1>2, <1>5, <2>1, <2>2, DeviceBacked DEF Status, w
<1>6. CASE t = "wifi"
  <2>1. s # "associations"
    BY <1>1, <1>2, <1>6, WifiBacked, EverySource DEF Status, w
  <2> QED BY <1>1, <1>2, <1>6, <2>1, WifiBacked, EverySource DEF Status, w
<1>7. CASE t = "client"
  <2>1. s = "interfaces" /\ w["host"] = e["host"] /\ w["associations"] = e["associations"]
    BY <1>1, <1>7, EverySource DEF Arbiter
  <2>2. Kind(w) = Kind(e) /\ ClientSays(w) = ClientSays(e)
    BY <1>1, <2>1 DEF Kind, ClientSays
  <2> QED BY <1>1, <1>2, <1>7, <2>1, <2>2, ClientBacked DEF Status, w
<1> QED BY <1>3, <1>4, <1>5, <1>6, <1>7 DEF AllTools

LEMMA LossCompletesNothing ==
  ASSUME NEW t \in AllTools, NEW e, Evident(t, e), NEW s \in SourceSet(t) \ Arbiter(t),
         Complete(t, Lost(e, s))
  PROVE  Complete(t, e)
<1> DEFINE w == Lost(e, s)
<1>1. /\ DOMAIN w = SourceSet(t) /\ ~Read(w, s)
      /\ \A u \in SourceSet(t) \ {s} : w[u] = e[u]
      /\ \A u : u # s => (Read(w, u) <=> Read(e, u))
  BY OthersRemain
<1> HIDE DEF w
<1>2. /\ \A u \in Needed(t, w) : Read(w, u)
      /\ t = "internet" => w["configuration"].compared
      /\ t = "client" /\ Kind(w) # "wired" =>
           Kind(w) = "wireless" /\ w["interfaces"].accessPoint /\ w["interfaces"].radio
  BY DEF Complete, w
<1>3. CASE t = "internet" \/ t = "wifi"
  <2>1. Needed(t, w) = SourceSet(t)
    BY <1>3 DEF Needed
  <2> QED BY <1>1, <1>2, <2>1
<1>4. CASE t = "dns"
  <2>1. Needed(t, w) = SourceSet(t) \ {"version"} /\ Needed(t, e) = SourceSet(t) \ {"version"}
    BY <1>4 DEF Needed
  <2> QED BY <1>1, <1>2, <1>4, <2>1 DEF Complete
<1>5. CASE t = "device"
  <2>1. s # "host" /\ w["host"] = e["host"]
    BY <1>1, <1>5, EverySource DEF Arbiter
  <2>2. Needed(t, w) = Needed(t, e)
    BY <1>5, <2>1 DEF Needed
  <2> QED BY <1>1, <1>2, <1>5, <2>2 DEF Complete
<1>6. CASE t = "client"
  <2>1. s = "interfaces" /\ w["host"] = e["host"] /\ w["associations"] = e["associations"]
    BY <1>1, <1>6, EverySource DEF Arbiter
  <2>2. Kind(w) = Kind(e)
    BY <1>1, <2>1 DEF Kind
  <2>3. CASE Kind(e) = "wired"
    BY <1>6, <2>3 DEF Complete, Needed
  <2>4. CASE Kind(e) # "wired"
    <3>1. Needed(t, w) = SourceSet(t)
      BY <1>6, <2>2, <2>4 DEF Needed
    <3> QED BY <1>1, <1>2, <3>1
  <2> QED BY <2>3, <2>4
<1> QED BY <1>3, <1>4, <1>5, <1>6 DEF AllTools

-----------------------------------------------------------------------------
(***************************************************************************)
(* What has been gathered before the k-th read.                            *)
(***************************************************************************)
Entries(t, s) == Facts(t, s) \cup {Missing("refused"), Missing("transport")}

Gathered(t, k, lost, e) ==
  LET S == Sources(t) IN
  /\ e = [s \in SourceSet(t) |-> e[s]]
  /\ \A i \in DOMAIN S : i < k => e[S[i]] \in Entries(t, S[i])
  /\ \A i \in DOMAIN S : i < k /\ S[i] = "host" => Read(e, "host")
  /\ \A i \in DOMAIN S : i < k /\ e[S[i]] = Missing("transport") => lost
  /\ \A i \in DOMAIN S : \A j \in DOMAIN S :
       j < i /\ i < k /\ e[S[j]] = Missing("transport") => e[S[i]] = Missing("transport")
  /\ lost => \A i \in DOMAIN S : S[i] = "host" => i < k

DiagnosisInv ==
  /\ latched \in BOOLEAN /\ lateReads = 0
  /\ tool = NoTool => answer = NoAnswer /\ ~latched
  /\ tool # NoTool =>
       /\ tool \in Tools /\ at \in 1 .. Len(Sources(tool)) + 1
       /\ Gathered(tool, at, latched, evidence)
       /\ answer = NoAnswer => at \in DOMAIN Sources(tool)
       /\ answer.report => at = Len(Sources(tool)) + 1 /\ answer \in Answers(tool, evidence)

LEMMA GatheredIsEvident ==
  ASSUME NEW t \in AllTools, NEW lost, NEW e, Gathered(t, Len(Sources(t)) + 1, lost, e)
  PROVE  Evident(t, e)
<1> DEFINE S == Sources(t)
<1>1. \A i \in DOMAIN S : i < Len(S) + 1
  BY ReadOnce
<1>2. "host" \in SourceSet(t) => Read(e, "host")
  <2> SUFFICES ASSUME "host" \in SourceSet(t)
               PROVE  Read(e, "host")
    OBVIOUS
  <2>1. PICK i \in DOMAIN S : "host" = S[i]
    BY ReadOnce
  <2> QED BY <1>1, <2>1 DEF Gathered
<1>3. ASSUME t = "internet", Read(e, "routes")
      PROVE  e["routes"].best \in e["routes"].usable \cup {NoInterface}
  <2>1. "routes" \in SourceSet(t)
    BY <1>3, EverySource
  <2>2. PICK i \in DOMAIN S : "routes" = S[i]
    BY <2>1, ReadOnce
  <2>3. e["routes"] \in Entries(t, "routes")
    BY <1>1, <2>2 DEF Gathered
  <2>4. e["routes"] \in Facts(t, "routes")
    BY <1>3, <2>3 DEF Entries, Read, Missing
  <2> QED BY <1>3, <2>1, <2>4, FactsAreAvailable
<1>4. e = [s \in SourceSet(t) |-> e[s]]
  BY DEF Gathered
<1> QED BY <1>2, <1>3, <1>4 DEF Evident

LEMMA GatherOne ==
  ASSUME NEW t \in AllTools, NEW k \in DOMAIN Sources(t), NEW lost, NEW after, NEW e, NEW entry,
         Gathered(t, k, lost, e), entry \in Entries(t, Sources(t)[k]),
         Sources(t)[k] = "host" => entry.state = "available",
         lost => after, entry = Missing("transport") => after, lost => entry = Missing("transport"),
         after => \A i \in DOMAIN Sources(t) : Sources(t)[i] = "host" => i < k + 1
  PROVE  Gathered(t, k + 1, after, [e EXCEPT ![Sources(t)[k]] = entry])
<1> DEFINE S == Sources(t)
           w == [e EXCEPT ![S[k]] = entry]
<1>1. /\ k \in Nat /\ DOMAIN S \subseteq Nat /\ \A i \in DOMAIN S : S[i] \in SourceSet(t)
      /\ \A i, j \in DOMAIN S : S[i] = S[j] => i = j
  BY ReadOnce
<1>2. DOMAIN e = SourceSet(t) /\ w = [s \in SourceSet(t) |-> w[s]]
  BY DEF Gathered
<1>3. w[S[k]] = entry /\ \A i \in DOMAIN S : i # k => w[S[i]] = e[S[i]]
  BY <1>1, <1>2
<1>4. ASSUME NEW i \in DOMAIN S, i < k + 1, i # k
      PROVE  i < k
  BY <1>1, <1>4
<1>5. DOMAIN w = SourceSet(t)
  BY <1>2
<1> HIDE DEF w
<1>6. \A i \in DOMAIN S : i < k + 1 => w[S[i]] \in Entries(t, S[i])
  BY <1>3, <1>4 DEF Gathered
<1>7. ASSUME NEW i \in DOMAIN S, i < k + 1, S[i] = "host"
      PROVE  Read(w, "host")
  <2>1. CASE i = k
    BY <1>1, <1>3, <1>5, <1>7, <2>1 DEF Read
  <2>2. CASE i # k
    <3>1. Read(e, "host") /\ w["host"] = e["host"]
      BY <1>3, <1>4, <1>7, <2>2 DEF Gathered
    <3> QED BY <1>2, <1>5, <3>1 DEF Read
  <2> QED BY <2>1, <2>2
<1>8. \A i \in DOMAIN S : i < k + 1 /\ w[S[i]] = Missing("transport") => after
  BY <1>3, <1>4 DEF Gathered
<1>9. ASSUME NEW i \in DOMAIN S, NEW j \in DOMAIN S, j < i, i < k + 1, w[S[j]] = Missing("transport")
      PROVE  w[S[i]] = Missing("transport")
  <2>1. j # k /\ j < k
    BY <1>1, <1>9
  <2>2. e[S[j]] = Missing("transport") /\ lost
    BY <1>3, <1>9, <2>1 DEF Gathered
  <2>3. CASE i = k
    BY <1>3, <2>2, <2>3
  <2>4. CASE i # k
    BY <1>3, <1>4, <1>9, <2>2, <2>4 DEF Gathered
  <2> QED BY <2>3, <2>4
<1> QED BY <1>2, <1>6, <1>7, <1>8, <1>9 DEF Gathered, w

LEMMA DiagnosisInitially == DiagnosisInit => DiagnosisInv
BY DEF DiagnosisInit, DiagnosisInv, NoAnswer

LEMMA ToolsAreKnown == \A t \in Tools : t \in AllTools /\ t # NoTool
BY DiagnosisAssumption DEF AllTools, NoTool

LEMMA CallBegins ==
  ASSUME DiagnosisInv, NEW t \in Tools, CallDiagnosis(t)
  PROVE  DiagnosisInv'
<1>1. t \in AllTools /\ t # NoTool
  BY ToolsAreKnown
<1>2. Len(Sources(t)) \in Nat \ {0} /\ DOMAIN Sources(t) = 1 .. Len(Sources(t))
  BY <1>1, ReadOnce
<1>3. /\ tool' = t /\ at' = 1 /\ answer' = NoAnswer /\ ~latched' /\ latched' \in BOOLEAN /\ lateReads' = 0
      /\ evidence' = [s \in SourceSet(t) |-> Unread]
  BY DEF DiagnosisInv, CallDiagnosis
<1>4. Gathered(t, 1, FALSE, evidence')
  BY <1>2, <1>3 DEF Gathered
<1>5. Gathered(t, 1, latched', evidence') /\ ~answer'.report
  BY <1>3, <1>4 DEF NoAnswer
<1> QED BY <1>1, <1>2, <1>3, <1>5 DEF DiagnosisInv

LEMMA TakeKeeps ==
  ASSUME DiagnosisInv, NEW entry, Reading, Take(entry), entry \in Entries(tool, Source),
         Source = "host" => entry.state = "available",
         latched' \in BOOLEAN, latched => latched', entry = Missing("transport") => latched',
         latched => entry = Missing("transport"), lateReads' = 0,
         latched' => \A i \in DOMAIN Sources(tool) : Sources(tool)[i] = "host" => i < at + 1
  PROVE  DiagnosisInv'
<1> DEFINE S == Sources(tool)
<1>1. /\ tool \in AllTools /\ tool # NoTool /\ tool \in Tools /\ at \in DOMAIN S
      /\ Gathered(tool, at, latched, evidence)
  BY ToolsAreKnown DEF DiagnosisInv, Reading
<1>2. Len(S) \in Nat \ {0} /\ DOMAIN S = 1 .. Len(S)
  BY <1>1, ReadOnce
<1>3. tool' = tool /\ at' = at + 1 /\ evidence' = [evidence EXCEPT ![S[at]] = entry]
  BY DEF Take, Source
<1>4. Gathered(tool', at', latched', evidence')
  <2>1. /\ entry \in Entries(tool, S[at]) /\ (S[at] = "host" => entry.state = "available")
        /\ (latched' => \A i \in DOMAIN S : S[i] = "host" => i < at + 1)
    BY DEF Source
  <2>2. Gathered(tool, at + 1, latched', [evidence EXCEPT ![S[at]] = entry])
    BY <1>1, <2>1, GatherOne, SMTT(20)
  <2> QED BY <1>3, <2>2
<1>5. CASE at = Len(S)
  <2>1. answer' \in Answers(tool, evidence')
    BY <1>5 DEF Take
  <2>2. answer' # NoAnswer
    BY <2>1 DEF Answers, NoAnswer
  <2>3. at' = Len(Sources(tool')) + 1 /\ answer' \in Answers(tool', evidence')
        /\ at' \in 1 .. Len(Sources(tool')) + 1
    BY <1>2, <1>3, <1>5, <2>1
  <2>4. tool' # NoTool /\ tool' \in Tools
    BY <1>1, <1>3
  <2> QED BY <1>4, <2>2, <2>3, <2>4 DEF DiagnosisInv
<1>6. CASE at # Len(S)
  <2>1. answer' = NoAnswer
    BY <1>6 DEF Take, Reading
  <2>2. ~answer'.report /\ at' \in DOMAIN S
    BY <1>1, <1>2, <1>3, <1>6, <2>1 DEF NoAnswer
  <2> QED BY <1>1, <1>2, <1>3, <1>4, <2>1, <2>2 DEF DiagnosisInv
<1> QED BY <1>5, <1>6

LEMMA DiagnosisStep == DiagnosisInv /\ [DiagnosisNext]_diagnosisVars => DiagnosisInv'
<1> SUFFICES ASSUME DiagnosisInv, [DiagnosisNext]_diagnosisVars
             PROVE  DiagnosisInv'
  OBVIOUS
<1> DEFINE S == Sources(tool)
<1>1. ASSUME Reading
      PROVE  /\ tool \in AllTools /\ at \in DOMAIN S /\ at \in Nat /\ DOMAIN S \subseteq Nat
             /\ Source \in SourceSet(tool) /\ Gathered(tool, at, latched, evidence)
             /\ S[at] = Source
  <2>1. tool \in AllTools /\ at \in DOMAIN S /\ Gathered(tool, at, latched, evidence)
    BY <1>1, ToolsAreKnown DEF DiagnosisInv, Reading
  <2> QED BY <2>1, ReadOnce DEF Source
<1>2. ASSUME NEW t \in Tools, CallDiagnosis(t)
      PROVE  DiagnosisInv'
  BY <1>2, CallBegins
<1>3. ASSUME ReadAnswered
      PROVE  DiagnosisInv'
  <2>1. PICK f \in Facts(tool, Source) : Take(f)
    BY <1>3 DEF ReadAnswered
  <2>2. f.state = "available"
    BY <1>1, <1>3, FactsAreAvailable DEF ReadAnswered
  <2>3. f # Missing("transport")
    BY <2>2 DEF Missing
  <2>4. ~latched' /\ ~latched /\ latched' \in BOOLEAN /\ lateReads' = 0 /\ Reading
    BY <1>3 DEF ReadAnswered, Request, DiagnosisInv
  <2> QED BY <2>1, <2>2, <2>3, <2>4, TakeKeeps DEF Entries
<1>4. ASSUME ReadRefused
      PROVE  DiagnosisInv'
  <2>1. /\ Take(Missing("refused")) /\ Reading /\ Source # "host"
        /\ ~latched' /\ ~latched /\ latched' \in BOOLEAN /\ lateReads' = 0
    BY <1>4 DEF ReadRefused, Request, DiagnosisInv, Identity
  <2>2. Missing("refused") # Missing("transport") /\ Missing("refused") \in Entries(tool, Source)
    BY DEF Missing, Entries
  <2> QED BY <2>1, <2>2, TakeKeeps
<1>5. ASSUME ReadCut
      PROVE  DiagnosisInv'
  <2>1. /\ Take(Missing("transport")) /\ Reading /\ ~Sentinel(tool, Source) /\ ~Identity(Source)
        /\ latched' /\ ~latched /\ latched' \in BOOLEAN /\ lateReads' = 0
    BY <1>5 DEF ReadCut, Request, DiagnosisInv
  <2>2. \A i \in DOMAIN S : S[i] = "host" => i < at + 1
    BY <1>1, <2>1, HostComesEarly
  <2>3. Missing("transport") \in Entries(tool, Source) /\ Source # "host"
    BY <2>1 DEF Entries, Identity
  <2> QED BY <2>1, <2>2, <2>3, TakeKeeps
<1>6. ASSUME Skip
      PROVE  DiagnosisInv'
  <2>1. /\ Take(Missing("transport")) /\ Reading
        /\ latched' /\ latched /\ latched' \in BOOLEAN /\ lateReads' = 0
    BY <1>6 DEF Skip, DiagnosisInv
  <2>2. \A i \in DOMAIN S : S[i] = "host" => i < at
    BY <1>1, <2>1 DEF Gathered
  <2>3. (\A i \in DOMAIN S : S[i] = "host" => i < at + 1) /\ Source # "host"
    BY <1>1, <2>1, <2>2
  <2>4. Missing("transport") \in Entries(tool, Source)
    BY DEF Entries
  <2> QED BY <2>1, <2>3, <2>4, TakeKeeps
<1>7. ASSUME CallFails
      PROVE  DiagnosisInv'
  <2>1. PICK why \in {"authentication", "transport", "refused"} : answer' = Failed(why)
    BY <1>7 DEF CallFails
  <2>2. answer' # NoAnswer /\ ~answer'.report
    BY <2>1 DEF Failed, NoAnswer
  <2>3. UNCHANGED <<tool, at, latched, evidence, lateReads>> /\ tool # NoTool
    BY <1>7 DEF CallFails, Reading
  <2> QED BY <2>2, <2>3 DEF DiagnosisInv
<1>8. CASE UNCHANGED diagnosisVars
  BY <1>8 DEF DiagnosisInv, diagnosisVars
<1> QED BY <1>2, <1>3, <1>4, <1>5, <1>6, <1>7, <1>8 DEF DiagnosisNext

LEMMA ReportIsEvident ==
  ASSUME DiagnosisInv, answer.report
  PROVE  /\ tool \in AllTools /\ Evident(tool, evidence)
         /\ Gathered(tool, Len(Sources(tool)) + 1, latched, evidence)
         /\ answer \in Answers(tool, evidence)
<1>1. tool # NoTool
  BY DEF DiagnosisInv, NoAnswer
<1>2. /\ tool \in AllTools /\ Gathered(tool, Len(Sources(tool)) + 1, latched, evidence)
      /\ answer \in Answers(tool, evidence)
  BY <1>1, ToolsAreKnown DEF DiagnosisInv
<1> QED BY <1>2, GatheredIsEvident

\* What a diagnosis reports is backed by what it has read (buildInternetDiagnostic and its
\* like, src/shape/*-diagnostic.ts), for any answers of the router.
THEOREM VerdictsAreBacked == DiagnosisSafety => []VerdictIsBacked
<1>1. DiagnosisInv => VerdictIsBacked
  <2> SUFFICES ASSUME DiagnosisInv, answer.report
               PROVE  /\ answer.status = "unhealthy" => ~Blameless(tool, evidence)
                      /\ answer.status = "healthy" => Proven(tool, evidence)
                      /\ answer.complete =>
                           \A s \in Needed(tool, evidence) : Read(evidence, s) /\ s \notin answer.dropped
    BY DEF VerdictIsBacked
  <2>1. PICK d \in Dropped(tool) :
          answer = [report |-> TRUE, status |-> Status(tool, evidence),
                    complete |-> Complete(tool, evidence) /\ d = {}, dropped |-> d]
    BY ReportIsEvident DEF Answers
  <2>2. answer.status = Status(tool, evidence) /\ answer.dropped = d
    BY <2>1
  <2>3. answer.complete => Complete(tool, evidence) /\ d = {}
    BY <2>1
  <2> QED BY <2>2, <2>3, ReportIsEvident, Backed DEF Complete
<1> QED BY <1>1, DiagnosisInitially, DiagnosisStep, PTL DEF DiagnosisSafety

\* A failure is missing evidence and nothing else: no request follows the first transport
\* failure, and no loss of a source accuses or completes, but of one that settles what the
\* others leave open.
THEOREM FailuresProveNothing == DiagnosisSafety => []FailureProvesNothing
<1>1. DiagnosisInv => FailureProvesNothing
  <2> SUFFICES ASSUME DiagnosisInv, answer.report
               PROVE  /\ \A s \in {u \in SourceSet(tool) \ Arbiter(tool) : Read(evidence, u)} :
                           /\ Status(tool, Without(s)) = "unhealthy" => answer.status = "unhealthy"
                           /\ Complete(tool, Without(s)) => Complete(tool, evidence)
                      /\ \A i \in DOMAIN Sources(tool) : \A j \in 1..(i - 1) :
                           evidence[Sources(tool)[j]] = Missing("transport") =>
                             evidence[Sources(tool)[i]] = Missing("transport")
    BY DEF FailureProvesNothing, DiagnosisInv
  <2>1. answer.status = Status(tool, evidence)
    BY ReportIsEvident DEF Answers
  <2>2. ASSUME NEW s \in SourceSet(tool) \ Arbiter(tool)
        PROVE  /\ Status(tool, Without(s)) = "unhealthy" => answer.status = "unhealthy"
               /\ Complete(tool, Without(s)) => Complete(tool, evidence)
    <3>1. Without(s) = Lost(evidence, s)
      BY DEF Without, Lost
    <3> QED BY <2>1, <3>1, ReportIsEvident, LossAccusesNobody, LossCompletesNothing
  <2>3. ASSUME NEW i \in DOMAIN Sources(tool), NEW j \in 1 .. (i - 1),
               evidence[Sources(tool)[j]] = Missing("transport")
        PROVE  evidence[Sources(tool)[i]] = Missing("transport")
    <3>1. i < Len(Sources(tool)) + 1 /\ j < i /\ j \in DOMAIN Sources(tool)
      BY ReportIsEvident, ReadOnce
    <3> QED BY <2>3, <3>1, ReportIsEvident DEF Gathered
  <2> QED BY <2>2, <2>3
<1> QED BY <1>1, DiagnosisInitially, DiagnosisStep, PTL DEF DiagnosisSafety
=============================================================================
