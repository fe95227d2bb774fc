------------------------------ MODULE Diagnosis ------------------------------
(***************************************************************************)
(* The composite diagnoses: diagnose_internet, diagnose_dns,               *)
(* diagnose_device, diagnose_wifi and get_wifi_client_health               *)
(* (src/tools/diagnose-*.ts, src/tools/wifi-diagnostic.ts), each of which  *)
(* reads its sources one after the other and turns what it could read into *)
(* checks and one verdict (src/shape/*-diagnostic.ts).                     *)
(*                                                                         *)
(* A source's answer is reduced to the facts the verdicts tell apart.  The *)
(* sources are read at different moments, so no fact of one constrains     *)
(* those of another.                                                       *)
(***************************************************************************)
EXTENDS Naturals, Sequences, FiniteSets

CONSTANTS Tools,
          Said,      \* bound: what a field that is yes, no or unknown may say
          Paths,     \* bound: how the way to a resolver may look
          MayRefuse  \* bound: the sources that may be refused on their own

ASSUME DiagnosisAssumption ==
  /\ Tools \subseteq {"internet", "dns", "device", "wifi", "client"}
  /\ Said \subseteq {"yes", "no", "unknown"}
  /\ Paths \subseteq {"none", "available", "unavailable", "ambiguous"}

NoTool == "none"
NoInterface == "none"

VARIABLES
  tool, at,  \* the diagnosis that runs and the position of its next read
  latched,   \* sessionFailure
  evidence,  \* of each source of the tool: unread, unavailable, or its facts
  answer,    \* nothing yet, the error, or the report: [status, complete, trimmed]
  lateReads  \* history: requests made after the session had failed

diagnosisVars == <<tool, at, latched, evidence, answer, lateReads>>

\* The reads in their order.  The logs, the largest, come last.
Sources(t) ==
  CASE t = "internet" -> <<"version", "system", "internet", "interfaces", "routes", "dns",
                           "configuration", "logs">>
    [] t = "dns" -> <<"version", "internet", "runtime", "proxyConfig", "nameServers", "routes",
                      "interfaces", "logs">>
    [] t = "device" -> <<"version", "host", "bindings", "associations", "interfaces", "policies",
                         "internet", "logs">>
    [] t = "wifi" -> <<"version", "interfaces", "associations">>
    [] t = "client" -> <<"host", "associations", "interfaces">>

SourceSet(t) == {Sources(t)[i] : i \in DOMAIN Sources(t)}

\* A router that cannot be reached at the sentinel, or whose device is not known, gives no
\* report.  What is read later may be missing.
Sentinel(t, s) == s = "version" /\ t # "wifi"
Identity(s) == s = "host"

Unread == [state |-> "unread"]
Missing(why) == [state |-> "unavailable", reason |-> why]
Read(e, s) == s \in DOMAIN e /\ e[s].state = "available"

-----------------------------------------------------------------------------
(***************************************************************************)
(* What a source may say.  "wan" is the physical uplink, "tun" a tunnel,   *)
(* "other" an interface that only a route mentions; one default route per  *)
(* interface.                                                              *)
(***************************************************************************)
InternetFacts(t) ==
  [state : {"available"}, current : {TRUE}, gateway : Said, dns : Said, internet : Said,
   via : IF t = "internet" THEN {NoInterface, "wan", "tun"} ELSE {NoInterface}] \cup
  [state : {"available"}, current : {FALSE}, gateway : {"no"}, dns : {"no"}, internet : {"no"}, via : {NoInterface}]

\* The usable default routes, and the one with the smallest metric if two have one.
RouteFacts ==
  {[state |-> "available", usable |-> u, best |-> NoInterface] : u \in {{}, {"wan"}, {"tun"}, {"other"}}} \cup
  {[state |-> "available", usable |-> {"wan", "tun"}, best |-> b] : b \in {NoInterface, "wan", "tun"}}

\* How the resolvers and the proxy are, and the way to those the source names.
DnsFacts(s) ==
  IF s = "runtime"
  THEN [state : {"available"}, rows : SUBSET {"good", "bad"}, proxy : {"good", "failed", "unknown"}, path : Paths]
  ELSE [state : {"available"}, path : Paths]

\* Only the diagnosis of a device looks at its address.
DeviceFacts(t) ==
  [state : {"available"}, active : Said, kind : {"wireless", "wired", "unknown"}, permitted : Said,
   authenticated : Said, policy : BOOLEAN, address : IF t = "device" THEN BOOLEAN ELSE {FALSE}]

\* Of all clients: one is rejected, weak, or on an access point or radio that is not there.
WifiFacts == [state : {"available"}, rejected : BOOLEAN, weak : BOOLEAN, astray : BOOLEAN]

\* Of one: whether it is associated, and with the access point its own record names.
StationFacts(t) ==
  [state : {"available"}, station : {"none", "here", "elsewhere"}, authenticated : Said,
   signal : IF t = "client" THEN {"good", "weak", "unknown"} ELSE {"unknown"}]

Facts(t, s) ==
  CASE s = "internet" /\ t # "device" -> InternetFacts(t)
    [] s = "interfaces" /\ t = "internet" ->
         [state : {"available"}, wan : {"up", "down", "unknown", "absent"}, defaults : {{}, {"wan"}, {"tun"}}]
    [] s = "interfaces" /\ t = "client" -> [state : {"available"}, accessPoint : BOOLEAN, radio : BOOLEAN]
    [] s = "routes" /\ t = "internet" -> RouteFacts
    [] s = "dns" -> [state : {"available"}, health : {"healthy", "unhealthy", "unknown"}]
    [] s = "configuration" -> [state : {"available"}, compared : BOOLEAN]
    [] s \in {"runtime", "proxyConfig", "nameServers"} -> DnsFacts(s)
    [] s = "host" -> DeviceFacts(t)
    [] s = "bindings" -> [state : {"available"}, address : BOOLEAN]
    [] s = "associations" -> IF t = "wifi" THEN WifiFacts ELSE StationFacts(t)
    [] s = "policies" -> [state : {"available"}, policy : {"absent", "blocked", "open"}]
    [] OTHER -> [state : {"available"}]

-----------------------------------------------------------------------------
(***************************************************************************)
(* buildInternetDiagnostic.                                                *)
(***************************************************************************)
Current(e) == Read(e, "internet") /\ e["internet"].current

Conflict(e) ==
  Current(e) /\ e["internet"].internet = "yes" /\ "no" \in {e["internet"].gateway, e["internet"].dns}

\* selectActiveRouteList: the routes in use, and whether they cannot be told.
Active(e) ==
  LET usable == IF Read(e, "routes") THEN e["routes"].usable ELSE {}
      via == IF Current(e) THEN e["internet"].via ELSE NoInterface
      defaults == usable \cap (IF Read(e, "interfaces") THEN e["interfaces"].defaults ELSE {})
  IN CASE usable = {} -> [routes |-> {}, ambiguous |-> FALSE]
       [] usable # {} /\ via # NoInterface -> [routes |-> usable \cap {via}, ambiguous |-> via \notin usable]
       [] via = NoInterface /\ Cardinality(usable) = 1 -> [routes |-> usable, ambiguous |-> FALSE]
       [] via = NoInterface /\ Cardinality(usable) > 1 /\ Cardinality(defaults) = 1 ->
            [routes |-> defaults, ambiguous |-> FALSE]
       [] OTHER -> [routes |-> {e["routes"].best} \ {NoInterface}, ambiguous |-> e["routes"].best = NoInterface]

UplinkDownUnread(e) == \* mutant: an uplink nothing is known of is down
  /\ Read(e, "interfaces") => e["interfaces"].wan = "down"
  /\ "wan" \in Active(e).routes

UplinkDown(e) ==
  /\ Read(e, "interfaces") /\ e["interfaces"].wan = "down"
  /\ \/ "wan" \in Active(e).routes
     \/ Current(e) /\ ~Conflict(e) /\ e["internet"].gateway = "no"

InternetChecks(e) ==
  LET i == e["internet"]
      none == Read(e, "routes") /\ e["routes"].usable = {}
      known == IF Read(e, "interfaces")
               THEN {"tun"} \cup IF e["interfaces"].wan = "absent" THEN {} ELSE {"wan"} ELSE {}
      astray == ~(Active(e).routes \subseteq known)
  IN [internet |->
        CASE ~Current(e) \/ Conflict(e) -> "unknown"
          [] Current(e) /\ ~Conflict(e) /\ "no" \in {i.internet, i.gateway} -> "fail"
          [] OTHER -> IF i.internet = "yes" THEN "pass" ELSE "unknown",
      wan |->
        CASE UplinkDown(e) -> "fail"
          [] ~UplinkDown(e) /\ Read(e, "interfaces") /\ e["interfaces"].wan = "up" -> "pass"
          [] OTHER -> "unknown",
      route |->
        CASE ~Read(e, "routes") \/ astray -> "unknown"
          [] Read(e, "routes") /\ ~astray /\ ~none -> IF Active(e).ambiguous THEN "warning" ELSE "pass"
          [] OTHER -> IF Current(e) /\ i.internet = "no" THEN "fail" ELSE "warning",
      dns |->
        CASE Conflict(e) -> "unknown"
          [] ~Conflict(e) /\ Current(e) /\ i.gateway = "yes" /\ i.dns = "no" -> "fail"
          [] OTHER -> IF Read(e, "dns") /\ e["dns"].health = "unhealthy" THEN "warning"
                      ELSE IF \/ Current(e) /\ i.dns = "yes"
                              \/ Read(e, "dns") /\ e["dns"].health = "healthy" THEN "pass" ELSE "unknown",
      vpn |->
        IF Read(e, "interfaces") /\ Read(e, "routes") /\ ~none /\ ~Active(e).ambiguous /\ ~astray
           /\ "tun" \notin Active(e).routes
        THEN "pass" ELSE "unknown"]

\* The core checks and the findings; a router whose version could not be read is not healthy.
InternetStatus(e) ==
  LET c == InternetChecks(e)
      core == {c[n] : n \in DOMAIN c}
      critical == UplinkDown(e) \/ (Current(e) /\ e["internet"].internet = "no")
      warned == \/ Read(e, "dns") /\ e["dns"].health = "unhealthy"
                \/ Conflict(e)
                \/ Read(e, "system") /\ ~Read(e, "version")
  IN CASE critical \/ "fail" \in core -> "unhealthy"
       [] ~critical /\ core \cap {"pass", "fail"} = {} -> "unknown"
       [] OTHER -> IF warned \/ core # {"pass"} THEN "degraded" ELSE "healthy"

-----------------------------------------------------------------------------
(***************************************************************************)
(* buildDnsDiagnostic.  A routing check that is unknown does not count.    *)
(***************************************************************************)
UpstreamPaths(e) ==
  IF Read(e, "routes") /\ Read(e, "interfaces")
  THEN {e[s].path : s \in {u \in {"runtime", "proxyConfig", "nameServers"} : Read(e, u)}} \ {"none"}
  ELSE {}

DnsChecks(e) ==
  LET r == e["runtime"]
      refused == {s \in {"proxyConfig", "nameServers"} : ~Read(e, s)}
  IN [proxy |->
        CASE ~Read(e, "runtime") -> "unknown"
          [] Read(e, "runtime") /\ r.rows = {"bad"} -> "fail"
          [] OTHER -> IF r.proxy = "failed" \/ "bad" \in r.rows THEN "warning"
                      ELSE IF r.proxy = "unknown" /\ r.rows = {} THEN "unknown" ELSE "pass",
      reachability |->
        CASE ~Current(e) \/ Conflict(e) -> "unknown"
          [] Current(e) /\ ~Conflict(e) /\ e["internet"].gateway = "yes" /\ e["internet"].dns = "no" -> "fail"
          [] OTHER -> IF e["internet"].dns = "yes" THEN "pass" ELSE "unknown",
      configuration |->
        CASE Cardinality(refused) = 2 -> "unknown" [] Cardinality(refused) = 1 -> "warning" [] OTHER -> "pass",
      routing |->
        CASE "unavailable" \in UpstreamPaths(e) -> "warning"
          [] UpstreamPaths(e) = {"available"} -> "pass" [] OTHER -> "unknown"]

DnsStatus(e) ==
  LET c == DnsChecks(e)
      core == {c[n] : n \in {m \in DOMAIN c : m # "routing" \/ c[m] # "unknown"}}
  IN CASE "fail" \in core -> "unhealthy"
       [] "fail" \notin core -> IF core # {"pass"} THEN "degraded" ELSE "healthy"

-----------------------------------------------------------------------------
(***************************************************************************)
(* buildDeviceDiagnostic: the device's own record comes first.             *)
(***************************************************************************)
Associated(e) == Read(e, "associations") /\ e["associations"].station = "here"
Unassociated(e) == Read(e, "associations") /\ e["associations"].station # "here"

\* What the association says, or else what the device's record says.
Authenticated(e) ==
  IF Read(e, "associations") /\ e["associations"].station # "none" /\ e["associations"].authenticated # "unknown"
  THEN e["associations"].authenticated ELSE e["host"].authenticated

DeviceChecks(e) ==
  LET h == e["host"]
  IN [address |-> IF h.address \/ (Read(e, "bindings") /\ e["bindings"].address) THEN "pass" ELSE "unknown",
      connection |->
        CASE h.active = "no" -> "warning"
          [] h.active = "yes" -> IF h.kind # "unknown" THEN "pass" ELSE "unknown" [] OTHER -> "unknown",
      wifi |->
        CASE h.kind # "wireless" -> "not-applicable"
          [] h.kind = "wireless" /\ Authenticated(e) = "no" -> "fail"
          [] OTHER -> IF Unassociated(e) /\ h.active = "yes" THEN "warning"
                      ELSE IF Associated(e) THEN "pass" ELSE "unknown",
      access |-> CASE h.permitted = "no" -> "fail" [] h.permitted = "yes" -> "pass" [] OTHER -> "unknown",
      policy |->
        CASE ~Read(e, "policies") -> "unknown"
          [] Read(e, "policies") /\ ~h.policy -> "pass"
          [] OTHER -> IF \/ e["policies"].policy = "absent"
                         \/ Read(e, "interfaces") /\ e["policies"].policy = "blocked"
                      THEN "warning" ELSE "pass"]

CoreStatus(core) ==
  CASE "fail" \in core -> "unhealthy"
    [] "fail" \notin core /\ core = {"unknown"} -> "unknown"
    [] OTHER -> IF core \subseteq {"pass", "not-applicable"} THEN "healthy" ELSE "degraded"

DeviceStatus(e) == LET c == DeviceChecks(e) IN CoreStatus({"pass"} \cup {c[n] : n \in DOMAIN c})

-----------------------------------------------------------------------------
(***************************************************************************)
(* buildWifiDiagnostic and buildWifiClientHealth.                          *)
(***************************************************************************)
WifiChecks(e) ==
  LET a == e["associations"]
      stray == Read(e, "interfaces") /\ Read(e, "associations") /\ a.astray
      seen(status) == IF Read(e, "associations") THEN status ELSE "unknown"
      placed(status) == IF Read(e, "interfaces") THEN status ELSE "unknown"
  IN [sources |-> IF \A s \in DOMAIN e : Read(e, s) THEN "pass" ELSE "unknown",
      radios |-> placed("pass"),
      accessPoints |-> placed(IF stray THEN "warning" ELSE "pass"),
      clients |-> seen(IF Read(e, "associations") /\ a.rejected THEN "fail" ELSE IF stray THEN "warning" ELSE "pass"),
      signal |-> seen(IF Read(e, "associations") /\ a.weak THEN "warning" ELSE "pass")]

WifiStatus(e) == LET c == WifiChecks(e) IN CoreStatus({c[n] : n \in DOMAIN c})

Kind(e) ==
  LET station == Read(e, "associations") /\ e["associations"].station # "none"
  IN CASE station \/ e["host"].kind = "wireless" -> "wireless"
       [] ~station /\ e["host"].kind = "wired" -> IF Read(e, "associations") THEN "wired" ELSE "unknown"
       [] OTHER -> "unknown"

ClientChecks(e) ==
  LET a == e["associations"]
      present == Read(e, "associations") /\ a.station # "none"
      says == IF present THEN a.authenticated ELSE e["host"].authenticated
      \* an unexpected answer of the interfaces would be a warning: the verdict is the same
      found(there) == CASE ~Read(e, "interfaces") -> "unknown"
                        [] Read(e, "interfaces") /\ Kind(e) = "wireless" -> IF there THEN "pass" ELSE "warning"
                        [] OTHER -> "unknown"
      seen(status) == IF Read(e, "associations") THEN status ELSE "unknown"
  IN [connection |-> IF Kind(e) = "wireless" THEN "pass" ELSE "unknown",
      association |-> seen(IF present THEN "pass"
                           ELSE IF Kind(e) = "wireless" /\ e["host"].active = "yes" THEN "warning" ELSE "unknown"),
      authentication |-> seen(CASE says = "no" -> "fail" [] says = "yes" -> "pass" [] OTHER -> "unknown"),
      signal |-> IF present THEN CASE a.signal = "weak" -> "warning" [] a.signal = "good" -> "pass" [] OTHER -> "unknown"
                 ELSE "unknown",
      accessPoint |-> found(Read(e, "interfaces") /\ e["interfaces"].accessPoint),
      radio |-> found(Read(e, "interfaces") /\ e["interfaces"].radio)]

ClientStatus(e) ==
  LET c == ClientChecks(e)
  IN IF Kind(e) = "wired" THEN "not-applicable" ELSE CoreStatus({c[n] : n \in DOMAIN c})

-----------------------------------------------------------------------------
(***************************************************************************)
(* The verdict, and whether the report says it is complete.                *)
(***************************************************************************)
Status(t, e) ==
  CASE t = "internet" -> InternetStatus(e) [] t = "dns" -> DnsStatus(e) [] t = "device" -> DeviceStatus(e)
    [] t = "wifi" -> WifiStatus(e) [] t = "client" -> ClientStatus(e)

\* A source that says nothing about this device need not have been read.
Needed(t, e) ==
  CASE t = "dns" -> SourceSet(t) \ {"version"}
    [] t = "device" -> SourceSet(t) \ ({"version"} \cup IF e["host"].kind = "wireless" THEN {} ELSE {"associations"})
    [] t = "client" -> IF Kind(e) = "wired" THEN {} ELSE SourceSet(t)
    [] OTHER -> SourceSet(t)

Complete(t, e) ==
  /\ \A s \in Needed(t, e) : Read(e, s)
  /\ t = "internet" => e["configuration"].compared
  /\ t = "client" /\ Kind(e) # "wired" =>
       Kind(e) = "wireless" /\ e["interfaces"].accessPoint /\ e["interfaces"].radio

\* budgetDeviceDiagnostic and budgetWifiClientHealth take evidence out of a report that is too
\* large, in this order; the other budgets only shorten lists.
Dropped(t) ==
  CASE t = "device" -> {{}, {"logs"}, {"logs", "bindings"}, {"logs", "bindings", "internet"}}
    [] t = "client" -> {{}, {"associations", "interfaces"}}
    [] OTHER -> {{}}

AnswersUnmarked(t, e) == \* mutant: what the budget took out is still called complete
  {[report |-> TRUE, status |-> Status(t, e), complete |-> Complete(t, e), dropped |-> d] : d \in Dropped(t)}

Answers(t, e) ==
  {[report |-> TRUE, status |-> Status(t, e), complete |-> Complete(t, e) /\ d = {}, dropped |-> d] : d \in Dropped(t)}

-----------------------------------------------------------------------------
(***************************************************************************)
(* The handlers.                                                           *)
(***************************************************************************)
NoAnswer == [report |-> FALSE, error |-> "none"]
Failed(why) == [report |-> FALSE, error |-> why]

DiagnosisInit ==
  /\ tool = NoTool /\ at = 0 /\ latched = FALSE /\ evidence = <<>> /\ answer = NoAnswer /\ lateReads = 0

CallDiagnosis(t) ==
  /\ tool = NoTool
  /\ tool' = t /\ at' = 1
  /\ evidence' = [s \in SourceSet(t) |-> Unread]
  /\ UNCHANGED <<latched, answer, lateReads>>

Reading == tool # NoTool /\ answer = NoAnswer
Source == Sources(tool)[at]

\* After the last read the report is built without a pause.
Take(entry) ==
  /\ evidence' = [evidence EXCEPT ![Source] = entry] /\ at' = at + 1
  /\ IF at = Len(Sources(tool)) THEN answer' \in Answers(tool, evidence') ELSE UNCHANGED answer
  /\ UNCHANGED tool

Request == lateReads' = IF latched THEN lateReads + 1 ELSE lateReads

ReadAnswered ==
  /\ Reading /\ ~latched /\ Request /\ UNCHANGED latched
  /\ \E f \in Facts(tool, Source) : Take(f)

\* The router refuses the path, or answers what is not expected.
ReadRefused ==
  /\ Reading /\ ~latched /\ Source \in MayRefuse /\ ~Identity(Source)
  /\ Request /\ UNCHANGED latched
  /\ Take(Missing("refused"))

ReadCut ==
  /\ Reading /\ ~latched /\ ~Sentinel(tool, Source) /\ ~Identity(Source)
  /\ Request /\ latched' = TRUE
  /\ Take(Missing("transport"))

Skip ==
  /\ Reading /\ latched
  /\ Take(Missing("transport")) /\ UNCHANGED <<latched, lateReads>>

\* What ends the call: rejected credentials anywhere, no router at the sentinel, no device.
CallFails ==
  /\ Reading /\ ~latched
  /\ \E why \in {"authentication"} \cup (IF Sentinel(tool, Source) \/ Identity(Source) THEN {"transport"} ELSE {})
               \cup (IF Identity(Source) THEN {"refused"} ELSE {}) : answer' = Failed(why)
  /\ UNCHANGED <<tool, at, latched, evidence, lateReads>>

DiagnosisNext ==
  \/ \E t \in Tools : CallDiagnosis(t)
  \/ ReadAnswered \/ ReadRefused \/ ReadCut \/ Skip \/ CallFails

DiagnosisSafety == DiagnosisInit /\ [][DiagnosisNext]_diagnosisVars

-----------------------------------------------------------------------------
(***************************************************************************)
(* Properties.                                                             *)
(***************************************************************************)
\* Nothing negative in what a tool read; an internet check that is not current says nothing.
Blameless(t, e) ==
  CASE t = "internet" ->
         /\ Current(e) => "no" \notin {e["internet"].gateway, e["internet"].dns, e["internet"].internet}
         /\ Read(e, "interfaces") => e["interfaces"].wan # "down"
    [] t = "dns" ->
         /\ Current(e) => e["internet"].dns # "no"
         /\ Read(e, "runtime") => "bad" \notin e["runtime"].rows
    [] t \in {"device", "client"} ->
         /\ e["host"].permitted # "no" /\ e["host"].authenticated # "no"
         /\ Read(e, "associations") => e["associations"].authenticated # "no"
    [] t = "wifi" -> Read(e, "associations") => ~e["associations"].rejected

\* What a healthy verdict promises.
Proven(t, e) ==
  CASE t = "internet" ->
         /\ Current(e) /\ e["internet"].internet = "yes" /\ "no" \notin {e["internet"].gateway, e["internet"].dns}
         /\ Read(e, "interfaces") /\ e["interfaces"].wan = "up"
         /\ Read(e, "routes") /\ "wan" \in e["routes"].usable
         /\ Read(e, "dns") => e["dns"].health # "unhealthy"
    [] t = "dns" ->
         /\ Current(e) /\ e["internet"].dns = "yes"
         /\ Read(e, "runtime") /\ "bad" \notin e["runtime"].rows /\ e["runtime"].proxy # "failed"
         /\ Read(e, "proxyConfig") /\ Read(e, "nameServers")
    [] t = "device" -> Read(e, "policies") /\ e["host"].permitted = "yes" /\ e["host"].active = "yes"
    [] OTHER -> \A s \in DOMAIN e : Read(e, s)

\* Fixed rules over explicit state (docs/ARCHITECTURE.md:75): a report says unhealthy only
\* if a source it read says something bad, healthy only if what it vouches for was read and is
\* good, and complete only if nothing was missing or taken out to make it fit.
VerdictIsBacked ==
  answer.report =>
    /\ answer.status = "unhealthy" => ~Blameless(tool, evidence)
    /\ answer.status = "healthy" => Proven(tool, evidence)
    /\ answer.complete =>
         \A s \in Needed(tool, evidence) : Read(evidence, s) /\ s \notin answer.dropped

Without(s) == [evidence EXCEPT ![s] = Missing("refused")]

\* The source that settles what the others leave open: which route is in use, and whether a
\* device is let in.
Arbiter(t) == CASE t = "internet" -> {"internet"} [] t \in {"device", "client"} -> {"host", "associations"} [] OTHER -> {}

\* What could not be read is missing evidence and proves nothing (docs/ARCHITECTURE.md:71-73).
\* Losing a source never turns a report into an accusation, nor into a complete one, unless
\* it is the one that settles what the others leave open.  The first transport failure is the
\* last request, and all that comes after it is missing for that reason.
FailureProvesNothing ==
  /\ lateReads = 0
  /\ answer.report =>
       /\ \A s \in {u \in SourceSet(tool) \ Arbiter(tool) : Read(evidence, u)} :
            /\ Status(tool, Without(s)) = "unhealthy" => answer.status = "unhealthy"
            /\ Complete(tool, Without(s)) => Complete(tool, evidence)
       /\ \A i \in DOMAIN Sources(tool) : \A j \in 1..(i - 1) :
            evidence[Sources(tool)[j]] = Missing("transport") => evidence[Sources(tool)[i]] = Missing("transport")
=============================================================================
