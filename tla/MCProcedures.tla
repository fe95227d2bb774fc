---------------------------- MODULE MCProcedures ----------------------------
(***************************************************************************)
(* The procedures that share no state, each of them alone: the wizard with *)
(* its preflight, one composite diagnosis, and the journal of two calls    *)
(* that two server processes share.  machine chooses which of them a       *)
(* behaviour is about; the others stay in their initial states.            *)
(***************************************************************************)
EXTENDS Onboarding, Diagnosis, Telemetry

VARIABLE machine

proceduresVars == <<machine, onboardingVars, diagnosisVars, telemetryVars>>

ProceduresInit ==
  /\ machine \in {"onboarding", "diagnosis", "telemetry"}
  /\ OnboardingInit /\ DiagnosisInit /\ TelemetryInit

ProceduresNext ==
  \/ machine = "onboarding" /\ OnboardingNext /\ UNCHANGED <<machine, diagnosisVars, telemetryVars>>
  \/ machine = "diagnosis" /\ DiagnosisNext /\ UNCHANGED <<machine, onboardingVars, telemetryVars>>
  \/ machine = "telemetry" /\ TelemetryNext /\ UNCHANGED <<machine, onboardingVars, diagnosisVars>>

ProceduresSpec ==
  /\ ProceduresInit /\ [][ProceduresNext]_proceduresVars
  /\ OnboardingFairness /\ TelemetryFairness

\* What was started comes to its end: the preflight is answered and the record of every call
\* is settled.
ProceduresEnd == PreflightEnds /\ RecordsSettle
=============================================================================
