--------------------------- MODULE RemoteContract ---------------------------
(***************************************************************************)
(* What the caller of a mutating request to a router may rely on:          *)
(* it runs at most once, an acknowledgement means that it ran, a refusal   *)
(* that it did not and never will, and once the caller has been told       *)
(* anything nothing more is sent.  RemoteSession and LanSession implement  *)
(* this module.                                                            *)
(***************************************************************************)
EXTENDS Naturals

CONSTANT Requests

VARIABLES
  mutating, \* the requests that change the router
  told,     \* what each caller has been told, "none" at first
  pending,  \* transmissions the router may still execute
  runs      \* executions so far

vars == <<mutating, told, pending, runs>>

Told == {"ok", "error", "auth", "denied", "transport", "cancelled", "deadline"}
Refusals == {"auth", "denied"}

Init ==
  /\ mutating \in SUBSET Requests
  /\ told = [r \in Requests |-> "none"]
  /\ pending = [r \in Requests |-> 0]
  /\ runs = [r \in Requests |-> 0]

Transmit(r) ==
  /\ r \in mutating /\ told[r] = "none" /\ pending[r] = 0 /\ runs[r] = 0
  /\ pending' = [pending EXCEPT ![r] = 1]
  /\ UNCHANGED <<mutating, told, runs>>

Run(r) ==
  /\ pending[r] = 1 /\ runs[r] = 0
  /\ pending' = [pending EXCEPT ![r] = 0]
  /\ runs' = [runs EXCEPT ![r] = 1]
  /\ UNCHANGED <<mutating, told>>

\* Lost on the way, or refused with another try to follow.
Drop(r) ==
  /\ pending[r] = 1
  /\ pending' = [pending EXCEPT ![r] = 0]
  /\ UNCHANGED <<mutating, told, runs>>

Tell(r, what) ==
  /\ told[r] = "none"
  /\ told' = [told EXCEPT ![r] = what]
  /\ r \in mutating /\ what = "ok" => runs[r] = 1
  /\ r \in mutating /\ what \in Refusals => runs[r] = 0
  /\ pending' = [pending EXCEPT ![r] = IF what \in Refusals THEN 0 ELSE @]
  /\ UNCHANGED <<mutating, runs>>

\* The caller gives up between a refusal and the next try.
TellDropped(r, what) ==
  /\ told[r] = "none" /\ pending[r] = 1
  /\ told' = [told EXCEPT ![r] = what]
  /\ what \in Told \ {"ok"}
  /\ pending' = [pending EXCEPT ![r] = 0]
  /\ UNCHANGED <<mutating, runs>>

Next ==
  \E r \in Requests :
    \/ Transmit(r) \/ Run(r) \/ Drop(r)
    \/ \E what \in Told : Tell(r, what) \/ TellDropped(r, what)

Spec == Init /\ [][Next]_vars
=============================================================================
