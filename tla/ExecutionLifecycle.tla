-------------------------- MODULE ExecutionLifecycle --------------------------
(***************************************************************************)
(* What ops-guard promises of a proposal's execution, whoever runs it and  *)
(* however processes fail (ADR 0002, 0003, 0005, 0012): a proposal is      *)
(* opened, perhaps approved, started at most once, on an authority it had  *)
(* at that moment, takes effect at most once and only while its execution  *)
(* is open, and is closed at most once, as a success only if it did take   *)
(* effect.  There are no processes, calls, clocks or locks here:           *)
(* ExecutionGate, which has them, implements this specification, and so    *)
(* does StartupRecovery, which has the locks of those processes.           *)
(***************************************************************************)
EXTENDS Integers

CONSTANTS
  Proposals,  \* proposal ids
  Outcomes    \* what the executing instance may close it with

VARIABLES
  opened,     \* the proposals that exist
  approval,   \* per proposal: none, recorded or used
  starts,     \* per proposal, the execution_start records in the trail
  authority,  \* per proposal, the authorization path of its start
  effects,    \* per proposal, how often its side effect was started
  closings,   \* per proposal, the outcome records in the trail
  verdict     \* per proposal, the first of them

lifecycleVars == <<opened, approval, starts, authority, effects, closings, verdict>>

Running(p) == starts[p] = 1 /\ closings[p] = 0

-----------------------------------------------------------------------------

Propose(p) ==
  /\ p \notin opened
  /\ opened' = opened \cup {p}
  /\ UNCHANGED <<approval, starts, authority, effects, closings, verdict>>

(* An approval is given once, and never to an execution that started.      *)
Approve(p) ==
  /\ p \in opened /\ starts[p] = 0 /\ approval[p] = "none"
  /\ approval' = [approval EXCEPT ![p] = "recorded"]
  /\ UNCHANGED <<opened, starts, authority, effects, closings, verdict>>

(* The token, the start record and the approval, if any, go together.      *)
Start(p, path) ==
  /\ p \in opened /\ starts[p] = 0
  /\ path = "proposal-bound" => approval[p] = "recorded"
  /\ starts' = [starts EXCEPT ![p] = 1]
  /\ authority' = [authority EXCEPT ![p] = path]
  /\ approval' = [approval EXCEPT ![p] = IF @ = "recorded" THEN "used" ELSE @]
  /\ UNCHANGED <<opened, effects, closings, verdict>>

TakeEffect(p) ==
  /\ Running(p) /\ effects[p] = 0
  /\ effects' = [effects EXCEPT ![p] = 1]
  /\ UNCHANGED <<opened, approval, starts, authority, closings, verdict>>

(* The executing instance closes what it started ...                       *)
Close(p, oc) ==
  /\ Running(p)
  /\ oc = "success" => effects[p] = 1
  /\ closings' = [closings EXCEPT ![p] = 1]
  /\ verdict' = [verdict EXCEPT ![p] = oc]
  /\ UNCHANGED <<opened, approval, starts, authority, effects>>

(* ... or a later one closes what it left open, several at once, without   *)
(* claiming to know how they ended.                                        *)
Recover(lost) ==
  /\ \A p \in lost : Running(p)
  /\ closings' = [p \in Proposals |-> IF p \in lost THEN 1 ELSE closings[p]]
  /\ verdict' = [p \in Proposals |-> IF p \in lost THEN "unknown" ELSE verdict[p]]
  /\ UNCHANGED <<opened, approval, starts, authority, effects>>

-----------------------------------------------------------------------------

Init ==
  /\ opened = {}
  /\ approval = [p \in Proposals |-> "none"]
  /\ starts = [p \in Proposals |-> 0]
  /\ authority = [p \in Proposals |-> "none"]
  /\ effects = [p \in Proposals |-> 0]
  /\ closings = [p \in Proposals |-> 0]
  /\ verdict = [p \in Proposals |-> "none"]

Next ==
  \/ \E p \in Proposals : Propose(p) \/ Approve(p) \/ TakeEffect(p)
  \/ \E p \in Proposals, path \in {"standing", "proposal-bound"} : Start(p, path)
  \/ \E p \in Proposals, oc \in Outcomes : Close(p, oc)
  \/ \E lost \in SUBSET Proposals : Recover(lost)

Spec == Init /\ [][Next]_lifecycleVars

=============================================================================
