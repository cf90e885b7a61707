---------------------------- MODULE ExecutionGate ----------------------------
(***************************************************************************)
(* The execution gate (gate.py) in the processes that run it: several      *)
(* gate instances over one database, each serving execute_fix calls on     *)
(* threads, crashing at any point and being succeeded by new instances     *)
(* whose startup reconciles what the dead ones left (recovery.py).         *)
(*                                                                         *)
(* A call reads the database several times, on connections of its own,     *)
(* before the one unit of work that dispatches: whatever it read may be    *)
(* stale by then.  Each such read, the script read, the dispatch, the      *)
(* start of the side effect and the outcome record is a step of its own.   *)
(* Checks on immutable data (the verified library, the instance's catalog  *)
(* and policy, a proposal's binding) are folded into the step before them. *)
(***************************************************************************)
EXTENDS Ledger, FiniteSets

CONSTANTS
  Calls,        \* execute_fix calls; each happens at most once
  Scripts,      \* script contents, identified by their SHA-256
  ScriptOf,     \* the script digest a binding names
  Configs       \* configurations an instance may be started with

(* A configuration: the binding its execution catalog resolves to          *)
(* (NoBinding: no catalog, so no gate), the operator identity, and the     *)
(* bindings its standing authorizations match exactly.                     *)
ASSUME GateAssumption ==
  /\ Proposals # {} /\ Configs # {}
  /\ ScriptOf \in [Bindings -> Scripts]
  /\ Configs \subseteq [catalog  : Bindings \cup {NoBinding},
                        operator : Operators,
                        standing : SUBSET Bindings]

VARIABLES
  disk,   \* the operator's script file, which the operator may edit
  inst,   \* lifecycle of each gate process instance (its owner lock)
  config, \* what each instance loaded at startup
  pc,     \* where each call stands
  job,    \* each call's local data
  runs    \* per proposal, the side effects started: by which call, on what

callVars == <<pc, job>>
worldVars == <<disk, inst, config>>
vars == <<ledgerVars, disk, inst, config, pc, job, runs>>

(* An instance holds its owner lock exactly while it is "live"; a lock     *)
(* file nobody holds is "dead".  A "new" one has no lock file yet.         *)
InstanceStates == {"new", "live", "dead"}

PreDispatch == {"resolve", "script", "authorize", "approval", "approvalToken", "dispatch", "refuse"}
PostDispatch == {"run", "running", "record"}
Ended == {"ended", "killed"}

(* on: the serving instance.  tok: the token presented.  named: resolve    *)
(* succeeded, so refusals carry the proposal's id.  bytes: what the script *)
(* source returned.  row: the approval row verify read.  outcome: what the *)
(* runner reported.  result: how the call ended for its caller.  recorded: *)
(* a refusal event of this call is in the audit log.                       *)
Job == [on      : Owners \cup {NoOwner},
        tok     : Proposals,
        named   : BOOLEAN,
        bytes   : Scripts,
        row     : ApprovalRow,
        path    : {"none", "standing", "proposal-bound"},
        outcome : Outcomes \cup {"none"},
        raises  : BOOLEAN,
        recorded : BOOLEAN,
        result  : Outcomes \cup {"none", "refused", "rejected", "raised"}]

-----------------------------------------------------------------------------
(* Steps of a call.                                                        *)

At(c, label) == pc[c] = label /\ inst[job[c].on] = "live"
Goto(c, label) == pc' = [pc EXCEPT ![c] = label]
Set(c, j) == job' = [job EXCEPT ![c] = j]

(* A call reaches the gate of a live instance that has a catalog, with the *)
(* token of any proposal, open or not yet.  execute_fix resolves the       *)
(* citation itself before it asks the gate: a citation that does not       *)
(* resolve is a ToolError there.                                           *)
Call(c, i, p) ==
  /\ pc[c] = "idle"
  /\ inst[i] = "live" /\ config[i].catalog # NoBinding
  /\ \/ /\ Goto(c, "resolve")
        /\ Set(c, [job[c] EXCEPT !.on = i, !.tok = p])
     \/ /\ Goto(c, "ended")
        /\ Set(c, [job[c] EXCEPT !.on = i, !.tok = p, !.result = "rejected"])
  /\ UNCHANGED <<ledgerVars, worldVars, runs>>

(* proposals.resolve, a read of its own; only now is the proposal named.   *)
ResolveToken(c) ==
  /\ At(c, "resolve")
  /\ IF Resolution(job[c].tok) = "eligible"
     THEN Goto(c, "script") /\ Set(c, [job[c] EXCEPT !.named = TRUE])
     ELSE Goto(c, "refuse") /\ UNCHANGED job
  /\ UNCHANGED <<ledgerVars, worldVars, runs>>

(* The stored binding, the script bytes it names against their bound       *)
(* digest, and this instance's catalog entry and runner profile against    *)
(* the bound ones.                                                         *)
BindingHolds(c) ==
  LET b == proposals[job[c].tok].binding
  IN  /\ b # NoBinding
      /\ disk = ScriptOf[b]
      /\ config[job[c].on].catalog = b
ReadScript(c) ==
  /\ At(c, "script")
  /\ Set(c, [job[c] EXCEPT !.bytes = disk])
  /\ Goto(c, IF BindingHolds(c) THEN "authorize" ELSE "refuse")
  /\ UNCHANGED <<ledgerVars, worldVars, runs>>

(* The evidence match and the observed preconditions may refuse; after     *)
(* them a standing authorization equal in script and profile is a path.    *)
Authorize(c) ==
  /\ At(c, "authorize")
  /\ \/ Goto(c, "refuse") /\ UNCHANGED job
     \/ /\ proposals[job[c].tok].binding \in config[job[c].on].standing
        /\ Goto(c, "dispatch")
        /\ Set(c, [job[c] EXCEPT !.path = "standing"])
     \/ /\ proposals[job[c].tok].binding \notin config[job[c].on].standing
        /\ Goto(c, "approval")
        /\ UNCHANGED job
  /\ UNCHANGED <<ledgerVars, worldVars, runs>>

(* verify, first connection: the approval row, kept for what follows.      *)
ApprovalUsableByAnyone(c, row) == row.state = "recorded"
ApprovalUsable(c, row) ==
  /\ row.state = "recorded"
  /\ row.operator = config[job[c].on].operator
ReadApproval(c) ==
  /\ At(c, "approval")
  /\ LET row == approvals[job[c].tok]
     IN  /\ Set(c, [job[c] EXCEPT !.row = row])
         /\ Goto(c, IF ApprovalUsable(c, row) THEN "approvalToken" ELSE "refuse")
  /\ UNCHANGED <<ledgerVars, worldVars, runs>>

(* verify, second and third: the token is resolved again and the row read  *)
(* before is compared with the proposal's binding.                         *)
ResolveApproved(c) ==
  /\ At(c, "approvalToken")
  /\ IF /\ Resolution(job[c].tok) = "eligible"
        /\ proposals[job[c].tok].binding # NoBinding
        /\ job[c].row.binding = proposals[job[c].tok].binding
     THEN Goto(c, "dispatch") /\ Set(c, [job[c] EXCEPT !.path = "proposal-bound"])
     ELSE Goto(c, "refuse") /\ UNCHANGED job
  /\ UNCHANGED <<ledgerVars, worldVars, runs>>

(* The dispatch unit of work.  It refuses when the token is no longer      *)
(* eligible, when the approval was spent, or when a required append fails: *)
(* then everything in it rolls back.                                       *)
DispatchTrustingResolve(c) ==
  /\ At(c, "dispatch")
  /\ proposals' = [proposals EXCEPT ![job[c].tok].state = "consumed",
                                    ![job[c].tok].consumedAt = clock]
  /\ audit' = [audit EXCEPT ![job[c].tok] = Append(@, StartEvent(job[c].on, job[c].path))]
  /\ approvals' = IF approvals[job[c].tok].state = "recorded"
                  THEN [approvals EXCEPT ![job[c].tok].state = "used"] ELSE approvals
  /\ Goto(c, "run")
  /\ UNCHANGED <<clock, worldVars, job, runs>>
Dispatch(c) ==
  /\ At(c, "dispatch")
  /\ ConsumeAndStart(job[c].tok, job[c].on, job[c].path)
  /\ Goto(c, "run")
  /\ UNCHANGED <<worldVars, job, runs>>

DispatchRefused(c) ==
  /\ At(c, "dispatch")
  /\ Goto(c, "refuse")
  /\ UNCHANGED <<ledgerVars, worldVars, job, runs>>

(* refuse: one append, under the proposal's id if the call got that far.   *)
Refuse(c) ==
  /\ At(c, "refuse")
  /\ IF job[c].named THEN AppendEvent(job[c].tok, RefusalEvent) ELSE UNCHANGED ledgerVars
  /\ Goto(c, "ended")
  /\ Set(c, [job[c] EXCEPT !.result = "refused", !.recorded = TRUE])
  /\ UNCHANGED <<worldVars, runs>>

(* A storage error in any read, in the refusal append, or outside the      *)
(* errors dispatch refuses on, escapes to the caller; nothing is written.  *)
StorageError(c) ==
  /\ \E label \in PreDispatch : At(c, label)
  /\ Goto(c, "ended")
  /\ Set(c, [job[c] EXCEPT !.result = "raised"])
  /\ UNCHANGED <<ledgerVars, worldVars, runs>>

(* The runner starts the side effect on the bytes the gate hashed, never   *)
(* on a second read of the path; or it ends without having started one.    *)
RunBytesFromDisk(c) == disk
RunBytes(c) == job[c].bytes
StartEffect(c) ==
  /\ At(c, "run")
  /\ runs' = [runs EXCEPT ![job[c].tok] = Append(@, [call |-> c, bytes |-> RunBytes(c)])]
  /\ Goto(c, "running")
  /\ UNCHANGED <<ledgerVars, worldVars, job>>

(* The runner reports, or raises: then the outcome is "failure" and the    *)
(* exception propagates after the outcome record.                          *)
ReportUnchecked(c) ==
  /\ At(c, "running")
  /\ \E oc \in Outcomes \cup {"refused"} : Set(c, [job[c] EXCEPT !.outcome = oc])
  /\ Goto(c, "record")
  /\ UNCHANGED <<ledgerVars, worldVars, runs>>
Report(c) ==
  /\ \/ At(c, "run") /\ \E oc \in {"failure", "unknown"}, r \in BOOLEAN :
          /\ r => oc = "failure"
          /\ Set(c, [job[c] EXCEPT !.outcome = oc, !.raises = r])
     \/ At(c, "running") /\ \E oc \in Outcomes, r \in BOOLEAN :
          /\ r => oc = "failure"
          /\ Set(c, [job[c] EXCEPT !.outcome = oc, !.raises = r])
  /\ Goto(c, "record")
  /\ UNCHANGED <<ledgerVars, worldVars, runs>>

(* The outcome record, an unconditional append.  If it cannot persist,     *)
(* AuditWriteFailure propagates and the start stays without an outcome.    *)
RecordOutcome(c) ==
  /\ At(c, "record")
  /\ AppendEvent(job[c].tok, OutcomeEvent(job[c].outcome))
  /\ Goto(c, "ended")
  /\ Set(c, [job[c] EXCEPT !.result = IF job[c].raises THEN "raised" ELSE job[c].outcome])
  /\ UNCHANGED <<worldVars, runs>>

OutcomeLostButReturned(c) ==
  /\ At(c, "record")
  /\ Goto(c, "ended")
  /\ Set(c, [job[c] EXCEPT !.result = job[c].outcome])
  /\ UNCHANGED <<ledgerVars, worldVars, runs>>
OutcomeLost(c) ==
  /\ At(c, "record")
  /\ Goto(c, "ended")
  /\ Set(c, [job[c] EXCEPT !.result = "raised"])
  /\ UNCHANGED <<ledgerVars, worldVars, runs>>

-----------------------------------------------------------------------------
(* Instances.                                                              *)

(* probe: "dead" is a lock file that exists and that nobody holds.  While  *)
(* another startup's own probe holds it, that lock reads as a live owner's *)
(* (StartupRecovery): a startup finds some of the dead owners.             *)
DeadOwnersOrLive == {i \in Owners : inst[i] # "new"}
DeadOwners == {i \in Owners : inst[i] = "dead"}

(* build_http_server: reconcile first, then load the configuration and     *)
(* take a fresh owner lock.                                                *)
Boot(i) ==
  /\ inst[i] = "new"
  /\ \E found \in SUBSET DeadOwners : Reconcile(found)
  /\ inst' = [inst EXCEPT ![i] = "live"]
  /\ \E cfg \in Configs : config' = [config EXCEPT ![i] = cfg]
  /\ UNCHANGED <<disk, callVars, runs>>

(* A crash ends the instance's calls where they stand and frees its lock.  *)
Crash(i) ==
  /\ inst[i] = "live"
  /\ inst' = [inst EXCEPT ![i] = "dead"]
  /\ pc' = [c \in Calls |-> IF job[c].on = i /\ pc[c] # "ended" THEN "killed" ELSE pc[c]]
  /\ UNCHANGED <<ledgerVars, disk, config, job, runs>>

(* propose_fix on a live instance binds to its catalog.                    *)
Propose(i, p) ==
  /\ inst[i] = "live"
  /\ OpenProposal(p, config[i].catalog)
  /\ UNCHANGED <<worldVars, callVars, runs>>

(* The operator approves through a live instance, by token on the internal *)
(* path or by proposal id through the Telegram transport.                  *)
Approve(i, p, presented) ==
  /\ inst[i] = "live"
  /\ \/ RecordApproval(p, presented, config[i].operator)
     \/ RecordApprovalByProposalId(p, presented, config[i].operator)
  /\ UNCHANGED <<worldVars, callVars, runs>>

EditScript ==
  /\ disk' \in Scripts
  /\ UNCHANGED <<ledgerVars, inst, config, callVars, runs>>

TimePasses ==
  /\ Tick
  /\ UNCHANGED <<worldVars, callVars, runs>>

-----------------------------------------------------------------------------

GateInit ==
  /\ Init
  /\ disk \in Scripts
  /\ inst = [i \in Owners |-> "new"]
  /\ config = [i \in Owners |-> CHOOSE cfg \in Configs : TRUE]
  /\ pc = [c \in Calls |-> "idle"]
  /\ job = [c \in Calls |-> [on |-> NoOwner, tok |-> CHOOSE p \in Proposals : TRUE,
                              named |-> FALSE, bytes |-> CHOOSE s \in Scripts : TRUE,
                              row |-> AbsentApproval, path |-> "none", outcome |-> "none",
                              raises |-> FALSE, recorded |-> FALSE, result |-> "none"]]
  /\ runs = [p \in Proposals |-> <<>>]

Advance(c) ==
  \/ ResolveToken(c)
  \/ ReadScript(c)
  \/ Authorize(c)
  \/ ReadApproval(c)
  \/ ResolveApproved(c)
  \/ Dispatch(c)
  \/ DispatchRefused(c)
  \/ Refuse(c)
  \/ StartEffect(c)
  \/ Report(c)
  \/ RecordOutcome(c)

Fail(c) == StorageError(c) \/ OutcomeLost(c)

GateNext ==
  \/ \E c \in Calls, i \in Owners, p \in Proposals : Call(c, i, p)
  \/ \E c \in Calls : Advance(c) \/ Fail(c)
  \/ \E i \in Owners : Boot(i) \/ Crash(i)
  \/ \E i \in Owners, p \in Proposals : Propose(i, p)
  \/ \E i \in Owners, p \in Proposals, presented \in Operators : Approve(i, p, presented)
  \/ EditScript
  \/ TimePasses

GateSpec == GateInit /\ [][GateNext]_vars

-----------------------------------------------------------------------------
(* Properties.                                                             *)

(* Every call and instance is in a known state with data of its type.      *)
GateTypeOK ==
  /\ TypeOK
  /\ disk \in Scripts
  /\ inst \in [Owners -> InstanceStates]
  /\ config \in [Owners -> Configs]
  /\ pc \in [Calls -> {"idle"} \cup PreDispatch \cup PostDispatch \cup Ended]
  /\ job \in [Calls -> Job]
  /\ runs \in [Proposals -> Seq([call : Calls, bytes : Scripts])]

(* Issue #34 and ADR 0012: however calls race, expire and crash, a         *)
(* proposal's side effect starts at most once, only under a start record   *)
(* that names the instance running it, on exactly the bytes its binding    *)
(* names, and never for a call its caller was told is refused.             *)
EffectJustified ==
  \A p \in Proposals :
    /\ Len(runs[p]) <= 1
    /\ \A k \in DOMAIN runs[p] :
         LET c == runs[p][k].call
         IN  /\ \E i \in Starts(p) : audit[p][i].owner = job[c].on
             /\ runs[p][k].bytes = ScriptOf[proposals[p].binding]
             /\ job[c].result \notin {"refused", "rejected"}

(* ADR 0003 and 0004: a start record's path was a real authorization: a    *)
(* standing one the dispatching instance's policy holds for this binding,  *)
(* or an approval by that instance's operator, now spent.                  *)
DispatchAuthorized ==
  \A p \in Proposals :
    \A i \in Starts(p) :
      LET e == audit[p][i]
      IN  \/ /\ e.path = "standing"
             /\ proposals[p].binding \in config[e.owner].standing
          \/ /\ e.path = "proposal-bound"
             /\ approvals[p].state = "used"
             /\ approvals[p].operator = config[e.owner].operator

(* ADR 0005: an execution has one terminal outcome.  The gate never checks *)
(* for one before it appends its own; it is safe because a sweep only      *)
(* closes executions whose owner can no longer append.                     *)
OutcomeIsFinal == \A p \in Proposals : \A i, j \in Terminals(p) : i = j

(* What execute_fix tells its caller is what the trail says: a reported    *)
(* outcome is the recorded one, of a start by the instance that answered.  *)
ResultMatchesTrail ==
  \A c \in Calls :
    job[c].result \in Outcomes =>
      LET p == job[c].tok
      IN  /\ \E i \in Terminals(p) : audit[p][i].outcome = job[c].result
          /\ \E i \in Starts(p) : audit[p][i].owner = job[c].on

(* Every step of the processes is one unit of work of the ledger or leaves *)
(* the database alone, so what holds of the ledger holds here.             *)
ImplementsLedger == Init /\ [][Next]_ledgerVars

(* ExecutionLifecycle, read off the tables and the side effects.           *)
First(positions) == CHOOSE i \in positions : \A j \in positions : i <= j

OpenProposals == {p \in Proposals : proposals[p].state # "absent"}
ApprovalStates == [p \in Proposals |-> IF approvals[p].state = "absent" THEN "none"
                                       ELSE approvals[p].state]
StartCounts == [p \in Proposals |-> Cardinality(Starts(p))]
StartPaths == [p \in Proposals |-> IF Starts(p) = {} THEN "none"
                                   ELSE audit[p][First(Starts(p))].path]
EffectCounts == [p \in Proposals |-> Len(runs[p])]
OutcomeCounts == [p \in Proposals |-> Cardinality(Terminals(p))]
FirstOutcomes == [p \in Proposals |-> IF Terminals(p) = {} THEN "none"
                                      ELSE audit[p][First(Terminals(p))].outcome]

Lifecycle == INSTANCE ExecutionLifecycle WITH
  opened <- OpenProposals, approval <- ApprovalStates, starts <- StartCounts,
  authority <- StartPaths, effects <- EffectCounts, closings <- OutcomeCounts,
  verdict <- FirstOutcomes

(* ADR 0002, 0003 and 0005, of every proposal: calls that race, expire,    *)
(* crash and are succeeded by a sweep never start, take effect or close an *)
(* execution twice, never take effect once it is closed, and never report  *)
(* a success that did not take effect.                                     *)
ImplementsLifecycle == Lifecycle!Spec

(* docs/system_flow.md and docs/architecture.md: every failed check, the   *)
(* citation's first among them, leaves a refusal record behind.            *)
FailedCheckRecorded ==
  \A c \in Calls : job[c].result \in {"refused", "rejected"} => job[c].recorded

=============================================================================
