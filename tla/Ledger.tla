------------------------------- MODULE Ledger -------------------------------
(***************************************************************************)
(* The shared SQLite database of ops-guard: the proposals, approvals and   *)
(* audit_events tables and the units of work that write them               *)
(* (proposals.py, approvals.py, audit.py, recovery.py over store.py).      *)
(*                                                                         *)
(* A unit of work runs under BEGIN IMMEDIATE: writers are serialized, it   *)
(* commits on a clean exit and rolls back on any error.  So each one is    *)
(* one atomic action here, and a rolled back unit is a stuttering step.    *)
(* What happens BETWEEN units of work, where the races are, is the         *)
(* business of ExecutionGate, which is built from the units below.         *)
(***************************************************************************)
EXTENDS Integers, Sequences

CONSTANTS
  Proposals,  \* proposal ids; one stands for its one-time token too
  Bindings,   \* execution-binding digests (script and runner profile)
  NoBinding,  \* a proposal opened without an execution catalog
  Operators,  \* configured operator identities
  NoOperator, \* the operator of an approval that does not exist
  Owners,     \* gate process instances (owner.py)
  NoOwner,    \* the owner field of an event that names none
  TTL,        \* proposal lifetime, in clock ticks
  MaxTime     \* bound on the clock

ASSUME TTLAssumption == TTL \in Nat \ {0}
ASSUME BoundsAssumption == MaxTime \in Nat
ASSUME NullAssumption == /\ NoBinding \notin Bindings
                         /\ NoOperator \notin Operators
                         /\ NoOwner \notin Owners

VARIABLES
  clock,      \* the time the next unit of work judges by
  proposals,  \* proposals and execution_bindings, one row per id
  approvals,  \* the approvals table, keyed by the token it binds
  audit       \* per proposal, its audit events in the order of "sequence"

ledgerVars == <<clock, proposals, approvals, audit>>

Times == 0 .. MaxTime

ProposalRow == [state      : {"absent", "active", "consumed"},
                expires    : Nat,
                consumedAt : Nat,
                binding    : Bindings \cup {NoBinding}]

ApprovalRow == [state    : {"absent", "recorded", "used"},
                operator : Operators \cup {NoOperator},
                binding  : Bindings \cup {NoBinding}]

Outcomes == {"success", "failure", "unknown"}

(* An audit event, reduced to the columns another event or row is compared *)
(* with: the owner_id of a start's payload, its authorization path (which  *)
(* the outcome repeats), the outcome, and the failure code that tells a    *)
(* recovered outcome apart.                                                *)
Event == [type    : {"proposal", "refusal", "execution_start", "execution_outcome"},
          outcome : Outcomes \cup {"none", "refused"},
          owner   : Owners \cup {NoOwner},
          path    : {"none", "standing", "proposal-bound"},
          code    : {"none", "owner-dead"}]

ProposalEvent == [type |-> "proposal", outcome |-> "none", owner |-> NoOwner,
                  path |-> "none", code |-> "none"]

RefusalEvent == [type |-> "refusal", outcome |-> "refused", owner |-> NoOwner,
                 path |-> "none", code |-> "none"]

StartEvent(o, path) == [type |-> "execution_start", outcome |-> "none", owner |-> o,
                        path |-> path, code |-> "none"]

OutcomeEvent(oc) == [type |-> "execution_outcome", outcome |-> oc, owner |-> NoOwner,
                     path |-> "none", code |-> "none"]

RecoveredEvent == [type |-> "execution_outcome", outcome |-> "unknown",
                   owner |-> NoOwner, path |-> "none", code |-> "owner-dead"]

AbsentProposal == [state |-> "absent", expires |-> 0, consumedAt |-> 0,
                   binding |-> NoBinding]

AbsentApproval == [state |-> "absent", operator |-> NoOperator, binding |-> NoBinding]

-----------------------------------------------------------------------------
(* Reading the tables.                                                     *)

Positions(p) == DOMAIN audit[p]

Starts(p) == {i \in Positions(p) : audit[p][i].type = "execution_start"}

(* The rows recovery.py's terminal query selects.                          *)
Terminals(p) == {i \in Positions(p) : /\ audit[p][i].type = "execution_outcome"
                                      /\ audit[p][i].outcome # "none"}

(* _check: live, not consumed, and strictly before its expiry.             *)
Eligible(p) == /\ proposals[p].state = "active"
               /\ clock < proposals[p].expires

(* The verdict of resolve and resolve_on, in _check's order.               *)
Resolution(p) ==
  CASE proposals[p].state = "absent" -> "unknown"
    [] proposals[p].state = "consumed" -> "consumed"
    [] proposals[p].state = "active" /\ ~Eligible(p) -> "expired"
    [] OTHER -> "eligible"

-----------------------------------------------------------------------------
(* The units of work.                                                      *)

Expiry(now) == now + TTL

(* open_proposal: the row, its binding and its audit event together.       *)
OpenProposal(p, b) ==
  /\ proposals[p].state = "absent"
  /\ proposals' = [proposals EXCEPT ![p] = [state |-> "active", expires |-> Expiry(clock),
                                            consumedAt |-> 0, binding |-> b]]
  /\ audit' = [audit EXCEPT ![p] = Append(@, ProposalEvent)]
  /\ UNCHANGED <<clock, approvals>>

(* The insert both record_approval paths share: one approval per token,    *)
(* a second one is an IntegrityError that rolls the unit back.             *)
InsertApproval(p, op) ==
  /\ approvals[p].state = "absent"
  /\ approvals' = [approvals EXCEPT ![p] = [state |-> "recorded", operator |-> op,
                                            binding |-> proposals[p].binding]]
  /\ UNCHANGED <<clock, proposals, audit>>

(* record_approval: identity first, then eligibility under the write lock. *)
RecordApproval(p, presented, configured) ==
  /\ presented = configured
  /\ Eligible(p)
  /\ InsertApproval(p, configured)

(* record_approval_by_proposal_id: the same, and never an unbound one.     *)
RecordApprovalByProposalId(p, presented, configured) ==
  /\ presented = configured
  /\ Eligible(p)
  /\ proposals[p].binding # NoBinding
  /\ InsertApproval(p, configured)

(* spend_approval_append: no approval is a no-op, a used one is a replay.  *)
SpendApproval(p) ==
  /\ approvals[p].state # "used"
  /\ approvals' = IF approvals[p].state = "recorded"
                  THEN [approvals EXCEPT ![p].state = "used"] ELSE approvals

(* consume's own rows: the compare-and-swap on state and expiry.           *)
ConsumeRow(p) ==
  /\ Eligible(p)
  /\ proposals' = [proposals EXCEPT ![p].state = "consumed", ![p].consumedAt = clock]

(* consume with the gate's two callbacks: the token, the start record and  *)
(* the approval move together or not at all.                               *)
ConsumeAndStart(p, o, path) ==
  /\ ConsumeRow(p)
  /\ audit' = [audit EXCEPT ![p] = Append(@, StartEvent(o, path))]
  /\ SpendApproval(p)
  /\ UNCHANGED clock

(* AuditLog.append: an unconditional insert in a unit of its own.          *)
AppendEvent(p, e) ==
  /\ audit' = [audit EXCEPT ![p] = Append(@, e)]
  /\ UNCHANGED <<clock, proposals, approvals>>

(* reconcile_interrupted_executions, over the owners its probes found dead *)
(* (a subset of those that are): the terminal check and every recovery     *)
(* append share one unit of work.                                          *)
InterruptedUnchecked(p, dead) == \E i \in Starts(p) : audit[p][i].owner \in dead
Interrupted(p, dead) ==
  /\ Terminals(p) = {}
  /\ \E i \in Starts(p) : audit[p][i].owner \in dead
Reconcile(dead) ==
  /\ audit' = [p \in Proposals |-> IF Interrupted(p, dead)
                                   THEN Append(audit[p], RecoveredEvent)
                                   ELSE audit[p]]
  /\ UNCHANGED <<clock, proposals, approvals>>

(* The wall clock may be stepped back as well as forward.                  *)
Tick ==
  /\ clock' \in Times
  /\ UNCHANGED <<proposals, approvals, audit>>

-----------------------------------------------------------------------------
(* The database on its own: any unit of work, in any order its callers can *)
(* issue them.  The gate appends an outcome only after its own start and a *)
(* refusal for any proposal it resolved; nothing in append stops an        *)
(* outcome that arrives after another, so one late outcome is allowed.     *)

Init ==
  /\ clock = 0
  /\ proposals = [p \in Proposals |-> AbsentProposal]
  /\ approvals = [p \in Proposals |-> AbsentApproval]
  /\ audit = [p \in Proposals |-> <<>>]

AppendOutcome(p, oc) ==
  /\ Starts(p) # {}
  /\ \A i, j \in Terminals(p) : i = j
  /\ AppendEvent(p, OutcomeEvent(oc))

AppendRefusal(p) ==
  /\ proposals[p].state # "absent"
  /\ AppendEvent(p, RefusalEvent)

Next ==
  \/ \E p \in Proposals, b \in Bindings \cup {NoBinding} : OpenProposal(p, b)
  \/ \E p \in Proposals, presented, configured \in Operators :
        \/ RecordApproval(p, presented, configured)
        \/ RecordApprovalByProposalId(p, presented, configured)
  \/ \E p \in Proposals, o \in Owners, path \in {"standing", "proposal-bound"} :
        ConsumeAndStart(p, o, path)
  \/ \E p \in Proposals, oc \in Outcomes : AppendOutcome(p, oc)
  \/ \E p \in Proposals : AppendRefusal(p)
  \/ \E dead \in SUBSET Owners : Reconcile(dead)
  \/ Tick

Spec == Init /\ [][Next]_ledgerVars

-----------------------------------------------------------------------------
(* Properties.                                                             *)

(* Every row and event has its type: timestamps are natural numbers and    *)
(* the enumerated columns hold only the values the schema's writers use.   *)
TypeOK ==
  /\ clock \in Nat
  /\ proposals \in [Proposals -> ProposalRow]
  /\ approvals \in [Proposals -> ApprovalRow]
  /\ audit \in [Proposals -> Seq(Event)]

(* ADR 0003 rule 4, issue #35: an approval is spent exactly when its token *)
(* is consumed, so no recorded approval is ever left on a dead token and   *)
(* none is used while its token can still be dispatched; an approval that  *)
(* exists is bound to the binding its proposal carries.                    *)
ApprovalSpentWithToken ==
  \A p \in Proposals :
    approvals[p].state # "absent" =>
      /\ proposals[p].state # "absent"
      /\ approvals[p].state = "used" <=> proposals[p].state = "consumed"
      /\ approvals[p].binding = proposals[p].binding

(* ADR 0002 rule 6: a token is consumed exactly when one execution_start   *)
(* record names its proposal.  Neither exists without the other and no     *)
(* token ever pays for two starts.                                         *)
StartPairedWithConsumption ==
  \A p \in Proposals :
    /\ proposals[p].state = "consumed" <=> Starts(p) # {}
    /\ \A i, j \in Starts(p) : i = j

(* Issue #40 and the audit trail's order: a proposal exists exactly when   *)
(* its trail begins with its proposal event, and an outcome never precedes *)
(* the start it closes.                                                    *)
TrailWellFounded ==
  \A p \in Proposals :
    /\ proposals[p].state # "absent" <=> audit[p] # <<>>
    /\ \A i \in Positions(p) : audit[p][i].type = "proposal" <=> i = 1
    /\ \A i \in Terminals(p) : \E j \in Starts(p) : j < i

(* ADR 0005: a sweep adds a recovered outcome only where no terminal event *)
(* stood, so at most one exists for a proposal and none follows an outcome *)
(* the gate recorded.                                                      *)
RecoveryNeverSecond ==
  \A p \in Proposals :
    \A i, j \in Terminals(p) : audit[p][j].code = "owner-dead" => j <= i

(* What is written stays written: a trail only grows, a consumed token is  *)
(* never active again and keeps its consumption time, an open proposal     *)
(* keeps its expiry and its binding, and an approval is never withdrawn    *)
(* or replaced (a correction is a new proposal).                           *)
DurableStep ==
  \A p \in Proposals :
    /\ Len(audit[p]) <= Len(audit'[p])
    /\ \A i \in Positions(p) : audit'[p][i] = audit[p][i]
    /\ proposals[p].state = "consumed" => proposals'[p] = proposals[p]
    /\ proposals[p].state = "active" =>
          /\ proposals'[p].state # "absent"
          /\ proposals'[p].expires = proposals[p].expires
          /\ proposals'[p].binding = proposals[p].binding
    /\ approvals[p].state # "absent" =>
          /\ approvals'[p].state \in {approvals[p].state, "used"}
          /\ approvals'[p].operator = approvals[p].operator
          /\ approvals'[p].binding = approvals[p].binding
Durable == [][DurableStep]_ledgerVars

=============================================================================
