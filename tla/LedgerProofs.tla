---------------------------- MODULE LedgerProofs ----------------------------
(***************************************************************************)
(* The ledger's invariants hold for every set of proposals, bindings,      *)
(* operators and owners, every lifetime and every bound.  Their            *)
(* conjunction, IInv, is inductive.                                        *)
(***************************************************************************)
EXTENDS Ledger, TLAPS

IInv == /\ TypeOK
        /\ ApprovalSpentWithToken
        /\ StartPairedWithConsumption
        /\ TrailWellFounded
        /\ RecoveryNeverSecond

(* An audit insert leaves the events already in a trail where they were    *)
(* and puts the new one after them.                                        *)
LEMMA AppendFacts ==
  ASSUME NEW s \in Seq(Event), NEW e \in Event
  PROVE  /\ Append(s, e) \in Seq(Event)
         /\ Append(s, e) # <<>>
         /\ DOMAIN s = 1 .. Len(s)
         /\ Len(s) \in Nat
         /\ Len(Append(s, e)) = Len(s) + 1
         /\ DOMAIN Append(s, e) = 1 .. Len(s) + 1
         /\ \A i \in DOMAIN s : Append(s, e)[i] = s[i]
         /\ Append(s, e)[Len(s) + 1] = e
  OBVIOUS

(* Every event constructor yields an event.                                *)
LEMMA EventTypes ==
  /\ ProposalEvent \in Event
  /\ RefusalEvent \in Event
  /\ RecoveredEvent \in Event
  /\ \A o \in Owners, path \in {"standing", "proposal-bound"} : StartEvent(o, path) \in Event
  /\ \A oc \in Outcomes : OutcomeEvent(oc) \in Event
  BY DEF ProposalEvent, RefusalEvent, RecoveredEvent, StartEvent, OutcomeEvent, Event, Outcomes

-----------------------------------------------------------------------------
(* What the invariants say of one proposal.  A unit of work touches the    *)
(* rows of one proposal (a sweep: of each interrupted one), so a step is   *)
(* proved proposal by proposal.                                            *)

TrailInv(p) ==
  /\ proposals[p].state # "absent" <=> audit[p] # <<>>
  /\ \A i \in Positions(p) : audit[p][i].type = "proposal" <=> i = 1
  /\ \A i \in Terminals(p) : \E j \in Starts(p) : j < i

StartInv(p) ==
  /\ proposals[p].state = "consumed" <=> Starts(p) # {}
  /\ \A i, j \in Starts(p) : i = j

RecoveryInv(p) == \A i, j \in Terminals(p) : audit[p][j].code = "owner-dead" => j <= i

ApprovalInv(p) ==
  approvals[p].state # "absent" =>
    /\ proposals[p].state # "absent"
    /\ approvals[p].state = "used" <=> proposals[p].state = "consumed"
    /\ approvals[p].binding = proposals[p].binding

RowInv(p) == TrailInv(p) /\ StartInv(p) /\ RecoveryInv(p) /\ ApprovalInv(p)

LEMMA InvByRow == IInv <=> TypeOK /\ \A p \in Proposals : RowInv(p)
  BY DEF IInv, RowInv, TrailInv, StartInv, RecoveryInv, ApprovalInv, ApprovalSpentWithToken,
         StartPairedWithConsumption, TrailWellFounded, RecoveryNeverSecond

(* The same of the next state, in the form the steps below conclude with.  *)
LEMMA InvByRowNext ==
  ASSUME TypeOK', \A p \in Proposals : RowInv(p)'
  PROVE  IInv'
  BY DEF IInv, RowInv, TrailInv, StartInv, RecoveryInv, ApprovalInv, ApprovalSpentWithToken,
         StartPairedWithConsumption, TrailWellFounded, RecoveryNeverSecond

(* A proposal whose rows and trail a step leaves alone keeps its invariant. *)
LEMMA Untouched ==
  ASSUME NEW p \in Proposals, RowInv(p), UNCHANGED <<proposals[p], approvals[p], audit[p]>>
  PROVE  RowInv(p)'
  BY DEF RowInv, TrailInv, StartInv, RecoveryInv, ApprovalInv, Positions, Starts, Terminals

(* One event appended to a trail: where it stands, and which of the start  *)
(* and terminal positions it adds.                                         *)
LEMMA Appended ==
  ASSUME NEW p \in Proposals, audit[p] \in Seq(Event), NEW e \in Event,
         audit'[p] = Append(audit[p], e)
  PROVE  LET n == Len(audit[p]) + 1
         IN  /\ n \in Nat /\ n # 0
             /\ Positions(p) = 1 .. n - 1
             /\ Positions(p)' = 1 .. n
             /\ audit'[p] # <<>>
             /\ audit'[p][n] = e
             /\ \A i \in Positions(p) : audit'[p][i] = audit[p][i]
             /\ Starts(p)' = Starts(p) \cup (IF e.type = "execution_start" THEN {n} ELSE {})
             /\ Terminals(p)' = Terminals(p) \cup
                  (IF e.type = "execution_outcome" /\ e.outcome # "none" THEN {n} ELSE {})
  <1> DEFINE n == Len(audit[p]) + 1
  <1>1. /\ n \in Nat /\ n # 0
        /\ Positions(p) = 1 .. n - 1
        /\ Positions(p)' = 1 .. n
        /\ audit'[p] # <<>>
        /\ audit'[p][n] = e
        /\ \A i \in Positions(p) : audit'[p][i] = audit[p][i]
    BY AppendFacts DEF Positions
  <1>2. \A i \in 1 .. n : i \in 1 .. n - 1 \/ i = n
    BY <1>1
  <1>3. n \in 1 .. n /\ \A i \in 1 .. n - 1 : i \in 1 .. n
    BY <1>1
  <1> HIDE DEF n
  <1>4. Starts(p)' = Starts(p) \cup (IF e.type = "execution_start" THEN {n} ELSE {})
    BY <1>1, <1>2, <1>3 DEF Starts
  <1>5. Terminals(p)' = Terminals(p) \cup
          (IF e.type = "execution_outcome" /\ e.outcome # "none" THEN {n} ELSE {})
    BY <1>1, <1>2, <1>3 DEF Terminals
  <1>6. QED
    BY <1>1, <1>4, <1>5 DEF n

-----------------------------------------------------------------------------

LEMMA InitInv == Init => IInv
  <1> SUFFICES ASSUME Init PROVE IInv
    OBVIOUS
  <1>1. TypeOK
    BY DEF Init, TypeOK, ProposalRow, ApprovalRow, AbsentProposal, AbsentApproval
  <1>2. ApprovalSpentWithToken
    BY DEF Init, ApprovalSpentWithToken, AbsentApproval
  <1>3. \A p \in Proposals : Positions(p) = {}
    <2>1. DOMAIN <<>> = {}
      OBVIOUS
    <2>2. QED
      BY <2>1 DEF Init, Positions
  <1>4. StartPairedWithConsumption
    BY <1>3 DEF Init, StartPairedWithConsumption, Starts, AbsentProposal
  <1>5. TrailWellFounded
    BY <1>3 DEF Init, TrailWellFounded, Terminals, AbsentProposal
  <1>6. RecoveryNeverSecond
    BY <1>3 DEF RecoveryNeverSecond, Terminals
  <1>7. QED
    BY <1>1, <1>2, <1>4, <1>5, <1>6 DEF IInv

-----------------------------------------------------------------------------
(* One lemma per unit of work.  Each says: types are kept, and so is every *)
(* row's invariant.                                                        *)

LEMMA OpenProposalInv ==
  ASSUME IInv, NEW p \in Proposals, NEW b \in Bindings \cup {NoBinding}, OpenProposal(p, b)
  PROVE  IInv'
  <1> USE InvByRow
  <1>1. TypeOK /\ RowInv(p) /\ audit[p] \in Seq(Event) /\ ProposalEvent \in Event
    BY EventTypes DEF TypeOK
  <1>2. Expiry(clock) \in Nat
    BY <1>1, TTLAssumption DEF Expiry, TypeOK
  <1>3. /\ audit'[p] = Append(audit[p], ProposalEvent)
        /\ proposals'[p].state = "active" /\ proposals'[p].binding = b
        /\ approvals'[p] = approvals[p]
    BY <1>1 DEF OpenProposal, TypeOK
  <1>4. TypeOK'
    <2>1. proposals' \in [Proposals -> ProposalRow]
      BY <1>1, <1>2 DEF OpenProposal, TypeOK, ProposalRow
    <2>2. audit' \in [Proposals -> Seq(Event)]
      BY <1>1, AppendFacts DEF OpenProposal, TypeOK
    <2>3. QED
      BY <1>1, <2>1, <2>2 DEF OpenProposal, TypeOK
  <1>5. RowInv(p)'
    <2>1. proposals[p].state = "absent" /\ audit[p] = <<>> /\ approvals[p].state = "absent"
      BY <1>1 DEF OpenProposal, RowInv, TrailInv, ApprovalInv, TypeOK, ApprovalRow
    <2>2. Positions(p) = {} /\ Len(audit[p]) = 0
      BY <2>1 DEF Positions
    <2>3. Starts(p) = {} /\ Terminals(p) = {}
      BY <2>2 DEF Starts, Terminals
    <2>4. Positions(p)' = {1} /\ Starts(p)' = {} /\ Terminals(p)' = {}
          /\ audit'[p][1] = ProposalEvent /\ audit'[p] # <<>>
      BY <1>1, <1>3, <2>2, <2>3, Appended DEF ProposalEvent
    <2>5. QED
      BY <1>3, <2>1, <2>4 DEF RowInv, TrailInv, StartInv, RecoveryInv, ApprovalInv, ProposalEvent
  <1>6. \A q \in Proposals \ {p} : RowInv(q)'
    BY Untouched, <1>1 DEF OpenProposal, TypeOK
  <1>7. QED
    BY <1>4, <1>5, <1>6, InvByRowNext

(* Both approval paths insert under an eligible proposal.                  *)
LEMMA InsertApprovalInv ==
  ASSUME IInv, NEW p \in Proposals, NEW op \in Operators, Eligible(p), InsertApproval(p, op)
  PROVE  IInv'
  <1> USE InvByRow
  <1>1. TypeOK /\ RowInv(p)
    OBVIOUS
  <1>2. proposals[p].binding \in Bindings \cup {NoBinding}
    BY <1>1 DEF TypeOK, ProposalRow
  <1>3. approvals'[p] = [state |-> "recorded", operator |-> op, binding |-> proposals[p].binding]
    BY <1>1 DEF InsertApproval, TypeOK
  <1>4. TypeOK'
    BY <1>1, <1>2 DEF InsertApproval, TypeOK, ApprovalRow
  <1>5. RowInv(p)'
    <2>1. UNCHANGED <<proposals[p], audit[p]>>
      BY DEF InsertApproval
    <2>2. (TrailInv(p) /\ StartInv(p) /\ RecoveryInv(p))'
      BY <1>1, <2>1 DEF RowInv, TrailInv, StartInv, RecoveryInv, Positions, Starts, Terminals
    <2>3. ApprovalInv(p)'
      BY <1>3, <2>1 DEF ApprovalInv, Eligible
    <2>4. QED
      BY <2>2, <2>3 DEF RowInv
  <1>6. \A q \in Proposals \ {p} : RowInv(q)'
    BY Untouched, <1>1 DEF InsertApproval, TypeOK
  <1>7. QED
    BY <1>4, <1>5, <1>6, InvByRowNext

LEMMA ConsumeAndStartInv ==
  ASSUME IInv, NEW p \in Proposals, NEW o \in Owners,
         NEW path \in {"standing", "proposal-bound"}, ConsumeAndStart(p, o, path)
  PROVE  IInv'
  <1> USE InvByRow
  <1> DEFINE e == StartEvent(o, path)
  <1>1. TypeOK /\ RowInv(p) /\ audit[p] \in Seq(Event) /\ e \in Event
    BY EventTypes DEF TypeOK
  <1>2. /\ audit'[p] = Append(audit[p], e)
        /\ proposals[p].state = "active"
        /\ proposals'[p].state = "consumed"
        /\ proposals'[p].binding = proposals[p].binding
        /\ approvals'[p].state # "absent" =>
             /\ approvals[p].state = "recorded" /\ approvals'[p].state = "used"
             /\ approvals'[p].binding = approvals[p].binding
    BY <1>1 DEF ConsumeAndStart, ConsumeRow, SpendApproval, Eligible, TypeOK, ProposalRow, ApprovalRow
  <1>3. TypeOK'
    <2>1. proposals' \in [Proposals -> ProposalRow]
      <3>1. PICK r : r = [proposals[p] EXCEPT !.state = "consumed", !.consumedAt = clock]
        OBVIOUS
      <3>2. r \in ProposalRow
        BY <1>1, <3>1 DEF TypeOK, ProposalRow
      <3>3. proposals' = [proposals EXCEPT ![p] = r]
        BY <3>1 DEF ConsumeAndStart, ConsumeRow
      <3>4. QED
        BY <1>1, <3>2, <3>3 DEF TypeOK
    <2>2. approvals' \in [Proposals -> ApprovalRow]
      BY <1>1 DEF ConsumeAndStart, SpendApproval, TypeOK, ApprovalRow
    <2>3. audit' \in [Proposals -> Seq(Event)]
      BY <1>1, AppendFacts DEF ConsumeAndStart, TypeOK
    <2>4. QED
      BY <1>1, <2>1, <2>2, <2>3 DEF ConsumeAndStart, TypeOK
  <1>4. RowInv(p)'
    <2> DEFINE n == Len(audit[p]) + 1
    <2>1. e.type = "execution_start"
      BY DEF StartEvent
    <2>2. Starts(p) = {} /\ audit[p] # <<>>
      BY <1>1, <1>2 DEF RowInv, StartInv, TrailInv
    <2>3. Terminals(p) = {}
      BY <1>1, <2>2 DEF RowInv, TrailInv
    <2>4. /\ n \in Nat /\ n # 0 /\ n # 1
          /\ Positions(p) = 1 .. n - 1
          /\ Positions(p)' = 1 .. n
          /\ audit'[p] # <<>>
          /\ audit'[p][n] = e
          /\ \A i \in Positions(p) : audit'[p][i] = audit[p][i]
          /\ Starts(p)' = {n}
          /\ Terminals(p)' = {}
      <3>1. Len(audit[p]) # 0
        BY <1>1, <2>2
      <3>2. QED
        BY <1>1, <1>2, <2>1, <2>2, <2>3, <3>1, Appended
    <2> HIDE DEF n, e
    <2>5. TrailInv(p)'
      <3>1. \A i \in 1 .. n : audit'[p][i].type = "proposal" <=> i = 1
        BY <1>1, <2>1, <2>4 DEF RowInv, TrailInv
      <3>2. QED
        BY <1>2, <2>4, <3>1 DEF TrailInv
    <2>6. StartInv(p)' /\ RecoveryInv(p)' /\ ApprovalInv(p)'
      BY <1>1, <1>2, <2>4 DEF RowInv, StartInv, RecoveryInv, ApprovalInv
    <2>7. QED
      BY <2>5, <2>6 DEF RowInv
  <1>5. \A q \in Proposals \ {p} : RowInv(q)'
    <2> SUFFICES ASSUME NEW q \in Proposals \ {p} PROVE RowInv(q)'
      OBVIOUS
    <2>1. UNCHANGED <<proposals[q], approvals[q], audit[q]>>
      BY <1>1 DEF ConsumeAndStart, ConsumeRow, SpendApproval, TypeOK
    <2>2. QED
      BY <2>1, Untouched
  <1>6. QED
    BY <1>3, <1>4, <1>5, InvByRowNext

(* An insert that is neither a proposal nor a start event, on a trail that *)
(* already has its proposal event; an outcome also needs its start, and a  *)
(* recovered one that no terminal event stood.                             *)
LEMMA AppendedRowInv ==
  ASSUME IInv, NEW p \in Proposals, NEW e \in {RefusalEvent, RecoveredEvent} \cup
                                              {OutcomeEvent(oc) : oc \in Outcomes},
         UNCHANGED <<proposals[p], approvals[p]>>, audit'[p] = Append(audit[p], e),
         proposals[p].state # "absent",
         e.type = "execution_outcome" => Starts(p) # {},
         e.code = "owner-dead" => Terminals(p) = {}
  PROVE  RowInv(p)'
  <1> DEFINE n == Len(audit[p]) + 1
  <1>1. TypeOK /\ RowInv(p) /\ audit[p] \in Seq(Event)
    BY InvByRow DEF TypeOK
  <1>2. e \in Event /\ e.type \in {"refusal", "execution_outcome"}
    BY EventTypes DEF RefusalEvent, RecoveredEvent, OutcomeEvent
  <1>3. audit[p] # <<>> /\ Len(audit[p]) # 0
    BY <1>1 DEF RowInv, TrailInv
  <1>4. /\ n \in Nat /\ n # 0 /\ n # 1
        /\ Positions(p) = 1 .. n - 1
        /\ Positions(p)' = 1 .. n
        /\ audit'[p] # <<>>
        /\ audit'[p][n] = e
        /\ \A i \in Positions(p) : audit'[p][i] = audit[p][i]
        /\ Starts(p)' = Starts(p)
        /\ Terminals(p)' = Terminals(p) \cup
             (IF e.type = "execution_outcome" /\ e.outcome # "none" THEN {n} ELSE {})
    <2>1. /\ n \in Nat /\ n # 0
          /\ Positions(p) = 1 .. n - 1
          /\ Positions(p)' = 1 .. n
          /\ audit'[p] # <<>>
          /\ audit'[p][n] = e
          /\ \A i \in Positions(p) : audit'[p][i] = audit[p][i]
          /\ Starts(p)' = Starts(p) \cup (IF e.type = "execution_start" THEN {n} ELSE {})
          /\ Terminals(p)' = Terminals(p) \cup
               (IF e.type = "execution_outcome" /\ e.outcome # "none" THEN {n} ELSE {})
      <3> HIDE DEF n
      <3>1. e \in Event
        BY <1>2
      <3>2. QED
        BY ONLY <1>1, <3>1, audit'[p] = Append(audit[p], e), p \in Proposals, Appended DEF n
    <2>2. n # 1
      BY <1>1, <1>3
    <2>3. e.type # "execution_start"
      BY <1>2
    <2> HIDE DEF n
    <2>4. QED
      BY <2>1, <2>2, <2>3
  <1>5. \A i \in Starts(p) \cup Terminals(p) : i \in Positions(p) /\ i \in Nat /\ i < n
    BY <1>4 DEF Starts, Terminals
  <1> HIDE DEF n
  <1>6. TrailInv(p)'
    <2>1. \A i \in 1 .. n : audit'[p][i].type = "proposal" <=> i = 1
      <3> SUFFICES ASSUME NEW i \in 1 .. n PROVE audit'[p][i].type = "proposal" <=> i = 1
        OBVIOUS
      <3>1. i \in Positions(p) \/ i = n
        BY <1>4
      <3>2. CASE i \in Positions(p)
        BY <1>1, <1>4, <3>2 DEF RowInv, TrailInv
      <3>3. CASE i = n
        BY <1>2, <1>4, <3>3
      <3>4. QED
        BY ONLY <3>1, <3>2, <3>3
    <2>2. \A i \in Terminals(p)' : \E j \in Starts(p)' : j < i
      <3> SUFFICES ASSUME NEW i \in Terminals(p)' PROVE \E j \in Starts(p) : j < i
        BY <1>4
      <3>1. CASE i \in Terminals(p)
        BY <1>1, <3>1 DEF RowInv, TrailInv
      <3>2. CASE i = n /\ e.type = "execution_outcome"
        BY <1>5, <3>2
      <3>3. QED
        BY <1>4, <3>1, <3>2
    <2>3. QED
      BY <1>1, <1>3, <1>4, <2>1, <2>2 DEF RowInv, TrailInv
  <1>7. StartInv(p)'
    BY <1>1, <1>4 DEF RowInv, StartInv
  <1>8. ApprovalInv(p)'
    BY <1>1 DEF RowInv, ApprovalInv
  <1>9. RecoveryInv(p)'
    <2> SUFFICES ASSUME NEW i \in Terminals(p)', NEW j \in Terminals(p)',
                        audit'[p][j].code = "owner-dead"
                 PROVE  j <= i
      BY DEF RecoveryInv
    <2>1. (i \in Terminals(p) \/ i = n) /\ (j \in Terminals(p) \/ j = n)
      BY <1>4
    <2>2. CASE j \in Terminals(p)
      <3>1. audit[p][j].code = "owner-dead" /\ j < n
        BY <1>4, <1>5, <2>2
      <3>2. CASE i \in Terminals(p)
        BY <1>1, <2>2, <3>1, <3>2 DEF RowInv, RecoveryInv
      <3>3. CASE i = n
        <4>1. j \in Nat /\ n \in Nat
          BY <1>4, <1>5, <2>2
        <4>2. QED
          BY <3>1, <3>3, <4>1
      <3>4. QED
        BY <2>1, <3>2, <3>3
    <2>3. CASE j = n
      <3>1. Terminals(p) = {}
        BY <1>4, <2>3
      <3>2. i = n
        BY <2>1, <3>1
      <3>3. QED
        BY <1>4, <2>3, <3>2
    <2>4. QED
      BY <2>1, <2>2, <2>3
  <1>10. QED
    BY <1>6, <1>7, <1>8, <1>9 DEF RowInv

LEMMA AppendEventInv ==
  ASSUME IInv, NEW p \in Proposals, NEW e \in {RefusalEvent} \cup {OutcomeEvent(oc) : oc \in Outcomes},
         AppendEvent(p, e), proposals[p].state # "absent",
         e.type = "execution_outcome" => Starts(p) # {}
  PROVE  IInv'
  <1>1. TypeOK /\ audit[p] \in Seq(Event) /\ \A q \in Proposals : RowInv(q)
    BY InvByRow DEF TypeOK
  <1>2. e \in Event /\ e.code # "owner-dead"
    BY EventTypes DEF RefusalEvent, OutcomeEvent
  <1>3. TypeOK'
    BY <1>1, <1>2, AppendFacts DEF AppendEvent, TypeOK
  <1>4. audit'[p] = Append(audit[p], e)
    BY <1>1 DEF AppendEvent, TypeOK
  <1>5. RowInv(p)'
    BY <1>2, <1>4, AppendedRowInv DEF AppendEvent
  <1>6. \A q \in Proposals \ {p} : RowInv(q)'
    BY <1>1, Untouched DEF AppendEvent, TypeOK
  <1>7. QED
    BY <1>3, <1>5, <1>6, InvByRowNext

LEMMA ReconcileInv ==
  ASSUME IInv, NEW dead \in SUBSET Owners, Reconcile(dead)
  PROVE  IInv'
  <1>1. TypeOK /\ \A q \in Proposals : RowInv(q) /\ audit[q] \in Seq(Event)
    BY InvByRow DEF TypeOK
  <1>2. TypeOK'
    BY <1>1, EventTypes, AppendFacts DEF Reconcile, TypeOK
  <1>3. ASSUME NEW q \in Proposals PROVE RowInv(q)'
    <2>1. CASE Interrupted(q, dead)
      <3>1. audit'[q] = Append(audit[q], RecoveredEvent) /\ UNCHANGED <<proposals[q], approvals[q]>>
        BY <2>1 DEF Reconcile
      <3>2. Starts(q) # {} /\ Terminals(q) = {}
        BY <2>1 DEF Interrupted
      <3>3. proposals[q].state # "absent"
        BY <1>1, <3>2 DEF RowInv, StartInv
      <3>4. QED
        BY <3>1, <3>2, <3>3, AppendedRowInv
    <2>2. CASE ~Interrupted(q, dead)
      BY <1>1, <2>2, Untouched DEF Reconcile
    <2>3. QED
      BY <2>1, <2>2
  <1>4. QED
    BY <1>2, <1>3, InvByRowNext

LEMMA StutterInv ==
  ASSUME IInv, UNCHANGED <<proposals, approvals, audit>>, clock' \in Nat
  PROVE  IInv'
  <1>1. TypeOK'
    BY DEF IInv, TypeOK
  <1>2. \A q \in Proposals : RowInv(q)'
    BY InvByRow, Untouched
  <1>3. QED
    BY <1>1, <1>2, InvByRowNext

LEMMA NextInv == IInv /\ [Next]_ledgerVars => IInv'
  <1> SUFFICES ASSUME IInv, [Next]_ledgerVars PROVE IInv'
    OBVIOUS
  <1>1. ASSUME NEW p \in Proposals, NEW b \in Bindings \cup {NoBinding}, OpenProposal(p, b)
        PROVE  IInv'
    BY <1>1, OpenProposalInv
  <1>2. ASSUME NEW p \in Proposals, NEW presented \in Operators, NEW configured \in Operators,
               \/ RecordApproval(p, presented, configured)
               \/ RecordApprovalByProposalId(p, presented, configured)
        PROVE  IInv'
    BY <1>2, InsertApprovalInv DEF RecordApproval, RecordApprovalByProposalId
  <1>3. ASSUME NEW p \in Proposals, NEW o \in Owners, NEW path \in {"standing", "proposal-bound"},
               ConsumeAndStart(p, o, path)
        PROVE  IInv'
    BY <1>3, ConsumeAndStartInv
  <1>4. ASSUME NEW p \in Proposals, NEW oc \in Outcomes, AppendOutcome(p, oc)
        PROVE  IInv'
    <2>1. proposals[p].state # "absent"
      BY <1>4 DEF AppendOutcome, IInv, StartPairedWithConsumption
    <2>2. QED
      BY <1>4, <2>1, AppendEventInv DEF AppendOutcome
  <1>5. ASSUME NEW p \in Proposals, AppendRefusal(p)
        PROVE  IInv'
    BY <1>5, AppendEventInv DEF AppendRefusal, RefusalEvent
  <1>6. ASSUME NEW dead \in SUBSET Owners, Reconcile(dead)
        PROVE  IInv'
    BY <1>6, ReconcileInv
  <1>7. CASE Tick
    BY <1>7, StutterInv, BoundsAssumption DEF Tick, Times
  <1>8. CASE UNCHANGED ledgerVars
    BY <1>8, StutterInv DEF ledgerVars, IInv, TypeOK
  <1>9. QED
    BY <1>1, <1>2, <1>3, <1>4, <1>5, <1>6, <1>7, <1>8 DEF Next

(* The five invariants of the ledger hold in every reachable state.        *)
THEOREM LedgerInvariant == Spec => []IInv
  BY InitInv, NextInv, PTL DEF Spec

(* The rows and events the writers produce have the types the readers      *)
(* rely on, in every reachable state of the database.                      *)
THEOREM LedgerTypes == Spec => []TypeOK
  <1>1. IInv => TypeOK
    BY DEF IInv
  <1>2. QED
    BY LedgerInvariant, <1>1, PTL

(* Issue #40: a proposal exists exactly when its trail starts with its     *)
(* proposal event, and no outcome precedes the start it closes.            *)
THEOREM TrailsWellFounded == Spec => []TrailWellFounded
  <1>1. IInv => TrailWellFounded
    BY DEF IInv
  <1>2. QED
    BY LedgerInvariant, <1>1, PTL

(* ADR 0003 rule 4: an approval is spent exactly when its token is         *)
(* consumed, whatever the order of recordings, dispatches and sweeps.      *)
THEOREM ApprovalsSpentWithTokens == Spec => []ApprovalSpentWithToken
  <1>1. IInv => ApprovalSpentWithToken
    BY DEF IInv
  <1>2. QED
    BY <1>1, LedgerInvariant, PTL

(* ADR 0002 rule 6: a token is consumed exactly when its single            *)
(* execution_start record stands.                                          *)
THEOREM ConsumptionsPaired == Spec => []StartPairedWithConsumption
  <1>1. IInv => StartPairedWithConsumption
    BY DEF IInv
  <1>2. QED
    BY <1>1, LedgerInvariant, PTL

(* ADR 0005: a recovered outcome is always the first terminal event.       *)
THEOREM RecoveryFirst == Spec => []RecoveryNeverSecond
  <1>1. IInv => RecoveryNeverSecond
    BY DEF IInv
  <1>2. QED
    BY <1>1, LedgerInvariant, PTL

-----------------------------------------------------------------------------
(* What is written stays written.                                          *)

(* What a step may do to the rows and the trail of one proposal.           *)
RowDurable(p) ==
  /\ Len(audit[p]) <= Len(audit'[p])
  /\ \A i \in Positions(p) : audit'[p][i] = audit[p][i]
  /\ proposals[p].state = "consumed" => proposals'[p] = proposals[p]
  /\ proposals[p].state = "active" =>
        /\ proposals'[p].state # "absent"
        /\ proposals'[p].expires = proposals[p].expires
        /\ proposals'[p].binding = proposals[p].binding
  /\ approvals[p].state # "absent" =>
        /\ approvals'[p].state \in {approvals[p].state, "used"}
        /\ approvals'[p].operator = approvals[p].operator
        /\ approvals'[p].binding = approvals[p].binding

(* A step that leaves a trail alone or appends one event to it keeps it.   *)
LEMMA TrailGrows ==
  ASSUME TypeOK, NEW p \in Proposals, NEW e \in Event,
         audit'[p] \in {audit[p], Append(audit[p], e)}
  PROVE  /\ Len(audit[p]) <= Len(audit'[p])
         /\ \A i \in Positions(p) : audit'[p][i] = audit[p][i]
  <1>1. audit[p] \in Seq(Event)
    BY DEF TypeOK
  <1>2. QED
    BY <1>1, AppendFacts DEF Positions

LEMMA StepDurable == IInv /\ [Next]_ledgerVars => DurableStep
  <1> SUFFICES ASSUME IInv, [Next]_ledgerVars, NEW q \in Proposals
               PROVE  RowDurable(q)
    BY DEF DurableStep, RowDurable
  <1>1. TypeOK
    BY DEF IInv
  <1> DEFINE Grows == \E e \in Event : audit'[q] \in {audit[q], Append(audit[q], e)}
  <1>2. ASSUME NEW p \in Proposals, NEW b \in Bindings \cup {NoBinding}, OpenProposal(p, b)
        PROVE  RowDurable(q)
    <2>1. Grows
      BY <1>1, <1>2, EventTypes DEF OpenProposal, TypeOK
    <2>2. proposals'[q] = proposals[q] \/ proposals[q].state = "absent"
      BY <1>1, <1>2 DEF OpenProposal, TypeOK
    <2>3. QED
      BY <1>1, <1>2, <2>1, <2>2, TrailGrows DEF OpenProposal, RowDurable
  <1>3. ASSUME NEW p \in Proposals, NEW presented \in Operators, NEW configured \in Operators,
               \/ RecordApproval(p, presented, configured)
               \/ RecordApprovalByProposalId(p, presented, configured)
        PROVE  RowDurable(q)
    <2>1. InsertApproval(p, configured)
      BY <1>3 DEF RecordApproval, RecordApprovalByProposalId
    <2>2. approvals'[q] = approvals[q] \/ approvals[q].state = "absent"
      BY <1>1, <2>1 DEF InsertApproval, TypeOK
    <2>3. Grows
      BY <2>1, EventTypes DEF InsertApproval
    <2>4. QED
      BY <1>1, <2>1, <2>2, <2>3, TrailGrows DEF InsertApproval, RowDurable
  <1>4. ASSUME NEW p \in Proposals, NEW o \in Owners, NEW path \in {"standing", "proposal-bound"},
               ConsumeAndStart(p, o, path)
        PROVE  RowDurable(q)
    <2>1. Grows
      BY <1>1, <1>4, EventTypes DEF ConsumeAndStart, TypeOK
    <2>2. \/ proposals'[q] = proposals[q]
          \/ /\ proposals[q].state = "active" /\ proposals'[q].state = "consumed"
             /\ proposals'[q].expires = proposals[q].expires
             /\ proposals'[q].binding = proposals[q].binding
      BY <1>1, <1>4 DEF ConsumeAndStart, ConsumeRow, Eligible, TypeOK, ProposalRow
    <2>3. \/ approvals'[q] = approvals[q]
          \/ /\ approvals'[q].state = "used"
             /\ approvals'[q].operator = approvals[q].operator
             /\ approvals'[q].binding = approvals[q].binding
      BY <1>1, <1>4 DEF ConsumeAndStart, SpendApproval, TypeOK, ApprovalRow
    <2>4. QED
      BY <1>1, <2>1, <2>2, <2>3, TrailGrows DEF RowDurable
  <1>5. ASSUME NEW p \in Proposals, NEW e \in Event, AppendEvent(p, e)
        PROVE  RowDurable(q)
    <2>1. Grows
      BY <1>1, <1>5 DEF AppendEvent, TypeOK
    <2>2. QED
      BY <1>1, <1>5, <2>1, TrailGrows DEF AppendEvent, RowDurable
  <1>6. ASSUME NEW dead \in SUBSET Owners, Reconcile(dead)
        PROVE  RowDurable(q)
    <2>1. Grows
      BY <1>6, EventTypes DEF Reconcile
    <2>2. QED
      BY <1>1, <1>6, <2>1, TrailGrows DEF Reconcile, RowDurable
  <1>7. CASE UNCHANGED <<proposals, approvals, audit>>
    <2>1. Grows
      BY <1>7, EventTypes
    <2>2. QED
      BY <1>1, <1>7, <2>1, TrailGrows DEF RowDurable
  <1>8. QED
    BY <1>2, <1>3, <1>4, <1>5, <1>6, <1>7, EventTypes
       DEF Next, Tick, ledgerVars, AppendOutcome, AppendRefusal

(* Trails only grow, consumption and use are final, and an open proposal's *)
(* expiry and binding are immutable.                                       *)
THEOREM LedgerDurable == Spec => Durable
  BY LedgerInvariant, StepDurable, PTL DEF Spec, Durable

=============================================================================
