--------------------------- MODULE UnitsOfWorkProofs ---------------------------
(***************************************************************************)
(* Statement by statement, the store's transactions are the units of work  *)
(* of the ledger, for any number of connections, proposals, operators and  *)
(* owners.  The invariant says of the one session that holds the write     *)
(* lock how far its view is from the committed tables, and of every        *)
(* session that waits with an outcome why it may still be appended.        *)
(***************************************************************************)
EXTENDS UnitsOfWork, LedgerProofs, FiniteSetTheorems, WellFoundedInduction

Session == [unit : Unit \cup {NoUnit}, at : Nat, now : Times, view : View \cup {NoView}]

-----------------------------------------------------------------------------
(* What a session has done to its view when it is at a statement.          *)

OpenDone(x) ==
  LET p == x.unit.p
  IN  /\ clock = x.now
      /\ x.view.approvals = approvals
      /\ x.at > 1 => proposals[p].state = "absent"
      /\ x.view.proposals =
           IF x.at = 1 THEN proposals
           ELSE [proposals EXCEPT ![p] = [state |-> "active", expires |-> Expiry(x.now),
                                          consumedAt |-> 0,
                                          binding |-> IF x.at = 2 THEN NoBinding
                                                      ELSE x.unit.binding]]
      /\ x.view.audit = IF x.at < 4 THEN audit
                        ELSE [audit EXCEPT ![p] = Append(@, ProposalEvent)]

Checked(x) ==
  /\ clock = x.now
  /\ proposals[x.unit.p].state = "active"
  /\ x.now < proposals[x.unit.p].expires

ApprovalDone(x) ==
  LET p == x.unit.p
  IN  /\ x.view.proposals = proposals /\ x.view.audit = audit
      /\ x.at > 1 => Checked(x) /\ (x.unit.byId => proposals[p].binding # NoBinding)
      /\ x.at < 3 => x.view.approvals = approvals
      /\ x.at > 2 =>
           /\ approvals[p].state = "absent"
           /\ x.view.approvals =
                [approvals EXCEPT ![p] = [state |-> "recorded", operator |-> x.unit.operator,
                                          binding |-> proposals[p].binding]]

ConsumedRows(x) == [proposals EXCEPT ![x.unit.p].state = "consumed",
                                     ![x.unit.p].consumedAt = x.now]
StartedTrail(x) ==
  [audit EXCEPT ![x.unit.p] = Append(@, StartEvent(x.unit.owner, x.unit.path))]
SpentRows(x) == IF approvals[x.unit.p].state = "recorded"
                THEN [approvals EXCEPT ![x.unit.p].state = "used"] ELSE approvals

ConsumptionDone(x) ==
  /\ x.at > 1 => Checked(x)
  /\ x.view.proposals = IF x.at < 3 THEN proposals ELSE ConsumedRows(x)
  /\ x.view.audit = IF x.at < 4 THEN audit ELSE StartedTrail(x)
  /\ x.at > 4 => approvals[x.unit.p].state # "used"
  /\ x.view.approvals = IF x.at > 4 THEN SpentRows(x) ELSE approvals

AppendingDone(x) ==
  /\ x.view.proposals = proposals /\ x.view.approvals = approvals
  /\ x.view.audit = IF x.at = 1 THEN audit
                    ELSE [audit EXCEPT ![x.unit.p] = Append(@, x.unit.event)]

SweepingDone(x) ==
  /\ x.view.proposals = proposals /\ x.view.approvals = approvals
  /\ x.view.audit = IF x.at = 1 THEN audit
                    ELSE [p \in Proposals |-> IF Interrupted(p, x.unit.dead)
                                              THEN Append(audit[p], RecoveredEvent)
                                              ELSE audit[p]]

SearchingDone(x) ==
  x.view.proposals = proposals /\ x.view.approvals = approvals /\ x.view.audit = audit

Done(x) ==
  /\ x.unit \in Unit
  /\ x.at \in 1 .. Len(Program(x.unit)) + 1
  /\ x.unit \in Open => OpenDone(x)
  /\ x.unit \in Approval => ApprovalDone(x)
  /\ x.unit \in Consumption => ConsumptionDone(x)
  /\ x.unit \in Appending => AppendingDone(x)
  /\ x.unit \in Sweeping => SweepingDone(x)
  /\ x.unit \in Searching => SearchingDone(x)

Alone == \A s, t \in Sessions : Holds(s) /\ Holds(t) => s = t

(* An execution that may still be closed: at most recoveries closed it.    *)
Closable(p) == Starts(p) # {} /\ \A i \in Terminals(p) : audit[p][i].code = "owner-dead"

Closing(u) == u \in Appending /\ u.event # RefusalEvent

(* What the callers saw when they issued a unit stays so until it commits. *)
Issued(u) == u \in Appending => /\ proposals[u.p].state # "absent"
                                /\ Closing(u) => Closable(u.p)

OneCloser ==
  \A s, t \in Sessions :
    Closing(session[s].unit) /\ Closing(session[t].unit) /\ session[s].unit.p = session[t].unit.p
      => s = t

UnitsInv ==
  /\ IInv
  /\ clock \in Times /\ wall \in Times /\ last \in Nat /\ searched \in Nat /\ answered \in Nat
  /\ session \in [Sessions -> Session]
  /\ Alone
  /\ \A s \in Sessions : Holds(s) => Done(session[s])
  /\ \A s \in Sessions : Issued(session[s].unit)
  /\ OneCloser

-----------------------------------------------------------------------------
(* Units and their statements.                                             *)

LEMMA UnitKinds ==
  ASSUME NEW u \in Unit
  PROVE  /\ u.kind \in {"open", "approve", "consume", "append", "sweep", "search"}
         /\ u.kind = "open" <=> u \in Open
         /\ u.kind = "approve" <=> u \in Approval
         /\ u.kind = "consume" <=> u \in Consumption
         /\ u.kind = "append" <=> u \in Appending
         /\ u.kind = "sweep" <=> u \in Sweeping
         /\ u.kind = "search" <=> u \in Searching
  BY DEF Unit, Open, Approval, Consumption, Appending, Sweeping, Searching

LEMMA Programs ==
  ASSUME NEW u \in Unit
  PROVE  /\ u \in Open => Program(u) = <<"proposal", "binding", "opened">>
         /\ u \in Approval => Program(u) = <<"check", "approval">>
         /\ u \in Consumption => Program(u) = <<"check", "swap", "start", "spend">>
         /\ u \in Appending => Program(u) = <<"event">>
         /\ u \in Sweeping => Program(u) = <<"sweep">>
         /\ u \in Searching => Program(u) = <<"request", "guidance">>
  BY UnitKinds DEF Program

LEMMA Lengths ==
  ASSUME NEW u \in Unit
  PROVE  /\ u \in Open => Len(Program(u)) = 3
         /\ u \in Approval => Len(Program(u)) = 2
         /\ u \in Consumption => Len(Program(u)) = 4
         /\ u \in Appending => Len(Program(u)) = 1
         /\ u \in Sweeping => Len(Program(u)) = 1
         /\ u \in Searching => Len(Program(u)) = 2
  BY Programs

LEMMA Statements ==
  ASSUME NEW s \in Sessions, session[s].unit \in Unit
  PROVE  LET x == session[s]
         IN  /\ AtStatement(s, "proposal") => x.unit \in Open /\ x.at = 1
             /\ AtStatement(s, "binding") => x.unit \in Open /\ x.at = 2
             /\ AtStatement(s, "opened") => x.unit \in Open /\ x.at = 3
             /\ AtStatement(s, "check") => x.unit \in Approval \cup Consumption /\ x.at = 1
             /\ AtStatement(s, "approval") => x.unit \in Approval /\ x.at = 2
             /\ AtStatement(s, "swap") => x.unit \in Consumption /\ x.at = 2
             /\ AtStatement(s, "start") => x.unit \in Consumption /\ x.at = 3
             /\ AtStatement(s, "spend") => x.unit \in Consumption /\ x.at = 4
             /\ AtStatement(s, "event") => x.unit \in Appending /\ x.at = 1
             /\ AtStatement(s, "sweep") => x.unit \in Sweeping /\ x.at = 1
             /\ AtStatement(s, "request") \/ AtStatement(s, "guidance")
                  => x.unit \in Searching /\ x.at \in {1, 2}
  <1> DEFINE u == session[s].unit  k == session[s].at
  <1>1. u \in Open \cup Approval \cup Consumption \cup Appending \cup Sweeping \cup Searching
    BY DEF Unit
  <1>2. CASE u \in Open
    BY <1>2, Programs, UnitKinds DEF AtStatement
  <1>3. CASE u \in Approval
    BY <1>3, Programs, UnitKinds DEF AtStatement
  <1>4. CASE u \in Consumption
    BY <1>4, Programs, UnitKinds DEF AtStatement
  <1>5. CASE u \in Appending
    BY <1>5, Programs, UnitKinds DEF AtStatement
  <1>6. CASE u \in Sweeping
    BY <1>6, Programs, UnitKinds DEF AtStatement
  <1>7. CASE u \in Searching
    BY <1>7, Programs, UnitKinds DEF AtStatement
  <1>8. QED
    BY <1>1, <1>2, <1>3, <1>4, <1>5, <1>6, <1>7

(* SQLite ends a transaction on no statement that passes the filter.       *)
LEMMA EveryAttemptRejected == \A a \in Attempt : Rejected(a)
  BY DEF Attempt, Rejected, LeadKeyword, TransactionControl

-----------------------------------------------------------------------------
(* A unit is of one kind, which says how far it can have got.              *)
LEMMA KindsApart ==
  ASSUME NEW u \in Unit
  PROVE  /\ u \in Open =>
              u \notin Approval \cup Consumption \cup Appending \cup Sweeping \cup Searching
         /\ u \in Approval => u \notin Consumption \cup Appending \cup Sweeping \cup Searching
         /\ u \in Consumption => u \notin Appending \cup Sweeping \cup Searching
         /\ u \in Appending => u \notin Sweeping \cup Searching
         /\ u \in Sweeping => u \notin Searching
         /\ u \in Open => 1 .. Len(Program(u)) + 1 = 1 .. 4
         /\ u \in Approval => 1 .. Len(Program(u)) + 1 = 1 .. 3
         /\ u \in Consumption => 1 .. Len(Program(u)) + 1 = 1 .. 5
         /\ u \in Appending => 1 .. Len(Program(u)) + 1 = 1 .. 2
         /\ u \in Sweeping => 1 .. Len(Program(u)) + 1 = 1 .. 2
         /\ u \in Searching => 1 .. Len(Program(u)) + 1 = 1 .. 3
  <1>1. /\ u \in Open =>
             u \notin Approval \cup Consumption \cup Appending \cup Sweeping \cup Searching
        /\ u \in Approval => u \notin Consumption \cup Appending \cup Sweeping \cup Searching
        /\ u \in Consumption => u \notin Appending \cup Sweeping \cup Searching
        /\ u \in Appending => u \notin Sweeping \cup Searching
        /\ u \in Sweeping => u \notin Searching
    BY UnitKinds
  <1>2. 3 + 1 = 4 /\ 2 + 1 = 3 /\ 4 + 1 = 5 /\ 1 + 1 = 2
    OBVIOUS
  <1>3. /\ u \in Open => Len(Program(u)) = 3
        /\ u \in Approval => Len(Program(u)) = 2
        /\ u \in Consumption => Len(Program(u)) = 4
        /\ u \in Appending => Len(Program(u)) = 1
        /\ u \in Sweeping => Len(Program(u)) = 1
        /\ u \in Searching => Len(Program(u)) = 2
    BY Lengths
  <1>4. QED
    BY <1>1, <1>2, <1>3, Zenon

LEMMA DoneKinds ==
  ASSUME NEW y, y.unit \in Unit
  PROVE  /\ y.unit \in Open => (Done(y) <=> y.at \in 1 .. 4 /\ OpenDone(y))
         /\ y.unit \in Approval => (Done(y) <=> y.at \in 1 .. 3 /\ ApprovalDone(y))
         /\ y.unit \in Consumption => (Done(y) <=> y.at \in 1 .. 5 /\ ConsumptionDone(y))
         /\ y.unit \in Appending => (Done(y) <=> y.at \in 1 .. 2 /\ AppendingDone(y))
         /\ y.unit \in Sweeping => (Done(y) <=> y.at \in 1 .. 2 /\ SweepingDone(y))
         /\ y.unit \in Searching => (Done(y) <=> y.at \in 1 .. 3 /\ SearchingDone(y))
  <1>1. PICK u : u = y.unit
    OBVIOUS
  <1>2. u \in Unit
    BY <1>1
  <1>3. Done(y) <=> /\ u \in Unit
                    /\ y.at \in 1 .. Len(Program(u)) + 1
                    /\ u \in Open => OpenDone(y)
                    /\ u \in Approval => ApprovalDone(y)
                    /\ u \in Consumption => ConsumptionDone(y)
                    /\ u \in Appending => AppendingDone(y)
                    /\ u \in Sweeping => SweepingDone(y)
                    /\ u \in Searching => SearchingDone(y)
    BY <1>1 DEF Done
  <1>4. CASE u \in Open
    BY <1>1, <1>2, <1>3, <1>4, KindsApart
  <1>5. CASE u \in Approval
    BY <1>1, <1>2, <1>3, <1>5, KindsApart
  <1>6. CASE u \in Consumption
    BY <1>1, <1>2, <1>3, <1>6, KindsApart
  <1>7. CASE u \in Appending
    BY <1>1, <1>2, <1>3, <1>7, KindsApart
  <1>8. CASE u \in Sweeping
    BY <1>1, <1>2, <1>3, <1>8, KindsApart
  <1>9. CASE u \in Searching
    BY <1>1, <1>2, <1>3, <1>9, KindsApart
  <1>10. QED
    BY <1>1, <1>2, <1>4, <1>5, <1>6, <1>7, <1>8, <1>9 DEF Unit

(* The same of a session and the next tables.                              *)
LEMMA DoneKindsNext ==
  ASSUME NEW y, y.unit \in Unit
  PROVE  /\ y.unit \in Open /\ y.at \in 1 .. 4 /\ OpenDone(y)' => Done(y)'
         /\ y.unit \in Approval /\ y.at \in 1 .. 3 /\ ApprovalDone(y)' => Done(y)'
         /\ y.unit \in Consumption /\ y.at \in 1 .. 5 /\ ConsumptionDone(y)' => Done(y)'
         /\ y.unit \in Appending /\ y.at \in 1 .. 2 /\ AppendingDone(y)' => Done(y)'
         /\ y.unit \in Sweeping /\ y.at \in 1 .. 2 /\ SweepingDone(y)' => Done(y)'
         /\ y.unit \in Searching /\ y.at \in 1 .. 3 /\ SearchingDone(y)' => Done(y)'
  <1>1. PICK u : u = y.unit
    OBVIOUS
  <1>2. u \in Unit
    BY <1>1
  <1>3. Done(y)' <=> /\ u \in Unit
                     /\ y.at \in 1 .. Len(Program(u)) + 1
                     /\ u \in Open => OpenDone(y)'
                     /\ u \in Approval => ApprovalDone(y)'
                     /\ u \in Consumption => ConsumptionDone(y)'
                     /\ u \in Appending => AppendingDone(y)'
                     /\ u \in Sweeping => SweepingDone(y)'
                     /\ u \in Searching => SearchingDone(y)'
    BY <1>1 DEF Done
  <1>4. CASE u \in Open
    BY <1>1, <1>2, <1>3, <1>4, KindsApart
  <1>5. CASE u \in Approval
    BY <1>1, <1>2, <1>3, <1>5, KindsApart
  <1>6. CASE u \in Consumption
    BY <1>1, <1>2, <1>3, <1>6, KindsApart
  <1>7. CASE u \in Appending
    BY <1>1, <1>2, <1>3, <1>7, KindsApart
  <1>8. CASE u \in Sweeping
    BY <1>1, <1>2, <1>3, <1>8, KindsApart
  <1>9. CASE u \in Searching
    BY <1>1, <1>2, <1>3, <1>9, KindsApart
  <1>10. QED
    BY <1>1, <1>2, <1>4, <1>5, <1>6, <1>7, <1>8, <1>9 DEF Unit

(* Progress is relative to the committed tables only.                      *)
LEMMA SameDone ==
  ASSUME NEW y, Done(y), UNCHANGED <<clock, proposals, approvals, audit>>
  PROVE  Done(y)'
  <1>1. OpenDone(y) => OpenDone(y)'
    BY DEF OpenDone
  <1>2. ApprovalDone(y) => ApprovalDone(y)'
    BY DEF ApprovalDone, Checked
  <1>3. ConsumptionDone(y) => ConsumptionDone(y)'
    BY DEF ConsumptionDone, Checked, ConsumedRows, StartedTrail, SpentRows
  <1>4. AppendingDone(y) => AppendingDone(y)'
    BY DEF AppendingDone
  <1>5. SweepingDone(y) => SweepingDone(y)'
    BY DEF SweepingDone, Interrupted, Starts, Terminals, Positions
  <1>6. SearchingDone(y) => SearchingDone(y)'
    BY DEF SearchingDone
  <1>7. QED
    BY <1>1, <1>2, <1>3, <1>4, <1>5, <1>6 DEF Done

-----------------------------------------------------------------------------
(* A step of one session that leaves the tables alone.                     *)

LEMMA OwnStep ==
  ASSUME UnitsInv, NEW s \in Sessions, NEW x \in Session,
         UNCHANGED <<proposals, approvals, audit>>,
         session' = [session EXCEPT ![s] = x],
         clock' \in Times, wall' \in Times, last' \in Nat, searched' \in Nat, answered' \in Nat,
         \/ \A t \in Sessions : Holds(t) => t = s
         \/ x.view = NoView /\ clock' = clock,
         x.unit \in {session[s].unit, NoUnit},
         x.view # NoView => Done(x)'
  PROVE  UnitsInv'
  <1>1. IInv'
    <2>1. clock' \in Nat
      BY BoundsAssumption DEF Times
    <2>2. QED
      BY <2>1, StutterInv DEF UnitsInv
  <1>2. session' \in [Sessions -> Session]
    BY DEF UnitsInv
  <1>3. session'[s] = x /\ \A t \in Sessions \ {s} : session'[t] = session[t]
    BY DEF UnitsInv
  <1>4. Alone'
    BY <1>3 DEF Alone, Holds, UnitsInv
  <1>5. ASSUME NEW t \in Sessions, Holds(t)' PROVE Done(session[t])'
    <2>1. CASE t = s
      BY <1>3, <1>5, <2>1 DEF Holds
    <2>2. CASE t # s
      <3>1. Holds(t) /\ session'[t] = session[t]
        BY <1>3, <1>5, <2>2 DEF Holds
      <3>2. clock' = clock
        BY <2>2, <3>1
      <3>3. PICK z : z = session[t]
        OBVIOUS
      <3>4. Done(z)
        BY <3>1, <3>3 DEF UnitsInv
      <3>5. Done(z)'
        BY <3>2, <3>4, SameDone
      <3>6. QED
        BY <3>1, <3>3, <3>5
    <2>3. QED
      BY <2>1, <2>2
  <1>6. ASSUME NEW t \in Sessions PROVE Issued(session[t].unit)'
    <2>1. Issued(session[t].unit)
      BY DEF UnitsInv
    <2>2. session'[t].unit \in {session[t].unit, NoUnit}
      BY <1>3
    <2>3. NoUnit \notin Appending
      BY UnitsAssumption DEF Unit
    <2>4. \A p : Closable(p) => Closable(p)'
      BY DEF Closable, Starts, Terminals, Positions
    <2>5. QED
      BY <2>1, <2>2, <2>3, <2>4 DEF Issued, Closing
  <1>7. OneCloser'
    <2>1. \A t \in Sessions : session'[t].unit \in {session[t].unit, NoUnit}
      BY <1>3
    <2>2. ~Closing(NoUnit)
      BY UnitsAssumption DEF Unit, Closing
    <2>3. QED
      BY <2>1, <2>2 DEF OneCloser, UnitsInv, Closing
  <1>8. QED
    BY <1>1, <1>2, <1>4, <1>5, <1>6, <1>7 DEF UnitsInv

(* Leaving the lock, or the wait for it, with nothing done.                *)
LEMMA IdleSession == Idle \in Session /\ Idle.view = NoView /\ Idle.unit = NoUnit
  BY BoundsAssumption DEF Idle, Session, Times

LEMMA HolderFacts ==
  ASSUME UnitsInv, NEW s \in Sessions, Holds(s)
  PROVE  /\ session[s] \in Session
         /\ session[s].unit \in Unit /\ session[s].at \in Nat
         /\ session[s].now \in Nat /\ session[s].now \in Times
         /\ session[s].view \in View
         /\ Done(session[s])
         /\ \A t \in Sessions : Holds(t) => t = s
         /\ TypeOK
  <1>1. Done(session[s]) /\ session[s] \in Session /\ TypeOK
    BY DEF UnitsInv, IInv
  <1>2. session[s].view \in View
    BY <1>1 DEF Holds, Session
  <1>3. \A t \in Sessions : Holds(t) => t = s
    BY DEF UnitsInv, Alone
  <1>4. session[s].now \in Times /\ session[s].now \in Nat
    BY <1>1 DEF Session, Times
  <1>5. QED
    BY <1>1, <1>2, <1>3, <1>4 DEF Done, Session

LEMMA RollsBack ==
  ASSUME UnitsInv, NEW s \in Sessions, session' = [session EXCEPT ![s] = Idle],
         UNCHANGED <<ledgerVars, wall, last, searched, answered>>
  PROVE  UnitsInv'
  <1>1. PICK x \in Session : x = Idle /\ x.view = NoView /\ x.unit = NoUnit
    BY IdleSession
  <1>2. session' = [session EXCEPT ![s] = x]
    BY <1>1
  <1>3. UNCHANGED <<proposals, approvals, audit, clock, wall, last, searched, answered>>
    BY DEF ledgerVars
  <1>4. /\ clock' \in Times /\ wall' \in Times
        /\ last' \in Nat /\ searched' \in Nat /\ answered' \in Nat
    BY <1>3 DEF UnitsInv
  <1>5. QED
    BY <1>1, <1>2, <1>3, <1>4, OwnStep

-----------------------------------------------------------------------------
(* The statements that write: each one moves its session's view on.        *)

(* A session that moved on is a session.                                   *)
LEMMA MovedOn ==
  ASSUME NEW U, NEW T, NEW W, NEW r \in [unit : U, at : Nat, now : T, view : W],
         NEW k \in Nat, NEW w \in W
  PROVE  LET x == [r EXCEPT !.at = k, !.view = w]
         IN  /\ x \in [unit : U, at : Nat, now : T, view : W]
             /\ x.unit = r.unit /\ x.at = k /\ x.now = r.now /\ x.view = w
  OBVIOUS

LEMMA Timed ==
  ASSUME NEW U, NEW T, NEW W, NEW r \in [unit : U, at : Nat, now : T, view : W],
         NEW k \in Nat, NEW t \in T
  PROVE  LET x == [r EXCEPT !.at = k, !.now = t]
         IN  /\ x \in [unit : U, at : Nat, now : T, view : W]
             /\ x.unit = r.unit /\ x.at = k /\ x.now = t /\ x.view = r.view
  OBVIOUS

(* A view that a statement s may leave, and the session then.              *)
LEMMA StatementStep ==
  ASSUME UnitsInv, NEW s \in Sessions, Holds(s), NEW v \in View, Write(s, v),
         \A y \in Session : /\ y.unit = session[s].unit /\ y.now = session[s].now
                            /\ y.at = session[s].at + 1 /\ y.view = v
                            => Done(y)
  PROVE  UnitsInv'
  <1>1. session[s] \in Session /\ session[s].at \in Nat /\ session[s].now \in Times
    BY HolderFacts
  <1>2. PICK r : r = session[s]
    OBVIOUS
  <1>3. PICK x : x = [r EXCEPT !.at = r.at + 1, !.view = v]
    OBVIOUS
  <1>4. /\ x \in Session
        /\ x.unit = r.unit /\ x.at = r.at + 1 /\ x.now = r.now /\ x.view = v
    <2>1. r.at + 1 \in Nat /\ v \in View \cup {NoView}
      BY <1>1, <1>2
    <2>2. r \in [unit : Unit \cup {NoUnit}, at : Nat, now : Times, view : View \cup {NoView}]
      BY <1>1, <1>2 DEF Session
    <2>3. QED
      BY <1>3, <2>1, <2>2, MovedOn DEF Session
  <1>5. /\ x.unit = session[s].unit /\ x.now = session[s].now
        /\ x.at = session[s].at + 1 /\ x.view = v
    BY <1>2, <1>4
  <1>6. session' = [session EXCEPT ![s] = x]
    BY <1>2, <1>3 DEF Write, See, UnitsInv
  <1>7. UNCHANGED <<proposals, approvals, audit, clock, wall, last, searched, answered>>
    BY DEF Write, ledgerVars
  <1>8. Done(x)'
    BY <1>4, <1>5, <1>7, SameDone
  <1>9. /\ clock' \in Times /\ wall' \in Times
        /\ last' \in Nat /\ searched' \in Nat /\ answered' \in Nat
    BY <1>7 DEF UnitsInv
  <1>10. QED
    BY <1>4, <1>5, <1>6, <1>7, <1>8, <1>9, HolderFacts, OwnStep

LEMMA InsertProposalStep ==
  ASSUME UnitsInv, NEW s \in Sessions, InsertProposal(s)
  PROVE  UnitsInv'
  <1> DEFINE u == session[s].unit
             w == session[s].view
             row == [state |-> "active", expires |-> Expiry(session[s].now),
                     consumedAt |-> 0, binding |-> NoBinding]
             v == [w EXCEPT !.proposals[u.p] = row]
  <1>1. Holds(s) /\ w.proposals[u.p].state = "absent" /\ Write(s, v)
    BY DEF InsertProposal, AtStatement
  <1>2. u \in Open /\ session[s].at = 1
    BY <1>1, HolderFacts, Statements DEF InsertProposal
  <1>3. row \in ProposalRow
    BY <1>1, HolderFacts, TTLAssumption DEF Expiry, ProposalRow
  <1>4. u.p \in Proposals /\ u.p \in DOMAIN w.proposals
    BY <1>1, <1>2, HolderFacts DEF Open, View
  <1>5. v \in View /\ v.proposals = [w.proposals EXCEPT ![u.p] = row]
        /\ v.approvals = w.approvals /\ v.audit = w.audit
    BY <1>1, <1>3, <1>4, HolderFacts DEF View
  <1>6. OpenDone(session[s])
    BY <1>1, <1>2, HolderFacts, DoneKinds
  <1>7. ASSUME NEW y \in Session, y.unit = u, y.now = session[s].now, y.at = session[s].at + 1,
               y.view = v
        PROVE  Done(y)
    <2>1. y.at = 2
      BY <1>2, <1>7
    <2>2. OpenDone(y)
      BY <1>1, <1>2, <1>5, <1>6, <1>7, <2>1 DEF OpenDone
    <2>3. QED
      BY <1>2, <1>7, <2>1, <2>2, DoneKinds DEF Unit
  <1>8. QED
    BY <1>1, <1>5, <1>7, StatementStep

LEMMA NewBinding ==
  ASSUME NEW e \in Nat, NEW b \in Bindings \cup {NoBinding}, NEW c \in Bindings \cup {NoBinding}
  PROVE  [[state |-> "active", expires |-> e, consumedAt |-> 0, binding |-> b] EXCEPT !.binding = c]
           = [state |-> "active", expires |-> e, consumedAt |-> 0, binding |-> c]
  OBVIOUS

LEMMA RowReplaced ==
  ASSUME NEW D, NEW f, NEW p \in D, DOMAIN f = D, NEW r, NEW c, NEW q,
         q = [r EXCEPT !.binding = c]
  PROVE  [[f EXCEPT ![p] = r] EXCEPT ![p].binding = c] = [f EXCEPT ![p] = q]
  OBVIOUS

LEMMA InsertBindingStep ==
  ASSUME UnitsInv, NEW s \in Sessions, InsertBinding(s)
  PROVE  UnitsInv'
  <1> DEFINE u == session[s].unit
             w == session[s].view
             v == [w EXCEPT !.proposals[u.p].binding = u.binding]
  <1>1. Holds(s) /\ Write(s, v)
    BY DEF InsertBinding, AtStatement
  <1>2. u \in Open /\ session[s].at = 2
    BY <1>1, HolderFacts, Statements DEF InsertBinding
  <1>3. u.p \in Proposals /\ u.p \in DOMAIN w.proposals /\ u.binding \in Bindings \cup {NoBinding}
    BY <1>1, <1>2, HolderFacts DEF Open, View
  <1>4. w.proposals \in [Proposals -> ProposalRow]
    BY <1>1, HolderFacts DEF View
  <1>5. [w.proposals EXCEPT ![u.p].binding = u.binding] \in [Proposals -> ProposalRow]
    BY <1>3, <1>4 DEF ProposalRow
  <1>6. v \in View /\ v.proposals = [w.proposals EXCEPT ![u.p].binding = u.binding]
        /\ v.approvals = w.approvals /\ v.audit = w.audit
    BY <1>1, <1>5, HolderFacts DEF View
  <1>7. OpenDone(session[s])
    BY <1>1, <1>2, HolderFacts, DoneKinds
  <1>8. ASSUME NEW y \in Session, y.unit = u, y.now = session[s].now, y.at = session[s].at + 1,
               y.view = v
        PROVE  Done(y)
    <2>1. y.at = 3
      BY <1>2, <1>8
    <2>2. y.view.proposals =
            [proposals EXCEPT ![u.p] = [state |-> "active", expires |-> Expiry(y.now),
                                        consumedAt |-> 0, binding |-> u.binding]]
      <3>1. PICK r, q :
              /\ r = [state |-> "active", expires |-> Expiry(session[s].now), consumedAt |-> 0,
                      binding |-> NoBinding]
              /\ q = [state |-> "active", expires |-> Expiry(session[s].now), consumedAt |-> 0,
                      binding |-> u.binding]
        OBVIOUS
      <3>2. w.proposals = [proposals EXCEPT ![u.p] = r]
        BY <1>2, <1>7, <3>1 DEF OpenDone
      <3>3. q = [r EXCEPT !.binding = u.binding]
        <4>1. Expiry(session[s].now) \in Nat
          BY <1>1, HolderFacts, TTLAssumption DEF Expiry
        <4>2. QED
          BY <1>3, <3>1, <4>1, NewBinding
      <3>4. DOMAIN proposals = Proposals
        BY <1>1, HolderFacts DEF TypeOK
      <3>5. y.view.proposals = [w.proposals EXCEPT ![u.p].binding = u.binding]
        BY <1>6, <1>8
      <3>6. y.view.proposals = [proposals EXCEPT ![u.p] = q]
        BY <1>3, <3>2, <3>3, <3>4, <3>5, RowReplaced
      <3>7. QED
        BY <1>8, <3>1, <3>6
    <2>3. OpenDone(y)
      BY <1>1, <1>2, <1>6, <1>7, <1>8, <2>1, <2>2 DEF OpenDone
    <2>4. QED
      BY <1>2, <1>8, <2>1, <2>3, DoneKinds DEF Unit
  <1>9. QED
    BY <1>1, <1>6, <1>8, StatementStep

(* An event inserted into a view leaves a view.                            *)
LEMMA WithEventType ==
  ASSUME NEW w \in View, NEW p \in Proposals, NEW e \in Event
  PROVE  WithEvent(w, p, e) \in View
  <1>1. w.audit \in [Proposals -> Seq(Event)] /\ w.last \in Nat
    BY DEF View
  <1>2. [w.audit EXCEPT ![p] = Append(w.audit[p], e)] \in [Proposals -> Seq(Event)]
    BY <1>1, AppendFacts
  <1>3. NextSequence(w) \in Nat
    BY <1>1 DEF NextSequence
  <1>4. QED
    BY <1>1, <1>2, <1>3 DEF WithEvent, View

LEMMA AppendOpenedStep ==
  ASSUME UnitsInv, NEW s \in Sessions, AppendOpened(s)
  PROVE  UnitsInv'
  <1> DEFINE u == session[s].unit
             w == session[s].view
  <1>1. Holds(s) /\ Write(s, WithEvent(w, u.p, ProposalEvent))
    BY DEF AppendOpened, AtStatement
  <1>2. u \in Open /\ session[s].at = 3
    BY <1>1, HolderFacts, Statements DEF AppendOpened
  <1>3. u.p \in Proposals
    BY <1>2 DEF Open
  <1>4. PICK v : v = WithEvent(w, u.p, ProposalEvent)
    OBVIOUS
  <1>5. /\ v \in View /\ v.proposals = w.proposals /\ v.approvals = w.approvals
        /\ v.audit = [w.audit EXCEPT ![u.p] = Append(@, ProposalEvent)]
    <2>1. w \in View /\ ProposalEvent \in Event
      BY <1>1, HolderFacts, EventTypes
    <2>2. v \in View
      BY <1>3, <1>4, <2>1, WithEventType
    <2>3. QED
      BY <1>3, <1>4, <2>1, <2>2 DEF WithEvent, View
  <1>6. OpenDone(session[s])
    BY <1>1, <1>2, HolderFacts, DoneKinds
  <1>7. ASSUME NEW y \in Session, y.unit = u, y.now = session[s].now, y.at = session[s].at + 1,
               y.view = v
        PROVE  Done(y)
    <2>1. y.at = 4
      BY <1>2, <1>7
    <2>2. w.audit = audit
      BY <1>2, <1>6 DEF OpenDone
    <2>3. OpenDone(y)
      BY <1>2, <1>5, <1>6, <1>7, <2>1, <2>2 DEF OpenDone
    <2>4. QED
      BY <1>2, <1>7, <2>1, <2>3, DoneKinds DEF Unit
  <1>8. QED
    BY <1>1, <1>4, <1>5, <1>7, StatementStep

LEMMA InsertRowStep ==
  ASSUME UnitsInv, NEW s \in Sessions, InsertRow(s)
  PROVE  UnitsInv'
  <1> DEFINE u == session[s].unit
             w == session[s].view
             row == [state |-> "recorded", operator |-> u.operator,
                     binding |-> w.proposals[u.p].binding]
             v == [w EXCEPT !.approvals[u.p] = row]
  <1>1. Holds(s) /\ w.approvals[u.p].state = "absent" /\ Write(s, v)
    BY DEF InsertRow, AtStatement
  <1>2. u \in Approval /\ session[s].at = 2
    BY <1>1, HolderFacts, Statements DEF InsertRow
  <1>3. u.p \in Proposals /\ u.operator \in Operators
    BY <1>2 DEF Approval
  <1>4. w.proposals \in [Proposals -> ProposalRow] /\ w.approvals \in [Proposals -> ApprovalRow]
    BY <1>1, HolderFacts DEF View
  <1>5. row \in ApprovalRow
    BY <1>3, <1>4 DEF ApprovalRow, ProposalRow
  <1>6. v \in View /\ v.approvals = [w.approvals EXCEPT ![u.p] = row]
        /\ v.proposals = w.proposals /\ v.audit = w.audit
    BY <1>1, <1>3, <1>4, <1>5, HolderFacts DEF View
  <1>7. ApprovalDone(session[s])
    BY <1>1, <1>2, HolderFacts, DoneKinds
  <1>8. ASSUME NEW y \in Session, y.unit = u, y.now = session[s].now, y.at = session[s].at + 1,
               y.view = v
        PROVE  Done(y)
    <2>1. y.at = 3
      BY <1>2, <1>8
    <2>2. w.proposals = proposals /\ w.approvals = approvals /\ w.audit = audit
      BY <1>2, <1>7 DEF ApprovalDone
    <2>3. Checked(y) /\ (u.byId => proposals[u.p].binding # NoBinding)
      BY <1>2, <1>7, <1>8 DEF ApprovalDone, Checked
    <2>4. ApprovalDone(y)
      BY <1>1, <1>6, <1>8, <2>1, <2>2, <2>3 DEF ApprovalDone
    <2>5. QED
      BY <1>2, <1>8, <2>1, <2>4, DoneKinds DEF Unit
  <1>9. QED
    BY <1>1, <1>6, <1>8, StatementStep

LEMMA ConsumedRow ==
  ASSUME NEW w \in View, NEW p \in Proposals, NEW t \in Nat
  PROVE  [w EXCEPT !.proposals[p].state = "consumed", !.proposals[p].consumedAt = t] \in View
  <1> DEFINE v == [w EXCEPT !.proposals[p].state = "consumed", !.proposals[p].consumedAt = t]
  <1>1. PICK x : x = [w EXCEPT !.proposals[p].state = "consumed"]
    OBVIOUS
  <1>2. w.proposals \in [Proposals -> ProposalRow]
    BY DEF View
  <1>3. [w.proposals EXCEPT ![p].state = "consumed"] \in [Proposals -> ProposalRow]
    BY <1>2 DEF ProposalRow
  <1>4. /\ x \in View /\ x.approvals = w.approvals /\ x.audit = w.audit
        /\ x.proposals = [w.proposals EXCEPT ![p].state = "consumed"]
    BY <1>1, <1>3 DEF View
  <1>5. [x.proposals EXCEPT ![p].consumedAt = t] \in [Proposals -> ProposalRow]
    BY <1>3, <1>4 DEF ProposalRow
  <1>6. v = [x EXCEPT !.proposals[p].consumedAt = t]
    BY <1>1
  <1>7. /\ v \in View /\ v.approvals = x.approvals /\ v.audit = x.audit
        /\ v.proposals = [x.proposals EXCEPT ![p].consumedAt = t]
    BY <1>4, <1>5, <1>6 DEF View
  <1>8. QED
    BY <1>4, <1>7

(* How the view of a consumption advances, one statement after the other.  *)
LEMMA SwapDone ==
  ASSUME NEW x, NEW y, ConsumptionDone(x), x.at = 2, y.at = 3, y.unit = x.unit, y.now = x.now,
         y.view.approvals = x.view.approvals, y.view.audit = x.view.audit,
         y.view.proposals = [x.view.proposals EXCEPT ![x.unit.p].state = "consumed",
                                                     ![x.unit.p].consumedAt = x.now]
  PROVE  ConsumptionDone(y)
  <1>1. /\ Checked(x) /\ x.view.proposals = proposals
        /\ x.view.audit = audit /\ x.view.approvals = approvals
    BY DEF ConsumptionDone
  <1>2. Checked(y)
    BY <1>1 DEF Checked
  <1>3. y.view.proposals = ConsumedRows(y)
    BY <1>1 DEF ConsumedRows
  <1>4. QED
    BY <1>1, <1>2, <1>3 DEF ConsumptionDone

LEMMA StartDone ==
  ASSUME NEW x, NEW y, ConsumptionDone(x), x.at = 3, y.at = 4, y.unit = x.unit, y.now = x.now,
         y.view.proposals = x.view.proposals, y.view.approvals = x.view.approvals,
         y.view.audit = [x.view.audit EXCEPT
                           ![x.unit.p] = Append(@, StartEvent(x.unit.owner, x.unit.path))]
  PROVE  ConsumptionDone(y)
  <1>1. /\ Checked(x) /\ x.view.proposals = ConsumedRows(x)
        /\ x.view.audit = audit /\ x.view.approvals = approvals
    BY DEF ConsumptionDone
  <1>2. Checked(y) /\ ConsumedRows(y) = ConsumedRows(x)
    BY <1>1 DEF Checked, ConsumedRows
  <1>3. y.view.audit = StartedTrail(y)
    BY <1>1 DEF StartedTrail
  <1>4. QED
    BY <1>1, <1>2, <1>3 DEF ConsumptionDone

LEMMA SpendDone ==
  ASSUME NEW x, NEW y, ConsumptionDone(x), x.at = 4, y.at = 5, y.unit = x.unit, y.now = x.now,
         y.view.proposals = x.view.proposals, y.view.audit = x.view.audit,
         x.view.approvals[x.unit.p].state # "used",
         y.view.approvals = IF x.view.approvals[x.unit.p].state = "recorded"
                            THEN [x.view.approvals EXCEPT ![x.unit.p].state = "used"]
                            ELSE x.view.approvals
  PROVE  ConsumptionDone(y)
  <1>1. /\ Checked(x) /\ x.view.proposals = ConsumedRows(x)
        /\ x.view.audit = StartedTrail(x) /\ x.view.approvals = approvals
    BY DEF ConsumptionDone
  <1>2. Checked(y)
    BY <1>1 DEF Checked
  <1>3. ConsumedRows(y) = ConsumedRows(x) /\ StartedTrail(y) = StartedTrail(x)
    BY DEF ConsumedRows, StartedTrail
  <1>4. approvals[y.unit.p].state # "used"
    BY <1>1
  <1>5. y.view.approvals = SpentRows(y)
    BY <1>1 DEF SpentRows
  <1>6. QED
    BY <1>1, <1>2, <1>3, <1>4, <1>5 DEF ConsumptionDone

LEMMA SwapStep ==
  ASSUME UnitsInv, NEW s \in Sessions, Swap(s)
  PROVE  UnitsInv'
  <1> DEFINE u == session[s].unit
             w == session[s].view
             f == [w.proposals EXCEPT ![u.p].state = "consumed",
                                      ![u.p].consumedAt = session[s].now]
             seen == [w EXCEPT !.proposals[u.p].state = "consumed",
                               !.proposals[u.p].consumedAt = session[s].now]
  <1>1. Holds(s) /\ Write(s, seen)
    BY DEF Swap, AtStatement
  <1>2. u \in Consumption /\ session[s].at = 2
    BY <1>1, HolderFacts, Statements DEF Swap
  <1>3. u.p \in Proposals
    BY <1>2 DEF Consumption
  <1>4. session[s].now \in Nat
    BY <1>1, HolderFacts
  <1>5. PICK v : v = seen
    OBVIOUS
  <1>6. v \in View /\ v.proposals = f /\ v.approvals = w.approvals /\ v.audit = w.audit
    <2>1. w \in View
      BY <1>1, HolderFacts
    <2>2. v \in View
      BY <1>3, <1>4, <1>5, <2>1, ConsumedRow
    <2>3. QED
      BY <1>3, <1>4, <1>5, <2>1, <2>2 DEF View
  <1>7. Write(s, v)
    BY <1>1, <1>5
  <1>8. ConsumptionDone(session[s])
    BY <1>1, <1>2, HolderFacts, DoneKinds
  <1>9. ASSUME NEW y \in Session, y.unit = u, y.now = session[s].now, y.at = session[s].at + 1,
               y.view = v
        PROVE  Done(y)
    <2>1. y.at = 3
      BY <1>2, <1>9
    <2>2. ConsumptionDone(y)
      BY <1>2, <1>6, <1>8, <1>9, <2>1, SwapDone
    <2>3. y.unit \in Unit /\ y.unit \in Consumption /\ y.at \in 1 .. 5
      BY <1>2, <1>9, <2>1 DEF Unit
    <2>4. QED
      BY <2>2, <2>3, DoneKinds
  <1>10. QED
    BY <1>1, <1>6, <1>7, <1>9, StatementStep

LEMMA AppendStartStep ==
  ASSUME UnitsInv, NEW s \in Sessions, AppendStart(s)
  PROVE  UnitsInv'
  <1> DEFINE u == session[s].unit
             w == session[s].view
             e == StartEvent(u.owner, u.path)
  <1>1. Holds(s) /\ Write(s, WithEvent(w, u.p, e))
    BY DEF AppendStart, AtStatement
  <1>2. u \in Consumption /\ session[s].at = 3
    BY <1>1, HolderFacts, Statements DEF AppendStart
  <1>3. u.p \in Proposals /\ e \in Event
    BY <1>2, EventTypes DEF Consumption
  <1>4. PICK v : v = WithEvent(w, u.p, e)
    OBVIOUS
  <1>5. /\ v \in View /\ v.proposals = w.proposals /\ v.approvals = w.approvals
        /\ v.audit = [w.audit EXCEPT ![u.p] = Append(@, e)]
    <2>1. w \in View
      BY <1>1, HolderFacts
    <2>2. v \in View
      BY <1>3, <1>4, <2>1, WithEventType
    <2>3. QED
      BY <1>3, <1>4, <2>1, <2>2 DEF WithEvent, View
  <1>6. ConsumptionDone(session[s])
    BY <1>1, <1>2, HolderFacts, DoneKinds
  <1>7. ASSUME NEW y \in Session, y.unit = u, y.now = session[s].now, y.at = session[s].at + 1,
               y.view = v
        PROVE  Done(y)
    <2>1. y.at = 4
      BY <1>2, <1>7
    <2>2. ConsumptionDone(y)
      BY <1>2, <1>5, <1>6, <1>7, <2>1, StartDone
    <2>3. y.unit \in Unit /\ y.unit \in Consumption /\ y.at \in 1 .. 5
      BY <1>2, <1>7, <2>1 DEF Unit
    <2>4. QED
      BY <2>2, <2>3, DoneKinds
  <1>8. QED
    BY <1>1, <1>4, <1>5, <1>7, StatementStep

LEMMA SpendStep ==
  ASSUME UnitsInv, NEW s \in Sessions, Spend(s)
  PROVE  UnitsInv'
  <1> DEFINE u == session[s].unit
             w == session[s].view
             spent == [w EXCEPT !.approvals[u.p].state = "used"]
             seen == IF w.approvals[u.p].state = "recorded" THEN spent ELSE w
  <1>1. Holds(s) /\ w.approvals[u.p].state # "used" /\ Write(s, seen)
    BY DEF Spend, AtStatement
  <1>2. u \in Consumption /\ session[s].at = 4
    BY <1>1, HolderFacts, Statements DEF Spend
  <1>3. u.p \in Proposals
    BY <1>2 DEF Consumption
  <1>4. w \in View /\ w.approvals \in [Proposals -> ApprovalRow]
    BY <1>1, HolderFacts DEF View
  <1>5. [w.approvals EXCEPT ![u.p].state = "used"] \in [Proposals -> ApprovalRow]
    BY <1>3, <1>4 DEF ApprovalRow
  <1>6. /\ spent \in View
        /\ spent.approvals = [w.approvals EXCEPT ![u.p].state = "used"]
        /\ spent.proposals = w.proposals /\ spent.audit = w.audit
    BY <1>4, <1>5 DEF View
  <1>7. PICK v : v = seen
    OBVIOUS
  <1>8. /\ v \in View /\ v.proposals = w.proposals /\ v.audit = w.audit
        /\ v.approvals = IF w.approvals[u.p].state = "recorded"
                         THEN [w.approvals EXCEPT ![u.p].state = "used"] ELSE w.approvals
    BY <1>4, <1>6, <1>7
  <1>9. ConsumptionDone(session[s]) /\ w.approvals[u.p].state # "used" /\ Write(s, v)
    BY <1>1, <1>2, <1>7, HolderFacts, DoneKinds
  <1>10. ASSUME NEW y \in Session, y.unit = u, y.now = session[s].now, y.at = session[s].at + 1,
               y.view = v
        PROVE  Done(y)
    <2>1. y.at = 5
      BY <1>2, <1>10
    <2>2. ConsumptionDone(y)
      BY <1>2, <1>8, <1>9, <1>10, <2>1, SpendDone
    <2>3. y.unit \in Unit /\ y.unit \in Consumption /\ y.at \in 1 .. 5
      BY <1>2, <1>10, <2>1 DEF Unit
    <2>4. QED
      BY <2>2, <2>3, DoneKinds
  <1>11. QED
    BY <1>1, <1>8, <1>9, <1>10, StatementStep

LEMMA InsertEventStep ==
  ASSUME UnitsInv, NEW s \in Sessions, InsertEvent(s)
  PROVE  UnitsInv'
  <1> DEFINE u == session[s].unit
             w == session[s].view
  <1>1. Holds(s) /\ Write(s, WithEvent(w, u.p, u.event))
    BY DEF InsertEvent, AtStatement
  <1>2. u \in Appending /\ session[s].at = 1
    BY <1>1, HolderFacts, Statements DEF InsertEvent
  <1>3. u.p \in Proposals /\ u.event \in Event
    BY <1>2, EventTypes DEF Appending
  <1>4. PICK v : v = WithEvent(w, u.p, u.event)
    OBVIOUS
  <1>5. /\ v \in View /\ v.proposals = w.proposals /\ v.approvals = w.approvals
        /\ v.audit = [w.audit EXCEPT ![u.p] = Append(@, u.event)]
    <2>1. w \in View
      BY <1>1, HolderFacts
    <2>2. v \in View
      BY <1>3, <1>4, <2>1, WithEventType
    <2>3. QED
      BY <1>3, <1>4, <2>1, <2>2 DEF WithEvent, View
  <1>6. AppendingDone(session[s])
    BY <1>1, <1>2, HolderFacts, DoneKinds
  <1>7. ASSUME NEW y \in Session, y.unit = u, y.now = session[s].now, y.at = session[s].at + 1,
               y.view = v
        PROVE  Done(y)
    <2>1. y.at = 2
      BY <1>2, <1>7
    <2>2. AppendingDone(y)
      BY <1>2, <1>5, <1>6, <1>7, <2>1 DEF AppendingDone
    <2>3. QED
      BY <1>2, <1>7, <2>1, <2>2, DoneKinds DEF Unit
  <1>8. QED
    BY <1>1, <1>4, <1>5, <1>7, StatementStep

(* What an interrupted execution is does not depend on where its trail is  *)
(* read from.                                                              *)
LEMMA SeenInterrupted ==
  ASSUME NEW s \in Sessions, NEW p \in Proposals, NEW dead, session[s].view.audit = audit
  PROVE  Seen(s)!Interrupted(p, dead) <=> Interrupted(p, dead)
  BY DEF Seen!Interrupted, Seen!Starts, Seen!Terminals, Seen!Positions,
         Interrupted, Starts, Terminals, Positions

LEMMA SweepStep ==
  ASSUME UnitsInv, NEW s \in Sessions, Sweep(s)
  PROVE  UnitsInv'
  <1> DEFINE u == session[s].unit
             w == session[s].view
             lost == {p \in Proposals : Seen(s)!Interrupted(p, u.dead)}
             trails == [p \in Proposals |-> IF p \in lost THEN Append(w.audit[p], RecoveredEvent)
                                            ELSE w.audit[p]]
             v == [w EXCEPT !.audit = [p \in Proposals |-> IF p \in lost
                                                           THEN Append(@[p], RecoveredEvent)
                                                           ELSE @[p]],
                            !.last = @ + Cardinality(lost)]
  <1>1. Holds(s) /\ Write(s, v)
    BY DEF Sweep, AtStatement
  <1>2. u \in Sweeping /\ session[s].at = 1
    BY <1>1, HolderFacts, Statements DEF Sweep
  <1>3. w \in View /\ w.audit \in [Proposals -> Seq(Event)] /\ w.last \in Nat
    BY <1>1, HolderFacts DEF View
  <1>4. PICK n : n = w.last + Cardinality(lost)
    OBVIOUS
  <1>5. n \in Nat
    <2>1. IsFiniteSet(Proposals)
      BY UnitsAssumption
    <2>2. lost \subseteq Proposals
      OBVIOUS
    <2>3. Cardinality(lost) \in Nat
      BY <2>1, <2>2, FS_Subset, FS_CardinalityType
    <2>4. QED
      BY <1>3, <1>4, <2>3
  <1>6. SweepingDone(session[s])
    BY <1>1, <1>2, HolderFacts, DoneKinds
  <1>7. w.proposals = proposals /\ w.approvals = approvals /\ w.audit = audit
    BY <1>2, <1>6 DEF SweepingDone
  <1>8. \A p \in Proposals : p \in lost <=> Interrupted(p, u.dead)
    BY <1>7, SeenInterrupted
  <1>9. PICK f : f = trails
    OBVIOUS
  <1>10. f = [p \in Proposals |-> IF Interrupted(p, u.dead) THEN Append(audit[p], RecoveredEvent)
                                  ELSE audit[p]]
    BY <1>7, <1>8, <1>9, Zenon
  <1>11. f \in [Proposals -> Seq(Event)]
    <2>1. \A p \in Proposals : Append(w.audit[p], RecoveredEvent) \in Seq(Event)
      BY <1>3, EventTypes, AppendFacts
    <2>2. \A p \in Proposals : (IF p \in lost THEN Append(w.audit[p], RecoveredEvent)
                                ELSE w.audit[p]) \in Seq(Event)
      BY <1>3, <2>1
    <2>3. QED
      BY <1>9, <2>2, Zenon
  <1>12. PICK y0 : y0 = [w EXCEPT !.audit = f, !.last = n]
    OBVIOUS
  <1>13. y0 = v
    BY <1>4, <1>9, <1>12, Zenon
  <1>14. /\ y0 \in View /\ y0.proposals = w.proposals /\ y0.approvals = w.approvals
         /\ y0.audit = f
    <2> HIDE DEF w
    <2>1. QED
      BY <1>3, <1>5, <1>11, <1>12 DEF View
  <1>15. Write(s, y0)
    BY <1>1, <1>13
  <1>16. ASSUME NEW y \in Session, y.unit = u, y.now = session[s].now,
                y.at = session[s].at + 1, y.view = y0
         PROVE  Done(y)
    <2>1. y.at = 2
      BY <1>2, <1>16
    <2>2. SweepingDone(y)
      BY <1>7, <1>10, <1>14, <1>16, <2>1 DEF SweepingDone
    <2>3. QED
      BY <1>2, <1>16, <2>1, <2>2, DoneKinds DEF Unit
  <1>17. QED
    BY <1>1, <1>14, <1>15, <1>16, StatementStep

LEMMA AppendSearchStep ==
  ASSUME UnitsInv, NEW s \in Sessions, AppendSearch(s)
  PROVE  UnitsInv'
  <1> DEFINE u == session[s].unit
             w == session[s].view
             next == [w EXCEPT !.last = NextSequence(w), !.searched = @ + 1]
  <1>1. Holds(s) /\ Write(s, next)
    BY DEF AppendSearch, AtStatement
  <1>2. u \in Searching /\ session[s].at \in {1, 2}
    BY <1>1, HolderFacts, Statements DEF AppendSearch
  <1>3. w \in View /\ w.last \in Nat /\ w.searched \in Nat
    BY <1>1, HolderFacts DEF View
  <1>4. PICK v : v = next
    OBVIOUS
  <1>5. /\ v \in View /\ v.proposals = w.proposals /\ v.approvals = w.approvals
        /\ v.audit = w.audit
    <2> HIDE DEF w
    <2>1. NextSequence(w) \in Nat /\ w.searched + 1 \in Nat
      BY <1>3 DEF NextSequence
    <2>2. QED
      BY <1>3, <1>4, <2>1 DEF View
  <1>6. SearchingDone(session[s])
    BY <1>1, <1>2, HolderFacts, DoneKinds
  <1>7. ASSUME NEW y \in Session, y.unit = u, y.now = session[s].now, y.at = session[s].at + 1,
               y.view = v
        PROVE  Done(y)
    <2>1. y.at \in 1 .. 3
      BY <1>2, <1>7
    <2>2. SearchingDone(y)
      BY <1>5, <1>6, <1>7 DEF SearchingDone
    <2>3. QED
      BY <1>2, <1>7, <2>1, <2>2, DoneKinds DEF Unit
  <1>8. QED
    BY <1>1, <1>4, <1>5, <1>7, StatementStep

-----------------------------------------------------------------------------
(* The check reads the clock: the ledger's time is that reading from there *)
(* to the commit.                                                          *)
LEMMA CheckStep ==
  ASSUME UnitsInv, NEW s \in Sessions, Check(s)
  PROVE  UnitsInv'
  <1> DEFINE u == session[s].unit
             w == session[s].view
  <1>1. /\ Holds(s) /\ CheckPasses(s, u, wall) /\ clock' = wall
        /\ session' = [session EXCEPT ![s].at = @ + 1, ![s].now = wall]
        /\ UNCHANGED <<proposals, approvals, audit, last, searched, wall, answered>>
    BY DEF Check, AtStatement, tables
  <1>2. u \in Approval \cup Consumption /\ session[s].at = 1
    BY <1>1, HolderFacts, Statements DEF Check
  <1>3. session[s] \in Session /\ wall \in Times
    BY <1>1, HolderFacts DEF UnitsInv
  <1>4. PICK r, t : r = session[s] /\ t = wall
    OBVIOUS
  <1>5. PICK x : x = [r EXCEPT !.at = r.at + 1, !.now = t]
    OBVIOUS
  <1>6. /\ x \in Session
        /\ x.unit = r.unit /\ x.at = 2 /\ x.now = t /\ x.view = r.view
    <2>1. r.at + 1 \in Nat /\ r.at + 1 = 2
      BY <1>2, <1>4
    <2>2. r \in Session /\ t \in Times
      BY <1>3, <1>4
    <2>3. QED
      BY <1>5, <2>1, <2>2, Timed DEF Session
  <1>7. session' = [session EXCEPT ![s] = x]
    BY <1>1, <1>4, <1>5 DEF UnitsInv
  <1>8. clock' = t
    BY <1>1, <1>4
  <1>9. /\ proposals[u.p].state = "active" /\ t < proposals[u.p].expires
        /\ u \in Approval /\ u.byId => proposals[u.p].binding # NoBinding
        /\ w.proposals = proposals /\ w.approvals = approvals /\ w.audit = audit
    <2>1. CASE u \in Approval
      <3>1. ApprovalDone(session[s])
        BY <1>1, <1>2, <2>1, HolderFacts, DoneKinds
      <3>2. QED
        BY <1>1, <1>2, <1>4, <3>1 DEF ApprovalDone, CheckPasses
    <2>2. CASE u \in Consumption
      <3>1. ConsumptionDone(session[s])
        BY <1>1, <1>2, <2>2, HolderFacts, DoneKinds
      <3>2. QED
        BY <1>1, <1>2, <1>4, <3>1 DEF ConsumptionDone, CheckPasses
    <2>3. QED
      BY <1>2, <2>1, <2>2
  <1>10. Checked(x)'
    BY <1>1, <1>4, <1>6, <1>8, <1>9 DEF Checked
  <1>11. Done(x)'
    <2>1. x.unit \in Unit /\ x.unit = u /\ x.view = w
      BY <1>2, <1>4, <1>6 DEF Unit
    <2>2. CASE u \in Approval
      <3>1. ApprovalDone(x)'
        BY <1>1, <1>6, <1>9, <1>10, <2>1, <2>2 DEF ApprovalDone
      <3>2. QED
        BY <1>6, <2>1, <2>2, <3>1, DoneKindsNext
    <2>3. CASE u \in Consumption
      <3>1. ConsumptionDone(x)'
        BY <1>1, <1>6, <1>9, <1>10, <2>1 DEF ConsumptionDone
      <3>2. QED
        BY <1>6, <2>1, <2>3, <3>1, DoneKindsNext
    <2>4. QED
      BY <1>2, <2>2, <2>3
  <1>12. /\ clock' \in Times /\ wall' \in Times
         /\ last' \in Nat /\ searched' \in Nat /\ answered' \in Nat
    BY <1>1 DEF UnitsInv
  <1>13. QED
    BY <1>1, <1>4, <1>6, <1>7, <1>11, <1>12, HolderFacts, OwnStep

-----------------------------------------------------------------------------
(* Taking and leaving the write lock.                                      *)

LEMMA BeginStep ==
  ASSUME UnitsInv, NEW s \in Sessions, Begin(s)
  PROVE  UnitsInv'
  <1>1. /\ session[s].unit # NoUnit
        /\ \A t \in Sessions : ~Holds(t)
        /\ session' = [session EXCEPT ![s].at = 1, ![s].view = Committed]
        /\ clock' = IF session[s].unit.kind = "open" THEN session[s].now ELSE clock
        /\ UNCHANGED <<proposals, approvals, audit, last, searched, wall, answered>>
    BY DEF Begin, tables
  <1>2. session[s] \in Session /\ session[s].unit \in Unit /\ session[s].now \in Times
    BY <1>1 DEF UnitsInv, Session
  <1>3. Committed \in View
    BY DEF Committed, View, UnitsInv, IInv, TypeOK
  <1>4. PICK r, w : r = session[s] /\ w = Committed
    OBVIOUS
  <1>5. PICK x : x = [r EXCEPT !.at = 1, !.view = w]
    OBVIOUS
  <1>6. /\ x \in Session
        /\ x.unit = r.unit /\ x.at = 1 /\ x.now = r.now /\ x.view = w
    <2>1. r \in Session /\ w \in View \cup {NoView} /\ 1 \in Nat
      BY <1>2, <1>3, <1>4
    <2>2. QED
      BY <1>5, <2>1, MovedOn DEF Session
  <1>7. session' = [session EXCEPT ![s] = x]
    BY <1>1, <1>4, <1>5 DEF UnitsInv
  <1>8. w.proposals = proposals /\ w.approvals = approvals /\ w.audit = audit
    BY <1>4 DEF Committed
  <1>9. x.unit \in Unit
    BY <1>2, <1>4, <1>6
  <1>10. Done(x)'
    <2>1. CASE x.unit \in Open
      <3>1. clock' = x.now
        BY <1>1, <1>4, <1>6, <2>1 DEF Open
      <3>2. OpenDone(x)'
        BY <1>1, <1>6, <1>8, <3>1 DEF OpenDone
      <3>3. QED
        BY <1>6, <1>9, <2>1, <3>2, DoneKindsNext
    <2>2. CASE x.unit \in Approval
      <3>1. ApprovalDone(x)'
        BY <1>1, <1>6, <1>8 DEF ApprovalDone
      <3>2. QED
        BY <1>6, <1>9, <2>2, <3>1, DoneKindsNext
    <2>3. CASE x.unit \in Consumption
      <3>1. ConsumptionDone(x)'
        BY <1>1, <1>6, <1>8 DEF ConsumptionDone
      <3>2. QED
        BY <1>6, <1>9, <2>3, <3>1, DoneKindsNext
    <2>4. CASE x.unit \in Appending
      <3>1. AppendingDone(x)'
        BY <1>1, <1>6, <1>8 DEF AppendingDone
      <3>2. QED
        BY <1>6, <1>9, <2>4, <3>1, DoneKindsNext
    <2>5. CASE x.unit \in Sweeping
      <3>1. SweepingDone(x)'
        BY <1>1, <1>6, <1>8 DEF SweepingDone
      <3>2. QED
        BY <1>6, <1>9, <2>5, <3>1, DoneKindsNext
    <2>6. CASE x.unit \in Searching
      <3>1. SearchingDone(x)'
        BY <1>1, <1>6, <1>8 DEF SearchingDone
      <3>2. QED
        BY <1>6, <1>9, <2>6, <3>1, DoneKindsNext
    <2>7. QED
      BY <1>9, <2>1, <2>2, <2>3, <2>4, <2>5, <2>6 DEF Unit
  <1>11. /\ clock' \in Times /\ wall' \in Times
         /\ last' \in Nat /\ searched' \in Nat /\ answered' \in Nat
    BY <1>1, <1>2 DEF UnitsInv
  <1>12. x.unit \in {session[s].unit, NoUnit}
    BY <1>4, <1>6
  <1>13. QED
    BY <1>1, <1>6, <1>7, <1>10, <1>11, <1>12, OwnStep

LEMMA GiveUpStep ==
  ASSUME UnitsInv, NEW s \in Sessions, GiveUp(s)
  PROVE  UnitsInv'
  BY RollsBack DEF GiveUp

LEMMA CallbackStep ==
  ASSUME UnitsInv, NEW s \in Sessions, NEW a \in Attempt, CallbackEnds(s, a)
  PROVE  UnitsInv' /\ UNCHANGED ledgerVars
  <1>1. Rejected(a)
    BY EveryAttemptRejected
  <1>2. /\ session' = [session EXCEPT ![s] = Idle]
        /\ UNCHANGED <<ledgerVars, wall, last, searched, answered>>
    BY <1>1 DEF CallbackEnds, tables, ledgerVars
  <1>3. QED
    BY <1>2, RollsBack

LEMMA WallStep ==
  ASSUME UnitsInv, WallMoves
  PROVE  UnitsInv'
  <1>1. /\ wall' \in Times
        /\ UNCHANGED <<clock, proposals, approvals, audit, last, searched, answered, session>>
    BY DEF WallMoves, ledgerVars
  <1>2. IInv'
    BY <1>1, StutterInv, BoundsAssumption DEF UnitsInv, Times
  <1>3. ASSUME NEW t \in Sessions, Holds(t)' PROVE Done(session[t])'
    <2>1. PICK z : z = session[t]
      OBVIOUS
    <2>2. Done(z)
      BY <1>1, <1>3, <2>1 DEF UnitsInv, Holds
    <2>3. Done(z)'
      BY <1>1, <2>2, SameDone
    <2>4. QED
      BY <1>1, <2>1, <2>3
  <1>4. Alone' /\ OneCloser'
    BY <1>1 DEF UnitsInv, Alone, OneCloser, Holds
  <1>5. ASSUME NEW t \in Sessions PROVE Issued(session[t].unit)'
    BY <1>1 DEF UnitsInv, Issued, Closable, Closing, Starts, Terminals, Positions
  <1>6. QED
    BY <1>1, <1>2, <1>3, <1>4, <1>5 DEF UnitsInv

LEMMA EnterStep ==
  ASSUME UnitsInv, NEW s \in Sessions, NEW u \in Unit, Enter(s, u)
  PROVE  UnitsInv'
  <1> DEFINE time == IF u.kind = "open" THEN wall ELSE 0
  <1>1. /\ session[s].unit = NoUnit /\ Issuable(u)
        /\ session' = [session EXCEPT ![s].unit = u, ![s].now = time]
        /\ UNCHANGED <<clock, proposals, approvals, audit, wall, last, searched, answered>>
    BY DEF Enter, ledgerVars
  <1>2. ~Holds(s)
    <2>1. NoUnit \notin Unit
      BY UnitsAssumption
    <2>2. QED
      BY <1>1, <2>1 DEF UnitsInv, Done
  <1>3. session[s] \in Session /\ time \in Times
    BY BoundsAssumption DEF UnitsInv, Times
  <1>4. PICK r, t0 : r = session[s] /\ t0 = time
    OBVIOUS
  <1>5. PICK x : x = [r EXCEPT !.unit = u, !.now = t0]
    OBVIOUS
  <1>6. x \in Session /\ x.unit = u /\ x.view = r.view
    BY <1>3, <1>4, <1>5 DEF Session
  <1>7. session' = [session EXCEPT ![s] = x]
    BY <1>1, <1>4, <1>5 DEF UnitsInv
  <1>8. /\ session' \in [Sessions -> Session] /\ session'[s] = x
        /\ \A t \in Sessions \ {s} : session'[t] = session[t]
    BY <1>6, <1>7 DEF UnitsInv
  <1>9. x.view = NoView
    BY <1>2, <1>4, <1>6 DEF Holds
  <1>10. IInv'
    <2>1. clock' \in Nat
      BY <1>1, BoundsAssumption DEF UnitsInv, Times
    <2>2. QED
      BY <1>1, <2>1, StutterInv DEF UnitsInv
  <1>11. Alone'
    BY <1>8, <1>9 DEF UnitsInv, Alone, Holds
  <1>12. ASSUME NEW t \in Sessions, Holds(t)' PROVE Done(session[t])'
    <2>1. t # s /\ Holds(t) /\ session'[t] = session[t]
      BY <1>8, <1>9, <1>12 DEF Holds
    <2>2. PICK z : z = session[t]
      OBVIOUS
    <2>3. Done(z)
      BY <2>1, <2>2 DEF UnitsInv
    <2>4. Done(z)'
      BY <1>1, <2>3, SameDone
    <2>5. QED
      BY <2>1, <2>2, <2>4
  <1>13. Issued(u)
    <2>1. u \in Appending => u.kind = "append"
      BY DEF Appending
    <2>2. QED
      BY <1>1, <2>1, InvByRow DEF Issuable, Issued, Closing, Closable, UnitsInv, RowInv, StartInv,
                                  Appending
  <1>14. ASSUME NEW t \in Sessions PROVE Issued(session[t].unit)'
    <2>1. Issued(session'[t].unit)
      BY <1>6, <1>8, <1>13 DEF UnitsInv
    <2>2. QED
      BY <1>1, <2>1 DEF Issued, Closing, Closable, Starts, Terminals, Positions
  <1>15. OneCloser'
    <2>1. \A t \in Sessions :
            Closing(session[t].unit) /\ Closing(u) => session[t].unit.p # u.p
      BY <1>1 DEF Issuable, Closing, Appending
    <2>2. QED
      BY <1>6, <1>8, <2>1 DEF UnitsInv, OneCloser, Closing
  <1>16. QED
    BY <1>1, <1>8, <1>10, <1>11, <1>12, <1>14, <1>15 DEF UnitsInv

-----------------------------------------------------------------------------
(* The commit of a finished unit is that unit of the ledger.               *)

LEMMA CommitFacts ==
  ASSUME UnitsInv, NEW s \in Sessions, Commit(s)
  PROVE  \E x \in Session :
             /\ x = session[s]
             /\ Holds(s) /\ x.unit \in Unit /\ clock' = clock
             /\ proposals' = x.view.proposals /\ approvals' = x.view.approvals
             /\ audit' = x.view.audit
             /\ x.unit \in Open => x.at = 4 /\ OpenDone(x)
             /\ x.unit \in Approval => x.at = 3 /\ ApprovalDone(x)
             /\ x.unit \in Consumption => x.at = 5 /\ ConsumptionDone(x)
             /\ x.unit \in Appending => x.at = 2 /\ AppendingDone(x)
             /\ x.unit \in Sweeping => x.at = 2 /\ SweepingDone(x)
             /\ x.unit \in Searching => x.at = 3 /\ SearchingDone(x)
  <1>1. /\ Holds(s) /\ clock' = clock /\ session[s].at > Len(Program(session[s].unit))
        /\ proposals' = session[s].view.proposals /\ approvals' = session[s].view.approvals
        /\ audit' = session[s].view.audit
    BY DEF Commit, Publish
  <1>2. PICK x, u : x = session[s] /\ u = x.unit
    OBVIOUS
  <1>3. u \in Unit /\ Done(x) /\ x.at \in Nat
    BY <1>1, <1>2, HolderFacts
  <1>4. x.at > Len(Program(u))
    BY <1>1, <1>2
  <1>5. /\ u \in Open => x.at = 4 /\ OpenDone(x)
        /\ u \in Approval => x.at = 3 /\ ApprovalDone(x)
        /\ u \in Consumption => x.at = 5 /\ ConsumptionDone(x)
        /\ u \in Appending => x.at = 2 /\ AppendingDone(x)
        /\ u \in Sweeping => x.at = 2 /\ SweepingDone(x)
        /\ u \in Searching => x.at = 3 /\ SearchingDone(x)
    <2>1. CASE u \in Open
      <3>1. x.at \in 1 .. 4 /\ OpenDone(x) /\ x.at > 3
        BY <1>2, <1>3, <1>4, <2>1, DoneKinds, Lengths
      <3>2. QED
        BY <1>3, <2>1, <3>1, KindsApart
    <2>2. CASE u \in Approval
      <3>1. x.at \in 1 .. 3 /\ ApprovalDone(x) /\ x.at > 2
        BY <1>2, <1>3, <1>4, <2>2, DoneKinds, Lengths
      <3>2. QED
        BY <1>3, <2>2, <3>1, KindsApart
    <2>3. CASE u \in Consumption
      <3>1. x.at \in 1 .. 5 /\ ConsumptionDone(x) /\ x.at > 4
        BY <1>2, <1>3, <1>4, <2>3, DoneKinds, Lengths
      <3>2. QED
        BY <1>3, <2>3, <3>1, KindsApart
    <2>4. CASE u \in Appending
      <3>1. x.at \in 1 .. 2 /\ AppendingDone(x) /\ x.at > 1
        BY <1>2, <1>3, <1>4, <2>4, DoneKinds, Lengths
      <3>2. QED
        BY <1>3, <2>4, <3>1, KindsApart
    <2>5. CASE u \in Sweeping
      <3>1. x.at \in 1 .. 2 /\ SweepingDone(x) /\ x.at > 1
        BY <1>2, <1>3, <1>4, <2>5, DoneKinds, Lengths
      <3>2. QED
        BY <1>3, <2>5, <3>1, KindsApart
    <2>6. CASE u \in Searching
      <3>1. x.at \in 1 .. 3 /\ SearchingDone(x) /\ x.at > 2
        BY <1>2, <1>3, <1>4, <2>6, DoneKinds, Lengths
      <3>2. QED
        BY <1>3, <2>6, <3>1, KindsApart
    <2>7. QED
      BY <1>3, <2>1, <2>2, <2>3, <2>4, <2>5, <2>6 DEF Unit
  <1>6. x \in Session
    BY <1>2 DEF UnitsInv
  <1>7. QED
    BY <1>1, <1>2, <1>3, <1>5, <1>6

LEMMA CommitIsUnit ==
  ASSUME UnitsInv, NEW s \in Sessions, Commit(s)
  PROVE  [Next]_ledgerVars
  <1>a. PICK x \in Session :
        /\ x = session[s]
        /\ Holds(s) /\ x.unit \in Unit /\ clock' = clock
        /\ proposals' = x.view.proposals /\ approvals' = x.view.approvals
        /\ audit' = x.view.audit
        /\ x.unit \in Open => x.at = 4 /\ OpenDone(x)
        /\ x.unit \in Approval => x.at = 3 /\ ApprovalDone(x)
        /\ x.unit \in Consumption => x.at = 5 /\ ConsumptionDone(x)
        /\ x.unit \in Appending => x.at = 2 /\ AppendingDone(x)
        /\ x.unit \in Sweeping => x.at = 2 /\ SweepingDone(x)
        /\ x.unit \in Searching => x.at = 3 /\ SearchingDone(x)
    BY CommitFacts
  <1>b. PICK u : u = x.unit
    OBVIOUS
  <1>1. u \in Unit /\ clock' = clock /\ TypeOK
    BY <1>a, <1>b DEF UnitsInv, IInv
  <1>2. CASE u \in Open
    <2>1. u.p \in Proposals /\ u.binding \in Bindings \cup {NoBinding}
      BY <1>2 DEF Open
    <2>2. x.at = 4 /\ OpenDone(x)
      BY <1>2, <1>a, <1>b
    <2>3. proposals[u.p].state = "absent" /\ clock = x.now
      BY <2>2, <1>b DEF OpenDone
    <2>4. proposals' = [proposals EXCEPT ![u.p] = [state |-> "active", expires |-> Expiry(clock),
                                                   consumedAt |-> 0, binding |-> u.binding]]
      BY <2>2, <2>3, <1>a, <1>b DEF OpenDone
    <2>5. audit' = [audit EXCEPT ![u.p] = Append(@, ProposalEvent)] /\ approvals' = approvals
      BY <2>2, <1>a, <1>b DEF OpenDone
    <2>6. OpenProposal(u.p, u.binding)
      BY <1>1, <2>3, <2>4, <2>5 DEF OpenProposal
    <2>7. QED
      BY <2>1, <2>6 DEF Next
  <1>3. CASE u \in Approval
    <2>1. u.p \in Proposals /\ u.operator \in Operators /\ u.byId \in BOOLEAN
      BY <1>3 DEF Approval
    <2>2. x.at = 3 /\ ApprovalDone(x)
      BY <1>3, <1>a, <1>b
    <2>3. /\ Eligible(u.p) /\ (u.byId => proposals[u.p].binding # NoBinding)
          /\ proposals' = proposals /\ audit' = audit /\ approvals[u.p].state = "absent"
      <3>1. /\ Checked(x) /\ (x.unit.byId => proposals[x.unit.p].binding # NoBinding)
            /\ x.view.proposals = proposals /\ x.view.audit = audit
            /\ approvals[x.unit.p].state = "absent"
        BY ONLY <2>2 DEF ApprovalDone
      <3>2. Eligible(u.p)
        BY ONLY <3>1, <1>b DEF Checked, Eligible
      <3>3. QED
        BY <1>a, <1>b, <3>1, <3>2
    <2>4. InsertApproval(u.p, u.operator)
      <3>1. x.view.approvals =
              [approvals EXCEPT ![x.unit.p] = [state |-> "recorded", operator |-> x.unit.operator,
                                               binding |-> proposals[x.unit.p].binding]]
        BY ONLY <2>2 DEF ApprovalDone
      <3>2. approvals' = [approvals EXCEPT ![u.p] = [state |-> "recorded", operator |-> u.operator,
                                                     binding |-> proposals[u.p].binding]]
        BY <1>a, <1>b, <3>1
      <3>3. QED
        BY <1>1, <2>3, <3>2 DEF InsertApproval
    <2>5. RecordApproval(u.p, u.operator, u.operator)
      BY <2>3, <2>4 DEF RecordApproval
    <2>6. QED
      BY <2>1, <2>5 DEF Next
  <1>4. CASE u \in Consumption
    <2>1. u.p \in Proposals /\ u.owner \in Owners /\ u.path \in {"standing", "proposal-bound"}
      BY <1>4 DEF Consumption
    <2>2. x.at = 5 /\ ConsumptionDone(x)
      BY <1>4, <1>a, <1>b
    <2>3. /\ Checked(x) /\ approvals[u.p].state # "used"
          /\ x.view.proposals = [proposals EXCEPT ![u.p].state = "consumed",
                                                 ![u.p].consumedAt = x.now]
          /\ x.view.audit = [audit EXCEPT ![u.p] = Append(@, StartEvent(u.owner, u.path))]
          /\ x.view.approvals = IF approvals[u.p].state = "recorded"
                                THEN [approvals EXCEPT ![u.p].state = "used"] ELSE approvals
      BY <2>2, <1>b DEF ConsumptionDone, ConsumedRows, StartedTrail, SpentRows
    <2>4. ConsumeRow(u.p)
      BY <2>3, <1>a, <1>b DEF ConsumeRow, Checked, Eligible
    <2>5. audit' = [audit EXCEPT ![u.p] = Append(@, StartEvent(u.owner, u.path))]
      BY <2>3, <1>a
    <2>6. SpendApproval(u.p)
      BY <2>3, <1>a DEF SpendApproval
    <2>7. ConsumeAndStart(u.p, u.owner, u.path)
      BY <1>1, <2>4, <2>5, <2>6 DEF ConsumeAndStart
    <2>8. QED
      BY <2>1, <2>7 DEF Next
  <1>5. CASE u \in Appending
    <2>1. u.p \in Proposals /\ u.event \in {RefusalEvent} \cup {OutcomeEvent(oc) : oc \in Outcomes}
      BY <1>5 DEF Appending
    <2>2. AppendEvent(u.p, u.event)
      <3>1. x.at = 2 /\ AppendingDone(x)
        BY <1>5, <1>a, <1>b
      <3>2. /\ x.view.proposals = proposals /\ x.view.approvals = approvals
            /\ x.view.audit = [audit EXCEPT ![u.p] = Append(@, u.event)]
        BY <3>1, <1>b DEF AppendingDone
      <3>3. QED
        BY <3>2, <1>a DEF AppendEvent
    <2>3. Issued(u)
      BY <1>a, <1>b DEF UnitsInv
    <2>4. CASE u.event = RefusalEvent
      <3>1. AppendRefusal(u.p)
        BY <1>5, <2>2, <2>3, <2>4 DEF AppendRefusal, Issued
      <3>2. QED
        BY <2>1, <3>1 DEF Next
    <2>5. CASE u.event # RefusalEvent
      <3>1. PICK oc \in Outcomes : u.event = OutcomeEvent(oc)
        BY <2>1, <2>5
      <3>2. Closable(u.p)
        BY <1>5, <2>3, <2>5 DEF Issued, Closing
      <3>3. \A i, j \in Terminals(u.p) : i = j
        <4>1. RecoveryInv(u.p)
          BY <2>1, InvByRow DEF UnitsInv, RowInv
        <4>2. \A i \in Terminals(u.p) : i \in Nat
          BY <1>1, <2>1 DEF Terminals, Positions, TypeOK
        <4>3. QED
          BY <3>2, <4>1, <4>2 DEF Closable, RecoveryInv
      <3>4. AppendOutcome(u.p, oc)
        BY <2>2, <3>1, <3>2, <3>3 DEF AppendOutcome, Closable
      <3>5. QED
        BY <2>1, <3>4 DEF Next
    <2>6. QED
      BY <2>4, <2>5
  <1>6. CASE u \in Sweeping
    <2>1. u.dead \in SUBSET Owners
      BY <1>6 DEF Sweeping
    <2>2. Reconcile(u.dead)
      BY <1>1, <1>6, <1>a, <1>b DEF SweepingDone, Reconcile
    <2>3. QED
      BY <2>1, <2>2 DEF Next
  <1>7. CASE u \in Searching
    BY <1>1, <1>7, <1>a, <1>b DEF SearchingDone, ledgerVars
  <1>8. QED
    BY <1>1, <1>2, <1>3, <1>4, <1>5, <1>6, <1>7 DEF Unit

(* A commit adds at most one event to a trail, and the outcome of no other *)
(* call than its own.                                                      *)
LEMMA CommitAppends ==
  ASSUME UnitsInv, NEW s \in Sessions, Commit(s), NEW p \in Proposals
  PROVE  \/ audit'[p] = audit[p]
         \/ \E e \in Event :
              /\ audit'[p] = Append(audit[p], e)
              /\ \/ e.type # "execution_outcome" \/ e.code = "owner-dead"
                 \/ Closing(session[s].unit) /\ session[s].unit.p = p
  <1>a. PICK x \in Session :
        /\ x = session[s]
        /\ Holds(s) /\ x.unit \in Unit /\ clock' = clock
        /\ proposals' = x.view.proposals /\ approvals' = x.view.approvals
        /\ audit' = x.view.audit
        /\ x.unit \in Open => x.at = 4 /\ OpenDone(x)
        /\ x.unit \in Approval => x.at = 3 /\ ApprovalDone(x)
        /\ x.unit \in Consumption => x.at = 5 /\ ConsumptionDone(x)
        /\ x.unit \in Appending => x.at = 2 /\ AppendingDone(x)
        /\ x.unit \in Sweeping => x.at = 2 /\ SweepingDone(x)
        /\ x.unit \in Searching => x.at = 3 /\ SearchingDone(x)
    BY CommitFacts
  <1>b. PICK u : u = x.unit
    OBVIOUS
  <1>1. u \in Unit /\ audit \in [Proposals -> Seq(Event)]
    BY <1>a, <1>b DEF UnitsInv, IInv, TypeOK
  <1>2. CASE u \in Open
    <2>1. audit' = [audit EXCEPT ![u.p] = Append(@, ProposalEvent)]
      BY <1>2, <1>a, <1>b DEF OpenDone
    <2>2. audit'[p] \in {audit[p], Append(audit[p], ProposalEvent)}
      BY <1>1, <2>1
    <2>3. ProposalEvent.type # "execution_outcome"
      BY DEF ProposalEvent
    <2>4. QED
      BY <2>2, <2>3, EventTypes
  <1>3. CASE u \in Approval
    BY <1>3, <1>a, <1>b DEF ApprovalDone
  <1>4. CASE u \in Consumption
    <2>1. PICK e : e = StartEvent(u.owner, u.path)
      OBVIOUS
    <2>2. audit' = [audit EXCEPT ![u.p] = Append(@, e)]
      BY <1>4, <2>1, <1>a, <1>b DEF ConsumptionDone, StartedTrail
    <2>3. audit'[p] \in {audit[p], Append(audit[p], e)}
      BY <1>1, <2>2
    <2>4. e.type # "execution_outcome" /\ e \in Event
      BY <1>4, <2>1, EventTypes DEF StartEvent, Consumption
    <2>5. QED
      BY <2>3, <2>4
  <1>5. CASE u \in Appending
    <2>1. PICK e : e = u.event
      OBVIOUS
    <2>2. audit' = [audit EXCEPT ![u.p] = Append(@, e)]
      <3>1. x.at = 2 /\ AppendingDone(x)
        BY <1>5, <1>a, <1>b
      <3>2. x.view.audit = [audit EXCEPT ![u.p] = Append(@, e)]
        BY <2>1, <3>1, <1>b DEF AppendingDone
      <3>3. QED
        BY <3>2, <1>a
    <2>3. \/ audit'[p] = audit[p]
          \/ u.p = p /\ audit'[p] = Append(audit[p], e)
      BY <1>1, <2>2
    <2>4. e \in Event
      BY <1>5, <2>1, EventTypes DEF Appending
    <2>5. e.type # "execution_outcome" \/ Closing(u)
      <3>1. CASE e = RefusalEvent
        BY <3>1 DEF RefusalEvent
      <3>2. CASE e # RefusalEvent
        BY <1>5, <2>1, <3>2 DEF Closing
      <3>3. QED
        BY <3>1, <3>2
    <2>6. QED
      BY <1>a, <1>b, <2>3, <2>4, <2>5
  <1>6. CASE u \in Sweeping
    <2>1. audit'[p] \in {audit[p], Append(audit[p], RecoveredEvent)}
      BY <1>6, <1>a, <1>b DEF SweepingDone
    <2>2. RecoveredEvent.code = "owner-dead"
      BY DEF RecoveredEvent
    <2>3. QED
      BY <2>1, <2>2, EventTypes
  <1>7. CASE u \in Searching
    BY <1>7, <1>a, <1>b DEF SearchingDone
  <1>8. QED
    BY <1>1, <1>2, <1>3, <1>4, <1>5, <1>6, <1>7 DEF Unit

(* So an execution another call is to close may still be closed.           *)
LEMMA StillClosable ==
  ASSUME UnitsInv, NEW s \in Sessions, Commit(s), NEW p \in Proposals, Closable(p),
         ~(Closing(session[s].unit) /\ session[s].unit.p = p)
  PROVE  Closable(p)'
  <1>1. audit[p] \in Seq(Event)
    BY DEF UnitsInv, IInv, TypeOK
  <1>2. CASE audit'[p] = audit[p]
    BY <1>2 DEF Closable, Starts, Terminals, Positions
  <1>3. CASE audit'[p] # audit[p]
    <2>1. PICK e \in Event :
            /\ audit'[p] = Append(audit[p], e)
            /\ e.type # "execution_outcome" \/ e.code = "owner-dead"
      BY <1>3, CommitAppends
    <2>2. PICK n : n = Len(audit[p]) + 1
      OBVIOUS
    <2>3. /\ audit'[p][n] = e
          /\ \A i \in Positions(p) : audit'[p][i] = audit[p][i]
          /\ Starts(p) \subseteq Starts(p)'
          /\ Terminals(p)' \subseteq Terminals(p) \cup {n}
          /\ n \in Terminals(p)' => n \in Terminals(p) \/ e.type = "execution_outcome"
      BY <1>1, <2>1, <2>2, Appended
    <2>4. n \notin Positions(p)
      BY <1>1, <2>2, AppendFacts DEF Positions
    <2>5. \A i \in Terminals(p)' : audit'[p][i].code = "owner-dead"
      BY <2>1, <2>3, <2>4 DEF Closable, Terminals
    <2>6. QED
      BY <2>3, <2>5 DEF Closable
  <1>4. QED
    BY <1>2, <1>3

LEMMA CommitStep ==
  ASSUME UnitsInv, NEW s \in Sessions, Commit(s)
  PROVE  UnitsInv'
  <1>1. [Next]_ledgerVars
    BY CommitIsUnit
  <1>2. IInv'
    BY <1>1, NextInv DEF UnitsInv
  <1>3. /\ session' = [session EXCEPT ![s] = Idle]
        /\ last' = session[s].view.last /\ searched' = session[s].view.searched
        /\ answered' \in {answered, answered + 1} /\ wall' = wall /\ clock' = clock
    BY DEF Commit, Publish
  <1>4. last' \in Nat /\ searched' \in Nat
    BY <1>3, CommitFacts, HolderFacts DEF View
  <1>5. answered' \in Nat /\ clock' \in Times /\ wall' \in Times
    BY <1>3 DEF UnitsInv
  <1>6. /\ session' \in [Sessions -> Session] /\ session'[s] = Idle
        /\ \A t \in Sessions \ {s} : session'[t] = session[t]
    BY <1>3, IdleSession DEF UnitsInv
  <1>7. \A t \in Sessions : Holds(t) => t = s
    BY CommitFacts, HolderFacts
  <1>8. \A t \in Sessions : ~Holds(t)'
    BY <1>6, <1>7, IdleSession DEF Holds
  <1>9. Idle.unit \notin Appending
    BY IdleSession, UnitsAssumption DEF Unit
  <1>10. ASSUME NEW t \in Sessions PROVE Issued(session[t].unit)'
    <2>1. CASE t = s
      BY <1>6, <1>9, <2>1 DEF Issued
    <2>2. CASE t # s
      <3>1. PICK u : u = session[t].unit
        OBVIOUS
      <3>2. session'[t].unit = u /\ Issued(u)
        BY <1>6, <2>2, <3>1 DEF UnitsInv
      <3>3. SUFFICES ASSUME u \in Appending PROVE Issued(u)'
        BY <3>2 DEF Issued
      <3>4. u.p \in Proposals
        BY <3>3 DEF Appending
      <3>5. proposals'[u.p].state # "absent"
        <4>1. proposals[u.p].state # "absent" /\ proposals[u.p] \in ProposalRow
          BY <3>2, <3>3, <3>4 DEF Issued, UnitsInv, IInv, TypeOK
        <4>2. DurableStep
          BY <1>1, StepDurable DEF UnitsInv
        <4>3. QED
          BY <3>4, <4>1, <4>2 DEF DurableStep, ProposalRow
      <3>6. ASSUME Closing(u) PROVE Closable(u.p)'
        <4>1. Closable(u.p)
          BY <3>2, <3>3, <3>6 DEF Issued
        <4>2. ~(Closing(session[s].unit) /\ session[s].unit.p = u.p)
          BY <2>2, <3>1, <3>6 DEF UnitsInv, OneCloser
        <4>3. QED
          BY <3>4, <4>1, <4>2, StillClosable
      <3>7. QED
        BY <3>5, <3>6 DEF Issued, Closing
    <2>3. QED
      BY <2>1, <2>2
  <1>11. OneCloser'
    BY <1>6, <1>9 DEF UnitsInv, OneCloser, Closing
  <1>12. Alone'
    BY <1>8 DEF Alone
  <1>13. QED
    BY <1>2, <1>4, <1>5, <1>6, <1>8, <1>10, <1>11, <1>12 DEF UnitsInv

-----------------------------------------------------------------------------

LEMMA UnitsInitInv == UnitsInit => UnitsInv
  <1> SUFFICES ASSUME UnitsInit PROVE UnitsInv
    OBVIOUS
  <1>1. IInv
    BY InitInv DEF UnitsInit
  <1>2. clock \in Times /\ wall \in Times /\ last \in Nat /\ searched \in Nat /\ answered \in Nat
    BY BoundsAssumption DEF UnitsInit, Init, Times
  <1>3. session \in [Sessions -> Session] /\ \A s \in Sessions : session[s] = Idle
    BY IdleSession DEF UnitsInit
  <1>4. \A s \in Sessions : ~Holds(s) /\ session[s].unit \notin Appending
    BY <1>3, IdleSession, UnitsAssumption DEF Holds, Unit
  <1>5. QED
    BY <1>1, <1>2, <1>3, <1>4 DEF UnitsInv, Alone, OneCloser, Issued, Closing

LEMMA StatementsStep ==
  ASSUME UnitsInv, NEW s \in Sessions, Statement(s)
  PROVE  UnitsInv'
  BY InsertProposalStep, InsertBindingStep, AppendOpenedStep, CheckStep, InsertRowStep, SwapStep,
     AppendStartStep, SpendStep, InsertEventStep, SweepStep, AppendSearchStep DEF Statement

LEMMA UnitsNextInv == UnitsInv /\ [UnitsNext]_vars => UnitsInv'
  <1> SUFFICES ASSUME UnitsInv, [UnitsNext]_vars PROVE UnitsInv'
    OBVIOUS
  <1>1. ASSUME NEW s \in Sessions, Begin(s) PROVE UnitsInv'
    BY <1>1, BeginStep
  <1>2. ASSUME NEW s \in Sessions, Statement(s) PROVE UnitsInv'
    BY <1>2, StatementsStep
  <1>3. ASSUME NEW s \in Sessions, Commit(s) PROVE UnitsInv'
    BY <1>3, CommitStep
  <1>4. ASSUME NEW s \in Sessions, GiveUp(s) PROVE UnitsInv'
    BY <1>4, GiveUpStep
  <1>5. ASSUME NEW s \in Sessions, NEW u \in Unit, Enter(s, u) PROVE UnitsInv'
    BY <1>5, EnterStep
  <1>6. ASSUME NEW s \in Sessions, NEW a \in Attempt, CallbackEnds(s, a) PROVE UnitsInv'
    BY <1>6, CallbackStep
  <1>7. ASSUME WallMoves PROVE UnitsInv'
    BY <1>7, WallStep
  <1>8. CASE UNCHANGED vars
    <2>1. wall' \in Times /\ UNCHANGED <<ledgerVars, last, searched, answered, session>>
      BY <1>8 DEF vars, UnitsInv
    <2>2. QED
      BY <2>1, WallStep DEF WallMoves
  <1>9. QED
    BY <1>1, <1>2, <1>3, <1>4, <1>5, <1>6, <1>7, <1>8 DEF UnitsNext

(* The invariant holds in every reachable state.                           *)
THEOREM UnitsInvariant == UnitsSpec => []UnitsInv
  BY UnitsInitInv, UnitsNextInv, PTL DEF UnitsSpec

(* Every table has its type, the committed ones and those a session sees,  *)
(* and at most one session sees any: BEGIN IMMEDIATE in store.py.          *)
THEOREM UnitsTypes == UnitsSpec => []UnitsTypeOK
  <1>1. UnitsInv => UnitsTypeOK
    <2> SUFFICES ASSUME UnitsInv PROVE UnitsTypeOK
      OBVIOUS
    <2>1. session \in [Sessions -> Session] /\ Times \subseteq Nat
      BY BoundsAssumption DEF UnitsInv, Times
    <2>2. session \in [Sessions -> [unit : Unit \cup {NoUnit}, at : Nat, now : Nat,
                                    view : View \cup {NoView}]]
      BY <2>1 DEF Session
    <2>3. QED
      BY <2>1, <2>2 DEF UnitsInv, IInv, Alone, UnitsTypeOK
  <1>2. QED
    BY <1>1, UnitsInvariant, PTL

(* Only a check and a lock taken by an open move the ledger's clock; only  *)
(* a commit moves its tables.                                              *)
LEMMA UnitsStepIsLedgerStep == UnitsInv /\ [UnitsNext]_vars => [Next]_ledgerVars
  <1> SUFFICES ASSUME UnitsInv, [UnitsNext]_vars PROVE [Next]_ledgerVars
    OBVIOUS
  <1>1. ASSUME NEW s \in Sessions, Begin(s) PROVE [Next]_ledgerVars
    <2>1. UNCHANGED <<proposals, approvals, audit>> /\ clock' \in {session[s].now, clock}
      BY <1>1 DEF Begin, tables
    <2>2. clock' \in Times
      BY <2>1 DEF UnitsInv, Session
    <2>3. QED
      BY <2>1, <2>2 DEF Next, Tick
  <1>2. ASSUME NEW s \in Sessions, Statement(s) PROVE [Next]_ledgerVars
    <2>1. ASSUME NEW v, Write(s, v) PROVE [Next]_ledgerVars
      BY <2>1 DEF Write
    <2>2. CASE Check(s)
      <3>1. UNCHANGED <<proposals, approvals, audit>> /\ clock' = wall
        BY <2>2 DEF Check, tables
      <3>2. QED
        BY <3>1 DEF Next, Tick, UnitsInv
    <2>3. InsertProposal(s) \/ InsertBinding(s) \/ AppendOpened(s) => \E v : Write(s, v)
      BY DEF InsertProposal, InsertBinding, AppendOpened
    <2>4. InsertRow(s) \/ Swap(s) \/ AppendStart(s) \/ Spend(s) => \E v : Write(s, v)
      BY DEF InsertRow, Swap, AppendStart, Spend
    <2>5. InsertEvent(s) \/ Sweep(s) \/ AppendSearch(s) => \E v : Write(s, v)
      BY DEF InsertEvent, Sweep, AppendSearch
    <2>6. QED
      BY <1>2, <2>1, <2>2, <2>3, <2>4, <2>5 DEF Statement
  <1>3. ASSUME NEW s \in Sessions, Commit(s) PROVE [Next]_ledgerVars
    BY <1>3, CommitIsUnit
  <1>4. ASSUME NEW s \in Sessions, GiveUp(s) PROVE [Next]_ledgerVars
    BY <1>4 DEF GiveUp
  <1>5. ASSUME NEW s \in Sessions, NEW u \in Unit, Enter(s, u) PROVE [Next]_ledgerVars
    BY <1>5 DEF Enter
  <1>6. ASSUME NEW s \in Sessions, NEW a \in Attempt, CallbackEnds(s, a) PROVE [Next]_ledgerVars
    BY <1>6, CallbackStep
  <1>7. ASSUME WallMoves PROVE [Next]_ledgerVars
    BY <1>7 DEF WallMoves
  <1>8. CASE UNCHANGED vars
    BY <1>8 DEF vars
  <1>9. QED
    BY <1>1, <1>2, <1>3, <1>4, <1>5, <1>6, <1>7, <1>8 DEF UnitsNext

(* However statements of different connections interleave, fail or are cut *)
(* off, the database moves by whole units of work: the connections of      *)
(* store.py implement the ledger.                                          *)
THEOREM UnitsImplementLedger == UnitsSpec => ImplementsLedger
  <1>1. UnitsInit => Init
    BY DEF UnitsInit
  <1>2. QED
    BY <1>1, UnitsInvariant, UnitsStepIsLedgerStep, PTL DEF UnitsSpec, ImplementsLedger

(* What the ledger guarantees between its units holds, then, between the   *)
(* statements too: in particular a consumption is never committed without  *)
(* its start, nor an approval spent without its consumption.               *)
THEOREM UnitsKeepTheLedger ==
  UnitsSpec => /\ [](/\ ApprovalSpentWithToken /\ StartPairedWithConsumption
                     /\ TrailWellFounded /\ RecoveryNeverSecond)
               /\ Durable
  <1>1. UnitsInv => /\ ApprovalSpentWithToken /\ StartPairedWithConsumption
                    /\ TrailWellFounded /\ RecoveryNeverSecond
    BY DEF UnitsInv, IInv
  <1>2. UnitsInv /\ [UnitsNext]_vars => [DurableStep]_ledgerVars
    BY UnitsStepIsLedgerStep, StepDurable DEF UnitsInv
  <1>3. QED
    BY <1>1, <1>2, UnitsInvariant, PTL DEF UnitsSpec, Durable

-----------------------------------------------------------------------------
(* The number of events over all trails, as TrailComplete counts them: a   *)
(* sum that the community modules define by recursion over the set of      *)
(* proposals, one chosen element at a time. Its value at a set is fixed by *)
(* its value at the set without that element, so what is true of the empty *)
(* set and passes from there to the set is true of every set: a least      *)
(* counterexample, in the strict-subset order, would have a smaller one.   *)

Total(trails) == MapThenSumSet(LAMBDA p : Len(trails[p]), Proposals)
Pick(s) == CHOOSE x \in s : TRUE
Tally(trails, g, s) == IF s = {} THEN 0 ELSE Len(trails[Pick(s)]) + g[s \ {Pick(s)}]

(* Induction over the subsets of a finite set, the property given as the   *)
(* set of those that have it.                                              *)
LEMMA SubsetInduction ==
  ASSUME NEW P, IsFiniteSet(P), NEW T, {} \in T,
         \A s \in SUBSET P : s # {} /\ s \ {Pick(s)} \in T => s \in T
  PROVE  SUBSET P \subseteq T
  <1> DEFINE Bad == (SUBSET P) \ T
  <1>1. SUFFICES ASSUME Bad # {} PROVE FALSE
    OBVIOUS
  <1>2. IsWellFoundedOn(StrictSubsetOrdering(P), SUBSET P)
    BY FS_StrictSubsetOrderingWellFounded, FS_FiniteSubsetsOfFinite
  <1>3. PICK s \in Bad : \A t \in Bad : <<t, s>> \notin StrictSubsetOrdering(P)
    BY <1>1, <1>2, WFMin
  <1>4. s # {} /\ s \subseteq P
    OBVIOUS
  <1>5. Pick(s) \in s
    BY <1>4 DEF Pick
  <1>6. s \ {Pick(s)} \in Bad
    BY <1>4
  <1>7. <<s \ {Pick(s)}, s>> \in StrictSubsetOrdering(P)
    BY <1>4, <1>5 DEF StrictSubsetOrdering
  <1>8. QED
    BY <1>3, <1>6, <1>7

(* That the recursion has a solution: the number of pairs of a proposal    *)
(* and a position of its trail is one.                                     *)
Cells(trails, s) == UNION {{p} \X (1 .. Len(trails[p])) : p \in s}

LEMMA CellsSplit ==
  ASSUME NEW P, IsFiniteSet(P), NEW trails, \A p \in P : Len(trails[p]) \in Nat,
         NEW s \in SUBSET P, s # {}, IsFiniteSet(Cells(trails, s \ {Pick(s)}))
  PROVE  /\ IsFiniteSet(Cells(trails, s))
         /\ Cardinality(Cells(trails, s)) =
              Len(trails[Pick(s)]) + Cardinality(Cells(trails, s \ {Pick(s)}))
  <1>1. PICK p : p = Pick(s)
    OBVIOUS
  <1>2. p \in s /\ p \in P
    BY <1>1 DEF Pick
  <1>3. PICK n \in Nat : n = Len(trails[p])
    BY <1>2
  <1>4. PICK row : row = {p} \X (1 .. n)
    OBVIOUS
  <1>5. IsFiniteSet(row) /\ Cardinality(row) = n
    <2>1. IsFiniteSet({p}) /\ Cardinality({p}) = 1
      BY FS_Singleton
    <2>2. IsFiniteSet(1 .. n) /\ Cardinality(1 .. n) = n
      BY FS_Interval
    <2>3. PICK a, b : a = {p} /\ b = 1 .. n
      OBVIOUS
    <2>4. IsFiniteSet(a \X b) /\ Cardinality(a \X b) = Cardinality(a) * Cardinality(b)
      <3>1. IsFiniteSet(a) /\ IsFiniteSet(b)
        BY <2>1, <2>2, <2>3
      <3>2. QED
        BY <3>1, FS_Product, Zenon
    <2>5. Cardinality(a) = 1 /\ Cardinality(b) = n
      BY <2>1, <2>2, <2>3
    <2>6. QED
      BY <1>4, <2>3, <2>4, <2>5
  <1>6. PICK rest : rest = Cells(trails, s \ {p})
    OBVIOUS
  <1>7. Cells(trails, s) = row \cup rest
    BY <1>2, <1>3, <1>4, <1>6 DEF Cells
  <1>8. row \cap rest = {}
    BY <1>4, <1>6 DEF Cells
  <1>9. IsFiniteSet(rest)
    BY <1>1, <1>6
  <1>10. IsFiniteSet(row \cup rest)
         /\ Cardinality(row \cup rest) =
              Cardinality(row) + Cardinality(rest) - Cardinality(row \cap rest)
    BY <1>5, <1>9, FS_Union
  <1>11. Cardinality(row \cup rest) = n + Cardinality(rest)
    <2>1. Cardinality(row \cap rest) = 0
      BY <1>8, FS_EmptySet
    <2>2. PICK k \in Nat : k = Cardinality(rest)
      BY <1>9, FS_CardinalityType
    <2>3. Cardinality(row \cup rest) = n + k - 0
      BY <1>5, <1>10, <2>1, <2>2
    <2>4. QED
      BY <2>2, <2>3
  <1>12. QED
    BY <1>1, <1>3, <1>6, <1>7, <1>10, <1>11

(* The sum is the value at Proposals of a function that follows the        *)
(* recursion.                                                              *)
LEMMA TotalRecursion ==
  ASSUME IsFiniteSet(Proposals), NEW trails, \A p \in Proposals : Len(trails[p]) \in Nat
  PROVE  \E g : /\ g = [s \in SUBSET Proposals |-> Tally(trails, g, s)]
                /\ Total(trails) = g[Proposals]
  <1> DEFINE F == {s \in SUBSET Proposals : IsFiniteSet(Cells(trails, s))}
  <1>1. \A s \in SUBSET Proposals : IsFiniteSet(Cells(trails, s))
    <2>1. Cells(trails, {}) = {}
      BY DEF Cells
    <2>2. {} \in F
      BY <2>1, FS_EmptySet
    <2>3. \A s \in SUBSET Proposals : s # {} /\ s \ {Pick(s)} \in F => s \in F
      BY CellsSplit
    <2>4. SUBSET Proposals \subseteq F
      <3> HIDE DEF F
      <3> QED BY <2>2, <2>3, SubsetInduction
    <2>5. QED
      BY <2>4
  <1>2. PICK f : f = [s \in SUBSET Proposals |-> Cardinality(Cells(trails, s))]
    OBVIOUS
  <1>3. ASSUME NEW s \in SUBSET Proposals PROVE f[s] = Tally(trails, f, s)
    <2>1. CASE s = {}
      BY <1>2, <2>1, FS_EmptySet DEF Tally, Cells
    <2>2. CASE s # {}
      <3>1. s \ {Pick(s)} \in SUBSET Proposals
        OBVIOUS
      <3>2. Cardinality(Cells(trails, s)) =
              Len(trails[Pick(s)]) + Cardinality(Cells(trails, s \ {Pick(s)}))
        BY <1>1, <2>2, <3>1, CellsSplit
      <3>3. QED
        BY <1>2, <2>2, <3>1, <3>2 DEF Tally
    <2>3. QED
      BY <2>1, <2>2
  <1>4. f = [s \in SUBSET Proposals |-> Tally(trails, f, s)]
    BY <1>2, <1>3, Zenon
  <1>5. PICK g : g = CHOOSE h : h = [s \in SUBSET Proposals |-> Tally(trails, h, s)]
    OBVIOUS
  <1>6. g = [s \in SUBSET Proposals |-> Tally(trails, g, s)]
    BY <1>4, <1>5, Zenon
  <1>7. Total(trails) = g[Proposals]
    BY <1>5, Zenon DEF Total, Tally, MapThenSumSet, MapThenFoldSet, Pick
  <1>8. QED
    BY <1>6, <1>7

(* Where some trails grow by one event, the sum grows by their number.     *)
LEMMA TotalGrows ==
  ASSUME IsFiniteSet(Proposals), NEW a, NEW b, NEW grown \in SUBSET Proposals,
         \A p \in Proposals : Len(a[p]) \in Nat,
         \A p \in grown : Len(b[p]) = Len(a[p]) + 1,
         \A p \in Proposals \ grown : Len(b[p]) = Len(a[p])
  PROVE  /\ Total(a) \in Nat
         /\ Total(b) = Total(a) + Cardinality(grown)
  <1>1. PICK g : /\ g = [s \in SUBSET Proposals |-> Tally(a, g, s)]
                 /\ Total(a) = g[Proposals]
    BY TotalRecursion
  <1>2. PICK h : /\ h = [s \in SUBSET Proposals |-> Tally(b, h, s)]
                 /\ Total(b) = h[Proposals]
    <2>1. ASSUME NEW p \in Proposals PROVE Len(b[p]) \in Nat
      <3>1. Len(a[p]) \in Nat
        OBVIOUS
      <3>2. Len(b[p]) = Len(a[p]) \/ Len(b[p]) = Len(a[p]) + 1
        OBVIOUS
      <3>3. QED
        BY <3>1, <3>2
    <2>2. QED
      BY <2>1, TotalRecursion
  <1> DEFINE T == {s \in SUBSET Proposals : /\ g[s] \in Nat
                                            /\ h[s] = g[s] + Cardinality(s \cap grown)}
  <1>3. {} \in T
    <2>1. g[{}] = 0 /\ h[{}] = 0
      BY <1>1, <1>2 DEF Tally
    <2>2. {} \cap grown = {}
      OBVIOUS
    <2>3. QED
      BY <2>1, <2>2, FS_EmptySet
  <1>4. ASSUME NEW s \in SUBSET Proposals, s # {}, s \ {Pick(s)} \in T
        PROVE  s \in T
    <2>1. PICK p : p = Pick(s)
      OBVIOUS
    <2>2. p \in s /\ p \in Proposals
      BY <1>4, <2>1 DEF Pick
    <2>3. PICK r : r = s \ {p}
      OBVIOUS
    <2>4. r \in SUBSET Proposals /\ r \in T
      BY <1>4, <2>1, <2>3
    <2>5. g[s] = Len(a[p]) + g[r]
      BY <1>1, <1>4, <2>1, <2>3 DEF Tally
    <2>6. h[s] = Len(b[p]) + h[r]
      BY <1>2, <1>4, <2>1, <2>3 DEF Tally
    <2>7. IsFiniteSet(r \cap grown) /\ Cardinality(r \cap grown) \in Nat
      BY <2>4, FS_Subset, FS_CardinalityType
    <2>8. PICK k \in Nat : k = Cardinality(r \cap grown)
      BY <2>7
    <2>9. PICK m \in Nat : m = g[r] /\ h[r] = m + k
      BY <2>4, <2>8
    <2>10. PICK n \in Nat : n = Len(a[p])
      BY <2>2
    <2>11. g[s] = n + m
      BY <2>5, <2>9, <2>10
    <2>12. CASE p \in grown
      <3>1. s \cap grown = (r \cap grown) \cup {p} /\ p \notin r \cap grown
        BY <2>2, <2>3, <2>12
      <3>2. Cardinality(s \cap grown) = k + 1
        BY <2>7, <2>8, <3>1, FS_AddElement
      <3>3. h[s] = (n + 1) + (m + k)
        BY <2>6, <2>9, <2>10, <2>12
      <3>4. g[s] \in Nat /\ h[s] = g[s] + Cardinality(s \cap grown)
        BY <2>11, <3>2, <3>3
      <3>5. QED
        BY <3>4
    <2>13. CASE p \notin grown
      <3>1. Cardinality(s \cap grown) = k
        <4>1. s \cap grown = r \cap grown
          BY <2>3, <2>13
        <4>2. QED
          BY <2>8, <4>1
      <3>2. h[s] = n + (m + k)
        BY <2>2, <2>6, <2>9, <2>10, <2>13
      <3>3. g[s] \in Nat /\ h[s] = g[s] + Cardinality(s \cap grown)
        BY <2>11, <3>1, <3>2
      <3>4. QED
        BY <3>3
    <2>14. QED
      BY <2>12, <2>13
  <1>5. SUBSET Proposals \subseteq T
    <2> HIDE DEF T
    <2> QED BY <1>3, <1>4, SubsetInduction
  <1>6. Proposals \in T /\ Proposals \cap grown = grown
    BY <1>5
  <1>7. QED
    BY <1>1, <1>2, <1>6

(* Empty trails have no event.                                             *)
LEMMA TotalZero ==
  ASSUME IsFiniteSet(Proposals), NEW trails, \A p \in Proposals : Len(trails[p]) = 0
  PROVE  Total(trails) = 0
  <1>1. PICK g : /\ g = [s \in SUBSET Proposals |-> Tally(trails, g, s)]
                 /\ Total(trails) = g[Proposals]
    <2>1. ASSUME NEW p \in Proposals PROVE Len(trails[p]) \in Nat
      <3>1. Len(trails[p]) = 0
        OBVIOUS
      <3>2. QED
        BY <3>1
    <2>2. QED
      BY <2>1, TotalRecursion
  <1> DEFINE T == {s \in SUBSET Proposals : g[s] = 0}
  <1>2. {} \in T
    BY <1>1 DEF Tally
  <1>3. ASSUME NEW s \in SUBSET Proposals, s # {}, s \ {Pick(s)} \in T
        PROVE  s \in T
    <2>1. PICK p : p = Pick(s)
      OBVIOUS
    <2>2. p \in Proposals
      BY <1>3, <2>1 DEF Pick
    <2>3. g[s] = Len(trails[p]) + g[s \ {p}]
      BY <1>1, <1>3, <2>1 DEF Tally
    <2>4. Len(trails[p]) = 0 /\ g[s \ {p}] = 0
      BY <1>3, <2>1, <2>2
    <2>5. QED
      BY <2>3, <2>4
  <1>4. SUBSET Proposals \subseteq T
    <2> HIDE DEF T
    <2> QED BY <1>2, <1>3, SubsetInduction
  <1>5. QED
    BY <1>1, <1>4

-----------------------------------------------------------------------------
(* TrailComplete, of a view.  A session that has the write lock sees a     *)
(* tallied view from its first statement to its last, and only a search    *)
(* moves the count of search events, by one with each of its two           *)
(* statements.                                                             *)
Tallied(v) == v.last = Total(v.audit) + v.searched

ViewTallied(x) ==
  /\ Tallied(x.view)
  /\ x.unit \notin Searching => x.view.searched = searched
  /\ x.unit \in Searching => x.view.searched = searched + x.at - 1

TallyInv ==
  /\ TrailComplete
  /\ \A s \in Sessions : Holds(s) => ViewTallied(session[s])

(* TrailComplete in terms of the sum, in a state and in the next.          *)
LEMMA TrailTallied ==
  TrailComplete <=> /\ last = Total(audit) + searched
                    /\ searched % 2 = 0 /\ 2 * answered <= searched
  BY DEF TrailComplete, Total

LEMMA TrailTalliedNext ==
  TrailComplete' <=> /\ last' = Total(audit') + searched'
                     /\ searched' % 2 = 0 /\ 2 * answered' <= searched'
  BY DEF TrailComplete, Total, MapThenSumSet, MapThenFoldSet

(* A view has trails of some length, and a sum.                            *)
LEMMA ViewLengths ==
  ASSUME NEW v \in View
  PROVE  /\ \A p \in Proposals : Len(v.audit[p]) \in Nat
         /\ Total(v.audit) \in Nat /\ v.last \in Nat /\ v.searched \in Nat
         /\ v.audit \in [Proposals -> Seq(Event)]
  <1>1. v.audit \in [Proposals -> Seq(Event)] /\ v.last \in Nat /\ v.searched \in Nat
    BY DEF View
  <1>2. \A p \in Proposals : Len(v.audit[p]) \in Nat
    BY <1>1
  <1>3. Total(v.audit) \in Nat
    <2>1. {} \in SUBSET Proposals /\ \A p \in {} : Len(v.audit[p]) = Len(v.audit[p]) + 1
      OBVIOUS
    <2>2. QED
      BY <1>2, <2>1, UnitsAssumption, TotalGrows
  <1>4. QED
    BY <1>1, <1>2, <1>3

(* A step that moves no table keeps the tally if whoever then holds the    *)
(* lock held it and sees what it saw, or has written a tallied view.       *)
LEMMA TallyKept ==
  ASSUME TallyInv, UNCHANGED <<audit, last, searched, answered>>,
         \A t \in Sessions : Holds(t)' =>
            \/ Holds(t) /\ session'[t].view = session[t].view
                        /\ session'[t].unit = session[t].unit /\ session'[t].at = session[t].at
            \/ ViewTallied(session[t])'
  PROVE  TallyInv'
  <1>1. TrailComplete'
    BY TrailTallied, TrailTalliedNext DEF TallyInv
  <1>2. ASSUME NEW t \in Sessions, Holds(t)' PROVE ViewTallied(session[t])'
    <2>1. CASE /\ Holds(t) /\ session'[t].view = session[t].view
               /\ session'[t].unit = session[t].unit /\ session'[t].at = session[t].at
      <3>1. ViewTallied(session[t])
        BY <2>1 DEF TallyInv
      <3>2. QED
        BY <2>1, <3>1 DEF ViewTallied, Tallied
    <2>2. QED
      BY <1>2, <2>1
  <1>3. QED
    BY <1>1, <1>2 DEF TallyInv

(* The session after a statement that wrote.                               *)
LEMMA Written ==
  ASSUME UnitsInv, NEW s \in Sessions, Holds(s), NEW v, Write(s, v)
  PROVE  /\ session'[s].unit = session[s].unit /\ session'[s].view = v
         /\ session'[s].at = session[s].at + 1
         /\ \A t \in Sessions \ {s} : session'[t] = session[t]
         /\ UNCHANGED <<audit, last, searched, answered>>
  <1>1. session \in [Sessions -> Session]
    BY DEF UnitsInv
  <1>2. session' = [session EXCEPT ![s].at = @ + 1, ![s].view = v]
    BY DEF Write, See
  <1>3. PICK r, x : r = session[s] /\ x = [r EXCEPT !.at = r.at + 1, !.view = v]
    OBVIOUS
  <1>4. x.unit = r.unit /\ x.at = r.at + 1 /\ x.view = v
    <2>1. r \in [unit : Unit \cup {NoUnit}, at : Nat, now : Times, view : View \cup {NoView, v}]
      BY <1>1, <1>3 DEF Session
    <2>2. r.at + 1 \in Nat /\ v \in View \cup {NoView, v}
      BY <2>1
    <2>3. QED
      BY <1>3, <2>1, <2>2, MovedOn
  <1>5. session' = [session EXCEPT ![s] = x]
    BY <1>2, <1>3
  <1>6. session'[s] = x /\ \A t \in Sessions \ {s} : session'[t] = session[t]
    BY <1>1, <1>5
  <1>7. QED
    BY <1>3, <1>4, <1>6 DEF Write, ledgerVars

(* Statements that leave a tallied view; then those that insert no event   *)
(* and those that insert one.                                              *)
LEMMA TallyWrite ==
  ASSUME UnitsInv, TallyInv, NEW s \in Sessions, Holds(s), NEW v, Write(s, v), Tallied(v),
         session[s].unit \notin Searching => v.searched = session[s].view.searched,
         session[s].unit \in Searching => v.searched = session[s].view.searched + 1
  PROVE  TallyInv'
  <1>1. /\ session'[s].unit = session[s].unit /\ session'[s].view = v
        /\ session'[s].at = session[s].at + 1
        /\ \A t \in Sessions \ {s} : session'[t] = session[t]
        /\ UNCHANGED <<audit, last, searched, answered>>
    BY Written
  <1>2. ViewTallied(session[s]) /\ session[s].at \in Nat /\ searched \in Nat
    BY HolderFacts DEF TallyInv, UnitsInv
  <1>3. ViewTallied(session[s])'
    <2>1. PICK x, y : x = session[s] /\ y = session'[s]
      OBVIOUS
    <2>2. /\ y.unit = x.unit /\ y.at = x.at + 1 /\ y.view = v /\ searched' = searched
          /\ x.at \in Nat /\ searched \in Nat
      BY <1>1, <1>2, <2>1
    <2>3. Tallied(y.view)
      BY <2>2
    <2>4. y.unit \notin Searching => y.view.searched = searched
      BY <1>2, <2>1, <2>2 DEF ViewTallied
    <2>5. y.unit \in Searching => y.view.searched = searched + y.at - 1
      BY <1>2, <2>1, <2>2 DEF ViewTallied
    <2>6. QED
      BY <2>1, <2>2, <2>3, <2>4, <2>5 DEF ViewTallied, Tallied
  <1>4. ASSUME NEW t \in Sessions \ {s}, Holds(t)' PROVE FALSE
    BY <1>1, <1>4, HolderFacts DEF Holds
  <1>5. QED
    BY <1>1, <1>3, <1>4, TallyKept

LEMMA TallyQuiet ==
  ASSUME UnitsInv, TallyInv, NEW s \in Sessions, Holds(s), NEW v, Write(s, v),
         session[s].unit \notin Searching,
         v.audit = session[s].view.audit, v.last = session[s].view.last,
         v.searched = session[s].view.searched
  PROVE  TallyInv'
  <1>1. Tallied(session[s].view)
    BY DEF TallyInv, ViewTallied
  <1>2. Tallied(v)
    BY <1>1 DEF Tallied
  <1>3. QED
    BY <1>2, TallyWrite

LEMMA WithEventTallied ==
  ASSUME NEW w \in View, NEW p \in Proposals, NEW e \in Event, Tallied(w)
  PROVE  Tallied(WithEvent(w, p, e)) /\ WithEvent(w, p, e).searched = w.searched
  <1>1. PICK v : v = WithEvent(w, p, e)
    OBVIOUS
  <1>2. /\ v.audit = [w.audit EXCEPT ![p] = Append(@, e)] /\ v.last = w.last + 1
        /\ v.searched = w.searched
    BY <1>1 DEF WithEvent, NextSequence, View
  <1>3. /\ w.audit \in [Proposals -> Seq(Event)] /\ Total(w.audit) \in Nat
        /\ w.last \in Nat /\ w.searched \in Nat
        /\ \A q \in Proposals : Len(w.audit[q]) \in Nat
    BY ViewLengths
  <1>4. Len(v.audit[p]) = Len(w.audit[p]) + 1
    <2>1. v.audit[p] = Append(w.audit[p], e) /\ w.audit[p] \in Seq(Event)
      BY <1>2, <1>3
    <2>2. QED
      BY <2>1
  <1>5. \A q \in Proposals \ {p} : Len(v.audit[q]) = Len(w.audit[q])
    BY <1>2, <1>3
  <1>6. Total(v.audit) = Total(w.audit) + Cardinality({p})
    <2>1. {p} \in SUBSET Proposals /\ \A q \in {p} : Len(v.audit[q]) = Len(w.audit[q]) + 1
      BY <1>4
    <2>2. QED
      BY <1>3, <1>5, <2>1, UnitsAssumption, TotalGrows
  <1>7. Total(v.audit) = Total(w.audit) + 1
    BY <1>6, FS_Singleton
  <1>8. v.last = Total(v.audit) + v.searched
    BY <1>2, <1>3, <1>7 DEF Tallied
  <1>9. QED
    BY <1>1, <1>2, <1>8 DEF Tallied

LEMMA TallyEvent ==
  ASSUME UnitsInv, TallyInv, NEW s \in Sessions, Holds(s), session[s].unit \notin Searching,
         NEW p \in Proposals, NEW e \in Event, Write(s, WithEvent(session[s].view, p, e))
  PROVE  TallyInv'
  <1>1. PICK w \in View : w = session[s].view
    BY HolderFacts
  <1>2. PICK v : v = WithEvent(w, p, e)
    OBVIOUS
  <1>3. Tallied(w)
    BY <1>1 DEF TallyInv, ViewTallied
  <1>4. v \in View /\ Tallied(v) /\ v.searched = w.searched
    BY <1>2, <1>3, WithEventType, WithEventTallied
  <1>5. Write(s, v)
    BY <1>1, <1>2
  <1>6. QED
    BY <1>1, <1>4, <1>5, TallyWrite

(* Statement by statement, for the units other than searches ...           *)
LEMMA NotSearching ==
  ASSUME UnitsInv, NEW s \in Sessions, Holds(s),
         session[s].unit \in Open \cup Approval \cup Consumption \cup Appending \cup Sweeping
  PROVE  session[s].unit \notin Searching
  <1>1. PICK u \in Unit : u = session[s].unit
    BY HolderFacts
  <1>2. QED
    BY <1>1, KindsApart

LEMMA TallyRows ==
  ASSUME UnitsInv, TallyInv, NEW s \in Sessions,
         InsertProposal(s) \/ InsertBinding(s) \/ InsertRow(s) \/ Swap(s) \/ Spend(s)
  PROVE  TallyInv'
  <1> DEFINE u == session[s].unit
  <1>1. Holds(s)
    BY DEF InsertProposal, InsertBinding, InsertRow, Swap, Spend, AtStatement
  <1>2. PICK w \in View : w = session[s].view
    BY <1>1, HolderFacts
  <1>3. session[s].unit \notin Searching
    BY <1>1, NotSearching, HolderFacts, Statements
       DEF InsertProposal, InsertBinding, InsertRow, Swap, Spend
  <1>4. \E v : Write(s, v) /\ v.audit = w.audit /\ v.last = w.last /\ v.searched = w.searched
    <2>1. CASE InsertProposal(s)
      <3>1. PICK row, v : v = [w EXCEPT !.proposals[u.p] = row] /\ Write(s, v)
        BY <1>2, <2>1 DEF InsertProposal
      <3>2. v.audit = w.audit /\ v.last = w.last /\ v.searched = w.searched
        BY <3>1 DEF View
      <3>3. QED
        BY <3>1, <3>2
    <2>2. CASE InsertBinding(s)
      <3>1. PICK v : /\ v = [w EXCEPT !.proposals[u.p].binding = u.binding]
                     /\ Write(s, v)
        BY <1>2, <2>2 DEF InsertBinding
      <3>2. v.audit = w.audit /\ v.last = w.last /\ v.searched = w.searched
        BY <3>1 DEF View
      <3>3. QED
        BY <3>1, <3>2
    <2>3. CASE InsertRow(s)
      <3>1. PICK row, v : v = [w EXCEPT !.approvals[u.p] = row] /\ Write(s, v)
        BY <1>2, <2>3 DEF InsertRow
      <3>2. v.audit = w.audit /\ v.last = w.last /\ v.searched = w.searched
        BY <3>1 DEF View
      <3>3. QED
        BY <3>1, <3>2
    <2>4. CASE Swap(s)
      <3>1. PICK v : /\ v = [w EXCEPT !.proposals[u.p].state = "consumed",
                                       !.proposals[u.p].consumedAt = session[s].now]
                     /\ Write(s, v)
        BY <1>2, <2>4 DEF Swap
      <3>2. v.audit = w.audit /\ v.last = w.last /\ v.searched = w.searched
        BY <3>1 DEF View
      <3>3. QED
        BY <3>1, <3>2
    <2>5. CASE Spend(s)
      <3>1. PICK v : /\ v = w \/ v = [w EXCEPT !.approvals[u.p].state = "used"]
                     /\ Write(s, v)
        BY <1>2, <2>5 DEF Spend
      <3>2. v.audit = w.audit /\ v.last = w.last /\ v.searched = w.searched
        BY <3>1 DEF View
      <3>3. QED
        BY <3>1, <3>2
    <2>6. QED
      BY <2>1, <2>2, <2>3, <2>4, <2>5
  <1>5. QED
    BY <1>1, <1>2, <1>3, <1>4, TallyQuiet

LEMMA TallyEvents ==
  ASSUME UnitsInv, TallyInv, NEW s \in Sessions, AppendOpened(s) \/ AppendStart(s) \/ InsertEvent(s)
  PROVE  TallyInv'
  <1>1. Holds(s)
    BY DEF AppendOpened, AppendStart, InsertEvent, AtStatement
  <1>2. session[s].unit \notin Searching
    BY <1>1, NotSearching, HolderFacts, Statements DEF AppendOpened, AppendStart, InsertEvent
  <1>3. \E p \in Proposals, e \in Event : Write(s, WithEvent(session[s].view, p, e))
    <2>1. CASE AppendOpened(s)
      <3>1. session[s].unit \in Open
        BY <1>1, <2>1, HolderFacts, Statements DEF AppendOpened
      <3>2. QED
        BY <2>1, <3>1, EventTypes DEF AppendOpened, Open
    <2>2. CASE AppendStart(s)
      <3>1. session[s].unit \in Consumption
        BY <1>1, <2>2, HolderFacts, Statements DEF AppendStart
      <3>2. QED
        BY <2>2, <3>1, EventTypes DEF AppendStart, Consumption
    <2>3. CASE InsertEvent(s)
      <3>1. session[s].unit \in Appending
        BY <1>1, <2>3, HolderFacts, Statements DEF InsertEvent
      <3>2. QED
        BY <2>3, <3>1, EventTypes DEF InsertEvent, Appending
    <2>4. QED
      BY <2>1, <2>2, <2>3
  <1>4. QED
    BY <1>1, <1>2, <1>3, TallyEvent

LEMMA TallySweep ==
  ASSUME UnitsInv, TallyInv, NEW s \in Sessions, Sweep(s)
  PROVE  TallyInv'
  <1>1. Holds(s)
    BY DEF Sweep, AtStatement
  <1>2. session[s].unit \notin Searching
    BY <1>1, NotSearching, HolderFacts, Statements DEF Sweep
  <1>3. PICK w \in View : w = session[s].view
    BY <1>1, HolderFacts
  <1>4. PICK lost \in SUBSET Proposals :
          Write(s, [w EXCEPT !.audit = [p \in Proposals |-> IF p \in lost
                                                            THEN Append(@[p], RecoveredEvent)
                                                            ELSE @[p]],
                             !.last = @ + Cardinality(lost)])
    BY <1>3 DEF Sweep
  <1>5. PICK v : v = [w EXCEPT !.audit = [p \in Proposals |-> IF p \in lost
                                                            THEN Append(@[p], RecoveredEvent)
                                                            ELSE @[p]],
                             !.last = @ + Cardinality(lost)]
    OBVIOUS
  <1>6. /\ v.audit = [p \in Proposals |-> IF p \in lost THEN Append(w.audit[p], RecoveredEvent)
                                          ELSE w.audit[p]]
        /\ v.last = w.last + Cardinality(lost) /\ v.searched = w.searched
    BY <1>5 DEF View
  <1>7. /\ w.audit \in [Proposals -> Seq(Event)] /\ Total(w.audit) \in Nat
        /\ w.last \in Nat /\ w.searched \in Nat
        /\ \A p \in Proposals : Len(w.audit[p]) \in Nat
    BY ViewLengths
  <1>8. ASSUME NEW p \in lost PROVE Len(v.audit[p]) = Len(w.audit[p]) + 1
    <2>1. v.audit[p] = Append(w.audit[p], RecoveredEvent) /\ w.audit[p] \in Seq(Event)
      BY <1>6, <1>7
    <2>2. RecoveredEvent \in Event
      BY EventTypes
    <2>3. QED
      BY <2>1, <2>2
  <1>9. \A p \in Proposals \ lost : Len(v.audit[p]) = Len(w.audit[p])
    BY <1>6
  <1>10. Total(v.audit) = Total(w.audit) + Cardinality(lost)
    BY <1>7, <1>8, <1>9, UnitsAssumption, TotalGrows
  <1>11. PICK n \in Nat : n = Cardinality(lost)
    BY UnitsAssumption, FS_Subset, FS_CardinalityType
  <1>12. Tallied(w)
    BY <1>1, <1>3 DEF TallyInv, ViewTallied
  <1>13. Tallied(v)
    BY <1>6, <1>7, <1>10, <1>11, <1>12 DEF Tallied
  <1>14. Write(s, v)
    BY <1>4, <1>5
  <1>15. QED
    BY <1>1, <1>2, <1>3, <1>6, <1>13, <1>14, TallyWrite

(* ... and for a search, whose second statement makes its events even.     *)
LEMMA TallySearch ==
  ASSUME UnitsInv, TallyInv, NEW s \in Sessions, AppendSearch(s)
  PROVE  TallyInv'
  <1>1. Holds(s)
    BY DEF AppendSearch, AtStatement
  <1>2. session[s].unit \in Searching
    BY <1>1, HolderFacts, Statements DEF AppendSearch
  <1>3. PICK w \in View : w = session[s].view
    BY <1>1, HolderFacts
  <1>4. PICK v : /\ v = [w EXCEPT !.last = NextSequence(w), !.searched = @ + 1]
                 /\ Write(s, v)
    BY <1>3 DEF AppendSearch
  <1>5. v.audit = w.audit /\ v.last = w.last + 1 /\ v.searched = w.searched + 1
    BY <1>4 DEF NextSequence, View
  <1>6. Tallied(w)
    BY <1>1, <1>3 DEF TallyInv, ViewTallied
  <1>7. Tallied(v)
    BY <1>5, <1>6, ViewLengths DEF Tallied
  <1>8. QED
    BY <1>1, <1>2, <1>3, <1>4, <1>5, <1>7, TallyWrite

(* Taking and leaving the lock; the commit publishes a tallied view, which *)
(* for a search has both its events.                                       *)
LEMMA TallyIdle ==
  ASSUME UnitsInv, TallyInv, NEW s \in Sessions, session' = [session EXCEPT ![s] = Idle],
         UNCHANGED <<audit, last, searched, answered>>
  PROVE  TallyInv'
  <1>1. session'[s] = Idle /\ \A t \in Sessions \ {s} : session'[t] = session[t]
    BY DEF UnitsInv
  <1>2. ASSUME NEW t \in Sessions, Holds(t)'
        PROVE  /\ Holds(t) /\ session'[t].view = session[t].view
               /\ session'[t].unit = session[t].unit /\ session'[t].at = session[t].at
    BY <1>1, <1>2, IdleSession DEF Holds
  <1>3. QED
    BY <1>2, TallyKept

LEMMA TallyCheck ==
  ASSUME UnitsInv, TallyInv, NEW s \in Sessions, Check(s)
  PROVE  TallyInv'
  <1>1. /\ Holds(s)
        /\ session' = [session EXCEPT ![s].at = @ + 1, ![s].now = wall]
        /\ UNCHANGED <<audit, last, searched, answered>>
    BY DEF Check, AtStatement, tables
  <1>2. session[s].unit \notin Searching
    BY <1>1, NotSearching, HolderFacts, Statements DEF Check
  <1>3. /\ session'[s].unit = session[s].unit /\ session'[s].view = session[s].view
        /\ \A t \in Sessions \ {s} : session'[t] = session[t]
    BY <1>1 DEF UnitsInv, Session
  <1>4. ViewTallied(session[s])'
    <2>1. ViewTallied(session[s])
      BY <1>1 DEF TallyInv
    <2>2. QED
      BY <1>1, <1>2, <1>3, <2>1 DEF ViewTallied, Tallied
  <1>5. ASSUME NEW t \in Sessions, t # s, Holds(t)' PROVE FALSE
    BY <1>1, <1>3, <1>5, HolderFacts DEF Holds
  <1>6. QED
    BY <1>1, <1>4, <1>5, TallyKept

LEMMA TallyBegin ==
  ASSUME UnitsInv, TallyInv, NEW s \in Sessions, Begin(s)
  PROVE  TallyInv'
  <1>1. /\ \A t \in Sessions : ~Holds(t)
        /\ session' = [session EXCEPT ![s].at = 1, ![s].view = Committed]
        /\ UNCHANGED <<audit, last, searched, answered>>
    BY DEF Begin, tables
  <1>2. PICK w : w = Committed
    OBVIOUS
  <1>3. session'[s].at = 1 /\ session'[s].view = w
        /\ \A t \in Sessions \ {s} : session'[t] = session[t]
    BY <1>1, <1>2 DEF UnitsInv, Session
  <1>4. w.audit = audit /\ w.last = last /\ w.searched = searched
    BY <1>2 DEF Committed
  <1>5. searched \in Nat /\ Tallied(w)
    BY <1>4, TrailTallied DEF UnitsInv, TallyInv, Tallied
  <1>6. ViewTallied(session[s])'
    <2>1. searched = searched + 1 - 1
      BY <1>5
    <2>2. QED
      BY <1>1, <1>3, <1>4, <1>5, <2>1 DEF ViewTallied, Tallied
  <1>7. ASSUME NEW t \in Sessions, t # s, Holds(t)' PROVE FALSE
    BY <1>1, <1>3, <1>7 DEF Holds
  <1>8. QED
    BY <1>1, <1>6, <1>7, TallyKept

LEMMA TallyEnter ==
  ASSUME UnitsInv, TallyInv, NEW s \in Sessions, NEW u \in Unit, Enter(s, u)
  PROVE  TallyInv'
  <1>1. /\ session[s].unit = NoUnit
        /\ UNCHANGED <<audit, last, searched, answered>>
        /\ \A t \in Sessions \ {s} : session'[t] = session[t]
        /\ session'[s].view = session[s].view
    BY DEF Enter, ledgerVars, UnitsInv, Session
  <1>2. ~Holds(s)
    BY <1>1, UnitsAssumption, HolderFacts
  <1>3. ASSUME NEW t \in Sessions, Holds(t)'
        PROVE  Holds(t) /\ session'[t] = session[t]
    BY <1>1, <1>2, <1>3 DEF Holds
  <1>4. QED
    BY <1>1, <1>3, TallyKept

LEMMA TallyCommit ==
  ASSUME UnitsInv, TallyInv, NEW s \in Sessions, Commit(s)
  PROVE  TallyInv'
  <1>1. PICK x : /\ x = session[s] /\ Holds(s) /\ x.unit \in Unit
                 /\ x.unit \in Searching => x.at = 3
    BY CommitFacts
  <1>2. /\ audit' = x.view.audit /\ last' = x.view.last /\ searched' = x.view.searched
        /\ answered' \in IF x.unit.kind = "search" THEN {answered, answered + 1} ELSE {answered}
        /\ session' = [session EXCEPT ![s] = Idle]
    BY <1>1 DEF Commit, Publish
  <1>3. ViewTallied(x)
    BY <1>1 DEF TallyInv
  <1>4. /\ searched \in Nat /\ answered \in Nat
        /\ searched % 2 = 0 /\ 2 * answered <= searched
    BY TrailTallied DEF UnitsInv, TallyInv
  <1>5. last' = Total(audit') + searched'
    BY <1>2, <1>3 DEF ViewTallied, Tallied
  <1>6. searched' % 2 = 0 /\ 2 * answered' <= searched'
    <2>1. CASE x.unit \in Searching
      <3>1. searched' = searched + 3 - 1
        BY <1>1, <1>2, <1>3, <2>1 DEF ViewTallied
      <3>2. searched' = searched + 2
        BY <1>4, <3>1
      <3>3. answered' = answered \/ answered' = answered + 1
        BY <1>2
      <3>4. QED
        BY <1>4, <3>2, <3>3
    <2>2. CASE x.unit \notin Searching
      <3>1. x.unit.kind # "search"
        BY <1>1, <2>2, UnitKinds
      <3>2. answered' = answered /\ searched' = searched
        BY <1>2, <1>3, <2>2, <3>1 DEF ViewTallied
      <3>3. QED
        BY <1>4, <3>2
    <2>3. QED
      BY <2>1, <2>2
  <1>7. ASSUME NEW t \in Sessions, Holds(t)' PROVE FALSE
    <2>1. session'[s] = Idle /\ \A r \in Sessions \ {s} : session'[r] = session[r]
      BY <1>2 DEF UnitsInv
    <2>2. \A r \in Sessions : Holds(r) => r = s
      BY <1>1, HolderFacts
    <2>3. QED
      BY <1>7, <2>1, <2>2, IdleSession DEF Holds
  <1>8. QED
    BY <1>5, <1>6, <1>7, TrailTalliedNext DEF TallyInv

(* The tally is an invariant.                                              *)
LEMMA TallyInit == UnitsInit => TallyInv
  <1> SUFFICES ASSUME UnitsInit PROVE TallyInv
    OBVIOUS
  <1>1. last = 0 /\ searched = 0 /\ answered = 0 /\ \A s \in Sessions : ~Holds(s)
    BY IdleSession DEF UnitsInit, Holds
  <1>2. \A p \in Proposals : Len(audit[p]) = 0
    BY DEF UnitsInit, Init
  <1>3. Total(audit) = 0
    BY <1>2, UnitsAssumption, TotalZero
  <1>4. TrailComplete
    BY <1>1, <1>3, TrailTallied
  <1>5. QED
    BY <1>1, <1>4 DEF TallyInv

LEMMA TallyNext == UnitsInv /\ TallyInv /\ [UnitsNext]_vars => TallyInv'
  <1> SUFFICES ASSUME UnitsInv, TallyInv, [UnitsNext]_vars PROVE TallyInv'
    OBVIOUS
  <1>1. ASSUME NEW s \in Sessions, Begin(s) PROVE TallyInv'
    BY <1>1, TallyBegin
  <1>2. ASSUME NEW s \in Sessions, Statement(s) PROVE TallyInv'
    BY <1>2, TallyRows, TallyEvents, TallyCheck, TallySweep, TallySearch DEF Statement
  <1>3. ASSUME NEW s \in Sessions, Commit(s) PROVE TallyInv'
    BY <1>3, TallyCommit
  <1>4. ASSUME NEW s \in Sessions, GiveUp(s) PROVE TallyInv'
    BY <1>4, TallyIdle DEF GiveUp, ledgerVars
  <1>5. ASSUME NEW s \in Sessions, NEW u \in Unit, Enter(s, u) PROVE TallyInv'
    BY <1>5, TallyEnter
  <1>6. ASSUME NEW s \in Sessions, NEW a \in Attempt, CallbackEnds(s, a) PROVE TallyInv'
    BY <1>6, EveryAttemptRejected, TallyIdle DEF CallbackEnds, tables
  <1>7. ASSUME UNCHANGED <<audit, last, searched, answered, session>> PROVE TallyInv'
    BY <1>7, TallyKept DEF Holds
  <1>8. WallMoves \/ UNCHANGED vars => UNCHANGED <<audit, last, searched, answered, session>>
    BY DEF WallMoves, vars, ledgerVars
  <1>9. QED
    BY <1>1, <1>2, <1>3, <1>4, <1>5, <1>6, <1>7, <1>8 DEF UnitsNext

(* Issue #40, for any number of connections and proposals and trails of    *)
(* any length: the sequence numbers of the audit trail have no gap and no  *)
(* repetition, whatever was rolled back, and a search that returned        *)
(* results left both of its events (audit.py next_sequence_on,             *)
(* retrieval.py search_runbook).                                           *)
THEOREM UnitsTrailComplete == UnitsSpec => []TrailComplete
  <1>1. TallyInv => TrailComplete
    BY DEF TallyInv
  <1>2. QED
    BY <1>1, UnitsInitInv, UnitsNextInv, TallyInit, TallyNext, PTL DEF UnitsSpec

=============================================================================
