----------------------------- MODULE UnitsOfWork -----------------------------
(***************************************************************************)
(* The units of work of Ledger, statement by statement: connections that   *)
(* compete for SQLite's write lock, work on rows nobody else sees yet, and *)
(* commit, roll back or die (store.py, audit.py, and the units themselves  *)
(* in proposals.py, approvals.py, recovery.py and retrieval.py).           *)
(*                                                                         *)
(* Ledger's "clock" is here the time the unit at work judges by, "wall"    *)
(* what a clock() call would return.  SQLite's exclusion, rollback and     *)
(* durability are assumed; that they make atomic units out of what the     *)
(* code does with them is what is checked.                                 *)
(***************************************************************************)
EXTENDS Ledger, FiniteSetsExt

CONSTANTS
  Sessions,   \* connections, one unit of work at a time each
  NoUnit,     \* a session between two units
  NoView,     \* a session that does not hold the write lock
  MaxTrail,   \* bound: no refusal is issued for a trail this long
  MaxSearches \* bound on the searches recorded

VARIABLES
  wall,       \* the wall clock
  last,       \* the highest audit sequence number
  searched,   \* the request and guidance events of searches
  answered,   \* the searches whose results were returned
  session     \* per session its unit, the statement it is at, its time, its view

tables == <<proposals, approvals, audit, last, searched>>
vars == <<ledgerVars, wall, last, searched, answered, session>>

(* One unit of work and its arguments, which its caller has validated.     *)
Open == [kind : {"open"}, p : Proposals, binding : Bindings \cup {NoBinding}]
Approval == [kind : {"approve"}, p : Proposals, operator : Operators, byId : BOOLEAN]
Consumption == [kind : {"consume"}, p : Proposals, owner : Owners,
                path : {"standing", "proposal-bound"}]
Appending == [kind : {"append"}, p : Proposals,
              event : {RefusalEvent} \cup {OutcomeEvent(oc) : oc \in Outcomes}]
Sweeping == [kind : {"sweep"}, dead : SUBSET Owners]
Searching == [kind : {"search"}]

Unit == Open \cup Approval \cup Consumption \cup Appending \cup Sweeping \cup Searching

(* The statements of a unit, in order.                                     *)
ProgramUnaudited(u) ==
  CASE u.kind = "open"    -> <<"proposal", "binding">>
    [] u.kind = "approve" -> <<"check", "approval">>
    [] u.kind = "consume" -> <<"check", "swap", "start", "spend">>
    [] u.kind = "append"  -> <<"event">>
    [] u.kind = "sweep"   -> <<"sweep">>
    [] u.kind = "search"  -> <<"request", "guidance">>
Program(u) ==
  CASE u.kind = "open"    -> <<"proposal", "binding", "opened">>
    [] u.kind = "approve" -> <<"check", "approval">>
    [] u.kind = "consume" -> <<"check", "swap", "start", "spend">>
    [] u.kind = "append"  -> <<"event">>
    [] u.kind = "sweep"   -> <<"sweep">>
    [] u.kind = "search"  -> <<"request", "guidance">>

(* The database as a session sees it while it holds the write lock.        *)
View == [proposals : [Proposals -> ProposalRow], approvals : [Proposals -> ApprovalRow],
         audit : [Proposals -> Seq(Event)], last : Nat, searched : Nat]

ASSUME UnitsAssumption ==
  /\ IsFiniteSet(Proposals)
  /\ MaxTrail \in Nat /\ MaxSearches \in Nat
  /\ NoUnit \notin Unit /\ NoView \notin View

Committed == [proposals |-> proposals, approvals |-> approvals, audit |-> audit,
              last |-> last, searched |-> searched]

Seen(s) == INSTANCE Ledger WITH
  clock     <- session[s].now,
  proposals <- session[s].view.proposals,
  approvals <- session[s].view.approvals,
  audit     <- session[s].view.audit

Idle == [unit |-> NoUnit, at |-> 0, now |-> 0, view |-> NoView]

Holds(s) == session[s].view # NoView

-----------------------------------------------------------------------------
(* Taking, leaving and losing the write lock.                              *)

(* The callers: a fresh id for each proposal, an outcome only by the one   *)
(* call that started the execution.                                        *)
Issuable(u) ==
  /\ u.kind = "open" => /\ proposals[u.p].state = "absent"
                        /\ \A s \in Sessions : session[s].unit \in Open => session[s].unit.p # u.p
  /\ u.kind = "append" =>
       IF u.event = RefusalEvent
       THEN proposals[u.p].state # "absent" /\ Len(audit[u.p]) < MaxTrail
       ELSE /\ Starts(u.p) # {}
            /\ \A i \in Terminals(u.p) : audit[u.p][i].code = "owner-dead"
            /\ \A s \in Sessions :
                 session[s].unit \in Appending /\ session[s].unit.event # RefusalEvent =>
                   session[s].unit.p # u.p
  /\ u.kind = "search" => searched < 2 * MaxSearches

(* open_proposal reads the clock here, before it waits for the lock.       *)
Enter(s, u) ==
  /\ session[s].unit = NoUnit
  /\ Issuable(u)
  /\ session' = [session EXCEPT ![s].unit = u, ![s].now = IF u.kind = "open" THEN wall ELSE 0]
  /\ UNCHANGED <<ledgerVars, wall, last, searched, answered>>

(* BEGIN IMMEDIATE: one writer at a time, from the last committed state.   *)
BeginDeferred(s) ==
  /\ session[s].unit # NoUnit /\ ~Holds(s)
  /\ session' = [session EXCEPT ![s].at = 1, ![s].view = Committed]
  /\ clock' = IF session[s].unit.kind = "open" THEN session[s].now ELSE clock
  /\ UNCHANGED <<tables, wall, answered>>
Begin(s) ==
  /\ session[s].unit # NoUnit
  /\ \A t \in Sessions : ~Holds(t)
  /\ session' = [session EXCEPT ![s].at = 1, ![s].view = Committed]
  /\ clock' = IF session[s].unit.kind = "open" THEN session[s].now ELSE clock
  /\ UNCHANGED <<tables, wall, answered>>

Publish(s) ==
  /\ proposals' = session[s].view.proposals
  /\ approvals' = session[s].view.approvals
  /\ audit' = session[s].view.audit
  /\ last' = session[s].view.last
  /\ searched' = session[s].view.searched
  /\ session' = [session EXCEPT ![s] = Idle]

(* The unit ends without a trace: the busy timeout while it waits for the  *)
(* lock, an error of a statement, of a check between them or of the        *)
(* commit, or the death of its process.                                    *)
GiveUpKeeping(s) ==
  /\ session[s].unit # NoUnit
  /\ IF Holds(s) THEN Publish(s) ELSE session' = [session EXCEPT ![s] = Idle] /\ UNCHANGED tables
  /\ UNCHANGED <<clock, wall, answered>>
GiveUp(s) ==
  /\ session[s].unit # NoUnit
  /\ session' = [session EXCEPT ![s] = Idle]
  /\ UNCHANGED <<ledgerVars, wall, last, searched, answered>>

(* COMMIT after the last statement.  A search then returns its results,    *)
(* unless its process dies first.                                          *)
Commit(s) ==
  /\ Holds(s) /\ session[s].at > Len(Program(session[s].unit))
  /\ Publish(s)
  /\ answered' \in IF session[s].unit.kind = "search" THEN {answered, answered + 1} ELSE {answered}
  /\ UNCHANGED <<clock, wall>>

-----------------------------------------------------------------------------
(* The callbacks of consume: gate.py's two are statements of the unit; any *)
(* callback may also try to end the transaction it is in.                  *)

(* What SQLite calls a statement that ends a transaction, and how it may   *)
(* be spelled: after a comment or whitespace, glued to one, or behind a    *)
(* character no keyword starts with.                                       *)
Attempt == [word : {"commit", "end", "rollback"}, head : {"plain", "comment", "odd"}]

TransactionControl == {"begin", "commit", "end", "rollback", "abort", "savepoint", "release",
                       "vacuum", "attach", "detach", "delete", "drop", "alter", "truncate",
                       "replace"}

(* _lead_keyword: comments are skipped and anything odd is no keyword.     *)
LeadKeywordUncommented(a) == IF a.head = "plain" THEN a.word ELSE a.head
LeadKeyword(a) == IF a.head = "odd" THEN "" ELSE a.word

Rejected(a) == LeadKeyword(a) \in TransactionControl \cup {""}

(* GuardedConnection rejects it and the unit rolls back.  Did it not, the  *)
(* unit would be published as it stands; transaction() could only say so.  *)
CallbackEnds(s, a) ==
  /\ Holds(s)
  /\ session[s].unit.kind = "consume" /\ session[s].at \in {3, 4}
  /\ IF Rejected(a) \/ a.word = "rollback"
     THEN UNCHANGED tables /\ session' = [session EXCEPT ![s] = Idle]
     ELSE Publish(s)
  /\ UNCHANGED <<clock, wall, answered>>

-----------------------------------------------------------------------------
(* The statements.                                                         *)

AtStatement(s, statement) ==
  /\ Holds(s)
  /\ session[s].at \in DOMAIN Program(session[s].unit)
  /\ Program(session[s].unit)[session[s].at] = statement

See(s, v) == session' = [session EXCEPT ![s].at = @ + 1, ![s].view = v]
Write(s, v) == See(s, v) /\ UNCHANGED <<ledgerVars, wall, last, searched, answered>>

(* next_sequence_on: MAX(sequence) + 1, as the transaction sees it.        *)
NextSequenceOutside(v) == last + 1
NextSequence(v) == v.last + 1

WithEvent(v, p, e) == [v EXCEPT !.audit[p] = Append(@, e), !.last = NextSequence(v)]

InsertProposal(s) ==
  /\ AtStatement(s, "proposal")
  /\ LET u == session[s].unit
         v == session[s].view
     IN  /\ v.proposals[u.p].state = "absent"
         /\ Write(s, [v EXCEPT !.proposals[u.p] =
                        [state |-> "active", expires |-> Expiry(session[s].now),
                         consumedAt |-> 0, binding |-> NoBinding]])

InsertBinding(s) ==
  /\ AtStatement(s, "binding")
  /\ LET u == session[s].unit
     IN  Write(s, [session[s].view EXCEPT !.proposals[u.p].binding = u.binding])

AppendOpened(s) ==
  /\ AtStatement(s, "opened")
  /\ Write(s, WithEvent(session[s].view, session[s].unit.p, ProposalEvent))

(* _check on the row as it is under the lock, at a time read under it.     *)
CheckPassesLate(s, u, time) ==
  LET row == session[s].view.proposals[u.p]
  IN  /\ row.state # "absent" /\ time < row.expires
      /\ u \in Approval /\ u.byId => row.binding # NoBinding
CheckPasses(s, u, time) ==
  LET row == session[s].view.proposals[u.p]
  IN  /\ row.state = "active" /\ time < row.expires
      /\ u \in Approval /\ u.byId => row.binding # NoBinding
Check(s) ==
  /\ AtStatement(s, "check")
  /\ CheckPasses(s, session[s].unit, wall)
  /\ clock' = wall
  /\ session' = [session EXCEPT ![s].at = @ + 1, ![s].now = wall]
  /\ UNCHANGED <<tables, wall, answered>>

(* The UNIQUE constraint of approvals allows one per token.                *)
InsertRow(s) ==
  /\ AtStatement(s, "approval")
  /\ LET u == session[s].unit
         v == session[s].view
     IN  /\ v.approvals[u.p].state = "absent"
         /\ Write(s, [v EXCEPT !.approvals[u.p] =
                        [state |-> "recorded", operator |-> u.operator,
                         binding |-> v.proposals[u.p].binding]])

(* The UPDATE applies to a row still active and unexpired.                 *)
Swap(s) ==
  /\ AtStatement(s, "swap")
  /\ LET u == session[s].unit
         v == session[s].view
     IN  /\ Seen(s)!Eligible(u.p)
         /\ Write(s, [v EXCEPT !.proposals[u.p].state = "consumed",
                               !.proposals[u.p].consumedAt = session[s].now])

AppendStart(s) ==
  /\ AtStatement(s, "start")
  /\ LET u == session[s].unit
     IN  Write(s, WithEvent(session[s].view, u.p, StartEvent(u.owner, u.path)))

(* spend_approval_append: only beside the consumption of its own token.    *)
Spend(s) ==
  /\ AtStatement(s, "spend")
  /\ LET u == session[s].unit
         v == session[s].view
         row == v.approvals[u.p]
     IN  /\ v.proposals[u.p].state = "consumed" /\ row.state # "used"
         /\ Write(s, IF row.state = "recorded"
                     THEN [v EXCEPT !.approvals[u.p].state = "used"] ELSE v)

InsertEvent(s) ==
  /\ AtStatement(s, "event")
  /\ Write(s, WithEvent(session[s].view, session[s].unit.p, session[s].unit.event))

(* The sweep's loop over the starts; an error in it ends the unit.         *)
Sweep(s) ==
  /\ AtStatement(s, "sweep")
  /\ LET v == session[s].view
         lost == {p \in Proposals : Seen(s)!Interrupted(p, session[s].unit.dead)}
     IN  Write(s, [v EXCEPT !.audit = [p \in Proposals |->
                                         IF p \in lost THEN Append(@[p], RecoveredEvent) ELSE @[p]],
                            !.last = @ + Cardinality(lost)])

(* search_runbook's two events, of no proposal.                            *)
AppendSearch(s) ==
  /\ AtStatement(s, "request") \/ AtStatement(s, "guidance")
  /\ LET v == session[s].view
     IN  Write(s, [v EXCEPT !.last = NextSequence(v), !.searched = @ + 1])

Statement(s) ==
  \/ InsertProposal(s) \/ InsertBinding(s) \/ AppendOpened(s)
  \/ Check(s) \/ InsertRow(s)
  \/ Swap(s) \/ AppendStart(s) \/ Spend(s)
  \/ InsertEvent(s) \/ Sweep(s) \/ AppendSearch(s)

(* The wall clock may be stepped back as well as forward.                  *)
WallMoves ==
  /\ wall' \in Times
  /\ UNCHANGED <<ledgerVars, last, searched, answered, session>>

-----------------------------------------------------------------------------

UnitsInit ==
  /\ Init
  /\ wall = 0 /\ last = 0 /\ searched = 0 /\ answered = 0
  /\ session = [s \in Sessions |-> Idle]

UnitsNext ==
  \/ \E s \in Sessions : Begin(s) \/ Statement(s) \/ Commit(s) \/ GiveUp(s)
  \/ \E s \in Sessions, u \in Unit : Enter(s, u)
  \/ \E s \in Sessions, a \in Attempt : CallbackEnds(s, a)
  \/ WallMoves

UnitsSpec == UnitsInit /\ [][UnitsNext]_vars

-----------------------------------------------------------------------------
(* Properties.                                                             *)

(* Every table, and every table a session sees, has its type; whoever sees *)
(* one holds the write lock alone.                                         *)
UnitsTypeOK ==
  /\ TypeOK
  /\ wall \in Nat /\ last \in Nat /\ searched \in Nat /\ answered \in Nat
  /\ session \in [Sessions -> [unit : Unit \cup {NoUnit}, at : Nat, now : Nat,
                               view : View \cup {NoView}]]
  /\ \A s, t \in Sessions : Holds(s) /\ Holds(t) => s = t

(* What the callers of store.py rely on: however statements of different   *)
(* connections interleave, fail, or are cut off, the database only ever    *)
(* moves by whole units of work, each one on the state it found and, for   *)
(* an expiry, at one moment in time.                                       *)
ImplementsLedger == Init /\ [][Next]_ledgerVars

(* Issue #40: the sequence numbers of the trail are 1, 2, 3 ... without a  *)
(* gap or a repetition, whatever was rolled back; and a search that gave   *)
(* results is in the trail with its request and its guidance, never one    *)
(* without the other.                                                      *)
TrailComplete ==
  /\ last = MapThenSumSet(LAMBDA p : Len(audit[p]), Proposals) + searched
  /\ searched % 2 = 0 /\ 2 * answered <= searched

=============================================================================
