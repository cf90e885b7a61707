------------------------- MODULE ExecutionGateProofs -------------------------
(***************************************************************************)
(* The execution gate keeps its promises for any number of calls and       *)
(* instances, any configurations and scripts, whatever they race with and  *)
(* wherever they crash.  GateInv, which is inductive, says of each call    *)
(* what it has established by the point it has reached, and of each        *)
(* proposal what its trail and its side effect rest on.                    *)
(***************************************************************************)
EXTENDS ExecutionGate, LedgerProofs, FiniteSetTheorems

Active == PreDispatch \cup PostDispatch

(* From here on a call's binding and bytes are those that will run ...     *)
Checked == {"authorize", "approval", "approvalToken", "dispatch"} \cup PostDispatch

(* ... and here its side effect may have started.                          *)
Effected == {"running", "record"} \cup Ended

-----------------------------------------------------------------------------
(* What holds of one call, with the data j, at the label it has reached.   *)

Placed(j, label) ==
  /\ label # "idle" => j.on \in Owners /\ inst[j.on] # "new"
  /\ label \in Active => inst[j.on] = "live"
  /\ label # "ended" => j.result = "none"
  /\ label = "idle" => ~j.named

Identified(j, label) ==
  /\ j.named => proposals[j.tok].state # "absent"
  /\ label \in Checked \cup {"script"} => j.named
  /\ label \in Checked => /\ proposals[j.tok].binding \in Bindings
                          /\ j.bytes = ScriptOf[proposals[j.tok].binding]

(* An approval of proposal p by an operator, recorded or already spent.    *)
ApprovedBy(p, operator) == approvals[p].state # "absent" /\ approvals[p].operator = operator

Authorized(j, label) ==
  /\ label = "approvalToken" => ApprovedBy(j.tok, config[j.on].operator)
  /\ label = "dispatch" =>
       \/ j.path = "standing" /\ proposals[j.tok].binding \in config[j.on].standing
       \/ j.path = "proposal-bound" /\ ApprovedBy(j.tok, config[j.on].operator)

StartedBy(p, owner) == \E i \in Starts(p) : audit[p][i].owner = owner

Executing(j, label) ==
  /\ label \in PostDispatch => StartedBy(j.tok, j.on) /\ Terminals(j.tok) = {}
  /\ label = "run" => runs[j.tok] = <<>>
  /\ label = "running" => runs[j.tok] # <<>>
  /\ label = "record" => /\ j.outcome \in Outcomes
                         /\ j.outcome = "success" => runs[j.tok] # <<>>

Reported(j) ==
  j.result \in Outcomes =>
    /\ \E i \in Terminals(j.tok) : audit[j.tok][i].outcome = j.result
    /\ StartedBy(j.tok, j.on)

JobInv(j, label) ==
  /\ Placed(j, label) /\ Identified(j, label) /\ Authorized(j, label)
  /\ Executing(j, label) /\ Reported(j)

CallInv(c) == JobInv(job[c], pc[c])

(* What holds of one proposal.                                             *)

StartAuthorized(p, e) ==
  /\ e.owner \in Owners /\ inst[e.owner] # "new"
  /\ \/ e.path = "standing" /\ proposals[p].binding \in config[e.owner].standing
     \/ /\ e.path = "proposal-bound"
        /\ approvals[p].state = "used" /\ approvals[p].operator = config[e.owner].operator

EffectOf(p, r) ==
  /\ pc[r.call] \in Effected
  /\ StartedBy(p, job[r.call].on)
  /\ r.bytes = ScriptOf[proposals[p].binding]
  /\ job[r.call].result \notin {"refused", "rejected"}

RowsInv(p) ==
  /\ \A i \in Starts(p) : StartAuthorized(p, audit[p][i])
  /\ \A i, j \in Terminals(p) : i = j
  /\ Len(runs[p]) <= 1
  /\ runs[p] # <<>> => Starts(p) # {}
  /\ \A k \in DOMAIN runs[p] : EffectOf(p, runs[p][k])

(* No two calls are past the dispatch of one token.                        *)
Exclusive ==
  \A c, d \in Calls :
    pc[c] \in PostDispatch /\ pc[d] \in PostDispatch /\ job[c].tok = job[d].tok => c = d

GateInv ==
  /\ IInv
  /\ GateTypeOK
  /\ \A c \in Calls : CallInv(c)
  /\ \A p \in Proposals : RowsInv(p)
  /\ Exclusive

-----------------------------------------------------------------------------
(* Every step is a unit of work of the ledger.                             *)

LEMMA LabelFacts ==
  /\ Active = PreDispatch \cup PostDispatch
  /\ PreDispatch = {"resolve", "script", "authorize", "approval", "approvalToken",
                    "dispatch", "refuse"}
  /\ PostDispatch = {"run", "running", "record"}
  /\ Ended = {"ended", "killed"}
  /\ Checked = {"authorize", "approval", "approvalToken", "dispatch", "run", "running", "record"}
  /\ Effected = {"running", "record", "ended", "killed"}
  BY DEF Active, PreDispatch, PostDispatch, Ended, Checked, Effected

LEMMA LedgerStep == GateInv /\ [GateNext]_vars => [Next]_ledgerVars
<1> SUFFICES ASSUME GateInv, [GateNext]_vars PROVE [Next]_ledgerVars
  OBVIOUS
<1>1. GateTypeOK /\ \A c \in Calls : job[c] \in Job /\ CallInv(c)
  BY DEF GateInv, GateTypeOK
<1>2. \A i \in Owners : /\ config[i].catalog \in Bindings \cup {NoBinding}
                        /\ config[i].operator \in Operators
  BY <1>1, GateAssumption DEF GateTypeOK
<1>3. ASSUME NEW c \in Calls, Advance(c) PROVE [Next]_ledgerVars
  <2>1. CASE UNCHANGED ledgerVars
    BY <2>1
  <2>2. CASE Dispatch(c)
    <3>1. /\ job[c].on \in Owners /\ job[c].tok \in Proposals
          /\ job[c].path \in {"standing", "proposal-bound"}
      BY <1>1, <2>2 DEF Dispatch, At, CallInv, JobInv, Placed, Authorized, Job
    <3> QED BY <2>2, <3>1 DEF Dispatch, Next
  <2>3. CASE Refuse(c) /\ job[c].named
    <3>1. job[c].tok \in Proposals /\ proposals[job[c].tok].state # "absent"
      BY <1>1, <2>3 DEF CallInv, JobInv, Identified, Job
    <3>2. AppendRefusal(job[c].tok)
      BY <2>3, <3>1 DEF Refuse, AppendRefusal
    <3> QED BY <3>1, <3>2 DEF Next
  <2>4. CASE RecordOutcome(c)
    <3>1. /\ job[c].tok \in Proposals /\ job[c].outcome \in Outcomes
          /\ Starts(job[c].tok) # {} /\ Terminals(job[c].tok) = {}
      BY <1>1, <2>4, LabelFacts DEF RecordOutcome, At, CallInv, JobInv, Executing, StartedBy, Job
    <3>2. AppendOutcome(job[c].tok, job[c].outcome)
      BY <2>4, <3>1 DEF RecordOutcome, AppendOutcome
    <3> QED BY <3>1, <3>2 DEF Next
  <2> QED
    BY <1>3, <2>1, <2>2, <2>3, <2>4
    DEF Advance, ResolveToken, ReadScript, Authorize, ReadApproval, ResolveApproved,
        DispatchRefused, Refuse, StartEffect, Report
<1>4. ASSUME NEW c \in Calls, Fail(c) PROVE UNCHANGED ledgerVars
  BY <1>4 DEF Fail, StorageError, OutcomeLost
<1>5. ASSUME NEW c \in Calls, NEW i \in Owners, NEW p \in Proposals, Call(c, i, p)
      PROVE  UNCHANGED ledgerVars
  BY <1>5 DEF Call
<1>6. ASSUME NEW i \in Owners, Boot(i) PROVE Next
  <2>1. DeadOwners \in SUBSET Owners
    BY DEF DeadOwners
  <2> QED BY <1>6, <2>1 DEF Boot, Next
<1>7. ASSUME NEW i \in Owners, Crash(i) PROVE UNCHANGED ledgerVars
  BY <1>7 DEF Crash
<1>8. ASSUME NEW i \in Owners, NEW p \in Proposals, Propose(i, p) PROVE Next
  BY <1>2, <1>8 DEF Propose, Next
<1>9. ASSUME NEW i \in Owners, NEW p \in Proposals, NEW presented \in Operators,
             Approve(i, p, presented)
      PROVE  Next
  BY <1>2, <1>9 DEF Approve, Next
<1>10. CASE EditScript
  BY <1>10 DEF EditScript
<1>11. CASE TimePasses
  BY <1>11 DEF TimePasses, Next
<1>12. CASE UNCHANGED vars
  BY <1>12 DEF vars
<1> QED
  BY <1>3, <1>4, <1>5, <1>6, <1>7, <1>8, <1>9, <1>10, <1>11, <1>12 DEF GateNext

(* What such a step keeps of one proposal, as the calls rely on it.        *)
KeptRow(p) ==
  /\ proposals[p].state # "absent" => /\ proposals'[p].state # "absent"
                                      /\ proposals'[p].binding = proposals[p].binding
  /\ approvals[p].state # "absent" => /\ approvals'[p].state # "absent"
                                      /\ approvals'[p].operator = approvals[p].operator
  /\ approvals[p].state = "used" => approvals'[p].state = "used"
  /\ \A i \in Starts(p) : i \in Starts(p)' /\ audit'[p][i] = audit[p][i]
  /\ \A i \in Terminals(p) : i \in Terminals(p)' /\ audit'[p][i] = audit[p][i]

LEMMA RowsKept ==
  ASSUME GateInv, [Next]_ledgerVars
  PROVE  IInv' /\ \A p \in Proposals : KeptRow(p)
<1>1. IInv /\ IInv'
  BY NextInv DEF GateInv
<1>2. ASSUME NEW p \in Proposals PROVE KeptRow(p)
  <2>1. RowDurable(p)
    BY <1>1, StepDurable DEF DurableStep, RowDurable
  <2>2. proposals[p].state \in {"absent", "active", "consumed"}
    BY <1>1 DEF IInv, TypeOK, ProposalRow
  <2>3. audit[p] \in Seq(Event) /\ audit'[p] \in Seq(Event)
    BY <1>1 DEF IInv, TypeOK
  <2>4. \A i \in Positions(p) : i \in Positions(p)' /\ audit'[p][i] = audit[p][i]
    BY <2>1, <2>3 DEF RowDurable, Positions
  <2>5. /\ \A i \in Starts(p) : i \in Starts(p)' /\ audit'[p][i] = audit[p][i]
        /\ \A i \in Terminals(p) : i \in Terminals(p)' /\ audit'[p][i] = audit[p][i]
    BY <2>4 DEF Starts, Terminals
  <2>6. approvals[p].state = "used" => approvals'[p].state = "used"
    BY <2>1 DEF RowDurable
  <2>7. approvals[p].state # "absent" => approvals'[p].state # "absent"
    BY <2>1 DEF RowDurable
  <2> QED BY <2>1, <2>2, <2>5, <2>6, <2>7 DEF RowDurable, KeptRow
<1> QED BY <1>1, <1>2

-----------------------------------------------------------------------------
(* The frame: what a step leaves of the calls and proposals it does not    *)
(* concern.                                                                *)

(* A call that did not move, on an instance that did not change.           *)
LEMMA CallKept ==
  ASSUME GateInv, NEW c \in Calls, KeptRow(job[c].tok),
         UNCHANGED <<pc[c], job[c]>>,
         pc[c] # "idle" => UNCHANGED <<inst[job[c].on], config[job[c].on]>>,
         pc[c] \in PostDispatch => /\ Terminals(job[c].tok)' = {}
                                   /\ UNCHANGED runs[job[c].tok]
  PROVE  CallInv(c)'
<1>1. CallInv(c)
  BY DEF GateInv
<1>2. Placed(job[c], pc[c])'
  BY <1>1, LabelFacts DEF CallInv, JobInv, Placed
<1>3. Identified(job[c], pc[c])'
  BY <1>1, LabelFacts DEF CallInv, JobInv, Identified, KeptRow
<1>4. Authorized(job[c], pc[c])'
  <2>1. pc[c] \in {"approvalToken", "dispatch"} =>
          proposals'[job[c].tok].binding = proposals[job[c].tok].binding
    BY <1>1, LabelFacts DEF CallInv, JobInv, Identified, KeptRow
  <2> QED BY <1>1, <2>1 DEF CallInv, JobInv, Authorized, ApprovedBy, KeptRow
<1>5. \A o : StartedBy(job[c].tok, o) => StartedBy(job[c].tok, o)'
  BY DEF StartedBy, KeptRow
<1>6. Executing(job[c], pc[c])'
  BY <1>1, <1>5, LabelFacts DEF CallInv, JobInv, Executing
<1>7. Reported(job[c])'
  BY <1>1, <1>5 DEF CallInv, JobInv, Reported, KeptRow
<1> QED BY <1>2, <1>3, <1>4, <1>6, <1>7 DEF CallInv, JobInv

(* How a call whose side effect may have started can move at all.          *)
Moves(c) ==
  pc[c] \in Effected =>
    /\ pc'[c] \in Effected
    /\ job'[c].on = job[c].on
    /\ job[c].result \notin {"refused", "rejected"} => job'[c].result \notin {"refused", "rejected"}

LEMMA SeqElement == ASSUME NEW S, NEW s \in Seq(S), NEW k \in DOMAIN s PROVE s[k] \in S
  OBVIOUS

LEMMA SeqAppend == ASSUME NEW S, NEW s \in Seq(S), NEW e \in S PROVE Append(s, e) \in Seq(S)
  OBVIOUS

(* A proposal that got neither a start nor a second outcome nor an effect. *)
LEMMA RowsInvKept ==
  ASSUME GateInv, NEW p \in Proposals, KeptRow(p),
         Starts(p)' = Starts(p),
         \A i, j \in Terminals(p)' : i = j,
         UNCHANGED runs[p],
         \A i \in Owners : inst[i] # "new" => inst'[i] # "new" /\ UNCHANGED config[i],
         \A c \in Calls : Moves(c)
  PROVE  RowsInv(p)'
<1>1. RowsInv(p) /\ runs[p] \in Seq([call : Calls, bytes : Scripts])
  BY DEF GateInv, GateTypeOK
<1>2. Starts(p) # {} => /\ proposals[p].state # "absent"
                        /\ proposals'[p].binding = proposals[p].binding
  BY DEF GateInv, IInv, StartPairedWithConsumption, KeptRow
<1>3. ASSUME NEW i \in Starts(p)' PROVE StartAuthorized(p, audit[p][i])'
  BY <1>1, <1>2, <1>3 DEF RowsInv, StartAuthorized, KeptRow
<1>4. \A o : StartedBy(p, o) => StartedBy(p, o)'
  BY DEF StartedBy, KeptRow
<1>5. ASSUME NEW k \in DOMAIN runs[p] PROVE EffectOf(p, runs[p][k])'
  <2>1. runs[p][k] \in [call : Calls, bytes : Scripts]
    BY ONLY <1>1, k \in DOMAIN runs[p], SeqElement
  <2>2. runs[p][k].call \in Calls
    BY <2>1
  <2>3. EffectOf(p, runs[p][k])
    BY <1>1 DEF RowsInv
  <2>4. Starts(p) # {}
    BY <2>3 DEF EffectOf, StartedBy
  <2> QED BY <1>2, <1>4, <2>2, <2>3, <2>4 DEF EffectOf, Moves
<1> QED BY <1>1, <1>3, <1>5 DEF RowsInv

(* A step of calls in which no execution starts, takes effect or ends.     *)
Stepped(c) ==
  /\ CallInv(c)'
  /\ Moves(c)
  /\ pc'[c] \in PostDispatch => pc[c] \in PostDispatch /\ job'[c].tok = job[c].tok

LEMMA QuietStep ==
  ASSUME GateInv, [Next]_ledgerVars, GateTypeOK',
         \A p \in Proposals : Starts(p)' = Starts(p) /\ Terminals(p)' = Terminals(p),
         UNCHANGED <<inst, config, runs>>,
         \A c \in Calls : UNCHANGED <<pc[c], job[c]>> \/ Stepped(c)
  PROVE  GateInv'
<1>1. IInv' /\ \A p \in Proposals : KeptRow(p)
  BY RowsKept
<1>2. \A c \in Calls : job[c].tok \in Proposals /\ CallInv(c)
  BY DEF GateInv, GateTypeOK, Job
<1>3. ASSUME NEW c \in Calls PROVE CallInv(c)'
  <2>1. CASE Stepped(c)
    BY <2>1 DEF Stepped
  <2>2. CASE UNCHANGED <<pc[c], job[c]>>
    <3>1. pc[c] \in PostDispatch => Terminals(job[c].tok)' = {}
      BY <1>2, <2>2 DEF CallInv, JobInv, Executing
    <3> QED BY <1>1, <1>2, <2>2, <3>1, CallKept
  <2> QED BY <2>1, <2>2
<1>4. \A c \in Calls : Moves(c)
  BY DEF Stepped, Moves
<1>5. ASSUME NEW p \in Proposals PROVE RowsInv(p)'
  <2>1. \A i, j \in Terminals(p)' : i = j
    BY DEF GateInv, RowsInv
  <2> QED BY <1>1, <1>4, <2>1, RowsInvKept
<1>6. Exclusive'
  BY DEF GateInv, Exclusive, Stepped
<1> QED BY <1>1, <1>3, <1>5, <1>6 DEF GateInv

-----------------------------------------------------------------------------
(* Steps of one call that leave the ledger alone.                          *)

Labels == {"idle"} \cup PreDispatch \cup PostDispatch \cup Ended

(* It goes to a label with the data j, and nothing else moves.             *)
LEMMA OneCall ==
  ASSUME GateInv, NEW c \in Calls, NEW label \in Labels, NEW j \in Job,
         Goto(c, label), Set(c, j) \/ (UNCHANGED job /\ j = job[c]),
         UNCHANGED <<ledgerVars, worldVars, runs>>
  PROVE  /\ pc'[c] = label /\ job'[c] = j
         /\ \A p \in Proposals : Starts(p)' = Starts(p) /\ Terminals(p)' = Terminals(p)
         /\ KeptRow(j.tok)
         /\ Stepped(c) => GateInv'
<1>1. GateTypeOK /\ job \in [Calls -> Job] /\ pc \in [Calls -> Labels]
  BY DEF GateInv, GateTypeOK, Labels
<1>2. pc'[c] = label /\ job'[c] = j /\ \A d \in Calls \ {c} : UNCHANGED <<pc[d], job[d]>>
  BY <1>1 DEF Goto, Set
<1>3. \A p \in Proposals : Starts(p)' = Starts(p) /\ Terminals(p)' = Terminals(p)
  BY DEF ledgerVars, Starts, Terminals, Positions
<1>4. \A p \in Proposals : KeptRow(p)
  BY RowsKept
<1>5. job' \in [Calls -> Job] /\ pc' \in [Calls -> Labels]
  BY <1>1 DEF Goto, Set
<1>6. GateTypeOK'
  BY <1>1, <1>5 DEF GateTypeOK, TypeOK, ledgerVars, worldVars, Labels
<1>7. Stepped(c) => GateInv'
  BY <1>2, <1>3, <1>6, QuietStep DEF worldVars
<1> QED BY <1>2, <1>3, <1>4, <1>7 DEF Job

(* What such a step must show: what holds of a call at its new label.      *)
LEMMA Arrives ==
  ASSUME GateInv, NEW c \in Calls, NEW label \in Labels, NEW j \in Job,
         Goto(c, label), Set(c, j) \/ (UNCHANGED job /\ j = job[c]),
         UNCHANGED <<ledgerVars, worldVars, runs>>,
         JobInv(j, label),
         label \in PostDispatch => pc[c] \in PostDispatch /\ j.tok = job[c].tok,
         pc[c] \in Effected => /\ label \in Effected /\ j.on = job[c].on
                               /\ j.result \notin {"refused", "rejected"}
  PROVE  GateInv'
<1>1. /\ pc'[c] = label /\ job'[c] = j
      /\ Stepped(c) => GateInv'
  BY OneCall
<1>2. CallInv(c)'
  BY <1>1
  DEF CallInv, JobInv, Placed, Identified, Authorized, ApprovedBy, Executing, Reported, StartedBy,
      Starts, Terminals, Positions, ledgerVars, worldVars
<1>3. Stepped(c)
  BY <1>1, <1>2 DEF Stepped, Moves
<1> QED BY <1>1, <1>3

LEMMA CallFacts ==
  ASSUME GateInv, NEW c \in Calls
  PROVE  /\ job[c] \in Job /\ pc[c] \in Labels /\ JobInv(job[c], pc[c])
         /\ job[c].tok \in Proposals
         /\ proposals[job[c].tok] \in ProposalRow /\ approvals[job[c].tok] \in ApprovalRow
         /\ disk \in Scripts
  BY DEF GateInv, GateTypeOK, TypeOK, CallInv, Labels, Job

LEMMA CallStep ==
  ASSUME GateInv, NEW c \in Calls, NEW i \in Owners, NEW p \in Proposals, Call(c, i, p)
  PROVE  GateInv'
<1>1. /\ job[c] \in Job /\ pc[c] = "idle" /\ inst[i] = "live"
      /\ JobInv(job[c], "idle")
      /\ UNCHANGED <<ledgerVars, worldVars, runs>>
  BY CallFacts DEF Call
<1>2. CASE /\ Goto(c, "resolve")
           /\ Set(c, [job[c] EXCEPT !.on = i, !.tok = p])
  <2> DEFINE j == [job[c] EXCEPT !.on = i, !.tok = p]
  <2>1. /\ j \in Job /\ j.on = i /\ j.named = job[c].named /\ j.result = job[c].result
        /\ "resolve" \in Labels
    BY <1>1, LabelFacts DEF Job, Labels
  <2> HIDE DEF j
  <2>2. JobInv(j, "resolve")
    BY <1>1, <2>1, LabelFacts
    DEF JobInv, Placed, Identified, Authorized, Executing, Reported, Outcomes
  <2> QED BY <1>1, <1>2, <2>1, <2>2, Arrives, LabelFacts DEF j
<1>3. CASE /\ Goto(c, "ended")
           /\ Set(c, [job[c] EXCEPT !.on = i, !.tok = p, !.result = "rejected"])
  <2> DEFINE j == [job[c] EXCEPT !.on = i, !.tok = p, !.result = "rejected"]
  <2>1. /\ j \in Job /\ j.on = i /\ j.named = job[c].named /\ j.result = "rejected"
        /\ "ended" \in Labels
    BY <1>1, LabelFacts DEF Job, Labels
  <2> HIDE DEF j
  <2>2. JobInv(j, "ended")
    BY <1>1, <2>1, LabelFacts
    DEF JobInv, Placed, Identified, Authorized, Executing, Reported, Outcomes
  <2> QED BY <1>1, <1>3, <2>1, <2>2, Arrives, LabelFacts DEF j
<1> QED BY <1>2, <1>3 DEF Call

(* A call that turns to its refusal has nothing left to establish.         *)
LEMMA TurnsToRefuse ==
  ASSUME GateInv, NEW c \in Calls, NEW j \in Job, pc[c] \in PreDispatch, At(c, pc[c]),
         Goto(c, "refuse"), Set(c, j) \/ (UNCHANGED job /\ j = job[c]),
         UNCHANGED <<ledgerVars, worldVars, runs>>,
         j.on = job[c].on, j.tok = job[c].tok, j.named = job[c].named, j.result = job[c].result
  PROVE  GateInv'
<1>1. JobInv(job[c], pc[c]) /\ "refuse" \in Labels
  BY CallFacts, LabelFacts DEF Labels
<1>2. JobInv(j, "refuse")
  BY <1>1, LabelFacts
  DEF At, JobInv, Placed, Identified, Authorized, Executing, Reported, Outcomes
<1> QED BY <1>1, <1>2, Arrives, LabelFacts

LEMMA ResolveTokenStep ==
  ASSUME GateInv, NEW c \in Calls, ResolveToken(c)
  PROVE  GateInv'
<1>1. /\ job[c] \in Job /\ pc[c] = "resolve" /\ JobInv(job[c], "resolve") /\ At(c, "resolve")
      /\ UNCHANGED <<ledgerVars, worldVars, runs>>
      /\ proposals[job[c].tok] \in ProposalRow
  BY CallFacts DEF ResolveToken, At
<1>2. CASE /\ Resolution(job[c].tok) = "eligible"
           /\ Goto(c, "script") /\ Set(c, [job[c] EXCEPT !.named = TRUE])
  <2> DEFINE j == [job[c] EXCEPT !.named = TRUE]
  <2>1. /\ j \in Job /\ j.on = job[c].on /\ j.tok = job[c].tok /\ j.named
        /\ j.result = job[c].result /\ "script" \in Labels
    BY <1>1, LabelFacts DEF Job, Labels
  <2>2. proposals[job[c].tok].state # "absent"
    BY <1>1, <1>2 DEF Resolution
  <2> HIDE DEF j
  <2>3. JobInv(j, "script")
    BY <1>1, <2>1, <2>2, LabelFacts
    DEF At, JobInv, Placed, Identified, Authorized, Executing, Reported, Outcomes
  <2> QED BY <1>1, <1>2, <2>1, <2>3, Arrives, LabelFacts DEF j
<1>3. CASE Goto(c, "refuse") /\ UNCHANGED job
  BY <1>1, <1>3, TurnsToRefuse, LabelFacts
<1> QED BY <1>2, <1>3 DEF ResolveToken

LEMMA ReadScriptStep ==
  ASSUME GateInv, NEW c \in Calls, ReadScript(c)
  PROVE  GateInv'
<1> DEFINE j == [job[c] EXCEPT !.bytes = disk]
<1>1. /\ job[c] \in Job /\ pc[c] = "script" /\ JobInv(job[c], "script") /\ At(c, "script")
      /\ Set(c, j) /\ UNCHANGED <<ledgerVars, worldVars, runs>>
      /\ proposals[job[c].tok] \in ProposalRow /\ disk \in Scripts
  BY CallFacts DEF ReadScript, At
<1>2. /\ j \in Job /\ j.on = job[c].on /\ j.tok = job[c].tok /\ j.named = job[c].named
      /\ j.result = job[c].result /\ j.bytes = disk /\ "authorize" \in Labels
  BY <1>1, LabelFacts DEF Job, Labels
<1> HIDE DEF j
<1>3. CASE BindingHolds(c) /\ Goto(c, "authorize")
  <2>1. /\ proposals[j.tok].binding \in Bindings
        /\ disk = ScriptOf[proposals[j.tok].binding]
    BY <1>1, <1>2, <1>3 DEF BindingHolds, ProposalRow
  <2>2. JobInv(j, "authorize")
    BY <1>1, <1>2, <2>1, LabelFacts
    DEF At, JobInv, Placed, Identified, Authorized, Executing, Reported, Outcomes
  <2> QED BY <1>1, <1>2, <1>3, <2>2, Arrives, LabelFacts
<1>4. CASE Goto(c, "refuse")
  BY <1>1, <1>2, <1>4, TurnsToRefuse, LabelFacts
<1> QED BY <1>3, <1>4 DEF ReadScript

LEMMA AuthorizeStep ==
  ASSUME GateInv, NEW c \in Calls, Authorize(c)
  PROVE  GateInv'
<1>1. /\ job[c] \in Job /\ pc[c] = "authorize" /\ JobInv(job[c], "authorize")
      /\ At(c, "authorize") /\ UNCHANGED <<ledgerVars, worldVars, runs>>
      /\ "dispatch" \in Labels /\ "approval" \in Labels
  BY CallFacts, LabelFacts DEF Authorize, At, Labels
<1>2. CASE Goto(c, "refuse") /\ UNCHANGED job
  BY <1>1, <1>2, TurnsToRefuse, LabelFacts
<1>3. CASE /\ proposals[job[c].tok].binding \in config[job[c].on].standing
           /\ Goto(c, "dispatch") /\ Set(c, [job[c] EXCEPT !.path = "standing"])
  <2> DEFINE j == [job[c] EXCEPT !.path = "standing"]
  <2>1. /\ j \in Job /\ j.on = job[c].on /\ j.tok = job[c].tok /\ j.named = job[c].named
        /\ j.result = job[c].result /\ j.bytes = job[c].bytes /\ j.path = "standing"
    BY <1>1 DEF Job
  <2> HIDE DEF j
  <2>2. JobInv(j, "dispatch")
    BY <1>1, <1>3, <2>1, LabelFacts
    DEF At, JobInv, Placed, Identified, Authorized, Executing, Reported, Outcomes
  <2> QED BY <1>1, <1>3, <2>1, <2>2, Arrives, LabelFacts DEF j
<1>4. CASE Goto(c, "approval") /\ UNCHANGED job
  <2>1. JobInv(job[c], "approval")
    BY <1>1, LabelFacts
    DEF At, JobInv, Placed, Identified, Authorized, Executing, Reported, Outcomes
  <2> QED BY <1>1, <1>4, <2>1, Arrives, LabelFacts
<1> QED BY <1>2, <1>3, <1>4 DEF Authorize

LEMMA ReadApprovalStep ==
  ASSUME GateInv, NEW c \in Calls, ReadApproval(c)
  PROVE  GateInv'
<1> DEFINE row == approvals[job[c].tok]
           j == [job[c] EXCEPT !.row = row]
<1>1. /\ job[c] \in Job /\ pc[c] = "approval" /\ JobInv(job[c], "approval")
      /\ At(c, "approval") /\ Set(c, j) /\ UNCHANGED <<ledgerVars, worldVars, runs>>
      /\ row \in ApprovalRow /\ "approvalToken" \in Labels
  BY CallFacts, LabelFacts DEF ReadApproval, At, Labels
<1>2. /\ j \in Job /\ j.on = job[c].on /\ j.tok = job[c].tok /\ j.named = job[c].named
      /\ j.result = job[c].result /\ j.bytes = job[c].bytes
  BY <1>1 DEF Job
<1> HIDE DEF j
<1>3. CASE ApprovalUsable(c, row) /\ Goto(c, "approvalToken")
  <2>1. JobInv(j, "approvalToken")
    BY <1>1, <1>2, <1>3, LabelFacts
    DEF At, JobInv, Placed, Identified, Authorized, ApprovedBy, ApprovalUsable, Executing, Reported,
        Outcomes
  <2> QED BY <1>1, <1>2, <1>3, <2>1, Arrives, LabelFacts
<1>4. CASE Goto(c, "refuse")
  BY <1>1, <1>2, <1>4, TurnsToRefuse, LabelFacts
<1> QED BY <1>3, <1>4 DEF ReadApproval

LEMMA ResolveApprovedStep ==
  ASSUME GateInv, NEW c \in Calls, ResolveApproved(c)
  PROVE  GateInv'
<1>1. /\ job[c] \in Job /\ pc[c] = "approvalToken" /\ JobInv(job[c], "approvalToken")
      /\ At(c, "approvalToken") /\ UNCHANGED <<ledgerVars, worldVars, runs>>
      /\ "dispatch" \in Labels
  BY CallFacts, LabelFacts DEF ResolveApproved, At, Labels
<1>2. CASE Goto(c, "dispatch") /\ Set(c, [job[c] EXCEPT !.path = "proposal-bound"])
  <2> DEFINE j == [job[c] EXCEPT !.path = "proposal-bound"]
  <2>1. /\ j \in Job /\ j.on = job[c].on /\ j.tok = job[c].tok /\ j.named = job[c].named
        /\ j.result = job[c].result /\ j.bytes = job[c].bytes /\ j.path = "proposal-bound"
    BY <1>1 DEF Job
  <2> HIDE DEF j
  <2>2. JobInv(j, "dispatch")
    BY <1>1, <2>1, LabelFacts
    DEF At, JobInv, Placed, Identified, Authorized, Executing, Reported, Outcomes
  <2> QED BY <1>1, <1>2, <2>1, <2>2, Arrives, LabelFacts DEF j
<1>3. CASE Goto(c, "refuse") /\ UNCHANGED job
  BY <1>1, <1>3, TurnsToRefuse, LabelFacts
<1> QED BY <1>2, <1>3 DEF ResolveApproved

LEMMA DispatchRefusedStep ==
  ASSUME GateInv, NEW c \in Calls, DispatchRefused(c)
  PROVE  GateInv'
  BY CallFacts, TurnsToRefuse, LabelFacts DEF DispatchRefused, At

LEMMA StorageErrorStep ==
  ASSUME GateInv, NEW c \in Calls, StorageError(c)
  PROVE  GateInv'
<1> DEFINE j == [job[c] EXCEPT !.result = "raised"]
<1>1. /\ job[c] \in Job /\ pc[c] \in PreDispatch /\ JobInv(job[c], pc[c])
      /\ inst[job[c].on] = "live"
      /\ Goto(c, "ended") /\ Set(c, j) /\ UNCHANGED <<ledgerVars, worldVars, runs>>
      /\ "ended" \in Labels
  BY CallFacts, LabelFacts DEF StorageError, At, Labels
<1>2. /\ j \in Job /\ j.on = job[c].on /\ j.tok = job[c].tok /\ j.named = job[c].named
      /\ j.result = "raised"
  BY <1>1 DEF Job
<1> HIDE DEF j
<1>3. JobInv(j, "ended")
  BY <1>1, <1>2, LabelFacts
  DEF JobInv, Placed, Identified, Authorized, Executing, Reported, Outcomes
<1> QED BY <1>1, <1>2, <1>3, Arrives, LabelFacts

LEMMA ReportStep ==
  ASSUME GateInv, NEW c \in Calls, Report(c)
  PROVE  GateInv'
<1>1. PICK oc \in Outcomes, r \in BOOLEAN :
        /\ Set(c, [job[c] EXCEPT !.outcome = oc, !.raises = r])
        /\ pc[c] = "running" \/ oc # "success"
  BY DEF Report, At, Outcomes
<1> DEFINE j == [job[c] EXCEPT !.outcome = oc, !.raises = r]
<1>2. /\ job[c] \in Job /\ pc[c] \in {"run", "running"} /\ JobInv(job[c], pc[c])
      /\ Goto(c, "record") /\ Set(c, j) /\ UNCHANGED <<ledgerVars, worldVars, runs>>
      /\ "record" \in Labels
  BY <1>1, CallFacts, LabelFacts DEF Report, At, Labels
<1>3. /\ j \in Job /\ j.on = job[c].on /\ j.tok = job[c].tok /\ j.named = job[c].named
      /\ j.result = job[c].result /\ j.bytes = job[c].bytes /\ j.outcome = oc
  BY <1>2 DEF Job
<1> HIDE DEF j
<1>4. JobInv(j, "record")
  BY <1>1, <1>2, <1>3, LabelFacts
  DEF JobInv, Placed, Identified, Authorized, Executing, Reported, Outcomes
<1>5. j.result = "none"
  BY <1>2, <1>3 DEF JobInv, Placed
<1> QED BY <1>2, <1>3, <1>4, <1>5, Arrives, LabelFacts

LEMMA OutcomeLostStep ==
  ASSUME GateInv, NEW c \in Calls, OutcomeLost(c)
  PROVE  GateInv'
<1> DEFINE j == [job[c] EXCEPT !.result = "raised"]
<1>1. /\ job[c] \in Job /\ pc[c] = "record" /\ JobInv(job[c], pc[c])
      /\ Goto(c, "ended") /\ Set(c, j) /\ UNCHANGED <<ledgerVars, worldVars, runs>>
      /\ "ended" \in Labels
  BY CallFacts, LabelFacts DEF OutcomeLost, At, Labels
<1>2. /\ j \in Job /\ j.on = job[c].on /\ j.tok = job[c].tok /\ j.named = job[c].named
      /\ j.result = "raised"
  BY <1>1 DEF Job
<1> HIDE DEF j
<1>3. JobInv(j, "ended")
  BY <1>1, <1>2, LabelFacts
  DEF JobInv, Placed, Identified, Authorized, Executing, Reported, Outcomes
<1> QED BY <1>1, <1>2, <1>3, Arrives, LabelFacts

-----------------------------------------------------------------------------
(* Units of work that start and end no execution.                          *)

(* What one appended event adds to the starts and outcomes of its trail.   *)
LEMMA OneMore ==
  ASSUME TypeOK, NEW p \in Proposals, NEW e \in Event, audit'[p] = Append(audit[p], e)
  PROVE  LET n == Len(audit[p]) + 1
         IN  /\ audit'[p][n] = e
             /\ Starts(p)' = IF e.type = "execution_start" THEN Starts(p) \cup {n} ELSE Starts(p)
             /\ Terminals(p)' = IF e.type = "execution_outcome" /\ e.outcome # "none"
                                THEN Terminals(p) \cup {n} ELSE Terminals(p)
<1>1. audit[p] \in Seq(Event)
  BY DEF TypeOK
<1>2. /\ audit'[p][Len(audit[p]) + 1] = e
      /\ Starts(p)' = Starts(p) \cup (IF e.type = "execution_start" THEN {Len(audit[p]) + 1} ELSE {})
      /\ Terminals(p)' = Terminals(p) \cup
           (IF e.type = "execution_outcome" /\ e.outcome # "none" THEN {Len(audit[p]) + 1} ELSE {})
  BY ONLY <1>1, audit'[p] = Append(audit[p], e), p \in Proposals, e \in Event, Appended
<1> QED BY <1>2

(* An event of another type moves no start and no outcome.                 *)
LEMMA OtherEvent ==
  ASSUME TypeOK, NEW q \in Proposals, NEW e \in Event,
         e.type \notin {"execution_start", "execution_outcome"},
         audit' = [audit EXCEPT ![q] = Append(@, e)]
  PROVE  \A p \in Proposals : Starts(p)' = Starts(p) /\ Terminals(p)' = Terminals(p)
<1> SUFFICES ASSUME NEW p \in Proposals
             PROVE  Starts(p)' = Starts(p) /\ Terminals(p)' = Terminals(p)
  OBVIOUS
<1>1. CASE p = q
  <2>1. audit'[p] = Append(audit[p], e)
    BY <1>1 DEF TypeOK
  <2> QED BY <2>1, OneMore
<1>2. CASE p # q
  <2>1. audit'[p] = audit[p]
    BY <1>2 DEF TypeOK
  <2> QED BY <2>1 DEF Starts, Terminals, Positions
<1> QED BY <1>1, <1>2

LEMMA LedgerOnly ==
  ASSUME GateInv, [Next]_ledgerVars, disk' \in Scripts, UNCHANGED <<inst, config, callVars, runs>>,
         \A p \in Proposals : Starts(p)' = Starts(p) /\ Terminals(p)' = Terminals(p)
  PROVE  GateInv'
<1>1. IInv' /\ GateTypeOK
  BY RowsKept DEF GateInv
<1>2. GateTypeOK' /\ \A c \in Calls : UNCHANGED <<pc[c], job[c]>>
  BY <1>1 DEF GateTypeOK, IInv, callVars
<1> QED BY <1>2, QuietStep

LEMMA ProposeStep ==
  ASSUME GateInv, [Next]_ledgerVars, NEW i \in Owners, NEW p \in Proposals, Propose(i, p)
  PROVE  GateInv'
<1>1. TypeOK /\ disk \in Scripts
  BY DEF GateInv, GateTypeOK
<1>2. \A q \in Proposals : Starts(q)' = Starts(q) /\ Terminals(q)' = Terminals(q)
  <2>1. ProposalEvent \in Event /\ ProposalEvent.type = "proposal"
    BY EventTypes DEF ProposalEvent
  <2> QED BY <1>1, <2>1, OtherEvent DEF Propose, OpenProposal
<1> QED BY <1>1, <1>2, LedgerOnly DEF Propose, worldVars

LEMMA ApproveStep ==
  ASSUME GateInv, [Next]_ledgerVars, NEW i \in Owners, NEW p \in Proposals,
         NEW presented \in Operators, Approve(i, p, presented)
  PROVE  GateInv'
<1>1. UNCHANGED <<audit, disk, inst, config, callVars, runs>> /\ disk \in Scripts
  BY DEF GateInv, GateTypeOK, Approve, RecordApproval, RecordApprovalByProposalId, InsertApproval,
         worldVars
<1>2. \A q \in Proposals : Starts(q)' = Starts(q) /\ Terminals(q)' = Terminals(q)
  BY <1>1 DEF Starts, Terminals, Positions
<1> QED BY <1>1, <1>2, LedgerOnly

LEMMA WorldStep ==
  ASSUME GateInv, [Next]_ledgerVars, EditScript \/ TimePasses \/ UNCHANGED vars
  PROVE  GateInv'
<1>1. UNCHANGED <<audit, inst, config, callVars, runs>> /\ disk' \in Scripts
  BY DEF GateInv, GateTypeOK, EditScript, TimePasses, Tick, vars, ledgerVars, worldVars, callVars
<1>2. \A q \in Proposals : Starts(q)' = Starts(q) /\ Terminals(q)' = Terminals(q)
  BY <1>1 DEF Starts, Terminals, Positions
<1> QED BY <1>1, <1>2, LedgerOnly

LEMMA RefuseStep ==
  ASSUME GateInv, [Next]_ledgerVars, NEW c \in Calls, Refuse(c)
  PROVE  GateInv'
<1> DEFINE j == [job[c] EXCEPT !.result = "refused", !.recorded = TRUE]
<1>1. /\ job[c] \in Job /\ pc[c] = "refuse" /\ JobInv(job[c], "refuse")
      /\ inst[job[c].on] = "live"
      /\ Goto(c, "ended") /\ Set(c, j) /\ UNCHANGED <<worldVars, runs>>
      /\ "ended" \in Labels
  BY CallFacts, LabelFacts DEF Refuse, At, Labels
<1>2. /\ j \in Job /\ j.on = job[c].on /\ j.tok = job[c].tok /\ j.named = job[c].named
      /\ j.result = "refused"
  BY <1>1 DEF Job
<1> HIDE DEF j
<1>3. GateTypeOK /\ IInv' /\ \A p \in Proposals : KeptRow(p)
  BY RowsKept DEF GateInv
<1>4. /\ pc'[c] = "ended" /\ job'[c] = j
      /\ \A d \in Calls \ {c} : UNCHANGED <<pc[d], job[d]>>
      /\ GateTypeOK'
  BY <1>1, <1>2, <1>3, LabelFacts DEF Goto, Set, GateTypeOK, IInv, worldVars
<1>5. \A p \in Proposals : Starts(p)' = Starts(p) /\ Terminals(p)' = Terminals(p)
  <2>1. RefusalEvent \in Event /\ RefusalEvent.type = "refusal"
    BY EventTypes DEF RefusalEvent
  <2>2. CASE AppendEvent(job[c].tok, RefusalEvent)
    BY <1>1, <1>3, <2>1, <2>2, OtherEvent DEF AppendEvent, GateTypeOK, Job
  <2>3. CASE UNCHANGED ledgerVars
    BY <2>3 DEF ledgerVars, Starts, Terminals, Positions
  <2> QED BY <2>2, <2>3 DEF Refuse
<1>6. Stepped(c)
  <2>1. KeptRow(j.tok) /\ j.tok \in Proposals
    BY <1>2, <1>3 DEF Job
  <2>2. CallInv(c)'
    BY <1>1, <1>2, <1>4, <2>1, LabelFacts
    DEF CallInv, JobInv, Placed, Identified, Authorized, Executing, Reported, Outcomes, KeptRow,
        worldVars
  <2> QED BY <1>1, <1>4, <2>2, LabelFacts DEF Stepped, Moves
<1> QED BY <1>1, <1>4, <1>5, <1>6, QuietStep DEF worldVars

-----------------------------------------------------------------------------
(* The steps that start an execution, its side effect, and end it.         *)

(* The one start record of the token, where none stood before.             *)
LEMMA DispatchTrail ==
  ASSUME GateInv, NEW c \in Calls, Dispatch(c), NEW p \in Proposals, p = job[c].tok
  PROVE  /\ proposals[p].state = "active" /\ Starts(p) = {} /\ Terminals(p) = {} /\ runs[p] = <<>>
         /\ \E n : /\ Starts(p)' = {n} /\ Terminals(p)' = {}
                    /\ audit'[p][n] = StartEvent(job[c].on, job[c].path)
         /\ \A q \in Proposals \ {p} : Starts(q)' = Starts(q) /\ Terminals(q)' = Terminals(q)
<1>0. PICK e \in Event : e = StartEvent(job[c].on, job[c].path)
  <2>1. job[c].on \in Owners /\ job[c].path \in {"standing", "proposal-bound"}
    BY CallFacts, LabelFacts DEF Dispatch, At, JobInv, Placed, Authorized
  <2> QED BY <2>1, EventTypes
<1>1. IInv /\ TypeOK /\ RowsInv(p)
  BY DEF GateInv, IInv
<1>2. ConsumeAndStart(p, job[c].on, job[c].path) /\ proposals[p].state = "active"
  BY DEF Dispatch, ConsumeAndStart, ConsumeRow, Eligible
<1>3. Starts(p) = {} /\ Terminals(p) = {} /\ runs[p] = <<>>
  <2>1. Starts(p) = {}
    BY <1>1, <1>2 DEF IInv, StartPairedWithConsumption
  <2> QED BY <1>1, <2>1 DEF IInv, TrailWellFounded, RowsInv
<1>4. /\ audit'[p] = Append(audit[p], e)
      /\ \A q \in Proposals \ {p} : audit'[q] = audit[q]
  BY <1>0, <1>1, <1>2 DEF TypeOK, ConsumeAndStart
<1>5. \E n : Starts(p)' = {n} /\ Terminals(p)' = {} /\ audit'[p][n] = e
  <2>1. e.type = "execution_start"
    BY <1>0 DEF StartEvent
  <2>2. PICK n : n = Len(audit[p]) + 1
    OBVIOUS
  <2>3. /\ audit'[p][n] = e /\ Terminals(p)' = Terminals(p)
        /\ Starts(p)' = Starts(p) \cup {n}
    BY ONLY <1>1, <1>4, <2>1, <2>2, p \in Proposals, e \in Event, OneMore
  <2>4. Starts(p)' = {n} /\ Terminals(p)' = {}
    BY ONLY <1>3, <2>3
  <2> WITNESS n
  <2> QED BY ONLY <2>3, <2>4
<1>6. ASSUME NEW q \in Proposals \ {p}
      PROVE  Starts(q)' = Starts(q) /\ Terminals(q)' = Terminals(q)
  <2>1. audit'[q] = audit[q]
    BY <1>4
  <2> QED BY ONLY <2>1 DEF Starts, Terminals, Positions
<1> QED BY <1>0, <1>2, <1>3, <1>5, <1>6

LEMMA DispatchStep ==
  ASSUME GateInv, [Next]_ledgerVars, NEW c \in Calls, Dispatch(c)
  PROVE  GateInv'
<1>0. PICK j \in Job, p \in Proposals, e \in Event :
        j = job[c] /\ p = job[c].tok /\ e = StartEvent(job[c].on, job[c].path)
  <2>1. job[c].on \in Owners /\ job[c].path \in {"standing", "proposal-bound"}
    BY CallFacts, LabelFacts DEF Dispatch, At, JobInv, Placed, Authorized
  <2> QED BY <2>1, CallFacts, EventTypes
<1>1. /\ j = job[c] /\ p = j.tok /\ pc[c] = "dispatch" /\ JobInv(j, "dispatch")
      /\ inst[j.on] = "live" /\ j.on \in Owners /\ j.path \in {"standing", "proposal-bound"}
      /\ Goto(c, "run") /\ UNCHANGED <<worldVars, job, runs>>
  BY <1>0, CallFacts, LabelFacts DEF Dispatch, At, JobInv, Placed, Authorized
<1>2. /\ GateTypeOK /\ IInv /\ IInv' /\ TypeOK /\ \A q \in Proposals : KeptRow(q)
      /\ \A q \in Proposals : RowsInv(q)
  BY RowsKept DEF GateInv, IInv
<1>3. /\ pc'[c] = "run" /\ UNCHANGED job
      /\ \A d \in Calls \ {c} : UNCHANGED pc[d]
      /\ GateTypeOK'
  BY <1>1, <1>2, LabelFacts DEF Goto, GateTypeOK, IInv, worldVars
<1>4. proposals[p].state = "active" /\ Starts(p) = {} /\ Terminals(p) = {} /\ runs[p] = <<>>
  BY <1>0, DispatchTrail
<1>5. PICK n : Starts(p)' = {n} /\ Terminals(p)' = {} /\ audit'[p][n] = e
  <2>1. p = job[c].tok /\ e = StartEvent(job[c].on, job[c].path)
    BY <1>0
  <2> QED BY ONLY GateInv, c \in Calls, Dispatch(c), p \in Proposals, <2>1, DispatchTrail
<1>6. /\ \A q \in Proposals \ {p} : Starts(q)' = Starts(q) /\ Terminals(q)' = Terminals(q)
      /\ approvals[p].state # "absent" => approvals'[p].state = "used"
  <2>1. \A q \in Proposals \ {p} : Starts(q)' = Starts(q) /\ Terminals(q)' = Terminals(q)
    BY <1>0, DispatchTrail
  <2>2. approvals[p].state # "absent" => approvals'[p].state = "used"
    BY <1>1, <1>2 DEF Dispatch, ConsumeAndStart, SpendApproval, TypeOK, ApprovalRow
  <2> QED BY <2>1, <2>2
<1>7. e.owner = j.on /\ e.path = j.path
  BY <1>0 DEF StartEvent
<1>8. \A d \in Calls : job[d].tok = p => pc[d] \notin PostDispatch
  BY <1>1, <1>4, CallFacts DEF JobInv, Executing, StartedBy
<1>9. ASSUME NEW d \in Calls PROVE CallInv(d)'
  <2>1. CASE d = c
    <3>1. StartedBy(p, j.on)'
      BY <1>5, <1>7 DEF StartedBy
    <3>2. KeptRow(p) /\ proposals[p].state # "absent"
      BY <1>2, <1>4
    <3> QED
      BY <1>1, <1>3, <1>4, <1>5, <2>1, <3>1, <3>2, LabelFacts
      DEF CallInv, JobInv, Placed, Identified, Authorized, Executing, Reported, Outcomes, KeptRow,
          worldVars
  <2>2. CASE d # c
    <3>1. KeptRow(job[d].tok) /\ job[d].tok \in Proposals
      BY <1>2, CallFacts
    <3>2. pc[d] \in PostDispatch => Terminals(job[d].tok)' = {}
      BY <1>3, <1>6, <1>8, <3>1, CallFacts DEF JobInv, Executing
    <3> QED BY <1>1, <1>3, <2>2, <3>1, <3>2, CallKept DEF worldVars
  <2> QED BY <2>1, <2>2
<1>10. \A d \in Calls : Moves(d)
  BY <1>1, <1>3, LabelFacts DEF Moves
<1>11. ASSUME NEW q \in Proposals PROVE RowsInv(q)'
  <2>1. CASE q = p
    <3>1. StartAuthorized(p, e)'
      <4>1. proposals[p].state # "absent" /\ KeptRow(p)
        BY <1>2, <1>4
      <4> QED
        BY <1>1, <1>6, <1>7, <4>1
        DEF StartAuthorized, JobInv, Authorized, ApprovedBy, KeptRow, worldVars
    <3>2. runs'[p] = <<>>
      BY <1>1, <1>4
    <3> QED BY <1>5, <2>1, <3>1, <3>2 DEF RowsInv
  <2>2. CASE q # p
    BY <1>1, <1>2, <1>6, <1>10, <2>2, RowsInvKept DEF RowsInv, worldVars
  <2> QED BY <2>1, <2>2
<1>12. Exclusive'
  BY <1>1, <1>3, <1>8 DEF GateInv, Exclusive
<1> QED BY <1>2, <1>3, <1>9, <1>11, <1>12 DEF GateInv

(* The first side effect of a proposal.                                    *)
LEMMA FirstEffect ==
  ASSUME NEW r, NEW s, s = <<>>
  PROVE  /\ Append(s, r) # <<>> /\ Len(Append(s, r)) = 1
         /\ \A k \in DOMAIN Append(s, r) : Append(s, r)[k] = r
  OBVIOUS

LEMMA StartEffectStep ==
  ASSUME GateInv, [Next]_ledgerVars, NEW c \in Calls, StartEffect(c)
  PROVE  GateInv'
<1>0. PICK j \in Job, p \in Proposals, r \in [call : Calls, bytes : Scripts] :
        j = job[c] /\ p = job[c].tok /\ r = [call |-> c, bytes |-> RunBytes(c)]
  BY CallFacts DEF RunBytes, Job
<1>1. /\ j = job[c] /\ p = j.tok /\ pc[c] = "run" /\ JobInv(j, "run")
      /\ inst[j.on] = "live"
      /\ Goto(c, "running") /\ UNCHANGED <<ledgerVars, worldVars, job>>
      /\ runs' = [runs EXCEPT ![p] = Append(@, r)]
  BY <1>0, CallFacts DEF StartEffect, At
<1>2. /\ GateTypeOK /\ IInv' /\ \A q \in Proposals : KeptRow(q) /\ RowsInv(q)
  BY RowsKept DEF GateInv
<1>3. /\ pc'[c] = "running"
      /\ \A d \in Calls \ {c} : UNCHANGED pc[d]
      /\ runs[p] = <<>>
      /\ runs'[p] = Append(runs[p], r)
      /\ \A q \in Proposals \ {p} : runs'[q] = runs[q]
  BY <1>1, <1>2, LabelFacts DEF Goto, GateTypeOK, JobInv, Executing
<1>4. GateTypeOK'
  <2>1. runs' \in [Proposals -> Seq([call : Calls, bytes : Scripts])]
    <3>1. runs \in [Proposals -> Seq([call : Calls, bytes : Scripts])]
      BY <1>2 DEF GateTypeOK
    <3>2. Append(runs[p], r) \in Seq([call : Calls, bytes : Scripts])
      BY <3>1, SeqAppend
    <3> QED BY <1>1, <3>1, <3>2
  <2>2. pc' \in [Calls -> {"idle"} \cup PreDispatch \cup PostDispatch \cup Ended]
    BY <1>1, <1>2, LabelFacts DEF Goto, GateTypeOK
  <2> QED BY <1>1, <1>2, <2>1, <2>2 DEF GateTypeOK, IInv, worldVars
<1>5. \A q \in Proposals : Starts(q)' = Starts(q) /\ Terminals(q)' = Terminals(q)
  BY <1>1 DEF ledgerVars, Starts, Terminals, Positions
<1>6. \A d \in Calls \ {c} : pc[d] \in PostDispatch => job[d].tok # p
  BY <1>1, LabelFacts DEF GateInv, Exclusive
<1>7. runs'[p] # <<>> /\ Len(runs'[p]) = 1 /\ \A k \in DOMAIN runs'[p] : runs'[p][k] = r
  BY <1>3, FirstEffect
<1>8. \A o : StartedBy(p, o) => StartedBy(p, o)'
  BY <1>2 DEF StartedBy, KeptRow
<1>9. ASSUME NEW d \in Calls PROVE CallInv(d)'
  <2>1. CASE d = c
    <3>1. StartedBy(p, j.on)' /\ Terminals(p)' = {} /\ KeptRow(p)
      BY <1>1, <1>2, <1>5, <1>8, LabelFacts DEF JobInv, Executing
    <3> QED
      BY <1>1, <1>3, <1>7, <2>1, <3>1, LabelFacts
      DEF CallInv, JobInv, Placed, Identified, Authorized, Executing, Reported, Outcomes, KeptRow,
          worldVars
  <2>2. CASE d # c
    <3>1. job[d].tok \in Proposals /\ KeptRow(job[d].tok) /\ JobInv(job[d], pc[d])
      BY <1>2, CallFacts
    <3>2. pc[d] \in PostDispatch => Terminals(job[d].tok)' = {} /\ UNCHANGED runs[job[d].tok]
      BY <1>1, <1>3, <1>5, <1>6, <2>2, <3>1 DEF JobInv, Executing
    <3> QED BY <1>1, <1>3, <2>2, <3>1, <3>2, CallKept DEF worldVars
  <2> QED BY <2>1, <2>2
<1>10. \A d \in Calls : Moves(d)
  BY <1>1, <1>3, LabelFacts DEF Moves
<1>11. ASSUME NEW q \in Proposals PROVE RowsInv(q)'
  <2>1. CASE q = p
    <3>1. EffectOf(p, r)'
      <4>1. /\ r.call = c /\ r.bytes = j.bytes /\ proposals[p].state # "absent" /\ KeptRow(p)
            /\ j.bytes = ScriptOf[proposals[p].binding] /\ j.result = "none" /\ StartedBy(p, j.on)
        BY <1>0, <1>1, <1>2, LabelFacts DEF RunBytes, JobInv, Placed, Identified, Executing
      <4> QED
        BY <1>1, <1>3, <1>8, <4>1, LabelFacts DEF EffectOf, KeptRow
    <3>2. Starts(p)' # {}
      BY <1>1, <1>5, LabelFacts DEF JobInv, Executing, StartedBy
    <3>3. \A i \in Starts(p)' : StartAuthorized(p, audit[p][i])'
      BY <1>1, <1>2, <1>5 DEF RowsInv, StartAuthorized, ledgerVars, worldVars
    <3>4. \A a, b \in Terminals(p)' : a = b
      BY <1>2, <1>5 DEF RowsInv
    <3>5. \A n \in DOMAIN runs'[p] : EffectOf(p, runs[p][n])'
      BY <1>7, <3>1
    <3>6. Len(runs'[p]) <= 1
      BY <1>7
    <3> QED BY <2>1, <3>2, <3>3, <3>4, <3>5, <3>6 DEF RowsInv
  <2>2. CASE q # p
    BY <1>1, <1>2, <1>3, <1>5, <1>10, <2>2, RowsInvKept DEF RowsInv, worldVars
  <2> QED BY <2>1, <2>2
<1>12. Exclusive'
  BY <1>1, <1>3, LabelFacts DEF GateInv, Exclusive
<1> QED BY <1>2, <1>4, <1>9, <1>11, <1>12 DEF GateInv

(* The one outcome record of an execution, where none stood before.        *)
LEMMA OutcomeTrail ==
  ASSUME GateInv, NEW c \in Calls, RecordOutcome(c), NEW p \in Proposals, p = job[c].tok
  PROVE  /\ Terminals(p) = {} /\ StartedBy(p, job[c].on)
         /\ job[c].outcome \in Outcomes
         /\ job[c].outcome = "success" => runs[p] # <<>>
         /\ \E n : Starts(p)' = Starts(p) /\ Terminals(p)' = {n} /\ audit'[p][n].outcome = job[c].outcome
         /\ \A q \in Proposals \ {p} : Starts(q)' = Starts(q) /\ Terminals(q)' = Terminals(q)
<1>1. TypeOK /\ JobInv(job[c], "record")
  BY CallFacts DEF GateInv, IInv, RecordOutcome, At
<1>2. /\ Terminals(p) = {} /\ StartedBy(p, job[c].on)
      /\ job[c].outcome \in Outcomes
      /\ job[c].outcome = "success" => runs[p] # <<>>
  BY <1>1, LabelFacts DEF JobInv, Executing
<1>3. PICK e \in Event : e = OutcomeEvent(job[c].outcome)
  BY <1>2, EventTypes
<1>4. /\ audit'[p] = Append(audit[p], e)
      /\ \A q \in Proposals \ {p} : audit'[q] = audit[q]
  BY <1>1, <1>3 DEF TypeOK, RecordOutcome, AppendEvent
<1>5. \E n : /\ Starts(p)' = Starts(p) /\ Terminals(p)' = {n}
             /\ audit'[p][n].outcome = job[c].outcome
  <2>1. e.type = "execution_outcome" /\ e.outcome = job[c].outcome /\ e.outcome # "none"
    BY <1>2, <1>3 DEF OutcomeEvent, Outcomes
  <2>2. PICK n : n = Len(audit[p]) + 1
    OBVIOUS
  <2>3. /\ audit'[p][n] = e /\ Starts(p)' = Starts(p)
        /\ Terminals(p)' = Terminals(p) \cup {n}
    BY ONLY <1>1, <1>4, <2>1, <2>2, p \in Proposals, e \in Event, OneMore
  <2>4. Terminals(p)' = {n} /\ audit'[p][n].outcome = job[c].outcome
    BY <1>2, <2>1, <2>3
  <2> WITNESS n
  <2> QED BY ONLY <2>3, <2>4
<1>6. ASSUME NEW q \in Proposals \ {p}
      PROVE  Starts(q)' = Starts(q) /\ Terminals(q)' = Terminals(q)
  <2>1. audit'[q] = audit[q]
    BY <1>4
  <2> QED BY ONLY <2>1 DEF Starts, Terminals, Positions
<1> QED BY <1>2, <1>5, <1>6

LEMMA RecordOutcomeStep ==
  ASSUME GateInv, [Next]_ledgerVars, NEW c \in Calls, RecordOutcome(c)
  PROVE  GateInv'
<1>0. PICK j \in Job, k \in Job, p \in Proposals, e \in Event :
        /\ j = job[c] /\ p = job[c].tok /\ e = OutcomeEvent(job[c].outcome)
        /\ k = [job[c] EXCEPT !.result = IF job[c].raises THEN "raised" ELSE job[c].outcome]
  <2>1. job[c].outcome \in Outcomes /\ job[c] \in Job
    BY CallFacts DEF RecordOutcome, At, JobInv, Executing
  <2>2. [job[c] EXCEPT !.result = IF job[c].raises THEN "raised" ELSE job[c].outcome] \in Job
    BY <2>1 DEF Job
  <2> QED BY <2>1, <2>2, CallFacts, EventTypes
<1>1. /\ j = job[c] /\ p = j.tok /\ pc[c] = "record" /\ JobInv(j, "record")
      /\ inst[j.on] = "live" /\ j.outcome \in Outcomes
      /\ k.on = j.on /\ k.tok = p /\ k.named = j.named /\ k.result \in {"raised", j.outcome}
      /\ Goto(c, "ended") /\ Set(c, k) /\ UNCHANGED <<worldVars, runs>>
  <2>1. k.on = j.on /\ k.tok = p /\ k.named = j.named /\ k.result \in {"raised", j.outcome}
    BY <1>0 DEF Job
  <2>2. Set(c, k)
    BY <1>0 DEF RecordOutcome
  <2> QED BY <1>0, <2>1, <2>2, CallFacts DEF RecordOutcome, At, JobInv, Executing
<1>2. /\ GateTypeOK /\ TypeOK /\ IInv' /\ \A q \in Proposals : KeptRow(q) /\ RowsInv(q)
  BY RowsKept DEF GateInv, GateTypeOK
<1>3. /\ pc'[c] = "ended" /\ job'[c] = k
      /\ \A d \in Calls \ {c} : UNCHANGED <<pc[d], job[d]>>
      /\ GateTypeOK'
  BY <1>1, <1>2, LabelFacts DEF Goto, Set, GateTypeOK, IInv, worldVars
<1>4. Terminals(p) = {} /\ StartedBy(p, j.on)
  BY <1>0, <1>1, OutcomeTrail
<1>5. PICK n : Starts(p)' = Starts(p) /\ Terminals(p)' = {n} /\ audit'[p][n].outcome = j.outcome
  BY ONLY GateInv, c \in Calls, RecordOutcome(c), p \in Proposals, <1>0, OutcomeTrail
<1>6. \A q \in Proposals \ {p} : Starts(q)' = Starts(q) /\ Terminals(q)' = Terminals(q)
  BY <1>0, <1>1, OutcomeTrail
<1>7. \A d \in Calls \ {c} : pc[d] \in PostDispatch => job[d].tok # p
  BY <1>1, LabelFacts DEF GateInv, Exclusive
<1>8. ASSUME NEW d \in Calls PROVE CallInv(d)'
  <2>1. CASE d = c
    <3>1. StartedBy(p, j.on)' /\ KeptRow(p)
      BY <1>2, <1>4 DEF StartedBy, KeptRow
    <3>2. Reported(k)'
      BY <1>1, <1>5, <3>1 DEF Reported, Outcomes
    <3> QED
      BY <1>1, <1>3, <2>1, <3>1, <3>2, LabelFacts
      DEF CallInv, JobInv, Placed, Identified, Authorized, Executing, Reported, KeptRow, worldVars
  <2>2. CASE d # c
    <3>1. job[d].tok \in Proposals /\ KeptRow(job[d].tok) /\ JobInv(job[d], pc[d])
      BY <1>2, CallFacts
    <3>2. pc[d] \in PostDispatch => Terminals(job[d].tok)' = {}
      BY <1>3, <1>6, <1>7, <2>2, <3>1 DEF JobInv, Executing
    <3> QED BY <1>1, <1>3, <2>2, <3>1, <3>2, CallKept DEF worldVars
  <2> QED BY <2>1, <2>2
<1>9. \A d \in Calls : Moves(d)
  BY <1>1, <1>3, LabelFacts DEF Moves, Outcomes
<1>10. ASSUME NEW q \in Proposals PROVE RowsInv(q)'
  <2>1. Starts(q)' = Starts(q) /\ \A a, b \in Terminals(q)' : a = b
    BY <1>2, <1>5, <1>6 DEF RowsInv
  <2> QED BY <1>1, <1>2, <1>9, <2>1, RowsInvKept DEF worldVars
<1>11. Exclusive'
  BY <1>1, <1>3, LabelFacts DEF GateInv, Exclusive
<1> QED BY <1>2, <1>3, <1>8, <1>10, <1>11 DEF GateInv

-----------------------------------------------------------------------------
(* Instances.                                                              *)

(* A sweep adds the only outcome of the trails it closes.                  *)
LEMMA SweepTrail ==
  ASSUME GateInv, NEW dead, Reconcile(dead), NEW q \in Proposals
  PROVE  /\ Starts(q)' = Starts(q)
         /\ ~Interrupted(q, dead) => Terminals(q)' = Terminals(q)
         /\ Interrupted(q, dead) =>
              \E n : Terminals(q)' = {n} /\ audit'[q][n].outcome = "unknown"
<1>1. TypeOK
  BY DEF GateInv, IInv
<1>2. CASE ~Interrupted(q, dead)
  BY <1>2 DEF Reconcile, Starts, Terminals, Positions
<1>3. CASE Interrupted(q, dead)
  <2>1. PICK e \in Event : e = RecoveredEvent
    BY EventTypes
  <2>2. /\ e.type = "execution_outcome" /\ e.outcome = "unknown" /\ Terminals(q) = {}
        /\ audit'[q] = Append(audit[q], e)
    BY <1>3, <2>1 DEF RecoveredEvent, Interrupted, Reconcile
  <2>3. PICK n : n = Len(audit[q]) + 1
    OBVIOUS
  <2>4. /\ audit'[q][n] = e /\ Starts(q)' = Starts(q)
        /\ Terminals(q)' = Terminals(q) \cup {n}
    BY ONLY <1>1, <2>2, <2>3, q \in Proposals, e \in Event, OneMore
  <2> QED BY <1>3, <2>2, <2>4
<1> QED BY <1>2, <1>3

(* A sweep closes what has no outcome, and only what no live call runs.    *)
LEMMA BootStep ==
  ASSUME GateInv, [Next]_ledgerVars, NEW i \in Owners, Boot(i)
  PROVE  GateInv'
<1>1. /\ GateTypeOK /\ TypeOK /\ IInv /\ IInv'
      /\ \A q \in Proposals : KeptRow(q) /\ RowsInv(q)
  BY RowsKept DEF GateInv, GateTypeOK
<1>2. /\ inst[i] = "new" /\ inst'[i] = "live"
      /\ \A o \in Owners \ {i} : UNCHANGED <<inst[o], config[o]>>
      /\ UNCHANGED <<disk, pc, job, runs>>
  BY <1>1 DEF Boot, GateTypeOK, callVars
<1>found. PICK found \in SUBSET DeadOwners : Reconcile(found)
  BY DEF Boot
<1>3. GateTypeOK'
  BY <1>1, <1>2 DEF Boot, GateTypeOK, InstanceStates, IInv
<1>4. ASSUME NEW q \in Proposals
      PROVE  /\ Starts(q)' = Starts(q)
             /\ ~Interrupted(q, found) => Terminals(q)' = Terminals(q)
             /\ Interrupted(q, found) => \E n : Terminals(q)' = {n}
  BY <1>found, SweepTrail
<1>5. ASSUME NEW c \in Calls PROVE CallInv(c)'
  <2>1. /\ job[c] \in Job /\ job[c].tok \in Proposals /\ JobInv(job[c], pc[c])
        /\ KeptRow(job[c].tok)
    BY <1>1, CallFacts
  <2>2. pc[c] # "idle" => job[c].on \in Owners \ {i}
    BY <1>2, <2>1 DEF JobInv, Placed
  <2>3. pc[c] \in PostDispatch => ~Interrupted(job[c].tok, found) /\ Terminals(job[c].tok) = {}
    <3> SUFFICES ASSUME pc[c] \in PostDispatch
                 PROVE  ~Interrupted(job[c].tok, found) /\ Terminals(job[c].tok) = {}
      OBVIOUS
    <3>1. /\ StartedBy(job[c].tok, job[c].on) /\ Terminals(job[c].tok) = {}
          /\ inst[job[c].on] = "live"
      BY <2>1, LabelFacts DEF JobInv, Placed, Executing
    <3>2. \A a, b \in Starts(job[c].tok) : a = b
      BY <1>1, <2>1 DEF IInv, StartPairedWithConsumption
    <3> QED BY <1>found, <3>1, <3>2 DEF StartedBy, Interrupted, DeadOwners
  <2>4. pc[c] \in PostDispatch => Terminals(job[c].tok)' = {}
    BY <1>2, <1>4, <2>1, <2>3
  <2> QED BY <1>2, <2>1, <2>2, <2>4, CallKept
<1>6. \A c \in Calls : Moves(c)
  BY <1>2 DEF Moves
<1>7. ASSUME NEW q \in Proposals PROVE RowsInv(q)'
  <2>1. \A a, b \in Terminals(q)' : a = b
    BY <1>1, <1>4 DEF RowsInv
  <2>2. \A o \in Owners : inst[o] # "new" => inst'[o] # "new" /\ UNCHANGED config[o]
    BY <1>2
  <2> QED BY <1>1, <1>2, <1>4, <1>6, <2>1, <2>2, RowsInvKept
<1>8. Exclusive'
  BY <1>2 DEF GateInv, Exclusive
<1> QED BY <1>1, <1>3, <1>5, <1>7, <1>8 DEF GateInv

(* A crash takes the instance's calls with it.                             *)
LEMMA CrashStep ==
  ASSUME GateInv, [Next]_ledgerVars, NEW i \in Owners, Crash(i)
  PROVE  GateInv'
<1>1. GateTypeOK /\ IInv' /\ \A q \in Proposals : KeptRow(q) /\ RowsInv(q)
  BY RowsKept DEF GateInv
<1>2. /\ inst[i] = "live" /\ inst'[i] = "dead"
      /\ \A o \in Owners \ {i} : UNCHANGED inst[o]
      /\ \A c \in Calls : pc'[c] = IF job[c].on = i /\ pc[c] # "ended" THEN "killed" ELSE pc[c]
      /\ UNCHANGED <<ledgerVars, disk, config, job, runs>>
  BY <1>1 DEF Crash, GateTypeOK
<1>3. GateTypeOK'
  BY <1>1, <1>2, LabelFacts DEF Crash, GateTypeOK, InstanceStates, IInv
<1>4. \A q \in Proposals : Starts(q)' = Starts(q) /\ Terminals(q)' = Terminals(q)
  BY <1>2 DEF ledgerVars, Starts, Terminals, Positions
<1>5. ASSUME NEW c \in Calls PROVE CallInv(c)'
  <2>1. /\ job[c] \in Job /\ job[c].tok \in Proposals /\ JobInv(job[c], pc[c])
        /\ KeptRow(job[c].tok)
    BY <1>1, CallFacts
  <2>2. CASE job[c].on = i /\ pc[c] # "ended"
    <3>1. pc'[c] = "killed" /\ job'[c] = job[c] /\ job[c].result = "none"
      BY <1>2, <2>1, <2>2 DEF JobInv, Placed
    <3> QED
      BY <1>2, <2>1, <2>2, <3>1, LabelFacts
      DEF CallInv, JobInv, Placed, Identified, Authorized, Executing, Reported, Outcomes, KeptRow
  <2>3. CASE job[c].on # i
    BY <1>2, <1>4, <2>1, <2>3, CallKept DEF JobInv, Placed, Executing
  <2>4. CASE pc[c] = "ended"
    <3>1. Reported(job[c])'
      BY <1>2, <2>1
      DEF JobInv, Reported, StartedBy, Starts, Terminals, Positions, ledgerVars
    <3> QED
      BY <1>2, <2>1, <2>4, <3>1, LabelFacts
      DEF CallInv, JobInv, Placed, Identified, Authorized, Executing, KeptRow
  <2> QED BY <2>2, <2>3, <2>4
<1>6. \A c \in Calls : Moves(c)
  BY <1>2, LabelFacts DEF Moves
<1>7. ASSUME NEW q \in Proposals PROVE RowsInv(q)'
  <2>1. /\ \A a, b \in Terminals(q)' : a = b
        /\ \A o \in Owners : inst[o] # "new" => inst'[o] # "new" /\ UNCHANGED config[o]
    BY <1>1, <1>2, <1>4 DEF RowsInv
  <2> QED BY <1>1, <1>2, <1>4, <1>6, <2>1, RowsInvKept
<1>8. Exclusive'
  BY <1>2, LabelFacts DEF GateInv, Exclusive
<1> QED BY <1>1, <1>3, <1>5, <1>7, <1>8 DEF GateInv

-----------------------------------------------------------------------------

LEMMA GateInitInv == GateInit => GateInv
<1> SUFFICES ASSUME GateInit PROVE GateInv
  OBVIOUS
<1>1. IInv /\ TypeOK
  BY InitInv DEF GateInit, IInv
<1>2. PICK p \in Proposals : p = CHOOSE q \in Proposals : TRUE
  BY GateAssumption
<1>3. PICK cfg \in Configs : cfg = CHOOSE g \in Configs : TRUE
  BY GateAssumption
<1>4. PICK s \in Scripts : s = CHOOSE t \in Scripts : TRUE
  BY DEF GateInit
<1> DEFINE j == [on |-> NoOwner, tok |-> p, named |-> FALSE, bytes |-> s,
                 row |-> AbsentApproval, path |-> "none", outcome |-> "none",
                 raises |-> FALSE, recorded |-> FALSE, result |-> "none"]
<1>5. j \in Job /\ j.named = FALSE /\ j.result = "none"
  <2>1. AbsentApproval \in ApprovalRow
    BY DEF ApprovalRow, AbsentApproval
  <2> HIDE DEF AbsentApproval
  <2> QED BY <2>1 DEF Job
<1>6. \A c \in Calls : job[c] = j /\ pc[c] = "idle"
  BY <1>2, <1>4 DEF GateInit
<1>7. GateTypeOK
  <2>1. job \in [Calls -> Job]
    BY <1>5, <1>6 DEF GateInit
  <2>2. config \in [Owners -> Configs] /\ inst \in [Owners -> InstanceStates]
    BY <1>3 DEF GateInit, InstanceStates
  <2>3. runs \in [Proposals -> Seq([call : Calls, bytes : Scripts])]
    BY DEF GateInit
  <2> QED BY <1>1, <2>1, <2>2, <2>3 DEF GateInit, GateTypeOK
<1> HIDE DEF j
<1>8. \A c \in Calls : CallInv(c)
  BY <1>5, <1>6, LabelFacts
  DEF CallInv, JobInv, Placed, Identified, Authorized, Executing, Reported, Outcomes
<1>9. ASSUME NEW q \in Proposals PROVE RowsInv(q)
  <2>1. audit[q] = <<>> /\ runs[q] = <<>>
    BY DEF GateInit, Init
  <2>2. Positions(q) = {} /\ DOMAIN runs[q] = {} /\ Len(runs[q]) = 0
    BY <2>1 DEF Positions
  <2> QED BY <2>1, <2>2 DEF RowsInv, Starts, Terminals
<1>10. Exclusive
  BY <1>6, LabelFacts DEF Exclusive
<1> QED BY <1>1, <1>7, <1>8, <1>9, <1>10 DEF GateInv

LEMMA GateNextInv == GateInv /\ [GateNext]_vars => GateInv'
<1> SUFFICES ASSUME GateInv, [GateNext]_vars PROVE GateInv'
  OBVIOUS
<1>1. [Next]_ledgerVars
  BY LedgerStep
<1>2. ASSUME NEW c \in Calls, Advance(c) \/ Fail(c) PROVE GateInv'
  BY <1>1, <1>2, ResolveTokenStep, ReadScriptStep, AuthorizeStep, ReadApprovalStep,
     ResolveApprovedStep, DispatchStep, DispatchRefusedStep, RefuseStep, StartEffectStep, ReportStep,
     RecordOutcomeStep, StorageErrorStep, OutcomeLostStep
  DEF Advance, Fail
<1>3. ASSUME NEW c \in Calls, NEW i \in Owners, NEW p \in Proposals, Call(c, i, p) PROVE GateInv'
  BY <1>3, CallStep
<1>4. ASSUME NEW i \in Owners, Boot(i) \/ Crash(i) PROVE GateInv'
  BY <1>1, <1>4, BootStep, CrashStep
<1>5. ASSUME NEW i \in Owners, NEW p \in Proposals, Propose(i, p) PROVE GateInv'
  BY <1>1, <1>5, ProposeStep
<1>6. ASSUME NEW i \in Owners, NEW p \in Proposals, NEW presented \in Operators,
             Approve(i, p, presented)
      PROVE  GateInv'
  BY <1>1, <1>6, ApproveStep
<1>7. CASE EditScript \/ TimePasses \/ UNCHANGED vars
  BY <1>1, <1>7, WorldStep
<1> QED BY <1>2, <1>3, <1>4, <1>5, <1>6, <1>7 DEF GateNext

(* What each call has established, and what each trail and side effect     *)
(* rests on, holds at every point of every interleaving and crash.         *)
THEOREM GateInvariant == GateSpec => []GateInv
<1> QED BY GateInitInv, GateNextInv, PTL DEF GateSpec

(* Every call and instance is in a known state with data of its type.      *)
THEOREM GateTypes == GateSpec => []GateTypeOK
<1>1. GateInv => GateTypeOK
  BY DEF GateInv
<1> QED BY <1>1, GateInvariant, PTL

(* Issue #34, ADR 0012: at most one side effect for a proposal, under its  *)
(* own start record, on the bound bytes, never of a refused call.          *)
THEOREM EffectsJustified == GateSpec => []EffectJustified
<1>1. GateInv => EffectJustified
  BY DEF GateInv, RowsInv, EffectOf, StartedBy, EffectJustified
<1> QED BY <1>1, GateInvariant, PTL

(* ADR 0003 and 0004: every start record has a real authorization behind   *)
(* it, by the policy or the operator of the instance that dispatched.      *)
THEOREM DispatchesAuthorized == GateSpec => []DispatchAuthorized
<1>1. GateInv => DispatchAuthorized
  BY DEF GateInv, RowsInv, StartAuthorized, DispatchAuthorized
<1> QED BY <1>1, GateInvariant, PTL

(* ADR 0005: an execution has one terminal outcome, although the gate      *)
(* never looks for one before it appends its own.                          *)
THEOREM OutcomesFinal == GateSpec => []OutcomeIsFinal
<1>1. GateInv => OutcomeIsFinal
  BY DEF GateInv, RowsInv, OutcomeIsFinal
<1> QED BY <1>1, GateInvariant, PTL

(* A caller is told the outcome the trail holds, by the instance that      *)
(* started the execution.                                                  *)
THEOREM ResultsMatchTrail == GateSpec => []ResultMatchesTrail
<1>1. GateInv => ResultMatchesTrail
  BY DEF GateInv, CallInv, JobInv, Reported, StartedBy, ResultMatchesTrail
<1> QED BY <1>1, GateInvariant, PTL

(* The processes only ever take the units of work of the ledger.           *)
THEOREM GateImplementsLedger == GateSpec => ImplementsLedger
<1>1. GateInit => Init
  BY DEF GateInit
<1> QED BY <1>1, LedgerStep, GateInvariant, PTL DEF GateSpec, ImplementsLedger

(* So what the ledger guarantees holds of them too: with every start a     *)
(* consumption and its approval spent, a recovery never second, and        *)
(* nothing a later call, crash or sweep takes back.                        *)
THEOREM GateKeepsTheLedger ==
  GateSpec => /\ [](/\ ApprovalSpentWithToken /\ StartPairedWithConsumption
                    /\ TrailWellFounded /\ RecoveryNeverSecond)
              /\ Durable
<1>1. GateInv => /\ ApprovalSpentWithToken /\ StartPairedWithConsumption
                 /\ TrailWellFounded /\ RecoveryNeverSecond
  BY DEF GateInv, IInv
<1>2. GateInv /\ [GateNext]_vars => [DurableStep]_ledgerVars
  BY LedgerStep, StepDurable DEF GateInv
<1> QED BY <1>1, <1>2, GateInvariant, PTL DEF GateSpec, Durable

-----------------------------------------------------------------------------
(* The gate implements ExecutionLifecycle: whatever its calls race with    *)
(* and wherever its instances crash, a proposal goes through one life,     *)
(* seen in the trail and the side effects.  Most steps of the gate are     *)
(* invisible there; the others are one step of one proposal each, but for  *)
(* the sweep of a starting instance, which closes several at once.         *)

(* What the mapping shows of one proposal.                                 *)

Seen(p) ==
  /\ StartCounts[p] = IF Starts(p) = {} THEN 0 ELSE 1
  /\ OutcomeCounts[p] = IF Terminals(p) = {} THEN 0 ELSE 1
  /\ Starts(p) = {} => StartPaths[p] = "none"
  /\ Terminals(p) = {} => FirstOutcomes[p] = "none"
  /\ \A n \in Starts(p) : StartPaths[p] = audit[p][n].path
  /\ \A n \in Terminals(p) : FirstOutcomes[p] = audit[p][n].outcome
  /\ EffectCounts[p] = IF runs[p] = <<>> THEN 0 ELSE 1

IsMap(f) == f = [p \in Proposals |-> f[p]]

Mapping ==
  /\ IsMap(ApprovalStates) /\ IsMap(StartCounts) /\ IsMap(StartPaths) /\ IsMap(EffectCounts)
  /\ IsMap(OutcomeCounts) /\ IsMap(FirstOutcomes)
  /\ \A p \in Proposals : Seen(p)

LEMMA MappingHolds == GateInv => Mapping
<1> SUFFICES ASSUME GateInv PROVE Mapping
  OBVIOUS
<1>0. /\ IsMap(ApprovalStates) /\ IsMap(StartCounts) /\ IsMap(StartPaths) /\ IsMap(EffectCounts)
      /\ IsMap(OutcomeCounts) /\ IsMap(FirstOutcomes)
  BY DEF IsMap, ApprovalStates, StartCounts, StartPaths, EffectCounts, OutcomeCounts, FirstOutcomes
<1> SUFFICES ASSUME NEW p \in Proposals PROVE Seen(p)
  BY <1>0 DEF Mapping
<1>1. IInv /\ TypeOK /\ GateTypeOK /\ RowsInv(p)
  BY DEF GateInv, IInv
<1>2. /\ \A i, j \in Starts(p) : i = j
      /\ \A i, j \in Terminals(p) : i = j
  BY <1>1 DEF IInv, StartPairedWithConsumption, RowsInv
<1>3. Starts(p) \subseteq Nat /\ Terminals(p) \subseteq Nat
  <2>1. audit[p] \in Seq(Event)
    BY <1>1 DEF TypeOK
  <2> QED BY <2>1 DEF Starts, Terminals, Positions
<1>4. ASSUME NEW S \in SUBSET Nat, \A i, j \in S : i = j
      PROVE  /\ Cardinality(S) = IF S = {} THEN 0 ELSE 1
             /\ \A n \in S : First(S) = n
  <2>1. CASE S = {}
    BY <2>1, FS_EmptySet
  <2>2. ASSUME NEW n \in S PROVE Cardinality(S) = 1 /\ First(S) = n
    <3>1. S = {n}
      BY <1>4
    <3>2. First({n}) = n
      BY DEF First
    <3>3. Cardinality({n}) = 1
      BY FS_Singleton
    <3> QED BY ONLY <3>1, <3>2, <3>3
  <2> QED BY <2>1, <2>2
<1>5. Len(runs[p]) = IF runs[p] = <<>> THEN 0 ELSE 1
  <2>1. runs[p] \in Seq([call : Calls, bytes : Scripts]) /\ Len(runs[p]) <= 1
    BY <1>1 DEF RowsInv, GateTypeOK
  <2> QED BY <2>1
<1>6. /\ StartCounts[p] = IF Starts(p) = {} THEN 0 ELSE 1
      /\ OutcomeCounts[p] = IF Terminals(p) = {} THEN 0 ELSE 1
  BY <1>2, <1>3, <1>4 DEF StartCounts, OutcomeCounts
<1>7. /\ Starts(p) = {} => StartPaths[p] = "none"
      /\ \A n \in Starts(p) : StartPaths[p] = audit[p][n].path
  BY <1>2, <1>3, <1>4 DEF StartPaths
<1>8. /\ Terminals(p) = {} => FirstOutcomes[p] = "none"
      /\ \A n \in Terminals(p) : FirstOutcomes[p] = audit[p][n].outcome
  BY <1>2, <1>3, <1>4 DEF FirstOutcomes
<1> QED BY <1>5, <1>6, <1>7, <1>8 DEF Seen, EffectCounts

(* What a step that leaves a trail's starts, or its outcomes, or the side  *)
(* effects of a proposal alone, leaves alone in the mapping.               *)
LEMMA Unseen ==
  ASSUME GateInv, Mapping, Mapping', [Next]_ledgerVars, NEW p \in Proposals
  PROVE  /\ Starts(p)' = Starts(p) => /\ StartCounts'[p] = StartCounts[p]
                                      /\ StartPaths'[p] = StartPaths[p]
         /\ Terminals(p)' = Terminals(p) => /\ OutcomeCounts'[p] = OutcomeCounts[p]
                                            /\ FirstOutcomes'[p] = FirstOutcomes[p]
         /\ runs'[p] = runs[p] => EffectCounts'[p] = EffectCounts[p]
<1>1. Seen(p) /\ Seen(p)' /\ KeptRow(p)
  BY RowsKept DEF Mapping
<1>2. ASSUME Starts(p)' = Starts(p)
      PROVE  StartCounts'[p] = StartCounts[p] /\ StartPaths'[p] = StartPaths[p]
  BY <1>1, <1>2 DEF Seen, KeptRow
<1>3. ASSUME Terminals(p)' = Terminals(p)
      PROVE  OutcomeCounts'[p] = OutcomeCounts[p] /\ FirstOutcomes'[p] = FirstOutcomes[p]
  BY <1>1, <1>3 DEF Seen, KeptRow
<1>4. runs'[p] = runs[p] => EffectCounts'[p] = EffectCounts[p]
  BY <1>1 DEF Seen
<1> QED BY <1>2, <1>3, <1>4

(* The same of every proposal at once.                                     *)
LEMMA Untold ==
  ASSUME GateInv, Mapping, Mapping', [Next]_ledgerVars
  PROVE  /\ (\A p \in Proposals : Starts(p)' = Starts(p)) => UNCHANGED <<StartCounts, StartPaths>>
         /\ (\A p \in Proposals : Terminals(p)' = Terminals(p)) =>
              UNCHANGED <<OutcomeCounts, FirstOutcomes>>
         /\ UNCHANGED runs => UNCHANGED EffectCounts
         /\ UNCHANGED approvals => UNCHANGED ApprovalStates
         /\ UNCHANGED proposals => UNCHANGED OpenProposals
<1>1. ASSUME \A p \in Proposals : Starts(p)' = Starts(p)
      PROVE  UNCHANGED <<StartCounts, StartPaths>>
  BY <1>1, Unseen DEF Mapping, IsMap
<1>2. ASSUME \A p \in Proposals : Terminals(p)' = Terminals(p)
      PROVE  UNCHANGED <<OutcomeCounts, FirstOutcomes>>
  BY <1>2, Unseen DEF Mapping, IsMap
<1>3. UNCHANGED runs => UNCHANGED EffectCounts
  BY Unseen DEF Mapping, IsMap
<1> QED BY <1>1, <1>2, <1>3 DEF ApprovalStates, OpenProposals

-----------------------------------------------------------------------------
(* Each step of the gate, as the lifecycle sees it.                        *)

LEMMA QuietSteps ==
  ASSUME GateInv, Mapping, Mapping', [Next]_ledgerVars, UNCHANGED <<proposals, approvals, runs>>,
         \A p \in Proposals : Starts(p)' = Starts(p) /\ Terminals(p)' = Terminals(p)
  PROVE  UNCHANGED Lifecycle!lifecycleVars
BY Untold DEF Lifecycle!lifecycleVars

LEMMA ProposeImplements ==
  ASSUME GateInv, Mapping, Mapping', [Next]_ledgerVars, NEW i \in Owners, NEW p \in Proposals,
         Propose(i, p)
  PROVE  Lifecycle!Propose(p)
<1>1. TypeOK /\ ProposalEvent \in Event /\ ProposalEvent.type = "proposal"
  BY EventTypes DEF GateInv, IInv, ProposalEvent
<1>2. OpenProposal(p, config[i].catalog) /\ UNCHANGED <<approvals, runs>>
  BY DEF Propose, OpenProposal
<1>3. \A q \in Proposals : Starts(q)' = Starts(q) /\ Terminals(q)' = Terminals(q)
  BY <1>1, <1>2, OtherEvent DEF OpenProposal
<1>4. p \notin OpenProposals /\ OpenProposals' = OpenProposals \cup {p}
  BY <1>1, <1>2 DEF OpenProposal, OpenProposals, TypeOK
<1> QED BY <1>2, <1>3, <1>4, Untold DEF Lifecycle!Propose

LEMMA ApproveImplements ==
  ASSUME GateInv, Mapping, Mapping', [Next]_ledgerVars, NEW i \in Owners, NEW p \in Proposals,
         NEW presented \in Operators, Approve(i, p, presented)
  PROVE  Lifecycle!Approve(p)
<1>1. TypeOK /\ IInv /\ Seen(p)
  BY DEF GateInv, IInv, Mapping
<1>2. proposals[p].state = "active" /\ InsertApproval(p, config[i].operator) /\ UNCHANGED runs
  BY DEF Approve, RecordApproval, RecordApprovalByProposalId, Eligible
<1>3. /\ UNCHANGED <<proposals, audit, runs>>
      /\ approvals[p].state = "absent" /\ approvals'[p].state = "recorded"
      /\ \A q \in Proposals \ {p} : approvals'[q] = approvals[q]
  BY <1>1, <1>2 DEF InsertApproval, TypeOK
<1>4. \A q \in Proposals : Starts(q)' = Starts(q) /\ Terminals(q)' = Terminals(q)
  BY <1>3 DEF Starts, Terminals, Positions
<1>5. p \in OpenProposals /\ StartCounts[p] = 0
  BY <1>1, <1>2 DEF OpenProposals, Seen, IInv, StartPairedWithConsumption
<1>6. ApprovalStates[p] = "none" /\ ApprovalStates' = [ApprovalStates EXCEPT ![p] = "recorded"]
  BY <1>3 DEF ApprovalStates
<1> QED BY <1>3, <1>4, <1>5, <1>6, Untold DEF Lifecycle!Approve

LEMMA EffectImplements ==
  ASSUME GateInv, Mapping, Mapping', [Next]_ledgerVars, NEW c \in Calls, StartEffect(c)
  PROVE  Lifecycle!TakeEffect(job[c].tok)
<1>1. PICK p \in Proposals : p = job[c].tok
  BY CallFacts DEF Job
<1>2. Seen(p) /\ Seen(p)' /\ JobInv(job[c], "run") /\ GateTypeOK
  BY <1>1, CallFacts DEF Mapping, StartEffect, At, GateInv
<1>3. Starts(p) # {} /\ Terminals(p) = {} /\ runs[p] = <<>>
  BY <1>1, <1>2, LabelFacts DEF JobInv, Executing, StartedBy
<1>4. UNCHANGED ledgerVars /\ runs'[p] # <<>> /\ \A q \in Proposals \ {p} : runs'[q] = runs[q]
  <2>1. runs' = [runs EXCEPT ![p] = Append(@, [call |-> c, bytes |-> RunBytes(c)])]
    BY <1>1 DEF StartEffect
  <2>2. runs'[p] = Append(runs[p], [call |-> c, bytes |-> RunBytes(c)])
    BY <1>2, <2>1 DEF GateTypeOK
  <2> QED BY <1>2, <1>3, <2>1, <2>2, FirstEffect DEF GateTypeOK, StartEffect
<1>5. \A q \in Proposals : Starts(q)' = Starts(q) /\ Terminals(q)' = Terminals(q)
  BY <1>4 DEF ledgerVars, Starts, Terminals, Positions
<1>6. Lifecycle!Running(p) /\ EffectCounts[p] = 0 /\ EffectCounts'[p] = 1
  BY <1>2, <1>3, <1>4 DEF Seen, Lifecycle!Running
<1>7. EffectCounts' = [EffectCounts EXCEPT ![p] = 1]
  BY <1>4, <1>6, Unseen DEF Mapping, IsMap
<1> QED BY <1>1, <1>4, <1>5, <1>6, <1>7, Untold DEF Lifecycle!TakeEffect, ledgerVars

LEMMA DispatchImplements ==
  ASSUME GateInv, Mapping, Mapping', [Next]_ledgerVars, NEW c \in Calls, Dispatch(c)
  PROVE  \E p \in Proposals, path \in {"standing", "proposal-bound"} : Lifecycle!Start(p, path)
<1>1. PICK p \in Proposals, path \in {"standing", "proposal-bound"} :
        p = job[c].tok /\ path = job[c].path
  BY CallFacts, LabelFacts DEF Dispatch, At, JobInv, Authorized, Job
<1>2. Seen(p) /\ Seen(p)' /\ TypeOK /\ JobInv(job[c], "dispatch")
  BY CallFacts DEF Mapping, GateInv, IInv, Dispatch, At
<1>3. ConsumeAndStart(p, job[c].on, path) /\ UNCHANGED runs
  BY <1>1 DEF Dispatch
<1>4. proposals[p].state = "active" /\ Starts(p) = {} /\ Terminals(p) = {} /\ runs[p] = <<>>
  BY <1>1, DispatchTrail
<1>5. PICK n : /\ Starts(p)' = {n} /\ Terminals(p)' = {}
               /\ audit'[p][n] = StartEvent(job[c].on, path)
  BY ONLY GateInv, c \in Calls, Dispatch(c), p \in Proposals, <1>1, DispatchTrail
<1>6. \A q \in Proposals \ {p} : Starts(q)' = Starts(q) /\ Terminals(q)' = Terminals(q)
  BY <1>1, DispatchTrail
<1>7. StartCounts[p] = 0 /\ StartCounts'[p] = 1 /\ StartPaths'[p] = path
  BY <1>2, <1>4, <1>5 DEF Seen, StartEvent
<1>8. /\ StartCounts' = [StartCounts EXCEPT ![p] = 1]
      /\ StartPaths' = [StartPaths EXCEPT ![p] = path]
  BY <1>6, <1>7, Unseen DEF Mapping, IsMap
<1>9. UNCHANGED OpenProposals /\ p \in OpenProposals
  <2>1. \A q \in Proposals : proposals'[q].state # "absent" <=> proposals[q].state # "absent"
    BY <1>2, <1>3, <1>4 DEF ConsumeAndStart, ConsumeRow, TypeOK, ProposalRow
  <2> QED BY <1>4, <2>1 DEF OpenProposals
<1>10. UNCHANGED <<OutcomeCounts, FirstOutcomes, EffectCounts>>
  BY <1>3, <1>4, <1>5, <1>6, Untold
<1>11. path = "proposal-bound" => ApprovalStates[p] = "recorded"
  <2>1. approvals[p].state \in {"absent", "recorded", "used"} /\ approvals[p].state # "used"
    BY <1>2, <1>3 DEF ConsumeAndStart, SpendApproval, TypeOK, ApprovalRow
  <2>2. path = "proposal-bound" => approvals[p].state # "absent"
    BY <1>1, <1>2 DEF JobInv, Authorized, ApprovedBy
  <2> QED BY <2>1, <2>2 DEF ApprovalStates
<1>12. ApprovalStates' = [ApprovalStates EXCEPT ![p] = IF @ = "recorded" THEN "used" ELSE @]
  BY <1>2, <1>3 DEF ConsumeAndStart, SpendApproval, ApprovalStates, TypeOK, ApprovalRow
<1>13. Lifecycle!Start(p, path)
  BY <1>7, <1>8, <1>9, <1>10, <1>11, <1>12 DEF Lifecycle!Start
<1> QED BY <1>13

LEMMA OutcomeImplements ==
  ASSUME GateInv, Mapping, Mapping', [Next]_ledgerVars, NEW c \in Calls, RecordOutcome(c)
  PROVE  \E p \in Proposals, oc \in Outcomes : Lifecycle!Close(p, oc)
<1>1. PICK p \in Proposals, oc \in Outcomes : p = job[c].tok /\ oc = job[c].outcome
  BY CallFacts, OutcomeTrail DEF Job
<1>2. Seen(p) /\ Seen(p)'
  BY DEF Mapping
<1>3. /\ Terminals(p) = {} /\ Starts(p) # {}
      /\ oc = "success" => runs[p] # <<>>
      /\ \A q \in Proposals \ {p} : Starts(q)' = Starts(q) /\ Terminals(q)' = Terminals(q)
  BY <1>1, OutcomeTrail DEF StartedBy
<1>4. PICK n : Starts(p)' = Starts(p) /\ Terminals(p)' = {n} /\ audit'[p][n].outcome = oc
  BY ONLY GateInv, c \in Calls, RecordOutcome(c), p \in Proposals, <1>1, OutcomeTrail
<1>5. /\ Lifecycle!Running(p)
      /\ oc = "success" => EffectCounts[p] = 1
      /\ OutcomeCounts'[p] = 1 /\ FirstOutcomes'[p] = oc
  BY <1>2, <1>3, <1>4 DEF Seen, Lifecycle!Running
<1>6. /\ OutcomeCounts' = [OutcomeCounts EXCEPT ![p] = 1]
      /\ FirstOutcomes' = [FirstOutcomes EXCEPT ![p] = oc]
  BY <1>3, <1>5, Unseen DEF Mapping, IsMap
<1>7. UNCHANGED <<OpenProposals, ApprovalStates, StartCounts, StartPaths, EffectCounts>>
  BY <1>3, <1>4, Untold DEF RecordOutcome, AppendEvent
<1>8. Lifecycle!Close(p, oc)
  BY <1>5, <1>6, <1>7 DEF Lifecycle!Close
<1> QED BY <1>8

(* A starting instance closes, with its one sweep, executions that those   *)
(* it found dead left open.                                                *)
LEMMA BootImplements ==
  ASSUME GateInv, Mapping, Mapping', [Next]_ledgerVars, NEW i \in Owners, Boot(i)
  PROVE  \E lost \in SUBSET Proposals : Lifecycle!Recover(lost)
<1>found. PICK found \in SUBSET DeadOwners : Reconcile(found)
  BY DEF Boot
<1> DEFINE lost == {p \in Proposals : Interrupted(p, found)}
<1>1. Reconcile(found) /\ UNCHANGED <<proposals, approvals, runs>>
  BY <1>found DEF Boot, Reconcile
<1>2. ASSUME NEW p \in Proposals
      PROVE  /\ Starts(p)' = Starts(p)
             /\ p \in lost => /\ Lifecycle!Running(p)
                              /\ OutcomeCounts'[p] = 1 /\ FirstOutcomes'[p] = "unknown"
             /\ p \notin lost => /\ OutcomeCounts'[p] = OutcomeCounts[p]
                                 /\ FirstOutcomes'[p] = FirstOutcomes[p]
  <2>1. Seen(p) /\ Seen(p)' /\ Starts(p)' = Starts(p)
    BY <1>1, SweepTrail DEF Mapping
  <2>2. CASE p \in lost
    <3>1. Starts(p) # {} /\ Terminals(p) = {}
      BY <2>2 DEF Interrupted
    <3>2. PICK n : Terminals(p)' = {n} /\ audit'[p][n].outcome = "unknown"
      BY <1>1, <2>2, SweepTrail
    <3> QED BY <2>1, <2>2, <3>1, <3>2 DEF Seen, Lifecycle!Running
  <2>3. CASE p \notin lost
    BY <1>1, <2>1, <2>3, SweepTrail, Unseen
  <2> QED BY <2>1, <2>2, <2>3
<1>3. UNCHANGED <<OpenProposals, ApprovalStates, StartCounts, StartPaths, EffectCounts>>
  BY <1>1, <1>2, Untold
<1> HIDE DEF lost
<1>4. /\ OutcomeCounts' = [p \in Proposals |-> IF p \in lost THEN 1 ELSE OutcomeCounts[p]]
      /\ FirstOutcomes' = [p \in Proposals |-> IF p \in lost THEN "unknown" ELSE FirstOutcomes[p]]
  BY <1>2 DEF Mapping, IsMap
<1>5. Lifecycle!Recover(lost) /\ lost \in SUBSET Proposals
  BY <1>2, <1>3, <1>4 DEF Lifecycle!Recover, lost
<1> QED BY <1>5

-----------------------------------------------------------------------------

LEMMA StepImplements ==
  GateInv /\ Mapping /\ Mapping' /\ [GateNext]_vars => [Lifecycle!Next]_Lifecycle!lifecycleVars
<1> SUFFICES ASSUME GateInv, Mapping, Mapping', [GateNext]_vars
             PROVE  [Lifecycle!Next]_Lifecycle!lifecycleVars
  OBVIOUS
<1>1. [Next]_ledgerVars
  BY LedgerStep
<1>2. ASSUME UNCHANGED <<proposals, approvals, audit, runs>> PROVE UNCHANGED Lifecycle!lifecycleVars
  BY <1>1, <1>2, QuietSteps DEF Starts, Terminals, Positions
<1>3. ASSUME NEW c \in Calls, Refuse(c) PROVE UNCHANGED Lifecycle!lifecycleVars
  <2>1. /\ UNCHANGED <<proposals, approvals, runs>>
        /\ RefusalEvent \in Event /\ RefusalEvent.type = "refusal"
        /\ job[c].tok \in Proposals /\ TypeOK
    BY <1>3, CallFacts, EventTypes DEF Refuse, AppendEvent, ledgerVars, RefusalEvent, Job, GateInv, IInv
  <2>2. \A p \in Proposals : Starts(p)' = Starts(p) /\ Terminals(p)' = Terminals(p)
    <3>1. CASE UNCHANGED ledgerVars
      BY <3>1 DEF ledgerVars, Starts, Terminals, Positions
    <3>2. CASE AppendEvent(job[c].tok, RefusalEvent)
      BY <2>1, <3>2, OtherEvent DEF AppendEvent
    <3> QED BY <1>3, <3>1, <3>2 DEF Refuse
  <2> QED BY <1>1, <2>1, <2>2, QuietSteps
<1>4. ASSUME NEW c \in Calls, Advance(c) \/ Fail(c) PROVE [Lifecycle!Next]_Lifecycle!lifecycleVars
  <2>1. CASE \/ ResolveToken(c) \/ ReadScript(c) \/ Authorize(c) \/ ReadApproval(c)
             \/ ResolveApproved(c) \/ DispatchRefused(c) \/ Report(c) \/ Fail(c)
    BY <1>2, <2>1 DEF ResolveToken, ReadScript, Authorize, ReadApproval, ResolveApproved,
       DispatchRefused, Report, Fail, StorageError, OutcomeLost, ledgerVars
  <2>2. CASE Refuse(c)
    BY <1>3, <2>2
  <2>3. CASE Dispatch(c)
    BY <1>1, <2>3, DispatchImplements DEF Lifecycle!Next
  <2>4. CASE StartEffect(c)
    <3>1. job[c].tok \in Proposals /\ Lifecycle!TakeEffect(job[c].tok)
      BY <1>1, <2>4, CallFacts, EffectImplements DEF Job
    <3> QED BY <3>1 DEF Lifecycle!Next
  <2>5. CASE RecordOutcome(c)
    BY <1>1, <2>5, OutcomeImplements DEF Lifecycle!Next
  <2> QED BY <1>4, <2>1, <2>2, <2>3, <2>4, <2>5 DEF Advance
<1>5. ASSUME NEW i \in Owners, Boot(i) \/ Crash(i) PROVE [Lifecycle!Next]_Lifecycle!lifecycleVars
  <2>1. CASE Boot(i)
    BY <1>1, <2>1, BootImplements DEF Lifecycle!Next
  <2>2. CASE Crash(i)
    BY <1>2, <2>2 DEF Crash, ledgerVars
  <2> QED BY <1>5, <2>1, <2>2
<1>6. ASSUME NEW i \in Owners, NEW p \in Proposals, Propose(i, p)
      PROVE  [Lifecycle!Next]_Lifecycle!lifecycleVars
  BY <1>1, <1>6, ProposeImplements DEF Lifecycle!Next
<1>7. ASSUME NEW i \in Owners, NEW p \in Proposals, NEW presented \in Operators,
             Approve(i, p, presented)
      PROVE  [Lifecycle!Next]_Lifecycle!lifecycleVars
  BY <1>1, <1>7, ApproveImplements DEF Lifecycle!Next
<1>8. ASSUME NEW c \in Calls, NEW i \in Owners, NEW p \in Proposals, Call(c, i, p)
      PROVE  [Lifecycle!Next]_Lifecycle!lifecycleVars
  BY <1>2, <1>8 DEF Call, ledgerVars
<1>9. CASE EditScript \/ TimePasses \/ UNCHANGED vars
  BY <1>2, <1>9 DEF EditScript, TimePasses, Tick, vars, ledgerVars
<1> QED BY <1>4, <1>5, <1>6, <1>7, <1>8, <1>9 DEF GateNext

LEMMA InitImplements == GateInit => Lifecycle!Init
<1> SUFFICES ASSUME GateInit PROVE Lifecycle!Init
  OBVIOUS
<1>1. \A p \in Proposals : /\ proposals[p].state = "absent" /\ approvals[p].state = "absent"
                           /\ audit[p] = <<>> /\ runs[p] = <<>>
  BY DEF GateInit, Init, AbsentProposal, AbsentApproval
<1>2. \A p \in Proposals : Starts(p) = {} /\ Terminals(p) = {}
  <2>1. ASSUME NEW p \in Proposals PROVE Positions(p) = {}
    BY <1>1 DEF Positions
  <2> QED BY <2>1 DEF Starts, Terminals
<1>3. Mapping
  BY GateInitInv, MappingHolds
<1>4. OpenProposals = {} /\ ApprovalStates = [p \in Proposals |-> "none"]
  BY <1>1 DEF OpenProposals, ApprovalStates
<1> QED BY <1>1, <1>2, <1>3, <1>4 DEF Mapping, IsMap, Seen, Lifecycle!Init

(* ADR 0002, 0003 and 0005: for any number of calls and instances, what    *)
(* the trail and the side effects show of each proposal is one lifecycle.  *)
THEOREM GateImplementsLifecycle == GateSpec => ImplementsLifecycle
<1> QED BY MappingHolds, InitImplements, StepImplements, GateInvariant, PTL
        DEF GateSpec, ImplementsLifecycle, Lifecycle!Spec

=============================================================================
