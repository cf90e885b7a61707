--------------------------- MODULE TransportProofs ---------------------------
(***************************************************************************)
(* What the approval transport records and what it may forget, for any     *)
(* proposals and previews, any number of presses, lost calls, storage      *)
(* errors and restarts.                                                    *)
(***************************************************************************)
EXTENDS ApprovalTransport, LedgerProofs, WellFoundedInduction

-----------------------------------------------------------------------------
(* The invariant.                                                          *)

Known(p) == proposals[p].state # "absent"

(* What is delivered, shown or pressed has been opened: nothing pressed    *)
(* once can become eligible only later.                                    *)
ShownAreOpened ==
  /\ \A p \in queue : Known(p)
  /\ sending # Idle => Known(sending.proposal)
  /\ \A p \in Proposals : chat[p] # <<>> => Known(p)
  /\ \A k \in DOMAIN updates : updates[k].from = "operator" => Known(updates[k].proposal)

(* The press of update k is recorded, or it could not be any more.         *)
Settled(k) ==
  LET p == updates[k].proposal
  IN  (updates[k].from = "operator" /\ Eligible(p) /\ proposals[p].binding # NoBinding)
        => approvals[p].state # "absent"

(* Update k lies before the place the poller has reached.                  *)
Passed(k) ==
  \/ k <= confirmed
  \/ k < offset
  \/ batch # <<>> /\ (k < batch[1] \/ (poller = "advance" /\ k = batch[1]))

(* The poller goes through the updates one after the other, and what lies  *)
(* before the place it has reached is settled.                             *)
PollerInOrder ==
  /\ \A i \in DOMAIN batch : batch[i] = batch[1] + i - 1
  /\ \A k \in DOMAIN updates : Passed(k) => Settled(k)

TransportInv ==
  /\ IInv
  /\ TransportTypeOK
  /\ ShownAreOpened
  /\ PollerInOrder
  /\ ApprovalWasPressed

-----------------------------------------------------------------------------

LEMMA TransportInitInv == TransportInit => TransportInv
  <1> SUFFICES ASSUME TransportInit PROVE TransportInv
    OBVIOUS
  <1>1. IInv
    BY InitInv DEF TransportInit
  <1>2. TransportTypeOK
    BY <1>1, TransportAssumption DEF IInv, TransportInit, TransportTypeOK
  <1>3. ShownAreOpened /\ PollerInOrder
    BY DEF TransportInit, ShownAreOpened, PollerInOrder, Passed
  <1>4. ApprovalWasPressed
    BY DEF TransportInit, Init, ApprovalWasPressed, AbsentApproval
  <1>5. QED
    BY <1>1, <1>2, <1>3, <1>4 DEF TransportInv

(* The head of a batch in progress is an update.                           *)
LEMMA HeadIsUpdate ==
  ASSUME TransportTypeOK, poller \in {"decide", "advance"}
  PROVE  /\ Head(batch) = batch[1] /\ batch # <<>> /\ 1 \in DOMAIN batch
         /\ batch[1] \in DOMAIN updates /\ batch[1] \in 1 .. Len(updates)
         /\ updates[batch[1]] \in Update
  BY DEF TransportTypeOK

-----------------------------------------------------------------------------
(* Every step is a unit of work of the ledger or leaves it alone.          *)

LEMMA DecideOnLedger ==
  ASSUME TransportInv, NEW op \in Operators, Decide(op)
  PROVE  [Next]_ledgerVars
  <1>1. updates[Head(batch)].proposal \in Proposals
    BY HeadIsUpdate DEF TransportInv, Decide, Update
  <1>2. QED
    BY <1>1 DEF Decide, Record, Next

LEMMA OthersOnLedger ==
  ASSUME Others
  PROVE  Next
  BY DEF Others, Next

LEMMA OnLedger ==
  ASSUME TransportInv, [TransportNext]_vars
  PROVE  [Next]_ledgerVars /\ clock' >= clock
  <1>1. clock \in Nat
    BY DEF TransportInv, IInv, TypeOK
  <1>2. CASE UNCHANGED ledgerVars
    BY <1>1, <1>2 DEF ledgerVars
  <1>3. CASE Others
    <2>1. MaxTime \in Nat
      BY BoundsAssumption
    <2>2. clock' >= clock
      BY <1>1, <1>3, <2>1 DEF Others, OpenProposal, ConsumeAndStart, Tick, Times
    <2>3. QED
      BY <1>3, <2>2, OthersOnLedger
  <1>4. ASSUME NEW op \in Operators, Decide(op)
        PROVE  [Next]_ledgerVars /\ clock' >= clock
    <2>1. clock' = clock
      BY <1>4 DEF Decide, Record, RecordApprovalByProposalId, InsertApproval, ledgerVars
    <2>2. QED
      BY <1>1, <1>4, <2>1, DecideOnLedger
  <1>5. CASE Notifier \/ Bind \/ Poll \/ Advance \/ Faulty \/ Restart
    BY <1>2, <1>5
    DEF Notifier, Faulty, Scan, SendPart, Begin, Bind, Poll, Advance, SendFails, BindFails,
        PollFails, Hold, ReadFails, Restart
  <1>6. ASSUME NEW p \in Proposals, Press(p)
        PROVE  [Next]_ledgerVars /\ clock' >= clock
    BY <1>2, <1>6 DEF Press
  <1>7. QED
    BY <1>2, <1>3, <1>4, <1>5, <1>6 DEF TransportNext, Poller, vars

(* What a unit of work never takes back: a proposal stays known and bound  *)
(* as it is, its eligibility once lost is lost, an approval stays.         *)
LEMMA LedgerMoves ==
  ASSUME TransportInv, [Next]_ledgerVars, clock' >= clock, NEW p \in Proposals
  PROVE  /\ Known(p) => /\ Known(p)' /\ proposals'[p].binding = proposals[p].binding
                        /\ Eligible(p)' => Eligible(p)
         /\ approvals[p].state # "absent" => approvals'[p].state # "absent"
  <1>1. DurableStep
    BY StepDurable DEF TransportInv
  <1>2. IInv'
    BY NextInv DEF TransportInv
  <1>3. /\ clock \in Nat /\ clock' \in Nat
        /\ proposals[p] \in ProposalRow /\ proposals'[p] \in ProposalRow
        /\ approvals[p] \in ApprovalRow
    BY <1>2 DEF TransportInv, IInv, TypeOK
  <1>4. QED
    BY <1>1, <1>3 DEF DurableStep, Known, Eligible, ProposalRow, ApprovalRow

LEMMA SettledStays ==
  ASSUME TransportInv, [Next]_ledgerVars, clock' >= clock, NEW k \in DOMAIN updates,
         updates'[k] = updates[k], Settled(k)
  PROVE  Settled(k)'
  <1>1. updates[k] \in Update
    BY DEF TransportInv, TransportTypeOK
  <1>2. updates[k].from = "operator" => Known(updates[k].proposal)
    BY DEF TransportInv, ShownAreOpened
  <1>3. QED
    BY <1>1, <1>2, LedgerMoves DEF Settled, Update, Known, Eligible

-----------------------------------------------------------------------------
(* The parts of the invariant, one after the other.                        *)

LEMMA UpdatesKnown ==
  ASSUME TransportInv, NEW k \in DOMAIN updates
  PROVE  updates[k] \in Update /\ updates[k].proposal \in Proposals
  <1>1. updates[k] \in Update
    BY DEF TransportInv, TransportTypeOK
  <1>2. QED
    BY <1>1 DEF Update

(* Appending to the updates loses no type and moves no update.             *)
LEMMA UpdateAppended ==
  ASSUME TransportTypeOK, NEW u \in Update, updates' = Append(updates, u)
  PROVE  /\ updates' \in Seq(Update) /\ Len(updates') = Len(updates) + 1
         /\ \A k \in DOMAIN updates : k \in DOMAIN updates' /\ updates'[k] = updates[k]
         /\ \A k \in DOMAIN updates' : k \in DOMAIN updates \/ updates'[k] = u
         /\ updates'[Len(updates')] = u
  BY DEF TransportTypeOK

LEMMA MessageTyped ==
  ASSUME TransportTypeOK, sending # Idle, Arrives
  PROVE  /\ sending \in [proposal : Proposals, part : Nat, evidence : BOOLEAN]
         /\ chat' \in [Proposals -> Seq(Message)]
         /\ \A p \in Proposals : p # sending.proposal => chat'[p] = chat[p]
  BY DEF TransportTypeOK, Arrives, Message

LEMMA NotifierTypes ==
  ASSUME TransportInv, TypeOK', Notifier \/ SendFails \/ \E p \in Proposals : ReadFails(p)
  PROVE  TransportTypeOK'
  <1>1. TransportTypeOK
    BY DEF TransportInv
  <1>2. UNCHANGED <<updates, confirmed, poller, offset, batch>>
    BY DEF Notifier, Scan, SendPart, Begin, SendFails, ReadFails, pollerVars
  <1>3. faults' \in 0 .. MaxFaults
    <2>1. faults' = faults \/ Fault
      BY DEF Notifier, Scan, SendPart, Begin, SendFails, ReadFails
    <2>2. QED
      BY <1>1, <2>1, TransportAssumption DEF Fault, TransportTypeOK
  <1>4. chat' \in [Proposals -> Seq(Message)]
    BY <1>1, MessageTyped
    DEF Notifier, Scan, SendPart, Begin, SendFails, ReadFails, TransportTypeOK
  <1>5. sent' \subseteq Proposals /\ queue' \subseteq Proposals
    BY <1>1, MessageTyped
    DEF Notifier, Scan, SendPart, Begin, SendFails, ReadFails, TransportTypeOK, Candidates
  <1>6. sending' = Idle \/ sending' \in [proposal : Proposals, part : Nat, evidence : BOOLEAN]
    <2>1. CASE SendPart
      <3>1. sending \in [proposal : Proposals, part : Nat, evidence : BOOLEAN]
        BY <1>1, <2>1, MessageTyped DEF SendPart
      <3>2. sending' = Idle \/ sending' = [sending EXCEPT !.part = @ + 1]
        BY <2>1 DEF SendPart
      <3>3. QED
        BY <3>1, <3>2
    <2>2. ASSUME NEW p \in Proposals, Begin(p)
          PROVE  \/ sending' = Idle
                 \/ sending' \in [proposal : Proposals, part : Nat, evidence : BOOLEAN]
      <3>1. EvidenceFound(p) \in BOOLEAN
        BY DEF EvidenceFound
      <3>2. \/ sending' = sending
            \/ sending' = [proposal |-> p, part |-> 1, evidence |-> EvidenceFound(p)]
        BY <2>2 DEF Begin
      <3>3. CASE sending' = sending
        BY <1>1, <3>3 DEF TransportTypeOK
      <3>4. CASE sending' = [proposal |-> p, part |-> 1, evidence |-> EvidenceFound(p)]
        BY <3>1, <3>4
      <3>5. QED
        BY <3>2, <3>3, <3>4
    <2>3. QED
      BY <1>1, <2>1, <2>2 DEF Notifier, Scan, SendFails, ReadFails, TransportTypeOK
  <1>7. QED
    BY <1>1, <1>2, <1>3, <1>4, <1>5, <1>6 DEF TransportTypeOK

(* The batch a poll returns: the updates above the offset, in order.       *)
LEMMA PollFetches ==
  ASSUME TransportTypeOK, Poll
  PROVE  /\ confirmed' \in 0 .. Len(updates) /\ confirmed' = Forgotten
         /\ batch' \in Seq(1 .. Len(updates))
         /\ \A i \in DOMAIN batch' : batch'[i] = Forgotten + i
         /\ poller' \in {"decide", "advance"} <=> batch' # <<>>
         /\ poller' \in {"poll", "decide"}
  <1>1. Forgotten \in 0 .. Len(updates) /\ Len(updates) \in Nat
    BY DEF TransportTypeOK, Forgotten
  <1>2. batch' \in Seq(1 .. Len(updates))
    BY <1>1 DEF Poll
  <1>3. QED
    BY <1>1, <1>2 DEF Poll

LEMMA PollerTypes ==
  ASSUME TransportInv, TypeOK', Poller \/ BindFails \/ PollFails \/ Hold
  PROVE  TransportTypeOK'
  <1>1. TransportTypeOK
    BY DEF TransportInv
  <1>2. UNCHANGED <<chat, sent, queue, sending, updates>>
    BY DEF Poller, Bind, Poll, Advance, Decide, BindFails, PollFails, Hold, notifierVars
  <1>3. faults' \in 0 .. MaxFaults
    BY <1>1, TransportAssumption
    DEF Poller, Bind, Poll, Advance, Decide, BindFails, PollFails, Hold, Fault, TransportTypeOK
  <1>4. ASSUME NEW op \in Operators, Decide(op)
        PROVE  TransportTypeOK'
    BY <1>1, <1>2, <1>3, <1>4 DEF Decide, TransportTypeOK
  <1>5. CASE Poll
    BY <1>1, <1>2, <1>3, <1>5, PollFetches DEF Poll, TransportTypeOK
  <1>6. CASE Bind \/ BindFails
    BY <1>1, <1>2, <1>3, <1>6 DEF Bind, BindFails, TransportTypeOK
  <1>7. CASE PollFails
    BY <1>1, <1>2, <1>3, <1>7 DEF PollFails, Forgotten, TransportTypeOK
  <1>8. CASE Hold
    BY <1>1, <1>2, <1>3, <1>8 DEF Hold, TransportTypeOK
  <1>9. CASE Advance
    <2>1. batch # <<>> /\ batch[1] \in 1 .. Len(updates) /\ Head(batch) = batch[1]
      BY <1>1, <1>9, HeadIsUpdate DEF Advance
    <2>2. offset' \in 0 .. Len(updates) + 1
      BY <1>1, <1>9, <2>1 DEF Advance, TransportTypeOK
    <2>3. /\ batch' \in Seq(1 .. Len(updates))
          /\ batch' = <<>> <=> Len(batch) = 1
      <3>1. batch \in Seq(1 .. Len(updates)) /\ batch' = Tail(batch)
        BY <1>1, <1>9 DEF Advance, TransportTypeOK
      <3>2. batch' \in Seq(1 .. Len(updates)) /\ Len(batch') = Len(batch) - 1
        BY <2>1, <3>1
      <3>3. batch' = <<>> <=> Len(batch') = 0
        BY <3>2
      <3>4. Len(batch) \in Nat
        BY <3>1
      <3>5. QED
        BY <3>2, <3>3, <3>4
    <2>4. QED
      BY <1>1, <1>2, <1>3, <1>9, <2>2, <2>3 DEF Advance, TransportTypeOK
  <1>10. QED
    BY <1>4, <1>5, <1>6, <1>7, <1>8, <1>9 DEF Poller

LEMMA SurroundingsTypes ==
  ASSUME TransportInv, TypeOK', Restart \/ Others \/ \E p \in Proposals : Press(p)
  PROVE  TransportTypeOK'
  <1>1. TransportTypeOK
    BY DEF TransportInv
  <1>2. CASE Restart
    BY <1>1, <1>2, TransportAssumption DEF Restart, Fault, TransportTypeOK
  <1>3. CASE Others
    BY <1>1, <1>3 DEF Others, TransportTypeOK, notifierVars, pollerVars
  <1>4. ASSUME NEW p \in Proposals, Press(p)
        PROVE  TransportTypeOK'
    <2>1. PICK u \in Update : updates' = Append(updates, u)
      BY <1>4 DEF Press, Update
    <2>2. updates' \in Seq(Update) /\ Len(updates') = Len(updates) + 1 /\ Len(updates) \in Nat
      BY <1>1, <2>1, UpdateAppended DEF TransportTypeOK
    <2>3. batch' \in Seq(1 .. Len(updates'))
      BY <1>1, <1>4, <2>2 DEF Press, TransportTypeOK
    <2>4. QED
      BY <1>1, <1>4, <2>2, <2>3 DEF Press, TransportTypeOK, notifierVars
  <1>5. QED
    BY <1>2, <1>3, <1>4

LEMMA TypesStep ==
  ASSUME TransportInv, TransportNext
  PROVE  TransportTypeOK'
  <1>1. TypeOK'
    BY OnLedger, NextInv DEF TransportInv, IInv
  <1>2. QED
    BY <1>1, NotifierTypes, PollerTypes, SurroundingsTypes DEF TransportNext, Faulty

-----------------------------------------------------------------------------

LEMMA ShownAreOpenedStep ==
  ASSUME TransportInv, TransportNext
  PROVE  ShownAreOpened'
  <1>1. TransportTypeOK /\ ShownAreOpened
    BY DEF TransportInv
  <1>2. [Next]_ledgerVars /\ clock' >= clock
    BY OnLedger
  <1>3. \A p \in Proposals : Known(p) => Known(p)'
    BY <1>2, LedgerMoves
  <1>4. \A p \in queue' : p \in Proposals /\ Known(p)
    BY <1>1
    DEF TransportNext, Notifier, Poller, Faulty, Scan, SendPart, Begin, Bind, Poll, Advance, Decide,
        SendFails, BindFails, PollFails, Hold, ReadFails, Restart, Others, Press, Candidates,
        Eligible, Known, ShownAreOpened, TransportTypeOK, notifierVars
  <1>5. sending' # Idle => sending'.proposal \in Proposals /\ Known(sending'.proposal)
    <2>1. sending # Idle => sending.proposal \in Proposals /\ Known(sending.proposal)
      BY <1>1 DEF ShownAreOpened, TransportTypeOK
    <2>2. CASE SendPart
      <3>1. sending' = Idle \/ sending' = [sending EXCEPT !.part = @ + 1]
        BY <2>2 DEF SendPart
      <3>2. sending \in [proposal : Proposals, part : Nat, evidence : BOOLEAN]
        BY <1>1, <2>2, MessageTyped DEF SendPart
      <3>3. [sending EXCEPT !.part = @ + 1].proposal = sending.proposal
        BY <3>2
      <3>4. QED
        BY <2>1, <2>2, <3>1, <3>3 DEF SendPart
    <2>3. ASSUME NEW p \in Proposals, Begin(p)
          PROVE  sending' # Idle => sending'.proposal \in Proposals /\ Known(sending'.proposal)
      <3>1. \/ sending' = sending
            \/ sending' = [proposal |-> p, part |-> 1, evidence |-> EvidenceFound(p)]
        BY <2>3 DEF Begin
      <3>2. Known(p)
        BY <1>1, <2>3 DEF Begin, ShownAreOpened
      <3>3. QED
        BY <2>1, <3>1, <3>2
    <2>4. CASE sending' = sending \/ sending' = Idle
      BY <2>1, <2>4
    <2>5. QED
      BY <2>2, <2>3, <2>4
      DEF TransportNext, Notifier, Poller, Faulty, Scan, Bind, Poll, Advance, Decide,
          SendFails, BindFails, PollFails, Hold, ReadFails, Restart, Others, Press, notifierVars
  <1>6. \A p \in Proposals : chat'[p] # <<>> => Known(p)
    <2>1. CASE chat' = chat
      BY <1>1, <2>1 DEF ShownAreOpened
    <2>2. CASE sending # Idle /\ Arrives
      BY <1>1, <2>2, MessageTyped DEF ShownAreOpened
    <2>3. QED
      BY <2>1, <2>2
      DEF TransportNext, Notifier, Poller, Faulty, Scan, SendPart, Begin, Bind, Poll, Advance,
          Decide, SendFails, BindFails, PollFails, Hold, ReadFails, Restart, Others, Press,
          notifierVars
  <1>7. \A k \in DOMAIN updates' : updates'[k].from = "operator" =>
          updates'[k].proposal \in Proposals /\ Known(updates'[k].proposal)
    <2>1. CASE updates' = updates
      BY <1>1, <2>1, UpdatesKnown DEF ShownAreOpened
    <2>2. ASSUME NEW p \in Proposals, Press(p)
          PROVE  \A k \in DOMAIN updates' : updates'[k].from = "operator" =>
                   updates'[k].proposal \in Proposals /\ Known(updates'[k].proposal)
      <3>1. PICK u \in Update : /\ updates' = Append(updates, u) /\ u.proposal = p
                                /\ u.from = "operator" => HasButton(p)
        BY <2>2 DEF Press, Update
      <3>2. HasButton(p) => chat[p] # <<>>
        BY DEF HasButton
      <3>3. u.from = "operator" => Known(p)
        BY <1>1, <3>1, <3>2 DEF ShownAreOpened
      <3>4. QED
        BY <1>1, <3>1, <3>3, UpdateAppended, UpdatesKnown DEF ShownAreOpened
    <2>3. QED
      BY <2>1, <2>2
      DEF TransportNext, Notifier, Poller, Faulty, Scan, SendPart, Begin, Bind, Poll, Advance,
          Decide, SendFails, BindFails, PollFails, Hold, ReadFails, Restart, Others, pollerVars
  <1>8. QED
    BY <1>3, <1>4, <1>5, <1>6, <1>7, TypesStep DEF ShownAreOpened, Known

-----------------------------------------------------------------------------
(* The poller settles what it passes.                                      *)

(* The operator's press that is decided is recorded, or refused for good.  *)
LEMMA DecideSettles ==
  ASSUME TransportInv, NEW op \in Operators, Decide(op)
  PROVE  Settled(batch[1])'
  <1>1. /\ Head(batch) = batch[1] /\ batch[1] \in DOMAIN updates /\ updates[batch[1]] \in Update
    BY HeadIsUpdate DEF TransportInv, Decide
  <1>2. PICK p \in Proposals : p = updates[batch[1]].proposal
    BY <1>1 DEF Update
  <1>3. updates' = updates /\ batch' = batch
    BY DEF Decide
  <1>4. updates[batch[1]].from = "operator" => Record(p, op)
    BY <1>1, <1>2 DEF Decide, Accepts
  <1>5. approvals \in [Proposals -> ApprovalRow]
    BY DEF TransportInv, IInv, TypeOK
  <1>6. ASSUME Record(p, op), Eligible(p)', proposals'[p].binding # NoBinding
        PROVE  approvals'[p].state # "absent"
    <2>1. clock' = clock /\ proposals' = proposals
      BY <1>6 DEF Record, RecordApprovalByProposalId, InsertApproval, ledgerVars
    <2>2. Eligible(p) /\ proposals[p].binding # NoBinding
      BY <1>6, <2>1 DEF Eligible
    <2>3. CASE approvals[p].state = "absent"
      BY <1>5, <1>6, <2>2, <2>3 DEF Record, RecordApprovalByProposalId, InsertApproval
    <2>4. CASE approvals[p].state # "absent"
      BY <1>6, <2>4 DEF Record, ledgerVars
    <2>5. QED
      BY <2>3, <2>4
  <1>7. QED
    BY <1>2, <1>3, <1>4, <1>6 DEF Settled, Eligible

(* What has been passed after a step had been passed before it, or is the  *)
(* update just decided.                                                    *)
LEMMA PassedStep ==
  ASSUME TransportInv, TransportNext
  PROVE  /\ \A i \in DOMAIN batch' : batch'[i] = batch'[1] + i - 1
         /\ \A k \in DOMAIN updates' : Passed(k)' =>
              \/ k \in DOMAIN updates /\ updates'[k] = updates[k] /\ Passed(k)
              \/ k = batch[1] /\ \E op \in Operators : Decide(op)
  <1> DEFINE InOrder == \A i \in DOMAIN batch' : batch'[i] = batch'[1] + i - 1
             Before  == \A k \in DOMAIN updates' : Passed(k)' =>
                          \/ k \in DOMAIN updates /\ updates'[k] = updates[k] /\ Passed(k)
                          \/ k = batch[1] /\ \E op \in Operators : Decide(op)
  <1>1. TransportTypeOK /\ \A i \in DOMAIN batch : batch[i] = batch[1] + i - 1
    BY DEF TransportInv, PollerInOrder
  <1>2. Len(updates) \in Nat /\ DOMAIN updates = 1 .. Len(updates)
        /\ confirmed \in Nat /\ offset \in Nat /\ batch \in Seq(1 .. Len(updates))
    BY <1>1 DEF TransportTypeOK
  <1>3. CASE UNCHANGED <<updates, confirmed, poller, offset, batch>>
    BY <1>1, <1>3 DEF Passed
  <1>4. CASE Bind \/ BindFails
    BY <1>1, <1>4 DEF Bind, BindFails, Passed, TransportTypeOK
  <1>5. CASE Poll
    <2>1. updates' = updates /\ offset' = offset
      BY <1>5 DEF Poll
    <2>2. \A i \in DOMAIN batch' : batch'[i] = Forgotten + i
      BY <1>1, <1>5, PollFetches
    <2>3. batch' # <<>> => 1 \in DOMAIN batch'
      BY <1>1, <1>5, PollFetches
    <2>4. Forgotten \in Nat /\ \A k \in 1 .. Forgotten : k <= confirmed \/ k < offset
      BY <1>2 DEF Forgotten
    <2>5. InOrder
      BY <2>2, <2>3, <2>4, <1>1, <1>5, PollFetches
    <2>6. ASSUME NEW k \in DOMAIN updates, Passed(k)'
          PROVE  Passed(k)
      <3>1. poller' # "advance" /\ confirmed' = Forgotten
        BY <1>1, <1>5, PollFetches
      <3>2. batch' # <<>> => batch'[1] = Forgotten + 1
        BY <2>2, <2>3
      <3>3. k <= Forgotten \/ k < offset
        BY <1>2, <2>1, <2>4, <2>6, <3>1, <3>2 DEF Passed
      <3>4. QED
        BY <1>2, <2>4, <3>3 DEF Passed
    <2>7. QED
      BY <2>1, <2>5, <2>6
  <1>6. CASE PollFails
    <2>1. Forgotten \in Nat /\ \A k \in 1 .. Forgotten : k <= confirmed \/ k < offset
      BY <1>2 DEF Forgotten
    <2>2. UNCHANGED <<updates, poller, offset, batch>> /\ confirmed' \in {confirmed, Forgotten}
      BY <1>6 DEF PollFails
    <2>3. ASSUME NEW k \in DOMAIN updates, Passed(k)'
          PROVE  Passed(k)
      <3>1. k \in Nat /\ (k <= confirmed' => k <= confirmed \/ k < offset)
        BY <1>2, <2>1, <2>2
      <3>2. QED
        BY <2>2, <2>3, <3>1 DEF Passed
    <2>4. QED
      BY <1>1, <2>2, <2>3
  <1>7. ASSUME NEW op \in Operators, Decide(op)
        PROVE  InOrder /\ Before
    BY <1>1, <1>7 DEF Decide, Passed
  <1>8. CASE Hold \/ Restart
    <2>1. batch' = <<>> /\ updates' = updates /\ confirmed' = confirmed /\ offset' \in {0, offset}
      BY <1>8 DEF Hold, Restart
    <2>2. QED
      BY <1>2, <2>1 DEF Passed
  <1>9. CASE Advance
    <2>1. /\ batch # <<>> /\ Head(batch) = batch[1] /\ batch[1] \in Nat
          /\ poller = "advance" /\ 1 \in DOMAIN batch
      BY <1>1, <1>9, HeadIsUpdate DEF Advance
    <2>2. batch' = Tail(batch) /\ updates' = updates /\ confirmed' = confirmed
          /\ offset' = batch[1] + 1
      BY <1>9, <2>1 DEF Advance
    <2>3. \A i \in DOMAIN batch' : batch'[i] = batch[1] + i
      <3>1. ASSUME NEW i \in DOMAIN batch'
            PROVE  i \in Nat /\ i + 1 \in DOMAIN batch /\ batch'[i] = batch[i + 1]
        BY <1>2, <2>1, <2>2
      <3>2. \A i \in DOMAIN batch' : batch[i + 1] = batch[1] + (i + 1) - 1
        BY <1>1, <3>1
      <3>3. QED
        BY <2>1, <3>1, <3>2
    <2>4. batch' # <<>> => 1 \in DOMAIN batch'
      BY <1>2, <2>1, <2>2
    <2>5. InOrder
      <3>1. ASSUME NEW i \in DOMAIN batch'
            PROVE  batch'[i] = batch'[1] + i - 1
        <4>1. i \in Nat /\ 1 \in DOMAIN batch'
          BY <1>2, <2>1, <2>2
        <4>2. batch'[i] = batch[1] + i /\ batch'[1] = batch[1] + 1
          BY <2>3, <4>1
        <4>3. QED
          BY <2>1, <4>1, <4>2
      <3>2. QED
        BY <3>1
    <2>6. poller' # "advance"
      BY <1>9 DEF Advance
    <2>7. ASSUME NEW k \in DOMAIN updates, Passed(k)'
          PROVE  Passed(k)
      <3>1. batch' # <<>> => batch'[1] = batch[1] + 1
        BY <2>3, <2>4
      <3>2. k <= confirmed \/ k < batch[1] + 1
        BY <2>2, <2>6, <2>7, <3>1 DEF Passed
      <3>3. k \in Nat /\ (k < batch[1] + 1 => k < batch[1] \/ k = batch[1])
        BY <1>2, <2>1
      <3>4. QED
        BY <2>1, <3>2, <3>3 DEF Passed
    <2>8. QED
      BY <2>2, <2>5, <2>7
  <1>10. ASSUME NEW p \in Proposals, Press(p)
         PROVE  InOrder /\ Before
    <2>1. PICK u \in Update : updates' = Append(updates, u)
      BY <1>10 DEF Press, Update
    <2>2. UNCHANGED <<confirmed, poller, offset, batch>>
      BY <1>10 DEF Press
    <2>3. \A k \in DOMAIN updates : updates'[k] = updates[k]
      BY <1>1, <2>1, UpdateAppended
    <2>4. ASSUME NEW k \in DOMAIN updates', Passed(k)
          PROVE  k \in DOMAIN updates
      <3>1. k \in 1 .. Len(updates) + 1 /\ Len(updates') = Len(updates) + 1
        BY <1>1, <2>1, UpdateAppended
      <3>2. /\ confirmed <= Len(updates) /\ offset <= Len(updates) + 1
            /\ batch # <<>> => batch[1] \in 1 .. Len(updates)
        <4>1. confirmed <= Len(updates) /\ offset <= Len(updates) + 1
          BY <1>1 DEF TransportTypeOK
        <4>2. batch # <<>> => poller \in {"decide", "advance"}
          BY <1>1 DEF TransportTypeOK
        <4>3. QED
          BY <1>1, <4>1, <4>2, HeadIsUpdate
      <3>3. k <= confirmed \/ k < offset \/ (batch # <<>> /\ k <= batch[1])
        <4>1. k \in Nat /\ (batch # <<>> => batch[1] \in Nat)
          BY <3>1, <3>2
        <4>2. QED
          BY ONLY <2>4, <4>1 DEF Passed
      <3>4. k <= Len(updates)
        BY <1>2, <3>1, <3>2, <3>3
      <3>5. QED
        BY <1>2, <3>1, <3>4
    <2>5. QED
      BY <1>1, <2>2, <2>3, <2>4 DEF Passed
  <1>11. QED
    BY <1>3, <1>4, <1>5, <1>6, <1>7, <1>8, <1>9, <1>10
    DEF TransportNext, Notifier, Poller, Faulty, Scan, SendPart, Begin, SendFails, ReadFails,
        Others, pollerVars

LEMMA PollerInOrderStep ==
  ASSUME TransportInv, TransportNext
  PROVE  PollerInOrder'
  <1>1. [Next]_ledgerVars /\ clock' >= clock
    BY OnLedger
  <1>2. ASSUME NEW k \in DOMAIN updates', Passed(k)'
        PROVE  Settled(k)'
    <2>1. CASE k \in DOMAIN updates /\ updates'[k] = updates[k] /\ Passed(k)
      <3>1. Settled(k)
        BY <2>1 DEF TransportInv, PollerInOrder, Passed
      <3>2. QED
        BY <1>1, <2>1, <3>1, SettledStays
    <2>2. CASE k = batch[1] /\ \E op \in Operators : Decide(op)
      BY <2>2, DecideSettles DEF Decide, Settled
    <2>3. QED
      BY <1>2, <2>1, <2>2, PassedStep
  <1>3. QED
    BY <1>2, PassedStep DEF PollerInOrder, Passed

-----------------------------------------------------------------------------
(* An approval that was not there is the poller's, of the operator's press. *)

LEMMA PressedStep ==
  ASSUME TransportInv, TransportNext
  PROVE  ApprovalWasPressed'
  <1>1. ApprovalWasPressed /\ TransportTypeOK /\ approvals \in [Proposals -> ApprovalRow]
    BY DEF TransportInv, IInv, TypeOK
  <1>2. \A k \in DOMAIN updates : k \in DOMAIN updates' /\ updates'[k] = updates[k]
    <2>1. ASSUME NEW p \in Proposals, Press(p)
          PROVE  \A k \in DOMAIN updates : k \in DOMAIN updates' /\ updates'[k] = updates[k]
      <3>1. PICK u \in Update : updates' = Append(updates, u)
        BY <2>1 DEF Press, Update
      <3>2. QED
        BY <1>1, <3>1, UpdateAppended
    <2>2. QED
      BY <2>1
      DEF TransportNext, Notifier, Poller, Faulty, Scan, SendPart, Begin, Bind, Poll, Advance,
          Decide, SendFails, BindFails, PollFails, Hold, ReadFails, Restart, Others, pollerVars
  <1>3. ASSUME NEW p \in Proposals, approvals[p].state = "absent", approvals'[p].state # "absent"
        PROVE  \E k \in DOMAIN updates : updates[k].proposal = p /\ updates[k].from = "operator"
    <2>1. CASE Others
      BY <1>1, <1>3, <2>1
      DEF Others, OpenProposal, ConsumeAndStart, SpendApproval, Tick
    <2>2. ASSUME NEW op \in Operators, Decide(op)
          PROVE  updates[batch[1]].proposal = p /\ updates[batch[1]].from = "operator"
                 /\ batch[1] \in DOMAIN updates
      <3>1. Head(batch) = batch[1] /\ batch[1] \in DOMAIN updates
        BY <1>1, <2>2, HeadIsUpdate DEF Decide
      <3>2. Accepts(updates[batch[1]]) /\ Record(updates[batch[1]].proposal, op)
        BY <1>3, <2>2, <3>1 DEF Decide, ledgerVars
      <3>3. approvals'[p] = approvals[p] \/ updates[batch[1]].proposal = p
        BY <1>1, <3>2 DEF Record, RecordApprovalByProposalId, InsertApproval, ledgerVars
      <3>4. QED
        BY <1>3, <3>1, <3>2, <3>3 DEF Accepts
    <2>3. CASE UNCHANGED ledgerVars
      BY <1>3, <2>3 DEF ledgerVars
    <2>4. QED
      BY <2>1, <2>2, <2>3
      DEF TransportNext, Notifier, Poller, Faulty, Scan, SendPart, Begin, Bind, Poll, Advance,
          SendFails, BindFails, PollFails, Hold, ReadFails, Restart, Press
  <1>4. QED
    BY <1>1, <1>2, <1>3 DEF ApprovalWasPressed

-----------------------------------------------------------------------------

LEMMA TransportNextInv == TransportInv /\ [TransportNext]_vars => TransportInv'
  <1>1. ASSUME TransportInv, TransportNext
        PROVE  TransportInv'
    <2>1. IInv'
      BY <1>1, OnLedger, NextInv DEF TransportInv
    <2>2. QED
      BY <1>1, <2>1, TypesStep, ShownAreOpenedStep, PollerInOrderStep, PressedStep
      DEF TransportInv
  <1>2. ASSUME TransportInv, UNCHANGED vars
        PROVE  TransportInv'
    <2>1. IInv'
      BY <1>2, NextInv DEF TransportInv, vars
    <2>2. QED
      BY <1>2, <2>1
      DEF TransportInv, TransportTypeOK, IInv, ShownAreOpened, PollerInOrder, ApprovalWasPressed,
          Passed, Known, Settled, Eligible, vars, ledgerVars, notifierVars, pollerVars
  <1>3. QED
    BY <1>1, <1>2

(* The invariant holds in every state of the transport and its chat.       *)
THEOREM TransportInvariant == TransportSpec => []TransportInv
  <1>1. QED
    BY TransportInitInv, TransportNextInv, PTL DEF TransportSpec

(* The state of both threads, of the chat and of the updates is typed.     *)
THEOREM TransportTypes == TransportSpec => []TransportTypeOK
  <1>1. TransportInv => TransportTypeOK
    BY DEF TransportInv
  <1>2. QED
    BY <1>1, TransportInvariant, PTL

(* Every approval this transport records stands for a press by the         *)
(* operator: nobody else's callback, and no redelivery, makes one.         *)
THEOREM ApprovalsPressed == TransportSpec => []ApprovalWasPressed
  <1>1. TransportInv => ApprovalWasPressed
    BY DEF TransportInv
  <1>2. QED
    BY <1>1, TransportInvariant, PTL

(* Telegram is never told to forget a press that could still be recorded:  *)
(* lost responses, held batches and restarts only ever ask for more.       *)
THEOREM PressesKept == TransportSpec => []NoPressSkipped
  <1>1. TransportInv => NoPressSkipped
    <2>1. ASSUME TransportInv, NEW k \in 1 .. confirmed
          PROVE  k \in DOMAIN updates /\ k <= confirmed
      BY <2>1 DEF TransportInv, TransportTypeOK
    <2>2. QED
      BY <2>1 DEF TransportInv, PollerInOrder, Passed, NoPressSkipped, Settled
  <1>2. QED
    BY <1>1, TransportInvariant, PTL

(* Every step of the transport is a unit of work of the ledger or none.    *)
THEOREM TransportImplementsLedger == TransportSpec => ImplementsLedger
  <1>1. TransportInit => Init
    BY DEF TransportInit
  <1>2. TransportInv /\ [TransportNext]_vars => [Next]_ledgerVars
    BY OnLedger
  <1>3. QED
    BY <1>1, <1>2, TransportInvariant, PTL DEF TransportSpec, ImplementsLedger

(* So what the ledger guarantees holds of the approvals recorded from the  *)
(* chat as well: none is spent without its token, and none is unmade by a  *)
(* press, a redelivery or a restart.                                       *)
THEOREM TransportKeepsTheLedger ==
  TransportSpec => /\ [](/\ ApprovalSpentWithToken /\ StartPairedWithConsumption
                         /\ TrailWellFounded /\ RecoveryNeverSecond)
                   /\ Durable
  <1>1. TransportInv => /\ ApprovalSpentWithToken /\ StartPairedWithConsumption
                        /\ TrailWellFounded /\ RecoveryNeverSecond
    BY DEF TransportInv, IInv
  <1>2. TransportInv /\ [TransportNext]_vars => [DurableStep]_ledgerVars
    BY OnLedger, StepDurable DEF TransportInv
  <1>3. QED
    BY <1>1, <1>2, TransportInvariant, PTL DEF TransportSpec, Durable

-----------------------------------------------------------------------------
(* How build_preview_parts cuts a text of any length: induction over the   *)
(* part still to be cut, which a recursive function and a least            *)
(* counterexample make possible without an operator for the induction      *)
(* hypothesis.                                                             *)
LEMMA NatSetInduction ==
  ASSUME NEW T, 0 \in T, \A n \in Nat : n \in T => n + 1 \in T
  PROVE  Nat \subseteq T
  <1>1. SUFFICES ASSUME Nat \ T # {} PROVE FALSE
    OBVIOUS
  <1>2. PICK n \in Nat \ T : \A m \in Nat \ T : <<m, n>> \notin OpToRel(<, Nat)
    BY <1>1, NatLessThanWellFounded, WFMin
  <1>3. n \in Nat /\ n # 0 /\ n \notin T
    OBVIOUS
  <1>4. n - 1 \in Nat /\ n - 1 < n /\ (n - 1) + 1 = n
    BY <1>3
  <1>5. n - 1 \notin T
    BY <1>3, <1>4
  <1>6. <<n - 1, n>> \in OpToRel(<, Nat)
    BY <1>3, <1>4 DEF OpToRel
  <1>7. QED
    BY <1>2, <1>4, <1>5, <1>6

(* One step of the recursion of PartsOf.                                   *)
Rest(f, from, L) == IF from = L THEN <<>>
                    ELSE <<[from |-> from, to |-> Cut(from, L)]>> \o f[Cut(from, L)]

(* A slice is neither empty nor too long, and stays inside the text.       *)
LEMMA CutFacts ==
  ASSUME NEW L \in Nat, NEW from \in 0 .. L, from # L
  PROVE  /\ Cut(from, L) \in Nat /\ from < Cut(from, L) /\ Cut(from, L) <= L
         /\ Cut(from, L) - from <= PartLimit
  BY TransportAssumption DEF Cut

(* The recursion has a solution: on the last k characters of the text for  *)
(* every k, one slice more each time.                                      *)
LEMMA CutRecursion ==
  ASSUME NEW L \in Nat
  PROVE  \E f : f = [from \in 0 .. L |-> Rest(f, from, L)]
  <1> DEFINE T == {k \in Nat : k <= L => \E f : f = [from \in L - k .. L |-> Rest(f, from, L)]}
  <1>1. 0 \in T
    <2>1. PICK f : f = [from \in L - 0 .. L |-> <<>>]
      OBVIOUS
    <2>2. \A from \in L - 0 .. L : Rest(f, from, L) = <<>>
      BY DEF Rest
    <2>3. f = [from \in L - 0 .. L |-> Rest(f, from, L)]
      BY <2>1, <2>2
    <2>4. QED
      BY <2>3
  <1>2. ASSUME NEW k \in Nat, k \in T PROVE k + 1 \in T
    <2>1. SUFFICES ASSUME k + 1 <= L
                   PROVE  \E h : h = [from \in L - (k + 1) .. L |-> Rest(h, from, L)]
      OBVIOUS
    <2>2. PICK f : f = [from \in L - k .. L |-> Rest(f, from, L)]
      BY <1>2, <2>1
    <2>3. PICK a \in Nat : a = L - (k + 1) /\ a + 1 = L - k /\ a < L
      BY <2>1
    <2>4. PICK h : h = [from \in a .. L |-> Rest(f, from, L)]
      OBVIOUS
    <2>5. ASSUME NEW from \in a + 1 .. L PROVE h[from] = f[from]
      <3>1. from \in a .. L /\ from \in L - k .. L
        BY <2>3
      <3>2. h[from] = Rest(f, from, L) /\ f[from] = Rest(f, from, L)
        BY <2>2, <2>4, <3>1
      <3>3. QED
        BY <3>2
    <2>6. ASSUME NEW from \in a .. L PROVE Rest(h, from, L) = Rest(f, from, L)
      <3>1. CASE from = L
        BY <3>1 DEF Rest
      <3>2. CASE from # L
        <4>1. Cut(from, L) \in a + 1 .. L
          BY <3>2, CutFacts
        <4>2. h[Cut(from, L)] = f[Cut(from, L)]
          BY <2>5, <4>1
        <4>3. QED
          BY <3>2, <4>2 DEF Rest
      <3>3. QED
        BY <3>1, <3>2
    <2>7. h = [from \in a .. L |-> Rest(h, from, L)]
      BY <2>4, <2>6
    <2>8. QED
      BY <2>3, <2>7
  <1>3. L \in T
    <2>1. Nat \subseteq T
      <3> HIDE DEF T
      <3> QED BY <1>1, <1>2, NatSetInduction
    <2>2. QED
      BY <2>1
  <1>4. L - L = 0 /\ L <= L
    OBVIOUS
  <1>5. QED
    BY <1>3, <1>4

(* PartsOf is the value at 0 of a function that follows the recursion.     *)
LEMMA PartsRecursion ==
  ASSUME NEW p \in Proposals
  PROVE  \E f : /\ f = [from \in 0 .. BodyLength[p] |-> Rest(f, from, BodyLength[p])]
                /\ PartsOf(p) = f[0]
  <1>1. PICK L \in Nat : L = BodyLength[p]
    BY TransportAssumption
  <1>2. PICK g : g = [from \in 0 .. L |-> Rest(g, from, L)]
    BY CutRecursion
  <1>3. PICK f : f = CHOOSE h : h = [from \in 0 .. L |-> Rest(h, from, L)]
    OBVIOUS
  <1>4. f = [from \in 0 .. L |-> Rest(f, from, L)]
    BY <1>2, <1>3, Zenon
  <1>5. PartsOf(p) = f[0]
    BY <1>1, <1>3, Zenon DEF PartsOf, Rest
  <1>6. QED
    BY <1>1, <1>4, <1>5

(* q shows characters from to L, in order and without a gap, and has       *)
(* slices enough for their number.                                         *)
Sliced(q, from, L) ==
  /\ q \in Seq([from : Nat, to : Nat])
  /\ from < L => Len(q) >= 1 /\ q[1].from = from /\ q[Len(q)].to = L
  /\ \A j \in 2 .. Len(q) : q[j].from = q[j - 1].to
  /\ L - from <= Len(q) * PartLimit

LEMMA SliceAdded ==
  ASSUME NEW L \in Nat, NEW from \in Nat, NEW to \in Nat, from < to, to <= L,
         to - from <= PartLimit, NEW q, Sliced(q, to, L), to = L => q = <<>>,
         NEW r, r = <<[from |-> from, to |-> to]>> \o q
  PROVE  Sliced(r, from, L)
  <1>1. PICK e : e = [from |-> from, to |-> to]
    OBVIOUS
  <1>2. e \in [from : Nat, to : Nat] /\ e.from = from /\ e.to = to
    BY <1>1
  <1>3. q \in Seq([from : Nat, to : Nat])
    BY DEF Sliced
  <1>4. PICK n \in Nat : n = Len(q)
    BY <1>3
  <1>5. r = <<e>> \o q
    BY <1>1
  <1>6. /\ r \in Seq([from : Nat, to : Nat]) /\ Len(r) = n + 1 /\ r[1] = e
        /\ \A j \in 2 .. n + 1 : r[j] = q[j - 1]
    BY <1>2, <1>3, <1>4, <1>5
  <1>7. r[n + 1].to = L
    <2>1. CASE to = L
      BY <1>2, <1>4, <1>6, <2>1
    <2>2. CASE to # L
      <3>1. n >= 1 /\ q[n].to = L
        BY <1>4, <2>2 DEF Sliced
      <3>2. r[n + 1] = q[n + 1 - 1] /\ n + 1 - 1 = n
        BY <1>6, <3>1
      <3>3. QED
        BY <3>1, <3>2
    <2>3. QED
      BY <2>1, <2>2
  <1>8. ASSUME NEW j \in 2 .. n + 1 PROVE r[j].from = r[j - 1].to
    <2>1. CASE j = 2
      <3>1. n >= 1
        BY <2>1
      <3>2. to < L
        BY <1>4, <3>1
      <3>3. q[1].from = to
        BY <3>2 DEF Sliced
      <3>4. r[2] = q[1]
        BY <1>6, <2>1
      <3>5. QED
        BY <1>2, <1>6, <2>1, <3>3, <3>4
    <2>2. CASE j # 2
      <3>1. PICK i \in 2 .. n : i = j - 1
        BY <2>2
      <3>2. q[i].from = q[i - 1].to
        BY <1>4, <3>1 DEF Sliced
      <3>3. r[j] = q[i] /\ r[i] = q[i - 1]
        <4>1. i \in 2 .. n + 1 /\ j - 1 = i
          BY <3>1
        <4>2. QED
          BY <1>6, <4>1
      <3>4. QED
        BY <3>1, <3>2, <3>3
    <2>3. QED
      BY <2>1, <2>2
  <1>9. L - from <= (n + 1) * PartLimit
    <2>1. L - to <= n * PartLimit
      BY <1>4 DEF Sliced
    <2>2. (n + 1) * PartLimit = n * PartLimit + PartLimit
      BY TransportAssumption
    <2>3. PICK m \in Nat : m = n * PartLimit
      BY TransportAssumption
    <2>4. QED
      BY <2>1, <2>2, <2>3, TransportAssumption
  <1>10. QED
    <2>1. r \in Seq([from : Nat, to : Nat]) /\ Len(r) = n + 1 /\ r[1].from = from
      BY <1>2, <1>6
    <2>2. n + 1 >= 1
      OBVIOUS
    <2>3. QED
      BY <1>7, <1>8, <1>9, <2>1, <2>2 DEF Sliced

(* By induction over the length of the rest.                               *)
LEMMA RestSliced ==
  ASSUME NEW L \in Nat, NEW f, f = [from \in 0 .. L |-> Rest(f, from, L)]
  PROVE  \A from \in 0 .. L : Sliced(f[from], from, L)
  <1> DEFINE T == {k \in Nat : \A from \in 0 .. L : L - from <= k => Sliced(f[from], from, L)}
  <1>1. f[L] = <<>> /\ Sliced(f[L], L, L)
    <2>1. f[L] = <<>>
      BY DEF Rest
    <2>2. Len(f[L]) = 0
      BY <2>1
    <2>3. L - L <= 0 * PartLimit
      BY TransportAssumption
    <2>4. QED
      BY <2>1, <2>2, <2>3 DEF Sliced
  <1>2. 0 \in T
    BY <1>1
  <1>3. ASSUME NEW k \in Nat, k \in T PROVE k + 1 \in T
    <2>1. SUFFICES ASSUME NEW from \in 0 .. L, L - from <= k + 1 PROVE Sliced(f[from], from, L)
      OBVIOUS
    <2>2. CASE from = L
      BY <1>1, <2>2
    <2>3. CASE from # L
      <3>1. PICK to : to = Cut(from, L)
        OBVIOUS
      <3>2. /\ to \in Nat /\ to \in 0 .. L /\ from < to /\ to <= L /\ to - from <= PartLimit
            /\ L - to <= k
        BY <2>1, <2>3, <3>1, CutFacts
      <3>3. f[from] = <<[from |-> from, to |-> to]>> \o f[to]
        BY <2>3, <3>1 DEF Rest
      <3>4. Sliced(f[to], to, L) /\ (to = L => f[to] = <<>>)
        BY <1>1, <1>3, <3>2
      <3>5. PICK q, r : q = f[to] /\ r = f[from]
        OBVIOUS
      <3>6. Sliced(q, to, L) /\ (to = L => q = <<>>)
        BY <3>4, <3>5
      <3>7. r = <<[from |-> from, to |-> to]>> \o q
        BY <3>3, <3>5
      <3>8. from \in Nat
        OBVIOUS
      <3>9. Sliced(r, from, L)
        BY <3>2, <3>6, <3>7, <3>8, SliceAdded
      <3>10. QED
        BY <3>5, <3>9
    <2>4. QED
      BY <2>2, <2>3
  <1>4. Nat \subseteq T
    <2> HIDE DEF T
    <2> QED BY <1>2, <1>3, NatSetInduction
  <1>5. L \in T /\ \A from \in 0 .. L : L - from <= L
    BY <1>4
  <1>6. QED
    BY <1>5

(* What build_preview_parts returns shows the whole text.                  *)
LEMMA PartsSliced ==
  ASSUME NEW p \in Proposals
  PROVE  Sliced(PartsOf(p), 0, BodyLength[p])
  <1>1. PICK L \in Nat : L = BodyLength[p]
    BY TransportAssumption
  <1>2. PICK f : f = [from \in 0 .. L |-> Rest(f, from, L)] /\ PartsOf(p) = f[0]
    BY <1>1, PartsRecursion
  <1>3. QED
    BY <1>1, <1>2, RestSliced

(* A text longer than MaxParts messages take needs more than MaxParts.     *)
LEMMA TooLong ==
  ASSUME NEW p \in Proposals, BodyLength[p] > MaxParts * PartLimit
  PROVE  Oversized(p)
  <1>1. PICK n \in Nat : n = Len(PartsOf(p))
    BY PartsSliced DEF Sliced
  <1>2. BodyLength[p] - 0 <= n * PartLimit
    BY <1>1, PartsSliced DEF Sliced
  <1>3. n * PartLimit <= MaxParts * PartLimit \/ n > MaxParts
    <2>1. SUFFICES ASSUME n <= MaxParts PROVE n * PartLimit <= MaxParts * PartLimit
      BY <1>1, TransportAssumption
    <2>2. PICK d \in Nat : MaxParts = n + d
      <3>1. MaxParts - n \in Nat /\ MaxParts = n + (MaxParts - n)
        BY <2>1, TransportAssumption
      <3>2. QED
        BY <3>1
    <2>3. (n + d) * PartLimit = n * PartLimit + d * PartLimit
      BY TransportAssumption
    <2>4. n * PartLimit \in Nat /\ d * PartLimit \in Nat
      BY TransportAssumption
    <2>5. QED
      BY <2>2, <2>3, <2>4
  <1>4. n * PartLimit \in Nat /\ MaxParts * PartLimit \in Nat /\ BodyLength[p] \in Nat
    BY TransportAssumption
  <1>5. n > MaxParts
    BY <1>2, <1>3, <1>4
  <1>6. QED
    BY <1>1, <1>5 DEF Oversized

-----------------------------------------------------------------------------
(* What the chat holds.  Only one delivery is in progress at a time, so a  *)
(* part follows its predecessor immediately, in the chat of its proposal.  *)
PartsChained ==
  \A p \in Proposals :
    /\ chat[p] # <<>> => ~Oversized(p)
    /\ \A k \in DOMAIN chat[p] :
         /\ chat[p][k].part \in 1 .. Len(PartsOf(p))
         /\ chat[p][k].part > 1 => k > 1 /\ chat[p][k - 1].part = chat[p][k].part - 1

(* Part j of p may be sent next.                                           *)
Following(p, j) ==
  /\ ~Oversized(p) /\ j \in 1 .. Len(PartsOf(p))
  /\ j > 1 => chat[p] # <<>> /\ chat[p][Len(chat[p])].part = j - 1

DeliveryInOrder == sending # Idle => Following(sending.proposal, sending.part)

DeliveryInv == PartsChained /\ DeliveryInOrder

LEMMA PartsCounted ==
  ASSUME NEW p \in Proposals
  PROVE  Len(PartsOf(p)) \in Nat /\ Len(PartsOf(p)) >= 1
  BY PartsSliced, TransportAssumption DEF Sliced

(* The part in progress arrives behind its predecessor.                    *)
LEMMA ArrivesChained ==
  ASSUME TransportTypeOK, DeliveryInv, sending # Idle, Arrives
  PROVE  /\ PartsChained'
         /\ LET p == sending.proposal
            IN  chat'[p] # <<>> /\ chat'[p][Len(chat'[p])].part = sending.part
  <1>1. PICK p \in Proposals, j \in Nat, e \in Message :
          /\ p = sending.proposal /\ j = sending.part
          /\ e = [part |-> j, evidence |-> sending.evidence]
    BY MessageTyped DEF Message
  <1>2. PICK old \in Seq(Message) : old = chat[p]
    BY DEF TransportTypeOK
  <1>3. PICK n \in Nat : n = Len(old)
    BY <1>2
  <1>4. PICK new : new = chat'[p]
    OBVIOUS
  <1>5. e \in Message /\ e.part = j
    BY <1>1, MessageTyped DEF Message
  <1>6. new = Append(old, e)
    BY <1>1, <1>2, <1>4 DEF Arrives, TransportTypeOK
  <1>7. /\ new # <<>> /\ Len(new) = n + 1 /\ new[n + 1] = e
        /\ DOMAIN new = 1 .. n + 1 /\ \A k \in 1 .. n : new[k] = old[k]
    BY <1>2, <1>3, <1>5, <1>6
  <1>8. Following(p, j)
    BY <1>1 DEF DeliveryInv, DeliveryInOrder
  <1>9. /\ ~Oversized(p) /\ j \in 1 .. Len(PartsOf(p))
        /\ j > 1 => old # <<>> /\ old[n].part = j - 1
    BY <1>2, <1>3, <1>8 DEF Following
  <1>10. \A k \in 1 .. n : /\ old[k].part \in 1 .. Len(PartsOf(p))
                           /\ old[k].part > 1 => k > 1 /\ old[k - 1].part = old[k].part - 1
    BY <1>2, <1>3 DEF DeliveryInv, PartsChained
  <1>11. ASSUME NEW k \in 1 .. n + 1
         PROVE  /\ new[k].part \in 1 .. Len(PartsOf(p))
                /\ new[k].part > 1 => k > 1 /\ new[k - 1].part = new[k].part - 1
    <2>1. CASE k = n + 1
      <3>1. new[k].part = j
        BY <1>5, <1>7, <2>1
      <3>2. ASSUME j > 1 PROVE k > 1 /\ new[k - 1].part = j - 1
        <4>1. n # 0 /\ old[n].part = j - 1
          BY <1>2, <1>3, <1>9, <3>2
        <4>2. n \in 1 .. n /\ k - 1 = n
          BY <2>1, <4>1
        <4>3. QED
          BY <1>7, <4>1, <4>2
      <3>3. QED
        BY <1>9, <3>1, <3>2
    <2>2. CASE k # n + 1
      <3>1. k \in 1 .. n /\ new[k] = old[k]
        BY <1>7, <2>2
      <3>2. k > 1 => k - 1 \in 1 .. n /\ new[k - 1] = old[k - 1]
        BY <1>7, <3>1
      <3>3. QED
        BY <1>10, <3>1, <3>2
    <2>3. QED
      BY <2>1, <2>2
  <1>12. ASSUME NEW q \in Proposals
         PROVE  /\ chat'[q] # <<>> => ~Oversized(q)
                /\ \A k \in DOMAIN chat'[q] :
                     /\ chat'[q][k].part \in 1 .. Len(PartsOf(q))
                     /\ chat'[q][k].part > 1 =>
                          k > 1 /\ chat'[q][k - 1].part = chat'[q][k].part - 1
    <2>1. CASE q = p
      BY <1>4, <1>7, <1>9, <1>11, <2>1
    <2>2. CASE q # p
      <3>1. chat'[q] = chat[q]
        BY <1>1, <2>2, MessageTyped
      <3>2. QED
        BY <3>1 DEF DeliveryInv, PartsChained
    <2>3. QED
      BY <2>1, <2>2
  <1>13. PartsChained'
    BY <1>12 DEF PartsChained
  <1>14. QED
    BY <1>1, <1>4, <1>5, <1>7, <1>13

(* Steps that send nothing, whether they end the delivery or not.          *)
LEMMA SameChat ==
  ASSUME DeliveryInv, chat' = chat, sending' \in {sending, Idle}
  PROVE  DeliveryInv'
  <1>1. PartsChained'
    BY DEF DeliveryInv, PartsChained
  <1>2. ASSUME sending' # Idle PROVE Following(sending.proposal, sending.part)'
    <2>1. PICK p, j : p = sending.proposal /\ j = sending.part
      OBVIOUS
    <2>2. Following(p, j)
      BY <1>2, <2>1 DEF DeliveryInv, DeliveryInOrder
    <2>3. Following(p, j)'
      BY <2>2 DEF Following
    <2>4. QED
      BY <1>2, <2>1, <2>3
  <1>3. QED
    BY <1>1, <1>2 DEF DeliveryInv, DeliveryInOrder

LEMMA BeginDelivers ==
  ASSUME DeliveryInv, NEW p \in Proposals, Begin(p)
  PROVE  DeliveryInv'
  <1>1. chat' = chat
    BY DEF Begin
  <1>2. CASE sending' = sending
    BY <1>1, <1>2, SameChat
  <1>3. CASE sending' # sending
    <2>1. ~Oversized(p) /\ sending'.proposal = p /\ sending'.part = 1
      BY <1>3 DEF Begin
    <2>2. Following(p, 1)'
      BY <2>1, PartsCounted DEF Following
    <2>3. PartsChained'
      BY <1>1 DEF DeliveryInv, PartsChained
    <2>4. QED
      BY <2>1, <2>2, <2>3 DEF DeliveryInv, DeliveryInOrder
  <1>4. QED
    BY <1>2, <1>3

LEMMA SendDelivers ==
  ASSUME TransportTypeOK, DeliveryInv, SendPart
  PROVE  DeliveryInv'
  <1>1. sending # Idle /\ Arrives
    BY DEF SendPart
  <1>2. PICK p \in Proposals, j \in Nat : p = sending.proposal /\ j = sending.part
    BY <1>1, MessageTyped
  <1>3. PartsChained' /\ chat'[p] # <<>> /\ chat'[p][Len(chat'[p])].part = j
    BY <1>1, <1>2, ArrivesChained
  <1>4. ~Oversized(p) /\ j \in 1 .. Len(PartsOf(p))
    BY <1>1, <1>2 DEF DeliveryInv, DeliveryInOrder, Following
  <1>5. CASE sending' = Idle
    BY <1>3, <1>5 DEF DeliveryInv, DeliveryInOrder
  <1>6. CASE sending' # Idle
    <2>1. j < Len(PartsOf(p)) /\ sending' = [sending EXCEPT !.part = @ + 1]
      BY <1>2, <1>6 DEF SendPart
    <2>2. sending'.proposal = p /\ sending'.part = j + 1
      BY <1>1, <1>2, <2>1, MessageTyped
    <2>3. j + 1 \in 1 .. Len(PartsOf(p)) /\ j + 1 - 1 = j
      BY <1>4, <2>1, PartsCounted
    <2>4. Following(p, j + 1)'
      BY <1>3, <1>4, <2>3 DEF Following
    <2>5. QED
      BY <1>3, <2>2, <2>4 DEF DeliveryInv, DeliveryInOrder
  <1>7. QED
    BY <1>5, <1>6

LEMMA DeliveryNext == TransportInv /\ DeliveryInv /\ [TransportNext]_vars => DeliveryInv'
  <1> SUFFICES ASSUME TransportInv, DeliveryInv, [TransportNext]_vars PROVE DeliveryInv'
    OBVIOUS
  <1>1. TransportTypeOK
    BY DEF TransportInv
  <1>2. CASE SendPart
    BY <1>1, <1>2, SendDelivers
  <1>3. ASSUME NEW p \in Proposals, Begin(p) PROVE DeliveryInv'
    BY <1>3, BeginDelivers
  <1>4. CASE SendFails
    <2>1. CASE Arrives
      <3>1. PartsChained' /\ sending' = Idle
        BY <1>1, <1>4, <2>1, ArrivesChained DEF SendFails
      <3>2. QED
        BY <3>1 DEF DeliveryInv, DeliveryInOrder
    <2>2. CASE chat' = chat
      BY <1>4, <2>2, SameChat DEF SendFails
    <2>3. QED
      BY <1>4, <2>1, <2>2 DEF SendFails
  <1>5. CASE Restart
    BY <1>5, SameChat DEF Restart
  <1>6. CASE UNCHANGED <<chat, sending>>
    BY <1>6, SameChat
  <1>7. Scan \/ Poller \/ Others \/ UNCHANGED vars => UNCHANGED <<chat, sending>>
    BY DEF Scan, Poller, Others, Bind, Poll, Advance, Decide, vars, notifierVars
  <1>8. BindFails \/ PollFails \/ Hold => UNCHANGED <<chat, sending>>
    BY DEF BindFails, PollFails, Hold, notifierVars
  <1>9. \A p \in Proposals : ReadFails(p) \/ Press(p) => UNCHANGED <<chat, sending>>
    BY DEF ReadFails, Press, notifierVars
  <1>10. QED
    BY <1>2, <1>3, <1>4, <1>5, <1>6, <1>7, <1>8, <1>9 DEF TransportNext, Notifier, Faulty

LEMMA DeliveryInit == TransportInit => DeliveryInv
  BY DEF TransportInit, DeliveryInv, PartsChained, DeliveryInOrder

(* Part n is the last of a run of parts 1, 2 ... n.                        *)
LEMMA RunOfParts ==
  ASSUME TransportTypeOK, PartsChained, NEW p \in Proposals, NEW k \in DOMAIN chat[p],
         NEW n \in Nat, n = chat[p][k].part
  PROVE  \A i \in Nat : i < n => /\ k - i \in DOMAIN chat[p]
                                 /\ chat[p][k - i].part = n - i
  <1> DEFINE T == {i \in Nat : i < n => /\ k - i \in DOMAIN chat[p]
                                        /\ chat[p][k - i].part = n - i}
  <1>1. PICK m \in Nat : DOMAIN chat[p] = 1 .. m
    BY DEF TransportTypeOK
  <1>2. 0 \in T
    BY <1>1
  <1>3. ASSUME NEW i \in Nat, i \in T PROVE i + 1 \in T
    <2>1. SUFFICES ASSUME i + 1 < n
                   PROVE  /\ k - (i + 1) \in DOMAIN chat[p]
                          /\ chat[p][k - (i + 1)].part = n - (i + 1)
      OBVIOUS
    <2>2. PICK l : l = k - i
      OBVIOUS
    <2>3. l \in DOMAIN chat[p] /\ chat[p][l].part = n - i
      BY <1>3, <2>1, <2>2
    <2>4. n - i > 1
      BY <2>1
    <2>5. l > 1 /\ chat[p][l - 1].part = n - i - 1
      BY <2>3, <2>4 DEF PartsChained
    <2>6. l - 1 = k - (i + 1) /\ n - i - 1 = n - (i + 1) /\ l - 1 \in 1 .. m
      <3>1. k \in 1 .. m /\ l \in 1 .. m
        BY <1>1, <2>3
      <3>2. l - 1 = k - (i + 1) /\ n - i - 1 = n - (i + 1)
        BY <2>2, <3>1
      <3>3. l - 1 \in 1 .. m
        BY <2>5, <3>1
      <3>4. QED
        BY <3>2, <3>3
    <2>7. QED
      BY <1>1, <2>5, <2>6
  <1>4. Nat \subseteq T
    <2> HIDE DEF T
    <2> QED BY <1>2, <1>3, NatSetInduction
  <1>5. QED
    BY <1>4

LEMMA ChainedShowsAll ==
  ASSUME TransportTypeOK, DeliveryInv
  PROVE  ButtonEndsPreview
  <1>1. ASSUME NEW p \in Proposals, BodyLength[p] > MaxParts * PartLimit PROVE chat[p] = <<>>
    BY <1>1, TooLong DEF DeliveryInv, PartsChained
  <1>2. ASSUME NEW p \in Proposals, NEW k \in DOMAIN chat[p], IsButton(p, k)
        PROVE  LET n == Len(PartsOf(p))
                   slice(j) == PartsOf(p)[chat[p][k - n + j].part]
               IN  /\ n <= k
                   /\ slice(1).from = 0 /\ slice(n).to = BodyLength[p]
                   /\ \A j \in 2 .. n : slice(j).from = slice(j-1).to
    <2>1. PICK q : q = PartsOf(p)
      OBVIOUS
    <2>2. PICK n \in Nat : n = Len(q) /\ n >= 1
      BY <2>1, PartsCounted
    <2>3. n = chat[p][k].part
      BY <1>2, <2>1, <2>2 DEF IsButton
    <2>4. k \in Nat
      BY DEF TransportTypeOK
    <2>5. ASSUME NEW j \in 1 .. n
          PROVE  k - n + j >= 1 /\ chat[p][k - n + j].part = j
      <3>1. n - j \in Nat /\ n - j < n /\ k - (n - j) = k - n + j /\ n - (n - j) = j
        BY <2>4
      <3>2. k - (n - j) \in DOMAIN chat[p] /\ chat[p][k - (n - j)].part = n - (n - j)
        BY <2>3, <3>1, RunOfParts DEF DeliveryInv
      <3>3. k - (n - j) >= 1
        BY <3>2 DEF TransportTypeOK
      <3>4. QED
        BY <3>1, <3>2, <3>3
    <2>6. n <= k
      <3>1. k - n + 1 >= 1
        BY <2>2, <2>5
      <3>2. QED
        BY <2>4, <3>1
    <2>7. /\ q[1].from = 0 /\ q[n].to = BodyLength[p]
          /\ \A j \in 2 .. n : q[j].from = q[j - 1].to
      <3>1. PICK L \in Nat : L = BodyLength[p] /\ 0 < L
        BY TransportAssumption
      <3>2. Sliced(q, 0, L)
        BY <2>1, <3>1, PartsSliced
      <3>3. QED
        BY <2>2, <3>1, <3>2 DEF Sliced
    <2>8. ASSUME NEW j \in 1 .. n PROVE q[chat[p][k - n + j].part] = q[j]
      BY <2>5
    <2>9. 1 \in 1 .. n /\ n \in 1 .. n /\ \A j \in 2 .. n : j \in 1 .. n /\ j - 1 \in 1 .. n
      BY <2>2
    <2>10. \A j \in 2 .. n : q[chat[p][k - n + j].part].from
                               = q[chat[p][k - n + (j - 1)].part].to
      BY <2>7, <2>8, <2>9
    <2>11. q[chat[p][k - n + 1].part].from = 0 /\ q[chat[p][k - n + n].part].to = BodyLength[p]
      BY <2>7, <2>8, <2>9
    <2>12. QED
      BY <2>1, <2>2, <2>6, <2>10, <2>11
  <1>3. QED
    BY <1>1, <1>2 DEF ButtonEndsPreview

(* ADR 0010, for texts, message sizes and limits of any length: the        *)
(* messages that end with a button together show the whole text, whatever  *)
(* was lost, sent again or cut off by a restart, and a text that does not  *)
(* fit leaves nothing (build_preview_parts and deliver).                   *)
THEOREM ButtonsEndPreviews == TransportSpec => []ButtonEndsPreview
  <1>1. TransportInv /\ DeliveryInv => ButtonEndsPreview
    BY ChainedShowsAll DEF TransportInv
  <1>2. QED
    BY <1>1, TransportInitInv, TransportNextInv, DeliveryInit, DeliveryNext, PTL DEF TransportSpec

=============================================================================
