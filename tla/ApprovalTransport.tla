-------------------------- MODULE ApprovalTransport --------------------------
(***************************************************************************)
(* The opt-in Telegram approval transport (telegram_approval.py) over the  *)
(* ledger: a notifier thread that sends previews to the operator's chat    *)
(* and a poller thread that records what the operator presses, in one      *)
(* service process that may be restarted at any point, over a network that *)
(* may lose a request or its response and a database that may be busy.     *)
(*                                                                         *)
(* Telegram itself is external: it keeps the chat, numbers the callback    *)
(* updates, and forgets those below the offset of the last getUpdates.     *)
(***************************************************************************)
EXTENDS Ledger, FiniteSets

CONSTANTS
  BodyLength,   \* the length of each proposal's preview text
  PartLimit,    \* the most of it one message takes
  MaxParts,     \* MAX_PREVIEW_PARTS: a longer preview is not sent at all
  MaxPresses,   \* bound on the callback updates ever made
  MaxFaults     \* bound on lost calls, storage errors and restarts

ASSUME TransportAssumption ==
  /\ BodyLength \in [Proposals -> Nat \ {0}]
  /\ PartLimit \in Nat \ {0}
  /\ MaxParts \in Nat /\ MaxPresses \in Nat /\ MaxFaults \in Nat

VARIABLES
  chat,      \* per proposal, the preview parts in the operator's chat
  updates,   \* every callback update ever made, in update_id order
  confirmed, \* Telegram has forgotten the updates up to this id
  sent,      \* the notifier's process-local sent set
  queue,     \* candidates of the scan in progress still to be delivered
  sending,   \* the delivery in progress, if any
  poller,    \* where the poller is: "bind", "poll", "decide", "advance", "off"
  offset,    \* the poller's offset, 0 for None
  batch,     \* ids of fetched updates not yet processed
  faults     \* faults so far

notifierVars == <<chat, sent, queue, sending>>
pollerVars == <<updates, confirmed, poller, offset, batch>>
vars == <<ledgerVars, notifierVars, pollerVars, faults>>

Message == [part : Nat, evidence : BOOLEAN]

Update == [proposal : Proposals, from : {"operator", "stranger"}]

Idle == [proposal |-> "none", part |-> 0, evidence |-> FALSE]

TransportInit ==
  /\ Init
  /\ chat = [p \in Proposals |-> <<>>]
  /\ updates = <<>> /\ confirmed = 0
  /\ sent = {} /\ queue = {} /\ sending = Idle
  /\ poller = "bind" /\ offset = 0 /\ batch = <<>>
  /\ faults = 0

(* Any call that fails: a lost request or response, or a storage error.    *)
Fault == faults < MaxFaults /\ faults' = faults + 1

-----------------------------------------------------------------------------
(* build_preview_parts: the text is cut into slices of at most PartLimit   *)
(* characters; a preview of more than MaxParts of them is refused whole.   *)

Cut(from, length) == IF from + PartLimit <= length THEN from + PartLimit ELSE length

PartsOf(p) ==
  LET chunks[from \in 0 .. BodyLength[p]] ==
        IF from = BodyLength[p] THEN <<>>
        ELSE LET to == Cut(from, BodyLength[p])
             IN  <<[from |-> from, to |-> to]>> \o chunks[to]
  IN  chunks[0]

OversizedAtLimit(p) == Len(PartsOf(p)) >= MaxParts
Oversized(p) == Len(PartsOf(p)) > MaxParts

-----------------------------------------------------------------------------
(* The notifier.                                                           *)

(* active_unapproved, without what this process has delivered already.     *)
Candidates == {p \in Proposals : Eligible(p) /\ approvals[p].state = "absent"} \ sent
Scan ==
  /\ sending = Idle /\ queue = {}
  /\ queue' = Candidates
  /\ UNCHANGED <<ledgerVars, chat, sent, sending, pollerVars, faults>>

(* The proposal_ref each writer gives its event: open_proposal gives none. *)
ProposalRef(e, p) == IF e.type = "proposal" THEN "none" ELSE p

(* evidence_refs_for, as far as it tells "some" from "none".               *)
EvidenceFound(p) ==
  \E i \in Positions(p) : audit[p][i].type = "proposal" /\ ProposalRef(audit[p][i], p) = p

(* deliver starts with what it reads, none of it checked against the scan; *)
(* an oversized preview is never sent.                                     *)
Begin(p) ==
  /\ sending = Idle /\ p \in queue
  /\ IF Oversized(p)
     THEN queue' = queue \ {p} /\ UNCHANGED sending
     ELSE /\ sending' = [proposal |-> p, part |-> 1, evidence |-> EvidenceFound(p)]
          /\ UNCHANGED queue
  /\ UNCHANGED <<ledgerVars, chat, sent, pollerVars, faults>>

(* One message of the delivery arrives in the chat.  The last one carries  *)
(* the Approve button.                                                     *)
Arrives ==
  chat' = [chat EXCEPT ![sending.proposal] =
             Append(@, [part |-> sending.part, evidence |-> sending.evidence])]

SendPart ==
  /\ sending # Idle
  /\ Arrives
  /\ IF sending.part < Len(PartsOf(sending.proposal))
     THEN /\ sending' = [sending EXCEPT !.part = @ + 1]
          /\ UNCHANGED <<sent, queue>>
     ELSE /\ sending' = Idle
          /\ sent' = sent \cup {sending.proposal}
          /\ queue' = queue \ {sending.proposal}
  /\ UNCHANGED <<ledgerVars, pollerVars, faults>>

(* sendMessage raises: the request was lost, or only its response.  The    *)
(* delivery is given up until the next scan.                               *)
SendFailsButGoesOn ==
  /\ sending # Idle /\ Fault
  /\ sending' = IF sending.part < Len(PartsOf(sending.proposal))
                THEN [sending EXCEPT !.part = @ + 1] ELSE Idle
  /\ UNCHANGED <<ledgerVars, chat, sent, queue, pollerVars>>
SendFails ==
  /\ sending # Idle /\ Fault
  /\ Arrives \/ UNCHANGED chat
  /\ sending' = Idle
  /\ queue' = queue \ {sending.proposal}
  /\ UNCHANGED <<ledgerVars, sent, pollerVars>>

(* A storage error in what deliver reads first.                            *)
ReadFails(p) ==
  /\ sending = Idle /\ p \in queue /\ Fault
  /\ queue' = queue \ {p}
  /\ UNCHANGED <<ledgerVars, chat, sent, sending, pollerVars>>

-----------------------------------------------------------------------------
(* The poller.                                                             *)

(* getMe, once: if it fails this process never polls.                      *)
Bind ==
  /\ poller = "bind"
  /\ poller' = "poll"
  /\ UNCHANGED <<ledgerVars, notifierVars, updates, confirmed, offset, batch, faults>>
BindFails ==
  /\ poller = "bind" /\ Fault
  /\ poller' = "off"
  /\ UNCHANGED <<ledgerVars, notifierVars, updates, confirmed, offset, batch>>

(* getUpdates: Telegram forgets what lies below the offset and returns the *)
(* rest; a lost response makes it forget all the same.                     *)
Forgotten == IF offset > confirmed + 1 THEN offset - 1 ELSE confirmed
Poll ==
  /\ poller = "poll"
  /\ confirmed' = Forgotten
  /\ batch' = [k \in 1 .. Len(updates) - Forgotten |-> Forgotten + k]
  /\ poller' = IF batch' = <<>> THEN "poll" ELSE "decide"
  /\ UNCHANGED <<ledgerVars, notifierVars, updates, offset, faults>>
PollFails ==
  /\ poller = "poll" /\ Fault
  /\ confirmed' \in {confirmed, Forgotten}
  /\ UNCHANGED <<ledgerVars, notifierVars, updates, poller, offset, batch>>

(* classify_update: the sender and the chat, then the callback data.       *)
AcceptsAnySender(u) == TRUE
Accepts(u) == u.from = "operator"

(* approve: the unit of work by proposal id, whose refusals (absent,       *)
(* expired, consumed, unbound, already approved) are terminal no-ops.      *)
RecordWithoutRevalidation(p, op) ==
  IF approvals[p].state = "absent" THEN InsertApproval(p, op) ELSE UNCHANGED ledgerVars
Record(p, op) ==
  IF Eligible(p) /\ proposals[p].binding # NoBinding /\ approvals[p].state = "absent"
  THEN RecordApprovalByProposalId(p, op, op)
  ELSE UNCHANGED ledgerVars
Decide(op) ==
  /\ poller = "decide"
  /\ LET u == updates[Head(batch)]
     IN  IF Accepts(u) THEN Record(u.proposal, op) ELSE UNCHANGED ledgerVars
  /\ poller' = "advance"
  /\ UNCHANGED <<notifierVars, updates, confirmed, offset, batch, faults>>

(* hold: a storage error in approve keeps the offset and drops the batch.  *)
HoldButAdvance ==
  /\ poller = "decide" /\ Accepts(updates[Head(batch)]) /\ Fault
  /\ offset' = Head(batch) + 1
  /\ batch' = <<>> /\ poller' = "poll"
  /\ UNCHANGED <<ledgerVars, notifierVars, updates, confirmed>>
Hold ==
  /\ poller = "decide" /\ Accepts(updates[Head(batch)]) /\ Fault
  /\ batch' = <<>> /\ poller' = "poll"
  /\ UNCHANGED <<ledgerVars, notifierVars, updates, confirmed, offset>>

(* The offset moves past the decided update; its answer is best effort.    *)
AdvanceTooFar ==
  /\ poller = "advance"
  /\ offset' = Head(batch) + 2
  /\ batch' = Tail(batch)
  /\ poller' = IF Len(batch) = 1 THEN "poll" ELSE "decide"
  /\ UNCHANGED <<ledgerVars, notifierVars, updates, confirmed, faults>>
AdvanceOnApprovalOnly ==
  /\ poller = "advance"
  /\ IF Accepts(updates[Head(batch)])
     THEN /\ offset' = Head(batch) + 1
          /\ batch' = Tail(batch)
          /\ poller' = IF Len(batch) = 1 THEN "poll" ELSE "decide"
     ELSE offset' = offset /\ batch' = <<>> /\ poller' = "poll"
  /\ UNCHANGED <<ledgerVars, notifierVars, updates, confirmed, faults>>
Advance ==
  /\ poller = "advance"
  /\ offset' = Head(batch) + 1
  /\ batch' = Tail(batch)
  /\ poller' = IF Len(batch) = 1 THEN "poll" ELSE "decide"
  /\ UNCHANGED <<ledgerVars, notifierVars, updates, confirmed, faults>>

-----------------------------------------------------------------------------
(* The surroundings.                                                       *)

IsButton(p, k) == chat[p][k].part = Len(PartsOf(p))
HasButton(p) == \E k \in DOMAIN chat[p] : IsButton(p, k)

(* The operator presses a button, any number of times; a stranger's        *)
(* callback needs none.                                                    *)
Press(p) ==
  /\ Len(updates) < MaxPresses
  /\ \/ HasButton(p) /\ updates' = Append(updates, [proposal |-> p, from |-> "operator"])
     \/ updates' = Append(updates, [proposal |-> p, from |-> "stranger"])
  /\ UNCHANGED <<ledgerVars, notifierVars, confirmed, poller, offset, batch, faults>>

(* The process dies and is started again: chat, updates and database stay. *)
Restart ==
  /\ Fault
  /\ sent' = {} /\ queue' = {} /\ sending' = Idle
  /\ poller' = "bind" /\ offset' = 0 /\ batch' = <<>>
  /\ UNCHANGED <<ledgerVars, chat, updates, confirmed>>

(* propose_fix and the gate, and a clock that is not stepped back.         *)
Others ==
  /\ \/ \E p \in Proposals, b \in Bindings \cup {NoBinding} : OpenProposal(p, b)
     \/ \E p \in Proposals, o \in Owners : ConsumeAndStart(p, o, "proposal-bound")
     \/ Tick /\ clock' > clock
  /\ UNCHANGED <<notifierVars, pollerVars, faults>>

Notifier == Scan \/ SendPart \/ \E p \in Proposals : Begin(p)
Poller == Bind \/ Poll \/ Advance \/ \E op \in Operators : Decide(op)
Faulty == SendFails \/ BindFails \/ PollFails \/ Hold \/ \E p \in Proposals : ReadFails(p)

TransportNext ==
  \/ Notifier \/ Poller \/ Faulty \/ Restart \/ Others
  \/ \E p \in Proposals : Press(p)

TransportSpec == TransportInit /\ [][TransportNext]_vars

(* Both threads loop for as long as the process runs.                      *)
FairTransportSpec == TransportSpec /\ WF_vars(Notifier) /\ WF_vars(Poller)

-----------------------------------------------------------------------------
(* Properties.                                                             *)

TransportTypeOK ==
  /\ TypeOK
  /\ chat \in [Proposals -> Seq(Message)]
  /\ updates \in Seq(Update)
  /\ confirmed \in 0 .. Len(updates)
  /\ sent \subseteq Proposals /\ queue \subseteq Proposals
  /\ sending = Idle \/ sending \in [proposal : Proposals, part : Nat, evidence : BOOLEAN]
  /\ poller \in {"bind", "poll", "decide", "advance", "off"}
  /\ offset \in 0 .. Len(updates) + 1
  /\ batch \in Seq(1 .. Len(updates))
  /\ poller \in {"decide", "advance"} <=> batch # <<>>
  /\ faults \in 0 .. MaxFaults

(* ADR 0010, "the button goes only on the final part after every part has  *)
(* succeeded": whatever was lost, repeated or restarted, the messages that *)
(* end with a button together show the whole text, from its first          *)
(* character to its last, in order and without a gap; and a text that does *)
(* not fit MaxParts messages leaves nothing at all.                        *)
ButtonEndsPreview ==
  \A p \in Proposals :
    /\ BodyLength[p] > MaxParts * PartLimit => chat[p] = <<>>
    /\ \A k \in DOMAIN chat[p] :
         IsButton(p, k) =>
           LET n == Len(PartsOf(p))
               slice(j) == PartsOf(p)[chat[p][k - n + j].part]
           IN  /\ n <= k
               /\ slice(1).from = 0 /\ slice(n).to = BodyLength[p]
               /\ \A j \in 2 .. n : slice(j).from = slice(j-1).to

(* ADR 0010: an approval of this transport stands for a press by the       *)
(* operator on a button that ended a preview, never for anybody else's     *)
(* callback, a redelivery of it included.                                  *)
ApprovalWasPressed ==
  \A p \in Proposals :
    approvals[p].state # "absent" =>
      \E k \in DOMAIN updates : updates[k].proposal = p /\ updates[k].from = "operator"

(* ADR 0010, conservative offset: Telegram never forgets a press by the    *)
(* operator that could still be recorded and has not been.                 *)
NoPressSkipped ==
  \A k \in 1 .. confirmed :
    LET p == updates[k].proposal
    IN  (updates[k].from = "operator" /\ Eligible(p) /\ proposals[p].binding # NoBinding)
          => approvals[p].state # "absent"

(* Every step of the transport is a unit of work of the ledger, one that   *)
(* revalidates eligibility under the write lock, or leaves it alone.       *)
ImplementsLedger == Init /\ [][Next]_ledgerVars

(* ADR 0010: a press is decided in the end unless its poller never bound:  *)
(* held and redelivered updates do not block each other for good.          *)
PressesDecided ==
  \A k \in 1 .. MaxPresses :
    k <= Len(updates) ~> \/ k <= confirmed \/ k < offset
                         \/ poller = "off"

(* ADR 0010: while a proposal can be approved, the notifier keeps trying   *)
(* until the operator has a button for it, if its text fits into the       *)
(* messages allowed, exactly filling the last of them included.            *)
ButtonArrives ==
  \A p \in Proposals :
    (Eligible(p) /\ BodyLength[p] <= MaxParts * PartLimit)
      ~> (HasButton(p) \/ ~Eligible(p) \/ approvals[p].state # "absent")

(* ADR 0010 Decision: the preview contains the evidence reference.         *)
PreviewShowsEvidence ==
  \A p \in Proposals : \A k \in DOMAIN chat[p] : chat[p][k].evidence

=============================================================================
