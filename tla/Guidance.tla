------------------------------- MODULE Guidance -------------------------------
(***************************************************************************)
(* Where the evidence of a proposal comes from: the runbook library, what  *)
(* a search shows of it, the citation a host composes into a proposal, the *)
(* advisory judgment it waits for, and the citation its execution presents *)
(* (runbooks.py, retrieval.py, proposal_tool.py, judge.py, gate.py), on    *)
(* top of the checks of DispatchChecks.  The service may be restarted over *)
(* an edited library between any two of these, and during the judgment.    *)
(*                                                                         *)
(* A content hash is the body it is computed from: Keys are both.          *)
(***************************************************************************)
EXTENDS DispatchChecks

CONSTANTS
  Locators, Operations,
  PreconditionLists,
  Body,          \* what each content hash covers
  Libraries,     \* the document sets the service may be started over
  JudgeAnswers,  \* what a judgment may come to
  NoHit, NoInvocation, NoCitation

(* A runbook's id and revision label, its operation and preconditions, the *)
(* locators of its passages, and whether verification metadata is there.   *)
ASSUME BodyAssumption ==
  Body \in [Keys -> [name : STRING, operation : Operations, preconditions : PreconditionLists,
                     passages : Seq(Locators), verified : BOOLEAN]]

(* A document on disk: its body and the content hash it declares.          *)
Document == [body : Keys, declared : Keys]

ASSUME LibrariesAssumption == \A docs \in Libraries : docs \subseteq Document
VARIABLES
  library,  \* the revisions being served
  shown,    \* the search hit a host keeps
  frozen,   \* the frozen invocation of the proposal
  cited,    \* the citation in the proposal's audit event
  advice,   \* the status of the judgment recorded there
  call,     \* the last call of propose_fix and what the host knows of it
  using     \* the citation presented to execute_fix

evidenceVars == <<library, shown, frozen, cited, advice, call, using>>
guidanceVars == <<vars, evidenceVars>>

Invocation == [revision : Keys, operation : Operations, preconditions : PreconditionLists]

ASSUME NoneAssumption == NoInvocation \notin Invocation

(* A host's citations: a hit's, or anything else of the right form.        *)
Citations == [name : {Body[k].name : k \in Keys}, hash : Keys, locator : Locators]

(* The last five are ends: a proposal, a ToolError for the binding or for  *)
(* the write, an exception, or a connection that the restart cut.          *)
CallStages == {"none", "judging", "judged",
               "created", "unresolved", "write_failed", "raised", "lost"}

LocatorsOf(k) == {Body[k].passages[i] : i \in DOMAIN Body[k].passages}

-----------------------------------------------------------------------------
(* The library.                                                            *)

(* parse_revision: verified, no locator twice, and the content hash        *)
(* recomputes.  RunbookLibrary.load leaves out what does not load.         *)
Loads(d) ==
  LET passages == Body[d.body].passages
  IN  /\ Body[d.body].verified
      /\ passages # <<>> /\ \A i, j \in DOMAIN passages : i # j => passages[i] # passages[j]
      /\ d.declared = d.body

Served(docs) == {d \in docs : Loads(d)}

(* resolve_citation: by content hash, then id and label, then locator.     *)
NamedByLabel(c) ==
  {d \in library : Body[d.body].name = c.name /\ c.locator \in LocatorsOf(d.body)}
Named(c) ==
  {d \in library : /\ d.declared = c.hash
                   /\ Body[d.body].name = c.name
                   /\ c.locator \in LocatorsOf(d.body)}

Resolves(c) == Named(c) # {}

(* What propose_fix compares before it freezes an invocation and the gate  *)
(* again before it runs one: the evidence describes it.                    *)
DescribesOperation(c, inv) ==
  \E d \in Named(c) : /\ inv.operation = Body[d.body].operation
                      /\ inv.preconditions = Body[d.body].preconditions
Describes(c, inv) ==
  /\ inv.revision = c.hash
  /\ \E d \in Named(c) : /\ inv.operation = Body[d.body].operation
                         /\ inv.preconditions = Body[d.body].preconditions

-----------------------------------------------------------------------------
(* The advisory judge: whatever the model does, its answer becomes one of  *)
(* a closed list of statuses.                                              *)

FailureByTerminalCode ==
  [MODEL_TIMEOUT |-> "judge_timeout", MODEL_UNAVAILABLE |-> "judge_unavailable",
   INVALID_MODEL_OUTPUT |-> "judge_invalid_output",
   CONTEXT_LIMIT_EXCEEDED |-> "judge_input_rejected"]

Inability == {"INSUFFICIENT_EVIDENCE", "AMBIGUOUS_EVIDENCE", "UNSUPPORTED_QUESTION",
              "AGGREGATION_TIE"}

Statuses == {"answered", "judge_timeout", "judge_unavailable", "judge_invalid_output",
             "judge_input_rejected", "judge_inability", "judge_error"}

(* evaluate_question_map: a request its validator rejects, an exception of *)
(* the run, an answer, or a terminal code.                                 *)
AdviceByCode(answer) ==
  IF answer = "ANSWERED" THEN "answered"
  ELSE IF answer \in DOMAIN FailureByTerminalCode THEN FailureByTerminalCode[answer]
  ELSE answer
Advice(answer) ==
  CASE answer = "ANSWERED" -> "answered"
    [] answer = "rejected" -> "judge_input_rejected"
    [] answer = "raised"   -> "judge_error"
    [] answer \in DOMAIN FailureByTerminalCode -> FailureByTerminalCode[answer]
    [] answer \in Inability -> "judge_inability"
    [] OTHER -> "judge_error"

-----------------------------------------------------------------------------
(* The steps.                                                              *)

InCall == call.stage \in {"judging", "judged"}
EndCall(stage) == call' = [call EXCEPT !.stage = stage]

(* A restart reads the documents anew; no call survives it.                *)
ServeLibrary ==
  /\ Serve
  /\ \E docs \in Libraries : library' = Served(docs)
  /\ IF InCall THEN EndCall("lost") ELSE UNCHANGED call
  /\ UNCHANGED <<shown, frozen, cited, advice, using>>

(* search: whatever scores, a hit is a passage of a served revision.       *)
Search ==
  /\ \E d \in library : \E l \in LocatorsOf(d.body) :
       shown' = [citation |-> [name |-> Body[d.body].name, hash |-> d.declared, locator |-> l],
                 read |-> d.body]
  /\ UNCHANGED <<vars, library, frozen, cited, advice, call, using>>

(* propose_fix, first part: the citation resolves and describes the        *)
(* invocation.  Every other case is a ToolError that leaves nothing.       *)
BeginPropose(c, inv) ==
  /\ bound = NoProposal /\ ~InCall
  /\ Resolves(c) /\ Describes(c, inv)
  /\ call' = [stage |-> "judging", citation |-> c, invocation |-> inv, answer |-> "none"]
  /\ UNCHANGED <<vars, library, shown, frozen, cited, advice, using>>

(* evaluate_risk: a status, whatever the validator and the model did.  An  *)
(* entry that its projection cannot read is outside its handlers.          *)
JudgeProposalOrRaise(answer) ==
  /\ call.stage = "judging"
  /\ call' = [call EXCEPT !.answer = answer,
                          !.stage = IF Advice(answer) = "answered" THEN "judged" ELSE "raised"]
  /\ UNCHANGED <<vars, library, shown, frozen, cited, advice, using>>
JudgeProposal(answer) ==
  /\ call.stage = "judging"
  /\ call' = [call EXCEPT !.answer = answer,
                          !.stage = IF answer = "unreadable" THEN "raised" ELSE "judged"]
  /\ UNCHANGED <<vars, library, shown, frozen, cited, advice, using>>

(* The server binds the cited revision to the one script its catalog maps. *)
Bind(key) ==
  /\ Propose
  /\ bound' \in Binding => bound'.entry.key = key

Bindable(key) ==
  catalog = NoCatalog \/ \E b \in Resolve(catalog, key) : Resolve(catalog, key) = {b}

(* Second part: the judgment is recorded with the proposal and decides     *)
(* nothing.  No binding, no proposal; and none if the write fails.         *)
CreateProposal ==
  /\ call.stage = "judged"
  /\ Bind(call.citation.hash)
  /\ frozen' = call.invocation /\ cited' = call.citation /\ advice' = Advice(call.answer)
  /\ EndCall("created")
  /\ UNCHANGED <<library, shown, using>>

CreateNothing ==
  /\ call.stage = "judged"
  /\ EndCall(IF Bindable(call.citation.hash) THEN "write_failed" ELSE "unresolved")
  /\ UNCHANGED <<vars, library, shown, frozen, cited, advice, using>>

(* execute_fix: its citation resolves, in the tool and again in the gate,  *)
(* whose binding checks then end in the comparison with the evidence.      *)
ExecuteFix(c) ==
  /\ Resolves(c)
  /\ CheckBinding
  /\ pc' = "observe" => Describes(c, frozen)
  /\ code' = "evidence" => ~Describes(c, frozen)
  /\ using' = c
  /\ UNCHANGED <<library, shown, frozen, cited, advice, call>>

Proceed == Observe \/ StartWorker \/ Judge \/ Authorize

Others == /\ EditScript \/ Proceed \/ Tick \/ \E i \in Preconditions : Answer(i)
          /\ UNCHANGED evidenceVars

-----------------------------------------------------------------------------

GuidanceInit ==
  /\ Init
  /\ \E docs \in Libraries : library = Served(docs)
  /\ shown = NoHit /\ frozen = NoInvocation /\ cited = NoCitation
  /\ advice = "none" /\ using = NoCitation
  /\ call = [stage |-> "none", citation |-> NoCitation, invocation |-> NoInvocation,
             answer |-> "none"]

GuidanceNext ==
  \/ ServeLibrary
  \/ Search
  \/ \E c \in Citations, inv \in Invocation : BeginPropose(c, inv)
  \/ \E answer \in JudgeAnswers : JudgeProposal(answer)
  \/ CreateProposal \/ CreateNothing
  \/ \E c \in Citations : ExecuteFix(c)
  \/ Others

GuidanceSpec == GuidanceInit /\ [][GuidanceNext]_guidanceVars

(* The calling threads run, time passes and the judge comes back, for each *)
(* of its requests to the model has a timeout; no adapter need ever answer. *)
FairGuidanceSpec ==
  /\ GuidanceSpec
  /\ WF_guidanceVars(Proceed /\ UNCHANGED evidenceVars)
  /\ WF_guidanceVars(Tick /\ UNCHANGED evidenceVars)
  /\ WF_guidanceVars(\E answer \in JudgeAnswers : JudgeProposal(answer))
  /\ WF_guidanceVars(CreateProposal \/ CreateNothing)

-----------------------------------------------------------------------------
(* Properties.                                                             *)

GuidanceTypeOK ==
  /\ TypeOK
  /\ library \subseteq Document
  /\ shown = NoHit \/ shown \in [citation : Citations, read : Keys]
  /\ frozen \in Invocation \cup {NoInvocation}
  /\ cited \in Citations \cup {NoCitation}
  /\ using \in Citations \cup {NoCitation}
  /\ advice \in Statuses \cup {"none"}
  /\ bound = NoProposal <=> frozen = NoInvocation
  /\ bound = NoProposal <=> advice = "none"
  /\ call \in [stage : CallStages, citation : Citations \cup {NoCitation},
               invocation : Invocation \cup {NoInvocation}, answer : JudgeAnswers \cup {"none"}]
  /\ bound # NoProposal <=> call.stage = "created"

(* docs/runbook-format.md: a citation is all or nothing.  One that a host  *)
(* got from a search either still names the very text it was shown, or     *)
(* resolves no longer, whatever was edited, under the same label included, *)
(* and however often the service was restarted since.                      *)
CitationsStable ==
  shown # NoHit =>
    /\ Body[shown.read].verified
    /\ \A d \in Named(shown.citation) : d.body = shown.read

(* Issue #34 and ADR 0012: a proposal is of a verified revision, the one   *)
(* its audit event cites and its script is bound for; and a call gets a    *)
(* path only on evidence served now that is that same revision, with the   *)
(* operation and the preconditions that were frozen.                       *)
EvidenceStands ==
  /\ frozen # NoInvocation =>
       /\ Body[frozen.revision].verified
       /\ cited.hash = frozen.revision
       /\ bound \in Binding => bound.entry.key = frozen.revision
  /\ path # "none" =>
       /\ Resolves(using)
       /\ \A d \in Named(using) :
            /\ d.body = frozen.revision
            /\ Body[d.body].operation = frozen.operation
            /\ Body[d.body].preconditions = frozen.preconditions

(* ADR 0009: whatever the judge does, propose_fix comes to an end, and     *)
(* without a proposal only for a reason of its own: the service restarted, *)
(* the catalog maps not exactly one script, or the write failed.  The one  *)
(* exception is an answer of the pinned library that is not of its form.   *)
JudgedCallCreates ==
  InCall ~> \/ call.stage \in {"created", "write_failed", "lost"}
            \/ call.stage = "unresolved" /\ ~Bindable(call.citation.hash)
            \/ call.stage = "raised" /\ call.answer = "unreadable"

=============================================================================
