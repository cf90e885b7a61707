--------------------------- MODULE GuidanceProofs ---------------------------
(***************************************************************************)
(* The evidence of a proposal, for every library and every edit of one,    *)
(* every citation a host may compose and every answer of the judge; and    *)
(* the theorems of DispatchChecks with all of that around its checks.      *)
(***************************************************************************)
EXTENDS Guidance, DispatchChecksProofs

(* What is served has loaded; a hit is of a revision that had.             *)
LibraryInv ==
  /\ library \subseteq Document
  /\ \A d \in library : Loads(d)
  /\ shown # NoHit =>
       /\ shown \in [citation : Citations, read : Keys]
       /\ shown.citation.hash = shown.read
       /\ Body[shown.read].verified

FrozenInv ==
  /\ bound = NoProposal <=> frozen = NoInvocation
  /\ frozen # NoInvocation =>
       /\ frozen \in Invocation
       /\ Body[frozen.revision].verified
       /\ cited.hash = frozen.revision
       /\ bound \in Binding => bound.entry.key = frozen.revision

(* A call that goes on does so on evidence that describes the invocation.  *)
UsingInv == Checked => Describes(using, frozen)

RecordsInv ==
  /\ cited \in Citations \cup {NoCitation}
  /\ using \in Citations \cup {NoCitation}
  /\ advice \in Statuses \cup {"none"}
  /\ bound = NoProposal <=> advice = "none"

(* A call under way has none to follow but its own, and was begun on       *)
(* evidence that is still served: a restart would have cut it.             *)
CallInv ==
  /\ call \in [stage : CallStages, citation : Citations \cup {NoCitation},
               invocation : Invocation \cup {NoInvocation}, answer : JudgeAnswers \cup {"none"}]
  /\ InCall =>
       /\ bound = NoProposal
       /\ call.citation \in Citations /\ call.invocation \in Invocation
       /\ Describes(call.citation, call.invocation)
  /\ bound # NoProposal <=> call.stage = "created"

GuidanceInv == IInv /\ LibraryInv /\ FrozenInv /\ UsingInv /\ RecordsInv /\ CallInv

-----------------------------------------------------------------------------

(* Every step is one of the checks or leaves them alone.                   *)
LEMMA StepImplements == [GuidanceNext]_guidanceVars => [Next]_vars
<1> SUFFICES ASSUME [GuidanceNext]_guidanceVars PROVE [Next]_vars
  OBVIOUS
<1>1. CASE ServeLibrary
  BY <1>1 DEF ServeLibrary, Next
<1>2. CASE Search
  BY <1>2 DEF Search
<1>3. CASE CreateProposal
  BY <1>3 DEF CreateProposal, Bind, Next
<1>4. ASSUME NEW c \in Citations, ExecuteFix(c) PROVE Next
  BY <1>4 DEF ExecuteFix, Next, Caller
<1>5. CASE Others
  BY <1>5 DEF Others, Proceed, Next, Caller
<1>6. CASE UNCHANGED guidanceVars
  BY <1>6 DEF guidanceVars
<1>7. CASE \/ \E c \in Citations, inv \in Invocation : BeginPropose(c, inv)
           \/ \E answer \in JudgeAnswers : JudgeProposal(answer)
           \/ CreateNothing
  BY <1>7 DEF BeginPropose, JudgeProposal, CreateNothing
<1> QED BY <1>1, <1>2, <1>3, <1>4, <1>5, <1>6, <1>7 DEF GuidanceNext

LEMMA GuidanceIsChecks == GuidanceSpec => Spec
<1>1. GuidanceInit => Init
  BY DEF GuidanceInit
<1> QED BY <1>1, StepImplements, PTL DEF GuidanceSpec, Spec

(* An answer of the judge, whatever it is, becomes a status of the list.   *)
LEMMA AdviceIsStatus == ASSUME NEW answer PROVE Advice(answer) \in Statuses
<1>1. DOMAIN FailureByTerminalCode = {"MODEL_TIMEOUT", "MODEL_UNAVAILABLE",
                                      "INVALID_MODEL_OUTPUT", "CONTEXT_LIMIT_EXCEEDED"}
  BY DEF FailureByTerminalCode
<1>2. answer \in DOMAIN FailureByTerminalCode => FailureByTerminalCode[answer] \in Statuses
  BY <1>1 DEF FailureByTerminalCode, Statuses
<1> QED BY <1>2 DEF Advice, Statuses

(* In a library that loaded, a hash names one text.                        *)
LEMMA NamedIsBody ==
  ASSUME LibraryInv, NEW c, NEW d \in Named(c)
  PROVE  d \in Document /\ d.body = c.hash /\ Body[d.body].verified
  BY DEF LibraryInv, Named, Loads

LEMMA GuidanceInitInv == GuidanceInit => GuidanceInv
<1> SUFFICES ASSUME GuidanceInit PROVE GuidanceInv
  OBVIOUS
<1>1. IInv
  BY InitInv DEF GuidanceInit
<1>2. LibraryInv
  BY LibrariesAssumption DEF GuidanceInit, LibraryInv, Served
<1>3. FrozenInv /\ UsingInv /\ RecordsInv
  BY DEF GuidanceInit, Init, FrozenInv, UsingInv, Checked, RecordsInv
<1>4. CallInv
  BY DEF GuidanceInit, Init, CallInv, CallStages, InCall
<1> QED BY <1>1, <1>2, <1>3, <1>4 DEF GuidanceInv

LEMMA GuidanceNextInv == GuidanceInv /\ [GuidanceNext]_guidanceVars => GuidanceInv'
<1> SUFFICES ASSUME GuidanceInv, [GuidanceNext]_guidanceVars PROVE GuidanceInv'
  OBVIOUS
<1>1. IInv'
  BY StepImplements, NextInv DEF GuidanceInv
<1>2. CASE ServeLibrary
  <2>1. ~Checked /\ ~Checked' /\ UNCHANGED bound
    BY <1>2 DEF ServeLibrary, Serve, Checked, GuidanceInv, IInv, PathInv
  <2>2. LibraryInv'
    BY <1>2, LibrariesAssumption DEF ServeLibrary, GuidanceInv, LibraryInv, Served, Loads
  <2>3. CallInv'
    BY <1>2, <2>1 DEF ServeLibrary, EndCall, InCall, CallStages, GuidanceInv, CallInv
  <2> QED
    BY <1>1, <1>2, <2>1, <2>2, <2>3
    DEF ServeLibrary, GuidanceInv, FrozenInv, UsingInv, RecordsInv
<1>3. CASE Search
  <2>1. PICK d \in library : \E l \in LocatorsOf(d.body) :
          shown' = [citation |-> [name |-> Body[d.body].name, hash |-> d.declared, locator |-> l],
                    read |-> d.body]
    BY <1>3 DEF Search
  <2>2. PICK l \in LocatorsOf(d.body) :
          shown' = [citation |-> [name |-> Body[d.body].name, hash |-> d.declared, locator |-> l],
                    read |-> d.body]
    BY <2>1
  <2>3. d \in Document /\ Loads(d) /\ d.body \in Keys /\ d.declared = d.body
    BY <2>1 DEF GuidanceInv, LibraryInv, Document, Loads
  <2>4. l \in Locators
    BY <2>2, <2>3, BodyAssumption DEF LocatorsOf
  <2>5. LibraryInv'
    BY <1>3, <2>2, <2>3, <2>4 DEF Search, GuidanceInv, LibraryInv, Loads, Citations
  <2> QED
    BY <1>1, <1>3, <2>5
    DEF Search, vars, GuidanceInv, FrozenInv, UsingInv, RecordsInv, CallInv, InCall, Checked,
        Describes, Named
<1>4. ASSUME NEW c \in Citations, NEW inv \in Invocation, BeginPropose(c, inv)
      PROVE  GuidanceInv'
  <2>1. CallInv'
    BY <1>4 DEF BeginPropose, CallInv, CallStages, InCall, vars, Describes, Named
  <2> QED
    BY <1>1, <1>4, <2>1
    DEF BeginPropose, vars, GuidanceInv, LibraryInv, FrozenInv, UsingInv, RecordsInv, Checked,
        Loads, Describes, Named
<1>5. ASSUME NEW answer \in JudgeAnswers, JudgeProposal(answer) PROVE GuidanceInv'
  <2>1. CallInv'
    BY <1>5
    DEF JudgeProposal, GuidanceInv, CallInv, CallStages, InCall, vars, Describes, Named
  <2> QED
    BY <1>1, <1>5, <2>1
    DEF JudgeProposal, vars, GuidanceInv, LibraryInv, FrozenInv, UsingInv, RecordsInv, Checked,
        Loads, Describes, Named
<1>6. CASE CreateNothing
  <2>1. CallInv'
    BY <1>6 DEF CreateNothing, EndCall, GuidanceInv, CallInv, CallStages, InCall, vars
  <2> QED
    BY <1>1, <1>6, <2>1
    DEF CreateNothing, vars, GuidanceInv, LibraryInv, FrozenInv, UsingInv, RecordsInv, Checked,
        Loads, Describes, Named
<1>7. CASE CreateProposal
  <2> DEFINE c   == call.citation
             inv == call.invocation
  <2>1. /\ Propose
        /\ bound' \in Binding => bound'.entry.key = c.hash
        /\ frozen' = inv /\ cited' = c /\ advice' = Advice(call.answer)
        /\ UNCHANGED <<library, shown, using>>
    BY <1>7 DEF CreateProposal, Bind
  <2>2. c \in Citations /\ inv \in Invocation /\ Describes(c, inv)
    BY <1>7 DEF CreateProposal, InCall, GuidanceInv, CallInv
  <2>3. LibraryInv'
    BY <2>1 DEF GuidanceInv, LibraryInv, Loads
  <2>4. inv.revision = c.hash /\ Body[inv.revision].verified
    BY <2>2, NamedIsBody DEF Describes, GuidanceInv
  <2>5. bound = NoProposal /\ pc' = pc /\ path' = path /\ ~Checked
    BY <2>1, NothingAssumption DEF Propose, GuidanceInv, IInv, BindingInv, timeVars
  <2>6. bound' # NoProposal
    <3>1. CASE catalog = NoCatalog
      BY <2>1, <3>1, NothingAssumption DEF Propose
    <3>2. CASE catalog # NoCatalog
      <4>1. catalog \in Catalogs
        BY <3>2 DEF GuidanceInv, IInv, TypeOK
      <4>2. PICK key \in Keys : \E b \in Resolve(catalog, key) : bound' = b
        BY <2>1, <3>2 DEF Propose
      <4>3. PICK e \in Mapped(catalog, key) :
              bound' = [entry |-> e, profile |-> catalog.profile]
        BY <4>2 DEF Resolve
      <4> QED BY <4>1, <4>3, EntryTypes, NothingAssumption DEF Binding
    <3> QED BY <3>1, <3>2
  <2>7. FrozenInv'
    BY <2>1, <2>4, <2>6, <2>2, NoneAssumption DEF FrozenInv
  <2>8. UsingInv'
    BY <2>5 DEF UsingInv, Checked
  <2>9. RecordsInv'
    <3>1. Advice(call.answer) \in Statuses /\ "none" \notin Statuses
      BY AdviceIsStatus DEF Statuses
    <3> QED BY <2>1, <2>6, <2>2, <3>1 DEF GuidanceInv, RecordsInv
  <2>10. CallInv'
    BY <1>7, <2>6 DEF CreateProposal, EndCall, GuidanceInv, CallInv, CallStages, InCall
  <2> QED BY <1>1, <2>3, <2>7, <2>8, <2>9, <2>10 DEF GuidanceInv
<1>8. ASSUME NEW c \in Citations, ExecuteFix(c) PROVE GuidanceInv'
  <2>1. /\ pc' = "observe" => Describes(c, frozen)
        /\ using' = c
        /\ UNCHANGED <<library, shown, frozen, cited, advice, bound, call>>
    BY <1>8 DEF ExecuteFix, CheckBinding, operatorVars
  <2>2. path' = "none" /\ pc' \in {"observe", "done"}
    BY <1>8 DEF ExecuteFix, CheckBinding, Refuse, GuidanceInv, IInv, PathInv
  <2>3. UsingInv'
    BY <2>1, <2>2 DEF UsingInv, Checked, Describes, Named
  <2>4. LibraryInv' /\ FrozenInv' /\ RecordsInv' /\ CallInv'
    BY <2>1
    DEF GuidanceInv, LibraryInv, FrozenInv, RecordsInv, CallInv, InCall, Loads, Describes, Named
  <2> QED BY <1>1, <2>3, <2>4 DEF GuidanceInv
<1>9. CASE Others
  <2>1. UNCHANGED evidenceVars /\ UNCHANGED bound
    BY <1>9
    DEF Others, EditScript, Proceed, Observe, StartWorker, Judge, Authorize, Tick, Answer,
        operatorVars, timeVars
  <2>2. Checked' => Checked
    BY <1>9
    DEF Others, Checked, EditScript, Proceed, Observe, StartWorker, Judge, Joined, Authorize,
        Tick, Answer, Refuse, timeVars
  <2> QED
    BY <1>1, <2>1, <2>2
    DEF evidenceVars, GuidanceInv, LibraryInv, FrozenInv, UsingInv, RecordsInv, CallInv, InCall,
        Loads, Describes, Named
<1>10. CASE UNCHANGED guidanceVars
  BY <1>1, <1>10
  DEF guidanceVars, evidenceVars, vars, GuidanceInv, LibraryInv, FrozenInv, UsingInv, RecordsInv,
      CallInv, InCall, Checked, Loads, Describes, Named
<1> QED BY <1>2, <1>3, <1>4, <1>5, <1>6, <1>7, <1>8, <1>9, <1>10 DEF GuidanceNext

(* What is served, shown, frozen and presented fits together, always.      *)
THEOREM GuidanceInvariant == GuidanceSpec => []GuidanceInv
<1> QED BY GuidanceInitInv, GuidanceNextInv, PTL DEF GuidanceSpec

-----------------------------------------------------------------------------

(* A citation of a search hit names the text that was shown, or nothing,   *)
(* whatever is edited and however often the service restarts.              *)
THEOREM CitationsNeverShift == GuidanceSpec => []CitationsStable
<1>1. GuidanceInv => CitationsStable
  BY NamedIsBody DEF GuidanceInv, LibraryInv, CitationsStable
<1> QED BY <1>1, GuidanceInvariant, PTL

(* A proposal is of the verified revision it cites, and a call gets a path *)
(* only on evidence that is that revision and describes what was frozen.   *)
THEOREM EvidenceAlwaysStands == GuidanceSpec => []EvidenceStands
<1>1. GuidanceInv => EvidenceStands
  <2> SUFFICES ASSUME GuidanceInv, path # "none"
               PROVE  /\ Resolves(using)
                      /\ \A d \in Named(using) :
                           /\ d.body = frozen.revision
                           /\ Body[d.body].operation = frozen.operation
                           /\ Body[d.body].preconditions = frozen.preconditions
    BY DEF EvidenceStands, GuidanceInv, FrozenInv
  <2>1. Describes(using, frozen) /\ LibraryInv
    BY DEF GuidanceInv, UsingInv, Checked
  <2>2. PICK e \in Named(using) : /\ frozen.operation = Body[e.body].operation
                                  /\ frozen.preconditions = Body[e.body].preconditions
    BY <2>1 DEF Describes
  <2>3. \A d \in Named(using) : d.body = using.hash
    BY <2>1, NamedIsBody
  <2> QED BY <2>1, <2>2, <2>3 DEF Describes, Resolves
<1> QED BY <1>1, GuidanceInvariant, PTL

(* Every record of a proposal and of a call has its type; the judgment is  *)
(* a status of the closed list whatever the model answered.                *)
THEOREM GuidanceTypes == GuidanceSpec => []GuidanceTypeOK
<1>1. GuidanceInv => GuidanceTypeOK
  BY DEF GuidanceInv, GuidanceTypeOK, IInv, LibraryInv, FrozenInv, RecordsInv, CallInv
<1> QED BY <1>1, GuidanceInvariant, PTL

(* Hence what is proved of the checks holds with the evidence around them: *)
(* a path only for the script that would be bound again now, ...           *)
THEOREM GuidanceScriptIsBound == GuidanceSpec => []BoundScriptOnly
<1> QED BY GuidanceIsChecks, ScriptIsBound, PTL

(* ... on a timely, expected observation of every precondition, ...        *)
THEOREM GuidancePathIsObserved == GuidanceSpec => []ObservationsJustify
<1> QED BY GuidanceIsChecks, PathIsObserved, PTL

(* ... and, if standing, by name of the very bytes and profile of the run. *)
THEOREM GuidanceStandingIsExact == GuidanceSpec => []StandingCoversRun
<1> QED BY GuidanceIsChecks, StandingIsExact, PTL

(* The deadline bounds the checks with the evidence around them, too.      *)
THEOREM GuidanceIsTimely == GuidanceSpec => []InTime
<1> QED BY GuidanceIsChecks, ChecksAreTimely, PTL

=============================================================================
