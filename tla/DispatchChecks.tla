---------------------------- MODULE DispatchChecks ----------------------------
(***************************************************************************)
(* What ExecutionGate takes as one verdict each: the checks of one call    *)
(* between its token and its authorization path.  The stored execution     *)
(* binding against the script file and this instance's catalog, the        *)
(* observation of every precondition by a worker thread under a timeout    *)
(* and a total deadline, and the standing authorizations                   *)
(* (gate.py, execution_binding.py, preconditions.py, authorization.py).    *)
(*                                                                         *)
(* Digests are injective, so a digest is the document it covers.  Time is  *)
(* the monotonic clock in ticks from the start of the observations.        *)
(***************************************************************************)
EXTENDS Integers, Sequences

CONSTANTS
  Keys,       \* runbook revision, action and target: what maps to a script
  ScriptIds, Paths, Hashes, Profiles,
  NoFile,     \* a path at which nothing can be read
  NoCatalog,  \* the service is configured without an execution catalog
  Unbound,    \* a proposal opened then, which carries no binding
  NoProposal, \* no proposal yet
  Catalogs,   \* catalog documents the operator may configure
  Policies,   \* policy documents the operator may configure
  Adapters,   \* the observers the server code registers
  Count,      \* the number of preconditions of the frozen invocation
  Deadline,   \* OBSERVATION_DEADLINE_SECONDS, in ticks
  Lag,        \* bound on the ticks the calling thread may lose per step
  Horizon     \* bound on the clock, past which no check looks

Entry == [key : Keys, id : ScriptIds, path : Paths, sha : Hashes]

(* A binding template: the whole entry, through its digest, and the runner *)
(* profile.  One proposal is opened and one call made, so the proposal id  *)
(* and invocation digest of the final document say nothing more here.      *)
Binding == [entry : Entry, profile : Profiles]

Catalog == [entries : Seq(Entry), profile : Profiles]

(* Observer bindings for the cited revision, and standing authorizations:  *)
(* "covers" says that action, target, arguments, preconditions and         *)
(* revision hash equal those of the frozen invocation.                     *)
ObserverBinding == [index : Nat, adapter : STRING, timeout : Nat]
Authorization == [path : Paths, sha : Hashes, profile : Profiles, covers : BOOLEAN]
Policy == [observers : Seq(ObserverBinding), standing : SUBSET Authorization]

ASSUME NumbersAssumption ==
  /\ Count \in Nat /\ Deadline \in Nat \ {0} /\ Lag \in Nat
  /\ Horizon \in Nat /\ Deadline + Lag + Lag + Lag < Horizon
ASSUME DocumentsAssumption == Catalogs \subseteq Catalog /\ Policies \subseteq Policy
ASSUME NothingAssumption ==
  /\ NoFile \notin Hashes
  /\ NoCatalog \notin Catalogs
  /\ Unbound \notin Binding /\ NoProposal \notin Binding /\ Unbound # NoProposal

VARIABLES
  disk,     \* the operator's script files
  catalog,  \* the catalog this instance loaded
  policy,   \* the policy it loaded
  bound,    \* the binding stored with the proposal
  pc,       \* where the call stands
  bytes,    \* what its one read of the script returned
  index,    \* the precondition it is at
  worker,   \* per precondition, its observer thread and what it answered
  now,      \* ticks since the first observation was due
  slack,    \* ticks lost since the calling thread could go on
  path,     \* the authorization path found
  code      \* the failure code of the refusal

operatorVars == <<disk, catalog, policy, bound>>
timeVars == <<worker, now, slack>>
vars == <<disk, catalog, policy, bound, pc, bytes, index, worker, now, slack, path, code>>

Preconditions == 1 .. Count

Answers == {"expected", "other", "malformed", "error"}

(* A worker is "due" from the reading of its time budget to its start.     *)
Worker == [answer : Answers \cup {"none", "due", "running"}, from : Nat, until : Nat, at : Nat]

Idle == [answer |-> "none", from |-> 0, until |-> 0, at |-> 0]

-----------------------------------------------------------------------------
(* Loading and resolving.                                                  *)

(* load_execution_catalog: no key twice and no script id twice.            *)
CatalogLoads(doc) ==
  \A i, j \in DOMAIN doc.entries :
    i # j => /\ doc.entries[i].key # doc.entries[j].key
             /\ doc.entries[i].id # doc.entries[j].id

(* load_policy: registered adapters, timeouts of at least a second, and no *)
(* precondition bound twice.                                               *)
PolicyLoads(doc) ==
  /\ \A i \in DOMAIN doc.observers : /\ doc.observers[i].adapter \in Adapters
                                     /\ doc.observers[i].timeout > 0
  /\ \A i, j \in DOMAIN doc.observers :
       i # j => doc.observers[i].index # doc.observers[j].index

Mapped(cat, key) ==
  {e \in {cat.entries[i] : i \in DOMAIN cat.entries} : e.key = key}

(* resolve_binding: the templates an invocation could be bound to; a       *)
(* proposal is opened only if there is exactly one.                        *)
Resolve(cat, key) == {[entry |-> e, profile |-> cat.profile] : e \in Mapped(cat, key)}

ObserversOf(i) == {o \in {policy.observers[k] : k \in DOMAIN policy.observers} : o.index = i}

-----------------------------------------------------------------------------
(* The operator.                                                           *)

(* A restart with any documents that load; a call does not survive one.    *)
Serve ==
  /\ pc = "idle"
  /\ catalog' \in {doc \in Catalogs : CatalogLoads(doc)} \cup {NoCatalog}
  /\ policy' \in {doc \in Policies : PolicyLoads(doc)}
  /\ UNCHANGED <<disk, bound, pc, bytes, index, timeVars, path, code>>

EditScript ==
  /\ \E f \in Paths, h \in Hashes \cup {NoFile} : disk' = [disk EXCEPT ![f] = h]
  /\ UNCHANGED <<catalog, policy, bound, pc, bytes, index, timeVars, path, code>>

(* propose_fix binds once and for all.                                     *)
Propose ==
  /\ bound = NoProposal
  /\ IF catalog = NoCatalog THEN bound' = Unbound
     ELSE \E key \in Keys : \E b \in Resolve(catalog, key) :
            Resolve(catalog, key) = {b} /\ bound' = b
  /\ UNCHANGED <<disk, catalog, policy, pc, bytes, index, timeVars, path, code>>

-----------------------------------------------------------------------------
(* The call.                                                               *)

Refuse(why) == pc' = "done" /\ code' = why /\ UNCHANGED path

(* The catalog entry under the binding's own key is still the bound one.   *)
CatalogKeepsPath(b) ==
  \E e \in Mapped(catalog, b.entry.key) : e.path = b.entry.path
CatalogKeeps(b) ==
  \E e \in Mapped(catalog, b.entry.key) : e = b.entry

(* The stored binding, one read of the script it names, this instance's    *)
(* catalog and profile, then whether the evidence describes the frozen     *)
(* invocation: the first check that fails refuses.                         *)
CheckBinding ==
  /\ pc = "idle" /\ bound # NoProposal /\ catalog # NoCatalog
  /\ IF bound = Unbound
     THEN Refuse("binding-missing") /\ UNCHANGED bytes
     ELSE /\ bytes' = disk[bound.entry.path]
          /\ \/ bytes' = NoFile /\ Refuse("binding-script-unresolved")
             \/ bytes' \notin {NoFile, bound.entry.sha} /\ Refuse("binding-script-mismatch")
             \/ /\ bytes' = bound.entry.sha /\ ~CatalogKeeps(bound)
                /\ Refuse("binding-catalog-changed")
             \/ /\ bytes' = bound.entry.sha /\ CatalogKeeps(bound)
                /\ IF catalog.profile # bound.profile
                   THEN Refuse("binding-profile-changed")
                   ELSE Refuse("evidence") \/ (pc' = "observe" /\ UNCHANGED <<path, code>>)
  /\ UNCHANGED <<operatorVars, index, timeVars>>

(* What is left of the total deadline caps an observer's own timeout.      *)
Budget(timeout) == IF timeout < Deadline - now THEN timeout ELSE Deadline - now

(* The next precondition: unmapped, out of time, or given a time budget.   *)
ObserveMappedOnly ==
  /\ pc = "observe" /\ index <= Count
  /\ slack' = 0
  /\ IF ObserversOf(index) = {}
     THEN index' = index + 1 /\ UNCHANGED <<pc, path, code, worker>>
     ELSE IF now >= Deadline
     THEN Refuse("precondition-deadline") /\ UNCHANGED <<worker, index>>
     ELSE \E o \in ObserversOf(index) :
            /\ worker' = [worker EXCEPT ![index] =
                 [answer |-> "due", from |-> now, until |-> now + Budget(o.timeout), at |-> 0]]
            /\ pc' = "start"
            /\ UNCHANGED <<path, code, index>>
  /\ UNCHANGED <<operatorVars, bytes, now>>
Observe ==
  /\ pc = "observe" /\ index <= Count
  /\ slack' = 0
  /\ \/ ObserversOf(index) = {} /\ Refuse("precondition-unmapped") /\ UNCHANGED worker
     \/ /\ ObserversOf(index) # {} /\ now >= Deadline
        /\ Refuse("precondition-deadline") /\ UNCHANGED worker
     \/ \E o \in ObserversOf(index) :
          /\ now < Deadline
          /\ worker' = [worker EXCEPT ![index] =
               [answer |-> "due", from |-> now, until |-> now + Budget(o.timeout), at |-> 0]]
          /\ pc' = "start"
          /\ UNCHANGED <<path, code>>
  /\ UNCHANGED <<operatorVars, bytes, index, now>>

(* observe: the budget runs from the start of the worker, however late     *)
(* after it was read that is.                                              *)
StartWorker ==
  /\ pc = "start"
  /\ worker' = [worker EXCEPT ![index] =
       [answer |-> "running", from |-> now, until |-> now + (@.until - @.from), at |-> 0]]
  /\ pc' = "join" /\ slack' = 0
  /\ UNCHANGED <<operatorVars, bytes, index, now, path, code>>

(* The adapter answers, in its time or long after the call gave it up.     *)
Answer(i) ==
  /\ worker[i].answer = "running"
  /\ \E a \in Answers : worker' = [worker EXCEPT ![i] =
       [answer |-> a, from |-> @.from, until |-> @.until, at |-> now]]
  /\ UNCHANGED <<operatorVars, pc, bytes, index, now, slack, path, code>>

(* worker.join returns: the thread has ended or its time is up.            *)
JoinedOnAnswer == pc = "join" /\ worker[index].answer # "running"
Joined == /\ pc = "join"
          /\ worker[index].answer # "running" \/ now >= worker[index].until

(* A thread still alive has timed out whatever it may answer later; what a *)
(* finished one left is judged, and an answer past the deadline dropped.   *)
Judge ==
  /\ Joined
  /\ slack' = 0
  /\ LET w == worker[index]
         inTime == now - w.from <= Deadline
     IN  \/ w.answer = "running" /\ Refuse("precondition-timeout") /\ UNCHANGED index
         \/ /\ w.answer \in {"error", "malformed"} \/ (w.answer \in {"expected", "other"} /\ ~inTime)
            /\ Refuse("precondition-observer-error") /\ UNCHANGED index
         \/ w.answer = "other" /\ inTime /\ Refuse("precondition-mismatch") /\ UNCHANGED index
         \/ /\ w.answer = "expected" /\ inTime
            /\ pc' = "observe" /\ index' = index + 1
            /\ UNCHANGED <<path, code>>
  /\ UNCHANGED <<operatorVars, bytes, worker, now>>

(* match: every field equal, the script's by the bytes that were read.     *)
MatchesWithoutProfile(a) ==
  a.covers /\ a.path = bound.entry.path /\ a.sha = bytes
Matches(a) ==
  /\ a.covers /\ a.path = bound.entry.path /\ a.sha = bytes
  /\ a.profile = bound.profile

(* All preconditions hold: a standing path, or the approval is looked for. *)
Authorize ==
  /\ pc = "observe" /\ index > Count
  /\ pc' = "done"
  /\ path' = IF \E a \in policy.standing : Matches(a) THEN "standing" ELSE "approval"
  /\ UNCHANGED <<operatorVars, bytes, index, timeVars, code>>

Caller == CheckBinding \/ Observe \/ StartWorker \/ Judge \/ Authorize

(* The calling thread waits for nothing but its turn.                      *)
CanGo == pc \in {"observe", "start"} \/ Joined

(* Time passes while observations go on; the calling thread, once it can   *)
(* go on, does so within Lag ticks.                                        *)
Tick ==
  /\ pc \in {"observe", "start", "join"} /\ now < Horizon
  /\ CanGo => slack < Lag
  /\ now' = now + 1
  /\ slack' = IF CanGo THEN slack + 1 ELSE 0
  /\ UNCHANGED <<operatorVars, pc, bytes, index, worker, path, code>>

-----------------------------------------------------------------------------

Init ==
  /\ disk \in [Paths -> Hashes]
  /\ catalog \in {doc \in Catalogs : CatalogLoads(doc)} \cup {NoCatalog}
  /\ policy \in {doc \in Policies : PolicyLoads(doc)}
  /\ bound = NoProposal
  /\ pc = "idle" /\ bytes = NoFile /\ index = 1
  /\ worker = [i \in Preconditions |-> Idle]
  /\ now = 0 /\ slack = 0
  /\ path = "none" /\ code = "none"

Next ==
  \/ Serve \/ EditScript \/ Propose
  \/ Caller
  \/ \E i \in Preconditions : Answer(i)
  \/ Tick

Spec == Init /\ [][Next]_vars

(* The calling thread runs and time passes; no adapter need ever answer.   *)
FairSpec == Spec /\ WF_vars(Caller) /\ WF_vars(Tick)

-----------------------------------------------------------------------------
(* Properties.                                                             *)

TypeOK ==
  /\ disk \in [Paths -> Hashes \cup {NoFile}]
  /\ catalog \in Catalogs \cup {NoCatalog}
  /\ policy \in Policies
  /\ bound \in Binding \cup {Unbound, NoProposal}
  /\ pc \in {"idle", "observe", "start", "join", "done"}
  /\ bytes \in Hashes \cup {NoFile}
  /\ index \in 1 .. Count + 1
  /\ worker \in [Preconditions -> Worker]
  /\ now \in Nat /\ slack \in 0 .. Lag
  /\ path \in {"none", "standing", "approval"}
  /\ code \in {"none", "binding-missing", "binding-script-unresolved",
               "binding-script-mismatch", "binding-catalog-changed",
               "binding-profile-changed", "evidence", "precondition-unmapped",
               "precondition-deadline", "precondition-timeout",
               "precondition-observer-error", "precondition-mismatch"}

(* ADR 0012: whatever was edited or reconfigured since the proposal, a     *)
(* call gets a path only if proposing again now would bind the very same   *)
(* script and profile, and on bytes with the bound digest.                 *)
BoundScriptOnly ==
  path # "none" =>
    /\ bound \in Binding
    /\ Resolve(catalog, bound.entry.key) = {bound}
    /\ bytes = bound.entry.sha

(* ADR 0011: a path needs every precondition observed, through the one     *)
(* observer the policy names, with the expected value, by a thread whose   *)
(* time lay within its own timeout and, but for the calling thread's lag   *)
(* in starting it, the total deadline.  A late answer never counts.        *)
ObservationsJustify ==
  path # "none" =>
    \A i \in Preconditions :
      /\ worker[i].answer = "expected"
      /\ worker[i].at <= worker[i].until + Lag
      /\ worker[i].until <= Deadline + Lag
      /\ \E o \in ObserversOf(i) : /\ ObserversOf(i) = {o}
                                   /\ worker[i].until <= worker[i].from + o.timeout

(* ADR 0004 and 0012: a standing path names the very bytes that will run,  *)
(* under the profile this instance runs them with.                         *)
StandingCoversRun ==
  path = "standing" =>
    \E a \in policy.standing : a.covers /\ a.sha = bytes /\ a.profile = catalog.profile

(* ADR 0011: the observations of a call share one deadline, however many   *)
(* there are and however slow: none is accepted after it, but for the      *)
(* calling thread's lag in starting the worker and in judging it.          *)
DeadlineKept ==
  [][(pc = "join" /\ pc' = "observe") => now <= Deadline + Lag + Lag]_vars

(* The checks come to an end even when no adapter ever answers.            *)
ChecksEnd == pc = "observe" ~> pc = "done"

=============================================================================
