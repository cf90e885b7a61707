------------------------- MODULE DispatchChecksProofs -------------------------
(***************************************************************************)
(* The checks of a call hold what they promise for every catalog, policy,  *)
(* number of preconditions, deadline and lag.                              *)
(***************************************************************************)
EXTENDS DispatchChecks, TLAPS

(* A call that passed the binding checks, and one that found a path.       *)
Checked == pc \in {"observe", "start", "join"} \/ path # "none"

(* What an instance serves has passed its loader.                          *)
Loaded ==
  /\ catalog # NoCatalog => CatalogLoads(catalog)
  /\ PolicyLoads(policy)

BindingInv ==
  Checked =>
    /\ bound \in Binding
    /\ catalog \in Catalogs
    /\ bound.entry \in Mapped(catalog, bound.entry.key)
    /\ catalog.profile = bound.profile
    /\ bytes = bound.entry.sha

(* An observation that has been accepted, in the terms of the property.    *)
Timed(i) ==
  /\ worker[i].until <= Deadline + Lag
  /\ \E o \in ObserversOf(i) : worker[i].until <= worker[i].from + o.timeout

Accepted(i) ==
  /\ worker[i].answer = "expected"
  /\ worker[i].at <= worker[i].until + Lag
  /\ Timed(i)

(* The observation to come: its budget lies before the deadline, and the   *)
(* clock is past the reading of it by what the calling thread has lost.    *)
Ahead ==
  pc = "start" =>
    /\ index \in Preconditions
    /\ worker[index].answer = "due"
    /\ worker[index].from <= worker[index].until /\ worker[index].until <= Deadline
    /\ \E o \in ObserversOf(index) : worker[index].until <= worker[index].from + o.timeout
    /\ now <= worker[index].from + slack

(* The observation under way: the clock is past its time by no more than   *)
(* the calling thread has lost.                                            *)
UnderWay ==
  pc = "join" =>
    /\ index \in Preconditions
    /\ worker[index].answer \in Answers \cup {"running"}
    /\ Timed(index)
    /\ now <= worker[index].until + slack
    /\ worker[index].answer # "running" => worker[index].at <= worker[index].until + Lag

ObservationInv ==
  /\ pc = "idle" => index = 1
  /\ Checked => \A i \in Preconditions : i < index => Accepted(i)
  /\ Ahead /\ UnderWay

PathInv ==
  path # "none" =>
    /\ pc = "done"
    /\ index = Count + 1
    /\ path = "standing" => \E a \in policy.standing : Matches(a)

IInv == TypeOK /\ Loaded /\ BindingInv /\ ObservationInv /\ PathInv

-----------------------------------------------------------------------------

(* In a catalog that loaded, an entry is alone under its key; so what      *)
(* get(key) returns at the gate is what resolve_binding would choose.      *)
LEMMA LoadedIsFunctional ==
  ASSUME NEW cat \in Catalog, CatalogLoads(cat), NEW key \in Keys, NEW e \in Mapped(cat, key)
  PROVE  Mapped(cat, key) = {e}
<1>1. \A f \in Mapped(cat, key) : f = e
  BY DEF Mapped, CatalogLoads
<1> QED BY <1>1

(* A policy that loaded names at most one observer for a precondition.     *)
LEMMA OneObserver ==
  ASSUME PolicyLoads(policy), NEW i \in Nat, NEW o \in ObserversOf(i)
  PROVE  ObserversOf(i) = {o}
<1>1. \A q \in ObserversOf(i) : q = o
  BY DEF ObserversOf, PolicyLoads
<1> QED BY <1>1

(* Timeouts in the policy are numbers.                                     *)
LEMMA ObserverTypes ==
  ASSUME policy \in Policies, NEW i, NEW o \in ObserversOf(i)
  PROVE  o.timeout \in Nat
<1>1. policy.observers \in Seq(ObserverBinding)
  BY DocumentsAssumption DEF Policy
<1>2. o \in ObserverBinding
  BY <1>1 DEF ObserversOf
<1> QED BY <1>2 DEF ObserverBinding

LEMMA EntryTypes ==
  ASSUME NEW cat \in Catalogs, NEW key, NEW e \in Mapped(cat, key)
  PROVE  e \in Entry /\ e.key = key /\ cat.profile \in Profiles
<1>1. cat \in Catalog
  BY DocumentsAssumption
<1>2. cat.entries \in Seq(Entry) /\ cat.profile \in Profiles
  BY <1>1 DEF Catalog
<1> QED BY <1>2 DEF Mapped

(* A time budget never reaches past the deadline nor the own timeout.      *)
LEMMA BudgetFacts ==
  ASSUME now \in Nat, now < Deadline, NEW t \in Nat
  PROVE  /\ Budget(t) \in Nat
         /\ now + Budget(t) <= Deadline
         /\ Budget(t) <= t
  BY NumbersAssumption DEF Budget

LEMMA InitInv == Init => IInv
  BY NumbersAssumption, NothingAssumption
  DEF Init, IInv, TypeOK, Loaded, BindingInv, ObservationInv, Ahead, UnderWay, PathInv, Checked,
      Preconditions, Worker, Idle

-----------------------------------------------------------------------------
(* One lemma per action.                                                   *)

(* Steps of the operator before and after the call.                        *)
LEMMA ServeInv == IInv /\ Serve => IInv'
  BY NothingAssumption
  DEF Serve, IInv, TypeOK, Loaded, BindingInv, ObservationInv, Ahead, UnderWay, PathInv, Checked, timeVars

LEMMA EditScriptInv == IInv /\ EditScript => IInv'
<1> SUFFICES ASSUME IInv, EditScript PROVE IInv'
  OBVIOUS
<1>1. TypeOK'
  BY DEF IInv, TypeOK, EditScript, timeVars
<1> QED
  BY <1>1 DEF EditScript, timeVars, IInv, Loaded, BindingInv, ObservationInv, Ahead, UnderWay, PathInv,
     Checked, Timed, Accepted, ObserversOf, Matches

LEMMA ProposeInv == IInv /\ Propose => IInv'
<1> SUFFICES ASSUME IInv, Propose PROVE IInv'
  OBVIOUS
<1>1. ~Checked
  BY NothingAssumption DEF IInv, BindingInv, Propose
<1>2. bound' \in Binding \cup {Unbound}
  <2>1. CASE catalog = NoCatalog
    BY <2>1 DEF Propose
  <2>2. CASE catalog # NoCatalog
    <3>1. catalog \in Catalogs
      BY <2>2 DEF IInv, TypeOK
    <3>2. PICK key \in Keys : \E b \in Resolve(catalog, key) : bound' = b
      BY <2>2 DEF Propose
    <3>3. PICK e \in Mapped(catalog, key) : bound' = [entry |-> e, profile |-> catalog.profile]
      BY <3>2 DEF Resolve
    <3> QED BY <3>1, <3>2, <3>3, EntryTypes DEF Binding
  <2> QED BY <2>1, <2>2
<1> QED
  BY <1>1, <1>2 DEF Propose, timeVars, IInv, TypeOK, Loaded, BindingInv, ObservationInv, Ahead, UnderWay,
     PathInv, Checked

(* The binding checks establish BindingInv when they let the call go on.   *)
LEMMA CheckBindingInv == IInv /\ CheckBinding => IInv'
<1> SUFFICES ASSUME IInv, CheckBinding PROVE IInv'
  OBVIOUS
<1> USE DEF IInv, TypeOK, Refuse, operatorVars, timeVars
<1>1. path = "none" /\ catalog \in Catalogs /\ bound \in Binding \cup {Unbound}
  BY DEF CheckBinding, PathInv
<1>2. /\ bytes' \in Hashes \cup {NoFile}
      /\ pc' \in {"observe", "done"}
      /\ path' = "none"
      /\ UNCHANGED <<disk, catalog, policy, bound, index, worker, now, slack>>
  <2>1. CASE bound = Unbound
    BY <1>1, <2>1 DEF CheckBinding
  <2>2. CASE bound # Unbound
    <3>1. bound.entry.path \in Paths
      BY <1>1, <2>2 DEF Binding, Entry
    <3> QED BY <1>1, <2>2, <3>1 DEF CheckBinding
  <2> QED BY <2>1, <2>2
<1>3. TypeOK'
  BY <1>1, <1>2 DEF CheckBinding
<1>4. Loaded'
  BY <1>2 DEF Loaded
<1>5. BindingInv'
  <2> SUFFICES ASSUME pc' = "observe"
               PROVE  /\ bound \in Binding
                      /\ CatalogKeeps(bound)
                      /\ catalog.profile = bound.profile
                      /\ bytes' = bound.entry.sha
    BY <1>1, <1>2 DEF BindingInv, Checked, CatalogKeeps, Mapped
  <2> QED BY <1>1 DEF CheckBinding
<1>6. index = 1 /\ ObservationInv' /\ PathInv'
  <2>1. index = 1
    BY DEF CheckBinding, ObservationInv
  <2> QED BY <2>1, <1>2, NumbersAssumption DEF ObservationInv, Ahead, UnderWay, PathInv, Preconditions
<1> QED BY <1>3, <1>4, <1>5, <1>6

(* A worker gets a budget, or the call is refused.                         *)
LEMMA ObserveInv == IInv /\ Observe => IInv'
<1> SUFFICES ASSUME IInv, Observe PROVE IInv'
  OBVIOUS
<1> USE DEF IInv, TypeOK, Refuse, operatorVars
<1>1. /\ path = "none" /\ path' = "none" /\ index \in Preconditions
      /\ slack' = 0 /\ pc = "observe"
      /\ UNCHANGED <<disk, catalog, policy, bound, bytes, index, now>>
  BY NumbersAssumption DEF Observe, PathInv, Preconditions
<1>2. CASE worker' = worker /\ pc' = "done"
  <2>1. TypeOK'
    BY <1>1, <1>2, NumbersAssumption DEF Observe
  <2>2. Loaded'
    BY <1>1 DEF Loaded
  <2>3. BindingInv' /\ ObservationInv' /\ PathInv'
    BY <1>1, <1>2 DEF BindingInv, ObservationInv, Ahead, UnderWay, PathInv, Checked
  <2> QED BY <2>1, <2>2, <2>3
<1>3. ASSUME NEW o \in ObserversOf(index), now < Deadline,
             worker' = [worker EXCEPT ![index] =
               [answer |-> "due", from |-> now, until |-> now + Budget(o.timeout), at |-> 0]],
             pc' = "start", code' = code
      PROVE  IInv'
  <2>1. o.timeout \in Nat
    BY ObserverTypes
  <2>2. /\ Budget(o.timeout) \in Nat
        /\ now + Budget(o.timeout) <= Deadline
        /\ Budget(o.timeout) <= o.timeout
    BY <1>3, <2>1, BudgetFacts
  <2>3. /\ worker'[index] = [answer |-> "due", from |-> now,
                             until |-> now + Budget(o.timeout), at |-> 0]
        /\ \A i \in Preconditions : i # index => worker'[i] = worker[i]
    BY <1>1, <1>3
  <2>4. TypeOK'
    BY <1>1, <1>3, <2>2, NumbersAssumption DEF Worker
  <2>5. Loaded'
    BY <1>1 DEF Loaded
  <2>6. BindingInv' /\ PathInv'
    BY <1>1, <1>3 DEF BindingInv, PathInv, Checked
  <2>7. now + Budget(o.timeout) <= now + o.timeout /\ now <= now + Budget(o.timeout)
    BY <2>1, <2>2
  <2>8. Ahead' /\ UnderWay'
    <3>1. \E q \in ObserversOf(index)' : worker'[index].until <= worker'[index].from + q.timeout
      BY <1>1, <2>3, <2>7 DEF ObserversOf
    <3>2. now <= now + 0
      OBVIOUS
    <3> QED BY <1>1, <1>3, <2>2, <2>3, <2>7, <3>1, <3>2 DEF Ahead, UnderWay
  <2>9. \A i \in Preconditions : i < index => Accepted(i)'
    <3> SUFFICES ASSUME NEW i \in Preconditions, i < index PROVE Accepted(i)'
      OBVIOUS
    <3>1. Accepted(i)
      BY <1>1 DEF ObservationInv, Checked
    <3>2. worker'[i] = worker[i]
      BY <1>1, <2>3 DEF Preconditions
    <3> QED BY <1>1, <3>1, <3>2 DEF Accepted, Timed, ObserversOf
  <2>10. ObservationInv'
    BY <1>1, <1>3, <2>8, <2>9 DEF ObservationInv
  <2> QED BY <2>4, <2>5, <2>6, <2>10
<1> QED BY <1>2, <1>3 DEF Observe

(* The budget is kept when the worker starts, up to one lag late.          *)
LEMMA StartWorkerInv == IInv /\ StartWorker => IInv'
<1> SUFFICES ASSUME IInv, StartWorker PROVE IInv'
  OBVIOUS
<1> USE DEF IInv, TypeOK, operatorVars
<1>1. /\ pc = "start" /\ path = "none" /\ index \in Preconditions
      /\ worker[index] \in Worker /\ now \in Nat /\ slack \in Nat /\ slack <= Lag
      /\ worker[index].from <= worker[index].until /\ worker[index].until <= Deadline
      /\ now <= worker[index].from + slack
  BY NumbersAssumption DEF StartWorker, PathInv, ObservationInv, Ahead
<1>2. PICK budget : budget = worker[index].until - worker[index].from
  OBVIOUS
<1>3. /\ worker[index].from \in Nat /\ worker[index].until \in Nat
      /\ budget \in Nat
      /\ now + budget \in Nat /\ now <= now + budget + 0
      /\ now + budget <= Deadline + Lag
  BY <1>1, <1>2, NumbersAssumption DEF Worker
<1>4. PICK o \in ObserversOf(index) : worker[index].until <= worker[index].from + o.timeout
  BY <1>1 DEF ObservationInv, Ahead
<1>5. now + budget <= now + o.timeout
  <2>1. o.timeout \in Nat
    BY <1>4, ObserverTypes
  <2> QED BY <1>1, <1>2, <1>3, <1>4, <2>1
<1>6. /\ worker'[index] = [answer |-> "running", from |-> now, until |-> now + budget, at |-> 0]
      /\ \A i \in Preconditions : i # index => worker'[i] = worker[i]
      /\ worker' \in [Preconditions -> Worker]
      /\ pc' = "join" /\ slack' = 0
      /\ UNCHANGED <<disk, catalog, policy, bound, bytes, index, now, path, code>>
  BY <1>1, <1>2, <1>3 DEF StartWorker, Worker
<1>7. TypeOK'
  BY <1>1, <1>6, NumbersAssumption
<1>8. Loaded' /\ BindingInv' /\ PathInv'
  BY <1>1, <1>6 DEF Loaded, BindingInv, PathInv, Checked
<1>9. Timed(index)'
  BY <1>3, <1>4, <1>5, <1>6 DEF Timed, ObserversOf
<1>10. Ahead' /\ UnderWay'
  BY <1>1, <1>3, <1>6, <1>9 DEF Ahead, UnderWay
<1>11. \A i \in Preconditions : i < index => Accepted(i)'
  <2> SUFFICES ASSUME NEW i \in Preconditions, i < index PROVE Accepted(i)'
    OBVIOUS
  <2>1. Accepted(i)
    BY <1>1 DEF ObservationInv, Checked
  <2>2. worker'[i] = worker[i]
    BY <1>1, <1>6 DEF Preconditions
  <2> QED BY <1>6, <2>1, <2>2 DEF Accepted, Timed, ObserversOf
<1>12. ObservationInv'
  BY <1>6, <1>10, <1>11 DEF ObservationInv
<1> QED BY <1>7, <1>8, <1>12

(* An answer changes nothing but the one running worker.                   *)
LEMMA AnswerInv == \A i \in Preconditions : IInv /\ Answer(i) => IInv'
<1> SUFFICES ASSUME NEW i \in Preconditions, IInv, Answer(i) PROVE IInv'
  OBVIOUS
<1> USE DEF IInv, TypeOK, operatorVars
<1>1. PICK a \in Answers : worker' = [worker EXCEPT ![i] =
         [answer |-> a, from |-> worker[i].from, until |-> worker[i].until, at |-> now]]
  BY DEF Answer
<1>2. /\ worker'[i].answer = a /\ worker'[i].at = now
      /\ worker'[i].from = worker[i].from /\ worker'[i].until = worker[i].until
      /\ worker[i].answer = "running"
      /\ worker'[i] \in Worker
      /\ \A j \in Preconditions : j # i => worker'[j] = worker[j]
      /\ UNCHANGED <<disk, catalog, policy, bound, pc, bytes, index, now, slack, path, code>>
  <2>1. worker \in [Preconditions -> Worker] /\ worker[i] \in Worker /\ now \in Nat
    OBVIOUS
  <2> QED BY <1>1, <2>1 DEF Answer, Worker
<1>3. TypeOK'
  BY <1>1, <1>2
<1>4. Loaded' /\ BindingInv' /\ PathInv'
  BY <1>2 DEF Loaded, BindingInv, PathInv, Checked, Matches
<1>5. \A j \in Preconditions : Timed(j) => Timed(j)'
  BY <1>2 DEF Timed, ObserversOf
<1>6. \A j \in Preconditions : Accepted(j) => Accepted(j)'
  BY <1>2, <1>5 DEF Accepted
<1>7. UnderWay'
  <2> SUFFICES ASSUME pc = "join" PROVE UnderWay'
    BY <1>2 DEF UnderWay
  <2>1. index \in Preconditions /\ Timed(index)' /\ now <= worker'[index].until + slack
    BY <1>2, <1>5 DEF ObservationInv, Ahead, UnderWay
  <2>2. worker'[index].answer \in Answers \cup {"running"}
    BY <1>2, <2>1 DEF ObservationInv, Ahead, UnderWay
  <2>3. worker'[index].answer # "running" => worker'[index].at <= worker'[index].until + Lag
    <3>1. CASE index = i
      <4>1. /\ now \in Nat /\ slack \in Nat /\ slack <= Lag
            /\ worker'[i].until \in Nat /\ now <= worker'[i].until + slack
        BY <1>2, <2>1, <3>1 DEF Worker
      <4> QED BY <4>1, <1>2, <3>1, NumbersAssumption
    <3>2. CASE index # i
      BY <1>2, <2>1, <3>2 DEF ObservationInv, Ahead, UnderWay
    <3> QED BY <3>1, <3>2
  <2> QED BY <1>2, <2>1, <2>2, <2>3 DEF UnderWay
<1>8. Ahead'
  <2> SUFFICES ASSUME pc = "start" PROVE Ahead'
    BY <1>2 DEF Ahead
  <2>1. index # i
    BY <1>2 DEF ObservationInv, Ahead
  <2> QED BY <1>2, <2>1 DEF ObservationInv, Ahead, ObserversOf
<1>9. ObservationInv'
  BY <1>2, <1>6, <1>7, <1>8 DEF ObservationInv, Checked
<1> QED BY <1>3, <1>4, <1>9

(* Only an answer in time moves the call on; the rest refuse it.           *)
LEMMA JudgeInv == IInv /\ Judge => IInv'
<1> SUFFICES ASSUME IInv, Judge PROVE IInv'
  OBVIOUS
<1> USE DEF IInv, TypeOK, Refuse, operatorVars
<1>1. /\ pc = "join" /\ path = "none" /\ path' = "none" /\ slack' = 0
      /\ index \in Preconditions
      /\ UNCHANGED <<disk, catalog, policy, bound, bytes, worker, now>>
  BY DEF Judge, Joined, PathInv, ObservationInv, Ahead, UnderWay
<1>2. CASE pc' = "done" /\ index' = index
  <2>1. TypeOK'
    BY <1>1, <1>2, NumbersAssumption DEF Judge
  <2>2. Loaded'
    BY <1>1 DEF Loaded
  <2>3. BindingInv' /\ ObservationInv' /\ PathInv'
    BY <1>1, <1>2 DEF BindingInv, ObservationInv, Ahead, UnderWay, PathInv, Checked
  <2> QED BY <2>1, <2>2, <2>3
<1>3. CASE /\ worker[index].answer = "expected"
           /\ pc' = "observe" /\ index' = index + 1 /\ UNCHANGED <<path, code>>
  <2>1. TypeOK'
    BY <1>1, <1>3, NumbersAssumption DEF Preconditions
  <2>2. Loaded' /\ BindingInv' /\ PathInv'
    BY <1>1, <1>3 DEF Loaded, BindingInv, PathInv, Checked
  <2>3. Accepted(index)
    BY <1>1, <1>3 DEF ObservationInv, Ahead, UnderWay, Accepted
  <2>4. \A i \in Preconditions : i < index + 1 => Accepted(i)
    BY <1>1, <2>3 DEF ObservationInv, Checked, Preconditions
  <2>5. \A i \in Preconditions : Accepted(i) => Accepted(i)'
    BY <1>1 DEF Accepted, Timed, ObserversOf
  <2>6. ObservationInv'
    BY <1>3, <2>4, <2>5 DEF ObservationInv, Ahead, UnderWay
  <2> QED BY <2>1, <2>2, <2>6
<1> QED BY <1>2, <1>3 DEF Judge

(* A path is found when every precondition has been accepted.              *)
LEMMA AuthorizeInv == IInv /\ Authorize => IInv'
<1> SUFFICES ASSUME IInv, Authorize PROVE IInv'
  OBVIOUS
<1> USE DEF IInv, TypeOK, operatorVars, timeVars
<1>1. /\ pc = "observe" /\ path = "none" /\ pc' = "done"
      /\ index = Count + 1
      /\ path' \in {"standing", "approval"}
      /\ path' = "standing" => \E a \in policy.standing : Matches(a)
      /\ UNCHANGED <<disk, catalog, policy, bound, bytes, index, worker, now, slack, code>>
  BY NumbersAssumption DEF Authorize, PathInv
<1>2. TypeOK' /\ Loaded'
  BY <1>1 DEF Loaded
<1>3. BindingInv'
  BY <1>1 DEF BindingInv, Checked
<1>4. ObservationInv'
  BY <1>1 DEF ObservationInv, Ahead, UnderWay, Checked, Accepted, Timed, ObserversOf
<1>5. PathInv'
  BY <1>1 DEF PathInv, Matches
<1> QED BY <1>2, <1>3, <1>4, <1>5

(* Time passes a running observation only up to its end, then at the cost  *)
(* of the calling thread's lag.                                            *)
LEMMA TickInv == IInv /\ Tick => IInv'
<1> SUFFICES ASSUME IInv, Tick PROVE IInv'
  OBVIOUS
<1> USE DEF IInv, TypeOK, operatorVars
<1>1. /\ now' = now + 1 /\ pc \in {"observe", "start", "join"}
      /\ slack' = IF CanGo THEN slack + 1 ELSE 0
      /\ CanGo => slack < Lag
      /\ UNCHANGED <<disk, catalog, policy, bound, pc, bytes, index, worker, path, code>>
  BY DEF Tick
<1>2. TypeOK'
  BY <1>1, NumbersAssumption
<1>3. Loaded' /\ BindingInv' /\ PathInv'
  BY <1>1 DEF Loaded, BindingInv, PathInv, Checked, Matches
<1>4. UnderWay'
  <2> SUFFICES ASSUME pc = "join"
               PROVE  now' <= worker[index].until + slack'
    BY <1>1 DEF ObservationInv, Ahead, UnderWay, Timed, ObserversOf
  <2>1. worker[index].until \in Nat /\ now <= worker[index].until + slack
    BY DEF ObservationInv, Ahead, UnderWay, Worker
  <2>2. CASE Joined
    BY <1>1, <2>1, <2>2 DEF CanGo
  <2>3. CASE ~Joined
    BY <1>1, <2>1, <2>3 DEF Joined, CanGo
  <2> QED BY <2>2, <2>3
<1>5. Ahead'
  <2> SUFFICES ASSUME pc = "start" PROVE now' <= worker[index].from + slack'
    BY <1>1 DEF ObservationInv, Ahead, ObserversOf
  <2>1. worker[index].from \in Nat /\ now <= worker[index].from + slack
    BY DEF ObservationInv, Ahead, Worker
  <2> QED BY <1>1, <2>1 DEF CanGo
<1>6. ObservationInv'
  BY <1>1, <1>4, <1>5 DEF ObservationInv, Checked, Accepted, Timed, ObserversOf
<1> QED BY <1>2, <1>3, <1>6

LEMMA StutterInv == IInv /\ UNCHANGED vars => IInv'
  BY DEF vars, IInv, TypeOK, Loaded, BindingInv, ObservationInv, Ahead, UnderWay, PathInv, Checked,
     Accepted, Timed, ObserversOf, Matches

LEMMA NextInv == IInv /\ [Next]_vars => IInv'
  BY ServeInv, EditScriptInv, ProposeInv, CheckBindingInv, ObserveInv, StartWorkerInv, AnswerInv, JudgeInv,
     AuthorizeInv, TickInv, StutterInv
  DEF Next, Caller

-----------------------------------------------------------------------------
(* What follows.                                                           *)

(* What the checks have established so far, at every point of a call, is   *)
(* what its path will rest on.                                             *)
THEOREM ChecksInvariant == Spec => []IInv
<1> QED BY InitInv, NextInv, PTL DEF Spec

(* Every state of a call under any documents is well typed: the index      *)
(* stays in range and a time budget is never negative.                     *)
THEOREM ChecksTypes == Spec => []TypeOK
<1>1. IInv => TypeOK
  BY DEF IInv
<1> QED BY <1>1, ChecksInvariant, PTL

(* Whatever was edited or reconfigured since the proposal, a path is found *)
(* only for the script and profile that would be bound again now.          *)
THEOREM ScriptIsBound == Spec => []BoundScriptOnly
<1>1. IInv => BoundScriptOnly
  <2> SUFFICES ASSUME IInv, path # "none" PROVE BoundScriptOnly
    BY DEF BoundScriptOnly
  <2>1. /\ bound \in Binding /\ catalog \in Catalogs /\ bytes = bound.entry.sha
        /\ bound.entry \in Mapped(catalog, bound.entry.key)
        /\ catalog.profile = bound.profile
    BY DEF IInv, BindingInv, Checked
  <2>2. catalog \in Catalog /\ CatalogLoads(catalog) /\ bound.entry.key \in Keys
    BY <2>1, DocumentsAssumption, NothingAssumption DEF IInv, Loaded, Binding, Entry
  <2>3. Mapped(catalog, bound.entry.key) = {bound.entry}
    BY <2>1, <2>2, LoadedIsFunctional
  <2>4. bound = [entry |-> bound.entry, profile |-> catalog.profile]
    BY <2>1 DEF Binding
  <2>5. Resolve(catalog, bound.entry.key) = {bound}
    BY <2>3, <2>4 DEF Resolve
  <2> QED BY <2>1, <2>5 DEF BoundScriptOnly
<1> QED BY <1>1, ChecksInvariant, PTL

(* A path rests on one timely, expected answer per precondition.           *)
THEOREM PathIsObserved == Spec => []ObservationsJustify
<1>1. IInv => ObservationsJustify
  <2> SUFFICES ASSUME IInv, path # "none", NEW i \in Preconditions
               PROVE  /\ Accepted(i)
                      /\ \E o \in ObserversOf(i) :
                           /\ ObserversOf(i) = {o}
                           /\ worker[i].until <= worker[i].from + o.timeout
    BY DEF ObservationsJustify, Accepted, Timed
  <2>1. Accepted(i)
    BY NumbersAssumption DEF IInv, PathInv, ObservationInv, Checked, Preconditions
  <2>2. PICK o \in ObserversOf(i) : worker[i].until <= worker[i].from + o.timeout
    BY <2>1 DEF Accepted, Timed
  <2>3. ObserversOf(i) = {o}
    BY OneObserver DEF IInv, Loaded, Preconditions
  <2> QED BY <2>1, <2>2, <2>3
<1> QED BY <1>1, ChecksInvariant, PTL

(* A standing path names the bytes and the profile of the run.             *)
THEOREM StandingIsExact == Spec => []StandingCoversRun
<1>1. IInv => StandingCoversRun
  BY DEF IInv, PathInv, BindingInv, Checked, StandingCoversRun, Matches
<1> QED BY <1>1, ChecksInvariant, PTL

(* No observation is accepted past the one deadline of a call, whatever    *)
(* the number of preconditions and the timeouts of their observers.        *)
THEOREM OneDeadline == Spec => DeadlineKept
<1>1. IInv /\ [Next]_vars =>
        [(pc = "join" /\ pc' = "observe") => now <= Deadline + Lag + Lag]_vars
  <2> SUFFICES ASSUME IInv, pc = "join" PROVE now <= Deadline + Lag + Lag
    OBVIOUS
  <2>1. /\ now <= worker[index].until + slack /\ worker[index].until <= Deadline + Lag
        /\ worker[index].until \in Nat
    BY DEF IInv, TypeOK, ObservationInv, Ahead, UnderWay, Timed, Worker
  <2> QED BY <2>1, NumbersAssumption DEF IInv, TypeOK
<1> QED BY <1>1, ChecksInvariant, PTL DEF Spec, DeadlineKept

-----------------------------------------------------------------------------
(* How long a call can take.                                               *)

(* A call starts an observation by the deadline and one lag, leaves it     *)
(* within one lag more, and takes up another or gives up within a third.   *)
InTime == now <= Deadline + Lag + Lag + Lag

TimeInv ==
  /\ pc = "idle" => now = 0
  /\ pc = "observe" => now <= Deadline + Lag + Lag + slack
  /\ pc = "start" => now <= Deadline + slack
  /\ InTime

LEMMA TimeInit == Init => TimeInv
  BY NumbersAssumption DEF Init, TimeInv, InTime

(* The clock during an observation, from the invariant of the checks.      *)
LEMMA JoinInTime ==
  ASSUME IInv, pc = "join"
  PROVE  now <= Deadline + Lag + slack
<1>1. /\ worker[index].until \in Nat /\ worker[index].until <= Deadline + Lag
      /\ now <= worker[index].until + slack
  BY DEF IInv, TypeOK, ObservationInv, Ahead, UnderWay, Timed, Worker
<1> QED BY <1>1, NumbersAssumption DEF IInv, TypeOK

LEMMA TimeNext == IInv /\ TimeInv /\ [Next]_vars => TimeInv'
<1> SUFFICES ASSUME IInv, TimeInv, [Next]_vars PROVE TimeInv'
  OBVIOUS
<1>1. now \in Nat /\ slack \in 0 .. Lag /\ Lag \in Nat /\ Deadline \in Nat
  BY NumbersAssumption DEF IInv, TypeOK
<1>2. CASE UNCHANGED <<now, slack, pc>>
  BY <1>2 DEF TimeInv, InTime
<1>3. CASE CheckBinding
  <2>1. pc = "idle" /\ pc' \in {"observe", "done"} /\ UNCHANGED timeVars
    BY <1>3 DEF CheckBinding, Refuse
  <2> QED BY <1>1, <2>1 DEF timeVars, TimeInv, InTime
<1>4. CASE Observe
  <2>1. /\ pc' = "done" \/ (pc' = "start" /\ now < Deadline)
        /\ now' = now /\ slack' = 0
    BY <1>4 DEF Observe, Refuse
  <2> QED BY <1>1, <2>1 DEF TimeInv, InTime
<1>start. CASE StartWorker
  BY <1>start DEF StartWorker, TimeInv, InTime
<1>5. CASE Judge
  <2>1. pc = "join" /\ pc' \in {"observe", "done"} /\ now' = now /\ slack' = 0
    BY <1>5 DEF Judge, Joined, Refuse
  <2>2. now <= Deadline + Lag + slack
    BY <2>1, JoinInTime
  <2> QED BY <1>1, <2>1, <2>2 DEF TimeInv, InTime
<1>6. CASE Authorize
  BY <1>6 DEF Authorize, timeVars, TimeInv, InTime
<1>7. CASE Tick
  <2>1. /\ pc' = pc /\ pc \in {"observe", "start", "join"} /\ now' = now + 1
        /\ slack' = IF CanGo THEN slack + 1 ELSE 0
        /\ CanGo => slack < Lag
    BY <1>7 DEF Tick
  <2>2. CASE pc \in {"observe", "start"}
    BY <1>1, <2>1, <2>2 DEF CanGo, TimeInv, InTime
  <2>3. CASE pc = "join"
    <3>1. IInv'
      BY <1>7, TickInv
    <3>2. /\ worker'[index'].until \in Nat /\ worker'[index'].until <= Deadline + Lag
          /\ now' <= worker'[index'].until + slack' /\ slack' \in 0 .. Lag /\ now' \in Nat
      BY <2>1, <2>3, <3>1 DEF IInv, TypeOK, ObservationInv, Ahead, UnderWay, Timed, Worker
    <3> QED BY <1>1, <2>1, <2>3, <3>2 DEF TimeInv, InTime
  <2> QED BY <2>1, <2>2, <2>3
<1> QED
  BY <1>2, <1>3, <1>4, <1>start, <1>5, <1>6, <1>7
  DEF Next, Caller, Serve, EditScript, Propose, Answer, timeVars, vars

(* ADR 0011 and observe in preconditions.py: the deadline bounds the       *)
(* checks of a call and not only each observation.  Whatever the number of *)
(* preconditions, their observers' timeouts and the adapters' answers, no  *)
(* check goes on later than three lags of the calling thread past it.      *)
THEOREM ChecksAreTimely == Spec => []InTime
<1>1. TimeInv => InTime
  BY DEF TimeInv
<1> QED BY <1>1, ChecksInvariant, TimeInit, TimeNext, PTL DEF Spec

(* Where a call stands: three steps for each precondition, then the end.   *)
Place == CASE pc = "idle" -> 0
           [] pc = "observe" -> 3 * index
           [] pc = "start" -> 3 * index + 1
           [] pc = "join" -> 3 * index + 2
           [] pc = "done" -> 3 * Count + 4

(* While an observation is under way the clock can still reach its end,    *)
(* and then there is something to judge.                                   *)
CanGoOn ==
  pc = "join" =>
    /\ Joined \/ (now < worker[index].until /\ worker[index].until < Horizon)
    /\ worker[index].answer \in Answers \cup {"running"}

GoesForward == [][pc' # pc \/ index' # index => Place < Place' /\ Place' <= 3 * Count + 4]_vars

(* The safety half of ChecksEnd: a call that leaves a place never comes    *)
(* back to it, there are finitely many, and no worker.join is waited on    *)
(* for something that neither the adapter nor the clock can bring.         *)
THEOREM ChecksGoForward == Spec => []CanGoOn /\ GoesForward
<1>1. IInv => CanGoOn
  <2> SUFFICES ASSUME IInv, pc = "join"
               PROVE  /\ Joined \/ (now < worker[index].until /\ worker[index].until < Horizon)
                      /\ worker[index].answer \in Answers \cup {"running"}
    BY DEF CanGoOn
  <2>1. /\ worker[index] \in Worker /\ worker[index].answer \in Answers \cup {"running"}
        /\ worker[index].until <= Deadline + Lag /\ now \in Nat
    BY DEF IInv, TypeOK, ObservationInv, Ahead, UnderWay, Timed
  <2> QED BY <2>1, NumbersAssumption DEF Worker, Joined
<1>2. IInv /\ [Next]_vars =>
        [pc' # pc \/ index' # index => Place < Place' /\ Place' <= 3 * Count + 4]_vars
  <2> SUFFICES ASSUME IInv, Next, pc' # pc \/ index' # index
               PROVE  Place < Place' /\ Place' <= 3 * Count + 4
    OBVIOUS
  <2>1. index \in 1 .. Count + 1 /\ Count \in Nat
    BY NumbersAssumption DEF IInv, TypeOK
  <2>2. CASE CheckBinding
    <3>1. pc = "idle" /\ pc' \in {"observe", "done"} /\ index' = index
      BY <2>2 DEF CheckBinding, Refuse
    <3> QED BY <2>1, <3>1 DEF Place
  <2>3. CASE Observe
    <3>1. pc = "observe" /\ pc' \in {"start", "done"} /\ index' = index /\ index <= Count
      BY <2>3 DEF Observe, Refuse
    <3> QED BY <2>1, <3>1 DEF Place
  <2>start. CASE StartWorker
    <3>1. pc = "start" /\ pc' = "join" /\ index' = index /\ index \in Preconditions
      BY <2>start DEF StartWorker, IInv, ObservationInv, Ahead
    <3> QED BY <2>1, <3>1 DEF Place, Preconditions
  <2>4. CASE Judge
    <3>1. pc = "join" /\ index \in Preconditions
      BY <2>4 DEF Judge, Joined, IInv, ObservationInv, Ahead, UnderWay
    <3>2. \/ pc' = "done" /\ index' = index
          \/ pc' = "observe" /\ index' = index + 1
      BY <2>4 DEF Judge, Refuse
    <3> QED BY <2>1, <3>1, <3>2 DEF Place, Preconditions
  <2>5. CASE Authorize
    <3>1. pc = "observe" /\ pc' = "done" /\ index' = index
      BY <2>5 DEF Authorize
    <3> QED BY <2>1, <3>1 DEF Place
  <2> QED
    BY <2>2, <2>3, <2>start, <2>4, <2>5
    DEF Next, Caller, Serve, EditScript, Propose, Answer, Tick, timeVars
<1> QED BY <1>1, <1>2, ChecksInvariant, PTL DEF Spec, GoesForward

=============================================================================
