--------------------------- MODULE StartupRecovery ---------------------------
(***************************************************************************)
(* Startup recovery at the grain of its file locks: service instances that *)
(* start, serve and crash while other instances start beside them          *)
(* (owner.py, recovery.py, build_http_server in service.py).               *)
(*                                                                         *)
(* A probe is not a pure read.  It takes the owner's lock to see that      *)
(* nobody holds it and then lets it go, so two startups can probe the same *)
(* lock at once.  Reconciliation probes inside the database's write lock;  *)
(* the temp sweep probes outside any lock.                                 *)
(*                                                                         *)
(* Every instance stands for its owner id too, and dispatches at most one  *)
(* execution, which owns one staging directory.                            *)
(***************************************************************************)
EXTENDS Integers, FiniteSets

CONSTANTS
  Owners,   \* service process instances and their owner ids
  Nobody,   \* a lock no process holds, a write lock no unit of work holds
  NoFile    \* a lock file that does not exist

ASSUME NobodyAssumption == Nobody \notin Owners /\ NoFile \notin Owners /\ Nobody # NoFile

VARIABLES
  stage,   \* where each instance is in its life
  lock,    \* who holds each owner's lock file
  writer,  \* the startup whose reconciliation holds the write lock
  exec,    \* each instance's execution, as the committed audit shows it
  dir,     \* each instance's staging directory exists
  todo,    \* starts (reconciling) or directories (sweeping) still to visit
  probing, \* the dead owner whose lock a startup's probe holds right now
  verdicts \* the owners a startup's reconciliation has found dead so far

vars == <<stage, lock, writer, exec, dir, todo, probing, verdicts>>

Stages == {"new", "reconciling", "recovered", "sweeping", "opening", "live", "dead", "failed"}

(* "refused" is a start in whose trail a refusal stands, "unknown" the     *)
(* outcome a recovery appended, "ended" one of the gate.                   *)
Unclosed == {"started", "refused"}
ExecStates == {"none", "ended", "unknown", "unknown-after-end", "ended-after-unknown"} \cup Unclosed

Init ==
  /\ stage = [i \in Owners |-> "new"]
  /\ lock = [i \in Owners |-> NoFile]
  /\ writer = Nobody
  /\ exec = [i \in Owners |-> "none"]
  /\ dir = [i \in Owners |-> FALSE]
  /\ todo = [i \in Owners |-> {}]
  /\ probing = [i \in Owners |-> Nobody]
  /\ verdicts = [i \in Owners |-> {}]

-----------------------------------------------------------------------------
(* The probe.                                                              *)

(* The next owner to look at: a sweep acts on each verdict at once, a      *)
(* reconciliation appends under one unit of work at its end.               *)
Visits(i, o) ==
  /\ o \in todo[i] /\ probing[i] = Nobody
  /\ stage[i] = "sweeping" => verdicts[i] = {}

(* A lock somebody holds reads as a live owner, a missing one as           *)
(* indeterminate: either way the startup passes on.                        *)
ProbeWaiting(i, o) ==
  /\ Visits(i, o)
  /\ lock[o] = NoFile
  /\ todo' = [todo EXCEPT ![i] = @ \ {o}]
  /\ UNCHANGED <<stage, lock, writer, exec, dir, probing, verdicts>>
ProbeHeldAsDead(i, o) ==
  /\ Visits(i, o)
  /\ lock[o] # Nobody
  /\ todo' = [todo EXCEPT ![i] = @ \ {o}]
  /\ verdicts' = [verdicts EXCEPT ![i] = @ \cup {o}]
  /\ UNCHANGED <<stage, lock, writer, exec, dir, probing>>
ProbeNotDead(i, o) ==
  /\ Visits(i, o)
  /\ lock[o] # Nobody
  /\ todo' = [todo EXCEPT ![i] = @ \ {o}]
  /\ UNCHANGED <<stage, lock, writer, exec, dir, probing, verdicts>>

ProbeAcquire(i, o) ==
  /\ Visits(i, o)
  /\ lock[o] = Nobody
  /\ lock' = [lock EXCEPT ![o] = i]
  /\ probing' = [probing EXCEPT ![i] = o]
  /\ UNCHANGED <<stage, writer, exec, dir, todo, verdicts>>

(* The lock is let go and the verdict is "dead".                           *)
ProbeKeepingLock(i) ==
  /\ probing[i] # Nobody
  /\ verdicts' = [verdicts EXCEPT ![i] = @ \cup {probing[i]}]
  /\ todo' = [todo EXCEPT ![i] = @ \ {probing[i]}]
  /\ probing' = [probing EXCEPT ![i] = Nobody]
  /\ UNCHANGED <<stage, lock, writer, exec, dir>>
ProbeRelease(i) ==
  /\ probing[i] # Nobody
  /\ lock' = [lock EXCEPT ![probing[i]] = Nobody]
  /\ verdicts' = [verdicts EXCEPT ![i] = @ \cup {probing[i]}]
  /\ todo' = [todo EXCEPT ![i] = @ \ {probing[i]}]
  /\ probing' = [probing EXCEPT ![i] = Nobody]
  /\ UNCHANGED <<stage, writer, exec, dir>>

-----------------------------------------------------------------------------
(* Startup.                                                                *)

(* BEGIN IMMEDIATE, then the starts without a terminal outcome: nobody     *)
(* else writes until this unit of work ends.                               *)
EveryStart == {o \in Owners : exec[o] # "none"}
OpenStartsAnyOutcome == {o \in Owners : exec[o] = "started"}
OpenStarts == {o \in Owners : exec[o] \in Unclosed}
BeginReconcile(i) ==
  /\ stage[i] = "new" /\ writer = Nobody
  /\ writer' = i
  /\ stage' = [stage EXCEPT ![i] = "reconciling"]
  /\ todo' = [todo EXCEPT ![i] = OpenStarts]
  /\ UNCHANGED <<lock, exec, dir, probing, verdicts>>

(* The recovery appends commit together.                                   *)
RecoveredAsFailure(x) == IF x \in Unclosed THEN "failure" ELSE "unknown-after-end"
Recovered(x) == IF x \in Unclosed THEN "unknown" ELSE "unknown-after-end"
CommitReconcile(i) ==
  /\ stage[i] = "reconciling" /\ todo[i] = {} /\ probing[i] = Nobody
  /\ exec' = [o \in Owners |-> IF o \in verdicts[i] THEN Recovered(exec[o]) ELSE exec[o]]
  /\ writer' = Nobody
  /\ stage' = [stage EXCEPT ![i] = "recovered"]
  /\ verdicts' = [verdicts EXCEPT ![i] = {}]
  /\ UNCHANGED <<lock, dir, todo, probing>>

(* sweep_exec_tmp_leftovers looks at the directories its glob saw, at none *)
(* when the glob fails.                                                    *)
ListLeftovers(i) ==
  /\ stage[i] = "recovered"
  /\ stage' = [stage EXCEPT ![i] = "sweeping"]
  /\ \E seen \in {{}, {o \in Owners : dir[o]}} : todo' = [todo EXCEPT ![i] = seen]
  /\ UNCHANGED <<lock, writer, exec, dir, probing, verdicts>>

(* A dead verdict is followed by rmtree, best effort and after the lock is *)
(* let go.                                                                 *)
SweepEverything(i) == {o \in Owners : dir[o]}
SweepSet(i) == verdicts[i]
RemoveLeftover(i) ==
  /\ stage[i] = "sweeping" /\ probing[i] = Nobody
  /\ SweepSet(i) # {}
  /\ \/ dir' = [o \in Owners |-> dir[o] /\ o \notin SweepSet(i)]
     \/ UNCHANGED dir
  /\ verdicts' = [verdicts EXCEPT ![i] = {}]
  /\ UNCHANGED <<stage, lock, writer, exec, todo, probing>>

(* ExecutionOwner: the lock file is created, then locked.                  *)
CreateLockFile(i) ==
  /\ stage[i] = "sweeping" /\ todo[i] = {} /\ probing[i] = Nobody /\ verdicts[i] = {}
  /\ stage' = [stage EXCEPT ![i] = "opening"]
  /\ lock' = [lock EXCEPT ![i] = Nobody]
  /\ UNCHANGED <<writer, exec, dir, todo, probing, verdicts>>

AcquireLock(i) ==
  /\ stage[i] = "opening" /\ lock[i] = Nobody
  /\ lock' = [lock EXCEPT ![i] = i]
  /\ stage' = [stage EXCEPT ![i] = "live"]
  /\ UNCHANGED <<writer, exec, dir, todo, probing, verdicts>>

-----------------------------------------------------------------------------
(* Serving.                                                                *)

(* The dispatch unit of work, then the staging directory of its run.       *)
DispatchOne(i) ==
  /\ stage[i] = "live" /\ exec[i] = "none" /\ writer = Nobody
  /\ exec' = [exec EXCEPT ![i] = "started"]
  /\ UNCHANGED <<stage, lock, writer, dir, todo, probing, verdicts>>

Stage(i) ==
  /\ stage[i] = "live" /\ exec[i] \in Unclosed /\ ~dir[i]
  /\ dir' = [dir EXCEPT ![i] = TRUE]
  /\ UNCHANGED <<stage, lock, writer, exec, todo, probing, verdicts>>

(* run_staged removes its directory before it returns; the outcome is      *)
(* appended after that, whatever the trail already holds.                  *)
Unstage(i) ==
  /\ stage[i] = "live" /\ dir[i]
  /\ dir' = [dir EXCEPT ![i] = FALSE]
  /\ UNCHANGED <<stage, lock, writer, exec, todo, probing, verdicts>>

AppendOutcome(i) ==
  /\ stage[i] = "live" /\ exec[i] \in Unclosed \cup {"unknown"} /\ ~dir[i] /\ writer = Nobody
  /\ exec' = [exec EXCEPT ![i] = IF @ \in Unclosed THEN "ended" ELSE "ended-after-unknown"]
  /\ UNCHANGED <<stage, lock, writer, dir, todo, probing, verdicts>>

(* A second call on the token of a start, at any server, had resolved it   *)
(* before the start and is refused after it, with an event of the same     *)
(* proposal.                                                               *)
RefuseSecond(i, o) ==
  /\ stage[i] = "live" /\ exec[o] = "started" /\ writer = Nobody
  /\ exec' = [exec EXCEPT ![o] = "refused"]
  /\ UNCHANGED <<stage, lock, writer, dir, todo, probing, verdicts>>

(* A process dies at any point: its own lock and one its probe holds are   *)
(* released by the operating system, an uncommitted reconciliation rolls   *)
(* back, its staging directory stays.                                      *)
Crash(i) ==
  /\ stage[i] \in {"reconciling", "recovered", "sweeping", "opening", "live"}
  /\ stage' = [stage EXCEPT ![i] = IF stage[i] = "live" THEN "dead" ELSE "failed"]
  /\ lock' = [o \in Owners |-> IF lock[o] = i THEN Nobody ELSE lock[o]]
  /\ writer' = IF writer = i THEN Nobody ELSE writer
  /\ todo' = [todo EXCEPT ![i] = {}]
  /\ probing' = [probing EXCEPT ![i] = Nobody]
  /\ verdicts' = [verdicts EXCEPT ![i] = {}]
  /\ UNCHANGED <<exec, dir>>

StartupStep(i) ==
  \/ BeginReconcile(i)
  \/ CommitReconcile(i)
  \/ \E o \in Owners : ProbeNotDead(i, o) \/ ProbeAcquire(i, o)
  \/ ProbeRelease(i)
  \/ ListLeftovers(i)
  \/ RemoveLeftover(i)
  \/ CreateLockFile(i)
  \/ AcquireLock(i)

Next ==
  \E i \in Owners :
    \/ StartupStep(i)
    \/ DispatchOne(i) \/ Stage(i) \/ Unstage(i) \/ AppendOutcome(i)
    \/ \E o \in Owners : RefuseSecond(i, o)
    \/ Crash(i)

Spec == Init /\ [][Next]_vars

(* A started process keeps running its startup.                            *)
FairSpec == Spec /\ \A i \in Owners : WF_vars(StartupStep(i))

-----------------------------------------------------------------------------
(* Properties.                                                             *)

TypeOK ==
  /\ stage \in [Owners -> Stages]
  /\ lock \in [Owners -> Owners \cup {Nobody, NoFile}]
  /\ writer \in Owners \cup {Nobody}
  /\ exec \in [Owners -> ExecStates]
  /\ dir \in [Owners -> BOOLEAN]
  /\ todo \in [Owners -> SUBSET Owners]
  /\ probing \in [Owners -> Owners \cup {Nobody}]
  /\ verdicts \in [Owners -> SUBSET Owners]

(* ADR 0005 rule 3, positive half: an owner a startup takes for dead is    *)
(* dead, and stays so until the startup has acted on the verdict, whoever  *)
(* else probes the same lock meanwhile.                                    *)
DeadMeansDead ==
  \A i \in Owners :
    /\ \A o \in verdicts[i] : stage[o] = "dead"
    /\ probing[i] # Nobody => stage[probing[i]] = "dead"

(* ADR 0005 rule 4: one terminal outcome per start, even with several      *)
(* startups reconciling and the owner's own outcome append in flight.      *)
OneTerminalOutcome ==
  \A o \in Owners : exec[o] \notin {"unknown-after-end", "ended-after-unknown"}

(* No startup removes the staging directory of a run that is going on.     *)
LiveRunKeepsDirectory ==
  [][\A o \in Owners : (dir[o] /\ ~dir'[o] /\ stage[o] = "live") => Unstage(o)]_vars

(* A probe that dies with its process leaves no lock held: a dead owner's  *)
(* lock is free or held by the probe of a startup still running.           *)
NoLockLeaks ==
  \A o \in Owners :
    lock[o] \in Owners =>
      \/ lock[o] = o /\ stage[o] = "live"
      \/ probing[lock[o]] = o /\ stage[lock[o]] \in {"reconciling", "sweeping"}

(* Every startup comes to an end: it waits for the write lock and tries    *)
(* owner locks while it holds it, and still no probe, live owner or other  *)
(* startup ever holds it up for good.                                      *)
StartupCompletes ==
  \A i \in Owners : <>(stage[i] \in {"live", "dead", "failed"})

(* ADR 0005: the start a crash left open, refusals in its trail or not, is *)
(* closed by the next startup.  That startup may only die of a crash too,  *)
(* or pass the start over because another one, done with its own           *)
(* reconciliation, has the owner's lock in the probe of its temp sweep.    *)
DeadStartRecovered ==
  \A i, o \in Owners :
    (stage[i] = "new" /\ stage[o] = "dead" /\ exec[o] \in Unclosed)
      ~> \/ exec[o] \notin Unclosed
         \/ stage[i] = "failed"
         \/ /\ stage[i] = "reconciling"
            /\ \E j \in Owners : stage[j] = "sweeping" /\ probing[j] = o

(* The same, of one step: a reconciliation passes over a dead owner only   *)
(* while a temp sweep's probe holds that owner's lock.                     *)
PassedOverOnlyByProbe ==
  [][\A i, o \in Owners :
        (ProbeNotDead(i, o) /\ stage[i] = "reconciling" /\ stage[o] = "dead") =>
          \E j \in Owners : stage[j] = "sweeping" /\ probing[j] = o]_vars

(* ExecutionLifecycle, read off the audit: every owner has at most one     *)
(* execution, and which side effect it has is not seen here.               *)
Opened == {o \in Owners : stage[o] \in {"live", "dead"}}
StartCounts == [o \in Owners |-> IF exec[o] = "none" THEN 0 ELSE 1]
StartPaths == [o \in Owners |-> IF exec[o] = "none" THEN "none" ELSE "standing"]
OutcomeCounts == [o \in Owners |-> CASE exec[o] \in {"none"} \cup Unclosed -> 0
                                      [] exec[o] \in {"ended", "unknown"} -> 1
                                      [] OTHER -> 2]
FirstOutcomes == [o \in Owners |-> CASE exec[o] \in {"none"} \cup Unclosed -> "none"
                                      [] exec[o] \in {"ended", "unknown-after-end"} -> "ended"
                                      [] OTHER -> "unknown"]

Lifecycle == INSTANCE ExecutionLifecycle WITH
  Proposals <- Owners, Outcomes <- {"ended"},
  opened <- Opened, approval <- [o \in Owners |-> "none"], starts <- StartCounts,
  authority <- StartPaths, effects <- [o \in Owners |-> 0],
  closings <- OutcomeCounts, verdict <- FirstOutcomes

(* ADR 0005: the locks, probes and crashes amount to the lifecycle's       *)
(* recovery.  A startup closes in one step what it found dead, all of it   *)
(* still open, as unknown; a server closes only what nobody else closed.   *)
ImplementsLifecycle == Lifecycle!Spec

(* docs/adr/0005 rule 3 and docs/system_flow.md, the other half: a lock    *)
(* found held means its owner is alive.  So a startup passes over an open  *)
(* start only when the owner lives (or its lock file is missing).          *)
HeldMeansAlive ==
  [][\A i, o \in Owners :
        (ProbeNotDead(i, o) /\ lock[o] # NoFile) => stage[o] = "live"]_vars

=============================================================================
