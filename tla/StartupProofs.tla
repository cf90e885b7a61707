---------------------------- MODULE StartupProofs ----------------------------
(***************************************************************************)
(* What a startup may conclude from a file lock, for any number of owners  *)
(* that start, serve, probe and crash side by side.                        *)
(***************************************************************************)
EXTENDS StartupRecovery, TLAPS

Recovering == {"reconciling", "sweeping"}
Served == {"live", "dead"}

-----------------------------------------------------------------------------
(* The invariant.                                                          *)

(* A server holds its own lock from before it dispatches until it dies.    *)
ServersLocked == \A o \in Owners : stage[o] = "live" => lock[o] = o

(* A probe holds the lock it took, of an owner that is dead.               *)
ProbesHold ==
  \A i \in Owners : probing[i] # Nobody =>
    /\ stage[i] \in Recovering
    /\ lock[probing[i]] = i
    /\ stage[probing[i]] = "dead"
    /\ probing[i] \in todo[i]

(* What is still to be visited has served, what was found dead is dead.    *)
VisitsServed ==
  \A i \in Owners :
    /\ \A o \in todo[i] : stage[o] \in Served
    /\ \A o \in verdicts[i] : stage[o] = "dead"
    /\ stage[i] \notin Recovering => todo[i] = {} /\ verdicts[i] = {}

(* Only who served has left anything, and only the dead are recovered.     *)
TracesOfServers ==
  \A o \in Owners :
    /\ exec[o] # "none" \/ dir[o] => stage[o] \in Served
    /\ exec[o] = "unknown" => stage[o] = "dead"

(* A reconciliation works alone on the starts that were open when it       *)
(* began: nothing closes one of them before it commits.                    *)
OneReconciles ==
  \A i \in Owners :
    /\ stage[i] = "reconciling" <=> writer = i
    /\ stage[i] = "reconciling" => \A o \in todo[i] \cup verdicts[i] : exec[o] \in Unclosed

StartupInv ==
  /\ TypeOK
  /\ ServersLocked
  /\ ProbesHold
  /\ NoLockLeaks
  /\ VisitsServed
  /\ TracesOfServers
  /\ OneReconciles
  /\ OneTerminalOutcome

-----------------------------------------------------------------------------

LEMMA StartupInitInv == Init => StartupInv
  BY NobodyAssumption
  DEF Init, StartupInv, TypeOK, Stages, ExecStates, Unclosed, ServersLocked, ProbesHold, NoLockLeaks,
      VisitsServed, TracesOfServers, OneReconciles, OneTerminalOutcome, Recovering

(* A startup passes on without a verdict.                                  *)
LEMMA ProbeNotDeadInv ==
  ASSUME StartupInv, NEW i \in Owners, NEW o \in Owners, ProbeNotDead(i, o)
  PROVE  StartupInv'
  <1> USE DEF StartupInv, ProbeNotDead, Visits
  <1>1. TypeOK'
    BY DEF TypeOK
  <1>2. ServersLocked' /\ NoLockLeaks' /\ TracesOfServers' /\ OneTerminalOutcome'
    BY DEF ServersLocked, NoLockLeaks, TracesOfServers, OneTerminalOutcome
  <1>3. ProbesHold'
    BY DEF ProbesHold, TypeOK
  <1>4. VisitsServed'
    BY DEF VisitsServed, TypeOK
  <1>5. OneReconciles'
    BY DEF OneReconciles, TypeOK
  <1>6. QED
    BY <1>1, <1>2, <1>3, <1>4, <1>5

(* A free lock of an owner that has served is the lock of a dead one.      *)
LEMMA ProbeAcquireInv ==
  ASSUME StartupInv, NEW i \in Owners, NEW o \in Owners, ProbeAcquire(i, o)
  PROVE  StartupInv'
  <1> USE DEF StartupInv, ProbeAcquire, Visits
  <1>1. stage[i] \in Recovering /\ stage[o] \in Served
    BY DEF VisitsServed
  <1>2. stage[o] = "dead"
    BY <1>1, NobodyAssumption DEF ServersLocked, Served
  <1>3. TypeOK'
    BY DEF TypeOK
  <1>4. lock'[o] = i /\ \A x \in Owners \ {o} : lock'[x] = lock[x]
    BY DEF TypeOK
  <1>5. probing'[i] = o /\ \A x \in Owners \ {i} : probing'[x] = probing[x]
    BY DEF TypeOK
  <1>6. UNCHANGED <<stage, todo>> /\ lock[o] = Nobody /\ probing[i] = Nobody
    OBVIOUS
  <1> HIDE DEF ProbeAcquire, Visits
  <1>7. ServersLocked'
    BY <1>2, <1>4, <1>6 DEF ServersLocked
  <1>8. ProbesHold'
    <2>1. ASSUME NEW x \in Owners, x # i, probing[x] # Nobody
          PROVE  /\ stage'[x] \in Recovering /\ lock'[probing[x]] = x
                 /\ stage'[probing[x]] = "dead" /\ probing[x] \in todo'[x]
      <3>1. probing[x] \in Owners \ {o}
        BY <1>6, <2>1, NobodyAssumption DEF ProbesHold, TypeOK
      <3>2. QED
        BY <1>4, <1>6, <2>1, <3>1 DEF ProbesHold
    <2>2. /\ stage'[i] \in Recovering /\ lock'[o] = i /\ stage'[o] = "dead" /\ o \in todo'[i]
      BY <1>1, <1>2, <1>4, <1>6 DEF ProbeAcquire, Visits
    <2>3. ASSUME NEW x \in Owners, probing'[x] # Nobody
          PROVE  /\ stage'[x] \in Recovering /\ lock'[probing'[x]] = x
                 /\ stage'[probing'[x]] = "dead" /\ probing'[x] \in todo'[x]
      <3>1. CASE x = i
        BY <1>5, <2>2, <3>1
      <3>2. CASE x # i
        BY <1>5, <2>1, <2>3, <3>2
      <3>3. QED
        BY <3>1, <3>2
    <2>4. QED
      BY <2>3 DEF ProbesHold
  <1>9. NoLockLeaks'
    BY <1>1, <1>4, <1>5, <1>6, NobodyAssumption DEF NoLockLeaks, Recovering
  <1>10. VisitsServed' /\ TracesOfServers' /\ OneReconciles' /\ OneTerminalOutcome'
    BY DEF ProbeAcquire, VisitsServed, TracesOfServers, OneReconciles, OneTerminalOutcome
  <1>11. QED
    BY <1>3, <1>7, <1>8, <1>9, <1>10

LEMMA ProbeReleaseInv ==
  ASSUME StartupInv, NEW i \in Owners, ProbeRelease(i)
  PROVE  StartupInv'
  <1> USE DEF StartupInv, ProbeRelease
  <1>1. PICK o : o = probing[i]
    OBVIOUS
  <1>2. /\ o \in Owners /\ o # Nobody /\ stage[i] \in Recovering /\ lock[o] = i
        /\ stage[o] = "dead" /\ o \in todo[i]
    BY <1>1 DEF ProbesHold, TypeOK
  <1>3. TypeOK'
    BY <1>1, <1>2 DEF TypeOK
  <1>4. lock'[o] = Nobody /\ \A x \in Owners \ {o} : lock'[x] = lock[x]
    BY <1>1, <1>2 DEF TypeOK
  <1>5. probing'[i] = Nobody /\ \A x \in Owners \ {i} : probing'[x] = probing[x]
    BY DEF TypeOK
  <1>6. /\ todo'[i] = todo[i] \ {o} /\ verdicts'[i] = verdicts[i] \cup {o}
        /\ \A x \in Owners \ {i} : todo'[x] = todo[x] /\ verdicts'[x] = verdicts[x]
    BY <1>1 DEF TypeOK
  <1>7. ServersLocked'
    BY <1>2, <1>4 DEF ServersLocked
  <1>8. ProbesHold'
    BY <1>2, <1>4, <1>5, <1>6 DEF ProbesHold, TypeOK
  <1>9. NoLockLeaks'
    BY <1>1, <1>2, <1>4, <1>5, NobodyAssumption DEF NoLockLeaks
  <1>10. VisitsServed'
    BY <1>2, <1>6 DEF VisitsServed
  <1>11. OneReconciles'
    BY <1>2, <1>6 DEF OneReconciles
  <1>12. TracesOfServers' /\ OneTerminalOutcome'
    BY DEF TracesOfServers, OneTerminalOutcome
  <1>13. QED
    BY <1>3, <1>7, <1>8, <1>9, <1>10, <1>11, <1>12

LEMMA BeginReconcileInv ==
  ASSUME StartupInv, NEW i \in Owners, BeginReconcile(i)
  PROVE  StartupInv'
  <1> USE DEF StartupInv, BeginReconcile
  <1>1. stage[i] = "new" /\ writer = Nobody /\ verdicts[i] = {}
    BY DEF VisitsServed, Recovering
  <1>2. TypeOK'
    BY DEF TypeOK, Stages, OpenStarts
  <1>3. stage'[i] = "reconciling" /\ \A x \in Owners \ {i} : stage'[x] = stage[x]
    BY DEF TypeOK
  <1>4. todo'[i] = OpenStarts /\ \A x \in Owners \ {i} : todo'[x] = todo[x]
    BY DEF TypeOK
  <1>5. \A o \in OpenStarts : o \in Owners /\ exec[o] \in Unclosed /\ stage[o] \in Served
    BY DEF OpenStarts, Unclosed, TracesOfServers
  <1>6. \A o \in Owners : stage[o] \in Served => o # i
    BY <1>1 DEF Served
  <1>7. ServersLocked'
    BY <1>1, <1>3 DEF ServersLocked
  <1>8. ProbesHold'
    BY <1>1, <1>3, <1>4 DEF ProbesHold, Recovering, TypeOK
  <1>9. NoLockLeaks'
    BY <1>1, <1>3 DEF NoLockLeaks
  <1>10. VisitsServed'
    <2>1. \A x \in Owners \ {i} : \A o \in todo[x] \cup verdicts[x] : o \in Owners /\ o # i
      BY <1>1 DEF VisitsServed, Served, TypeOK
    <2>2. QED
      BY <1>1, <1>3, <1>4, <1>5, <1>6, <2>1 DEF VisitsServed, Recovering
  <1>11. TracesOfServers' /\ OneTerminalOutcome'
    BY <1>1, <1>3 DEF TracesOfServers, Served, OneTerminalOutcome
  <1>12. OneReconciles'
    BY <1>1, <1>3, <1>4, <1>5, NobodyAssumption DEF OneReconciles
  <1>13. QED
    BY <1>2, <1>7, <1>8, <1>9, <1>10, <1>11, <1>12

LEMMA CommitReconcileInv ==
  ASSUME StartupInv, NEW i \in Owners, CommitReconcile(i)
  PROVE  StartupInv'
  <1> USE DEF StartupInv, CommitReconcile
  <1>1. /\ stage[i] = "reconciling" /\ probing[i] = Nobody /\ writer = i
        /\ \A o \in verdicts[i] : o \in Owners /\ exec[o] \in Unclosed /\ stage[o] = "dead"
    BY DEF OneReconciles, VisitsServed, TypeOK
  <1>2. \A o \in Owners : exec'[o] = IF o \in verdicts[i] THEN "unknown" ELSE exec[o]
    BY <1>1 DEF Recovered
  <1>3. stage'[i] = "recovered" /\ \A x \in Owners \ {i} : stage'[x] = stage[x]
    BY DEF TypeOK
  <1>4. /\ todo'[i] = {} /\ verdicts'[i] = {}
        /\ \A x \in Owners \ {i} : todo'[x] = todo[x] /\ verdicts'[x] = verdicts[x]
    BY DEF TypeOK
  <1>5. TypeOK'
    <2>1. exec' \in [Owners -> ExecStates]
      <3>1. \A o \in Owners : exec'[o] \in ExecStates
        BY <1>2 DEF TypeOK, ExecStates
      <3>2. QED
        BY <3>1
    <2>2. QED
      BY <2>1 DEF TypeOK, Stages
  <1>6. ServersLocked'
    BY <1>1, <1>3 DEF ServersLocked
  <1>7. ProbesHold'
    BY <1>1, <1>3, <1>4 DEF ProbesHold, TypeOK
  <1>8. NoLockLeaks'
    BY <1>1, <1>3, NobodyAssumption DEF NoLockLeaks
  <1>9. VisitsServed'
    <2>1. \A x \in Owners : \A o \in todo[x] \cup verdicts[x] : o \in Owners /\ o # i
      BY <1>1 DEF VisitsServed, Served, TypeOK
    <2>2. QED
      BY <1>1, <1>3, <1>4, <2>1 DEF VisitsServed, Recovering
  <1>10. TracesOfServers'
    BY <1>1, <1>2, <1>3 DEF TracesOfServers, Served
  <1>11. OneTerminalOutcome'
    BY <1>2 DEF OneTerminalOutcome
  <1>12. OneReconciles'
    BY <1>1, <1>2, <1>3, NobodyAssumption DEF OneReconciles
  <1>13. QED
    BY <1>5, <1>6, <1>7, <1>8, <1>9, <1>10, <1>11, <1>12

(* What the glob sees belongs to owners that have served.                  *)
LEMMA ListLeftoversInv ==
  ASSUME StartupInv, NEW i \in Owners, ListLeftovers(i)
  PROVE  StartupInv'
  <1> USE DEF StartupInv, ListLeftovers
  <1>1. stage[i] = "recovered" /\ probing[i] = Nobody /\ verdicts[i] = {}
    BY DEF ProbesHold, VisitsServed, Recovering
  <1>2. stage'[i] = "sweeping" /\ \A x \in Owners \ {i} : stage'[x] = stage[x]
    BY DEF TypeOK
  <1>3. PICK seen \in SUBSET {o \in Owners : dir[o]} :
          todo'[i] = seen /\ \A x \in Owners \ {i} : todo'[x] = todo[x]
    BY DEF TypeOK
  <1>4. TypeOK'
    BY DEF TypeOK, Stages
  <1>5. ServersLocked'
    BY <1>1, <1>2 DEF ServersLocked
  <1>6. ProbesHold'
    BY <1>1, <1>2, <1>3 DEF ProbesHold, TypeOK
  <1>7. NoLockLeaks'
    BY <1>1, <1>2 DEF NoLockLeaks
  <1>8. VisitsServed'
    <2>1. \A x \in Owners : \A o \in todo[x] \cup verdicts[x] : o \in Owners /\ o # i
      BY <1>1 DEF VisitsServed, Served, TypeOK
    <2>2. \A o \in seen : o \in Owners /\ o # i /\ stage[o] \in Served
      BY <1>1 DEF TracesOfServers, Served
    <2>3. QED
      BY <1>1, <1>2, <1>3, <2>1, <2>2 DEF VisitsServed, Recovering
  <1>9. TracesOfServers' /\ OneTerminalOutcome'
    BY <1>1, <1>2 DEF TracesOfServers, Served, OneTerminalOutcome
  <1>10. OneReconciles'
    BY <1>1, <1>2 DEF OneReconciles
  <1>11. QED
    BY <1>4, <1>5, <1>6, <1>7, <1>8, <1>9, <1>10

LEMMA RemoveLeftoverInv ==
  ASSUME StartupInv, NEW i \in Owners, RemoveLeftover(i)
  PROVE  StartupInv' /\ \A o \in Owners : dir[o] /\ ~dir'[o] => stage[o] = "dead"
  <1> USE DEF StartupInv, RemoveLeftover
  <1>1. /\ \A o \in Owners : dir'[o] = dir[o] \/ (o \in verdicts[i] /\ ~dir'[o])
        /\ dir' \in [Owners -> BOOLEAN]
    BY DEF TypeOK, SweepSet
  <1>2. verdicts'[i] = {} /\ \A x \in Owners \ {i} : verdicts'[x] = verdicts[x]
    BY DEF TypeOK
  <1>3. TypeOK'
    BY <1>1 DEF TypeOK
  <1>4. ServersLocked' /\ ProbesHold' /\ NoLockLeaks' /\ OneTerminalOutcome'
    BY DEF ServersLocked, ProbesHold, NoLockLeaks, OneTerminalOutcome
  <1>5. VisitsServed' /\ OneReconciles'
    BY <1>2 DEF VisitsServed, OneReconciles
  <1>6. TracesOfServers'
    BY <1>1 DEF TracesOfServers
  <1>7. \A o \in Owners : dir[o] /\ ~dir'[o] => stage[o] = "dead"
    BY <1>1 DEF VisitsServed
  <1>8. QED
    BY <1>3, <1>4, <1>5, <1>6, <1>7

LEMMA CreateLockFileInv ==
  ASSUME StartupInv, NEW i \in Owners, CreateLockFile(i)
  PROVE  StartupInv'
  <1> USE DEF StartupInv, CreateLockFile
  <1>1. stage'[i] = "opening" /\ \A x \in Owners \ {i} : stage'[x] = stage[x]
    BY DEF TypeOK
  <1>2. lock'[i] = Nobody /\ \A x \in Owners \ {i} : lock'[x] = lock[x]
    BY DEF TypeOK
  <1>3. TypeOK'
    BY DEF TypeOK, Stages
  <1>4. ServersLocked'
    BY <1>1, <1>2 DEF ServersLocked
  <1>5. ProbesHold'
    BY <1>1, <1>2 DEF ProbesHold, TypeOK
  <1>6. NoLockLeaks'
    BY <1>1, <1>2, NobodyAssumption DEF NoLockLeaks
  <1>7. VisitsServed'
    BY <1>1 DEF VisitsServed, Served, TypeOK
  <1>8. TracesOfServers' /\ OneTerminalOutcome'
    BY <1>1 DEF TracesOfServers, Served, OneTerminalOutcome
  <1>9. OneReconciles'
    BY <1>1 DEF OneReconciles
  <1>10. QED
    BY <1>3, <1>4, <1>5, <1>6, <1>7, <1>8, <1>9

LEMMA AcquireLockInv ==
  ASSUME StartupInv, NEW i \in Owners, AcquireLock(i)
  PROVE  StartupInv'
  <1> USE DEF StartupInv, AcquireLock
  <1>1. stage'[i] = "live" /\ \A x \in Owners \ {i} : stage'[x] = stage[x]
    BY DEF TypeOK
  <1>2. lock'[i] = i /\ \A x \in Owners \ {i} : lock'[x] = lock[x]
    BY DEF TypeOK
  <1>3. TypeOK'
    BY DEF TypeOK, Stages
  <1>4. ServersLocked'
    BY <1>1, <1>2 DEF ServersLocked
  <1>5. ProbesHold'
    BY <1>1, <1>2 DEF ProbesHold, Recovering, TypeOK
  <1>6. NoLockLeaks'
    BY <1>1, <1>2 DEF NoLockLeaks, TypeOK
  <1>7. VisitsServed'
    BY <1>1 DEF VisitsServed, Served, Recovering, TypeOK
  <1>8. TracesOfServers' /\ OneTerminalOutcome'
    BY <1>1 DEF TracesOfServers, Served, OneTerminalOutcome
  <1>9. OneReconciles'
    BY <1>1 DEF OneReconciles
  <1>10. QED
    BY <1>3, <1>4, <1>5, <1>6, <1>7, <1>8, <1>9

-----------------------------------------------------------------------------
(* A server's own steps.                                                   *)

LEMMA ServeInv ==
  ASSUME StartupInv, NEW i \in Owners,
         DispatchOne(i) \/ Stage(i) \/ Unstage(i) \/ AppendOutcome(i)
  PROVE  StartupInv'
  <1> USE DEF StartupInv
  <1>1. /\ stage[i] = "live"
        /\ UNCHANGED <<stage, lock, writer, todo, probing, verdicts>>
        /\ \A x \in Owners \ {i} : exec'[x] = exec[x] /\ dir'[x] = dir[x]
        /\ exec'[i] # exec[i] => writer = Nobody
    BY DEF DispatchOne, Stage, Unstage, AppendOutcome, TypeOK
  <1>2. exec[i] # "unknown"
    BY <1>1 DEF TracesOfServers
  <1>3. exec' \in [Owners -> ExecStates] /\ dir' \in [Owners -> BOOLEAN]
    BY DEF DispatchOne, Stage, Unstage, AppendOutcome, TypeOK, ExecStates, Unclosed
  <1>4. exec'[i] \in {exec[i], "started", "ended"}
    BY <1>2 DEF DispatchOne, Stage, Unstage, AppendOutcome, TypeOK
  <1>5. TypeOK'
    BY <1>1, <1>3 DEF TypeOK
  <1>6. ServersLocked' /\ ProbesHold' /\ NoLockLeaks' /\ VisitsServed'
    BY <1>1 DEF ServersLocked, ProbesHold, NoLockLeaks, VisitsServed
  <1>7. TracesOfServers'
    BY <1>1, <1>2, <1>4 DEF TracesOfServers, Served
  <1>8. OneTerminalOutcome'
    BY <1>1, <1>4 DEF OneTerminalOutcome
  <1>9. OneReconciles'
    <2>1. CASE exec' = exec
      BY <1>1, <2>1 DEF OneReconciles
    <2>2. CASE exec' # exec
      <3>1. exec'[i] # exec[i]
        BY <1>1, <1>3, <2>2 DEF TypeOK
      <3>2. \A x \in Owners : stage[x] # "reconciling"
        BY <1>1, <3>1, NobodyAssumption DEF OneReconciles
      <3>3. QED
        BY <1>1, <3>2 DEF OneReconciles
    <2>3. QED
      BY <2>1, <2>2
  <1>10. QED
    BY <1>5, <1>6, <1>7, <1>8, <1>9

(* A refusal leaves a start open, and waits for the write lock.            *)
LEMMA RefuseSecondInv ==
  ASSUME StartupInv, NEW i \in Owners, NEW o \in Owners, RefuseSecond(i, o)
  PROVE  StartupInv'
  <1> USE DEF StartupInv, RefuseSecond
  <1>1. /\ exec[o] = "started" /\ exec'[o] = "refused" /\ writer = Nobody
        /\ \A x \in Owners \ {o} : exec'[x] = exec[x]
        /\ UNCHANGED <<stage, lock, writer, dir, todo, probing, verdicts>>
    BY DEF TypeOK
  <1>2. TypeOK'
    BY DEF TypeOK, ExecStates, Unclosed
  <1>3. ServersLocked' /\ ProbesHold' /\ NoLockLeaks' /\ VisitsServed'
    BY <1>1 DEF ServersLocked, ProbesHold, NoLockLeaks, VisitsServed
  <1>4. TracesOfServers' /\ OneTerminalOutcome'
    BY <1>1 DEF TracesOfServers, OneTerminalOutcome
  <1>5. OneReconciles'
    BY <1>1, NobodyAssumption DEF OneReconciles
  <1>6. QED
    BY <1>2, <1>3, <1>4, <1>5

(* The operating system frees what a dead process held.                    *)
LEMMA CrashInv ==
  ASSUME StartupInv, NEW i \in Owners, Crash(i)
  PROVE  StartupInv'
  <1> USE DEF StartupInv, Crash
  <1>1. /\ stage'[i] = IF stage[i] = "live" THEN "dead" ELSE "failed"
        /\ \A x \in Owners \ {i} : stage'[x] = stage[x]
    BY DEF TypeOK
  <1>2. \A o \in Owners : lock'[o] = IF lock[o] = i THEN Nobody ELSE lock[o]
    BY DEF TypeOK
  <1>3. /\ todo'[i] = {} /\ verdicts'[i] = {} /\ probing'[i] = Nobody
        /\ \A x \in Owners \ {i} : /\ todo'[x] = todo[x] /\ verdicts'[x] = verdicts[x]
                                   /\ probing'[x] = probing[x]
    BY DEF TypeOK
  <1>4. TypeOK'
    BY DEF TypeOK, Stages
  <1>5. \A o \in Owners : stage[o] \in Served => stage'[o] \in Served
    BY <1>1 DEF Served
  <1>6. \A o \in Owners : stage[o] = "dead" => stage'[o] = "dead"
    BY <1>1
  <1>7. ServersLocked'
    BY <1>1, <1>2 DEF ServersLocked
  <1>8. ProbesHold'
    BY <1>1, <1>2, <1>3, <1>6 DEF ProbesHold, TypeOK
  <1>9. NoLockLeaks'
    BY <1>1, <1>2, <1>3, NobodyAssumption DEF NoLockLeaks, TypeOK
  <1>10. VisitsServed'
    BY <1>1, <1>3, <1>5, <1>6 DEF VisitsServed, TypeOK
  <1>11. TracesOfServers' /\ OneTerminalOutcome'
    BY <1>5, <1>6 DEF TracesOfServers, OneTerminalOutcome
  <1>12. OneReconciles'
    BY <1>1, <1>3, NobodyAssumption DEF OneReconciles, TypeOK
  <1>13. QED
    BY <1>4, <1>7, <1>8, <1>9, <1>10, <1>11, <1>12

-----------------------------------------------------------------------------

LEMMA StartupNextInv == StartupInv /\ [Next]_vars => StartupInv'
  <1> SUFFICES ASSUME StartupInv, [Next]_vars PROVE StartupInv'
    OBVIOUS
  <1>1. ASSUME NEW i \in Owners, StartupStep(i) PROVE StartupInv'
    BY <1>1, BeginReconcileInv, CommitReconcileInv, ProbeNotDeadInv, ProbeAcquireInv,
       ProbeReleaseInv, ListLeftoversInv, RemoveLeftoverInv, CreateLockFileInv, AcquireLockInv DEF StartupStep
  <1>2. ASSUME NEW i \in Owners, DispatchOne(i) \/ Stage(i) \/ Unstage(i) \/ AppendOutcome(i)
        PROVE  StartupInv'
    BY <1>2, ServeInv
  <1>3. ASSUME NEW i \in Owners, Crash(i) PROVE StartupInv'
    BY <1>3, CrashInv
  <1>4. ASSUME NEW i \in Owners, NEW o \in Owners, RefuseSecond(i, o) PROVE StartupInv'
    BY <1>4, RefuseSecondInv
  <1>5. CASE UNCHANGED vars
    BY <1>5 DEF vars, StartupInv, TypeOK, ServersLocked, ProbesHold, NoLockLeaks, VisitsServed,
                TracesOfServers, OneReconciles, OneTerminalOutcome
  <1>6. QED
    BY <1>1, <1>2, <1>3, <1>4, <1>5 DEF Next

(* The invariant holds in every reachable state.                           *)
THEOREM StartupInvariant == Spec => []StartupInv
  BY StartupInitInv, StartupNextInv, PTL DEF Spec

(* Every lock, verdict and execution state is one the code distinguishes.  *)
THEOREM StartupTypes == Spec => []TypeOK
  <1>1. StartupInv => TypeOK
    BY DEF StartupInv
  <1>2. QED
    BY <1>1, StartupInvariant, PTL

(* probe in owner.py and its two users in recovery.py: a verdict "dead" is *)
(* true and stays true until it has been acted on.                         *)
THEOREM VerdictsTrue == Spec => []DeadMeansDead
  <1>1. StartupInv => DeadMeansDead
    BY DEF StartupInv, DeadMeansDead, VisitsServed, ProbesHold
  <1>2. QED
    BY <1>1, StartupInvariant, PTL

(* reconcile_interrupted_executions beside the gate's own append: no start *)
(* is ever closed twice.                                                   *)
THEOREM OutcomesOnce == Spec => []OneTerminalOutcome
  <1>1. StartupInv => OneTerminalOutcome
    BY DEF StartupInv
  <1>2. QED
    BY <1>1, StartupInvariant, PTL

(* A probe or a server that dies leaves its lock to the next probe.        *)
THEOREM LocksReturned == Spec => []NoLockLeaks
  <1>1. StartupInv => NoLockLeaks
    BY DEF StartupInv
  <1>2. QED
    BY <1>1, StartupInvariant, PTL

(* sweep_exec_tmp_leftovers takes no directory from under a running call.  *)
THEOREM DirectoriesKept == Spec => LiveRunKeepsDirectory
  <1> DEFINE Kept == \A o \in Owners : (dir[o] /\ ~dir'[o] /\ stage[o] = "live") => Unstage(o)
  <1>1. StartupInv /\ [Next]_vars => [Kept]_vars
    <2> SUFFICES ASSUME StartupInv, Next PROVE Kept
      OBVIOUS
    <2>1. ASSUME NEW i \in Owners, RemoveLeftover(i) PROVE Kept
      BY <2>1, RemoveLeftoverInv
    <2>2. ASSUME NEW i \in Owners, Unstage(i) PROVE Kept
      BY <2>2 DEF Unstage, StartupInv, TypeOK
    <2>3. ASSUME NEW i \in Owners, Stage(i) PROVE Kept
      BY <2>3 DEF Stage, StartupInv, TypeOK
    <2>4. ASSUME UNCHANGED dir PROVE Kept
      BY <2>4
    <2>5. QED
      BY <2>1, <2>2, <2>3, <2>4
      DEF Next, StartupStep, BeginReconcile, CommitReconcile, ProbeNotDead, ProbeAcquire,
          ProbeRelease, ListLeftovers, CreateLockFile, AcquireLock, DispatchOne, AppendOutcome,
          RefuseSecond, Crash
  <1>2. QED
    BY <1>1, StartupInvariant, PTL DEF Spec, LiveRunKeepsDirectory

-----------------------------------------------------------------------------
(* What a startup may miss.                                                *)

(* An owner that has begun to serve has a lock file, for good.             *)
LockFilesStay == \A o \in Owners : stage[o] \in Served \cup {"opening"} => lock[o] # NoFile

LEMMA LockFilesInit == Init => LockFilesStay
  BY DEF Init, LockFilesStay, Served

LEMMA LockFilesNext == StartupInv /\ LockFilesStay /\ [Next]_vars => LockFilesStay'
  <1> SUFFICES ASSUME StartupInv, LockFilesStay, Next PROVE LockFilesStay'
    BY DEF LockFilesStay, vars
  <1>1. TypeOK
    BY DEF StartupInv
  <1> USE NobodyAssumption
  <1>2. ASSUME NEW i \in Owners, NEW o \in Owners, ProbeAcquire(i, o) PROVE LockFilesStay'
    BY <1>1, <1>2 DEF ProbeAcquire, LockFilesStay, TypeOK
  <1>3. ASSUME NEW i \in Owners, ProbeRelease(i) PROVE LockFilesStay'
    BY <1>1, <1>3 DEF ProbeRelease, LockFilesStay, TypeOK
  <1>4. ASSUME NEW i \in Owners, CreateLockFile(i) PROVE LockFilesStay'
    BY <1>1, <1>4 DEF CreateLockFile, LockFilesStay, Served, TypeOK
  <1>5. ASSUME NEW i \in Owners, AcquireLock(i) PROVE LockFilesStay'
    BY <1>1, <1>5 DEF AcquireLock, LockFilesStay, Served, TypeOK
  <1>6. ASSUME NEW i \in Owners, Crash(i) PROVE LockFilesStay'
    BY <1>1, <1>6 DEF Crash, LockFilesStay, Served, TypeOK
  <1>7. ASSUME NEW i \in Owners, BeginReconcile(i) \/ CommitReconcile(i) \/ ListLeftovers(i)
        PROVE  LockFilesStay'
    BY <1>1, <1>7 DEF BeginReconcile, CommitReconcile, ListLeftovers, LockFilesStay, Served, TypeOK
  <1>8. ASSUME UNCHANGED <<stage, lock>> PROVE LockFilesStay'
    BY <1>8 DEF LockFilesStay
  <1>9. QED
    BY <1>2, <1>3, <1>4, <1>5, <1>6, <1>7, <1>8
    DEF Next, StartupStep, ProbeNotDead, RemoveLeftover, DispatchOne, Stage, Unstage,
        AppendOutcome, RefuseSecond

(* probe in owner.py under reconcile_interrupted_executions: the one thing *)
(* that keeps a dead owner's start from being closed is the temp sweep of  *)
(* another startup that is past its own reconciliation, for the write lock *)
(* keeps every other reconciliation out.                                   *)
THEOREM MissedOnlyBesideSweep == Spec => PassedOverOnlyByProbe
  <1> DEFINE Excused == \A i, o \in Owners :
        (ProbeNotDead(i, o) /\ stage[i] = "reconciling" /\ stage[o] = "dead") =>
          \E j \in Owners : stage[j] = "sweeping" /\ probing[j] = o
  <1>1. StartupInv /\ LockFilesStay => Excused
    <2> SUFFICES ASSUME StartupInv, LockFilesStay, NEW i \in Owners, NEW o \in Owners,
                        ProbeNotDead(i, o), stage[i] = "reconciling", stage[o] = "dead"
                 PROVE  \E j \in Owners : stage[j] = "sweeping" /\ probing[j] = o
      OBVIOUS
    <2>1. lock[o] \in Owners /\ probing[i] = Nobody
      BY DEF ProbeNotDead, Visits, StartupInv, TypeOK, LockFilesStay, Served
    <2>2. probing[lock[o]] = o /\ stage[lock[o]] \in {"reconciling", "sweeping"}
      BY <2>1 DEF StartupInv, NoLockLeaks
    <2>3. lock[o] # i
      BY <2>1, <2>2, NobodyAssumption
    <2>4. stage[lock[o]] # "reconciling"
      BY <2>1, <2>3 DEF StartupInv, OneReconciles
    <2>5. QED
      BY <2>1, <2>2, <2>4
  <1>2. QED
    BY <1>1, StartupInvariant, LockFilesInit, LockFilesNext, PTL
    DEF Spec, PassedOverOnlyByProbe

-----------------------------------------------------------------------------
(* A startup is held up by nobody.                                         *)

(* CreateLockFile and AcquireLock, the two steps of ExecutionOwner: what   *)
(* lies between them is no gap, for nobody probes an owner that has not    *)
(* served yet.                                                             *)
OwnLockFree == \A i \in Owners : stage[i] = "opening" => lock[i] = Nobody

(* Whoever holds the write lock against other startups is at work.         *)
WriterWorks == writer # Nobody => writer \in Owners /\ stage[writer] = "reconciling"

LEMMA OwnLockInit == Init => OwnLockFree
  BY DEF Init, OwnLockFree

LEMMA OwnLockNext == StartupInv /\ OwnLockFree /\ [Next]_vars => OwnLockFree'
  <1> SUFFICES ASSUME StartupInv, OwnLockFree, Next PROVE OwnLockFree'
    BY DEF OwnLockFree, vars
  <1>1. TypeOK /\ VisitsServed
    BY DEF StartupInv
  <1>2. ASSUME NEW i \in Owners, NEW o \in Owners, ProbeAcquire(i, o)
        PROVE  OwnLockFree'
    BY <1>1, <1>2 DEF ProbeAcquire, Visits, VisitsServed, Served, OwnLockFree, TypeOK
  <1>3. ASSUME NEW i \in Owners, ProbeRelease(i) PROVE OwnLockFree'
    BY <1>1, <1>3 DEF ProbeRelease, OwnLockFree, TypeOK
  <1>4. ASSUME NEW i \in Owners, CreateLockFile(i) PROVE OwnLockFree'
    BY <1>1, <1>4 DEF CreateLockFile, OwnLockFree, TypeOK
  <1>5. ASSUME NEW i \in Owners, AcquireLock(i) PROVE OwnLockFree'
    BY <1>1, <1>5 DEF AcquireLock, OwnLockFree, TypeOK
  <1>6. ASSUME NEW i \in Owners, Crash(i) PROVE OwnLockFree'
    BY <1>1, <1>6 DEF Crash, OwnLockFree, TypeOK
  <1>7. ASSUME NEW i \in Owners, BeginReconcile(i) \/ CommitReconcile(i) \/ ListLeftovers(i)
        PROVE  OwnLockFree'
    BY <1>1, <1>7 DEF BeginReconcile, CommitReconcile, ListLeftovers, OwnLockFree, TypeOK
  <1>8. ASSUME UNCHANGED <<stage, lock>> PROVE OwnLockFree'
    BY <1>8 DEF OwnLockFree
  <1>9. QED
    BY <1>2, <1>3, <1>4, <1>5, <1>6, <1>7, <1>8
    DEF Next, StartupStep, ProbeNotDead, RemoveLeftover, DispatchOne, Stage, Unstage,
        AppendOutcome, RefuseSecond

(* ExecutionOwner in owner.py: neither of the two things a startup waits   *)
(* for, its own lock and the write lock, is ever with somebody who waits   *)
(* in turn.  This is why StartupCompletes needs no more than that started  *)
(* processes keep running.                                                 *)
THEOREM StartupsNotHeldUp == Spec => [](OwnLockFree /\ WriterWorks)
  <1>1. StartupInv => WriterWorks
    BY DEF StartupInv, TypeOK, OneReconciles, WriterWorks
  <1>2. QED
    BY <1>1, StartupInvariant, OwnLockInit, OwnLockNext, PTL DEF Spec

-----------------------------------------------------------------------------
(* The abstract lifecycle.                                                 *)

LEMMA LifecycleInit == Init => Lifecycle!Init
  BY DEF Init, Lifecycle!Init, Opened, StartCounts, StartPaths, OutcomeCounts, FirstOutcomes

(* A step that starts, closes and opens nothing is invisible above.        *)
LEMMA InvisibleStep ==
  ASSUME UNCHANGED <<exec, Opened>>
  PROVE  UNCHANGED Lifecycle!lifecycleVars
  BY DEF Lifecycle!lifecycleVars, StartCounts, StartPaths, OutcomeCounts, FirstOutcomes

(* A server opens the one execution it may have.                           *)
LEMMA ServingOpens ==
  ASSUME StartupInv, NEW i \in Owners, AcquireLock(i)
  PROVE  Lifecycle!Propose(i)
  <1>1. Opened' = Opened \cup {i} /\ i \notin Opened /\ UNCHANGED exec
    BY DEF AcquireLock, StartupInv, TypeOK, Opened
  <1>2. QED
    BY <1>1 DEF Lifecycle!Propose, StartCounts, StartPaths, OutcomeCounts, FirstOutcomes

LEMMA DispatchStarts ==
  ASSUME StartupInv, NEW i \in Owners, DispatchOne(i)
  PROVE  Lifecycle!Start(i, "standing")
  <1>1. /\ exec \in [Owners -> ExecStates] /\ exec[i] = "none"
        /\ exec' = [exec EXCEPT ![i] = "started"]
        /\ i \in Opened /\ Opened' = Opened
    BY DEF DispatchOne, StartupInv, TypeOK, Opened
  <1>2. /\ StartCounts[i] = 0 /\ StartCounts' = [StartCounts EXCEPT ![i] = 1]
        /\ StartPaths' = [StartPaths EXCEPT ![i] = "standing"]
    BY <1>1 DEF StartCounts, StartPaths
  <1>3. OutcomeCounts' = OutcomeCounts
    BY <1>1 DEF OutcomeCounts, Unclosed
  <1>4. FirstOutcomes' = FirstOutcomes
    BY <1>1 DEF FirstOutcomes, Unclosed
  <1>5. QED
    BY <1>1, <1>2, <1>3, <1>4 DEF Lifecycle!Start

(* A live server's execution was closed by nobody else.                    *)
LEMMA AppendCloses ==
  ASSUME StartupInv, NEW i \in Owners, AppendOutcome(i)
  PROVE  Lifecycle!Close(i, "ended")
  <1>1. /\ exec \in [Owners -> ExecStates] /\ exec[i] \in Unclosed
        /\ exec' = [exec EXCEPT ![i] = "ended"] /\ Opened' = Opened
    BY DEF AppendOutcome, StartupInv, TypeOK, TracesOfServers, Opened
  <1>2. StartCounts[i] = 1 /\ OutcomeCounts[i] = 0
    BY <1>1 DEF StartCounts, OutcomeCounts, Unclosed
  <1>3. StartCounts' = StartCounts /\ StartPaths' = StartPaths
    BY <1>1 DEF StartCounts, StartPaths, Unclosed
  <1>4. OutcomeCounts' = [OutcomeCounts EXCEPT ![i] = 1]
    BY <1>1 DEF OutcomeCounts, Unclosed
  <1>5. FirstOutcomes' = [FirstOutcomes EXCEPT ![i] = "ended"]
    BY <1>1 DEF FirstOutcomes, Unclosed
  <1>6. QED
    BY <1>1, <1>2, <1>3, <1>4, <1>5 DEF Lifecycle!Close, Lifecycle!Running

(* A reconciliation closes all it found dead, and all of it still open.    *)
LEMMA ReconcileRecovers ==
  ASSUME StartupInv, NEW i \in Owners, CommitReconcile(i)
  PROVE  Lifecycle!Recover(verdicts[i])
  <1>1. /\ exec \in [Owners -> ExecStates] /\ verdicts[i] \subseteq Owners
        /\ \A o \in verdicts[i] : exec[o] \in Unclosed
        /\ exec' = [o \in Owners |-> IF o \in verdicts[i] THEN "unknown" ELSE exec[o]]
    BY DEF CommitReconcile, StartupInv, TypeOK, OneReconciles, Recovered
  <1>2. Opened' = Opened
    BY DEF CommitReconcile, StartupInv, TypeOK, Opened
  <1>3. \A o \in verdicts[i] : StartCounts[o] = 1 /\ OutcomeCounts[o] = 0
    BY <1>1 DEF StartCounts, OutcomeCounts, Unclosed
  <1>4. StartCounts' = StartCounts /\ StartPaths' = StartPaths
    BY <1>1 DEF StartCounts, StartPaths, Unclosed
  <1>5. OutcomeCounts' = [o \in Owners |-> IF o \in verdicts[i] THEN 1 ELSE OutcomeCounts[o]]
    BY <1>1 DEF OutcomeCounts, Unclosed
  <1>6. FirstOutcomes' =
          [o \in Owners |-> IF o \in verdicts[i] THEN "unknown" ELSE FirstOutcomes[o]]
    BY <1>1 DEF FirstOutcomes, Unclosed
  <1>7. QED
    BY <1>1, <1>2, <1>3, <1>4, <1>5, <1>6 DEF Lifecycle!Recover, Lifecycle!Running

(* A refusal neither starts nor closes anything.                           *)
LEMMA RefusalInvisible ==
  ASSUME StartupInv, NEW i \in Owners, NEW o \in Owners, RefuseSecond(i, o)
  PROVE  UNCHANGED Lifecycle!lifecycleVars
  <1>1. /\ exec[o] = "started" /\ exec'[o] = "refused"
        /\ \A x \in Owners \ {o} : exec'[x] = exec[x]
        /\ UNCHANGED stage
    BY DEF RefuseSecond, StartupInv, TypeOK
  <1>2. Opened' = Opened /\ StartCounts' = StartCounts /\ StartPaths' = StartPaths
    BY <1>1 DEF Opened, StartCounts, StartPaths
  <1>3. OutcomeCounts' = OutcomeCounts /\ FirstOutcomes' = FirstOutcomes
    BY <1>1 DEF OutcomeCounts, FirstOutcomes, Unclosed
  <1>4. QED
    BY <1>2, <1>3 DEF Lifecycle!lifecycleVars

LEMMA LifecycleStep ==
  StartupInv /\ [Next]_vars => [Lifecycle!Next]_(Lifecycle!lifecycleVars)
  <1> SUFFICES ASSUME StartupInv, [Next]_vars
               PROVE  [Lifecycle!Next]_(Lifecycle!lifecycleVars)
    OBVIOUS
  <1>1. ASSUME NEW i \in Owners, AcquireLock(i) PROVE Lifecycle!Next
    BY <1>1, ServingOpens DEF Lifecycle!Next
  <1>2. ASSUME NEW i \in Owners, DispatchOne(i) PROVE Lifecycle!Next
    BY <1>2, DispatchStarts DEF Lifecycle!Next
  <1>3. ASSUME NEW i \in Owners, AppendOutcome(i) PROVE Lifecycle!Next
    BY <1>3, AppendCloses DEF Lifecycle!Next
  <1>4. ASSUME NEW i \in Owners, CommitReconcile(i) PROVE Lifecycle!Next
    <2>1. verdicts[i] \in SUBSET Owners
      BY DEF StartupInv, TypeOK
    <2>2. QED
      BY <1>4, <2>1, ReconcileRecovers DEF Lifecycle!Next
  <1>5. ASSUME NEW i \in Owners,
               BeginReconcile(i) \/ ListLeftovers(i) \/ CreateLockFile(i) \/ Crash(i)
        PROVE  UNCHANGED Lifecycle!lifecycleVars
    <2>1. UNCHANGED <<exec, Opened>>
      BY <1>5 DEF BeginReconcile, ListLeftovers, CreateLockFile, Crash, StartupInv, TypeOK, Opened
    <2>2. QED
      BY <2>1, InvisibleStep
  <1>6. ASSUME UNCHANGED <<exec, stage>> PROVE UNCHANGED Lifecycle!lifecycleVars
    BY <1>6, InvisibleStep DEF Opened
  <1>7. ASSUME NEW i \in Owners, NEW o \in Owners, RefuseSecond(i, o)
        PROVE  UNCHANGED Lifecycle!lifecycleVars
    BY <1>7, RefusalInvisible
  <1>8. QED
    BY <1>1, <1>2, <1>3, <1>4, <1>5, <1>6, <1>7
    DEF Next, StartupStep, ProbeNotDead, ProbeAcquire, ProbeRelease, RemoveLeftover, Stage,
        Unstage, vars

(* owner.py and recovery.py, of every execution: locks that are probed     *)
(* side by side, startups that die half-way and servers that crash amount  *)
(* to one recovery that closes, together and as unknown, executions that   *)
(* were still open, and never one of a server that is alive.               *)
THEOREM StartupImplementsLifecycle == Spec => ImplementsLifecycle
  <1>1. QED
    BY StartupInvariant, LifecycleInit, LifecycleStep, PTL
    DEF Spec, ImplementsLifecycle, Lifecycle!Spec

=============================================================================
