------------------------- MODULE StagedRunnerProofs -------------------------
(***************************************************************************)
(* What an outcome of the staged runner says of the process tree, whatever *)
(* platform it runs on and however its threads and processes interleave.   *)
(***************************************************************************)
EXTENDS StagedRunner, TLAPS

(* A process that executes, or that somebody may still resume.             *)
CanRun == {"suspended", "running"}

(* Nothing of the group, or of the job, can run again.                     *)
Quelled == \A x \in Processes : contained[x] => proc[x] \notin CanRun

(* The codes that are given only after the tree was killed.                *)
KillCodes == {"executor-timeout", "output-limit"}

-----------------------------------------------------------------------------
(* The invariant.                                                          *)

(* Until the spawn there is no process; until the return no verdict.       *)
BeforeSpawn ==
  /\ pc = "verify" => ~dir
  /\ pc \in {"verify", "stage"} =>
       \A x \in Processes : proc[x] = "none" /\ ~stdio[x] /\ ~contained[x]
  /\ pc \in {"verify", "stage", "arm", "start", "wait", "join"} =>
       outcome = "none" /\ code = "none"

(* A child is suspended only while it is armed, and runs only contained; on *)
(* Windows so does all that it forks.                                      *)
RunsContained ==
  /\ pc = "arm" => platform = "windows" /\ proc["child"] = "suspended"
  /\ \A x \in Processes : proc[x] = "suspended" => x = "child" /\ pc = "arm"
  /\ proc["child"] = "running" => contained["child"]
  /\ platform = "windows" => \A x \in Processes : proc[x] = "running" => contained[x]

(* Only the living hold a pipe.                                            *)
HoldersAlive == \A x \in Processes : stdio[x] => proc[x] \in Alive

(* A drain thread that ended without an overflow saw its pipe closed.      *)
ReadersDrain ==
  \A s \in Streams :
    /\ pc \in {"verify", "stage", "arm", "start"} => reader[s] = "none"
    /\ pc \in {"wait", "join"} => reader[s] # "none"
    /\ reader[s] \in {"none", "reading"} => ~overflow[s]
    /\ reader[s] \in {"over", "reaping"} => overflow[s]
    /\ reader[s] = "done" /\ ~overflow[s] => ~PipesHeld

(* Exits are waited for, and only a reaped child is judged.                *)
JudgedWhenReaped ==
  /\ pc = "join" => proc["child"] = "gone"
  /\ outcome = "success" =>
       /\ proc["child"] = "gone" /\ exitCode = "zero"
       /\ \A s \in Streams : reader[s] = "done" /\ ~overflow[s]

(* On posix a kill of the group leaves nothing in it that could run or     *)
(* fork again; on Windows the job is terminated before the tree is awaited. *)
KillsLast ==
  /\ platform = "posix" =>
       /\ code \in KillCodes => Quelled
       /\ \A s \in Streams :
            reader[s] = "reaping" \/ (reader[s] = "done" /\ overflow[s]) => Quelled
  /\ platform = "windows" /\ pc \in {"await", "done"} =>
       \A x \in Processes : proc[x] \notin CanRun

RunnerInv ==
  /\ TypeOK
  /\ BeforeSpawn
  /\ RunsContained
  /\ HoldersAlive
  /\ ReadersDrain
  /\ JudgedWhenReaped
  /\ KillsLast
  /\ NoSurvivor
  /\ KilledTreeIsGone

-----------------------------------------------------------------------------
(* Every step below is read against the parts of the invariant.            *)
USE DEF TypeOK, BeforeSpawn, RunsContained, HoldersAlive, ReadersDrain,
        JudgedWhenReaped, KillsLast, NoSurvivor, KilledTreeIsGone,
        Quelled, CanRun, KillCodes, Alive, Awaited, PipesHeld, tree, threads, verdict

LEMMA RunnerInitInv == Init => RunnerInv
  <1> SUFFICES ASSUME Init PROVE RunnerInv
    OBVIOUS
  <1>1. TypeOK
    BY DEF Init, ProcessStates
  <1>2. platform \in {"posix", "windows"}
    BY PlatformsAssumption DEF Init
  <1>3. BeforeSpawn /\ RunsContained /\ HoldersAlive /\ ReadersDrain
    BY <1>2 DEF Init, Streams, Processes
  <1>4. JudgedWhenReaped /\ KillsLast /\ NoSurvivor /\ KilledTreeIsGone
    BY <1>2 DEF Init
  <1>5. QED
    BY <1>1, <1>3, <1>4 DEF RunnerInv

(* A kill turns the living targets into dying ones and nothing else: it    *)
(* opens no pipe and leaves nobody to be awaited who was not before.       *)
OnlyKills(targets) ==
  /\ proc' \in [Processes -> ProcessStates]
  /\ \A x \in Processes :
       /\ x \in targets => proc'[x] \notin CanRun
       /\ proc'[x] \in CanRun => proc'[x] = proc[x]
       /\ proc'[x] \in Alive <=> proc[x] \in Alive
       /\ proc[x] = "gone" => proc'[x] = "gone"
       /\ proc[x] = "none" => proc'[x] = "none"

LEMMA KilledFacts ==
  ASSUME RunnerInv, NEW targets, proc' = Killed(targets)
  PROVE  OnlyKills(targets)
  <1>1. /\ proc' \in [Processes -> ProcessStates]
        /\ \A x \in Processes :
             proc'[x] = IF x \in targets /\ proc[x] \in Alive THEN "dying" ELSE proc[x]
    BY DEF RunnerInv, Killed, ProcessStates
  <1>2. QED
    BY <1>1 DEF OnlyKills

LEMMA KillsKeep ==
  ASSUME RunnerInv, NEW targets, OnlyKills(targets), UNCHANGED <<stdio, contained>>
  PROVE  /\ HoldersAlive' /\ (PipesHeld' <=> PipesHeld)
         /\ (Awaited' = Awaited) /\ (Quelled => Quelled')
  <1>1. HoldersAlive' /\ (PipesHeld' <=> PipesHeld)
    BY DEF RunnerInv, OnlyKills
  <1>2. Quelled => Quelled'
    BY DEF RunnerInv, OnlyKills
  <1>3. Awaited' = Awaited
    BY DEF RunnerInv, OnlyKills
  <1>4. QED
    BY <1>1, <1>2, <1>3

-----------------------------------------------------------------------------
(* The calling thread.                                                     *)

LEMMA VerifyInv ==
  ASSUME RunnerInv, Verify
  PROVE  RunnerInv'
  <1>1. CASE pc' = "stage" /\ dir' = TRUE /\ UNCHANGED verdict
    BY <1>1 DEF RunnerInv, Verify
  <1>2. CASE pc' = "done" /\ outcome' = "failure" /\ UNCHANGED dir
             /\ code' \in {"staged-hash-mismatch", "runner-executable"}
    BY <1>2 DEF RunnerInv, Verify
  <1>3. CASE pc' = "done" /\ outcome' = "raised" /\ code' = "none" /\ UNCHANGED dir
    BY <1>3 DEF RunnerInv, Verify
  <1>4. QED
    BY <1>1, <1>2, <1>3 DEF Verify

LEMMA SpawnInv ==
  ASSUME RunnerInv, Spawn
  PROVE  RunnerInv'
  BY PlatformsAssumption DEF RunnerInv, Spawn, Processes, ProcessStates

LEMMA SpawnFailsInv ==
  ASSUME RunnerInv, SpawnFails
  PROVE  RunnerInv'
  BY DEF RunnerInv, SpawnFails, Return

(* The arming race: the child runs only once it is in the job, or dies.    *)
LEMMA ArmInv ==
  ASSUME RunnerInv, Arm
  PROVE  RunnerInv'
  <1>1. CASE /\ contained' = [contained EXCEPT !["child"] = TRUE]
             /\ proc' = [proc EXCEPT !["child"] = "running"]
             /\ pc' = "start" /\ UNCHANGED verdict
    BY <1>1 DEF RunnerInv, Arm, Processes, ProcessStates
  <1>2. ASSUME NEW targets \in TerminateTree, proc' = Killed(targets),
               Return("unknown", "spawn-failure"), UNCHANGED contained
        PROVE  RunnerInv'
    <2>1. "child" \in targets
      BY DEF RunnerInv, Arm, TerminateTree, Processes
    <2>2. OnlyKills(targets)
      BY <1>2, KilledFacts
    <2>3. QED
      BY <1>2, <2>1, <2>2 DEF RunnerInv, OnlyKills, Arm, Return, Processes
  <1>3. QED
    BY <1>1, <1>2 DEF Arm

LEMMA StartThreadsInv ==
  ASSUME RunnerInv, StartThreads
  PROVE  RunnerInv'
  BY DEF RunnerInv, StartThreads, Return

LEMMA ChildExitedInv ==
  ASSUME RunnerInv, ChildExited
  PROVE  RunnerInv'
  BY DEF RunnerInv, ChildExited

(* On posix a kill reaches every process of the group.                     *)
LEMMA GroupKilled ==
  ASSUME RunnerInv, NEW targets \in TerminateTree, platform = "posix"
  PROVE  \A x \in Processes : contained[x] => x \in targets
  BY DEF TerminateTree

LEMMA WaitTimeoutInv ==
  ASSUME RunnerInv, WaitTimeout
  PROVE  RunnerInv'
  <1>1. PICK targets \in TerminateTree : proc' = Killed(targets \cup JobMembers)
    BY DEF WaitTimeout
  <1>2. OnlyKills(targets \cup JobMembers)
    BY <1>1, KilledFacts
  <1>3. platform = "posix" => Quelled'
    BY <1>2, GroupKilled DEF OnlyKills, WaitTimeout
  <1>4. HoldersAlive' /\ (PipesHeld' <=> PipesHeld) /\ (Awaited' = Awaited) /\ (Quelled => Quelled')
    BY <1>2, KillsKeep DEF WaitTimeout
  <1>5. TypeOK' /\ BeforeSpawn'
    BY <1>2 DEF RunnerInv, OnlyKills, WaitTimeout, Return
  <1>6. RunsContained'
    BY <1>2 DEF RunnerInv, OnlyKills, WaitTimeout, Return, Processes
  <1>7. ReadersDrain'
    BY <1>4 DEF RunnerInv, WaitTimeout, Return
  <1>8. JudgedWhenReaped'
    BY <1>2 DEF RunnerInv, OnlyKills, WaitTimeout, Return, Processes
  <1>9. KillsLast'
    BY <1>2, <1>3, <1>4 DEF RunnerInv, OnlyKills, WaitTimeout, Return
  <1>10. NoSurvivor' /\ KilledTreeIsGone'
    BY <1>4 DEF RunnerInv, WaitTimeout, Return
  <1>11. QED
    BY <1>4, <1>5, <1>6, <1>7, <1>8, <1>9, <1>10 DEF RunnerInv

LEMMA WaitErrorInv ==
  ASSUME RunnerInv, WaitError
  PROVE  RunnerInv'
  <1>1. OnlyKills(JobMembers)
    BY KilledFacts DEF WaitError
  <1>2. HoldersAlive' /\ (PipesHeld' <=> PipesHeld) /\ (Awaited' = Awaited) /\ (Quelled => Quelled')
    BY <1>1, KillsKeep DEF WaitError
  <1>3. TypeOK' /\ BeforeSpawn'
    BY <1>1 DEF RunnerInv, OnlyKills, WaitError, Return
  <1>4. RunsContained'
    BY <1>1 DEF RunnerInv, OnlyKills, WaitError, Return, Processes
  <1>5. ReadersDrain'
    BY <1>2 DEF RunnerInv, WaitError, Return
  <1>6. JudgedWhenReaped'
    BY <1>1 DEF RunnerInv, OnlyKills, WaitError, Return, Processes
  <1>7. KillsLast'
    BY <1>1, <1>2 DEF RunnerInv, OnlyKills, WaitError, Return
  <1>8. NoSurvivor' /\ KilledTreeIsGone'
    BY <1>2 DEF RunnerInv, WaitError, Return
  <1>9. QED
    BY <1>2, <1>3, <1>4, <1>5, <1>6, <1>7, <1>8 DEF RunnerInv

LEMMA JoinTimeoutInv ==
  ASSUME RunnerInv, JoinTimeout
  PROVE  RunnerInv'
  <1>1. PICK targets \in TerminateTree : proc' = Killed(targets \cup JobMembers)
    BY DEF JoinTimeout
  <1>2. OnlyKills(targets \cup JobMembers)
    BY <1>1, KilledFacts
  <1>3. platform = "posix" => Quelled'
    BY <1>2, GroupKilled DEF OnlyKills, JoinTimeout
  <1>4. HoldersAlive' /\ (PipesHeld' <=> PipesHeld) /\ (Awaited' = Awaited) /\ (Quelled => Quelled')
    BY <1>2, KillsKeep DEF JoinTimeout
  <1>5. TypeOK' /\ BeforeSpawn'
    BY <1>2 DEF RunnerInv, OnlyKills, JoinTimeout, Return
  <1>6. RunsContained'
    BY <1>2 DEF RunnerInv, OnlyKills, JoinTimeout, Return, Processes
  <1>7. ReadersDrain'
    BY <1>4 DEF RunnerInv, JoinTimeout, Return
  <1>8. JudgedWhenReaped'
    BY <1>2 DEF RunnerInv, OnlyKills, JoinTimeout, Return, Processes
  <1>9. KillsLast'
    BY <1>2, <1>3, <1>4 DEF RunnerInv, OnlyKills, JoinTimeout, Return
  <1>10. NoSurvivor' /\ KilledTreeIsGone'
    BY <1>4 DEF RunnerInv, JoinTimeout, Return
  <1>11. QED
    BY <1>4, <1>5, <1>6, <1>7, <1>8, <1>9, <1>10 DEF RunnerInv

LEMMA EvaluateInv ==
  ASSUME RunnerInv, Evaluate
  PROVE  RunnerInv'
  BY DEF RunnerInv, Evaluate, Return, ThreadAlive

(* Whatever runs on Windows is in the job.                                 *)
LEMMA FinallyInv ==
  ASSUME RunnerInv, Finally
  PROVE  RunnerInv'
  <1>1. OnlyKills(JobMembers)
    BY KilledFacts DEF Finally
  <1>2. platform = "windows" => \A x \in Processes : proc'[x] \notin CanRun
    BY <1>1 DEF RunnerInv, OnlyKills, Finally, JobMembers
  <1>3. HoldersAlive' /\ (PipesHeld' <=> PipesHeld) /\ (Awaited' = Awaited) /\ (Quelled => Quelled')
    BY <1>1, KillsKeep DEF Finally
  <1>4. TypeOK' /\ BeforeSpawn'
    BY <1>1 DEF RunnerInv, OnlyKills, Finally
  <1>5. RunsContained'
    BY <1>1 DEF RunnerInv, OnlyKills, Finally, Processes
  <1>6. ReadersDrain'
    BY <1>3 DEF RunnerInv, Finally
  <1>7. JudgedWhenReaped'
    BY <1>1 DEF RunnerInv, OnlyKills, Finally, Processes
  <1>8. KillsLast'
    BY <1>1, <1>2, <1>3 DEF RunnerInv, OnlyKills, Finally
  <1>9. NoSurvivor' /\ KilledTreeIsGone'
    BY <1>3 DEF RunnerInv, Finally
  <1>10. QED
    BY <1>3, <1>4, <1>5, <1>6, <1>7, <1>8, <1>9 DEF RunnerInv

LEMMA AwaitTreeExitInv ==
  ASSUME RunnerInv, AwaitTreeExit
  PROVE  RunnerInv'
  <1>1. platform \in {"posix", "windows"}
    BY PlatformsAssumption DEF RunnerInv
  <1>2. platform = "windows" \/ code \in KillCodes => Awaited = {}
    BY <1>1 DEF RunnerInv, AwaitTreeExit
  <1>3. NoSurvivor' /\ KilledTreeIsGone'
    BY <1>1, <1>2 DEF RunnerInv, AwaitTreeExit
  <1>4. KillsLast'
    BY DEF RunnerInv, AwaitTreeExit
  <1>5. TypeOK'
    BY DEF RunnerInv, AwaitTreeExit
  <1>6. BeforeSpawn' /\ RunsContained'
    BY DEF RunnerInv, AwaitTreeExit
  <1>7. HoldersAlive' /\ ReadersDrain' /\ JudgedWhenReaped'
    BY DEF RunnerInv, AwaitTreeExit
  <1>8. QED
    BY <1>3, <1>4, <1>5, <1>6, <1>7 DEF RunnerInv

-----------------------------------------------------------------------------
(* The other threads.                                                      *)

LEMMA ReaderOverflowsInv ==
  ASSUME RunnerInv, NEW s \in Streams, ReaderOverflows(s)
  PROVE  RunnerInv'
  BY DEF RunnerInv, ReaderOverflows

LEMMA ReaderKillsInv ==
  ASSUME RunnerInv, NEW s \in Streams, ReaderKills(s)
  PROVE  RunnerInv'
  <1>1. PICK targets \in TerminateTree : proc' = Killed(targets)
    BY DEF ReaderKills
  <1>2. OnlyKills(targets)
    BY <1>1, KilledFacts
  <1>3. platform = "posix" => Quelled'
    BY <1>2, GroupKilled DEF OnlyKills, ReaderKills
  <1>4. HoldersAlive' /\ (PipesHeld' <=> PipesHeld) /\ (Awaited' = Awaited) /\ (Quelled => Quelled')
    BY <1>2, KillsKeep DEF ReaderKills
  <1>5. TypeOK' /\ BeforeSpawn'
    BY <1>2 DEF RunnerInv, OnlyKills, ReaderKills
  <1>6. RunsContained'
    BY <1>2 DEF RunnerInv, OnlyKills, ReaderKills, Processes
  <1>7. ReadersDrain'
    BY <1>2, <1>4 DEF RunnerInv, OnlyKills, ReaderKills
  <1>8. JudgedWhenReaped'
    BY <1>2 DEF RunnerInv, OnlyKills, ReaderKills, Processes
  <1>9. KillsLast'
    BY <1>2, <1>3, <1>4 DEF RunnerInv, OnlyKills, ReaderKills
  <1>10. NoSurvivor' /\ KilledTreeIsGone'
    BY <1>2, <1>4 DEF RunnerInv, OnlyKills, ReaderKills
  <1>11. QED
    BY <1>4, <1>5, <1>6, <1>7, <1>8, <1>9, <1>10 DEF RunnerInv

LEMMA ReaderEndsInv ==
  ASSUME RunnerInv, NEW s \in Streams, ReaderEnds(s)
  PROVE  RunnerInv'
  BY DEF RunnerInv, ReaderEnds

LEMMA WriterEndsInv ==
  ASSUME RunnerInv, WriterEnds
  PROVE  RunnerInv'
  BY DEF RunnerInv, WriterEnds

-----------------------------------------------------------------------------
(* The processes.  A child of a quelled group is in it, so it cannot fork. *)

LEMMA ForkInv ==
  ASSUME RunnerInv, Fork
  PROVE  RunnerInv'
  BY PlatformsAssumption DEF RunnerInv, Fork, Processes, ProcessStates

LEMMA LeaveGroupInv ==
  ASSUME RunnerInv, LeaveGroup
  PROVE  RunnerInv'
  BY DEF RunnerInv, LeaveGroup, Processes

LEMMA CloseStdioInv ==
  ASSUME RunnerInv, NEW x \in Processes, CloseStdio(x)
  PROVE  RunnerInv'
  BY DEF RunnerInv, CloseStdio

LEMMA ExitInv ==
  ASSUME RunnerInv, NEW x \in Processes, Exit(x)
  PROVE  RunnerInv'
  BY DEF RunnerInv, Exit, Processes, ProcessStates

-----------------------------------------------------------------------------
LEMMA RunnerNextInv == RunnerInv /\ [Next]_vars => RunnerInv'
  <1> SUFFICES ASSUME RunnerInv, [Next]_vars PROVE RunnerInv'
    OBVIOUS
  <1>1. CASE Runner
    BY <1>1, VerifyInv, SpawnInv, SpawnFailsInv, ArmInv, StartThreadsInv,
       ChildExitedInv, WaitTimeoutInv, WaitErrorInv, JoinTimeoutInv,
       EvaluateInv, FinallyInv, AwaitTreeExitInv DEF Runner
  <1>2. ASSUME NEW s \in Streams, ReaderOverflows(s) \/ ReaderKills(s) \/ ReaderEnds(s)
        PROVE  RunnerInv'
    BY <1>2, ReaderOverflowsInv, ReaderKillsInv, ReaderEndsInv
  <1>3. CASE WriterEnds
    BY <1>3, WriterEndsInv
  <1>4. CASE Fork \/ LeaveGroup
    BY <1>4, ForkInv, LeaveGroupInv
  <1>5. ASSUME NEW x \in Processes, CloseStdio(x) \/ Exit(x)
        PROVE  RunnerInv'
    BY <1>5, CloseStdioInv, ExitInv
  <1>6. CASE UNCHANGED vars
    BY <1>6 DEF vars, RunnerInv
  <1>7. QED
    BY <1>1, <1>2, <1>3, <1>4, <1>5, <1>6 DEF Next

-----------------------------------------------------------------------------

(* The invariant holds in every state of run_staged, its threads and tree. *)
THEOREM RunnerInvariant == Spec => []RunnerInv
  <1>1. QED
    BY RunnerInitInv, RunnerNextInv, PTL DEF Spec

(* The variables of run_staged keep their types.                           *)
THEOREM RunnerTypes == Spec => []TypeOK
  <1>1. RunnerInv => TypeOK
    BY DEF RunnerInv
  <1>2. QED
    BY <1>1, RunnerInvariant, PTL

(* Success is returned only of a child that exited zero, within the limit  *)
(* on both pipes, with nobody left to write: a reader that ended without   *)
(* an overflow saw its pipe closed, and a closed pipe stays closed.        *)
THEOREM SuccessEarned == Spec => []SuccessIsEarned
  <1>1. RunnerInv => SuccessIsEarned
    <2>1. "stdout" \in Streams
      BY DEF Streams
    <2>2. QED
      BY <2>1 DEF RunnerInv, SuccessIsEarned
  <1>2. QED
    BY <1>1, RunnerInvariant, PTL

(* On Windows nothing of the script outlives run_staged, however it        *)
(* interleaves its forks with the arming and the kills.                    *)
THEOREM WindowsLeavesNoSurvivor == Spec => []NoSurvivor
  <1>1. RunnerInv => NoSurvivor
    BY DEF RunnerInv
  <1>2. QED
    BY <1>1, RunnerInvariant, PTL

(* A timeout or an output limit is reported only of a tree that is gone.   *)
THEOREM KilledTreesGone == Spec => []KilledTreeIsGone
  <1>1. RunnerInv => KilledTreeIsGone
    BY DEF RunnerInv
  <1>2. QED
    BY <1>1, RunnerInvariant, PTL

-----------------------------------------------------------------------------
(* Why a run returns.                                                      *)

(* The calling thread's way through run_staged.                            *)
Place == CASE pc = "verify" -> 0 [] pc = "stage" -> 1 [] pc = "arm" -> 2
           [] pc = "start" -> 3 [] pc = "wait" -> 4 [] pc = "join" -> 5
           [] pc = "finally" -> 6 [] pc = "await" -> 7 [] pc = "done" -> 8

(* _await_tree_exit never waits for a process that can stay as it is: what *)
(* is left of the group or job has been killed, or still runs and is given *)
(* up at the deadline.  A suspended child would hang it.                   *)
AwaitEnds == pc = "await" => \A x \in Awaited : proc[x] \in {"running", "dying"}

(* The thread goes one way, and what was killed only dies.                 *)
OneWay ==
  /\ pc' # pc => Place < Place'
  /\ \A x \in Processes : proc[x] = "dying" => proc'[x] \in {"dying", "gone"}
GoesOneWay == [][OneWay]_vars

LEMMA RunnerOneWay ==
  ASSUME RunnerInv, Runner
  PROVE  OneWay
  <1>1. proc \in [Processes -> ProcessStates]
    BY DEF RunnerInv
  <1>2. Place < Place'
    BY DEF Runner, Verify, Spawn, SpawnFails, Arm, StartThreads, ChildExited, WaitTimeout,
           WaitError, JoinTimeout, Evaluate, Finally, AwaitTreeExit, Return, Place
  <1>3. ASSUME NEW x \in Processes, proc[x] = "dying" PROVE proc'[x] = "dying"
    <2>1. ASSUME NEW targets, proc' = Killed(targets) PROVE proc'[x] = "dying"
      BY <1>1, <1>3, <2>1 DEF Killed
    <2>2. CASE Spawn
      BY <1>3, <2>2 DEF Spawn, RunnerInv
    <2>3. CASE Arm
      BY <1>1, <1>3, <2>1, <2>3 DEF Arm, RunnerInv
    <2>4. QED
      BY <1>3, <2>1, <2>2, <2>3
      DEF Runner, Verify, SpawnFails, StartThreads, ChildExited, WaitTimeout, WaitError,
          JoinTimeout, Evaluate, Finally, AwaitTreeExit
  <1>4. QED
    BY <1>2, <1>3 DEF OneWay

LEMMA OthersOneWay ==
  ASSUME RunnerInv,
         \/ \E s \in Streams : ReaderOverflows(s) \/ ReaderKills(s) \/ ReaderEnds(s)
         \/ WriterEnds \/ Fork \/ LeaveGroup
         \/ \E x \in Processes : CloseStdio(x) \/ Exit(x)
  PROVE  OneWay
  <1>1. proc \in [Processes -> ProcessStates]
    BY DEF RunnerInv
  <1>2. pc' = pc
    BY DEF ReaderOverflows, ReaderKills, ReaderEnds, WriterEnds, Fork, LeaveGroup, CloseStdio, Exit
  <1>3. ASSUME NEW x \in Processes, proc[x] = "dying" PROVE proc'[x] \in {"dying", "gone"}
    <2>1. ASSUME NEW targets, proc' = Killed(targets) PROVE proc'[x] = "dying"
      BY <1>1, <1>3, <2>1 DEF Killed
    <2>2. CASE Fork
      BY <1>1, <1>3, <2>2 DEF Fork
    <2>3. ASSUME NEW y \in Processes, Exit(y) PROVE proc'[x] \in {"dying", "gone"}
      BY <1>1, <1>3, <2>3 DEF Exit
    <2>4. QED
      BY <1>3, <2>1, <2>2, <2>3
      DEF ReaderOverflows, ReaderKills, ReaderEnds, WriterEnds, LeaveGroup, CloseStdio
  <1>4. QED
    BY <1>2, <1>3 DEF OneWay

(* The safety half of RunReturns.  Every step of the calling thread brings *)
(* it nearer to its return, no other thread or process moves it back, and  *)
(* the one wait without a timeout of its own in the model is for processes *)
(* that are bound to die or that end the wait by running on.               *)
THEOREM RunGoesOneWay == Spec => []AwaitEnds /\ GoesOneWay
  <1>1. RunnerInv => AwaitEnds
    BY DEF RunnerInv, AwaitEnds
  <1>2. RunnerInv /\ [Next]_vars => [OneWay]_vars
    BY RunnerOneWay, OthersOneWay DEF Next
  <1>3. QED
    BY <1>1, <1>2, RunnerInvariant, PTL DEF Spec, GoesOneWay

=============================================================================
