---------------------------- MODULE StagedRunner ----------------------------
(***************************************************************************)
(* One run of the staged script: run_staged in execution_binding.py with   *)
(* its threads (the caller, two pipe readers, the stdin writer) and the    *)
(* process tree it starts, which may fork, close its stdio, leave its      *)
(* process group, write without end or never exit.                         *)
(*                                                                         *)
(* The tree is the direct child and one descendant, "grandchild".  Time is *)
(* not counted: a timeout may strike whenever its wait is not over.  Two   *)
(* facts of the platform are assumed: a killed process dies before a       *)
(* bounded wait for it runs out, and a descendant on Windows stays in its  *)
(* parent's Job Object.                                                    *)
(***************************************************************************)
EXTENDS Integers

CONSTANT Platforms  \* platforms to run on: a subset of {"posix", "windows"}

ASSUME PlatformsAssumption == Platforms # {} /\ Platforms \subseteq {"posix", "windows"}

VARIABLES
  platform,  \* os.name of this run
  pc,        \* where the calling thread is
  proc,      \* state of each process of the tree
  stdio,     \* the process holds the inherited pipes
  contained, \* the process is in the group (posix) or the job (windows)
  exitCode,  \* the direct child's, once it has exited
  reader,    \* state of the drain thread of each pipe
  overflow,  \* the overflow flags
  writer,    \* state of the stdin thread
  dir,       \* the private staging directory exists
  outcome,   \* what run_staged returns, or "raised"
  code       \* its failure code

tree == <<proc, stdio, contained, exitCode>>
threads == <<reader, overflow, writer>>
verdict == <<outcome, code>>
vars == <<platform, pc, tree, threads, dir, verdict>>

Processes == {"child", "grandchild"}
Streams == {"stdout", "stderr"}

(* "dying" has been killed and not yet gone; only "gone" has been reaped.  *)
ProcessStates == {"none", "suspended", "running", "dying", "gone"}
Alive == {"suspended", "running", "dying"}

Init ==
  /\ platform \in Platforms
  /\ pc = "verify"
  /\ proc = [x \in Processes |-> "none"]
  /\ stdio = [x \in Processes |-> FALSE]
  /\ contained = [x \in Processes |-> FALSE]
  /\ exitCode = "none"
  /\ reader = [s \in Streams |-> "none"]
  /\ overflow = [s \in Streams |-> FALSE]
  /\ writer = "none"
  /\ dir = FALSE
  /\ outcome = "none" /\ code = "none"

-----------------------------------------------------------------------------
(* Helpers.                                                                *)

PipesHeld == \E x \in Processes : stdio[x] /\ proc[x] \in Alive

ThreadAlive == writer = "writing" \/ \E s \in Streams : reader[s] \in {"reading", "over", "reaping"}

(* Once a directory exists every return passes through the finally clause. *)
ReturnSwapped(oc, fc) == pc' = "finally" /\ outcome' = fc /\ code' = oc
Return(oc, fc) == pc' = "finally" /\ outcome' = oc /\ code' = fc

Killed(targets) == [x \in Processes |-> IF x \in targets /\ proc[x] \in Alive
                                        THEN "dying" ELSE proc[x]]

(* _terminate_tree: killpg reaches the whole group, even one whose leader  *)
(* has been reaped.  taskkill walks the tree from a child that is still    *)
(* there, or fails, and then only the child is killed.                     *)
TerminateTree ==
  IF platform = "posix"
  THEN {{x \in Processes : contained[x]}}
  ELSE IF proc["child"] = "gone" THEN {{}} ELSE {{"child"}, Processes}

(* TerminateJobObject.                                                     *)
JobMembers == IF platform = "windows" THEN {x \in Processes : contained[x]} ELSE {}

-----------------------------------------------------------------------------
(* The calling thread.                                                     *)

(* The hashes of the bytes and of the runner executable, then mkdtemp,     *)
(* which may raise: until it has succeeded there is no directory.          *)
Verify ==
  /\ pc = "verify"
  /\ \/ pc' = "stage" /\ dir' = TRUE /\ UNCHANGED verdict
     \/ /\ pc' = "done" /\ outcome' = "failure" /\ UNCHANGED dir
        /\ code' \in {"staged-hash-mismatch", "runner-executable"}
     \/ pc' = "done" /\ outcome' = "raised" /\ code' = "none" /\ UNCHANGED dir
  /\ UNCHANGED <<platform, tree, threads>>

(* Write, re-verify, canonicalize and spawn.                               *)
SpawnRunning ==
  /\ pc = "stage"
  /\ proc' = [proc EXCEPT !["child"] = "running"]
  /\ stdio' = [stdio EXCEPT !["child"] = TRUE]
  /\ contained' = [contained EXCEPT !["child"] = platform = "posix"]
  /\ pc' = IF platform = "posix" THEN "start" ELSE "arm"
  /\ UNCHANGED <<platform, exitCode, threads, dir, verdict>>
Spawn ==
  /\ pc = "stage"
  /\ proc' = [proc EXCEPT !["child"] = IF platform = "posix" THEN "running" ELSE "suspended"]
  /\ stdio' = [stdio EXCEPT !["child"] = TRUE]
  /\ contained' = [contained EXCEPT !["child"] = platform = "posix"]
  /\ pc' = IF platform = "posix" THEN "start" ELSE "arm"
  /\ UNCHANGED <<platform, exitCode, threads, dir, verdict>>

SpawnFails ==
  /\ pc = "stage"
  /\ \/ Return("failure", "staged-hash-mismatch")
     \/ Return("unknown", "spawn-failure")
     \/ Return("raised", "none")
  /\ UNCHANGED <<platform, tree, threads, dir>>

(* Windows: the suspended child joins the job and only then is resumed; if *)
(* either fails it is killed.                                              *)
Arm ==
  /\ pc = "arm"
  /\ \/ /\ contained' = [contained EXCEPT !["child"] = TRUE]
        /\ proc' = [proc EXCEPT !["child"] = "running"]
        /\ pc' = "start" /\ UNCHANGED verdict
     \/ /\ \E targets \in TerminateTree : proc' = Killed(targets)
        /\ Return("unknown", "spawn-failure")
        /\ UNCHANGED contained
  /\ UNCHANGED <<platform, stdio, exitCode, threads, dir>>

(* Readers and writer start; a thread that cannot start raises.            *)
StartThreads ==
  /\ pc = "start"
  /\ \/ /\ reader' = [s \in Streams |-> "reading"]
        /\ writer' = "writing"
        /\ pc' = "wait" /\ UNCHANGED verdict
     \/ Return("raised", "none") /\ UNCHANGED <<reader, writer>>
  /\ UNCHANGED <<platform, tree, overflow, dir>>

ChildExited ==
  /\ pc = "wait" /\ proc["child"] = "gone"
  /\ pc' = "join"
  /\ UNCHANGED <<platform, tree, threads, dir, verdict>>

WaitTimeoutUnkilled ==
  /\ pc = "wait" /\ proc["child"] # "gone"
  /\ Return("unknown", "executor-timeout")
  /\ UNCHANGED <<platform, tree, threads, dir>>
WaitTimeout ==
  /\ pc = "wait" /\ proc["child"] # "gone"
  /\ \E targets \in TerminateTree : proc' = Killed(targets \cup JobMembers)
  /\ Return("unknown", "executor-timeout")
  /\ UNCHANGED <<platform, stdio, contained, exitCode, threads, dir>>

WaitError ==
  /\ pc = "wait"
  /\ proc' = Killed(JobMembers)
  /\ Return("unknown", "executor-error")
  /\ UNCHANGED <<platform, stdio, contained, exitCode, threads, dir>>

(* A join ran out with its thread alive: somebody still holds the pipes,   *)
(* or a reader is still busy killing.                                      *)
JoinUntilClosed ==
  /\ pc = "join" /\ ThreadAlive /\ ~PipesHeld
  /\ Return("unknown", "none")
  /\ UNCHANGED <<platform, tree, threads, dir>>
JoinTimeout ==
  /\ pc = "join" /\ ThreadAlive
  /\ \E targets \in TerminateTree : proc' = Killed(targets \cup JobMembers)
  /\ Return("unknown", IF \E s \in Streams : overflow[s] THEN "output-limit" ELSE "none")
  /\ UNCHANGED <<platform, stdio, contained, exitCode, threads, dir>>

EvaluateByExitCode ==
  /\ pc = "join"
  /\ IF exitCode = "zero" THEN Return("success", "none") ELSE Return("failure", "non-zero-exit")
  /\ UNCHANGED <<platform, tree, threads, dir>>
Evaluate ==
  /\ pc = "join" /\ ~ThreadAlive
  /\ IF \E s \in Streams : overflow[s] THEN Return("failure", "output-limit")
     ELSE IF exitCode = "zero" THEN Return("success", "none")
     ELSE Return("failure", "non-zero-exit")
  /\ UNCHANGED <<platform, tree, threads, dir>>

(* finally: on Windows the job, if there is one, is terminated.            *)
Finally ==
  /\ pc = "finally"
  /\ proc' = Killed(JobMembers)
  /\ pc' = "await"
  /\ UNCHANGED <<platform, stdio, contained, exitCode, threads, dir, verdict>>

(* _await_tree_exit: until the group or the job is empty, or its deadline, *)
(* which by assumption only a process nobody killed outlasts.              *)
Awaited == {x \in Processes : contained[x] /\ proc[x] \in Alive}
AwaitTreeExit ==
  /\ pc = "await"
  /\ Awaited = {} \/ \E x \in Awaited : proc[x] = "running"
  /\ pc' = "done" /\ dir' = FALSE
  /\ UNCHANGED <<platform, tree, threads, verdict>>

-----------------------------------------------------------------------------
(* The other threads.                                                      *)

(* A reader that has drained more than the limit kills the tree itself and *)
(* then waits for the child to be reaped.                                  *)
ReaderOverflows(s) ==
  /\ reader[s] = "reading"
  /\ overflow' = [overflow EXCEPT ![s] = TRUE]
  /\ reader' = [reader EXCEPT ![s] = "over"]
  /\ UNCHANGED <<platform, pc, tree, writer, dir, verdict>>

ReaderKills(s) ==
  /\ reader[s] = "over"
  /\ \E targets \in TerminateTree : proc' = Killed(targets)
  /\ reader' = [reader EXCEPT ![s] = "reaping"]
  /\ UNCHANGED <<platform, pc, stdio, contained, exitCode, overflow, writer, dir, verdict>>

ReaderEnds(s) ==
  /\ \/ reader[s] = "reading" /\ ~PipesHeld
     \/ reader[s] = "reaping" /\ proc["child"] = "gone"
  /\ reader' = [reader EXCEPT ![s] = "done"]
  /\ UNCHANGED <<platform, pc, tree, overflow, writer, dir, verdict>>

(* The payload is read, or the pipe breaks with its last holder.           *)
WriterEnds ==
  /\ writer = "writing"
  /\ writer' = "done"
  /\ UNCHANGED <<platform, pc, tree, reader, overflow, dir, verdict>>

-----------------------------------------------------------------------------
(* The processes.                                                          *)

Fork ==
  /\ proc["child"] = "running" /\ proc["grandchild"] = "none"
  /\ proc' = [proc EXCEPT !["grandchild"] = "running"]
  /\ stdio' = [stdio EXCEPT !["grandchild"] = stdio["child"]]
  /\ contained' = [contained EXCEPT !["grandchild"] = contained["child"]]
  /\ UNCHANGED <<platform, pc, exitCode, threads, dir, verdict>>

CloseStdio(x) ==
  /\ proc[x] = "running" /\ stdio[x]
  /\ stdio' = [stdio EXCEPT ![x] = FALSE]
  /\ UNCHANGED <<platform, pc, proc, contained, exitCode, threads, dir, verdict>>

(* setsid in a descendant; a session leader cannot.                        *)
LeaveGroup ==
  /\ platform = "posix" /\ proc["grandchild"] = "running" /\ contained["grandchild"]
  /\ contained' = [contained EXCEPT !["grandchild"] = FALSE]
  /\ UNCHANGED <<platform, pc, proc, stdio, exitCode, threads, dir, verdict>>

Exit(x) ==
  /\ proc[x] \in {"running", "dying"}
  /\ proc' = [proc EXCEPT ![x] = "gone"]
  /\ stdio' = [stdio EXCEPT ![x] = FALSE]
  /\ IF x = "grandchild" THEN UNCHANGED exitCode
     ELSE exitCode' \in IF proc[x] = "dying" THEN {"signal"} ELSE {"zero", "non-zero"}
  /\ UNCHANGED <<platform, pc, contained, threads, dir, verdict>>

-----------------------------------------------------------------------------

Runner == Verify \/ Spawn \/ SpawnFails \/ Arm \/ StartThreads
          \/ ChildExited \/ WaitTimeout \/ WaitError
          \/ JoinTimeout \/ Evaluate \/ Finally \/ AwaitTreeExit

Next ==
  \/ Runner
  \/ \E s \in Streams : ReaderOverflows(s) \/ ReaderKills(s) \/ ReaderEnds(s)
  \/ WriterEnds
  \/ Fork \/ LeaveGroup
  \/ \E x \in Processes : CloseStdio(x) \/ Exit(x)

Spec == Init /\ [][Next]_vars

(* The calling thread runs and its timeouts expire; killed processes die.  *)
(* Nothing is asked of processes nobody killed, nor of the other threads.  *)
FairSpec == /\ Spec /\ WF_vars(Runner)
            /\ \A x \in Processes : WF_vars(proc[x] = "dying" /\ Exit(x))

-----------------------------------------------------------------------------
(* Properties.                                                             *)

TypeOK ==
  /\ platform \in Platforms
  /\ pc \in {"verify", "stage", "arm", "start", "wait", "join", "finally", "await", "done"}
  /\ proc \in [Processes -> ProcessStates]
  /\ stdio \in [Processes -> BOOLEAN]
  /\ contained \in [Processes -> BOOLEAN]
  /\ exitCode \in {"none", "zero", "non-zero", "signal"}
  /\ reader \in [Streams -> {"none", "reading", "over", "reaping", "done"}]
  /\ overflow \in [Streams -> BOOLEAN]
  /\ writer \in {"none", "writing", "done"}
  /\ dir \in BOOLEAN
  /\ outcome \in {"none", "success", "failure", "unknown", "raised"}
  /\ code \in {"none", "staged-hash-mismatch", "runner-executable", "spawn-failure",
               "executor-timeout", "executor-error", "output-limit", "non-zero-exit"}

(* ADR 0005 and 0012: success is said only of a child that exited zero of  *)
(* its own accord, within the output limit on both pipes, and with nobody  *)
(* in the tree left to write to them.                                      *)
SuccessIsEarned ==
  outcome = "success" =>
    exitCode = "zero" /\ (\A s \in Streams : ~overflow[s]) /\ ~PipesHeld

(* ADR 0012, the contract of _await_tree_exit, which holds on Windows: once *)
(* the caller has its outcome nothing of the script runs or can run again,  *)
(* whether it was forked before its parent was contained (the arming race), *)
(* held the pipes or let go of them; no contained process is left and the   *)
(* staging directory is gone.                                               *)
NoSurvivor ==
  (platform = "windows" /\ pc = "done") =>
    /\ \A x \in Processes : proc[x] \notin {"suspended", "running"}
    /\ ~dir /\ Awaited = {}

(* The part of it that holds on posix too: after a timeout or an enforced  *)
(* output limit the group is dead before the return.                       *)
KilledTreeIsGone ==
  (pc = "done" /\ code \in {"executor-timeout", "output-limit"}) => ~dir /\ Awaited = {}

(* docs/adr/0012: every return path waits for the group to die, so no      *)
(* contained descendant outlives the outcome; said of the success path.    *)
SuccessEndsTree == (pc = "done" /\ outcome = "success") => Awaited = {}

(* A run returns whatever the script does: never exiting, never reading    *)
(* its input, or leaving a descendant on the pipes.                        *)
RunReturns == <>(pc = "done")

=============================================================================
