# Formal model of ops-guard

ops-guard serves an agent host over MCP. The agent proposes a remediation
(`propose_fix`), an operator approves it, out of band or by a standing
authorization, and `execute_fix` runs exactly what was proposed, at most once,
through a gate that records an audit trail. What makes it correct is not any one
function: it is what holds *between* a check and the act that relies on it, with
several service processes on one SQLite database, crashes at any point, an
operator editing scripts and configuration, a lossy chat transport and a child
process tree that does what it likes.

This directory models that part: TLA+ modules translated from `src/src/ops_guard`,
TLC configurations that check them, and TLAPS proofs of every safety property the
passing runs check, for every value of the constants. `PROJECT.json` maps every definition to the
lines it models.

    tlc -workers 2 -config MCUnitsOfWork.cfg MCUnitsOfWork   # any run in the table below
    tlapm LedgerProofs.tla                                   # any *Proofs module

## 1. Inventory

### Components

| component | state | operations | talks to |
|---|---|---|---|
| proposal store (`proposals.py`, `store.py`) | `proposals`, `execution_bindings` rows: frozen invocation, one-time token digest, expiry, consumption | `open_proposal`, `resolve`, `resolve_on`, `consume` with callbacks in its transaction | audit log (same transaction), gate, verifier |
| approval verifier (`approvals.py`) | `approvals` rows, one per token | `record_approval`, `record_approval_by_proposal_id`, `verify` (three connections), `spend_approval_append` | proposal store, gate, Telegram transport |
| audit log (`audit.py`) | `audit_events`, ordered by `sequence` | `append` (own transaction), `append_on` (caller's) | everybody |
| execution gate (`gate.py`, `proposal_tool.py`) | locals of each call on a server thread | `execute`: resolve, script, catalog, evidence, observers, authorization, dispatch, run, outcome | all of the above, runner |
| owner locks and recovery (`owner.py`, `recovery.py`) | a lock file per process instance; staging directories | `ExecutionOwner`, `probe`, `reconcile_interrupted_executions`, `sweep_exec_tmp_leftovers` | audit log, operating system |
| staged runner (`execution_binding.py`) | staging directory, child tree, Windows job, two reader threads, a writer thread | `run_staged` | gate, operating system |
| Telegram transport (`telegram_approval.py`, `_ApprovalRuntime`) | process-local `sent` set and `offset`; chat and updates at Telegram | `ApprovalNotifier` and `ApprovalPoller` threads | verifier, Telegram |
| observers and policy (`preconditions.py`) | none (a thread per observation) | `observe` with timeout, total deadline in the gate | gate |
| standing authorization (`authorization.py`) | none after startup | exact match | gate |
| catalog (`execution_binding.py`) | none after startup | resolve a request to a binding | proposal tool, gate |
| service startup (`service.py`) | the process | reconcile, sweep, load configuration, take the owner lock, serve | all |
| guarded connection (`store.py`) | the open transaction it lends to a callback | `execute` of a callback's statement, or its rejection | store, gate |
| runbooks and retrieval (`runbooks.py`, `retrieval.py`) | the verified revisions loaded at startup | `load`, `search_runbook`, `resolve_citation` | agent host, both tools, audit log |
| advisory judge (`judge.py`) | none (a local model behind HTTP) | `evaluate_risk`, never read by the gate | `propose_fix`, audit log |
| canonicalization, errors, evaluation, demonstrations | none, or offline | conversion | proposals |

### What is hard

* **Concurrency.** `execute_fix` calls run on threads of several processes. A call
  reads the database about five times before the one transaction that dispatches;
  anything it read may be stale by then. Startups probe locks side by side.
  In the runner a reader thread kills the tree while the caller evaluates the exit.
* **Transactions.** A unit of work is atomic only if it reads under the write lock, writes
  everything in one transaction, and nobody ends that transaction from inside.
* **Evidence.** A citation is composed by an agent host, from a search over a library the
  operator edits; search, proposal and execution may each meet another library.
* **Crashes.** After the dispatch commit nothing ties the side effect to the
  database: a start without an outcome must be closed exactly once, and never run again.
* **Partial failure.** A required append fails in the dispatch transaction, or after
  the side effect; a storage error comes in the middle of a batch of presses.
* **Unreliable delivery.** A lost response is not a lost request; an offset confirms
  everything below it; a restart forgets the offset and redelivers.
* **Observation.** Each precondition is asked of a thread that may answer in time, late
  or never, and all of them share one deadline. Scripts, catalog, profile and policy may
  have changed since the proposal, in any combination.
* **Time.** Expiry is strict and is checked again under the write lock; the wall clock
  can step back; timeouts strike while the child exits.

The hazards, each at its line, are in `PROJECT.json` with the properties aimed at them.

### What makes each component correct

* *Ledger*: token, start record and approval move together or not at all; a trail
  begins with its proposal and only grows; a sweep never adds a second outcome.
* *Units of work*: however statements of different connections interleave, fail or are cut
  off, the database moves by whole units, each judged on the state it found; the trail is
  numbered without a gap, and a search that gave results is in it.
* *Evidence*: a citation that resolves names the verified text its search showed, whatever
  was edited since; a call runs on evidence served now that is the frozen revision; and
  nothing the advisory judge does keeps a proposal from being created.
* *Gate*: at most one side effect per proposal, under a start record of the running
  instance, on the bytes the binding names, with a real authorization; the caller is
  told what the trail says; one terminal outcome.
* *Checks before dispatch*: an authorization path is found only for the script and profile
  that would be bound again now, after one timely, expected answer per precondition; a
  standing path names the bytes that will run; the checks end whatever the adapters do.
* *Recovery*: an owner taken for dead is dead until the verdict has been acted on;
  no probe leaks a lock; no live run loses its directory; every startup ends, and closes
  the open starts of the dead but for those it meets a temp sweep's probe on.
* *Runner*: success is said only of a clean exit within the limits with nobody left on
  the pipes; what was killed is gone before the return; a run always returns.
* *Transport*: a button always ends a complete preview; an approval stands for a press
  of the operator; no press is confirmed undecided; presses and buttons get through.

## 2. Modules

    Ledger ───────┬── UnitsOfWork ─────── MCUnitsOfWork
                  ├── ApprovalTransport ── MCApprovalTransport
                  └── ExecutionGate ────── MCExecutionGate
                        └─ INSTANCE ExecutionLifecycle
    DispatchChecks ── Guidance ── MCGuidance
    StartupRecovery          (what Boot and Crash of ExecutionGate abstract)
      └─ INSTANCE ExecutionLifecycle
    StagedRunner             (what StartEffect and Report of ExecutionGate abstract)

    LedgerProofs ─┬── UnitsOfWorkProofs
                  ├── TransportProofs
                  └── ExecutionGateProofs
    DispatchChecksProofs ── GuidanceProofs
    StartupProofs, StagedRunnerProofs

Each `*Proofs` module extends the module it is named for, `TransportProofs` extends
`ApprovalTransport`; lines are EXTENDS unless they say INSTANCE.

`DispatchChecks` and `Guidance` are what `ReadScript` and `Authorize` of `ExecutionGate`
abstract.

**`Ledger`** is the shared database. A unit of work runs under `BEGIN IMMEDIATE`, so it
is one action, and a rolled back unit is a stutter. Its `Next` lets every unit of work be
issued at any time its callers could, which makes `Spec` the abstract specification the
three modules built on it implement (`ImplementsLedger`, all built by EXTENDS, so the
refinement mapping is the identity on the ledger's variables). Tokens, digests and
frozen bytes are abstracted to the proposal's identity; an event keeps the columns
another event or row is compared with.

**`UnitsOfWork`** takes those actions apart. A session is a connection with one unit to do:
it waits for the write lock, works statement by statement on a view nobody else sees, and
commits, rolls back, times out or dies. `open_proposal` reads the clock before it waits,
every other unit reads it under the lock, and the wall clock moves at any time, so a unit may
judge by a time that others have left behind; the ledger's `clock` is that time. The two
callbacks of `consume` are statements of its unit, and any callback may try to end the
transaction it was lent: `LeadKeyword` and `Rejected` say which attempts
`GuardedConnection` lets through. The events of `search_runbook`, which belong to no
proposal, are here because they share the sequence of the trail. What SQLite does (one
writer, rollback, durability) is assumed; that the code makes atomic units of it is checked.

**`ExecutionLifecycle`** is what the whole promises of an execution, with no process, call,
clock or lock in it: opened, perhaps approved, started at most once on an authority it had
at that moment, in effect at most once and only while it is open, closed at most once.
`ExecutionGate` implements it (`ImplementsLifecycle`) under a mapping that counts the start
and outcome records of each trail and the side effects actually started: a second start,
an effect after a recovery, or a second outcome is not a step of it.

**`ExecutionGate`** puts processes around it: instances that start with any of a set of
configurations, crash and are never resumed under the same owner id; calls whose every
read, the dispatch, the start of the effect and the outcome record are separate steps,
so all stale reads happen. `Boot` reconciles any subset of the dead owners, as a startup's
probes may miss some (`StartupRecovery` says when). Checks on data immutable for the call (the verified library,
this instance's catalog) are folded into the step before. An observation is a
nondeterministic verdict; `DispatchChecks` has the detail. `Report` is enabled from "run" as
well, for runs that end without the script having started. Storage errors may end a call at
any read.

**`DispatchChecks`** is one call from its token to its authorization path, with what the
gate module takes as verdicts: the catalog and policy as documents that must pass their
loaders, the binding resolved at proposal time and compared field by field at the call, one
observer thread per precondition with its timeout cut to what is left of the deadline, and
the match of standing authorizations. A digest is the document it covers (digests are
taken to be injective), so the gate's separate comparison of the entry digest, path and
script digest is one comparison of entries; the binding document's own digest and the
invocation digest in it cannot differ for a stored row and are left out. What does not
change between proposal and match (action, target, arguments, preconditions, revision) is
one flag of an authorization, `covers`. The clock moves between the steps of the
calling thread, not inside one, and by at most `Lag` ticks while the thread could go on:
between one observation and the next, between reading what is left of the deadline and
starting the worker (`Observe`, `StartWorker`), and between the end of the join and its
judgment. The time bounds hold but for those lags, which nothing in the code limits.

**`Guidance`** puts around those checks what leads to them: the documents on disk, the
library a restart loads from them, a search hit the host keeps, the citation and invocation
it composes (from that hit or from anything else of the right form), the call of
`propose_fix`, and the citation presented to `execute_fix`. That call is three steps with the
service's restarts between them: citation and invocation are compared (`BeginPropose`), the
advisory judgment is waited for (`JudgeProposal`), and the binding is resolved and the
proposal written, or not (`CreateProposal`, `CreateNothing`). A content hash is the body
it covers, so a document declares a hash that may be another body's. It EXTENDS
`DispatchChecks`, conjoining to its `Propose` and `CheckBinding` what the tools and the gate
compare with the resolved evidence, so the theorems of the checks carry over by one lemma.
What the model behind the judge answers is arbitrary; `Advice` is how every way it can end
becomes a status. One way is no status: an entry of the pinned library that
`_project_entry` cannot read, outside the handlers of `judge.py`, raises through the tool
(`"unreadable"`). `JudgedCallCreates` is ADR 0009's promise with that one exception.

**`StartupRecovery`** is the same recovery at the grain of lock operations: probe acquire
and release are two steps, so two startups' probes meet on one lock; reconciliation holds
the write lock, the sweep none and lists the directories after the commit. The refusal of a
second call adds an event with an outcome of its own to the trail of a start, and a
reconciliation must see past it. `ExecutionGate` takes `Boot` as one step that closes any
subset of what is dead: `DeadMeansDead` is why never more, `DeadStartRecovered` and
`PassedOverOnlyByProbe` say when less, and `HeldMeansAlive`, violated, that it can be less.
The module implements the same `ExecutionLifecycle` as the gate, with one execution per owner.

**`StagedRunner`** is one `run_staged` call: the calling thread step by step, the reader
and writer threads, and a child and one descendant that fork, exit, close their pipes and
leave the group whenever they like, on either platform.

**`ApprovalTransport`** is the notifier and poller of one service process, Telegram's chat
and update queue, lossy calls and restarts. Only the poller's loop, the notifier's scan and
their calls are steps; message text and callback encoding are abstracted. A preview is cut as
`build_preview_parts` cuts it, by length, with the part count checked after a slice is
taken. Here the clock
does not step back: `NoPressSkipped` speaks of presses *still* recordable, and a press
refused as expired would become recordable again if the clock did. The gate's own internal
approvals are not among its `Others`, so that an approval there is the transport's.

The names follow the source: `ResolveToken`/`ReadScript`/... are the numbered steps of
`ExecutionGate.execute`, `ReadApproval` and `ResolveApproved` the connections of
`verify`, `Poll`/`Decide`/`Hold`/`Advance` the parts of `run_once`. Operators such as
`BeginDeferred` or `OutcomeLostButReturned` that stand before a definition
are mutated forms of it: each is a plausible bug, and `PROJECT.json` says which property
it must break. No action uses them.

## 3. Runs

| run | configuration | shows |
|---|---|---|
| `units` | `MCUnitsOfWork.cfg` | two connections at once: every commit is one ledger unit on the state it found, token, start and approval stay paired, trails well founded, recovery first or absent, the numbering of the trail gapless |
| `gate` | `MCExecutionGate.cfg` | two calls on one token, two instances, three configurations: justified effect, authorized dispatch, truthful result; every step implements the ledger and the lifecycle |
| `checks` | `MCGuidance.cfg` | from a search to the authorization path of one call, under edited runbooks and scripts, changed catalogs and policies, adapters that answer in time, late or never: what a citation names, what a path rests on, that no judgment keeps a proposal from being created, and that the checks end |
| `gate_evidence` | `MCExecutionGateEvidence.cfg` | **violated**: a rejected citation leaves no refusal record |
| `startup` | `StartupRecovery.cfg` | four instances start, serve and crash side by side: verdicts, locks, outcomes, directories |
| `startup_recovers` | `StartupRecoveryEnds.cfg` | three instances: every startup ends, and closes the start a crash left open unless it met a temp sweep's probe on the owner's lock |
| `startup_held` | `StartupRecoveryHeld.cfg` | **violated**: a held lock need not mean a live owner |
| `runner` | `StagedRunner.cfg` | both platforms, any script: success is earned, killed trees are gone, no Windows process runs uncontained or survives, the call returns |
| `runner_posix` | `StagedRunnerPosix.cfg` | **violated**: a descendant outlives a reported success |
| `transport` | `MCApprovalTransport.cfg` | complete previews, pressed approvals, no press confirmed undecided, ledger implemented, with two faults anywhere |
| `transport_progress` | `MCApprovalTransportLive.cfg` | presses are decided and buttons arrive when faults are finite |
| `transport_evidence` | `MCApprovalTransportEvidence.cfg` | **violated**: no preview carries the evidence reference |

### Disagreements found

1. `gate_evidence`: `execute_fix` raises a `ToolError` on a citation that does not resolve
   before it reaches the gate (`proposal_tool.py:216`), so the call ends without the
   refusal record `docs/system_flow.md:20` and `docs/architecture.md:152` promise.
2. `startup_held`: `probe` tests a lock by taking it (`owner.py:107`); a second startup that
   probes meanwhile reads "alive" for a dead owner, against ADR 0005 rule 3. Nothing
   unsafe follows: the start waits for a later startup, perhaps a long time.
3. `runner_posix`: on posix the finally clause waits for the group but does not kill it
   (`execution_binding.py:672`), so after the bounded wait a descendant that closed its
   pipes is alive when success is returned, against ADR 0012's "every return path".
4. `transport_evidence`: `evidence_refs_for` matches on `proposal_ref`, which the proposal
   event does not set (`telegram_approval.py:318`, `proposals.py:191`): the evidence line
   of ADR 0010 is never in a preview.

### Bounds, and why they are enough

* `units`: two connections, as SQLite admits one writer and the races are between it and one
  other; one proposal, as rows and trails of two meet only in `Reconcile` (of each
  independently) and in the sequence, which the search events share; one operator, one
  binding beside "none", TTL 1 and a clock of 0..1 so that a proposal is live, expires at the
  exact tick, and lives again when the clock steps back. `MaxTrail` stops refusals only; an
  outcome after a recovery is allowed, which is enough to break finality. `MaxSearches` is 1.
  The two sessions are symmetric; no liveness is checked under that symmetry.
* `gate`: one proposal, as no call reads another's rows; two calls, as the races are between
  two readers and one writer; two instances, so that one dies and its successor
  reconciles; two scripts and bindings; configurations that differ in catalog, operator and
  standing authorization. The calls, and the instances, are symmetric.
* `checks`: two preconditions, the least that share a deadline; timeouts below, at and
  above what is left of a deadline of 3, with a `Lag` of 1 and so an end by 6, which TLC
  reaches. One catalog and one change of
  each of its fields that a call compares, two that must not load, and policies that map
  both preconditions, one of them, or one of them twice; their authorizations match, or
  miss by bytes or by profile. `Horizon` ends the clock above any time a check reads. Four
  bodies: a revision, the same edited under its label, one without verification, one with a
  locator twice; one document declares another's hash. Two operations and two lists of
  preconditions, and the edited revision has the other list. Judgments: answered, a terminal
  code, a raise, and an entry that cannot be read. Three libraries, so that what was
  shown is served again, edited, or served beside its successor.
* `startup`: four owners: a dead one, a live one and two startups at once, or two dead
  ones in one reconciliation. `startup_recovers` has three, as liveness is dearer: a dead
  one, a sweeping one and a reconciling one, the case in which a start is passed over. Each
  instance dispatches once, so the system stops: `CHECK_DEADLOCK FALSE`.
* `runner`: a child and one descendant, two output streams. One descendant is enough: no
  step of the runner counts them. The call ends, so `CHECK_DEADLOCK FALSE`.
* `transport`: a preview of exactly the maximum of two parts and one a character longer; two
  presses in total, two faults (one for liveness): a lost response and a restart, or a hold
  and a restart, can both happen. `MaxPresses` and `MaxFaults` are guards of `Press` and `Fault`.

### Fairness

* `FairGuidanceSpec`: the calling thread of the checks runs and time passes (`worker.join` has a
  timeout). No adapter need ever answer. The thread of a `propose_fix` runs, and its judgment
  comes to some end: the pinned library gives each request to the model a timeout.
* `StartupRecovery!FairSpec`: a startup's steps keep being taken, its first included: that
  the process is started at all is the operator's supervisor, not code. SQLite's busy timeout is
  not modelled as an error, only as a wait; a startup that gives up is a `Crash`.
* `StagedRunner!FairSpec`: the calling thread runs and its timeouts expire; a killed process
  dies. Nothing is asked of the script or of the reader and writer threads.
* `FairTransportSpec`: both threads loop (`while not stop`). Faults are finite in number
  (`MaxFaults`), which is the only sense in which the network is assumed to recover. A poller
  whose `getMe` failed stays off, as documented: `PressesDecided` exempts it.

## 4. Proofs

Every theorem holds for any sets the constants name and any bounds; the assumptions are the
named ones of the modules (positive TTL, natural bounds, null values outside their sets, the
configurations' types, finitely many proposals for the sweep of `UnitsOfWork`), which TLC
evaluates in every run. Each state invariant below is a consequence of one inductive
invariant per module, proved by one lemma per action.

| module | theorem | statement |
|---|---|---|
| `LedgerProofs` | `LedgerInvariant`, `LedgerTypes` | `Spec => []IInv`, `[]TypeOK` |
| | `ApprovalsSpentWithTokens` | `Spec => []ApprovalSpentWithToken` |
| | `ConsumptionsPaired` | `Spec => []StartPairedWithConsumption` |
| | `TrailsWellFounded` | `Spec => []TrailWellFounded` |
| | `RecoveryFirst` | `Spec => []RecoveryNeverSecond` |
| | `LedgerDurable` | `Spec => Durable` |
| `UnitsOfWorkProofs` | `UnitsInvariant`, `UnitsTypes` | `UnitsSpec => []UnitsInv`, `[]UnitsTypeOK` |
| | `UnitsImplementLedger` | `UnitsSpec => ImplementsLedger` |
| | `UnitsKeepTheLedger` | the four invariants of the ledger and `Durable`, carried over |
| | `UnitsTrailComplete` | `UnitsSpec => []TrailComplete` |
| `ExecutionGateProofs` | `GateInvariant`, `GateTypes` | `GateSpec => []GateInv`, `[]GateTypeOK` |
| | `EffectsJustified` | `GateSpec => []EffectJustified` |
| | `DispatchesAuthorized` | `GateSpec => []DispatchAuthorized` |
| | `OutcomesFinal` | `GateSpec => []OutcomeIsFinal` |
| | `ResultsMatchTrail` | `GateSpec => []ResultMatchesTrail` |
| | `GateImplementsLedger` | `GateSpec => ImplementsLedger` |
| | `GateKeepsTheLedger` | the four invariants of the ledger and `Durable`, carried over |
| | `GateImplementsLifecycle` | `GateSpec => ImplementsLifecycle` |
| `TransportProofs` | `TransportInvariant`, `TransportTypes` | `TransportSpec => []TransportInv`, `[]TransportTypeOK` |
| | `ApprovalsPressed` | `TransportSpec => []ApprovalWasPressed` |
| | `PressesKept` | `TransportSpec => []NoPressSkipped` |
| | `ButtonsEndPreviews` | `TransportSpec => []ButtonEndsPreview` |
| | `TransportImplementsLedger` | `TransportSpec => ImplementsLedger` |
| | `TransportKeepsTheLedger` | the four invariants of the ledger and `Durable`, carried over |
| `DispatchChecksProofs` | `ChecksInvariant`, `ChecksTypes` | `Spec => []IInv`, `[]TypeOK` |
| | `ScriptIsBound` | `Spec => []BoundScriptOnly` |
| | `PathIsObserved` | `Spec => []ObservationsJustify` |
| | `StandingIsExact` | `Spec => []StandingCoversRun` |
| | `OneDeadline` | `Spec => DeadlineKept` |
| | `ChecksAreTimely` | `Spec => []InTime` |
| | `ChecksGoForward` | `Spec => []CanGoOn /\ GoesForward` |
| `GuidanceProofs` | `GuidanceInvariant`, `GuidanceTypes` | `GuidanceSpec => []GuidanceInv`, `[]GuidanceTypeOK` |
| | `CitationsNeverShift` | `GuidanceSpec => []CitationsStable` |
| | `EvidenceAlwaysStands` | `GuidanceSpec => []EvidenceStands` |
| | `GuidanceScriptIsBound`, `...PathIsObserved`, `...StandingIsExact`, `...IsTimely` | the properties of the checks, carried over |
| `StartupProofs` | `StartupInvariant`, `StartupTypes` | `Spec => []StartupInv`, `[]TypeOK` |
| | `VerdictsTrue` | `Spec => []DeadMeansDead` |
| | `OutcomesOnce` | `Spec => []OneTerminalOutcome` |
| | `LocksReturned` | `Spec => []NoLockLeaks` |
| | `DirectoriesKept` | `Spec => LiveRunKeepsDirectory` |
| | `StartupImplementsLifecycle` | `Spec => ImplementsLifecycle` |
| | `MissedOnlyBesideSweep` | `Spec => PassedOverOnlyByProbe` |
| | `StartupsNotHeldUp` | `Spec => [](OwnLockFree /\ WriterWorks)` |
| `StagedRunnerProofs` | `RunnerInvariant`, `RunnerTypes` | `Spec => []RunnerInv`, `[]TypeOK` |
| | `SuccessEarned` | `Spec => []SuccessIsEarned` |
| | `WindowsLeavesNoSurvivor` | `Spec => []NoSurvivor` |
| | `KilledTreesGone` | `Spec => []KilledTreeIsGone` |
| | `RunGoesOneWay` | `Spec => []AwaitEnds /\ GoesOneWay` |

Proved and not checked by a run of their own: `LedgerDurable` and `OutcomesFinal`, which
refinements the runs do check imply; `OneDeadline`, `ChecksAreTimely`, the lifecycle of
`StartupRecovery`, `MissedOnlyBesideSweep`, `StartupsNotHeldUp`; and `ChecksGoForward` and `RunGoesOneWay`, the safety
halves of two liveness properties that the runs check whole.

### The arguments

**Ledger.** `IInv` is the type invariant with the four state properties. No strengthening is
needed, because every guard a unit of work relies on is re-evaluated under the write lock:
that is the design the proof confirms. Every action writes the row, approval and trail
of one proposal (`Reconcile`: of each independently), so `IInv` is restated for one
proposal (`RowInv`); `Appended` says which start and terminal positions an event adds.

**Units of work.** `UnitsInv` says how far the view of the one session that holds the write
lock is from the committed tables at each statement (`OpenDone`, `ApprovalDone`,
`ConsumptionDone`, ...): at the end of its program the distance is exactly one unit of the
ledger, judged by the time it read. What a caller saw when it issued an outcome must survive the
wait (`Issued`), which it does because only recoveries may come first and no two
sessions hold an outcome of one proposal (`OneCloser`).

`TrailComplete` compares the last sequence number with a sum over the proposals, a recursive
fold. Its recursion is proved first: the sum is the number of cells `<<p, n>>` with
`n <= Len(audit[p])`, so the function the fold defines exists (`TotalRecursion`), and a sum
grows by what one trail grows (`TotalGrows`), both by `SubsetInduction` over the finite set
of proposals. `TallyInv` then says that the committed counter, and the one in the view of the
session that holds the lock, are the sum of their own trails and of the search events, and
that a search in progress has counted one event per statement it is past: a number
read under the write lock is the one to continue from, a rollback drops both sides at once.

**Gate.** `GateInv` says of each call what the label it has reached stands for (`Placed`,
`Identified`, `Authorized`, `Executing`, `Reported`) and of each proposal what its trail and
effect rest on (`RowsInv`). A call that is past its dispatch is on a live instance,
its start is in the trail, no terminal event is, and no other call is there (`Exclusive`):
hence one effect and one outcome, and a recovery only for the dead. What is approved or
authorized can only be spent, never altered, so an early check stays true of what
the dispatch commits. The lifecycle's counters are shown to be the 0 or 1 of this invariant
(`Mapping`); every step of the gate is then one step of one proposal or invisible, except
the sweep, which closes several.

**Transport.** Whatever is queued, shown or pressed was opened before (`ShownAreOpened`), so
a press once settled, recorded or refused for good, stays settled: the ledger's `Durable`
says its proposal cannot become eligible again. `PollerInOrder` says the batch is
consecutive and all before the poller's place is settled. A restart or a hold moves
that place back, never forward, so what Telegram is told to forget is settled.

`ButtonEndsPreview` is about slices that a recursive function of the text computes.
`PartsSliced` says what they are for every length: consecutive, from
the first character to the last, and as many as its length needs. `DeliveryInv`
says that in the chat every part but the first follows its predecessor (`PartsChained`), for
the one delivery under way has just sent the part before (`DeliveryInOrder`), and one lost,
interrupted or repeated can only end, or begin again with its first part. So the messages
before a button are the parts in order (`RunOfParts`).

**Checks and guidance.** The properties speak of the call's end; the invariants say what must
have been true on the way. `BindingInv` carries what the binding checks established through
the observations (the instance's documents cannot change under a call, the script file
can, and what was read of it stays). `ObservationInv` says that every precondition below the
index has been accepted, and of the one under way (`UnderWay`) that the clock is past its
time by no more than the calling thread has lost: that bounds a late answer, and is why
`OneDeadline` needs no induction over the preconditions, and why all of them together end by
three lags after the deadline (`ChecksAreTimely`; TLC reaches that bound). `LoadedIsFunctional` and
`OneObserver` are where the loaders' uniqueness checks are used. `GuidanceInv` adds that what
is served, shown and frozen is of verified text under its true hash (`LibraryInv`,
`FrozenInv`), and that a call of `propose_fix` waiting for its judgment was begun on evidence
that is still served, because a restart would have cut it (`CallInv`). As the steps of
`Guidance` are steps of `DispatchChecks` or leave it alone, its theorems follow.

**Startup.** A server holds its own lock from before it dispatches until it dies
(`ServersLocked`), and only who has served is ever visited (`VisitsServed`): so a free lock
is the lock of a dead owner, and the probe that took it keeps others out (`ProbesHold`). One
startup reconciles at a time, and the starts on its list stay open until it commits
(`OneReconciles`): a live owner appends its own outcome only to a start no verdict names.
So the commit is the lifecycle's `Recover` of all it found dead, and every other step
`Propose`, `Start`, `Close` or nothing (`StartupImplementsLifecycle`); which effect an
execution has is outside this module, and mapped to none. A dead owner's lock can be held
only by a probe (`LocksReturned`), and while one startup reconciles no other does: so the probe a
reconciliation can meet there is a temp sweep's (`MissedOnlyBesideSweep`).

**Runner.** A reader that ends without an overflow saw its pipe closed, and a closed pipe
stays closed because a fork inherits only what its parent holds (`ReadersDrain`). A child
runs only contained (`RunsContained`), so once a group is killed nobody in it can run or
fork (`KillsLast`, `Quelled`), on whichever thread the kill came from; on Windows the same
holds of everything from the finally clause on.

Only model-checked: liveness (`DeadStartRecovered`, `StartupCompletes`, `RunReturns`,
`ChecksEnd`, `JudgedCallCreates`, `PressesDecided`, `ButtonArrives`), as fairness and ENABLED
are out of this prover's reach; of three of them the safety half is proved, that nothing goes
back and nobody waits for what cannot come, and of `DeadStartRecovered` its one exception. The library's induction theorems take an operator as a
parameter, which the installed provers cannot instantiate: the two inductions needed are
stated over sets instead (`NatSetInduction`, `SubsetInduction`) and proved by a least
counterexample. No module declares a RECURSIVE operator.

## 5. Assumptions about the platform

* SQLite: `BEGIN IMMEDIATE` serializes writers, a transaction is atomic across a crash.
* A file lock is released when its process dies, and owner ids are never reused.
* A killed process dies before the five-second bounded wait ends; otherwise
  `_await_tree_exit` gives up, which the code documents.
* A process assigned to a Windows job, and its descendants, cannot leave it.
* Telegram forgets exactly the updates below the offset of the last `getUpdates`.

## 6. Not modelled

* JCS canonicalization and digests: conversions. Two invocations, scripts or documents are
  compared as values here, digests being taken as injective.
* Refusals of a token that does not resolve: they name no proposal, and take a place in the
  sequence of the trail as the events of a search do.
* Audit redaction and input fingerprints; MCP schemas and error wording; TLS and bearer
  checks; environment parsing; the syntax of runbooks, catalogs and policies.
* Of retrieval, the scoring (any verified revision may be found); of the judge, the prompt,
  sampling and vote, which are a pinned library's: its answer is arbitrary.
* Evaluation corpora and demonstrations: offline tools. `mark_used_append` has no caller in
  the gate.
* What an adapter reads (`docker info`) is an arbitrary answer; that an observed state may
  change before the dispatch is documented as a snapshot, not a lock, and no property
  excludes it.

When the response to the last part of a preview is lost, the delivery counts as failed with
its button in the chat; the model has that behaviour, and `ApprovalWasPressed` and
`ImplementsLedger` show the approval it allows to be a legitimate one.

## 7. Plan

The modules were written in the order of risk: the ledger; the gate on it; recovery, runner
and transport; the checks before a dispatch; then the units of work inside the ledger's
actions, the evidence that leads to the checks, and the lifecycle above the gate. Proofs
followed in the same order. What is left:

1. The safety halves of `PressesDecided` and `ButtonArrives`, as for the runner and the checks.
2. `Boot` of `ExecutionGate` refined by `StartupRecovery`, and `StartEffect` to `Report` by
   `StagedRunner`, as one composed specification; its state space needs smaller
   instances of both.
3. A second notifier and poller on the same chat, should the service ever support it.
