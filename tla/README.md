# Formal models of Intentra

TLA+ models of the Intentra kernel (`src/`), checked with TLC on small instances
and proved with TLAPS for every instance. The models are written from the code;
where a comment or a document of the repository says otherwise, a run shows the
difference (see *Disagreements*).

## 1. The system

Intentra turns an intake (a sentence, a ticket, a webhook) into a **work item**,
chooses a **workflow template**, freezes it into a **graph of stages** and runs
it: one agent is dispatched per stage visit, returns an **envelope** (a typed
claim with evidence), and the kernel decides the next transition. Agents propose;
only the kernel decides.

| Component | State it keeps | Operations | Interacts with | What makes it correct |
|---|---|---|---|---|
| Run loop (`core/src/kernel.ts` `continueWithWorkItem`, `runGraph`, `loop`, `complete`, `reresolve`, `dispatchStage`, `end`) | current stage, iteration, attempt in stage, escalation, envelopes, loop counters, budget of run and work item, route-backs taken, safe prefix | start a run, enter the graph, dispatch, act on a result, route back, re-resolve, end | everything below | it stops; COMPLETE is earned; caps hold over retries, laps and runs |
| Transition function (`core/src/state-machine.ts`) | none | `decideAction`, `advance`, `loopExhausted`, `saferBranch` | called by the loop; reads predicates | every decided transition is an edge of the frozen graph whose cap is not exhausted |
| Budgets (`core/src/budgets.ts`) | none (records passed in) | `checkDispatchBudget`, `addCost`, `incrementLoop`, `reresolutionAllowed`, `discoveryLoopAllowed` | loop, prologue | bounded overshoot; what is consumed is never refunded |
| Definition of Done (`core/src/dod.ts`) | none | `collectVerdicts`, `stageOwning`, `computeDod` | `complete` | done exactly when no critical criterion is unmet; a route-back can help |
| Envelope receipt (`core/src/receipt.ts`, `crossfield.ts`, `evidence-verification.ts`, `reconciliation.ts`) | none | five ordered checks, accept or refuse | dispatch | no envelope is used before it is accepted |
| Predicates (`core/src/predicates.ts`) | re-probe cache of one decision | `evaluate`, `freshen` | discovery; transition function; entry stage | one decision is judged on one set of facts |
| Entry stage (`core/src/entry-stage.ts`) | none | the resume sweep | prologue | a run begins with no mutation seen done and behind none seen undone |
| Store and lease (`state/src/store.ts`, `layout.ts`) | `work-item.json`, `lease.json`, run directories | acquire, reclaim, release, put projection, create run | every kernel process on the machine | one active run per work item |
| Event log (`state/src/ndjson.ts`, `core/src/journal.ts`) | append-only logs, sequence numbers in each journal's memory | append, flush, read, truncate | loop, re-resolution, recovery | what was flushed is read back, in order |
| Recovery (`core/src/recovery.ts`, `recoverRun`) | none (projects a log) | project, decide retry, apply reversals | log, store | a mutation is not done twice |
| Workflow admission (`policies/src/graph.ts`, `core/src/workflow-admission.ts`) | none | well-formedness, dominance, floor, omission of stages | prologue | a frozen graph cannot reach COMPLETE round VALIDATION |
| Work item admission (`core/src/admission.ts`, `intake.ts`, `proposals.ts`) | intake records | identity, duplicate check, refusal | prologue, re-resolution | identity is stable |
| Uncertainty ladder (`core/src/ladder.ts`, `understood.ts`) | discovery laps spent | rungs: discover, safe prefix, ask, block | prologue | it ends, and mutates nothing it does not understand |
| Children (`core/src/orchestration.ts`) | links between work items | link, cancel, coordinate | `structural` | an Epic ends only when its children have |
| Selection and registries (`core/src/selection.ts`, `registries/src`) | none | eligibility and ranking of skills and models | `dispatchStage` | an excluded or too small model is not chosen |
| Agents (`agents/src`) | the session of a dispatch: transport, guard, timer, calls in flight | open, report the surface, call tools, time out, return a result | the kernel's `onCall`, adapters | no tool is called under a surface nobody compared |
| Adapters (`adapters/src`) | call log, mutation events, keys in memory, the ledger on disk | call, re-read, capture, execute, record, replay | agents, discovery, evidence verification | one effect per key; no effect unreported |
| Discovery (`discovery/src`) | the versions of a context package, refusals of a session | orient, deepen, probe, re-probe, assemble, reconcile, collect gaps | adapters; prologue and loop | a FACT was so when its probe looked, affirmed or denied; what is asked for again is not answered from memory |
| Policies (`policies/`) | data, checked once when loaded | template and floor checks | everything | every template is a workflow, exclusions included |
| Authorization, arbitration, work-item reconciliation, contracts, CLI, replay, narrative | none or data | classification, validation, text | kernel | rules applied in a fixed order |

**What is hard in it.** A run is a long sequence of legal steps: laps of a loop,
retries, PARTIAL envelopes, route-backs, resumed entries and a second run after a
re-resolution, each with a counter or a bound somewhere else in the code. Checks
and charges are apart (a cap is tested before a dispatch, its cost known after).
The process may die between any two writes, and what is on disk is then all there
is. Several kernels may find one work item. Dispatches fail and time out and are
retried. The hazards, with their lines, are in `PROJECT.json`.

## 2. Modules

| Family | Modules | Models |
|---|---|---|
| Completion | `FrozenGraph`, `DefinitionOfDone`, `VerdictCollection` | the stages of an admitted graph; `dod.ts`; the envelopes of a run as its Definition of Done sees them |
| Run loop | `StateMachine`, `RunLoop`, `RunLifecycle` | `state-machine.ts`; the loop with `budgets.ts`, crashes, retries and re-resolution; what a run promises whoever started it |
| Lease | `Lease` | `store.ts` `acquireLease`, `releaseLease` and what `continueWithWorkItem` does round them, under several kernels |
| Logs and recovery | `AppendOnlyLog`, `EventLog`, `Recovery` | what a log promises; `ndjson.ts` and `journal.ts`; the run as it writes its logs, and `recoverRun` over them |
| Dispatch | `ToolSurface`, `Selection`, `EnvelopeReceipt`, `Dispatch` | the tool surface and its grants; ranking of models and skills, and the roles of the catalogue; the checks an envelope passes; a session and the kernel that waits for it |
| Discovery | `AdapterOperations`, `Observations`, `RealityProbes`, `SectionProbes`, `Reconciliation`, `Discovery` | what an operation answers; assertions and their promotion; the probes; the reconciliation of the axes; the service that assembles packages |
| Adapters | `Adapters` | the framework between two awaits, with the confinement of `paths.ts` |
| Prologue | `WorkflowGraph`, `WorkflowAdmission`, `Predicates`, `EntryStage`, `Admission`, `Understanding`, `Prologue`, `ShippedPolicies` | graph checks and the floor; admission of a workflow; the predicates; the resume sweep; admission of a work item; the ladder; the run up to the stage it enters at; `policies/data` |
| Proofs | `DecisionProofs`, `RunLoopProofs`, `LeaseProofs`, `RecoveryProofs`, `DispatchProofs`, `AdaptersProofs`, `DiscoveryProofs`, `PrologueProofs` | the theorems |
| Instances | `MCVerdictCollection`, `MCRunLoop`, `MCRunLoopEpic`, `MCLease`, `MCRecovery`, `MCDispatch`, `MCDiscovery`, `MCAdapters`, `MCPrologue` | constants for TLC |

Composition goes by EXTENDS where one part calls the other (`RunLoop` calls
`StateMachine` and `DefinitionOfDone`; `Dispatch` is over `StateMachine`,
`EnvelopeReceipt` and `Selection`; `Recovery` writes through `EventLog`;
`Prologue` is over all of its family), and by INSTANCE where one implements the
other (`RunLoop` a `RunLifecycle`, `Recovery`'s logs an `AppendOnlyLog`). The run
is cut at its natural seams: `Prologue` ends where `RunLoop` begins, at a frozen
graph and an entry stage; `RunLoop` takes a dispatch as an outcome and `Dispatch`
says which outcomes there are; `Recovery` takes the loop's decisions as choices
and models what of them reaches the disk.

### RunLoop and the code

`disk` is `work-item.json` (lifecycle, `consumed_budget`, `reresolution_count`);
`workItem` is the copy the run was started with, which is what `end` writes back.
`phase` is where the kernel is between two awaits: in the prologue, at the top of
the loop, with an agent dispatched, or between the two runs of a re-resolution.
`stage`, `iteration`, `attempt`, `escalated`, `routedBack`, `budget` and
`safePrefix` are the locals of `loop`; `verdicts` is what `collectVerdicts` would
return. `logStage` is the stage `project()` computes from the run's log.
`history` is held by no variable of the code and read by properties only.

| Action | Code |
|---|---|
| `StartRun(w)` | `continueWithWorkItem` up to the projection written RESOLVED; from a call or out of a re-resolution |
| `PrologueBlocked`, `EntryBlocked`, `EnterGraph` | `runGraph`: the context dispatch, ladder, orchestrator and sweep, with what they charge |
| `EndTerminal`, `RouteBack`, `Complete`, `NoDescriptor`, `BudgetExceeded`, `IterationsExhausted` | the top of `loop`, and `complete` |
| `Dispatch` | `dispatch_intent` flushed, the agent running |
| `DispatchFailed`, `DispatchRefused` | a dispatch with no envelope (decided as FAILED); an envelope or tool surface that breaks its contract |
| `Accept` | an accepted envelope: charged, its verdicts superseding, then the action `decideAction` chose (transition, redispatch, block, re-resolve), the structural stages and the safe prefix included |
| `ReadmissionRefused` | `performReresolution` without a second run |
| `Crash` | the process dies; only `disk` survives |

A **dispatch is two steps**, so a crash may fall between the intent and the
result. Everything else between two awaits is one step: JavaScript runs it without
interleaving, and one kernel process holds the work item's lease. What happens
when two do is `Lease`'s subject.

Abstractions. An envelope is its status, whether it leaves required outputs
unfilled, whether its first blocker says the work was misclassified, the verdicts
it supplies, and what it declares it cost. Cost is one number (usd); tokens are
bounded nowhere. The wall clock is a `BudgetExceeded` that may happen at any
dispatch. A predicate is a value chosen per decision. Who the next work item of a
re-resolution is, is any work item, because the code derives it from a corrected
proposal.

### Lease and the code

Here the interleaving is between **processes**, and the file operation is the
unit: `lease.json` is created exclusively and then written, read, renamed over,
read back, and on release tested for, read and unlinked, each a step of its own.
`pc` is the file operation a run comes to next; a run is one call of
`continueWithWorkItem`, whose id is fresh. `listed` stands for the record: it is
the part of `work-item.json` (`runs`) in which a lost update shows, and `copy` is
what the run read before it asked for the lease.

| Action | Code |
|---|---|
| `Start` | the record and the clock are read |
| `Create`, `Write` | `openSync(path, 'wx')`, then the bytes, to the file that was opened |
| `Read`, `Rename`, `Confirm` | the age of an existing lease; the claim renamed over it; the read-back |
| `Refused`, `Register`, `End` | the three places the record is written back |
| `Exists`, `ReadOwn`, `Unlink` | `releaseLease`, in the `finally` |
| `Crash`, `Tick` | the process dies anywhere (an exception between the lease and the `try` leaves the same files); the clock |

A read of a missing or empty file throws, as `readJson` does, and ends the run.

### Recovery and the code

The runner is the kernel from `run_started` to `run_ended` and, where the run is
re-resolved, on through `performReresolution` and the run that takes its place. The
unit is the line appended (`runLog`, and `itemLog` of its work item) and the call an
agent makes (`calls`). A line is appended whole or torn; a crash may fall between
any two steps or inside a line.

`journal` has the sequence numbers that each journal has reached in memory, and
there may be several on the work item's log: the run's, the one `performReresolution`
opens before the next run (`kernel.ts:2412`) and appends by after it (2527), the next
run's, that of a process which is refused the lease, and a recovery's. The agent does
not wait for a call before it makes the next (`claude-agent-sdk.ts:884`), and a call
outlives its dispatch, so effects and their lines come in any order; a call that is
refused, or answered with an error after its effect, leaves no line that replay
reads, and is in the model as one that is never answered. `charged` and `results`
are kept apart, because only an accepted envelope is charged (`kernel.ts:1704`) and
every result is counted by replay.

| Action | Code |
|---|---|
| `Begin`, `StartedItem` ... `Enter`, `Intent`, `NoModel`, `LogResult`, `Advance`, `LoopBack`, `CountLoop`, `Redispatch`, `Block`, `GiveUp`, `EndedItem`, `EndedRun`, `Released` | the appends of `kernel.ts`, in their order |
| `Ask`, `Answer` | `onCall`: the call leaves, and its line is written once the adapter answered |
| `Complete`, `RouteBack`, `RouteBackRefused` | `complete`: done, a lap, or a lap that was already had and is written all the same (`kernel.ts:2605-2640`) |
| `LeavePrefix`, `ReresolvedItem`, `ReresolvedRun`, `OpenOuter`, `Propose`, `OpenNext`, `NextStarted`, `NextEnded`, `LinkNext` | `reresolve`, `performReresolution` and what the next run writes to the log they share |
| `RefuseAnother` | another process that wants the work item, from `openJournal` to the line that says it was refused |
| `ReadLog`, `Discard`, `Repair`, `Announce`, `Found`, `Completed` | `recoverRun` and `recover`: a torn tail found, reported and cut off, the log projected, the interrupted dispatch decided about and reported |
| `RunnerCrashes`, `RecovererCrashes`, `RecovererThrows` | the process dies; the work item's log is torn and refuses the append |

A recovery assumes what the code does not ask for: that the run is gone, and that
one recovery runs at a time (two may follow each other, and the first may crash).
Left out: a run that another process starts once this one is gone; the next run's own
log, and re-resolutions of its own; an exception between two lines; what the prologue
dispatches and charges (the iterations bound the run without it); several `mutation`
lines of one call, of which the framework makes one.

### Dispatch and the code

`kernel` is where `dispatchStage` is; `session` is the substrate's transport, its
guard and its result; `calls` are tool calls not answered yet, two at once. The
agent and the session move while the kernel awaits them, and a call that has begun
goes on after its session closed, to be answered to nobody and journalled in
whatever dispatch is then running. Evidence is replayed by an operation that is
registered and observation-safe, or the replay is refused.

| Action | Code |
|---|---|
| `DispatchFails`, `OpenDispatch` | model and skills chosen, tools granted, the intent journalled |
| `ReportSurface`, `CallTool`, `AnswerCall`, `TimerFires`, `StreamEnds` | the session (`claude-agent-sdk.ts`), its guard and its timer |
| `DispatchFailed`, `ContractViolation`, `BeginVerification` | the outcome, in the order the substrate looks; the receipt up to evidence |
| `VerifyOne`, `RejectOnEvidence`, `AcceptEnvelope`, `StoreThrows` | the replay of each piece of evidence, the thresholds, `putEnvelope` |
| `WorldChanges` | what the evidence was read from changes |

### Discovery and the code

`latest` is the last package, `work` the one being assembled, `now` the clock,
`suite` the availability found when the adapters were created. Each probe is one
step, because each reads its sources and returns; between two probes of a session
the world may change. The probes of `RealityProbes` are translated one by one, with
the listing, the look-up and the fall-back of each (`LookupPullRequest`, `ViaHost`);
those of `SectionProbes` by what they assert when their source answers, refuses or
is absent. An element remembers the world its probe saw and a package what its
session was asked for (`sawOf`, `asked`), which only properties read. `TrueOf` says
what a fact must mean, denied or affirmed, without the probe's way of finding out;
`Misread` names the five readings the code gets wrong, each at its line.

| Action | Code |
|---|---|
| `Orient`, `Deepen`, `ProbeByName` | a session begins, with its probes in the order of their tiers |
| `RunSectionProbe`, `RunRealityProbe`, `Assemble` | one probe, its assertions merged and promoted; the package, its matrix and its gaps |
| `ReprobeReality` | the stale element read again, for the caller alone |

### Adapters and the code

A call runs to its next await. What a framework remembers (`log`, `events`,
`keys`) is lost with the process; the `ledger` of a work item is on disk. A
request says what holds of a call and of its context: the descriptor, whether it is
keyed, by the dispatch or the work item, whether the path is confined. `live`
counts the resources each operation has created and that are still there, `raced`
marks a call whose look at the ledger another call outdated, and `excused` counts
the duplicates that such a race, a crash or an unwritten record explains.

| Action | Code |
|---|---|
| `Call` | confinement, preconditions, replay, the keys: to the first await |
| `AnswerReread`, `ResumeReread` | the resource of a ledger record read again, and what follows |
| `CaptureBefore`, `ExecuteRead`, `ExecuteMutation`, `Record` | the state before, the handler, the event and the key |
| `RecordFails` | `ledger.put` throws after the event was emitted and the dispatch's key kept: the call is neither logged nor answered |
| `NextDispatch`, `Outside`, `Crash` | a new dispatch id; others delete resources or the system goes away; the process dies |

### Prologue and the code

`phase` is the step that is next, of `work` and `runGraph` up to the loop, and of
`performReresolution`. `world` is what is true, and moves on while the run dispatches,
asks and probes. `context` is what `deepen` read of it, each element fresh until its
window passes; `answers` is what the evaluator's own probes of stale elements get
until `freshen` forgets them: a source that is silent in one may answer in the other.
`ladder` is rung two of the climb, `swept` the stages classified so far, `store` the
records on disk. `history`, `asked` and `looked` are held by no variable of the code:
the worlds since `deepen`, which of them were there at the last `freshen`, and which
of them the value of each swept stage may be of.

| Action | Code |
|---|---|
| `ResolutionFails`, `DispatchResolution`, `ResolveIdentity`, `Admit` | a proposal of Context Discovery, the external identity fetched, `admitWorkItem` with the one redispatch |
| `LeaseRefused`, `AcquireLease`, `Deepen`, `ContextBlocked`, `ContextAccepted` | the record and its lifecycle, the context envelope |
| `ComputeUnderstood`, `ProbeGap`, `SettleOrAsk`, `HumanAnswers`, `NobodyAnswers` | `computeUnderstood` and `climbLadder` |
| `EvaluateOutcome`, `SelectWorkflow` | an outcome that already holds; the Orchestrator's proposal, `admitWorkflow` and its fall-backs |
| `AskStage`, `SweepStages`, `TargetedDiscovery`, `Enter`, `AmbiguousState` | `computeEntryStage`: the evaluator's probe of an element that is stale, the stages that need none, the targeted probe of a mutating stage whose predicate is still unread |
| `WorldMoves`, `WindowPasses` | others open, merge or revert the change; what was read outlives its freshness window (`predicates.ts:110`) |
| `LoopEnds`, `LoopReresolves` | the loop, of which only this is seen here: it ends, or the item is resolved again in a repository that is not the one it was |

The stages, templates, floor and types are those of `policies/data`
(`ShippedPolicies`), not a stand-in: `ASSUME TemplatesLoad` has TLC evaluate what
`load.ts` demands of all nine templates, every subset of their optional stages
included. `execution.json` admits only read-only work; the instance admits every
risk class, so that mutating templates are reached.

## 3. Runs

| Run | Instance | Shows |
|---|---|---|
| `verdicts` | four criteria, two owned, one of the prologue, one without an owner; every order of envelopes | `RouteBackCanHelp`, `IncompleteNamesAStage`, `ImprovingNeverUndoes` |
| `run_loop` | the rework and architecture loops of the shipped templates on five stages, one lap each, one retry, two runs of one work item, one re-resolution allowed | `LoopCapsHold`, `DispatchCapsHold`, `CompleteIsEarned`, `ValidatedSinceLastChange`, `ReresolutionCapHolds`, `ConsumptionNeverRefunded`, and that the loop implements `RunLifecycle` |
| `run_loop_epic` | the Epic graph with predicates, a cancelling branch, an escalating edge, a stage without a descriptor, structural stages, a safe prefix, accepted dispatches that cost 2 under a ceiling of 5 (the third crosses it, one dispatch before the cap on their number), failed ones that cost nothing or 2, five retries; `FairSpec` | `RunEnds`, `CostOvershootIsOneDispatch` |
| `lease` | three kernels on one work item, a timeout of one tick, a clock of two; symmetric in the runs | `ActiveRunsBounded`, `HolderIsNamed`, `NoLeaseLeftBehind` |
| `recovery` | three stages, five settings (below) of laps, charged dispatches, calls, re-resolutions, lines about a lease and recoveries; crashes anywhere | `SeqsAscend`, `NoCorruptLine`, `IntentBeforeEffect`, `LogTellsTheRun`, `VerdictCoversAnswered`, `RecoveryIsRepeatable`, and that the run's log implements `AppendOnlyLog` |
| `dispatch` | two auditing stages, one retry and one escalation, two parallel calls, five shapes of envelope, one change of the world; `Spec` with fairness | `CallsAreAsserted`, `CoverageIsItsOwn`, `NoEnvelopeOfViolation`, `DispatchesConclude` |
| `discovery` | worlds that depart from an ordinary one in one place (a source silent or refusing, a request closed, a branch missing) and change once; three packages or answers | `FactsAreTrue`, `AskedIsSeenAnew`, `PromotionsNeedEvidence` |
| `adapters` | two calls in flight of four in all, two dispatches, one crash of the process or of the ledger, a system that comes and goes; symmetric in the calls | `OneEffectPerKey`, `NothingPerformedSilently`, `CallsConserved`, `ReplayNeverMutates` |
| `prologue` | seven proposals, six workflow proposals, two of which narrow a mandate, worlds from untouched to reverted, one move of the world and one passing of the windows while a run reads it, at most one silent source, a re-resolution | `UrgentReadingReachesAHuman`, `ResumptionSkipsNoMutation`, `FrozenGraphIsSound` |
| `consumption_lost`, `prologue_stale`, `prologue_merged` | the instances above, or smaller ones | a disagreement each, see below |

`TypeOK` is checked in the runs whose modules are proved about or whose state is
of many kinds. What the properties say is in the comment above each.

**Why the bounds are enough.** *Run loop*: each loop may be taken once and refused
once (caps of one, and two runs, so that the work item's own cap is met by a second
run); dispatches are capped below what two loops need, so that the budget stops
some runs and not others; `DispatchRetries = 1` gives a retry and an exhaustion
(five in the Epic instance, where retries that are charged to nothing must outlast
the iteration bound); `MaxRuns = 2` is the least that has a restart, a crash between two runs and a
re-resolution. *Lease*: a holder and two reclaimers, the least in which
reclamations race and a release can meet a lease two others made. *Recovery*: one
setting for each thing that may go wrong, since what they need at once is little: a
lap, route-backs taken and refused, and a failed dispatch; two calls, the least that
are in parallel and have an order to be undone in; two dispatches and a call that
outlives the first; two recoveries, for one that repeats another; a re-resolution and
two lines about a lease, the least that take a number each from two journals. *Dispatch*: two calls, so that one is late while the other is
answered; two dispatches of two stages, so that a late call finds another dispatch
running; one change, before any replay. *Discovery*: one change falls before each
element whose probe looks two sources up (`pr`, `merge_state`, `deployment`) or
between two sessions; three packages are an orientation, a deepening and a probe by
name. *Adapters*: a race needs two calls, a retry two dispatches. *Prologue*: one
move falls before, between or after the reads that a decision is made of, and one
passing of the windows makes some of these reads old and others not; the
discovery caps (2 and 3) are met by the gaps and by the sweep; one source silent at
a time makes each predicate unread in turn; the proposals have an urgent reading
admitted, an urgent reading as an alternative, an ambiguous type, a named identity
and an unbounded scope.

`MaxRuns`, `MaxTime`, `MaxChanges`, `MaxMoves`, `MaxVersions`, `MaxCalls`,
`MaxDispatches` of `Adapters`, `MaxLive`, `MaxCrashes` (which a ledger write that
fails counts against too) and, of the settings of `Recovery`, the calls, the lines
about a lease and the recoveries are bounds the code does not have; every other
number is a policy's, made small. The instance of `run_loop` has one work item: what
a re-resolution into another one does to the counts is covered by the theorem alone. EPIC, FEATURE and
CHANGE_REQUEST are not among the prologue's proposals (their templates are among
those TLC loads).

**Deadlock** is not checked: after the last run, recovery, package or call of an
instance the system has nothing more to do, and may well be asked no more.

**Fairness.** `FairSpec` of `RunLoop` is `WF_vars(Kernel)`: a started process is
scheduled by its event loop, and a dispatch returns because the substrate has a
wall-clock limit. That limit is what `Dispatch` has to show: there the kernel is
weakly fair between its awaits, the timer of a session fires in the end, and a
session whose transport was closed ends its stream (the SDK's contract); nothing
obliges an agent to answer, call or report, so it is the timer that concludes a
silent dispatch. Nobody has to start a run, and no crash has to come. Weak
fairness is enough: each of these steps stays enabled until it is taken.

### Disagreements

Three are runs that TLC finds violated, and what each violates is quoted in
`PROJECT.json`.

- `consumption_lost`: a run that blocks leaves no trace of what it consumed on its
  work item, so a work item's budget is in effect per run unless runs complete.
- `prologue_stale`: whether a pull request is merged is read of two elements, `pr` and
  `merge_state`, of which only the first is probed again when it is stale
  (`predicates.ts:128`, 387-397). When that probe gets nothing, a merge state of any
  age decides, and MERGE reads as not done although the change was merged meanwhile.
- `prologue_merged`: once a pull request is merged, PR_PREPARATION (satisfied by
  `reality.pr_open`) reads as not done behind MERGE, which is done, and the run
  blocks on a contradiction although every source agrees.

The following are visible in the models without a run of their own.

*Run loop and store.* A failed dispatch is charged to nothing (`kernel.ts:1704`,
against `WORKFLOW_STATE_MACHINE.md:804`); the iteration bound, not the budget, stops
a run that only fails. A route-back that is refused is journalled as a transition
(`kernel.ts:2606`). The orchestrator's check does not see the context dispatch in the
work item's scope (the slack of `DispatchCapsHold`). A second run of an achieved
work item writes RESOLVED over its lifecycle, and a refused one writes back a record
it read before the lease (`kernel.ts:729`). A lease is reclaimed by age alone
(`store.ts:213`); two reclaimers may each read their own id back (`store.ts:237`),
which is the slack of `ActiveRunsBounded`; a crash between creating and writing the
lease leaves a file that can be neither read nor reclaimed (`store.ts:199`).

*Recovery.* A route-back that was already had is journalled as a transition before it
is refused (`kernel.ts:2605`, the guard at 2616), so the log has the run at a stage it
never went to; `LogTellsTheRun` holds but for that stage. The numbers of a work item's
log repeat: `performReresolution` opens its journal (`kernel.ts:2412`), the next run
opens another on the same log, and the first then appends with its own counter (2527);
a process that is refused the lease numbers its line beside the holder's
(`kernel.ts:726`). `journal.ts:16-17` says that `seq` is allocated monotonically, per
log; `SeqsAscend` holds but for the lines so numbered. An effect precedes its line, and
tool calls run in parallel, so a crash leaves as many effects without a line as there
were calls in flight; and one whose answer is a refusal or an error
(`framework.ts:558-592`, `kernel.ts:2803-2822`) never gets one. Recovery then finds a
dispatch that did nothing and answers RETRY_CLEAN (`recovery.ts:336`), where
`recovery.ts:419-422` says the reversal record exists the moment the mutation does. A
run that crashed before its first transition has a cursor that names COMPLETION
(`entry-stage.ts:451`). A work item log torn by a crash is repaired by nothing, and
every later append to it throws (`kernel.ts:4355`); `recoverRun` takes no lease
(`kernel.ts:4341`).

*Dispatch.* The escalated retry of a failed first stage uses the model that just
failed (`kernel.ts:2707`). A path whose only read failed supports coverage
(`core/src/reconciliation.ts:119`). The call context says no stage mutates
(`kernel.ts:4118`); conflicts with earlier assertions never fire because none are
passed (`kernel.ts:2907`); the resolution envelope does not pass `receiveEnvelope`
(`kernel.ts:3206`); a reused envelope id throws out of the run (`putEnvelope`).
Evidence that went stale or whose source is down counts like a fabrication.

*Adapters.* A dispatch-scoped key is never hit by a retry, because each attempt has
an id of its own (`framework.ts:426`, against `adapters/README.md:19`).

*Discovery.* What `Misread` names. Work whose branch was merged and kept is a fact not to
be implemented (`reality.ts:285-289`: what the default branch has is left out of the
log). A truncated listing is used as a whole one, so tests are denied that lie behind
its limit (`ops/repo.ts:524`). Where the head's revision, or a review's, is not stated,
an approval of any revision counts (`reality.ts:709`), although it is to be read against
the current head (`reality.ts:700`). The ledger's answer is a record where the probes of
`children` and `agentos_history` read a list (`reality.ts:1096`, 1246), so that what it
holds is a fact of nothing; `IMPLEMENTATION_DECISIONS.md:745` has this very fact as a
defect that was repaired. An unread axis beside
an absent one makes the code axis ABSENT (`discovery/src/reconciliation.ts:93`). When the probe of a section fails, the keys of the package before stay as they were.
Orientation probes
nothing of reality, so at admission `existing_change_proposal` and
`child_items_exist` are always unread, and a CHANGE_REQUEST is never admitted as
one.

*Prologue.* `admitWorkflow` checks an omission against the template's own entry,
so leaving out an entry stage always falls back (`workflow-admission.ts:333`); the
fall-back is checked by nothing, which `FrozenGraphIsSound` shows to be harmless for
the shipped templates. REWORK and REVIEW_TRIAGE
are satisfied by no predicate, so a TASK whose change and tests are there and whose pull
request is not enters at REWORK and walks its edge back into IMPLEMENTATION, which it
has seen done, against `WORKFLOW_STATE_MACHINE.md:546-550` (re-entering would walk
backwards over work that demonstrably occurred). A re-resolved run deepens from the
orientation and not from the package the first run had (`kernel.ts:898`, 2516). Discovery loops are never charged to the work item (`kernel.ts:893`), and the
ladder's probes count twice in the run (`ladder.ts:371`), so that it climbs about
half its cap. A re-admission works with the first proposal's identity
(`kernel.ts:528`). A safe prefix the entry lies behind is dropped
(`kernel.ts:1300`). What a human answers is recorded and changes nothing. An INCIDENT
without evidence becomes UNKNOWN and is urgent no more, unless an alternative says so.

The passing properties say what the code does keep, with the slack it has:
`ActiveRunsBounded` and `HolderIsNamed` are the exclusion the lease gives, complete
until something is reclaimed and one run weaker for each reclamation;
`OneEffectPerKey` excuses exactly races, crashes and unwritten records, so it is the
retry that it would catch and not two calls in flight together;
`ResumptionSkipsNoMutation` excuses a source that could not be read where the code
may go on without it, and a world that moved after the run last looked; it is about the
entry, and says nothing of the walk from it.

## 4. Proofs

All theorems hold for every graph, every set of criteria, requests, policies,
proposals and worlds, counters, caps and costs that satisfy the ASSUMEs of the
modules. TLC evaluates those ASSUMEs in every run. Most state types, or that names
of stages, control states and null values differ; those that say more are named
below. Every safety invariant and action property that a run finds to hold is proved.

- **`DecisionProofs`**: `DoneMeansNothingCritical`, and `DecideActionLegal`: a
  decided transition is an edge of the graph, out of the current stage, with its
  caps not exhausted. The one fact that needs more than logic is that the first
  position of a nonempty set exists (`LeastPosition`, by the well-founded order on
  naturals). Of `VerdictCollection`: `CollectionTyped`, `RoutingBackHelps`,
  `DeadEndsAreFailures`, `ImprovementKept`.
- **`RunLoopProofs`**. The inductive invariant is `Base`: `TypeOK`, `Shape` (which
  phases go with which stages and iterations) and `LoopsWithinCaps` (the caps in
  the budget *and* in every record the budget may later be read from: the memory
  copy and the disk). `LoopCapsHold` alone is not inductive, because a run starts
  from what the disk says. On top of `Base`:
  `SpendingInv` (what was charged is below the limit that was tested, plus what
  one check cannot see) for `DispatchCapsAlwaysHold` and `CostOvershootBounded`;
  `ReresolutionCapAlwaysHolds`; `ConsumptionInv` (disk <= memory <= budget) for
  `ConsumptionIsKept`; `EarnedInv` (every collected verdict was supplied by a stage
  that answered in this run) for `CompletionEarned`; `LifeInv` (a work item being
  worked on is not ACHIEVED) for `RunLoopImplementsLifecycle`; `ValidInv` (a run
  whose last change nobody validated is at a stage of the region that VALIDATION
  alone leads out of) for `AlwaysValidatedSinceLastChange`.
- **`LeaseProofs`**, for any number of runs, any timeout and clock. `LeaseInv` says
  what each place of a run has to do with the file (an empty file is of a run that
  is writing or dead; until a reclamation whoever holds is named by the file).
  `ActiveRunsBounded` needs counting: `Paid`, the runs that hold something are at
  most the reclamations plus the file that exists, is what each step preserves. A
  step that adds a holder creates the file or is a reclamation, and the step that
  takes the file away takes a holder with it.
- **`RecoveryProofs`**, for any stages, settings and recoveries. `Base` is the types and
  phases of runner and crew, one recovery at a time, and `Numbering`: each log ascends
  but for the lines a journal writes beside another, and no number is above what the
  journal has reached that keeps the log. Who that is, of several journals, is the point:
  `RunKeepers` and `ItemKeepers` are the places from which a runner or a recoverer still
  numbers lines that must ascend, and no step wakes one that slept (`NoneWakes`). `Base`
  gives `RecoveryTyped`, `NumbersAscend`, `NeverCorrupt` and the refinement
  `LogIsAppendOnly`. The rest needs `IInv`. `Place`: what is folded from the log is what
  the run has in memory (`Told`), at the stage it is at, or at the one it was refused
  (`Seen`). `WorkNow`: a dispatch is interrupted only if it is the last, and while it
  works (`Interruption`); of each dispatch the log has exactly the calls that were
  answered, whenever they were (`Covering`), in the order of their lines (`Ordered`), and
  no call was asked by a dispatch it does not announce (`Announced`). `Remembered`: what a
  recoverer read is still what the log says, although it and others wrote since. The
  heart is what replaying does to a line more: `Project` is a fold over the log, so each
  kind of line has its lemma. `VerdictsCover` then needs the verdict alone: reversed,
  the lines of the calls are those calls, once each (`Backwards`, `DecidedCovers`).
- **`DispatchProofs`**. `DInv` adds to the three properties what they rest on: what
  was granted is the surface that was compared (`Granted`), dispatches are numbered
  and a late call carries the number of its own (`Numbered`), and between the
  result of a session and the acceptance nothing can add a violation to its
  dispatch (`Receiving`, `Kept`).
- **`AdaptersProofs`**, for any number of calls at once and any limit of
  aggregation. `ReplaysNeverMutate`, `NothingSilentlyPerformed` and
  `CallsAlwaysConserved` are each inductive with the shape of the log.
  `OneEffectPerKeyAlways` is by `KeyInv`: at each await, what the call saw of the
  ledger bounds how many effects of its key are live, less those `excused`.
- **`DiscoveryProofs`**, for any worlds, any change of the world that the instance
  allows, any faults, and any number of environments, services and requests. It goes
  in four layers. *Sessions*: an observation is of the world as it is, or nothing,
  and none is made once the session was aborted (`ObserveTells`, `After`); asking
  each of many names is a fold over a finite set, whose recursive function exists by
  induction on the size of the set (`FoldExists`, `AskEachTells`). *Probes*: each of
  the thirty-five probes of a section writes assertions under its own keys
  (`SectionProbeWrites`); each of the ten of reality is `Truthful`: what it asserts
  for a fact is so of the world the session looks at, in what it denies too, or is one
  of the misreadings, and what it knows rests on evidence of this session (`Fresh`).
  *Packages*: `IInv` says of the package being assembled, of the latest one and of
  the last answer that each fact holds of the world *its* probe saw (`HeldTrue`), and
  that each element the session was asked for is still to be seen, or unknown, or was
  seen in it (`Anew`). That an element remembers the world it was seen in is why the
  first survives a world that changes between two probes, and a promotion that keeps
  the older assertion; that a promotion keeps what is older only with the newer
  evidence is why the second does. `FactsAreAlwaysTrue` and `AskedIsAlwaysSeenAnew`
  follow. *Promotions*: `FInv` adds what the package being assembled holds against
  the latest one (`Follows`). It is inductive only because no two probes of one
  deepening write the same key of a section (`Tier2Apart`): otherwise the second
  could rise on the evidence of the first, and only against what the first had made
  of it. What `assemble` notes of itself is apart from all of them and never more
  than an inference. `PromotionsAlwaysNeedEvidence` follows.
- **`PrologueProofs`**. `PInv` has five parts. What is read of the world was so or is
  unread (`Tells`): of the context, when `deepen` read it, and of an answer, at a moment
  since the last `freshen` (`Remembers`, over `history` and `asked`); it stays so when
  the world moves and when what was read ages (`MovedOn`, `GrownStale`). A predicate that
  says anything of a partial reading says it of the whole (`PredicatesAreMonotone`), but
  for `reality.pr_merged`, which reads two elements of two moments: there a host and a
  history that agree at each moment are what is needed (`MergesAreMonotone`). So what an
  evaluation says was true at a moment it may be of (`FreshWasTrue`): since `freshen`,
  or when `deepen` read, as the element was stale or not. From that,
  `FrozenGraphsSound`: an excluded stage did not apply at some moment, and the floor that
  was checked over what could be read holds over what was true all along, since an unread
  trigger obliges (`FloorOverTruth`); what is left of a workflow is one (`KeptStages`,
  `CompletionAlone`). `ResumptionsSkipNothing`: each stage swept is classified as it was
  at a moment of its span, or not at all (`Classes`), and the entry lies behind the last
  one done and before every mutation seen not to be (`EntryBehindThePrior`,
  `NothingSkipped`).
  `UrgencyReachesAHuman`: an urgent reading is never at rung two (`UrgentInv`).

**What is assumed, and why the code justifies it.** `CompletionEarned` and
`RunLoopImplementsLifecycle` assume `CompletionIsTheOnlyWayOut`: no edge but
COMPLETION's leads to COMPLETE or CANCELLED. Every shipped template satisfies it for
COMPLETE (the graph checks insist), and only a cancelling edge, as in the instance of
`run_loop_epic`, does not: such a run reports COMPLETE without its work item being
ACHIEVED. `AlwaysValidatedSinceLastChange` assumes `ValidationPostDominates`, which
the floor demands along forward edges (`graph.ts` `postDominates`) and every shipped
template satisfies along all of them.
`DispatchAssumption`: no stage mutates and each is granted a tool, as `execution.json`
admits read-only work alone; a tool's name is made of its adapter's and its
operation's, so it names one operation. `RequestsAssumption`: what a descriptor says
holds of every call of its operation. `RecoveryAssumption`: the stages of a template
are names apart from the control states and those of the prologue, and a recovery is
none of the journals a run has.
`DiscoveryAssumption`: what is deepened or probed is an admitted item, and what is
asked for by name exists (`service.ts` answers an unknown name with nothing); and each
world is `Consistent`: an identifier that a host gives names one pull request; a merge state
a host reports is not this code's own `NOT_PROPOSED`; environments and services are
finitely many; and of what a host says is absent there is nothing. The last is
trust the code has to have: `viaHost` takes an absence that is stated at its word
(`ops/git.ts:134`), and only silence, a refusal or a failure is told from it.
`PrologueAssumption`: a template names each stage once and only stages that are
described (`contracts/schema/workflow.json`, `load.ts`), its last is COMPLETION, which
no predicate settles; what settles a stage is read of reality (`predicates.json`,
`stages.json`), so that a targeted probe has an element for it; the fall-back of each
type holds every rule of the floor it
could owe, which nothing in the code checks and the shipped data satisfy; the host and
the history agree on a merge where both are read, because `merge_state` is read of
the same pull request. The predicates are those of `predicates.json` but
`reality.ci_green`, whose element no deepening reads.

Only model-checked:

- liveness (`RunEnds`, `DispatchesConclude`), which TLAPS does not reach;
- what a recursive function computes where no invariant needs it: `Kept` and
  `Project` are reasoned about by their first and their next element, through the
  functions that witness them, and graph reachability is not reasoned about at all
  but compared (the graph a run is frozen with is checked whole, or is one that was).

## 5. Not modelled, and the plan

Left out for good: prompts, wording of reports, schema validation and generated
types, reading and parsing of files, redaction, and the wire formats of hosts and
trackers, which appear as what an operation answers. Authorization gates classify
requests and stop nothing in this build; arbitration is given nothing to arbitrate;
`work-item-reconciliation.ts` repeats what discovery computed; replay, narrative and
the CLI decide nothing.

Left out of modelled parts: `appendAll`, `applyReversals` and `runRecord`, which
nothing in `src` calls on the way of a run; the audit of a context package;
`legalTargets`; what a human's answer is worth; intake's parsing of a request.

Planned: `Children`, the child items of an Epic and their runs, over `RunLoop`'s
linking and blocking, to replace the choices it makes there.
