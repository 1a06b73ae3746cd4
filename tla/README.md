# feegle in TLA+

feegle is an agent gateway in TypeScript: chat messages, card clicks, webhooks
and timers start workflows, whose steps run effects (agents, git, chat cards)
and record what they do in SQLite. This directory holds TLA+ models of the parts
whose correctness depends on the order of things, the TLC runs that check them
on small instances, and TLAPS proofs of the main properties for every instance.
`PROJECT.json` lists the runs, the mutants each property is tested against, the
source lines each definition stands for, the findings, the hazards and the
theorems.

Paths below are those of the repository: `core/` is `src/core/`.

## The system

One Node process, held single by a lock file, one thread. Two calls interleave
only at an `await`; SQLite (`better-sqlite3`) is synchronous, so a call runs
alone between two awaits, but every row write outside a transaction commits on
its own and the process may die between any two of them.

| Part | State | Operations | Hard behaviour | What makes it correct |
|---|---|---|---|---|
| Workflow runtime, `core/runtime/workflow-runtime.ts` | `workflow_instances`, `run_attempts`, `step_states`, `runtime_events` | `start`, `resume`, recovery at boot | calls interleaved at steps, death between two writes, repeated signals, concurrency policies | exclusion by policy, steps run once, a wait answered once, rows and events that agree, final verdicts |
| Effect executor, `core/runtime/runtime-effect-executor.ts` | `effect_executions`, `effect.*` events | `execute` | same key again, before, beside or after; death inside the handler; results changed by JSON | at most one handler call per key, answers from the row |
| Run attempt queue, `core/runtime/run-attempt-queue.ts` | lease columns of `run_attempts` | enqueue, claim, renew, complete, fail, release, recover | expiry against a late worker, restart | one trusted holder, an end that lasts |
| Task scheduler, `features/scheduler/` | tasks table, runs log, `SingleFlight`, cron timers | timer, run-now, `/cron` commands, cards | overlapping runs, edits and removal in mid-run, failing card or log | one run at a time, exact failure count, throttled cards, lock released |
| Scheduler kinds, `features/scheduler/kinds`, `integrations/gitlab`, `integrations/stock` | follow entries, worktrees, `stock-store.json`, `dedup_keys` | runs of a kind, `/bind_stocks`, `/portfolio` | runs that overlap a forced one, users' answers, marks pruned across time zones, writes that land in any order | development only of what was confirmed, once; what is subscribed to is watched |
| Requirement workflow, `plugins/requirement-workflow/`, `plugins/feishu/feishu-requirement-*.ts` | requirement and plan rows, worktrees, cards; executions, reports and handled clicks in memory | seven workflows of one step, one per button | repeated and refused clicks, awaits of minutes, restart that loses half of the state | one card or one call at work, confirmed plan developed, tested before accepted |
| Feishu connection and ingress, `integrations/feishu/`, `core/ingress/` | handled ids (memory), diagnostics | messages, card clicks, menus through dedup, identity, workspace, permission, intent, workflow | redelivery, dedup in memory only, refused events | an event starts one workflow in a life of the process |
| Workbench, `features/workbench/` | `chat_workbench`, views, `plan_artifacts`, plan files, cards | card actions, `/workbench` commands, plan review and execution | calls that read a row, await an agent for minutes and write | no text lost and no plan of a text that is gone, versions kept and together |
| Control actions, `core/control/` | `control_actions` | create, `process` | two `process()` of one action, unconditional updates | a verdict that lasts, completed means done |
| Recovery, `core/recovery/` | artifacts, control actions, memory | seven steps with an approval in the middle | resume after approval, ids shared by recoveries of one attempt | one recovery at work, nothing unknown done unapproved |
| Memory and artifacts, `core/memory/`, `core/artifacts/` | `memory_records` and their history; `artifacts` and files | propose, approve, reject, revoke, delete, search; pin, three retention passes | row and history, row and file are two writes | searched memory was approved, pinned files stay |
| Agent providers and conversation, `integrations/agent/`, `core/agent-conversation/` | `config.jsonc`, its text and data, the registry; history, session pins, in-flight counts | `/provider` commands, turns, `/new`, `/delete` | a write between the change of text and of data, a provider gone after an await | registry, file and memory agree; exact loads |
| Repositories and chat bindings, `resources/` | `repositories`, id counter, `chat_bindings` | `/repo` commands, bind | ids kept over migrations, bindings without reference | an id means the repository it was bound as |
| Boot, `infra/app`, `infra/boot` | lock file, legacy JSON files, phases | start, migrations, stop | death between commit and unlink, corrupt and conflicting files | nothing lost |
| Feishu client, cards, CLI agents, operations, security, workspaces, automation, prototype, webhook, manifests | rows, remote services | parse, call, format | little | |

Interactions. A trigger goes Feishu connection -> ingress -> `WorkflowRuntime.start`
-> step -> `executeEffect` -> `RuntimeEffectExecutor` -> handler. The scheduler
asks a workflow runner for its runs; recovery waits on a signal that arrives at
`resume`; control actions call handlers of other parts. All meet in the runtime
database. In the wiring of the application no policy service is installed, the
attempt queue has no worker, nothing calls `resume`, the scheduler gets no
workflow runner (`infra/boot/phases/scheduler-phase.ts:42`), the control action
processor no handlers (`stores-phase.ts:104`), and nothing constructs
`PlanArtifactService` or `FeishuChatHandler`: these are modelled from the code and
its tests, which do use them.

## Modules

| Module | Models |
|---|---|
| `WorkflowRuntime` | `start`, `resume`, policies, boot recovery |
| `EffectExecutor`, `EffectOnce` | `RuntimeEffectExecutor.execute` and its table; what it promises |
| `RunAttemptQueue`, `LeaseService` | leases, workers, recovery, time; what they promise |
| `TaskScheduler` | one task, its runs, its commands, its cards |
| `RequirementWorkflow` | requirements, cards, clicks, calls, restarts |
| `ControlActions`, `MemoryRecords`, `Artifacts`, composed by `Recovery` | interventions, governed memory, retention, the recovery workflow over them |
| `FeishuConnection`, `Workbench`, composed by `FeishuWorkbench` | events on their way to a workflow, the workbench of a chat, its cards |
| `PlanArtifacts` | the versions of a plan, their statuses, iterations and notes |
| `AgentProviders`, `Conversations`, `Repositories`, `LegacyStores`, composed by `Application` | what a process serves, and its boot over the files of earlier releases |
| `GitLabFollow`, `StockWatch`, composed by `TaskKinds` | the work of the scheduler's kinds of task |
| `MC<module>` | constants and symmetry of the runs |
| `WorkflowRuntimeProofs`, `EffectExecutorProofs`, `RunAttemptQueueProofs`, `RequirementWorkflowProofs`, `RecoveryProofs`, `ApplicationProofs` | the theorems about these modules |
| `TaskSchedulerProofs`, `WorkbenchProofs` | the theorems about `TaskScheduler` and `TaskKinds`, and about `PlanArtifacts` and `FeishuWorkbench`: two specifications each, with names of their own |

A definition preceded by the comment "Mutant" is a plausible bug of the
definition after it; it is part of no specification. A composing module conjoins
an action of one component with `UNCHANGED` of the others, or two actions where
the code does both in one go (a recovery step that writes an artifact, a click
that starts a run and changes a row).

### WorkflowRuntime

An action is one committed write of one call; `pc` says which write comes next.
`CpuFree` lets another call act only when no call is in a synchronous section,
that is, while steps await. `Start`, `BlockAttempt`, `CloseInstance` and
`AdmitAttempt` are `start()` up to the loop; `StartStep`, `DenyStep`, `EnterStep`,
`StepContinues`, `StepSettles`, `StepThrows` and `StepsExhausted` the loop,
which `resume()` repeats; `FinishAttempt`, `FinishInstance` and
`AppendFinishEvent` are `finish()` in `start()`'s order; `Resume`, `ConsumeWait`
and `MarkResumed` the head of `resume()`; `Restart` a death at any moment with
`markRunningAttemptsInterrupted()` at the next boot. `executed` is a history
variable: the steps whose `run` was called.

### EffectExecutor

`Reuse`, `Conflict`, `Duplicate` and `Create` are what `execute()` does with the
row of its key; `AppendStarted`, `Refuse` (permission, handler, input schema),
`EnterHandler`, `HandlerReturns`, `HandlerThrows` and `AppendEnd` follow. The append
of `effect.succeeded` is inside the handler's `try`: when it throws
(`AppendThrows`) the catch writes the row again, as failed and without output. Any
other write that throws leaves `execute()` (`WriteThrows`). `events` is the table
of events, by effect and type. A result that JSON does not keep (`undefined` comes back as `null`) is `JsonOf`.
`EffectOnce` says what steps may rely on, without rows or events: the work of a
key is begun once, its result kept before it is handed out (and lost only before,
`Lose`), and handed out only for the input it was computed from. `KeepsThePromise` is the refinement
(`done` is the handlers entered, `kept` the outputs of succeeded rows).

### RunAttemptQueue

Every operation of the class is one action, but `recoverExpiredLeases()`, which
selects and then releases row by row. Times are kept as what is left of them
and `Tick` counts down. The workers are external: `held` is what a worker that
believes its answers knows. `LeaseService` has only who may trust a lease and
what has ended; `LeasesAreKept` is the refinement (`trusted` is the holds with time
left and a row that agrees).

### TaskScheduler

An action is what a run does between two awaits: `Begin`, `WorkflowSucceeds`,
`WorkflowFails`, `RecoverySent`, `OkAppended`, `FailedAppended`, `Diagnosed`,
`FailureSent` and their failing counterparts. `run[r].task` is the copy of the
task a run took at its start, `run[r].alone` history of whether another run
overlapped it. `SetEnabled`, `SetPolicy` and `Remove` are the commands, `Crash`
is a death with the reload of the task at boot. `Wired` says whether there is a
workflow runner: the application gives none, and then every run fails at once;
the run checks `TRUE`, the theorems hold for both.

### RequirementWorkflow

`Click` is a click on a card with buttons that starts its workflow, `Refuse`
one that comes to nothing, `Redeliver` the delivery of an earlier click after the
dedup has been lost. `call` holds the running call of each workflow (policy
reject_if_running admits one), with the await it is at. `LockCard` is
`lockClickedCard`; the effects are `PlanReady`, `RevisePlan`, `ApprovePlan`,
`RunExecution`, `MarkExecuting`, `AddWorktree`, `Developed`, `RevertToPlan`,
`Cancel`, `Verify`, `Tested` and `Accept`; `SendPlan`, `SendDevelopment` and
`SendReport` the cards; `Throws` and `DevelopmentThrows` what fails. `Restart`
empties the maps of the process and keeps rows, cards and worktrees.

### Recovery, with ControlActions, MemoryRecords and Artifacts

`ControlActions` has the rows, `Command` (an operator's command creates and
processes its action in one go), `Process` and `ProcessStored` up to the await of
the handler, `HandlerSucceeds` and `HandlerFails` from its answer, each with its event;
`SuccessThrows` (the row or event of a success throws into the catch),
`CatchThrows` and `DieBeforeEvent` (a write of the catch throws, or the process dies,
between the row and its event). `silent` is history: the actions that lost a write so.
A payload is the set of its fields; `parsePayload` compares it with the schema of
the type. `MemoryRecords` has each write of a row and the entry of its history as
one step that a death may cut (`WriteAndDie`), and `searchActive` over the
hierarchy of scopes. `Artifacts` cuts the three retention passes at their awaits:
`StartPass` reads the list, `Unlink` removes a file, `MarkAndMoveOn` writes the
row. `Recovery` runs the steps of `recovery-workflow.ts` over them:
`CollectFile`, `CollectRow`, `Classify`, `Propose_`, `RequestApproval`, `Resume`,
`Execute`, `Record`, with `Start` under skip_if_running. `signalled` is history:
the recoveries that `resume()` was called for.

### FeishuWorkbench, with FeishuConnection and Workbench

`FeishuConnection` takes an event through `MessageStarts` or `MessageRefused`,
`ClickStarts` or `ClickRefused`, and `Menu`: the dedup, the checks of the
dispatcher, the first resolver that claims it (`Resolve`) and the policy of the
workflow (`Admitted`). Messages, clicks and what they are come in classes.
`Workbench` has the row of a chat; a button either acts at once
(`HandleImmediate`) or reads, awaits and writes (`HandleAwaiting`, then
`DiscussRequirement`, `ReviseRequirement`, `GeneratePlan`, `RevisePlan`). A text is
the set of inputs that went into it, so that a lost one shows. In
`FeishuWorkbench` a card shows the row as it was when rendered, `Click` picks a
button that a card shows (or repeats an earlier click), and `Command` carries the
texts which the buttons do not. `disturbed` and `torn` are history: the calls whose
row another one wrote meanwhile, and the chats such calls have written.

### PlanArtifacts

`CreateInitial` and `Revise` read and write the file, `Record` is the insert after
the upload. `Move` is `setStatus`, `setBaseBranch`, `setExecution` and `setHeadInfo`, one
update of all the versions that have the status the caller expects; `markStatus` one of
a single version whatever it has; `bumpIteration` and `appendIterationNote` read the latest
version and write to the others. Only tests call the store, so the model lets
anyone call anything, from any status to any other. `noted` and `parted` are history: the
notes appended, and whether a version was recorded after a note, or after another had
changed, or was marked alone.

### Application, with AgentProviders, Conversations, Repositories and LegacyStores

`AgentProviders` keeps the settings three times as the code does: `Write` edits the
text and awaits the file (`Rename`, `WriteFails`), `Finish` changes data and
registry. A turn of `Conversations` is `Begin` (the pin, the choice of the least
busy), `Start` or `OpenCard` with `CardOpens` (after which it is counted), `Answers` or
`AgentFails`. `Repositories` has the id counter, bindings as ids, and `/repo add`
cut at its await. `LegacyStores` imports a file in one transaction, then unlinks
it; a file that conflicts or cannot be read is set aside. `Application` orders the
phases (`Starts`, `Migrate`, `Seed`, `MigrateProviders`, `Registry`), serves, and `Dies` at any
point; the next behaviour of the process starts from file and database. `owed`
is history: the rows of the legacy files that nobody has removed.

### TaskKinds, with GitLabFollow and StockWatch

`GitLabFollow` cuts a run at each await: `Starts`, `Found`, then for each entry as it was read
at the start `Advance` into one of its steps, with `StepThrows` at every one.
`DevelopmentEnds` is `runExecution()`, which goes on beside the run. `Comment` is a
user, `GitLabDies` a death that may leave half a clone. `room` is how many of
the issue's notes, from the bot's first on, the one page of `getNotes` holds; `Page` is what a run reads. `StockWatch` has the store
in memory and on disk (`Lands` in any order), the marks by task, condition and date, the runs of
the kinds (`Monitors` to `Sent`, `Snapshots` to `Saved`, `Advises` and `Prompts` to
`Told`) and the commands. `kind` chooses which task a behaviour is about, for the
two share nothing.

## Runs

Bounds are constants of the configurations, so that the theorems, which have
none of them, speak of the same modules.

| Run | States | Shows |
|---|---|---|
| `runtime` | 404 068 | `MutualExclusion`, `StepsRunOnce`, `SignalAnsweredOnce`, `FactsFollowState`, `VerdictIsFinal`, `StartedAttemptSettles`: two instances of one definition of any policy, three attempts, two steps |
| `effects` | 156 800 | `KeepsThePromise` (refinement of `EffectOnce`), `EventsFollowRow`: five executions, one key shared by four, one of those with another input and one with none, every write may throw |
| `queue` | 38 551 | `LeasesAreKept` (refinement of `LeaseService`), `LeaseIsRespected`: three attempts, two workers, a lease of two ticks, delays of one |
| `scheduler` | 407 632 | `SingleFlight`, `CountFollowsVerdict`, `RunsKeepCommands`, `FailureIsHeard`, `LockIsReleased`: a timer's run and a commanded one, throttle and clock of one tick |
| `requirement` | 269 274 | `OneHand`, `ConfirmedPlanIsDeveloped`, `AcceptedIsTested`, `DecisionIsFinal`: two requirements, three cards, two plan versions, one restart |
| `recovery` | 2 177 358 | `ActionsAreTrue`, `VerdictStays`, `MemoryIsGoverned`, `RecoveryIsApproved`, `PinnedIsKept`: two recoveries of one attempt that share artifact, action and memory, two calls of `process()`, commands of a type with a handler and of one without, three kinds of failure, four commands or deaths |
| `workbench` | 356 304 | `LoneWorkIsWhole`, `StartedOncePerLife`, `ChangesAreShown`: one chat, two messages and two cards of the workbench, cards of another feature, two runs at a time, four events |
| `plans` | 217 120 | `VersionsMoveTogether`, `VersionsAreKept`: two revisions at a time of three versions, three statuses, notes of two iterations, seven calls |
| `application` | 749 563 | `RegistryMirrorsConfig`, `RestartChangesNothing`, `NothingIsLost`, `LoadIsCounted`, `BindingMeansItsRepository`: a legacy file of any of five kinds, two providers, two commands and two turns at a time, three steps of users or deaths |
| `kinds` | 582 035 | `DevelopedIsConfirmed`, `DevelopedOnce`, `PushedIsFinished`, `ReplyIsHeard`: one issue, the timer's run and a forced one, two comments, a page with room for 0, 2, 3 or all of its notes, two faults; `SubscriptionsAreMonitored`, `RepeatsNeedAnotherDate`: one stock, two chats a date apart, two runs and two commands at a time, three steps |
| `runtime_blocked`, `bindings` | | the findings below |

Why the bounds suffice. Two instances and three attempts are the least with an
attempt that waits, one that resumes it and one of another instance that is
blocked; the second step is what a resume goes on to. Exclusion and once-only
properties relate two actors, and the third attempt lets one of them be a
successor. In `queue` a lease of two ticks has a fresh, a renewable and an
expired state. In `scheduler` two runs are what can overlap (unforced runs
exclude each other, a forced one joins), and a clock of two instants is below and at
the throttle. In `requirement` three cards are the whole path plan, developed, verified,
and all shorter detours. In `recovery` two recoveries of one attempt are what can
collide on the shared ids, and two calls of `process()` what can overlap on one
action; a retention pass works on one artifact, since artifacts do not interact.
In `workbench` a chat's rows are independent of other chats, and four events are enough for a
requirement, its plan, and a change under a call that waits for either. In
`plans` three versions let two revisions record out of step with a third, the
store compares statuses for equality only, and seven calls are enough to note, record
late and note again. In `application`
files are migrated one by one over their own tables, so one file at a time shows
every step of one; two commands and two turns are what can overlap. In `kinds`
the marks and subscriptions of one stock are independent of other stocks, two chats a
day apart are what prunes each other's marks, and two faults, crashes or forced
runs, fall at any awaits of a run. The page of 100 notes is modelled by what it has room
for from the bot's first note on: nothing, the plan and its answer but not the
branch, the branch but not its answer, or everything.

Symmetry is used for values that are only compared (cards, messages, workers,
calls, turns, providers), in runs without liveness properties.

Deadlock is checked in `queue`. The other specifications really end: attempt
and execution ids are used once, the task can be removed, a requirement can be
decided or left without a card, and the counted steps of the composed modules
run out.

What the properties say is stated above each of them in the modules. The type
invariants (`TypeOK`, `PlanTypeOK`, `KindsTypeOK`) are theorems too, and TLC has
checked them with the constants of the runs; they are not listed as properties, nor are `HandlerOncePerKey`, `ReusedResultFits`,
`ReturnedIsRecorded`, `RecordIsFinal`, `LeaseExclusive`, `RunningIsLeased`,
`EndIsFinal`, `CardsAreThrottled`, `InstanceBackedByAttempt` and
`DevelopmentIsUndisturbed`, which are theorems.

What is exempt. `OneHand`, `ConfirmedPlanIsDeveloped` and `DecisionIsFinal` leave out a requirement with a
click dispatched twice: the dedup does not survive a restart, and for those they
do not hold. `CountFollowsVerdict` is about runs nothing overlapped,
`LoneWorkIsWhole` is about chats that no call has written under another one,
`VersionsMoveTogether` about plans without a version recorded late (for the notes:
after a note) or marked alone, the part of `ActionsAreTrue` that requires events
about actions without a write that threw or was cut off,
`DevelopedIsConfirmed` lets a branch that is past the page of notes pass unanswered,
`ReplyIsHeard` is about replies on that page, `RestartChangesNothing` about writes that neither
failed nor overlapped, `SubscriptionsAreMonitored` about a store that lost no
write, `PinnedIsKept` about pins from before the pass. Each of these limits is
where the code loses something; it is listed under "Seen on the way".

Fairness. `StartedAttemptSettles` assumes that a call which is not waiting for a
signal goes on (`WF` of `CallStep`): its promises settle and the event loop runs
it. `LockIsReleased` assumes the same of a run (`WF` of `RunStep`): the workflow
runner, the card and the log answer or throw. For `ReplyIsHeard` nothing is assumed of
what a run of gitlab-follow awaits: the requests to GitLab (`gitlab-client.ts:59`) and the
git commands (`git-service.ts:10`) have no timeout and may never end. The
only fairness is of the timer's run where it waits for nothing, between two entries (`WF` of
`RunGoesOn(Timer)` there), and the property is conditional: if the timer's runs come to that
place again and again, the reply is heard. No fairness is assumed of starts, signals,
commands, restarts, clicks, comments or forced runs.

## Findings

- `BlockedOnlyByLiveWork`: after `resume` the attempt that waited keeps its
  status `waiting`, which counts as running, so the definition stays blocked.
- `BindingsPersist`: `migrate()` drops `chat_bindings` at every start ("It has zero
  consumers", `infra/app/runtime-db.ts:20`), and the foreign key takes the rows of
  `chat_binding_repositories` along: each start forgets what chats had bound.

### Seen on the way

Not stated as properties, mostly because no document promises otherwise; where
one does, it is quoted.

- Runtime. `queue_if_running` queues an attempt that nothing ever runs
  (`workflow-runtime.ts:92`; the test "queues second attempt and it runs after first completes"
  does not wait for it). The boot interrupts leased attempts, so
  `recoverExpiredLeases()`, "called on boot" (`run-attempt-queue.ts:102`), finds none.
- Scheduler. The application builds it without a workflow runner, so every due task
  fails (`task-scheduler.ts:193`), although `_docs/runtime-platform-scenario-matrix.md:15`
  has scheduled tasks working. A timer's run rejects with nobody to catch it when the task was
  removed meanwhile or its log fails. It starts (phase 5) before
  `markRunningAttemptsInterrupted` (phase 8).
- Requirements. A requirement developed once cannot be developed again, since worktree and
  branch exist; a failed verification ends in a card without buttons; a failed effect
  after the lock of the card leaves the requirement without a card; a click that
  comes to nothing uses up its card's message id until a restart
  (`feishu-long-connection-runtime.ts:172`).
- Recovery. The payload `{artifactId, reason}` of its approval is refused by the
  schema of `trigger_recovery`, so `process()` cannot carry it out; two `process()` calls of one
  action both dispatch, and the last status wins; the row that waits for an approval blocks
  later recoveries after the first; a second recovery of an attempt overwrites the
  diagnostics and then fails at the insert; `purgeExpired` ignores ages; a pin during a pass is
  ignored; nothing sets `expires_at`.
- Feishu and workbench. The handler of slash commands is never called by the
  runtime: chat messages, requirement texts and slash messages all become the
  workbench card (against `feishu-runtime-contribution.ts:67` and README.md:323).
  Workbench cards are updated in place, and the dedup uses up their id at the first
  click. The buttons discuss and revise carry no payload and always throw.
  Menu events are never deduplicated; the recall tracker is read by nobody. The
  card of a failed turn goes through the throttled update and can stay at working.
- Plans. Two revisions of one version overwrite its file (README.md:292 says earlier
  versions are kept); the row that is recorded is the first, with its own document.
  A version recorded after an execution has notes starts without them, and the next
  `appendIterationNote` writes its shorter list over the others'; `bumpIteration` then
  finds that version in review and refuses the round that the others are ready for.
- Application. Overlapping config writes can rename in reverse order; a failed write
  leaves its edit in the raw text; of two concurrent registers the second throws;
  use beside unregister leaves a default that is gone; the default config has no agent
  block, so boot aborts; two `/repo add` of one url make two rows; a removed repository
  leaves dangling bindings; a start that fails keeps the lock; `stop()` closes the database under
  work in flight (`feegle-app.ts:86`). Providers are selected, awaited for and only then
  counted, so concurrent turns overshoot a share.
- Kinds. `getNotes` reads the oldest 100 notes of an issue, system notes
  among them (`gitlab-client.ts:21`). If the bot's question about the branch falls past
  them, the plan is its last note on the page and the yes to the plan is taken for
  one to the branch, at once, although the question says "回复确认后开始执行"
  (`gitlab-follow-kind.ts:193`); if the answer to a plan falls past them it is
  never heard, and the entry waits for ever. A git command or a request that hangs keeps the run, and with
  it the task's lock, for ever. Closed issues are still followed; an entry that was analyzing or executing
  when the process died is taken up by no run; a crash between a note and its status repeats the
  note and hides the answer to the first; a crash after the worktree fails the next run; half a clone
  counts as one; a refusal after the execution has started is not read. A mark is set
  before its message is sent, so a failed send is not repeated; marks of other dates
  are pruned, also those of chats on another date (`dedup-store.ts:46`); unbinding the last stock disables the
  tasks of every chat and binding again enables one; a portfolio write beside an
  unbind can bring the subscription back on disk.

## Proofs

Each proof module states an inductive invariant as a conjunction of named
parts, proves that `Init` implies it and that each action keeps it (one case per
action, one step per conjunct), and derives the properties.

- `WorkflowRuntimeProofs`: `IInv`. `MutualExclusion` alone is not inductive: it
  needs that only one call is in a synchronous section (`OneSection`), that a
  call past the policy check is the only one of its definition that is engaged
  (`StartIsAlone`, `OneEngaged`), that rows follow the program counter
  (`RowFollowsCall`) and that instances do not run ahead of attempts
  (`InstanceBeforeAttempt`, `OneLiveInstance`, `OneWaitingStep`). A second part
  adds the invariant over waits, takeovers and the history of steps run, and proves
  the once-only properties, the facts and the final verdicts.
- `EffectExecutorProofs`: `EInv`: one row per key, rows that follow executions,
  answers that come from rows, outputs that JSON keeps. `EventsFollowRow` needs what
  each place of an execution has told so far, the place after a success whose append may
  yet throw among them. `PromiseIsKept` is the
  refinement of `EffectOnce`: under `EInv` every action is a step of the promise
  or a stutter.
- `RunAttemptQueueProofs`: `QInv`: what a worker trusts is backed by the row
  with at least as much time left (`TrustIsBacked`), which makes exclusion
  inductive over ticks and recoveries. `ServiceIsKept` is the refinement of
  `LeaseService`.
- `TaskSchedulerProofs`: `SInv`: the lock is held exactly by the unforced run,
  overlaps are seen by both runs, and the copy a lone run holds agrees with the task.
  Its second part is about `TaskKinds`. `FollowInv`: each status and each place of a run is
  earned by notes that are there (`Earned`, `Open`: a yes to a plan before the
  branch is asked for, a yes to a branch before the worktree), also for the
  copies of entries which an overlapping run goes on with, and notes are never
  taken back (`Grows`), so that an old copy is no less earned; where a yes is read as
  one to the branch, either it came after the branch or the branch is past the page
  (`BranchesNamed`); `OnceInv`: who
  made the worktree of an issue, and nobody else, has its development to begin.
  `StockInv`: a subscription has a task that is on or a command about to enable
  one (`WatchedInv`); a mark that was not pruned is told once or about to be, by
  one run (`MarksInv`).
- `RequirementWorkflowProofs`: `RInv`. `OneHand` is inductive with what a call
  that has yet to lock its card knows of it (`LockFits`: the card is open and
  handled; `OneLock`: no other call was started from it), with the silence before
  the intake (`AbsentIsIdle`) and after a decision (`DecidedIsIdle`); the open plan
  card and the call at work carry the latest version (`CardFits`, `WorkFits`).
  `AcceptedIsTested` rests on `WorkInv` instead, which needs no `OneHand` and so
  holds for clicks dispatched twice too: a requirement is developed once, since its worktree
  exists afterwards, and none has a report before.
- `WorkbenchProofs`: `PInv` for the versions of a plan. `VersionsMoveTogether` is inductive
  once rows are whole: its two halves keep each other out of the way (a checked
  update writes no note, an append writes the same to every row), whatever the
  statuses. That versions have no gaps needs what a
  call will record to follow a recorded one (`RevisionsFollow`, `NoGaps`).
  For the workbench of a chat, `LoneInv`. `LoneWorkIsWhole` says nothing of
  calls; it is inductive with what a call that awaits has read being the row as
  it is unless the call is disturbed (`ReadIsCurrent`), and with what it checked of
  that row still true of what it read (in `WorkbenchTyped`). Every write is brought to one form,
  `Writing`, which leaves a row that is whole, disturbs the other calls that have
  read it and renders what it writes; `ChangesAreShown` follows from that form. That cards carry no
  text, also when a click comes again, is `CardsTyped`. `EventsStartOnce` rests on
  `DispatchesCounted`: an id counts for one dispatch while it is held, and a death
  both forgets the ids and allows one more.
- `RecoveryProofs`: an invariant for each part of the state, over lemmas that say
  what a step does to that part (`ControlMoves`, `ArtifactMoves`, `MemoryMoves`,
  `RecoveryMoves`). `ActionsAreTrue` is inductive because type and payload of a row
  stay, so that what was refused for its payload never reaches a handler
  (`HandledParsed`, `CallsParsed`); `PinnedIsKept` because a pass works on
  nothing that was pinned when it read its list (`ListIsSpared`); `MemoryIsGoverned` with
  the approval of what is active (`Approved`) beside the chain of the history;
  `RecoveryIsApproved` because a wait leaves its row behind (`OneAtWork`) and a
  proposal stays what its failure calls for (`ProposalFits`).
- `ApplicationProofs`: an invariant for each part again, over `LegacyMoves`,
  `ProviderMoves` and their like. `RegistryMirrorsConfig` needs that every command
  under way names a change of a known kind and that nothing is under way before
  the registry is built (`ProvidersInv`); `RestartChangesNothing` needs to say of a lone
  command where file, text, data and registry are at each of its steps
  (`Underway`). `LoadIsCounted` counts the turns at work on an agent, by finite
  cardinalities. `BindingMeansItsRepository` is inductive because the id counter is
  above every id that was ever given or meant, and the legacy file whose import
  sets it is gone before anything is bound (`RepositoriesInv`). `NothingIsLost` because
  what an import has committed is held before its file is deleted (`KeptInv`).

Assumptions are those the modules name: `RuntimeAssumption`, `EffectAssumption`
(what JSON returns it keeps), `ErrorsAreNoResults`, `QueueAssumption`,
`SchedulerAssumption`, `RequirementAssumption`, `NoneIsNull`, `PlanAssumption`,
`RecoveryAssumption`, `CommandAssumption`, `FailureAssumption`, `ScopeAssumption`,
`ConnectionAssumption`, `WorkbenchAssumption`, `CompositionAssumption`,
`ProvidersAssumption`, `ConversationsAssumption` (turns are finitely many, or their
number would be none), `RepositoriesAssumption`, `LegacyAssumption`,
`ApplicationAssumption` (which names the legacy files), `GitLabAssumption`,
`StockAssumption`, `KindsAssumption`. None of them bounds the number of
definitions, instances, attempts, effects, workers, runs, requirements, cards, revisions,
recoveries, actions, memories, artifacts, chats, messages, providers, sessions,
repositories, issues or subscriptions.

Only model-checked: the liveness properties `StartedAttemptSettles`,
`LockIsReleased` and `ReplyIsHeard` (fairness and `ENABLED` are beyond the provers).
Every other property of a passing run is a theorem. The two findings are
counterexamples, which are for TLC.

## Not modelled

- Formatting, parsing, card layouts, remote clients, the streams of the CLI
  agents: no step of them depends on an earlier one, and their callers in the
  models take any answer or an error.
- Preview cards of chat turns with their throttled updates; their handler is
  constructed by nobody.
- Cron expressions and active hours; prices; names, aliases and details of repositories; close, reopen, rename and
  quiet of sessions; `setProgressCardMessageId` of plans and the branches and heads their
  updates carry; `RepositoryStore.update` (`repository-store.ts:172`), which no command calls:
  it could make an id mean another repository, and `BindingMeansItsRepository` is without it.
- A second task of a kind in one chat (`/cron add`): marks are kept by task, so
  `RepeatsNeedAnotherDate` is about one task in a chat. Notes that another
  person writes under the bot's name on GitLab: the token is taken to be the bot's.
- Workspaces, identities, security policies: rows and pure checks, any answer in the
  models that ask them. Operations and diagnostics: queries.
- The lock file: one process is assumed. Automation, the prototype, the webhook service,
  plugin manifests: compilers and wiring that run once.

## What could follow

1. The runtime composed with the effect executor, so that `StepsRunOnce`
   and `HandlerOncePerKey` meet in one run.
2. Preview cards with their throttle, as a module beside `Conversations`.
