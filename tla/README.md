# RepoPilot-Agent in TLA+

RepoPilot lets a language model explore a repository, propose edits, and apply
them, after approval by a person, in a git worktree made for the run. Its state
is changed by the threads of one web server: handlers of HTTP requests and
background workers, with SQLite and the worktree as what survives a restart.
These modules model the four places where that is hard:

* `AgentRuntime`: how an approved write or command of the agent is executed at
  most once, by any number of threads, with crashes between any two accesses to
  the store;
* `TaskRun`: how the status of one run, its proposal sessions and its worktree
  follow the worker, the repair worker and the handlers, which share one run
  object without a common lock;
* `AgentLoop`: how the agent of a run decides, is checked, asks, waits and is
  called again, with everything it knows rebuilt from the event log after a
  crash;
* `ValidationCycle`: how a run goes from one approval to the next: writes,
  validation commands, bounded repairs, answers, and what completes it.

Line numbers below are of `src/src/repopilot_agent/` unless they name another
directory.

## 1. Inventory

| Component | State it keeps | Operations | Correct when |
|---|---|---|---|
| Agent runtime, `runtime/loop.py` | none but the store and the file system; a thread's locals | `execute`, `grant_approval`, `reject_approval`, `submit_input`, `prepare_recovery`, `resume_recoverable_action`, `confirm_ambiguous_side_effect`, `record_decision` | an effect is granted, performed once, and its outcome settled once |
| Runtime store, `runtime/store.py`, `memory.py` | SQLite: event log and action reservations of a run; rows of runs and sessions | `reserve`, `get`, `complete`, `append`; `save_task_run`, `save_proposal_session` | each call one transaction; a stored observation stays |
| Approvals, `runtime/approval.py` | requests and grants, as events | build, match, expire | a grant covers one payload, for a time |
| Recovery, `runtime/recovery.py` | none (reads the log) | classify the latest unresolved action | no effect is taken for something that never happened |
| Tools, `runtime/tools.py`, `structured_patch.py`, `patch_apply.py` | the worktree; a process-wide patch lock | preview, edit, patch, command; capture, write, revert | no write on content nobody looked at |
| Approval handlers, `agent_write.py`, `agent_validation.py`, `agent_input.py` | the run's status | approve and execute, reject, answer | the run follows what the runtime did |
| Task run machine, `task_runs.py` | status, flags, resume checkpoint | pause, cancel, checkpoint, plan, prepare, interrupt | a stopped run can be resumed where it stopped |
| Worker and handlers, `web_server.py` | the run and the sessions in memory | start, explore, apply, revert, repair, pause, cancel, resume, recover | shown work is done by a thread; sessions outlive the runs that name them |
| Readiness, `recovery.py` | none | inspect a run, its sandbox and its session | work resumes only where the sandbox is as expected |
| Proposal sessions, `web_sessions.py` | attempt, rollback snapshot, feedback, stop | create, apply, revert, repair budget | no attempt beyond the budget |
| Agent loop, `agent_loop.py` | a call's locals: step, limit, working state | recover, decide, gate, execute, record, stop | ids fresh, calls within the budget, finish only when nothing blocks it, only reviewed diffs offered |
| Working state, `runtime/state.py` | plan, criteria, evidence, edits, answers, recent observations; kept in the log | advance, update, stop, answer, post-write criteria | what it claims was observed; a crash loses none of it |
| Validation cycle, `web_server.py`, `agent_validation.py` | write, position, results, repair attempt, in the run's result | grant, request next, observe, continue, complete | commands in order after each write; completion by evidence |
| Repair control, `repair_loop.py`, `agent_repair.py` | history of failures and patches | observe validation, proposal, write; stop | attempts within the limit, no write twice |
| Execution budget, `execution.py` | usage, in the run | add, reconcile with the log, evaluate completion | nothing spent is forgotten |
| Virtual patch, batches, `runtime/virtual_patch.py`, `runtime/batch.py` | overlay of planned edits | propose, inspect | the overlay is what the patch would write |
| Sandbox, `worktree_sandbox.py` | worktrees on disk | create, inspect, remove | one run, one worktree |
| Safety, validation, planning, search, LLM clients, git and GitHub access, trajectories, evaluation, CLI, UI | none that later steps depend on | pure functions and I/O | not modelled, see section 8 |

**How they interact.** The browser sends requests; each is a thread. Starting a
run spawns a worker thread, which creates a sandbox, lets the workflow explore
it (the agent loop calls `AgentRuntime.execute`), and ends by leaving the run
waiting for a person: for approval of a proposal, of one write, or for an
answer. `apply` writes the proposal in the sandbox, validates it, and may spawn
the automatic repair worker. Every thread changes the same `TaskRun` object,
saves it in SQLite, and after a restart `recover_interrupted_task_runs` rebuilds
it from there. A runtime call leaves a trail of events, from which the next
call, or recovery after a restart, decides what has happened.

**What is hard.** Check-then-act on the event log by two handlers; a crash
between a tool's write and the storing of its result; a result that comes after
a person has declared the outcome unknown; grants that expire or whose baseline
has changed by the time they are used; stale writes of the run record;
exceptions used to leave a worker at a checkpoint; a restart that finds a run in
any status; a working state that lags behind the log by a step; evidence cited
for something else; a repair attempt carried over four handlers. `PROJECT.json`
lists 40 such hazards at their lines, with the properties that watch them, or
why none does.

## 2. Modules

| Module | Models | Abstraction |
|---|---|---|
| `ApprovedOnce` | what the runtime promises: approve, then perform, once per key; settle once | no threads, log or crash |
| `AgentRuntime` | `runtime/loop.py` for write and command actions, its store, recovery, tools | one file; contents, actions and keys are model values |
| `AgentRuntimeRefinement` | the mapping of `AgentRuntime` to `ApprovedOnce` | |
| `AgentRuntimeProofs`, `AgentRuntimeGrants` | theorems about `AgentRuntime` and `AgentRuntimeRefinement` | |
| `TaskRunStatus` | `task_runs.py` as functions of the run record | resume hints, history, messages left out |
| `TaskRun` | one run: worker, handlers, sessions, sandboxes, restart | one file per sandbox, proposals are numbers |
| `TaskRunProofs` | theorems about `TaskRun` | |
| `WorkingState` | `runtime/state.py` as functions of the working state | texts, paths and the phase left out |
| `VirtualPatch` | `runtime/virtual_patch.py` | a patch is a path, the content it expects and the one it leads to |
| `RuntimeRecovery` | `runtime/recovery.py` as functions of the event log: rebuilt state, unresolved action, next step, overlay | events nobody reads left out |
| `AgentLoop` | `agent_loop.py` and the calls that continue it, `execute` for reads and questions, over the four modules above | one call at a time; the model's answers are a free choice |
| `AgentLoopProofs`, `AgentLoopRecovery`, `AgentLoopOpen`, `AgentLoopOverlay` | theorems about `AgentLoop`: types, budget, review and ids; what the working state knows, and consent; what is open; the overlay | |
| `RepairControl` | `repair_loop.py`, `agent_repair.py`, `execution.py` as functions of records | the fingerprint of a write is the write: the content of an `edit_file`, the hunks of an `apply_patch` |
| `ValidationCycle` | the handlers and worker of `web_server.py` between approvals, over `TaskRunStatus` and `RepairControl` | executing a granted action, and a call of the loop, is one step |
| `ValidationCycleProofs` | theorems about `ValidationCycle` | |
| `MCAgentRuntime`, `MCTaskRun`, `MCAgentLoop`, `MCValidationCycle` | constants of the small instances | |

`WorkingState` < `VirtualPatch` < `RuntimeRecovery` < `AgentLoop` extend one
another; `ValidationCycle` extends `TaskRunStatus` and `RepairControl`.
`AgentRuntime` and `AgentLoop` divide `runtime/loop.py`: the first has the
concurrent calls on side effects (clock, denials by the policy of a call that may
execute them, ambiguous outcomes), the second the reads, the questions and the
state around them, and the denial of a granted validation that is resumed by the
loop, whose policy has no commands (`Denied`).

### AgentRuntime

| State | Code |
|---|---|
| `log` | rows of `agent_runtime_events` of the run, in order (`memory.py:453`) |
| `reservations` | rows of `agent_runtime_actions` (`memory.py:332-451`) |
| `disk` | the file the actions are about, in the managed worktree |
| `patchLock` | `structured_patch._PATCH_LOCK` |
| `clock` | the time grants expire by |
| `nextCheckpoint` | fresh uuids of approval requests |
| `pc`, `frame` | where each thread is in its call, and the locals it has read |
| `effects` | history of the operations tools performed |

A step is the code between two accesses to the store or the file: `Lookup`,
`Preview`, `CheckGrant`, then either `RequestApproval`, or `Authorize`,
`ConsumeApproval`, `Reserve`, `Start`, the tool, `Complete`, `Report`. A tool is
one step (`RunCommand`, `EditFile`) or four (`BeginPatch`, `VerifyPatch`,
`WritePatch`, `ReadBackPatch`, the lock held over them), or raises
(`ToolRaises`). `grant_approval` and `reject_approval` are a check and an append
(`CheckGrantable`/`GrantApproval`, `CheckRejectable`/`RejectApproval`), as in the
code. `Recover` is `prepare_recovery` with `resume_recoverable_action`;
`CheckConfirmable`, `ConfirmOutcomeUnknown` and `SettleConfirmation` are
`confirm_ambiguous_side_effect`. `Crash` ends all threads at once and frees the
lock; the store and the file stay. `OutsideEdit` is an editor outside RepoPilot.

### TaskRun

| State | Code |
|---|---|
| `run`, `saved` | the `TaskRun` object and its row of `task_runs` |
| `sessions`, `savedSessions` | the `ProposalSession` objects and their rows |
| `tree` | content of each sandbox; -1 before it exists |
| `asked` | the event log holds an unanswered question |
| `thread` | for each thread: where it is, where it goes after a save, its locals |

A step is the code between two blocking calls. `update_task_run` followed by
`_persist_task_run` is `UpdateAndSave`: the object changes at once, and the row
two steps later (`Save` takes the record, `Write` writes it), so a slow thread
can write a stale record. Each handler is a chain of actions that keeps the
order of its calls: apply is `Apply`, `Capture`, `CheckHash`, `WriteEdits`,
`Validate`, `Conclude`, `Respond`, with `EditsConflict`, `SafetyBlocks`,
`Blocked`, `ClientGone` as its other ways out; the worker is `Launch`,
`CreateSandbox`, `SandboxReady`, `Boundary`, `Explore`, `KeepFresh`, `Settle`,
`WorkerFails`; a repair is `BeginRepair`, `Diagnosed`, `Replan`, `KeepFresh`,
`Publish`, with `StopRun`, `Report`, `ReplanFails`, `Raised`; a resume is `Resume`,
`CheckReadiness`, `Prepare`, and, when its record is written, `LaunchPrepared`, which
reads the status again, with `RefuseResume` as its other way out. `Restart` loses the
objects and the threads and restores them from the rows.

### AgentLoop

| State | Code |
|---|---|
| `log` | rows of `agent_runtime_events`: the action, observation, update, state, checkpoint or answer of each |
| `reservations` | rows of `agent_runtime_actions`, with the stored observation |
| `disk` | the managed worktree |
| `overlay` | `virtual_patches` of the `AgentRuntime` object of the running call |
| `run` | the part of the run record that says what the user may do: the offered checkpoint or question, the validation cycle |
| `pc`, `job` | where the running call is and its locals (`step_number`, `max_steps`, `initial_tool_calls`, `working_state`, ...) |

`Execute` is `AgentRuntime.execute` one store access at a time, for any caller;
`job.then` is where it returns to. `Loop` is `run_agent_loop`: `Reconcile` and
`Recover` (`prepare_recovery`), `ResumePending`, `Resumed`, `EnterLoop`
(`_recovery_wait_state` and the step limit), then `Decide`, `Gate`,
`AdvanceState` for each step, and `EndLoop`. `UserCall` are the requests:
`Answer` with `Answered` (`submit_input`, `_persist_input_state`), `Approve` with
`Written`, `Diffed`, `CloseWrite`, `Requested` (`execute_pending_agent_write`,
`request_agent_validation`) or `Validated` and `Observed`
(`execute_pending_agent_validation`), `Reject`, `Cancel`, `ResumeLoop`,
`RestoreQuestion`. The working state is a value computed by the functions of
`WorkingState`, which keep the names of `runtime/state.py` (`Advance`,
`ApplyUpdate`, `RecordAnswer`, `PostWrite`, `Blockers`). `Crash` drops the call
and its overlay; `OutsideEdit` changes the worktree.

### ValidationCycle

| State | Code |
|---|---|
| `run`, `saved` | the `TaskRun`: status, flags, pending approval and question, `agent_validation_cycle`, `agent_repair_pending_attempt`, repair history, usage; and its row |
| `store` | what the log holds: decisions, tool calls and commands counted, the open request or question, the validation criteria and those that passed |
| `disk` | the file in the sandbox |
| `job` | the handler or worker in progress and what it has read |
| `episode`, `validated` | history variables: failures and repairs of an episode, commands passed since the last write |

`WorkerStarts`, `WorkerLoops`, `WorkerSettles` are `_execute_task_run`;
`GrantWrite` then `WriteRefreshed` or `RecordWrite`, `RequestValidation`,
`Requested` are `_handle_runtime_approval_grant`; `GrantValidation` then
`ValidationEnds` or `ValidatedLoops`, `ContinuationSettles` are
`_handle_runtime_validation_grant` and `_continue_task_after_validation`;
`Answer`, `AnsweredLoops`, `ContinuationSettles` are
`_handle_runtime_input_answer` and `_settle_input_continuation`. What a repair
may do is computed by `RepairControl` (`ObserveValidation`, `ObserveProposal`,
`ObserveWrite`, `StopRepair`), the run's status by `TaskRunStatus`. `Cancel` and
`Pause` come between any two steps, as does `Crash`. A write is a member of
`Proposals`: a whole content, or a patch, of which `Patched` says what it makes of
each content it fits. The code compares writes by their arguments
(`agent_write_proposal_fingerprint`, `repair_loop.py:90`), and so does the model:
one content can be reached by several writes, and one patch leaves several.

## 3. Runs

| Run | Checks | Instance |
|---|---|---|
| `concurrent_patches` | `TypeOK`, `ReportsAgree`, `PatchesDoNotClobber`, `AtMostOncePerKey`, `ImplementsApprovedOnce`, `CompletedIsFinal` | 2 threads, 2 patches of one file and a command, 2 keys for the three, 4 calls, 1 crash, 1 raise |
| `one_thread` | `EffectsWereGranted`, `EffectsAreAccountedFor`, `AwaitedApprovalIsPending`, `RejectedNeverRuns` | 1 thread, an edit, a patch and an action outside the policy, 6 calls, 1 tick, 1 crash, 1 raise, 2 outside edits, one of which may restore the file |
| `calls_return` | `EveryCallReturns` | 2 threads, 2 patches, 4 calls, weak fairness |
| `task_run` | `TypeOK`, `StopsWithCheckpoint`, `WorkHasAThread`, `NamedProposalIsKept` | 2 threads, 3 proposals, 2 sandboxes, 3 requests, 1 restart, 1 repair |
| `agent_loop` | `TypeOK`, `ActionIdsAreFresh`, `EvidenceWasObserved`, `RecoveryRebuildsState`, `AnswersReachTheModel`, `LastOutcomeIsKnown`, `ToolCallsWithinBudget`, `LoopFinishIsReady` | reads, parallel reads of two, questions, finish; 3 decisions, 3 calls, 1 crash, 3 tool calls per call |
| `agent_writes` | `ActionIdsAreFresh`, `EvidenceWasObserved`, `RecoveryRebuildsState`, `OneActionIsOpen`, `OverlayMatchesState`, `RequestsShowTheReviewedDiff` | proposal, inspection, patch of one file, one validation command; 4 decisions, 3 calls, 1 crash, 1 outside edit |
| `validation_cycle` | `TypeOK`, `FailuresWithinLimit`, `RepairsAreNew`, `EarlierCommandsPassed`, `BudgetHolds`, `CompletesOnEvidence` | 2 whole contents and 2 patches to write, 2 failures, 2 commands, 2 repairs, budget of 4 decisions, 12 tool calls and 4 commands, reads that cost 4 calls, 1 cancel or pause, 1 restart or outside edit; contents and failures are symmetric |
| `reject_race` | `RejectedNeverRuns` is violated | 2 threads, 1 patch |
| `stale_edit` | `ApprovedBaselineIsOverwritten` is violated | 1 thread, 1 edit, 1 outside edit |
| `pause_holds` | `PauseHolds` is violated | 2 threads, 2 proposals, 2 requests |
| `stop_requests` | `StopRequestsTakeEffect` is violated | the same, with fairness |
| `completes_unvalidated` | `CompletedIsValidated` is violated | as `validation_cycle`, without restarts, outside edits and reads |

What each property says is in the comment above it. Why the bounds are enough:

* A patch needs a call that decides on it and requests approval, and one that
  grants and executes it: four calls let both patches of `concurrent_patches`
  be at their tools at once, or two actions of one key reach its reservation, and
  leave, in shorter scenarios, calls for a rejection, a recovery after the crash and a confirmation racing the original
  thread. `one_thread` has six calls, so that an edit can be requested, granted,
  expire, be requested and granted again after a crash, and its outcome be
  confirmed; two outside edits change the file before a preview and restore it,
  which reopens the trail of a patch (section 6). One crash is the interesting
  number: a second one finds the same kinds of log as the first.
* `RejectedNeverRuns` holds with one thread and not with two: that is
  `reject_race`. The other properties of `one_thread` are about the order of
  steps within one call, the clock, the file and the crash.
* In `task_run` three proposals are the first one, the repair the budget allows,
  and one more that must not come; three requests suffice for apply, a request
  during its validation, and a resume after the restart; the second thread is the
  repair or background worker beside a handler. The first proposal is applied as
  hash-checked hunks, the others as whole files.

* In `agent_loop` three decisions let an answer be followed by a read and a
  finish, `MaxInputs` of one makes the list of answers drop its oldest, and
  three calls let a call that crashed be resumed and that one be continued by the
  user. Three tool calls and a parallel read of two make the budget end in the
  middle. The lists of recent observations and criteria are cut to 3 and 2, so
  that their limits are met. `agent_writes` has the four decisions that a
  proposal, its inspection, the write and one more try need, two contents of one
  file, and criteria enough for the write's (five). A validation that is granted,
  loses its process and is resumed by the loop, which denies it, needs a fourth
  call: with four calls all properties of `agent_writes` held as well, with 3
  decisions and an outside edit (608,000 states) and with 4 decisions and none
  (871,000 states).
* In `validation_cycle` the patch `swap` leads from either of the agent's contents
  to the other, and `revert` from both back to the sandbox's first one. So a
  content comes back through another write, a patch repeated on another
  content is refused though it would leave a new one, and a patch may fit nothing.
  Two repairs use up an episode, two commands make a cycle stop half way, and the
  budget of four decisions, enough for a write, two repairs and a read, can be met
  by decisions, by calls or by commands. The run has 3.6 million states. One restart or one
  outside edit, and one cancellation or pause, at any point; `completes_unvalidated` needs
  neither.

Deadlock is not checked: when the bounds on calls and requests are used up, and
in the code when nobody sends a request, every thread is idle.

Each property of a passing run has a variant of one definition in `PROJECT.json`
(marked "Variant" in the module) that breaks it: a dropped expiry,
a lock not taken or not released, a session not saved, a check after instead of
before, an update or an answer forgotten by recovery, a budget that counts
actions instead of calls, a repair attempt lost by a refreshed request. No
definition uses these variants.

The properties of `AgentLoop` and `ValidationCycle` in a line each:
`RecoveryRebuildsState` compares two algorithms, recovery's fold over the log
and the loop's own next state; `EvidenceWasObserved` relates each claim of the
state to the log; `AnswersReachTheModel` and `LastOutcomeIsKnown` relate the
decision to the log across processes; `OverlayMatchesState` and
`RequestsShowTheReviewedDiff` relate state, overlay, file and request.
`FailuresWithinLimit` and `RepairsAreNew` count, in history variables, what the
code keeps in records that five handlers rewrite, the second one by what the code
compares, the arguments of a write; `EarlierCommandsPassed` and
`CompletesOnEvidence` relate the run to the commands that passed since the agent's
last write, which is not the content now in the sandbox when somebody else has
edited it since; `BudgetHolds` relates usage, which a restart may lose, to the log.

## 4. Fairness

`FairSpec` gives weak fairness to the next step of each thread that is in a
call, because a Python thread that is not blocked runs on. In `AgentRuntime` a
thread waiting for the patch lock is blocked while another holds it; a tool that
raises is not fair, so an exception cannot be what frees a waiting thread. No
fairness is given to requests, crashes, restarts, time or outside edits. A
blocking call (git, the model, a validation command) is taken to return.
`AgentLoop` and `ValidationCycle` state no fairness: what moves them on is a
request of the user or an answer of the model, and the code promises neither.

## 5. What is proved

Every theorem is about all values of the constants: any number of threads,
actions, keys, contents, calls, proposals, sandboxes, commands, repairs,
requests, crashes and restarts. The only assumptions are the named ones on the
constants (`ConstantsAssumption`, `TaskRunAssumption`, `WorkingStateAssumption`,
`AgentLoopAssumption`, `NoActionAssumption`, `NoObsAssumption`,
`ValidationCycleAssumption`), which
TLC evaluates in each run, and `OneThread` where the table says so.
`NoActionAssumption` and `NoObsAssumption` only say that the values for "no
action" and "no result" are not an action or a result;
of the updates the model may send, `AgentLoopAssumption` allows the kinds of
`LoopIntents`.

| Module | Theorem | Statement |
|---|---|---|
| `AgentRuntimeProofs` | `TypesHold` | `Spec => []TypeOK` |
| | `CompletionIsFinal` | `Spec => CompletedIsFinal` |
| | `PerformedAtMostOnce` | `Spec => []AtMostOncePerKey` |
| | `ReportsAlwaysAgree` | `Spec => []ReportsAgree` |
| `AgentRuntimeGrants` | `EffectsAreGranted` | `Spec => []EffectsWereGranted` |
| | `PatchesNeverClobber` | `Spec => []PatchesDoNotClobber` |
| | `RuntimeImplementsApprovedOnce` | `Spec => ImplementsApprovedOnce` |
| | `RejectionHoldsWithOneThread` | `Spec => []RejectedNeverRuns`, assuming `OneThread` |
| | `AwaitedIsPendingWithOneThread` | `Spec => []AwaitedApprovalIsPending`, assuming `OneThread` |
| | `EffectsAreAccountedWithOneThread` | `Spec => []EffectsAreAccountedFor`, assuming `OneThread` |
| `TaskRunProofs` | `TypesHold` | `Spec => []TypeOK` |
| | `StopsKeepACheckpoint` | `Spec => []StopsWithCheckpoint` |
| | `NamedProposalsAreKept` | `Spec => []NamedProposalIsKept` |
| | `WorkIsAttended` | `Spec => []WorkHasAThread` |
| `AgentLoopProofs` | `TypesHold` | `Spec => []TypeOK` |
| | `CallsStayWithinBudget` | `Spec => []ToolCallsWithinBudget` |
| | `RequestsAreReviewed` | `Spec => []RequestsShowTheReviewedDiff` |
| | `ActionIdsStayFresh` | `Spec => []ActionIdsAreFresh` |
| | `FinishesAreReady` | `Spec => LoopFinishIsReady` |
| `AgentLoopRecovery` | `RecoveryIsExact` | `Spec => []RecoveryRebuildsState` |
| | `EvidenceIsObserved` | `Spec => []EvidenceWasObserved` |
| | `AnswersAreKnown` | `Spec => []AnswersReachTheModel` |
| | `LastOutcomeStaysKnown` | `Spec => []LastOutcomeIsKnown` |
| | `PerformedWithConsent` | a reservation of a write with a result, or of a command, has the user's consent in the log |
| `AgentLoopOpen` | `OneActionStaysOpen` | `Spec => []OneActionIsOpen` |
| `AgentLoopOverlay` | `OverlayStaysMatched` | `Spec => []OverlayMatchesState` |
| `ValidationCycleProofs` | `TypesHold` | `Spec => []TypeOK` |
| | `CommandsAreInOrder` | `Spec => []EarlierCommandsPassed` |
| | `RepairsAreBounded` | `Spec => []FailuresWithinLimit` |
| | `CountsStayWithinBudget` | `Spec => []BudgetHolds` |
| | `RepairsAreNeverRepeated` | `Spec => []RepairsAreNew` |

**AgentRuntime.** *Types* are not inductive alone: that a granted checkpoint has a
request in the log, and that a thread past `idle` carries an action, is needed to
read the log by position (`TypeInv`). *Reservations* (`ReservationInv`): a thread
past `Reserve` owns the reservation of its key, and so does every action the log
shows as started; reservations only go from missing to in progress to completed,
keeping their action. This needs the transaction of `reserve`, and it is what
makes a recovery confirmation safe: it is only offered for a started action.
*Exclusion* (`ExclusionInv`): of the threads that are about to perform only one
has a given key, the key has no effect yet, and every effect's key is reserved;
`AtMostOncePerKey` is a conjunct. *Reports* (`ReportInv`): a thread about to
report a success carries the stored status, and since a completed reservation
never changes, so does every such event of the log. A step that neither reserves
nor performs nor starts (`Quiet`) is treated once for these.

*Grants* (`GrantInv`): the log is only ever added to (`LogOnlyGrows`), so each
point of `execute` keeps what the points before it established, and at the tool
the whole trail of grant, authorization, consumption and start is there
(`Entitled`); an effect inherits it. *Patches* (`PatchInv`): a thread between
`BeginPatch` and `ReadBackPatch` owns the lock, which a crash frees by ending all
threads, so the content it verified is still the one it replaces. *Refinement*:
the abstract `approved`, `performed` and `outcome` are read off the log, the
effects and the reservations; every step maps to a step of `ApprovedOnce` or
leaves them alone. The step that performs needs the grant of `GrantInv` and the
exclusion of `ExclusionInv`, the step that settles needs `ReservationInv`.
*Rejection* (`AnswerInv`): with one thread nobody answers between the check and
the append of an answer, so no request has both; `reject_race` is the run that
shows the assumption cannot be dropped.

*Recovery* (`RecoveryInv`, with one thread) is about the trails of the log. A
step of a thread either appends one event, of a kind and for an action that its
point determines (`Noted`), or appends none (`Silent`); `StepKind` sorts the
actions into these once, and the four layers are proved for the two kinds. A
checkpoint belongs to one action and is answered after it was asked
(`CheckpointInv`). At most one trail is unresolved, because the loop decides only
when none is, and the unresolved one, if it asked, asked last (`TrailInv`); so
the request recovery waits for is the pending one. Of an action that was started
or rejected the last request is answered, and no call is on its way to it
(`ClosedInv`): the pending request is an open action's, and what is granted or
rejected was checked against the last request. So after the start of a
performed action its trail gets only a stored result or the confirmation of the
user, unless it had an end before (`AccountInv`, over `ReportInv`). Two handlers
that answer or resume at the same time break the first two layers, hence
`OneThread`.

**TaskRun.** The inductive invariant `Good` has three parts. `Sound`, of the run,
its row *and of every record a thread has taken and not yet written*: it names
only sandboxes that exist and sessions that are saved, has a sandbox when its
checkpoint needs one, and a checkpoint while it has to stop. The stale copies are
why it is needed: what a record says must stay true until it is written, so it
may only be about things that never go away (`FilesGrow`, `SessionsGrow`).
`Placed`: a session's sandbox exists. `Framed`: what a thread at a point, or
saving on its way to it, relies on (`CanBeAt`): its sandbox, its proposal, an
attempt below the limit in front of a repair, a saved session before the run
names it. `Attended` is the invariant for `WorkHasAThread`: it counts a thread
that is still in a save by where it is heading, and of the two kinds of thread
that keep a fresh session only the worker, since a repair goes on elsewhere.

**AgentLoop.** What a call knows it has read off the log, by recursive functions
of it (`ToolCalls`, `RestoredOverlay`, `Rebuilt`). Their types, and that an event
which is not a call leaves the count alone, are proved by induction on the
length of the log with the theorem `WFMin` of `WellFoundedInduction`, applied to
the set of lengths for which the claim holds (`SetInduction`).

`Inv` has the types and, for each point of a call, what was established on the
way to it. *Budget* (`BudgetInv`): a loop does not execute an action unless its
calls, two for a parallel read, fit in what is left, and the limit a later call
of the same run computes is counted from the calls the log has by then. *Gates*
(`GateInv`): a loop that executes a patch has found the reviewed diff of the
state to be the one the patch would write, and a request keeps the diff with
which it was made.

`IdInv` is about the numbers of actions. The loop counts decisions in the
working state, the state is rebuilt from the log, and an id once in the log must
not be given again. So the invariant relates the three: no recorded action, and
none named by a snapshot, has a number beyond the count (`ActionsOK`,
`SnapshotsOK`); after the last snapshot there is at most the next number, and
when its observation is in the log, rebuilding counts it (`AheadOK`); at the
points where a loop goes on deciding nothing is ahead (`Quiet`, `HoldsState`);
and a request that is settled, or whose action was settled by a person, is never
the one a run offers (`RequestsOK`). A crash may come between the append of a decision, the
observation and the snapshot, and each of these leaves a log of which the next
call makes the same count. The finish is an action property: between the gate
and `AdvanceState` nothing changes the state the gate has looked at.

`KnowInv` is about what the working state says. Each state, stored in the log or
held by the call, is *true* of the log (`IsTrue`): its lists are within their
limits, a completed item and a passed criterion cite evidence that succeeded, a
recent success and an answer are in the log. Every function of the working state
keeps this (`AdvancedIsTrue`, `UpdatedIsTrue`, `StoppedIsTrue`,
`AnsweredIsTrue`, `PostWriteIsTrue`), reading it back from its record changes
nothing of a true state (`TrueIsNormal`), and folding the events behind the last
snapshot keeps it too, by induction over the log (`RebuiltIsTrue`). The rest of
the invariant accounts for the events behind the last snapshot (`Late`): at most
points of a call there is none (`Learned`), when an execution has returned there
is at most its own observation, at the end of the log (`KnowsOutcome`), and only
while a call recovers, or a process has died, may there be more. The call holds
the state of the last snapshot (`Holds`) and the decision that recovery would
find for its action (`Decided`). So at `advance` the rebuilt state folds one
event, with the update of that decision, and is the state the loop records:
`RecoveryIsExact` is then a computation (`RebuiltOfOne`). That
an update was supported when it was decided is enough for it to be supported when
it is folded, since the state is the same. For the answers, every snapshot knows
the newest answer before it (`HasAnswer`): a call that records a state either
knows it from the last snapshot, with no answer since, or takes it from the log,
and a question that was answered is the newest one, also when the answer is
repeated after a crash (`KnowsAnswer`). That a decision's action is not reserved
before it is executed (`KnowsActions`) excludes that the loop's own action ends
in `recovery_required`, the one outcome no event tells; it needs the fresh ids of
`IdInv`.

`ConsentInv` is about what a performed side effect leaves behind. A grant answers
a request; a write with a stored result, or a command that was begun, has a latest
request that was granted under its own checkpoint and never rejected, and this
stays so, because the only events that could change it are about a request that
is open (`Consented`). So a granted action that is granted again finds its stored
result, and an action that a call executes for the first time (`diffed`,
`validated`) has no reservation: the diff of a write is only taken after the
write was performed, and never before. `OutcomeInv` uses this: an execution that
ends in `recovery_required` adds an entry to the recent observations that no
event tells, and it is met at `resumed` only, where the call waits and
records nothing more. The state that is recorded next therefore tells the newest
observation of the log, and `LastOutcomeIsKnown` reads it off the last snapshot.

`OpenInv` is about what is open. An action is unresolved from its first event to
its terminal one; recovery takes the last of them and the pending request as the
only ones there are. Where a loop decides, nothing is open; a call that executes
an action may find this one open, and a request for it only when it resumes the
action after an answer; an execution that does not ask has closed it when it
returns. Each of the handlers needs its own reason: a write that continues with
its diff, or a rejection, closes the action before the next one is decided, and
a grant that executes what recovery found is of the action that was open.

`OverlayMatchesState` compares two folds: the edits of the working state, folded
from observations, and the overlay, which a new process rebuilds from proposals
and files. Neither can be related to the other directly, since the overlay of an
earlier call is gone; both are related to the log. `Standing` is the content that
the last completed proposal for a file leads to, and each proposal starts from
the one before (`IsChain`). Over this, `OverlayInv` says that the file has a
content that was once proposed, and that the listed edit leads from it to
`Standing` (`FilesFollow`); that the overlay does, where the call uses it
(`OverlayFollows`); and that what a tool has reported, in the call or in the
store, and the log does not tell yet, agrees with both (`ProposalReported`,
`InspectionReported`, `WriteReported`, `ResultsStored`). The one exception is a
write that may have changed its file and whose result is not in the log
(`Changing`). `BegunInv` makes this exception harmless: an action that touches
edits starts once, a proposal ends once, a result is stored only after a start,
and a write that waits for its approval has not begun; with `OneActionIsOpen` the
action in execution is then the only one that may be changing a file. That the
replay of `RestoredOverlay` arrives at `Standing` is by induction over the log
(`ReplayStep`, `RestoredCases`). All of it holds only while nobody disturbs
(`Undisturbed`, section 6), the hypothesis of the property itself.

**ValidationCycle.** `TypeInv` bounds the attempts and positions. Over it,
`Tied` relates the four copies of what is open, in the run, its row, the event
log and the handler: requests are numbered in order, an idle run is saved, at
most one of a question and a request is open. On it rest four layers, one for each
theorem: `InOrder` (a position of a cycle is only carried while the commands
before it are in `validated`, also in the saved row a restart goes back to);
`Counting` (the failures of the episode are at most the attempt carried by the
run, the row, the cycle or the repair, whichever of them is used next);
`Spending` (a run that waits for the request that is open accounts for all the
log counts, so a grant may rely on what its usage leaves; a handler accounts for
it but for the call of the write it has yet to charge, and a call of the loop is
charged with the difference);
`Recalling` (each write offered as a repair is in the history up to the attempt
carried, so the loop is told to block it; of the content it leaves nothing is
said, since nothing is remembered).

**What the proofs found in the model.** Attempts that failed for a reason:

* The functions that decide between several outcomes were written as `CASE` with
  overlapping conditions, of which TLC takes the first and the logic any. They
  are `IF` chains now, in the order of the code.
* `FailuresWithinLimit` and `RepairsAreNew` are not invariants across every
  restart: a handler that has observed a failure, asked a question and died has
  saved no required repair, and the answer goes on without one. The episode they
  count ends there (`Crash`), and so does a cycle whose result is lost.
* `CompletesOnEvidence` is not an invariant over two restarts (section 6).
* `EffectsAreAccountedFor` was false with one thread: the end of a trail may lie
  before the start of the performed action (section 6), which the invariant of
  trails could not exclude. The instance of `one_thread` had no patch and no file
  that is restored, so that TLC had not met it; now it has both, and the property
  excepts reopened trails and no others.
* `OverlayMatchesState` was false. `agent_writes` is too small for the runs that
  break it (section 6), which the attempt to prove it showed: a call that recovers
  a proposal has rebuilt its overlay before it stored the result, an outside edit
  can bring back a content from which several edits lead away, and a write
  that is recovered in front of its gate is not the one last proposed. It now holds
  of runs in which none of the three happened (`Undisturbed`).
* `Restore` read the rollback snapshot after the check of the file. The code
  passes the snapshots it has at the check, and restores nothing when there are
  none, which needs two applies of one proposal and a revert.

**Only model-checked.** `EveryCallReturns` and the refuted
`StopRequestsTakeEffect` are liveness and out of the prover's reach.
`CompletesOnEvidence` is bounded by the number of faults and relates criteria,
results and evidence of handlers and worker. Every invariant and action property
that the passing runs of `AgentLoop` check is also a theorem.

## 6. Where the code and its documents disagree

* **A rejected write can be performed** (`reject_race`). `reject_approval` and
  `grant_approval` check the log and append to it in two steps. Two requests for
  one checkpoint can both pass; the write is performed and the person is told
  that "the managed worktree was not modified" (`web_server.py:2872`).
* **An approved edit can overwrite newer content** (`stale_edit`). Of the two
  write tools only `apply_patch` looks at the file again; `edit_file` writes
  whatever it finds, although `docs/architecture.md:280` says that the runtime
  rechecks the baseline.
* **A paused run moves on** (`pause_holds`). The exception by which an automatic
  repair stops at a checkpoint is handled as a failure of the repair unless the
  run is cancelled or failed, so `paused` becomes `repair_pending`.
* **A stop request can be without effect** (`stop_requests`). The response of
  apply is sent before the repair worker is launched; with the connection gone
  the run stays `diagnosing` and nobody comes to a checkpoint.

* **A run can complete unvalidated** (`completes_unvalidated`). A worker whose
  agent ends without a question, a write or a proposal sets `completed` without
  looking at the completion evidence (`web_server.py:3479`). After an approved
  write whose validation was rejected, a resume reaches it, although
  `docs/architecture.md:336` makes a passed validation a condition.

Eight more are in the model and have no run. `docs/tutorial.md:206` says of a blocked
finish that "The finish action is not authorized or executed in that case." The
gate is in the loop, after `decision_recorded`; when the process dies between the
two, the next call finds an action that was never started and executes it
(`loop.py:391`, `AgentLoop.ResumePending`), finish gate or not. A write decided in
that moment skips the checks of `_managed_write_conflict` and of repeated repairs
in the same way, though not the approval. `LoopFinishIsReady` and
`RequestsShowTheReviewedDiff` are therefore about the loop's own decisions.

`docs/architecture.md:265` says that "a started write or command with no
terminal result is classified as an ambiguous side effect". Recovery skips an
action that has any observation in its trail, also one from before its start
(`runtime/recovery.py:324`, `:361`). With a request open, a preview that finds the
file changed reports a conflict, which is such an observation
(`runtime/loop.py:605`), and leaves the request open. When the file is restored
and the person then grants that request, the write is performed; if the process
dies before the result is stored, recovery takes the earlier conflict for the end
of the trail and asks nobody. This is the disjunct `Reopened` of
`EffectsAreAccountedFor`.

The third is in the model and has no run of its own, since only a bound on the
number of faults keeps it out of `validation_cycle`. A restart in the handler of
an approved write, after the write and before its result is saved, and another in
the resumed worker before it rebuilds the result, leave the run with the cycle
and the completion evidence of the write before; an answer to the agent's next
question then lets the run complete on evidence of a content that is gone
(`web_server.py:2728`, `_settle_input_continuation`). `CompletesOnEvidence`
therefore counts one restart.

The fourth is about the virtual overlay, which `docs/architecture.md:310` has
rebuilt by each new process to what was proposed. The constructor of the runtime
replays the log onto the overlay (`runtime/loop.py:97`) before `prepare_recovery`
stores the result of an action that was completed and not yet reported
(`runtime/loop.py:367`, `agent_loop.py:160`). A proposal recovered in this way is
among the reviewed edits of the working state and not in the overlay of the
call, which therefore refuses the next inspection or write of this file as not
proposed. The replay also goes astray when the file has a content from outside
from which several proposals start, and after a write that was decided, lost its
process in front of the gate, and was resumed with a content that is not the one
proposed last. `OverlayMatchesState` leaves these runs out (`Undisturbed`).

The fifth is about resuming. `docs/tutorial.md:684` says of the checkpoints
`approval` and `repair_approval` that a run returns to its approval "without
starting a worker". The handler sets the status, saves the run, and then reads the
status of the shared object again to decide whether to launch a worker
(`web_server.py:3144-3147`). A pause, a cancellation or an apply that comes during
the save changes it, and a worker is launched, which for these checkpoints makes a
second sandbox (`TaskRun.Prepare`, `LaunchPrepared`). Whether a run that shows work
has a thread at it does not depend on this; `WorkHasAThread` holds of these runs
too.

The sixth is about a validation that was granted and not started when the process
died. `docs/tutorial.md:692` says "A decided but not-started action continues
under its original policy and approval boundary." The loop that resumes it has the
policy of its own call, read only or the writes of a worktree
(`agent_loop.py:143`, `runtime/models.py:174`), not the one with the command
(`agent_validation.py`), and `execute` asks this policy before anything else
(`loop.py:564`). The validation ends in `policy_denied` (`AgentLoop.Denied`).

The seventh is about repeated repairs. `docs/architecture.md:332` has repair
progress fingerprint "the material content of Agent write actions", and
`docs/tutorial.md:468` lets a repair prepare "a materially new virtual revision".
The fingerprint of an `apply_patch` is of its path and its hunks
(`repair_loop.py:112-137`), not of what they leave. A repair that leads back to the
content of an earlier one, through other hunks or as a whole content, is offered
again, and the same hunks on another content are refused as a repetition, whatever
they would leave. In `ValidationCycle`, the claim that no content is offered twice in an
episode is false in this way;
`RepairsAreNew` says what the code does.

The eighth is about a patch granted on a file that has changed since it was
previewed. `docs/architecture.md:263` has a fresh approval required. An
`edit_file` gets one; the preview of an `apply_patch` is a conflict, which comes
after the grant was stored (`loop.py:600-621`), so the request is consumed, the
handler reports the error without changing the run (`agent_write.py:117`,
`web_server.py:2058`), and the run goes on awaiting a request that the log no longer
holds (`GrantWrite`).

## 7. Plan

The status machine, the runtime, the loop and the validation cycle are modelled,
and each has its main invariants proved. What is left, in order:

1. Concurrent answers (`submit_input` by two handlers), and handlers that overlap
   on one run in `ValidationCycle`.
2. `Patches`: multi-file apply with rollback of a partial failure, hunks against
   a reference definition, several files in the overlay.

## 8. Not modelled

Search, scanning, context building, planning and prompts decide what the model
reads and are functions of the repository's text; what comes back from the model
is a free choice. The safety policy and the readiness of the source repository
appear by their verdict. Git and GitHub access, trajectories, evaluation, the
command line and the browser code do I/O, or report on finished runs, and keep no
state that a step modelled here depends on. The runtime's events that nobody acts
on, the diagnostic history of checkpoints and all messages are left out. In
`TaskRun` the agent's own approvals and questions appear only as what a worker
may end with; `ValidationCycle` takes them from there, and gives a proposal of
the planner back. Elapsed time as a budget is left out of `ValidationCycle` (it
can only end a loop, which a loop may do at any decision), as are handlers that
overlap on one run: two requests on one run are `AgentRuntime`'s and `TaskRun`'s
subject.
