------------------------------- MODULE TaskRun -------------------------------
(***************************************************************************)
(* One sandboxed task run in the web server (web_server.py, task_runs.py,  *)
(* recovery.py, web_sessions.py).  The run is one object shared by every   *)
(* thread: the background worker, the automatic repair worker and the      *)
(* handlers of apply, revert, repair, pause, cancel and resume, which take *)
(* no common lock.  A step is the code between two blocking calls (git,    *)
(* an LLM, a patch, validation commands, SQLite).  Saving the run is two   *)
(* steps, taking the record and writing it, so a thread can write a record *)
(* another thread has made stale.  A server restart loses the threads, the *)
(* run and the proposal sessions, and rebuilds them from SQLite.           *)
(*                                                                         *)
(* Abstractions.  Proposals are numbered in the order they are made and    *)
(* edit one file, whose content is 0 (the sandbox's commit) or the         *)
(* proposal last written there.  What budgets, safety checks, validation,  *)
(* the agent and the state of the source repository decide is chosen       *)
(* freely.  The agent's own approvals and questions (AgentRuntime) appear  *)
(* only as what the worker may end with; their handlers are not modelled   *)
(* here.  apply_structured_patch is one step: AgentRuntime opens it.       *)
(* A handler's last response changes nothing, so a thread that launches a  *)
(* worker goes on as that worker.                                          *)
(***************************************************************************)
EXTENDS TaskRunStatus

CONSTANTS
  Threads,          \* threads the server runs at a time
  MaxProposals,     \* bound: proposals ever made
  MaxSandboxes,     \* bound: worktrees ever created
  MaxRequests,      \* bound: requests ever handled
  MaxRestarts,      \* bound: server restarts
  MaxRepairs,       \* max_repair_attempts
  Structured,       \* [Proposals -> BOOLEAN]: applied as hash-checked hunks
  HasValidation     \* validation commands are configured

Proposals == 1..MaxProposals
Sandboxes == 1..MaxSandboxes
Contents  == 0..MaxProposals

ASSUME TaskRunAssumption ==
  /\ MaxProposals \in Nat /\ MaxSandboxes \in Nat /\ MaxRequests \in Nat
  /\ MaxRestarts \in Nat /\ MaxRepairs \in Nat
  /\ Structured \in [Proposals -> BOOLEAN]
  /\ HasValidation \in BOOLEAN

RunRecord == [status: TaskRunStatuses, pause: BOOLEAN, cancel: BOOLEAN,
              checkpoint: Checkpoints, sandbox: 0..MaxSandboxes,
              proposal: 0..MaxProposals]
NoContent == -1
Session == [made: BOOLEAN, sandbox: 0..MaxSandboxes, base: Contents,
            attempt: 0..MaxRepairs, applied: BOOLEAN, reverted: BOOLEAN,
            rollback: Contents \union {NoContent}, feedback: BOOLEAN,
            stopped: BOOLEAN]
Outcomes == {"none", "proposal", "approval", "input", "nothing", "analysed",
             "passed", "failed"}
Points == {"idle", "save", "write", "keep", "keep_fresh",
           "launched", "create", "ready", "boundary", "explore", "settle",
           "capture", "check", "patch", "blocked", "validate", "conclude",
           "respond", "revert", "restore", "reverted",
           "repair", "diagnosed", "replan", "stop_run", "report", "publish",
           "raised", "readiness", "prepare", "prepared"}
Thread == [at: Points, next: Points, record: RunRecord,
           sandbox: 0..MaxSandboxes, proposal: 0..MaxProposals,
           fresh: 0..MaxProposals, outcome: Outcomes,
           original: Contents \union {NoContent},
           auto: BOOLEAN, reuse: BOOLEAN, wanted: Checkpoints]

VARIABLES
  run,            \* the TaskRun object
  saved,          \* its row of task_runs
  sessions,       \* the ProposalSession objects
  savedSessions,  \* their rows of proposal_sessions
  tree,           \* content of each sandbox
  asked,          \* the event log holds an unanswered question
  thread,         \* what each thread of the server is doing
  requests, restarts

vars == <<run, saved, sessions, savedSessions, tree, asked, thread, requests,
          restarts>>

Queued == [status |-> "queued", pause |-> FALSE, cancel |-> FALSE,
           checkpoint |-> "none", sandbox |-> 0, proposal |-> 0]
NoSession == [made |-> FALSE, sandbox |-> 0, base |-> 0, attempt |-> 0,
              applied |-> FALSE, reverted |-> FALSE, rollback |-> NoContent,
              feedback |-> FALSE, stopped |-> FALSE]
Idle == [at |-> "idle", next |-> "idle", record |-> Queued, sandbox |-> 0,
         proposal |-> 0, fresh |-> 0, outcome |-> "none", original |-> 0, auto |-> FALSE,
         reuse |-> FALSE, wanted |-> "none"]

\* A thread goes on at a point; at "idle" it is done.
At(t, frame, point) ==
  thread' = [thread EXCEPT ![t] = IF point = "idle" THEN Idle
                                  ELSE [frame EXCEPT !.at = point]]
GoOn(t, point) == At(t, thread[t], point)

\* update_task_run followed by _persist_task_run, the thread going on at point.
UpdateAndSave(t, record, frame, point) ==
  /\ run' = record
  /\ At(t, [frame EXCEPT !.next = point], "save")

\* Changing the session in memory and then _persist_session.
UpdateAndKeep(t, p, session, frame, point) ==
  /\ sessions' = [sessions EXCEPT ![p] = session]
  /\ At(t, [frame EXCEPT !.next = point], "keep")

Request(t) ==
  /\ thread[t].at = "idle"
  /\ requests < MaxRequests
  /\ requests' = requests + 1

Step(t, point) ==
  /\ thread[t].at = point
  /\ UNCHANGED requests

\* The record is taken after the database was opened, then written.
Save(t) ==
  /\ Step(t, "save")
  /\ At(t, [thread[t] EXCEPT !.record = run], "write")
  /\ UNCHANGED <<run, saved, sessions, savedSessions, tree, asked, restarts>>

Write(t) ==
  /\ Step(t, "write")
  /\ saved' = thread[t].record
  /\ At(t, [thread[t] EXCEPT !.record = Queued, !.next = "idle"],
        thread[t].next)
  /\ UNCHANGED <<run, sessions, savedSessions, tree, asked, restarts>>

Keep(t) ==
  /\ Step(t, "keep")
  /\ savedSessions' = [savedSessions EXCEPT ![thread[t].proposal] =
                         sessions[thread[t].proposal]]
  /\ At(t, [thread[t] EXCEPT !.next = "idle"], thread[t].next)
  /\ UNCHANGED <<run, saved, sessions, tree, asked, restarts>>

\* A new session is kept before the run names it, in the memory of the sandbox
\* and in that of the source repository.
KeepFreshInMemory(t) ==        \* Variant: the session is not saved
  /\ Step(t, "keep_fresh")
  /\ IF thread[t].proposal = 0
     THEN GoOn(t, "settle")
     ELSE At(t, [thread[t] EXCEPT !.next = "publish"], "keep")
  /\ UNCHANGED <<run, saved, sessions, savedSessions, tree, asked, restarts>>

KeepFresh(t) ==
  /\ Step(t, "keep_fresh")
  /\ savedSessions' = [savedSessions EXCEPT ![thread[t].fresh] =
                         sessions[thread[t].fresh]]
  /\ IF thread[t].proposal = 0
     THEN GoOn(t, "settle")
     ELSE At(t, [thread[t] EXCEPT !.next = "publish"], "keep")
  /\ UNCHANGED <<run, saved, sessions, tree, asked, restarts>>

\* create_proposal_session for the sandbox's present content
NextProposal == {p \in Proposals : ~sessions[p].made /\
                                   \A q \in 1..(p - 1) : sessions[q].made}
NewSession(sandbox, attempt) ==
  [NoSession EXCEPT !.made = TRUE, !.sandbox = sandbox,
                    !.base = tree[sandbox], !.attempt = attempt]

-----------------------------------------------------------------------------
\* _execute_task_run

Launch(t) ==
  /\ Step(t, "launched")
  /\ IF thread[t].reuse
     THEN UpdateAndSave(t, run, [thread[t] EXCEPT !.sandbox = run.sandbox],
                        "boundary")
     ELSE UpdateAndSave(t, [run EXCEPT !.status = "creating_sandbox"],
                        thread[t], "create")
  /\ UNCHANGED <<saved, sessions, savedSessions, tree, asked, restarts>>

\* create_worktree_sandbox; worktrees are numbered in the order of creation.
CreateSandbox(t) ==
  /\ Step(t, "create")
  /\ \E s \in Sandboxes :
       /\ tree[s] = NoContent
       /\ \A other \in 1..(s - 1) : tree[other] # NoContent
       /\ tree' = [tree EXCEPT ![s] = 0]
       /\ UpdateAndSave(t, [run EXCEPT !.status = "creating_sandbox",
                                       !.sandbox = s],
                        [thread[t] EXCEPT !.sandbox = s], "ready")
  /\ UNCHANGED <<saved, sessions, savedSessions, asked, restarts>>

SandboxReady(t) ==
  /\ Step(t, "ready")
  /\ UpdateAndSave(t, run, thread[t], "boundary")
  /\ UNCHANGED <<saved, sessions, savedSessions, tree, asked, restarts>>

Boundary(t) ==
  /\ Step(t, "boundary")
  /\ IF MustStop(run)
     THEN UpdateAndSave(t, StoppedAt(run, "exploring"), thread[t], "idle")
     ELSE UpdateAndSave(t, [run EXCEPT !.status = "exploring"], thread[t],
                        "explore")
  /\ UNCHANGED <<saved, sessions, savedSessions, tree, asked, restarts>>

\* run_workflow returns a report.
Explore(t) ==
  /\ Step(t, "explore")
  /\ \/ \E p \in NextProposal :
          /\ sessions' = [sessions EXCEPT ![p] = NewSession(thread[t].sandbox, 0)]
          /\ At(t, [thread[t] EXCEPT !.fresh = p, !.outcome = "proposal"],
                "keep_fresh")
          /\ UNCHANGED asked
     \/ \E outcome \in {"approval", "input", "nothing"} :
          /\ asked' = (asked \/ outcome = "input")
          /\ At(t, [thread[t] EXCEPT !.outcome = outcome], "settle")
          /\ UNCHANGED sessions
  /\ UNCHANGED <<run, saved, savedSessions, tree, restarts>>

SettledRun(r, outcome, exhausted) ==
  LET waiting == outcome \in {"proposal", "approval", "input"}
      state   == IF outcome = "input" THEN "awaiting_input"
                 ELSE IF waiting THEN "awaiting_approval" ELSE "completed"
  IN  IF r.cancel \/ (r.pause /\ waiting) THEN StoppedAt(r, state)
      ELSE IF exhausted THEN [r EXCEPT !.status = "failed"]
      ELSE [r EXCEPT !.status = state, !.pause = FALSE]

Settle(t) ==
  /\ Step(t, "settle")
  /\ \E exhausted \in BOOLEAN :
       /\ exhausted => thread[t].outcome # "proposal"
       /\ UpdateAndSave(t, SettledRun([run EXCEPT !.proposal = thread[t].fresh],
                                      thread[t].outcome, exhausted),
                        thread[t], "idle")
  /\ UNCHANGED <<saved, sessions, savedSessions, tree, asked, restarts>>

\* git, the agent or SQLite raises.
WorkerFails(t) ==
  /\ thread[t].at \in {"create", "explore", "settle"}
  /\ UpdateAndSave(t, [run EXCEPT !.status = "failed"], thread[t], "idle")
  /\ UNCHANGED <<saved, sessions, savedSessions, tree, asked, requests,
                 restarts>>

-----------------------------------------------------------------------------
\* _handle_apply

\* The proposal the request names is the run's, made in the run's sandbox.
OfThisRun(p) ==
  /\ sessions[p].made
  /\ run.proposal = p
  /\ HasSandbox(run) /\ sessions[p].sandbox = run.sandbox

Content(t)  == tree[sessions[thread[t].proposal].sandbox]
WriteFile(t, content) ==
  tree' = [tree EXCEPT ![sessions[thread[t].proposal].sandbox] = content]

\* The status of the run is not looked at.  An insufficient budget refuses.
Apply(t) ==
  /\ Request(t)
  /\ \E p \in Proposals :
       /\ OfThisRun(p) /\ ~sessions[p].applied
       /\ \/ UpdateAndSave(t, [run EXCEPT !.status = "awaiting_approval"],
                           thread[t], "idle")
          \/ UpdateAndSave(t, [run EXCEPT !.status = "applying"],
                           [thread[t] EXCEPT !.proposal = p], "capture")
  /\ UNCHANGED <<saved, sessions, savedSessions, tree, asked, restarts>>

\* capture_file_snapshots
Capture(t) ==
  /\ Step(t, "capture")
  /\ At(t, [thread[t] EXCEPT !.original = Content(t)],
        IF Structured[thread[t].proposal] THEN "check" ELSE "patch")
  /\ UNCHANGED <<run, saved, sessions, savedSessions, tree, asked, restarts>>

ApplyFails(t) ==
  /\ UpdateAndSave(t, [run EXCEPT !.status = "failed"], thread[t], "idle")
  /\ UNCHANGED <<sessions, tree>>

Conflicts(t) == Structured[thread[t].proposal] /\
                Content(t) # sessions[thread[t].proposal].base

CheckHash(t) ==
  /\ Step(t, "check")
  /\ IF Conflicts(t)
     THEN ApplyFails(t)
     ELSE GoOn(t, "patch") /\ UNCHANGED <<run, sessions, tree>>
  /\ UNCHANGED <<saved, savedSessions, asked, restarts>>

\* apply_structured_patch, which checks the hash again, or apply_file_edits,
\* which does not.  Only a write that changes the file leaves a rollback.
WriteEdits(t) ==
  LET p == thread[t].proposal
  IN  /\ Step(t, "patch")
      /\ ~Conflicts(t)
      /\ WriteFile(t, p)
      /\ sessions' = [sessions EXCEPT
           ![p].applied = TRUE, ![p].reverted = FALSE,
           ![p].rollback = IF Content(t) = p THEN NoContent
                           ELSE thread[t].original]
      /\ IF HasValidation
         THEN UpdateAndSave(t, [run EXCEPT !.status = "validating"],
                            thread[t], "validate")
         ELSE /\ At(t, [thread[t] EXCEPT !.next = "conclude"], "keep")
              /\ UNCHANGED run
      /\ UNCHANGED <<saved, savedSessions, asked, restarts>>

EditsConflict(t) ==
  /\ Step(t, "patch")
  /\ Conflicts(t)
  /\ ApplyFails(t)
  /\ UNCHANGED <<saved, savedSessions, asked, restarts>>

\* check_file_edits refuses before anything is written.
SafetyBlocks(t) ==
  /\ Step(t, "patch")
  /\ ~Conflicts(t)
  /\ At(t, [thread[t] EXCEPT !.next = "blocked"], "keep")
  /\ UNCHANGED <<run, saved, sessions, savedSessions, tree, asked, restarts>>

Blocked(t) ==
  /\ Step(t, "blocked")
  /\ UpdateAndSave(t, [run EXCEPT !.status = "awaiting_approval"], thread[t],
                   "idle")
  /\ UNCHANGED <<saved, sessions, savedSessions, tree, asked, restarts>>

\* repair_budget_exhausted of a session whose validation failed
RepairsExhaustedLate(session) ==       \* Variant: one attempt too many
  session.feedback /\ session.attempt > MaxRepairs
RepairsExhausted(session) == session.feedback /\ session.attempt >= MaxRepairs

\* run_validation, and what the repair loop makes of a failure: a repeated
\* failure or a used up repair budget stops the loop.
Validate(t) ==
  LET p == thread[t].proposal
  IN  /\ Step(t, "validate")
      /\ \E passed, repeated \in BOOLEAN :
           /\ repeated => ~passed /\ sessions[p].attempt > 0
           /\ LET session == [sessions[p] EXCEPT !.feedback = ~passed]
                  stops   == IF passed THEN session.stopped /\ session.attempt = 0
                             ELSE repeated \/ RepairsExhausted(session)
              IN  UpdateAndKeep(t, p, [session EXCEPT !.stopped = stops],
                    [thread[t] EXCEPT !.outcome = IF passed THEN "passed"
                                                  ELSE "failed"],
                    "conclude")
      /\ UNCHANGED <<run, saved, savedSessions, tree, asked, restarts>>

Conclusions(t) ==
  IF thread[t].outcome # "failed" THEN {"completed", "failed"}
  ELSE IF sessions[thread[t].proposal].stopped THEN {"failed"}
  ELSE {"diagnosing", "repair_pending"}

\* A cancellation stops the run here; a pause only in front of a repair.
Conclude(t) ==
  /\ Step(t, "conclude")
  /\ \E status \in Conclusions(t) :
       LET repair == status \in {"diagnosing", "repair_pending"}
       IN  IF run.cancel \/ (run.pause /\ repair)
           THEN UpdateAndSave(t, StoppedAt(run, "repair_pending"), thread[t],
                              "idle")
           ELSE UpdateAndSave(t, [run EXCEPT !.status = status, !.pause = FALSE],
                              thread[t],
                              IF status = "diagnosing" THEN "respond" ELSE "idle")
  /\ UNCHANGED <<saved, sessions, savedSessions, tree, asked, restarts>>

\* The response is sent before the automatic repair worker is launched; when
\* the client has gone away, sending raises and no worker is.
Respond(t) ==
  /\ Step(t, "respond")
  /\ At(t, [thread[t] EXCEPT !.auto = TRUE, !.outcome = "none", !.original = 0],
        "repair")
  /\ UNCHANGED <<run, saved, sessions, savedSessions, tree, asked, restarts>>

ClientGone(t) ==
  /\ Step(t, "respond")
  /\ GoOn(t, "idle")
  /\ UNCHANGED <<run, saved, sessions, savedSessions, tree, asked, restarts>>

-----------------------------------------------------------------------------
\* _handle_revert

Revert(t) ==
  /\ Request(t)
  /\ \E p \in Proposals :
       /\ OfThisRun(p)
       /\ sessions[p].applied /\ ~sessions[p].reverted
       /\ sessions[p].rollback # NoContent
       /\ At(t, [thread[t] EXCEPT !.proposal = p], "revert")
  /\ UNCHANGED <<run, saved, sessions, savedSessions, tree, asked, restarts>>

\* revert_file_snapshots is handed the snapshots the session has now, and refuses
\* a file that changed after the apply; with no snapshots it changes nothing.
CheckRevert(t) ==
  LET rollback == sessions[thread[t].proposal].rollback
  IN  /\ Step(t, "revert")
      /\ IF rollback = NoContent \/ Content(t) = thread[t].proposal
         THEN At(t, [thread[t] EXCEPT !.original = rollback], "restore")
         ELSE At(t, [thread[t] EXCEPT !.next = "idle"], "keep")
      /\ UNCHANGED <<run, saved, sessions, savedSessions, tree, asked, restarts>>

Restore(t) ==
  LET p == thread[t].proposal
  IN  /\ Step(t, "restore")
      /\ IF thread[t].original = NoContent THEN UNCHANGED tree
         ELSE WriteFile(t, thread[t].original)
      /\ UpdateAndKeep(t, p, [sessions[p] EXCEPT !.applied = FALSE,
                                                 !.reverted = TRUE,
                                                 !.feedback = FALSE],
                       thread[t], "reverted")
      /\ UNCHANGED <<run, saved, savedSessions, asked, restarts>>

Reverted(t) ==
  /\ Step(t, "reverted")
  /\ UpdateAndSave(t, [run EXCEPT !.status = "cancelled"], thread[t], "idle")
  /\ UNCHANGED <<saved, sessions, savedSessions, tree, asked, restarts>>

-----------------------------------------------------------------------------
\* _handle_repair_propose, _execute_auto_repair, _generate_repair_proposal

Repair(t) ==
  /\ Request(t)
  /\ \E p \in Proposals :
       /\ OfThisRun(p)
       /\ ~sessions[p].reverted /\ sessions[p].feedback
       /\ At(t, [thread[t] EXCEPT !.proposal = p], "repair")
  /\ UNCHANGED <<run, saved, sessions, savedSessions, tree, asked, restarts>>

\* _stop_repair_loop
StopLoop(t, outcome) ==
  LET p == thread[t].proposal
  IN  /\ UpdateAndKeep(t, p, [sessions[p] EXCEPT !.stopped = TRUE],
                       [thread[t] EXCEPT !.outcome = outcome], "stop_run")
      /\ UNCHANGED run

BeginRepair(t) ==
  LET session == sessions[thread[t].proposal]
  IN  /\ Step(t, "repair")
      /\ \/ /\ session.stopped
            /\ GoOn(t, "idle")
            /\ UNCHANGED <<run, sessions>>
         \/ /\ ~session.stopped      \* attempts or execution budget used up
            /\ StopLoop(t, "none")
         \/ /\ ~session.stopped /\ ~session.feedback       \* reverted meanwhile
            /\ GoOn(t, "raised")
            /\ UNCHANGED <<run, sessions>>
         \/ /\ ~session.stopped /\ session.feedback
            /\ ~RepairsExhausted(session)
            /\ UpdateAndSave(t, [run EXCEPT !.status = "diagnosing"],
                             thread[t], "diagnosed")
            /\ UNCHANGED sessions
      /\ UNCHANGED <<saved, savedSessions, tree, asked, restarts>>

StopRun(t) ==
  /\ Step(t, "stop_run")
  /\ UpdateAndSave(t, [run EXCEPT !.status = "failed"], thread[t],
                   IF thread[t].outcome = "analysed" THEN "report" ELSE "idle")
  /\ UNCHANGED <<saved, sessions, savedSessions, tree, asked, restarts>>

\* _persist_stopped_repair_report
Report(t) ==
  /\ Step(t, "report")
  /\ UpdateAndSave(t, run, thread[t], "idle")
  /\ UNCHANGED <<saved, sessions, savedSessions, tree, asked, restarts>>

Diagnosed(t) ==
  /\ Step(t, "diagnosed")
  /\ IF MustStop(run)
     THEN UpdateAndSave(t, StoppedAt(run, "repair_pending"), thread[t], "raised")
     ELSE UpdateAndSave(t, [run EXCEPT !.status = "replanning"], thread[t],
                        "replan")
  /\ UNCHANGED <<saved, sessions, savedSessions, tree, asked, restarts>>

\* run_workflow returns: the run stops here, the loop stops (no budget, no
\* proposal, a repeated one or one that changes nothing), or a proposal is made.
Replan(t) ==
  LET session == sessions[thread[t].proposal]
  IN  /\ Step(t, "replan")
      /\ IF MustStop(run)
         THEN /\ UpdateAndSave(t, StoppedAt(run, "repair_pending"), thread[t],
                               "raised")
              /\ UNCHANGED sessions
         ELSE \/ StopLoop(t, "analysed")
              \/ \E p \in NextProposal :
                   /\ sessions' = [sessions EXCEPT ![p] =
                        NewSession(session.sandbox, session.attempt + 1)]
                   /\ At(t, [thread[t] EXCEPT !.fresh = p], "keep_fresh")
                   /\ UNCHANGED run
      /\ UNCHANGED <<saved, savedSessions, tree, asked, restarts>>

\* run_workflow raises; the manual handler answers an LLMError, possible only
\* without the LLM fallback, and leaves the run as it is.
ReplanFails(t) ==
  /\ Step(t, "replan")
  /\ \/ GoOn(t, "raised")
     \/ ~thread[t].auto /\ GoOn(t, "idle")
  /\ UNCHANGED <<run, saved, sessions, savedSessions, tree, asked, restarts>>

Publish(t) ==
  LET named == [run EXCEPT !.proposal = thread[t].fresh]
  IN  /\ Step(t, "publish")
      /\ UpdateAndSave(t, IF MustStop(run) THEN StoppedAt(named, "awaiting_approval")
                          ELSE [named EXCEPT !.status = "awaiting_approval"],
                       thread[t], "idle")
      /\ UNCHANGED <<saved, sessions, savedSessions, tree, asked, restarts>>

\* The exception handlers; the two differ in what they leave alone.
LeftAlone(auto) ==
  IF auto THEN {"cancelled", "failed"} ELSE {"cancelled", "paused", "failed"}

Raised(t) ==
  /\ Step(t, "raised")
  /\ IF run.status \in LeftAlone(thread[t].auto)
     THEN GoOn(t, "idle") /\ UNCHANGED run
     ELSE UpdateAndSave(t, [run EXCEPT !.status = "repair_pending"], thread[t],
                        "idle")
  /\ UNCHANGED <<saved, sessions, savedSessions, tree, asked, restarts>>

-----------------------------------------------------------------------------
\* _handle_task_run_pause, _handle_task_run_cancel, _handle_task_run_resume

Pause(t) ==
  /\ Request(t)
  /\ CanPause(run)
  /\ UpdateAndSave(t, PauseRequested(run), thread[t], "idle")
  /\ UNCHANGED <<saved, sessions, savedSessions, tree, asked, restarts>>

Cancel(t) ==
  /\ Request(t)
  /\ CanCancel(run)
  /\ UpdateAndSave(t, CancelRequested(run), thread[t], "idle")
  /\ UNCHANGED <<saved, sessions, savedSessions, tree, asked, restarts>>

\* The person confirms the checkpoint the plan names now.
Resume(t) ==
  /\ Request(t)
  /\ ResumeAllowed(run)
  /\ At(t, [thread[t] EXCEPT !.wanted = PlannedCheckpoint(run)], "readiness")
  /\ UNCHANGED <<run, saved, sessions, savedSessions, tree, asked, restarts>>

\* inspect_task_run_recovery, as far as this model's state decides it
Ready(r) ==
  /\ ResumeAllowed(r)
  /\ PlannedCheckpoint(r) \in SandboxCheckpoints => HasSandbox(r)
  /\ PlannedCheckpoint(r) = "sandbox_analysis" => tree[r.sandbox] = 0
  /\ PlannedCheckpoint(r) \in ApprovalCheckpoints =>
       /\ sessions[r.proposal].made
       /\ HasSandbox(r) => sessions[r.proposal].sandbox = r.sandbox

\* An open question sends the run back to awaiting_input instead.
CheckReadiness(t) ==
  /\ Step(t, "readiness")
  /\ Ready(run)
  /\ \/ /\ asked /\ HasSandbox(run)
        /\ UpdateAndSave(t, [run EXCEPT !.status = "awaiting_input"], thread[t],
                         "idle")
     \/ /\ ~asked
        /\ GoOn(t, "prepare") /\ UNCHANGED run
  /\ UNCHANGED <<saved, sessions, savedSessions, tree, asked, restarts>>

\* A refused resume saves the run as it is; the repository may not be ready for
\* reasons outside this model.
RefuseResume(t) ==
  /\ Step(t, "readiness")
  /\ UpdateAndSave(t, run, thread[t], "idle")
  /\ UNCHANGED <<saved, sessions, savedSessions, tree, asked, restarts>>

StillPlanned(t) == ResumeAllowed(run) /\ PlannedCheckpoint(run) = thread[t].wanted

Prepare(t) ==
  /\ Step(t, "prepare")
  /\ IF StillPlanned(t)
     THEN UpdateAndSave(t, Prepared(run),
            [thread[t] EXCEPT !.reuse = thread[t].wanted \in SandboxCheckpoints],
            "prepared")
     ELSE UpdateAndSave(t, run, thread[t], "idle")
  /\ UNCHANGED <<saved, sessions, savedSessions, tree, asked, restarts>>

\* A worker is launched or not by the status the run has when its record is
\* written, not by the one it was prepared with.
LaunchPrepared(t) ==
  /\ Step(t, "prepared")
  /\ GoOn(t, IF run.status \in {"awaiting_approval", "repair_pending"}
             THEN "idle" ELSE "launched")
  /\ UNCHANGED <<run, saved, sessions, savedSessions, tree, asked, restarts>>

-----------------------------------------------------------------------------
\* The server stops and starts again: recover_interrupted_task_runs restores
\* and saves the run before the first request is served.
Restart ==
  /\ restarts < MaxRestarts
  /\ restarts' = restarts + 1
  /\ run' = Restored(saved) /\ saved' = Restored(saved)
  /\ sessions' = savedSessions
  /\ thread' = [t \in Threads |-> Idle]
  /\ UNCHANGED <<savedSessions, tree, asked, requests>>

\* _handle_task_run_start has created and saved the run.
Init ==
  /\ run = Queued /\ saved = Queued
  /\ sessions = [p \in Proposals |-> NoSession]
  /\ savedSessions = sessions
  /\ tree = [s \in Sandboxes |-> NoContent]
  /\ asked = FALSE
  /\ \E t \in Threads :
       thread = [u \in Threads |-> IF u = t THEN [Idle EXCEPT !.at = "launched"]
                                   ELSE Idle]
  /\ requests = 0 /\ restarts = 0

\* What a busy thread does next.
Work(t) ==
  \/ Save(t) \/ Write(t) \/ Keep(t) \/ KeepFresh(t)
  \/ Launch(t) \/ CreateSandbox(t) \/ SandboxReady(t) \/ Boundary(t)
  \/ Explore(t) \/ Settle(t) \/ WorkerFails(t)
  \/ Capture(t) \/ CheckHash(t) \/ WriteEdits(t) \/ EditsConflict(t)
  \/ SafetyBlocks(t) \/ Blocked(t) \/ Validate(t) \/ Conclude(t)
  \/ Respond(t) \/ ClientGone(t)
  \/ CheckRevert(t) \/ Restore(t) \/ Reverted(t)
  \/ BeginRepair(t) \/ StopRun(t) \/ Report(t) \/ Diagnosed(t) \/ Replan(t)
  \/ ReplanFails(t) \/ Publish(t) \/ Raised(t)
  \/ CheckReadiness(t) \/ RefuseResume(t) \/ Prepare(t)
  \/ LaunchPrepared(t)

Next ==
  \/ \E t \in Threads :
       \/ Work(t)
       \/ Apply(t) \/ Revert(t) \/ Repair(t)
       \/ Pause(t) \/ Cancel(t) \/ Resume(t)
  \/ Restart

Spec == Init /\ [][Next]_vars

\* A busy thread is not suspended for ever; requests and restarts need not come.
FairSpec == Spec /\ \A t \in Threads : WF_vars(Work(t))

-----------------------------------------------------------------------------
\* Types.  Among them: no session has an attempt beyond the configured number
\* of repairs, however manual and automatic repairs and restarts interleave.
TypeOK ==
  /\ run \in RunRecord /\ saved \in RunRecord
  /\ sessions \in [Proposals -> Session]
  /\ savedSessions \in [Proposals -> Session]
  /\ tree \in [Sandboxes -> Contents \union {NoContent}]
  /\ asked \in BOOLEAN
  /\ thread \in [Threads -> Thread]
  /\ requests \in 0..MaxRequests /\ restarts \in 0..MaxRestarts

\* A run that must stop always has a checkpoint to go back to, so the fields
\* this model leaves out are never read (build_task_run_resume_plan,
\* mark_task_run_interrupted).
StopsWithCheckpoint ==
  \A r \in {run, saved} :
    r.status \in {"pausing", "paused", "interrupted"} => r.checkpoint # "none"

\* A run that shows work going on has a thread of this server process doing it,
\* whatever other requests, restarts and stale writes of the record happened
\* meanwhile: the interface never waits for work that nobody does.
WorkingPoints ==
  [status \in {"queued", "creating_sandbox", "exploring", "applying",
               "validating"} |->
     CASE status = "queued"           -> {"prepared", "launched", "boundary"}
       [] status = "creating_sandbox" -> {"create", "ready", "boundary"}
       [] status = "exploring"        -> {"explore", "keep_fresh", "settle"}
       [] status = "applying"         -> {"capture", "check", "patch", "blocked",
                                          "conclude"}
       [] status = "validating"       -> {"validate", "conclude"}]
HeadingFor(t) == IF thread[t].at \in {"save", "write", "keep"}
                 THEN thread[t].next ELSE thread[t].at
WorkHasAThread ==
  run.status \in DOMAIN WorkingPoints =>
    \E t \in Threads : HeadingFor(t) \in WorkingPoints[run.status]

\* The proposal a run names survives a restart: its session is saved before
\* any record of the run that names it.
NamedProposalIsKept ==
  \A r \in {run, saved} : HasProposal(r) => savedSessions[r.proposal].made

\* A paused run stays paused until the next request or restart: a worker that
\* stopped at a checkpoint does not move the run on (docs/tutorial.md on Pause).
PauseHolds ==
  [][run.status = "paused" /\ run'.status # "paused" =>
       \/ requests' # requests \/ restarts' # restarts
       \/ \E t \in Threads : thread[t].at \in {"readiness", "prepare"}]_vars

\* A requested pause or cancellation takes effect: the thread that is at work
\* comes to a checkpoint (docs/tutorial.md).
StopRequestsTakeEffect ==
  run.status \in {"pausing", "cancelling"} ~>
    run.status \notin {"pausing", "cancelling"}
=============================================================================
