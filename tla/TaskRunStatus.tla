---------------------------- MODULE TaskRunStatus ----------------------------
(***************************************************************************)
(* The status machine of a task run (task_runs.py): what a pause, a        *)
(* cancellation, a safe boundary, a manual resume and a server restart do  *)
(* to the run record, as functions of that record.  They touch memory      *)
(* only, so each is one step wherever it is called.                        *)
(*                                                                         *)
(* A run record keeps its status, the two request flags, the saved resume  *)
(* checkpoint ("none" when there is none), the sandbox and the proposal it *)
(* names (0 when there is none).  resume_blocked_reason is set exactly     *)
(* with the checkpoint "blocked".  resume_status and interrupted_from are  *)
(* read only when a pausing, paused or interrupted run has no saved        *)
(* checkpoint, which StopsWithCheckpoint excludes, so they are left out;   *)
(* so are the diagnostic checkpoint history, messages and timestamps.      *)
(***************************************************************************)
EXTENDS Integers

ActiveStatuses == {"queued", "creating_sandbox", "exploring", "applying",
                   "validating", "diagnosing", "replanning", "pausing",
                   "cancelling"}
ResumableStatuses == {"paused", "cancelled", "failed", "interrupted"}
TaskRunStatuses == ActiveStatuses \union ResumableStatuses \union
                   {"awaiting_input", "awaiting_approval", "repair_pending",
                    "review_pending", "completed"}
ApprovalCheckpoints == {"approval", "repair_approval"}
SandboxCheckpoints  == {"sandbox_analysis", "sandbox_inspection"}
Checkpoints == ApprovalCheckpoints \union SandboxCheckpoints \union
               {"none", "source_restart", "blocked"}

HasSandbox(r)  == r.sandbox # 0
HasProposal(r) == r.proposal # 0

\* _resume_checkpoint_for_state
CheckpointFor(r, state) ==
  LET inSandbox(checkpoint, otherwise) ==
        IF HasSandbox(r) THEN checkpoint ELSE otherwise
  IN  CASE state = "awaiting_approval" /\ HasProposal(r) -> "approval"
        [] state = "repair_pending" /\ HasProposal(r)    -> "repair_approval"
        [] state = "cancelling" -> "blocked"
        [] state \in {"applying", "validating", "diagnosing", "replanning"} ->
             inSandbox("sandbox_inspection", "blocked")
        [] state \in {"queued", "creating_sandbox"} ->
             inSandbox("sandbox_analysis", "source_restart")
        [] state \in {"exploring", "pausing"} ->
             inSandbox("sandbox_analysis", "blocked")
        [] OTHER -> inSandbox("sandbox_inspection", "source_restart")

\* build_task_run_resume_plan: the checkpoint it plans, and whether the plan
\* is allowed.
PlannedCheckpoint(r) ==
  IF r.checkpoint # "none" THEN r.checkpoint ELSE CheckpointFor(r, r.status)

ResumeAllowed(r) ==
  /\ r.status \in ResumableStatuses
  /\ PlannedCheckpoint(r) # "blocked"
  /\ PlannedCheckpoint(r) \in ApprovalCheckpoints => HasProposal(r)

-----------------------------------------------------------------------------
\* request_task_run_pause
CanPause(r) == r.status \in (ActiveStatuses \ {"pausing", "cancelling"}) \union
                            {"awaiting_approval", "repair_pending"}
PauseRequestedOnly(r) ==       \* Variant: the checkpoint is left to the worker
  LET waiting == r.status \in {"awaiting_approval", "repair_pending"}
  IN  [r EXCEPT !.status = IF waiting THEN "paused" ELSE "pausing",
                !.pause = ~waiting]
PauseRequested(r) ==
  LET waiting == r.status \in {"awaiting_approval", "repair_pending"}
  IN  [r EXCEPT !.status = IF waiting THEN "paused" ELSE "pausing",
                !.pause = ~waiting,
                !.checkpoint = CheckpointFor(r, r.status)]

\* request_task_run_cancel
CanCancel(r) == r.status \notin {"cancelled", "completed"}
CancelRequested(r) ==
  LET stopped == r.status \in
        {"awaiting_input", "awaiting_approval", "repair_pending",
         "review_pending", "paused", "failed", "interrupted"}
  IN  [r EXCEPT !.status = IF stopped THEN "cancelled" ELSE "cancelling",
                !.cancel = TRUE,
                !.checkpoint = IF r.checkpoint # "none" THEN r.checkpoint
                               ELSE CheckpointFor(r, r.status)]

\* checkpoint_task_run: a worker at a safe boundary, where it would go on as
\* state, stops there when a cancellation or a pause was requested.
MustStop(r) == r.cancel \/ r.pause
StoppedAt(r, state) ==
  IF r.cancel
  THEN [r EXCEPT !.status = "cancelled"]
  ELSE [r EXCEPT !.status = "paused", !.pause = FALSE,
                 !.checkpoint = CheckpointFor(r, state)]

\* prepare_task_run_resume
Prepared(r) ==
  LET checkpoint == PlannedCheckpoint(r)
  IN  [r EXCEPT !.status = CASE checkpoint = "approval" -> "awaiting_approval"
                             [] checkpoint = "repair_approval" -> "repair_pending"
                             [] OTHER -> "queued",
                !.cancel = FALSE, !.pause = FALSE, !.checkpoint = "none"]

\* task_run_from_record(mark_interrupted=True), mark_task_run_interrupted: the
\* run a restarted server makes of a saved record.
Interrupted(r) ==
  [r EXCEPT !.status = "interrupted",
            !.checkpoint = IF r.status = "cancelling" \/ r.checkpoint = "none"
                           THEN CheckpointFor(r, r.status)
                           ELSE r.checkpoint]
RestoredUnlessQueued(r) ==     \* Variant: a queued run is taken for waiting
  IF r.status \in ActiveStatuses \ {"queued"} THEN Interrupted(r) ELSE r
Restored(r) == IF r.status \in ActiveStatuses THEN Interrupted(r) ELSE r
=============================================================================
