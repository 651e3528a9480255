---------------------------- MODULE AgentRuntime ----------------------------
(***************************************************************************)
(* Execution of approved side effects (runtime/loop.py, runtime/store.py,  *)
(* runtime/recovery.py, memory.py).  Several threads of the web server,    *)
(* each with an AgentRuntime object of its own, call execute,              *)
(* grant_approval, reject_approval, the resume path and the recovery       *)
(* confirmation of one run.  They share only the SQLite store, whose       *)
(* appends and reservations are one transaction each, and the managed      *)
(* worktree.  A step below is the code between two such accesses, so any   *)
(* other thread, an outside editor, or a crash of the process can fall     *)
(* between any two steps of a call.                                        *)
(*                                                                         *)
(* Abstractions.  The worktree is one file, whose content is a value; the  *)
(* payload hash of a request is its action and the content it was          *)
(* previewed on; an action's signature is the action.  The event log keeps *)
(* the events some reader of the log acts on: run_started, run_stopped,    *)
(* approval_invalidated, approval_grant_rejected, working_state_updated    *)
(* and rollback_snapshot_recorded are left out.  Several reads of the log  *)
(* that one check makes in a row are one step.                             *)
(***************************************************************************)
EXTENDS Integers, Sequences

CONSTANTS
  Callers,     \* threads of the server
  Actions,     \* the side-effect actions the agent may decide on
  Keys,        \* idempotency keys
  Outside,     \* contents an editor outside RepoPilot may leave in the file
  Original,    \* content of the file when the worktree is created
  Absent,      \* the "content" of a deleted file
  Kind,        \* [Actions -> ActionKinds]
  Key,         \* [Actions -> Keys], effective_idempotency_key
  Base,        \* [Actions -> Contents], expected_sha256 of an apply_patch
  Permitted,   \* the actions inside the scope of the runtime policy
  TTL,         \* lifetime of a grant, in ticks
  MaxClock, MaxCalls, MaxCrashes, MaxRaises, MaxOutsideEdits,    \* bounds
  NoAction, NoContent, NoCaller

ActionKinds == {"edit_file", "apply_patch", "run_command"}
Contents    == {Original} \union Outside \union Actions

ASSUME ConstantsAssumption ==
  /\ Kind \in [Actions -> ActionKinds]
  /\ Key \in [Actions -> Keys]
  /\ Base \in [Actions -> Contents]
  /\ Permitted \subseteq Actions
  /\ TTL \in Nat \ {0}
  /\ MaxClock \in Nat /\ MaxCalls \in Nat
  /\ MaxCrashes \in Nat /\ MaxRaises \in Nat /\ MaxOutsideEdits \in Nat
  /\ NoAction \notin Actions
  /\ NoContent \notin Contents
  /\ NoCaller \notin Callers
  /\ Actions \intersect ({Original} \union Outside) = {}

SuccessStatuses  == {"completed", "applied", "no_change"}
Statuses == SuccessStatuses \union
            {"conflict", "failed", "verification_failed", "outcome_unknown",
             "policy_denied"}
TerminalTypes == {"action_completed", "action_failed", "action_conflict",
                  "action_denied", "action_replayed", "action_recovered",
                  "action_recovery_confirmed"}
EventTypes == TerminalTypes \union
              {"decision_recorded", "approval_required", "approval_granted",
               "approval_rejected", "action_authorized", "approval_consumed",
               "action_started", "action_recovery_required"}

Event == [type: EventTypes, action: Actions, checkpoint: Nat,
          baseline: Contents \union {NoContent}, expires: Nat,
          status: Statuses \union {""}]
Effect == [action: Actions, checkpoint: Nat,
           baseline: Contents \union {NoContent},
           checkedAt: Nat, onto: Contents]
Reservation == [action: Actions \union {NoAction},
                state: {"missing", "in_progress", "completed"},
                status: Statuses \union {""}]
Frame == [action: Actions \union {NoAction}, checkpoint: Nat,
          baseline: Contents \union {NoContent}, checkedAt: Nat,
          status: Statuses \union {""}]
Points == {"idle", "recover", "decide", "lookup", "preview", "check",
           "request", "authorize", "consume", "reserve", "start", "tool",
           "verify", "write", "readback", "complete", "report",
           "granting", "grant", "rejecting", "reject",
           "confirming", "confirm", "settle"}

VARIABLES
  log,            \* agent_runtime_events of the run, in sequence order
  reservations,   \* agent_runtime_actions of the run
  disk,           \* content of the file in the managed worktree
  patchLock,      \* structured_patch._PATCH_LOCK
  clock,
  nextCheckpoint, \* the next fresh uuid
  pc, frame,      \* where each caller is, and its local variables
  effects,        \* history: the operations performed by tools
  calls, crashes, raises, outsideEdits    \* bounded counters

store == <<log, reservations>>
world == <<disk, patchLock>>
bounds == <<calls, crashes, raises, outsideEdits>>
vars == <<log, reservations, disk, patchLock, clock, nextCheckpoint,
          pc, frame, effects, calls, crashes, raises, outsideEdits>>

Locals(action, checkpoint, baseline, checkedAt, status) ==
  [action |-> action, checkpoint |-> checkpoint, baseline |-> baseline,
   checkedAt |-> checkedAt, status |-> status]
EmptyFrame == Locals(NoAction, 0, NoContent, 0, "")
FrameFor(a) == Locals(a, 0, NoContent, 0, "")
Missing == [action |-> NoAction, state |-> "missing", status |-> ""]

Init ==
  /\ log = <<>>
  /\ reservations = [k \in Keys |-> Missing]
  /\ disk = Original
  /\ patchLock = NoCaller
  /\ clock = 0
  /\ nextCheckpoint = 1
  /\ pc = [c \in Callers |-> "idle"]
  /\ frame = [c \in Callers |-> EmptyFrame]
  /\ effects = <<>>
  /\ calls = 0 /\ crashes = 0 /\ raises = 0 /\ outsideEdits = 0

-----------------------------------------------------------------------------
(* Readers of the event log.                                               *)

EventsOf(a, types) ==
  {i \in DOMAIN log : log[i].action = a /\ log[i].type \in types}

Latest(positions) ==
  CHOOSE i \in positions : \A j \in positions : j <= i

LatestRequest(a) == Latest(EventsOf(a, {"approval_required"}))

IsLatestRequest(a, checkpoint) ==
  /\ EventsOf(a, {"approval_required"}) # {}
  /\ log[LatestRequest(a)].checkpoint = checkpoint

GrantsFor(checkpoint) ==
  {i \in DOMAIN log : /\ log[i].type = "approval_granted"
                      /\ log[i].checkpoint = checkpoint}

Rejected(checkpoint) ==
  \E i \in DOMAIN log : /\ log[i].type = "approval_rejected"
                        /\ log[i].checkpoint = checkpoint

Expired(grant) == clock >= grant.expires

\* Variant: an expired grant still counts.
HasValidGrantWithoutExpiry(a, baseline) ==
  LET granted == EventsOf(a, {"approval_granted"})
      grant == log[Latest(granted)]
  IN /\ granted # {}
     /\ IsLatestRequest(a, grant.checkpoint)
     /\ grant.baseline = baseline
     /\ ~ Rejected(grant.checkpoint)

\* The last grant of the action is for its latest request, is unexpired and
\* unrejected, and covers the payload just previewed.
HasValidGrant(a, baseline) ==
  LET granted == EventsOf(a, {"approval_granted"})
      grant == log[Latest(granted)]
  IN /\ granted # {}
     /\ IsLatestRequest(a, grant.checkpoint)
     /\ ~ Expired(grant)
     /\ grant.baseline = baseline
     /\ ~ Rejected(grant.checkpoint)

GrantedCheckpoint(a) ==
  log[Latest(EventsOf(a, {"approval_granted"}))].checkpoint

\* The latest request is asked again while it still describes the payload
\* and nobody has answered it.
ReusableRequest(a, baseline) ==
  /\ EventsOf(a, {"approval_required"}) # {}
  /\ LET request == log[LatestRequest(a)]
     IN /\ request.baseline = baseline
        /\ ~ Rejected(request.checkpoint)
        /\ GrantsFor(request.checkpoint) = {}

\* Variant: any decision on any request hides the pending one.
PendingApprovalOnce ==
  LET requests == {i \in DOMAIN log : log[i].type = "approval_required"}
  IN IF \/ requests = {}
        \/ \E j \in DOMAIN log :
             log[j].type \in {"approval_granted", "approval_rejected"}
     THEN 0 ELSE Latest(requests)

\* The position of the pending approval request, 0 if there is none.
PendingApproval ==
  LET requests == {i \in DOMAIN log : log[i].type = "approval_required"}
      last == Latest(requests)
  IN IF requests = {} THEN 0
     ELSE IF \E j \in DOMAIN log :
               /\ j > last
               /\ log[j].type \in {"approval_granted", "approval_rejected"}
               /\ log[j].checkpoint = log[last].checkpoint
          THEN 0 ELSE last

\* Recovery: the actions whose trail in the log has no end.
Unresolved ==
  {a \in Actions : /\ EventsOf(a, EventTypes) # {}
                   /\ EventsOf(a, TerminalTypes \union {"approval_rejected"}) = {}}

\* Variant: a request is awaited although it has been granted.
ClassificationWaitingFirst(a) ==
  IF EventsOf(a, {"approval_required"}) # {} THEN "awaiting_approval"
  ELSE IF EventsOf(a, {"action_started"}) # {}
       THEN "ambiguous_side_effect" ELSE "not_started"

Classification(a) ==
  IF /\ EventsOf(a, {"approval_required"}) # {}
     /\ EventsOf(a, {"approval_granted"}) = {}
  THEN "awaiting_approval"
  ELSE IF EventsOf(a, {"action_started"}) # {}
       THEN "ambiguous_side_effect"
       ELSE "not_started"

\* The unresolved action with the latest event.
IsPendingAction(a) ==
  /\ a \in Unresolved
  /\ \A b \in Unresolved :
       Latest(EventsOf(b, EventTypes)) <= Latest(EventsOf(a, EventTypes))

-----------------------------------------------------------------------------
(* Steps shared by the calls.                                              *)

About(type, a, checkpoint, baseline, expires) ==
  [type |-> type, action |-> a, checkpoint |-> checkpoint,
   baseline |-> baseline, expires |-> expires, status |-> ""]

EventOf(type, a) == About(type, a, 0, NoContent, 0)

Outcome(type, a, status) ==
  [type |-> type, action |-> a, checkpoint |-> 0, baseline |-> NoContent,
   expires |-> 0, status |-> status]

OutcomeType(status) ==
  IF status \in SuccessStatuses THEN "action_completed"
  ELSE IF status = "conflict" THEN "action_conflict" ELSE "action_failed"

Record(event) == log' = Append(log, event)

Goto(c, point) == pc' = [pc EXCEPT ![c] = point] /\ UNCHANGED frame

GotoWith(c, point, locals) ==
  /\ pc' = [pc EXCEPT ![c] = point]
  /\ frame' = [frame EXCEPT ![c] = locals]

Return(c) == GotoWith(c, "idle", EmptyFrame)

Observed(c, status) == Locals(frame[c].action, frame[c].checkpoint,
                              frame[c].baseline, frame[c].checkedAt, status)

StoredStatus(a) == reservations[Key[a]].status
Stored(a) ==
  /\ reservations[Key[a]].state = "completed"
  /\ reservations[Key[a]].action = a
KeyConflict(a) ==
  /\ reservations[Key[a]].state # "missing"
  /\ reservations[Key[a]].action # a

\* Variant: the last observation stored for a key wins.
StoreObservationLastWins(a, status) ==
  reservations' = [reservations EXCEPT ![Key[a]] =
                     [action |-> a, state |-> "completed", status |-> status]]

\* store.complete: the first observation stored for a key stays.
StoreObservation(a, status) ==
  reservations' = IF Stored(a) THEN reservations
                  ELSE [reservations EXCEPT ![Key[a]] =
                          [action |-> a, state |-> "completed",
                           status |-> status]]

\* A stored observation ends the call, without the operation.
Replay(c) ==
  LET a == frame[c].action
  IN /\ Stored(a)
     /\ Record(Outcome("action_replayed", a, StoredStatus(a)))
     /\ Return(c)

KeyConflicts(c) ==
  LET a == frame[c].action
  IN /\ KeyConflict(a)
     /\ Record(Outcome("action_conflict", a, "failed"))
     /\ Return(c)

-----------------------------------------------------------------------------
(* AgentRuntime.execute.                                                   *)

Lookup(c) ==
  LET a == frame[c].action
  IN /\ pc[c] = "lookup"
     /\ \/ /\ a \notin Permitted
           /\ Record(Outcome("action_denied", a, "policy_denied"))
           /\ Return(c)
        \/ a \in Permitted /\ Replay(c)
        \/ a \in Permitted /\ KeyConflicts(c)
        \/ /\ a \in Permitted /\ ~ Stored(a) /\ ~ KeyConflict(a)
           /\ Goto(c, "preview")
           /\ UNCHANGED log
     /\ UNCHANGED <<reservations, world, clock, nextCheckpoint, effects, bounds>>

\* The preview of a patch conflicts unless the file is as the patch expects;
\* the payload of a command has no file baseline.
Preview(c) ==
  LET a == frame[c].action
  IN /\ pc[c] = "preview"
     /\ \/ /\ Kind[a] = "apply_patch" /\ disk # Base[a]
           /\ Record(IF disk = Absent
                     THEN Outcome("action_failed", a, "failed")
                     ELSE Outcome("action_conflict", a, "conflict"))
           /\ Return(c)
        \/ /\ Kind[a] = "apply_patch" => disk = Base[a]
           /\ GotoWith(c, "check",
                Locals(a, 0, IF Kind[a] = "run_command" THEN NoContent ELSE disk, 0, ""))
           /\ UNCHANGED log
     /\ UNCHANGED <<reservations, world, clock, nextCheckpoint, effects, bounds>>

\* _valid_approval_grant, and _build_approval_request when there is none.
CheckGrant(c) ==
  LET a == frame[c].action
      baseline == frame[c].baseline
  IN /\ pc[c] = "check"
     /\ \/ /\ HasValidGrant(a, baseline)
           /\ GotoWith(c, "authorize",
                Locals(a, GrantedCheckpoint(a), baseline, clock, ""))
           /\ UNCHANGED nextCheckpoint
        \/ /\ ~ HasValidGrant(a, baseline) /\ ReusableRequest(a, baseline)
           /\ GotoWith(c, "request",
                Locals(a, log[LatestRequest(a)].checkpoint, baseline, 0, ""))
           /\ UNCHANGED nextCheckpoint
        \/ /\ ~ HasValidGrant(a, baseline) /\ ~ ReusableRequest(a, baseline)
           /\ GotoWith(c, "request",
                Locals(a, nextCheckpoint, baseline, 0, ""))
           /\ nextCheckpoint' = nextCheckpoint + 1
     /\ UNCHANGED <<store, world, clock, effects, bounds>>

RequestApproval(c) ==
  /\ pc[c] = "request"
  /\ Record(About("approval_required", frame[c].action, frame[c].checkpoint,
                  frame[c].baseline, 0))
  /\ Return(c)
  /\ UNCHANGED <<reservations, world, clock, nextCheckpoint, effects, bounds>>

Authorize(c) ==
  /\ pc[c] = "authorize"
  /\ Record(About("action_authorized", frame[c].action, frame[c].checkpoint,
                  frame[c].baseline, 0))
  /\ Goto(c, "consume")
  /\ UNCHANGED <<reservations, world, clock, nextCheckpoint, effects, bounds>>

ConsumeApproval(c) ==
  /\ pc[c] = "consume"
  /\ Record(About("approval_consumed", frame[c].action, frame[c].checkpoint,
                  frame[c].baseline, 0))
  /\ Goto(c, "reserve")
  /\ UNCHANGED <<reservations, world, clock, nextCheckpoint, effects, bounds>>

\* Variant: a reservation in progress is taken over instead of refused.
ReserveAgain(c) ==
  LET a == frame[c].action
  IN /\ pc[c] = "reserve"
     /\ reservations[Key[a]].state # "completed"
     /\ reservations' = [reservations EXCEPT ![Key[a]] =
          [action |-> a, state |-> "in_progress", status |-> ""]]
     /\ Goto(c, "start")
     /\ UNCHANGED <<log, world, clock, nextCheckpoint, effects, bounds>>

Reserve(c) ==
  LET a == frame[c].action
  IN /\ pc[c] = "reserve"
     /\ \/ /\ reservations[Key[a]].state = "missing"
           /\ reservations' = [reservations EXCEPT ![Key[a]] =
                [action |-> a, state |-> "in_progress", status |-> ""]]
           /\ Goto(c, "start")
           /\ UNCHANGED log
        \/ Replay(c) /\ UNCHANGED reservations
        \/ KeyConflicts(c) /\ UNCHANGED reservations
        \/ /\ reservations[Key[a]].state = "in_progress"
           /\ ~ KeyConflict(a)
           /\ Record(EventOf("action_recovery_required", a))
           /\ Return(c)
           /\ UNCHANGED reservations
     /\ UNCHANGED <<world, clock, nextCheckpoint, effects, bounds>>

Start(c) ==
  /\ pc[c] = "start"
  /\ Record(EventOf("action_started", frame[c].action))
  /\ Goto(c, "tool")
  /\ UNCHANGED <<reservations, world, clock, nextCheckpoint, effects, bounds>>

-----------------------------------------------------------------------------
(* The tools.                                                              *)

Finished(c, status) == GotoWith(c, "complete", Observed(c, status))

Perform(c) ==
  effects' = Append(effects,
    [action |-> frame[c].action, checkpoint |-> frame[c].checkpoint,
     baseline |-> frame[c].baseline, checkedAt |-> frame[c].checkedAt,
     onto |-> disk])

\* The target, the safety check or the runner raises before anything is done.
ToolRaises(c) ==
  /\ pc[c] = "tool"
  /\ raises < MaxRaises
  /\ raises' = raises + 1
  /\ Finished(c, "failed")
  /\ UNCHANGED <<store, world, clock, nextCheckpoint, effects, calls, crashes,
                 outsideEdits>>

\* Variant: a command is reported with a status the runtime does not know.
RunCommandTimesOut(c) ==
  /\ pc[c] = "tool" /\ Kind[frame[c].action] = "run_command"
  /\ Perform(c)
  /\ \E status \in {"completed", "timed_out"} : Finished(c, status)
  /\ UNCHANGED <<store, world, clock, nextCheckpoint, bounds>>

\* validate runs its command in the same way.
RunCommand(c) ==
  /\ pc[c] = "tool" /\ Kind[frame[c].action] = "run_command"
  /\ Perform(c)
  /\ \E status \in {"completed", "verification_failed"} : Finished(c, status)
  /\ UNCHANGED <<store, world, clock, nextCheckpoint, bounds>>

\* apply_file_edits replaces whatever the file holds by then; reading it again
\* for the evidence may raise.
EditFile(c) ==
  /\ pc[c] = "tool" /\ Kind[frame[c].action] = "edit_file"
  /\ Perform(c)
  /\ disk' = frame[c].action
  /\ \E status \in {"completed", "failed"} : Finished(c, status)
  /\ UNCHANGED <<store, patchLock, clock, nextCheckpoint, bounds>>

\* Variant of the patch tool: a patch that does not take the lock.
BeginPatchUnlocked(c) ==
  /\ pc[c] = "tool" /\ Kind[frame[c].action] = "apply_patch"
  /\ disk = Base[frame[c].action]
  /\ Goto(c, "verify")
  /\ UNCHANGED <<store, world, clock, nextCheckpoint, effects, bounds>>

\* apply_structured_patch reads the file, reads it again before the write,
\* writes, and reads it back, all under _PATCH_LOCK.
PatchStops(c) ==
  /\ disk # Base[frame[c].action]
  /\ Finished(c, IF disk = Absent THEN "failed" ELSE "conflict")
  /\ patchLock' = NoCaller

BeginPatch(c) ==
  /\ pc[c] = "tool" /\ Kind[frame[c].action] = "apply_patch"
  /\ patchLock = NoCaller
  /\ \/ PatchStops(c)
     \/ /\ disk = Base[frame[c].action]
        /\ patchLock' = c
        /\ Goto(c, "verify")
  /\ UNCHANGED <<store, disk, clock, nextCheckpoint, effects, bounds>>

VerifyPatch(c) ==
  /\ pc[c] = "verify"
  /\ \/ PatchStops(c)
     \/ /\ disk = Base[frame[c].action]
        /\ Goto(c, "write")
        /\ UNCHANGED patchLock
  /\ UNCHANGED <<store, disk, clock, nextCheckpoint, effects, bounds>>

WritePatch(c) ==
  /\ pc[c] = "write"
  /\ Perform(c)
  /\ disk' = frame[c].action
  /\ Goto(c, "readback")
  /\ UNCHANGED <<store, patchLock, clock, nextCheckpoint, bounds>>

\* Variant: the lock is not released after the write.
ReadBackPatchKeepingLock(c) ==
  /\ pc[c] = "readback"
  /\ Finished(c, IF disk = frame[c].action THEN "applied"
                 ELSE IF disk = Absent THEN "failed" ELSE "verification_failed")
  /\ UNCHANGED <<store, world, clock, nextCheckpoint, effects, bounds>>

ReadBackPatch(c) ==
  /\ pc[c] = "readback"
  /\ Finished(c, IF disk = frame[c].action THEN "applied"
                 ELSE IF disk = Absent THEN "failed" ELSE "verification_failed")
  /\ patchLock' = NoCaller
  /\ UNCHANGED <<store, disk, clock, nextCheckpoint, effects, bounds>>

-----------------------------------------------------------------------------
(* The end of execute.                                                     *)

\* Variant: the observation made is reported, not the one stored.
CompleteReportingOwn(c) ==
  /\ pc[c] = "complete"
  /\ StoreObservation(frame[c].action, frame[c].status)
  /\ Goto(c, "report")
  /\ UNCHANGED <<log, world, clock, nextCheckpoint, effects, bounds>>

\* store.complete returns the stored observation, which is reported.
Complete(c) ==
  LET a == frame[c].action
  IN /\ pc[c] = "complete"
     /\ StoreObservation(a, frame[c].status)
     /\ GotoWith(c, "report",
          Observed(c, IF Stored(a) THEN StoredStatus(a) ELSE frame[c].status))
     /\ UNCHANGED <<log, world, clock, nextCheckpoint, effects, bounds>>

Report(c) ==
  LET status == frame[c].status
  IN /\ pc[c] = "report"
     /\ Record(Outcome(OutcomeType(status), frame[c].action, status))
     /\ Return(c)
     /\ UNCHANGED <<reservations, world, clock, nextCheckpoint, effects, bounds>>

-----------------------------------------------------------------------------
(* Beginning a call.  An idle thread takes up a request of the user.       *)

Begin(c) ==
  /\ pc[c] = "idle"
  /\ calls < MaxCalls
  /\ calls' = calls + 1
  /\ UNCHANGED <<store, world, clock, nextCheckpoint, effects, crashes, raises,
                 outsideEdits>>

\* execute_pending_agent_write: the user approves the pending checkpoint.
Approve(c) ==
  /\ PendingApproval # 0
  /\ GotoWith(c, "granting",
       Locals(log[PendingApproval].action, log[PendingApproval].checkpoint,
              NoContent, 0, ""))
  /\ Begin(c)

\* reject_pending_agent_write: the user rejects a checkpoint shown to him.
Reject(c) ==
  /\ \E i \in DOMAIN log :
       /\ log[i].type = "approval_required"
       /\ GotoWith(c, "rejecting",
            Locals(log[i].action, log[i].checkpoint, NoContent, 0, ""))
  /\ Begin(c)

Resume(c)  == Goto(c, "recover") /\ Begin(c)
Confirm(c) == Goto(c, "confirming") /\ Begin(c)

-----------------------------------------------------------------------------
(* grant_approval and reject_approval: a check, then an append.            *)

CheckGrantable(c) ==
  LET a == frame[c].action
      checkpoint == frame[c].checkpoint
      granted == GrantsFor(checkpoint)
  IN /\ pc[c] = "granting"
     /\ \/ /\ IsLatestRequest(a, checkpoint)
           /\ granted # {} /\ ~ Expired(log[Latest(granted)])
           /\ GotoWith(c, "lookup", FrameFor(a))
        \/ /\ IsLatestRequest(a, checkpoint)
           /\ granted = {} /\ ~ Rejected(checkpoint)
           /\ Goto(c, "grant")
        \/ /\ \/ ~ IsLatestRequest(a, checkpoint)
              \/ granted # {} /\ Expired(log[Latest(granted)])
              \/ granted = {} /\ Rejected(checkpoint)
           /\ Return(c)
     /\ UNCHANGED <<store, world, clock, nextCheckpoint, effects, bounds>>

RequestOf(checkpoint) ==
  log[Latest({i \in DOMAIN log : /\ log[i].type = "approval_required"
                                 /\ log[i].checkpoint = checkpoint})]

\* The approved action is then executed by the same handler.
GrantApproval(c) ==
  LET a == frame[c].action
      checkpoint == frame[c].checkpoint
  IN /\ pc[c] = "grant"
     /\ Record(About("approval_granted", a, checkpoint,
                  RequestOf(checkpoint).baseline, clock + TTL))
     /\ GotoWith(c, "lookup", FrameFor(a))
     /\ UNCHANGED <<reservations, world, clock, nextCheckpoint, effects, bounds>>

\* Variant: a granted checkpoint may still be rejected.
CheckRejectableAfterGrant(c) ==
  /\ pc[c] = "rejecting"
  /\ IF IsLatestRequest(frame[c].action, frame[c].checkpoint)
     THEN Goto(c, "reject") ELSE Return(c)
  /\ UNCHANGED <<store, world, clock, nextCheckpoint, effects, bounds>>

CheckRejectable(c) ==
  LET checkpoint == frame[c].checkpoint
      rejectable == /\ IsLatestRequest(frame[c].action, checkpoint)
                    /\ GrantsFor(checkpoint) = {}
                    /\ ~ Rejected(checkpoint)
  IN /\ pc[c] = "rejecting"
     /\ \/ rejectable /\ Goto(c, "reject")
        \/ ~ rejectable /\ Return(c)
     /\ UNCHANGED <<store, world, clock, nextCheckpoint, effects, bounds>>

RejectApproval(c) ==
  /\ pc[c] = "reject"
  /\ Record(About("approval_rejected", frame[c].action, frame[c].checkpoint,
                  NoContent, 0))
  /\ Return(c)
  /\ UNCHANGED <<reservations, world, clock, nextCheckpoint, effects, bounds>>

-----------------------------------------------------------------------------
(* The agent loop on a fresh or resumed run, and recovery.                 *)

\* prepare_recovery: a completed reservation repairs a missing terminal event.
RepairTrail(c, a) ==
  /\ Classification(a) = "ambiguous_side_effect"
  /\ Stored(a)
  /\ Record(Outcome("action_recovered", a, StoredStatus(a)))
  /\ UNCHANGED <<pc, frame>>

\* prepare_recovery, then resume_recoverable_action.
Recover(c) ==
  /\ pc[c] = "recover"
  /\ \/ /\ Unresolved = {}
        /\ Goto(c, "decide")
        /\ UNCHANGED log
     \/ \E a \in Actions :
          /\ IsPendingAction(a)
          /\ \/ RepairTrail(c, a)
             \/ /\ Classification(a) = "not_started"
                /\ GotoWith(c, "lookup", FrameFor(a))
                /\ UNCHANGED log
             \/ /\ \/ Classification(a) = "awaiting_approval"
                   \/ /\ Classification(a) = "ambiguous_side_effect"
                      /\ ~ Stored(a)
                /\ Return(c)
                /\ UNCHANGED log
  /\ UNCHANGED <<reservations, world, clock, nextCheckpoint, effects, bounds>>

\* The next step of the loop has an action id of its own.
RecordDecision(c) ==
  /\ pc[c] = "decide"
  /\ \/ \E a \in Actions :
          /\ EventsOf(a, EventTypes) = {}
          /\ Record(EventOf("decision_recorded", a))
          /\ GotoWith(c, "lookup", FrameFor(a))
     \/ /\ \A a \in Actions : EventsOf(a, EventTypes) # {}
        /\ Return(c)
        /\ UNCHANGED log
  /\ UNCHANGED <<reservations, world, clock, nextCheckpoint, effects, bounds>>

\* confirm_ambiguous_side_effect, with the token of the pending action.
CheckConfirmable(c) ==
  /\ pc[c] = "confirming"
  /\ \/ \E a \in Actions :
          /\ IsPendingAction(a)
          /\ \/ RepairTrail(c, a)
             \/ /\ Classification(a) = "ambiguous_side_effect" /\ ~ Stored(a)
                /\ GotoWith(c, "confirm", FrameFor(a))
                /\ UNCHANGED log
     \/ /\ \A a \in Actions :
             IsPendingAction(a) => Classification(a) # "ambiguous_side_effect"
        /\ Return(c)
        /\ UNCHANGED log
  /\ UNCHANGED <<reservations, world, clock, nextCheckpoint, effects, bounds>>

ConfirmOutcomeUnknown(c) ==
  /\ pc[c] = "confirm"
  /\ Record(Outcome("action_recovery_confirmed", frame[c].action, "outcome_unknown"))
  /\ Goto(c, "settle")
  /\ UNCHANGED <<reservations, world, clock, nextCheckpoint, effects, bounds>>

SettleConfirmation(c) ==
  /\ pc[c] = "settle"
  /\ StoreObservation(frame[c].action, "outcome_unknown")
  /\ Return(c)
  /\ UNCHANGED <<log, world, clock, nextCheckpoint, effects, bounds>>

-----------------------------------------------------------------------------
(* The environment.                                                        *)

Tick ==
  /\ clock < MaxClock
  /\ clock' = clock + 1
  /\ UNCHANGED <<store, world, nextCheckpoint, pc, frame, effects, bounds>>

OutsideEdit ==
  /\ outsideEdits < MaxOutsideEdits
  /\ outsideEdits' = outsideEdits + 1
  /\ disk' \in Outside \ {disk}
  /\ UNCHANGED <<store, patchLock, clock, nextCheckpoint, pc, frame, effects,
                 calls, crashes, raises>>

\* The server process dies with all its threads; SQLite and the files stay.
Crash ==
  /\ crashes < MaxCrashes
  /\ crashes' = crashes + 1
  /\ pc' = [c \in Callers |-> "idle"]
  /\ frame' = [c \in Callers |-> EmptyFrame]
  /\ patchLock' = NoCaller
  /\ UNCHANGED <<store, disk, clock, nextCheckpoint, effects, calls, raises,
                 outsideEdits>>

Take(c) == Approve(c) \/ Reject(c) \/ Resume(c) \/ Confirm(c)

Continue(c) ==
  \/ Recover(c) \/ RecordDecision(c)
  \/ CheckConfirmable(c) \/ ConfirmOutcomeUnknown(c) \/ SettleConfirmation(c)
  \/ CheckGrantable(c) \/ GrantApproval(c)
  \/ CheckRejectable(c) \/ RejectApproval(c)
  \/ Lookup(c) \/ Preview(c) \/ CheckGrant(c) \/ RequestApproval(c)
  \/ Authorize(c) \/ ConsumeApproval(c) \/ Reserve(c) \/ Start(c)
  \/ RunCommand(c) \/ EditFile(c)
  \/ BeginPatch(c) \/ VerifyPatch(c) \/ WritePatch(c) \/ ReadBackPatch(c)
  \/ Complete(c) \/ Report(c)

Next ==
  \/ \E c \in Callers : Take(c) \/ Continue(c) \/ ToolRaises(c)
  \/ Tick \/ OutsideEdit \/ Crash

Spec == Init /\ [][Next]_vars

\* Every thread of a live server keeps running the call it has begun; nothing
\* makes a tool raise.
FairSpec == Spec /\ \A c \in Callers : WF_vars(Continue(c))

-----------------------------------------------------------------------------
(* Properties.                                                             *)

\* Every variable keeps the shape the store, the worktree and the calls have.
TypeOK ==
  /\ log \in Seq(Event)
  /\ reservations \in [Keys -> Reservation]
  /\ disk \in Contents
  /\ patchLock \in Callers \union {NoCaller}
  /\ clock \in Nat /\ nextCheckpoint \in Nat
  /\ pc \in [Callers -> Points]
  /\ frame \in [Callers -> Frame]
  /\ effects \in Seq(Effect)
  /\ calls \in Nat /\ crashes \in Nat /\ raises \in Nat /\ outsideEdits \in Nat

\* No write or command is performed twice under one idempotency key, whatever
\* the threads, crashes and recoveries (store.reserve is the only gate).
AtMostOncePerKey ==
  \A i, j \in DOMAIN effects :
    Key[effects[i].action] = Key[effects[j].action] => i = j

GrantOf(effect) ==
  {g \in DOMAIN log : /\ log[g].type = "approval_granted"
                      /\ log[g].action = effect.action
                      /\ log[g].checkpoint = effect.checkpoint
                      /\ log[g].baseline = effect.baseline
                      /\ effect.checkedAt < log[g].expires}

\* Whatever is performed was permitted by the policy and granted by the user
\* for the very payload previewed, by a grant unexpired when it was checked;
\* and the log shows the authorization, the consumption and the start after it.
EffectsWereGranted ==
  \A e \in DOMAIN effects :
    LET a == effects[e].action
    IN /\ a \in Permitted
       /\ \E g \in GrantOf(effects[e]) :
            \E u \in EventsOf(a, {"action_authorized"}) :
            \E v \in EventsOf(a, {"approval_consumed"}) :
            \E w \in EventsOf(a, {"action_started"}) : g < u /\ u < v /\ v < w

\* A stored observation is never replaced, by a late original or by a
\* confirmation that its outcome is unknown.
CompletedIsFinal ==
  [][\A k \in Keys : reservations[k].state = "completed" =>
                        reservations'[k] = reservations[k]]_reservations

\* Every success, replay and recovered result in the log is the result stored
\* for the action: no reader of the log sees two different results.
ReportsAgree ==
  \A i \in DOMAIN log :
    log[i].type \in {"action_completed", "action_replayed", "action_recovered"} =>
      /\ Stored(log[i].action)
      /\ log[i].status = StoredStatus(log[i].action)

\* Two approved patches of one file never overwrite each other: the second
\* finds the file changed, however the two threads interleave.  It says nothing
\* of edit_file and edits from outside, which take no lock.
PatchesDoNotClobber ==
  \A e \in DOMAIN effects :
    Kind[effects[e].action] = "apply_patch" =>
      effects[e].onto \notin {a \in Actions : Kind[a] = "apply_patch"}
                           \ {Base[effects[e].action]}

\* The trail of an action goes on after its end: a preview found the file
\* changed, and the user then granted a request made before that.
Reopened(a) ==
  \E i \in EventsOf(a, TerminalTypes) :
    \E j \in EventsOf(a, {"action_started"}) : i < j

\* Once the tool has run, the result is stored, or recovery asks the user about
\* it (or the user has answered): no effect is taken for something that never
\* happened.  Recovery does not ask about a reopened trail, whose end it sees.
EffectsAreAccountedFor ==
  \A e \in DOMAIN effects :
    LET a == effects[e].action
    IN \/ Stored(a)
       \/ a \in Unresolved /\ Classification(a) = "ambiguous_side_effect"
       \/ EventsOf(a, {"action_recovery_confirmed"}) # {}
       \/ Reopened(a)

\* A run that recovery calls waiting for approval has a pending request that
\* the approval handler accepts, of the very action recovery waits for.
AwaitedApprovalIsPending ==
  \A a \in Actions :
    IsPendingAction(a) /\ Classification(a) = "awaiting_approval" =>
      PendingApproval # 0 /\ log[PendingApproval].action = a

\* What the user rejected is never performed under that request.
RejectedNeverRuns ==
  \A e \in DOMAIN effects : ~ Rejected(effects[e].checkpoint)

\* What is overwritten is the content the user approved overwriting.
ApprovedBaselineIsOverwritten ==
  \A e \in DOMAIN effects :
    effects[e].baseline # NoContent => effects[e].onto = effects[e].baseline

\* Every call a thread begins comes to its end.
EveryCallReturns ==
  \A c \in Callers : pc[c] # "idle" ~> pc[c] = "idle"
=============================================================================
