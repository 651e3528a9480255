--------------------------- MODULE RuntimeRecovery ---------------------------
(***************************************************************************)
(* Reconstruction of a run from its event log (runtime/recovery.py): the   *)
(* working state after the last snapshot, the one action that is still     *)
(* unresolved, what a resume does with it, and the propose_patch actions   *)
(* that rebuild the virtual overlay.  Everything here is a function of the *)
(* log.  AgentRuntime has the classification of side effects under         *)
(* concurrent callers; this module adds reads, questions and the state.    *)
(*                                                                         *)
(* The log keeps the events that name an action or hold a working state;   *)
(* run_started, run_stopped, rollback_snapshot_recorded,                   *)
(* approval_invalidated, approval_grant_rejected and                       *)
(* runtime_recovery_state_reconstructed are left out.  An action keeps its *)
(* payload (AgentLoop.ActionIdsAreFresh), so no track is reset.            *)
(***************************************************************************)
EXTENDS VirtualPatch

CONSTANTS NoAction, NoObs, NoState, NoAnswer

TerminalTypes == {"action_completed", "action_failed", "action_conflict",
                  "action_denied", "action_replayed", "action_recovered",
                  "action_recovery_confirmed", "finish_blocked"}
WaitingTypes  == {"approval_required", "input_required"}
StartTypes    == {"action_started", "action_recovery_started"}
SideEffects   == {"apply_patch", "edit_file", "validate"}

(* An event without the fields it does not use.                            *)
Event(type) ==
  [type |-> type, action |-> NoAction, obs |-> NoObs, update |-> NoUpdate,
   state |-> NoState, checkpoint |-> 0, baseline |-> NoContent,
   answer |-> NoAnswer]
ActionEvent(type, a) == [Event(type) EXCEPT !.action = a]
Result(type, a, obs) == [Event(type) EXCEPT !.action = a, !.obs = obs]
Snapshot(state) == [Event("working_state_updated") EXCEPT !.state = state]

Newest(positions) == CHOOSE i \in positions : \A j \in positions : j <= i

-----------------------------------------------------------------------------
(* One track per action.                                                   *)

Tracked(log) == {log[i].action.id : i \in {j \in DOMAIN log :
                                             log[j].action # NoAction}}
Of(log, id, types) ==
  {i \in DOMAIN log : /\ log[i].action # NoAction /\ log[i].action.id = id
                      /\ log[i].type \in types}
Has(log, id, types) == Of(log, id, types) # {}
At(log, id, types)  == Newest(Of(log, id, types))
LastOf(log, id) == Newest({i \in DOMAIN log : /\ log[i].action # NoAction
                                              /\ log[i].action.id = id})
ActionOf(log, id) == log[LastOf(log, id)].action

SnapshotAt(log) ==
  LET at == {i \in DOMAIN log : log[i].type = "working_state_updated"}
  IN  IF at = {} THEN 0 ELSE Newest(at)
LatestState(log) ==
  IF SnapshotAt(log) = 0 THEN CreateState
  ELSE FromRecord(log[SnapshotAt(log)].state)

(* The tool calls the run has been charged for (runtime/batch.py).         *)
ToolCalls(log) ==
  LET cost[n \in 0..Len(log)] ==
        IF n = 0 THEN 0
        ELSE cost[n - 1] + (IF log[n].type \in StartTypes
                            THEN log[n].action.size ELSE 0)
  IN  cost[Len(log)]

-----------------------------------------------------------------------------
(* The working state.                                                      *)

(* Variant: an action that waits is not an observation. *)
ObservedEnds(log, id) ==
  {i \in Of(log, id, TerminalTypes) : i = At(log, id, TerminalTypes)}

(* The events after the snapshot that the state has not seen: the latest   *)
(* waiting and the latest terminal observation of each action, and the     *)
(* latest answer.                                                          *)
ObservedAt(log, id) ==
  {i \in Of(log, id, WaitingTypes) : i = At(log, id, WaitingTypes)}
    \union {i \in Of(log, id, TerminalTypes) : i = At(log, id, TerminalTypes)}

Unseen(log) ==
  {i \in SnapshotAt(log) + 1 .. Len(log) :
     /\ log[i].action # NoAction
     /\ LET id == log[i].action.id
        IN  \/ i \in ObservedAt(log, id)
            \/ /\ log[i].type = "input_received"
               /\ i = At(log, id, {"input_received"})}

(* Variant: the update of the decision is forgotten. *)
FoldedUpdateLost(log, state, i) == NoUpdate

(* The update of the decision counts at the first observation of its       *)
(* action, if it is newer than the snapshot and the state supports it.     *)
FoldedUpdate(log, state, i) ==
  LET id == log[i].action.id
      first == \A j \in ObservedAt(log, id) :
                 j > SnapshotAt(log) => i <= j
      decided == /\ Has(log, id, {"decision_recorded"})
                 /\ At(log, id, {"decision_recorded"}) > SnapshotAt(log)
  IN  IF first /\ decided
      THEN LET u == log[At(log, id, {"decision_recorded"})].update
           IN  IF UpdateFits(state, u) THEN u ELSE NoUpdate
      ELSE NoUpdate

Fold(log, state, i) ==
  IF log[i].type = "input_received"
  THEN IF AnswerFits(state, log[i].action.id, log[i].answer)
       THEN RecordAnswer(state, log[i].action.id, log[i].answer)
       ELSE state
  ELSE Advance(state, log[i].action, log[i].obs, FoldedUpdate(log, state, i))

(* Variant: the last snapshot as it is. *)
RebuiltNothing(log) == LatestState(log)

Rebuilt(log) ==
  LET from == SnapshotAt(log)
      unseen == Unseen(log)
      state[n \in from .. Len(log)] ==
        IF n = from THEN LatestState(log)
        ELSE IF n \in unseen THEN Fold(log, state[n - 1], n)
        ELSE state[n - 1]
  IN  state[Len(log)]

-----------------------------------------------------------------------------
(* The unresolved action and what a resume does with it.                   *)

Unresolved(log) ==
  {id \in Tracked(log) :
     /\ ~Has(log, id, TerminalTypes)
     /\ ~Has(log, id, {"input_received", "approval_rejected"})}

Pending(log) ==
  CHOOSE id \in Unresolved(log) :
    \A other \in Unresolved(log) : LastOf(log, other) <= LastOf(log, id)

Classification(log, id) ==
  IF Has(log, id, {"input_required"}) THEN "input_required"
  ELSE IF /\ Has(log, id, {"approval_required"})
          /\ ~Has(log, id, {"approval_granted"}) THEN "awaiting_approval"
  ELSE IF ~Has(log, id, StartTypes) THEN "not_started"
  ELSE IF ActionOf(log, id).kind \in SideEffects THEN "ambiguous_side_effect"
  ELSE "interrupted_read_only"

PendingClass(log) ==
  IF Unresolved(log) = {} THEN "none"
  ELSE Classification(log, Pending(log))

(* _resume_disposition.                                                    *)
NextStep(log) ==
  LET state == Rebuilt(log)
  IN  CASE PendingClass(log) = "awaiting_approval" -> "await_approval"
        [] PendingClass(log) = "input_required" -> "await_input"
        [] PendingClass(log) = "interrupted_read_only" -> "retry_read_only"
        [] PendingClass(log) = "ambiguous_side_effect" -> "confirm_side_effect"
        [] PendingClass(log) = "not_started" -> "execute_pending"
        [] OTHER -> IF state.status = "completed" \/ state.stop = "finished"
                    THEN "stopped"
                    ELSE IF state.stop = "input_required" THEN "await_input"
                    ELSE "next_decision"

(* Variant: the new process starts with an empty overlay. *)
RestoredNothing(log, disk) == NoEdits

(* _virtual_context_actions, replayed on an empty overlay by the           *)
(* constructor of AgentRuntime: the completed proposals for the files that *)
(* the state still lists.                                                  *)
RestoredOverlay(log, disk) ==
  LET state == Rebuilt(log)
      replayed(i) ==
        /\ log[i].type \in TerminalTypes
        /\ log[i].action.kind = "propose_patch"
        /\ log[i].obs.status = "completed"
        /\ i = At(log, log[i].action.id, TerminalTypes)
        /\ state.edits[log[i].action.path] # NoEdit
      overlay[n \in 0 .. Len(log)] ==
        IF n = 0 THEN NoEdits
        ELSE IF replayed(n)
             THEN Propose(overlay[n - 1], disk, log[n].action)[1]
             ELSE overlay[n - 1]
  IN  overlay[Len(log)]
=============================================================================
