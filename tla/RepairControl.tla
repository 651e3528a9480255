---------------------------- MODULE RepairControl ----------------------------
(***************************************************************************)
(* What decides whether a repair goes on and whether a run is complete, as *)
(* functions of records: the repair history (repair_loop.py), the repair   *)
(* transitions of the agent (agent_repair.py), the execution budget and    *)
(* the completion evidence (execution.py).                                 *)
(*                                                                         *)
(* A history is a function from attempt numbers to records: _upsert keeps  *)
(* one record per attempt.  A fingerprint stands for the normalized output *)
(* of a failing validation, or for the arguments of a write, never for     *)
(* what the write does to the file: the path and the new content of an     *)
(* edit_file, the path and the hunks of an apply_patch                     *)
(* (agent_write_proposal_fingerprint).  "none" is no failure, or no write. *)
(* Summaries, paths and commands of a record are left out: nothing reads   *)
(* them back.                                                              *)
(***************************************************************************)
EXTENDS Integers, FiniteSets

NoHistory == <<>>

(* RepairAttemptRecord *)
Attempt(status) ==
  [status |-> status, trigger |-> "none", proposal |-> "none",
   result |-> "none"]

(* _record_for_attempt, or a new record.                                   *)
RecordFor(history, n, status) ==
  IF n \in DOMAIN history THEN history[n] ELSE Attempt(status)

(* _upsert *)
Upsert(history, n, record) ==
  [k \in DOMAIN history \union {n} |-> IF k = n THEN record ELSE history[k]]

(* mark_repair_attempt_stopped *)
MarkStopped(history, n, trigger) ==
  LET record == RecordFor(history, n, "stopped")
  IN  Upsert(history, n,
        [record EXCEPT !.status = "stopped",
                       !.trigger = IF @ # "none" THEN @ ELSE trigger])

(* repair_proposal_fingerprints *)
Blocked(history) == {history[k].proposal : k \in DOMAIN history} \ {"none"}

(* latest_failure_fingerprint *)
LatestFailure(history) ==
  LET failed == {k \in DOMAIN history : history[k].result # "none"}
  IN  IF failed = {} THEN "none"
      ELSE history[CHOOSE k \in failed : \A j \in failed : j <= k].result

-----------------------------------------------------------------------------
(* AgentRepairTransition: the new history, the attempt it is about, whether *)
(* a repair is required, for which failure, and why the repair stops.      *)
Transition(history, attempt, required, trigger, stop) ==
  [history |-> history, attempt |-> attempt, required |-> required,
   trigger |-> trigger, stop |-> stop]

(* next_attempt; 0 is None.                                                *)
NextAttempt(t, limit) ==
  IF ~ t.required \/ t.stop # "none" \/ t.attempt >= limit THEN 0
  ELSE t.attempt + 1

(* stop_agent_repair *)
StopRepair(history, attempt, reason, trigger) ==
  Transition(MarkStopped(history, attempt, trigger), attempt, FALSE, trigger,
             reason)

(* record_validation_outcome: a failure that repeats the trigger of its    *)
(* own repair attempt stops the repair.                                    *)
RepeatsTrigger(history, n, failure) ==
  /\ n > 0
  /\ failure # "none"
  /\ RecordFor(history, n, "none").trigger = failure

(* Variant: the record of the attempt is made anew.                        *)
RecordOutcomeAnew(history, n, failure) ==
  LET status == IF failure = "none" THEN "completed"
                ELSE IF RepeatsTrigger(history, n, failure) THEN "stopped"
                ELSE "validation_failed"
  IN  Upsert(history, n, [Attempt(status) EXCEPT !.result = failure])

RecordOutcome(history, n, failure) ==
  LET status == IF failure = "none" THEN "completed"
                ELSE IF RepeatsTrigger(history, n, failure) THEN "stopped"
                ELSE "validation_failed"
  IN  Upsert(history, n,
        [RecordFor(history, n, status) EXCEPT !.status = status,
                                              !.result = failure])

(* observe_agent_validation *)
ObserveValidation(history, n, limit, failure) ==
  LET updated == RecordOutcome(history, n, failure)
  IN  IF RepeatsTrigger(history, n, failure)
      THEN Transition(updated, n, FALSE, failure, "repeated_validation_failure")
      ELSE IF failure = "none"
           THEN Transition(updated, n, FALSE, "none", "none")
      ELSE IF n >= limit
           THEN Transition(MarkStopped(updated, n, "none"), n, FALSE, failure,
                           "repair_budget_exhausted")
      ELSE Transition(updated, n, TRUE, failure, "none")

(* _record_repair_proposal: a proposal is repeated when an earlier attempt *)
(* has its fingerprint, the same hunks whatever file they meet; the record *)
(* of its own attempt is replaced.                                         *)
RepeatsProposal(history, n, proposal) ==
  \E k \in DOMAIN history :
    k < n /\ history[k].proposal # "none" /\ history[k].proposal = proposal

(* observe_agent_repair_proposal *)
ObserveProposal(history, n, limit, trigger, proposal) ==
  LET repeated == RepeatsProposal(history, n, proposal)
      record == [Attempt(IF repeated THEN "stopped" ELSE "proposal_ready")
                   EXCEPT !.trigger = trigger, !.proposal = proposal]
  IN  IF n > limit
      THEN StopRepair(history, n, "repair_budget_exhausted", trigger)
      ELSE Transition(Upsert(history, n, record), n, FALSE, trigger,
                      IF repeated THEN "repeated_repair_proposal" ELSE "none")

(* observe_agent_write *)
ObserveWrite(history, n, changed) ==
  IF changed THEN Transition(history, n, FALSE, "none", "none")
  ELSE Transition(MarkStopped(history, n, "none"), n, FALSE, "none",
                  "no_repository_change")

-----------------------------------------------------------------------------
(* execution.py.  Usage and budget count agent steps, tool calls and       *)
(* validation commands; elapsed time is left out.                          *)
NoUsage == [steps |-> 0, calls |-> 0, commands |-> 0]

Larger(a, b) == IF a >= b THEN a ELSE b

(* ExecutionUsage.add *)
Used(usage, steps, calls, commands) ==
  [steps |-> usage.steps + Larger(steps, 0),
   calls |-> usage.calls + Larger(calls, 0),
   commands |-> usage.commands + Larger(commands, 0)]

(* execution_budget_state *)
Remaining(budget, usage) ==
  [f \in DOMAIN budget |-> Larger(budget[f] - usage[f], 0)]
Exhausted(budget, usage) == \E f \in DOMAIN budget : usage[f] > budget[f]

(* _reconcile_runtime_execution_usage: never below what the log counts.    *)
Reconciled(usage, counted) ==
  [f \in DOMAIN usage |-> Larger(usage[f], counted[f])]

(* evaluate_completion over the required criteria [kind, ref]; results is  *)
(* the last result of each command that ran.                               *)
EvaluateCompletion(criteria, changed, approved, results) ==
  LET status(c) ==
        CASE c.kind = "change" -> IF changed # {} THEN "passed" ELSE "failed"
          [] c.kind = "safety" -> IF changed \subseteq approved
                                  THEN "passed" ELSE "failed"
          [] c.kind = "validation" ->
               IF c.ref \notin DOMAIN results THEN "pending"
               ELSE IF results[c.ref] THEN "passed" ELSE "failed"
          [] OTHER -> "passed"
      statuses == {status(c) : c \in criteria}
  IN  IF "failed" \in statuses THEN "failed"
      ELSE IF "pending" \in statuses THEN "pending" ELSE "passed"
=============================================================================
