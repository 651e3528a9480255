--------------------------- MODULE ValidationCycle ---------------------------
(***************************************************************************)
(* An agent task run between its approvals (web_server.py, agent_repair.py, *)
(* execution.py): the worker runs the agent until it asks, offers a write  *)
(* or ends; a granted write is followed by one approval per configured     *)
(* validation command; a failing command opens a bounded repair; and the   *)
(* answered or validated agent may finish the run.  The run record is one  *)
(* object in memory, saved when a handler returns.  A cancellation or a    *)
(* pause is handled at once, whatever handler is running, and a restart    *)
(* may come between any two steps.                                         *)
(*                                                                         *)
(* Abstractions.  One handler or worker runs at a time beside cancel and   *)
(* pause.  Executing a granted action is one step, as is a call of the     *)
(* agent loop: AgentRuntime and AgentLoop open them.  The loop makes at    *)
(* most one read, of several tool calls, before the decision that ends     *)
(* it.  The agent edits one file.  Its write is the material of its        *)
(* fingerprint: an edit_file is the content it leaves, an apply_patch is   *)
(* its hunks, which leave what they make of the content they meet.         *)
(* Elapsed time is left out.  A proposal of the planner is where the run   *)
(* leaves this module for TaskRun.                                         *)
(***************************************************************************)
EXTENDS TaskRunStatus, RepairControl, Sequences

CONSTANTS
  Writes, Original, Outside,  \* contents: of the agent's edit_file, of the
                              \* new sandbox, of an edit by somebody else
  Patches, Patched,           \* hunks of the agent's apply_patch, and what
                              \* they make of a content, "none" if they
                              \* do not match it or change nothing
  Failures,                   \* fingerprints of a failing validation
  Commands,                   \* the configured commands, in order
  MaxRepairs,                 \* max_repair_attempts
  Budget,                     \* execution_budget
  ReadCosts,                  \* tool calls of the read before a decision
  MaxStops, MaxFaults         \* bounds: cancellations and pauses; restarts
                              \* and edits by somebody else

Contents == Writes \union {Original, Outside}
Proposals == Writes \union Patches
CommandSet == {Commands[i] : i \in DOMAIN Commands}

ASSUME ValidationCycleAssumption ==
  /\ "none" \notin Contents \union Patches \union Failures \union CommandSet
  /\ {Original, Outside} \intersect Writes = {}
  /\ Patches \intersect Contents = {}
  /\ Patched \in [Patches -> [Contents -> Contents \union {"none"}]]
  /\ \A p \in Patches, c \in Contents : Patched[p][c] # c
  /\ Commands \in Seq(CommandSet)
  /\ \A i, j \in DOMAIN Commands : Commands[i] = Commands[j] => i = j
  /\ MaxRepairs \in 0..5                 \* MAX_REPAIR_ATTEMPTS_LIMIT
  /\ DOMAIN Budget = {"steps", "calls", "commands"}
  /\ \A f \in DOMAIN Budget : Budget[f] \in Nat \ {0}
  /\ ReadCosts \subseteq Nat
  /\ MaxStops \in Nat /\ MaxFaults \in Nat

VARIABLES
  run,      \* the TaskRun object: status, result, repair history, usage
  saved,    \* its row of task_runs
  store,    \* what the event log holds of this run
  disk,     \* the file in the sandbox
  job,      \* the handler or worker that is running
  episode,  \* history: since the run was resumed or validation last passed,
            \* or a restart lost a required repair: the failed
            \* validations, and the repairs offered for approval
  validated,  \* history: the commands passed since the agent's last write
  stops, faults

bounds == <<stops, faults>>
vars == <<run, saved, store, disk, job, episode, validated, bounds>>

(* An approval request: its number, whether it is for a write or for a     *)
(* command, the write or the command's position, the content previewed.    *)
Request(id, kind, write, index, base) ==
  [id |-> id, kind |-> kind, write |-> write, index |-> index, base |-> base]
NoRequest == Request(0, "none", "none", 0, "none")

(* agent_validation_cycle: the write it validates, next_index, the results *)
(* that passed so far, repair_attempt.  Position next is 1 for index 0.    *)
Cycle(write, next, passed, attempt) ==
  [write |-> write, next |-> next, passed |-> passed, attempt |-> attempt]
NoCycle == Cycle(0, 1, <<>>, 0)

NoRepair == [required |-> FALSE, attempt |-> 0, trigger |-> "none"]
(* How a call of the loop, or of request_agent_validation, ended.          *)
Outcome(what, write, steps) == [what |-> what, write |-> write, steps |-> steps]
NoOutcome == Outcome("none", "none", 0)
Idle == [at |-> "idle", kind |-> "none", changed |-> FALSE,
         cycle |-> NoCycle, before |-> 0,
         repair |-> Transition(NoHistory, 0, FALSE, "none", "none"),
         out |-> NoOutcome]
NewEpisode == [failed |-> 0, tried |-> <<>>]

Init ==
  /\ run = [status |-> "exploring", pause |-> FALSE, cancel |-> FALSE,
            checkpoint |-> "none", sandbox |-> 1, proposal |-> 0,
            approval |-> NoRequest, question |-> 0, cycle |-> NoCycle,
            pending |-> 0, repair |-> NoRepair, wrote |-> FALSE,
            history |-> NoHistory, usage |-> NoUsage]
  /\ saved = run
  /\ store = [steps |-> 0, calls |-> 0, commands |-> 0, started |-> 0,
              offers |-> 0, offer |-> NoRequest, question |-> 0, writes |-> 0,
              bound |-> FALSE, criteria |-> {}, passed |-> {}]
  /\ disk = Original
  /\ job = [Idle EXCEPT !.at = "loop", !.kind = "fresh"]
  /\ episode = NewEpisode
  /\ validated = {}
  /\ stops = 0 /\ faults = 0

-----------------------------------------------------------------------------
(* The run record.                                                         *)

Rest == Remaining(Budget, run.usage)
Charged(r, steps, calls, commands) ==
  [r EXCEPT !.usage = Used(@, steps, calls, commands)]
Counted == [steps |-> store.steps, calls |-> store.calls,
            commands |-> store.commands]

(* _remaining_agent_continuation_budget is not None.                       *)
CanDecide(usage) ==
  LET rest == Remaining(Budget, usage)
  IN  ~ Exhausted(Budget, usage) /\ rest.steps > 0 /\ rest.calls > 0

(* _apply_agent_repair_transition *)
Applied(r, t) ==
  [r EXCEPT !.history = t.history,
            !.repair = [required |-> t.required, attempt |-> t.attempt,
                        trigger |-> t.trigger]]

(* _finish_stopped_agent_repair *)
StoppedRepair(r, t) ==
  [Applied(r, t) EXCEPT !.approval = NoRequest, !.pending = 0,
                        !.status = "failed"]

(* _active_agent_repair_transition; without one no repair is required.     *)
ActiveRepair(r) ==
  IF r.repair.required
  THEN Transition(r.history, r.repair.attempt, TRUE, r.repair.trigger, "none")
  ELSE Transition(r.history, 0, FALSE, "none", "none")

(* _persist_task_run, as a handler or the worker returns.                  *)
Return(r) == run' = r /\ saved' = r /\ job' = Idle
GoOn(point) == job' = [job EXCEPT !.at = point]

-----------------------------------------------------------------------------
(* The event log.                                                          *)

(* An approval request is recorded.                                        *)
Offered(s, kind, write, index, base) ==
  LET id == s.offers + 1
  IN  [s EXCEPT !.offers = id, !.offer = Request(id, kind, write, index, base)]

(* A tool starts; n is its tool_call_cost.                                 *)
Started(s, n) ==
  IF n = 0 THEN s ELSE [s EXCEPT !.calls = @ + n, !.started = @ + 1]

(* What a write leaves of a content, which a patch must fit                *)
(* (preview_structured_patch).                                             *)
Leaves(write, content) ==
  IF write \in Patches THEN Patched[write][content] ELSE write
Fitting(writes) == {w \in writes : Leaves(w, disk) # "none"}

(* agent_completion_ready: the validation criteria of the working state    *)
(* have passed.  The plan and the other criteria are the model's to close. *)
Ready(s) == s.criteria \subseteq s.passed

(* One call of run_agent_loop makes a read of n tool calls (none if 0) and *)
(* a decision, within what is left of the budget, and ends with the log    *)
(* and how it ended: it asks, offers a write that fits the file            *)
(* (_managed_write_conflict), repeats a blocked one,                       *)
(* finishes, or stops without a decision.  An update of the model may give *)
(* the validation criteria another kind and other evidence                 *)
(* (_apply_acceptance_updates).                                            *)
Steps(n) == IF n = 0 THEN 1 ELSE 2
Decided(n) == [Started(store, n) EXCEPT !.steps = @ + Steps(n)]
Affordable(rest) == {n \in ReadCosts : Steps(n) <= rest.steps /\ n < rest.calls}

Asks(rest) ==
  {<<[Decided(n) EXCEPT !.question = store.steps + Steps(n)],
     Outcome("asked", "none", Steps(n))>> :
     n \in {m \in Affordable(rest) : Steps(m) < rest.steps}}

Offers(rest, blocked) ==
  {<<Offered(Decided(n), "write", w, 0, disk), Outcome("offered", w, Steps(n))>> :
     n \in Affordable(rest), w \in Fitting(Proposals \ blocked)}

Repeats(rest, blocked) ==
  {<<Decided(n), Outcome("repeated", w, Steps(n))>> :
     n \in Affordable(rest), w \in Fitting(Proposals \intersect blocked)}

Finished(n, kept) == [Started(Decided(n), 1) EXCEPT !.criteria = kept]
Finishes(rest) ==
  {<<Finished(c[1], c[2]), Outcome("finished", "none", Steps(c[1]))>> :
     c \in {d \in Affordable(rest) \X {store.criteria, {}} :
            Ready(Finished(d[1], d[2]))}}

Undecided(rest) ==
  {<<[Started(store, n) EXCEPT !.steps = @ + Steps(n) - 1],
     Outcome(what, "none", Steps(n) - 1)>> :
     n \in {m \in ReadCosts : m <= rest.calls /\ Steps(m) - 1 <= rest.steps},
     what \in {"stopped", "raised"}}

Loops(rest, blocked) ==
  Asks(rest) \union Offers(rest, blocked) \union Repeats(rest, blocked)
    \union Finishes(rest) \union Undecided(rest)

(* A loop that finds a question or an approval open returns with it, and   *)
(* with no fingerprint.                                                    *)
Waiting == store.question # 0 \/ store.offer # NoRequest
Waits == IF store.question # 0 THEN Outcome("asked", "none", 0)
         ELSE Outcome("offered", "none", 0)

AgentLoop(rest, blocked) ==
  /\ job.at = "loop"
  /\ IF Waiting
     THEN store' = store /\ job' = [job EXCEPT !.at = "settle", !.out = Waits]
     ELSE \E l \in Loops(rest, blocked) :
            /\ store' = l[1]
            /\ job' = [job EXCEPT !.at = "settle", !.out = l[2]]
  /\ UNCHANGED <<run, saved, disk, episode, validated, bounds>>

-----------------------------------------------------------------------------
(* The worker (_execute_task_run).                                         *)

WorkerStarts ==
  /\ job.at = "start"
  /\ LET usage == Reconciled(run.usage, Counted)
     IN  IF MustStop(run) THEN Return(StoppedAt(run, "exploring"))
         ELSE IF ~ CanDecide(usage)
              THEN Return([run EXCEPT !.usage = usage, !.status = "failed"])
         ELSE /\ run' = [run EXCEPT !.usage = usage, !.status = "exploring"]
              /\ saved' = [run EXCEPT !.status = "exploring"]
              /\ job' = [job EXCEPT !.at = "loop", !.before = store.calls]
  /\ episode' = NewEpisode
  /\ UNCHANGED <<store, disk, validated, bounds>>

WorkerLoops == job.kind \in {"fresh", "resumed"} /\ AgentLoop(Rest, {})

(* The result of the run is rebuilt from the report of the workflow, which *)
(* counts nothing of an agent that raised an LLM error it fell back from.  *)
(* The worker waits for the approval of a write or for an answer; with     *)
(* neither the planner may make a proposal, and without one, and with      *)
(* budget left, the run is complete.                                       *)
WorkerReport(made) ==
  LET charged == IF job.out.what = "raised" THEN run
                 ELSE Charged(run, job.out.steps, store.calls - job.before, 0)
      exhausted == Exhausted(Budget, charged.usage)
      proposed == made /\ ~ exhausted
      r == [charged EXCEPT
              !.approval = store.offer, !.question = store.question,
              !.cycle = NoCycle, !.pending = 0, !.repair = NoRepair,
              !.wrote = FALSE, !.proposal = IF proposed THEN 1 ELSE 0]
      write == store.offer.kind = "write"
      state == IF store.question # 0 THEN "awaiting_input"
               ELSE IF proposed \/ write THEN "awaiting_approval" ELSE "completed"
  IN  IF r.cancel \/ (r.pause /\ state # "completed") THEN StoppedAt(r, state)
      ELSE IF exhausted THEN [r EXCEPT !.status = "failed"]
      ELSE [r EXCEPT !.status = state,
                     !.pause = IF state = "completed" THEN FALSE ELSE @]

WorkerSettles ==
  /\ job.at = "settle" /\ job.kind \in {"fresh", "resumed"}
  /\ \/ /\ job.out.what = "raised"
        /\ Return([run EXCEPT !.status = "failed"])
     \/ \E made \in BOOLEAN :
          /\ made => store.question = 0 /\ store.offer.kind # "write"
          /\ Return(WorkerReport(made))
  /\ UNCHANGED <<store, disk, episode, validated, bounds>>

-----------------------------------------------------------------------------
(* The grant of a write (_handle_runtime_approval_grant).                  *)

Idling == job.at = "idle"
(* _pending_runtime_approval, and its checkpoint is still the one of the   *)
(* event log: other grants and rejections are refused with nothing done.   *)
Approvable(kind) ==
  /\ Idling /\ run.status = "awaiting_approval"
  /\ run.approval.kind = kind /\ run.approval = store.offer

(* grant_approval and execute: the previewed content is still there, or an *)
(* edit_file gets a fresh request, while a patch of another content is a   *)
(* conflict.  A conflict and a failed write leave the run as it was, with  *)
(* a request that the log no longer holds.                                 *)
GrantWrite ==
  LET request == run.approval
      granted == [store EXCEPT !.offer = NoRequest]
      done == Started(granted, 1)
      left == Leaves(request.write, disk)
  IN  /\ Approvable("write")
      /\ ~ Exhausted(Budget, run.usage) /\ Rest.calls >= 2
      /\ \/ /\ disk # request.base /\ request.write \notin Patches
            /\ store' = Offered(store, "write", request.write, 0, disk)
            /\ job' = [Idle EXCEPT !.at = "refreshed", !.kind = "write"]
            /\ UNCHANGED <<disk, validated>>
         \/ /\ disk # request.base /\ request.write \in Patches
            /\ store' = granted
            /\ UNCHANGED <<disk, job, validated>>
         \/ /\ disk = request.base
            /\ store' = [done EXCEPT !.writes = @ + 1]
            /\ disk' = left
            /\ validated' = {}
            /\ job' = [Idle EXCEPT !.at = "record", !.kind = "write",
                                   !.changed = disk # left]
         \/ /\ disk = request.base
            /\ store' = done
            /\ UNCHANGED <<disk, job, validated>>
      /\ UNCHANGED <<run, saved, episode, bounds>>

WriteRefreshed ==
  /\ job.at = "refreshed"
  /\ Return([Charged(run, 0, 1, 0) EXCEPT !.approval = store.offer,
                                          !.status = "awaiting_approval"])
  /\ UNCHANGED <<store, disk, episode, validated, bounds>>

(* prepare_post_write_acceptance binds the criteria to the write, the diff *)
(* is inspected, and observe_agent_write stops a repair that changed       *)
(* nothing.                                                                *)
RecordWrite ==
  LET t == ObserveWrite(run.history, run.pending, job.changed)
      charged == [Charged(run, 0, 2, 0) EXCEPT !.wrote = TRUE]
  IN  /\ job.at = "record"
      /\ store' = [Started(store, 1) EXCEPT !.bound = TRUE,
                     !.criteria = CommandSet, !.passed = {}]
      /\ IF t.stop # "none" THEN Return(StoppedRepair(charged, t))
         ELSE /\ run' = IF run.pending > 0 THEN Applied(charged, t) ELSE charged
              /\ GoOn("request")
              /\ UNCHANGED saved
      /\ UNCHANGED <<disk, episode, validated, bounds>>

(* Variant: a new cycle goes on where the last one of the run ended.       *)
NewCycleResuming(attempt) ==
  Cycle(store.writes, run.cycle.next, run.cycle.passed, attempt)

(* Variant: the cycle of a repair does not know its attempt.               *)
NewCycleForgotten(attempt) == Cycle(store.writes, 1, <<>>, 0)

(* Variant: a cycle is already the next attempt's.                         *)
NewCycleAhead(attempt) == Cycle(store.writes, 1, <<>>, attempt + 1)

NewCycle(attempt) == Cycle(store.writes, 1, <<>>, attempt)

(* The cycle being built, and request_agent_validation for its next        *)
(* command, which may fail.                                                *)
Building == IF job.kind = "write" THEN NewCycle(run.pending) ELSE job.cycle

RequestValidation ==
  /\ job.at = "request"
  /\ \/ /\ Building.next <= Len(Commands)
        /\ store' = Offered(store, "validate", "none", Building.next, "none")
        /\ job' = [job EXCEPT !.at = "requested", !.cycle = Building]
     \/ /\ UNCHANGED store
        /\ job' = [job EXCEPT !.at = "unrequested", !.cycle = Building]
  /\ UNCHANGED <<run, saved, disk, episode, validated, bounds>>

Requested ==
  /\ job.at \in {"requested", "unrequested"}
  /\ LET asked == job.at = "requested"
     IN  Return([run EXCEPT
           !.approval = IF asked THEN store.offer ELSE NoRequest,
           !.cycle = job.cycle, !.pending = IF job.kind = "write" THEN 0 ELSE @,
           !.status = IF asked THEN "awaiting_approval" ELSE "review_pending"])
  /\ UNCHANGED <<store, disk, episode, validated, bounds>>

-----------------------------------------------------------------------------
(* The grant of a validation (_handle_runtime_validation_grant), and what  *)
(* follows it (_continue_task_after_validation).                           *)

(* _task_validation_cycle holds, and its next command is the one requested. *)
CycleFits ==
  /\ run.cycle # NoCycle
  /\ run.cycle.next <= Len(Commands)
  /\ run.approval.index = run.cycle.next

(* The commands of a cycle with a result, and whether each passed.         *)
Results(cycle) ==
  [c \in {Commands[i] : i \in DOMAIN cycle.passed} |->
     cycle.passed[CHOOSE i \in DOMAIN cycle.passed : Commands[i] = c]]

GrantValidation(failure) ==
  LET i == run.approval.index
      command == Commands[i]
      passed == failure = "none"
      cycle == Cycle(run.cycle.write, i + 1, Append(run.cycle.passed, passed),
                     run.cycle.attempt)
      charged == Charged(run, 0, 1, 1)
      t == ObserveValidation(run.history, cycle.attempt, MaxRepairs, failure)
      observed == [Applied(charged, t) EXCEPT !.cycle = cycle,
                                              !.approval = NoRequest]
  IN  /\ Approvable("validate") /\ CycleFits
      /\ ~ Exhausted(Budget, run.usage)
      /\ Rest.calls >= 1 /\ Rest.commands >= 1
      /\ store' = [Started([store EXCEPT !.offer = NoRequest], 1) EXCEPT
                     !.commands = @ + 1,
                     !.passed = IF passed THEN @ \union {command}
                                ELSE @ \ {command}]
      /\ validated' = IF passed THEN validated \union {command}
                      ELSE validated \ {command}
      /\ episode' = IF ~ passed THEN [episode EXCEPT !.failed = @ + 1]
                    ELSE IF i = Len(Commands) THEN NewEpisode ELSE episode
      /\ IF passed /\ i < Len(Commands)
         THEN /\ run' = charged
              /\ job' = [Idle EXCEPT !.at = "request", !.kind = "validate",
                                     !.cycle = cycle]
              /\ UNCHANGED saved
         ELSE IF t.stop # "none" THEN Return(StoppedRepair(observed, t))
         ELSE \E point \in {"loop", "unconfigured"} :
              /\ run' = [Charged(run, 0, 1, 1) EXCEPT !.history = t.history]
              /\ job' = [Idle EXCEPT !.at = IF CanDecide(charged.usage)
                                            THEN point ELSE "exhausted",
                                     !.kind = "validate", !.cycle = cycle,
                                     !.repair = t, !.before = store.started + 1]
              /\ UNCHANGED saved
      /\ UNCHANGED <<disk, bounds>>

(* No decision can be made: no LLM client, or no budget.                   *)
ValidationEnds ==
  LET r == [Applied(run, job.repair) EXCEPT !.cycle = job.cycle,
                                            !.approval = NoRequest]
      t == job.repair
      stop == StopRepair(t.history, NextAttempt(t, MaxRepairs),
                         "execution_budget_exhausted", t.trigger)
  IN  /\ job.at \in {"unconfigured", "exhausted"}
      /\ IF t.required /\ job.at = "exhausted"
         THEN Return(StoppedRepair(r, stop))
         ELSE Return([r EXCEPT !.status = "review_pending"])
      /\ UNCHANGED <<store, disk, episode, validated, bounds>>

RepairBlocks(t) == IF t.required THEN Blocked(t.history) ELSE {}

ValidatedLoops ==
  job.kind = "validate" /\ AgentLoop(Rest, RepairBlocks(job.repair))

(* The answer to a question (_handle_runtime_input_answer).                *)
Answer ==
  LET usage == Reconciled(run.usage, Counted)
  IN  /\ Idling /\ run.status = "awaiting_input"
      /\ run.question # 0 /\ run.question = store.question
      /\ CanDecide(usage)
      /\ store' = [store EXCEPT !.question = 0]
      /\ run' = [run EXCEPT !.usage = usage]
      /\ job' = [Idle EXCEPT !.at = "loop", !.kind = "answer",
                             !.cycle = run.cycle, !.repair = ActiveRepair(run),
                             !.before = store.calls]
      /\ UNCHANGED <<saved, disk, episode, validated, bounds>>

AnsweredLoops ==
  job.kind = "answer" /\ AgentLoop(Rest, RepairBlocks(job.repair))

(* The repair attempt of a proposed write, or the stop of the repair.      *)
ProposalOf(t, out) ==
  LET n == NextAttempt(t, MaxRepairs)
  IN  IF n = 0 \/ out.write = "none"
      THEN StopRepair(t.history, Larger(n, t.attempt),
                      "no_apply_ready_proposal", t.trigger)
      ELSE ObserveProposal(t.history, n, MaxRepairs, t.trigger, out.write)

(* The files git reports changed, the ones approved, and the criteria.     *)
Completion(r, cycle) ==
  EvaluateCompletion(
    (IF store.bound THEN {[kind |-> "change", ref |-> "none"],
                          [kind |-> "safety", ref |-> "none"]} ELSE {})
      \union {[kind |-> "validation", ref |-> c] : c \in store.criteria},
    IF disk = Original THEN {} ELSE {"file"},
    IF r.wrote THEN {"file"} ELSE {}, Results(cycle))

(* Variant: the agent's finish is enough, whatever the evidence.           *)
SettledUnevaluated(r, cycle, out) ==
  [r EXCEPT !.status =
     IF r.question # 0 THEN "awaiting_input"
     ELSE IF r.approval # NoRequest THEN "awaiting_approval"
     ELSE IF out.what = "finished" THEN "completed"
     ELSE "review_pending"]

(* What a continuation leaves the run with (_settle_input_continuation and *)
(* the end of _continue_task_after_validation).                            *)
Settled(r, cycle, out) ==
  [r EXCEPT !.status =
     IF r.question # 0 THEN "awaiting_input"
     ELSE IF r.approval # NoRequest THEN "awaiting_approval"
     ELSE IF out.what = "finished" /\ Completion(r, cycle) = "passed"
          THEN "completed"
     ELSE "review_pending"]

Continued(r, t, cycle, out) ==
  LET proposing == /\ t.required
                   /\ r.approval.kind = "write" \/ out.what = "repeated"
      proposal == ProposalOf(t, out)
      exhausted == ~ CanDecide(r.usage)
      ended == StopRepair(t.history,
                          Larger(NextAttempt(t, MaxRepairs), t.attempt),
                          IF exhausted THEN "execution_budget_exhausted"
                          ELSE "no_apply_ready_proposal", t.trigger)
  IN  IF proposing /\ proposal.stop # "none" THEN StoppedRepair(r, proposal)
      ELSE IF proposing
           THEN Settled([Applied(r, proposal) EXCEPT
                           !.pending = proposal.attempt], cycle, out)
      ELSE IF t.required /\ r.question = 0 THEN StoppedRepair(r, ended)
      ELSE Settled(r, cycle, out)

(* The tool calls of a continuation after a validation are counted from    *)
(* the number of actions started before it, not from their cost.           *)
ContinuationSettles ==
  LET out == job.out
      base == IF job.kind = "validate" THEN Applied(run, job.repair) ELSE run
      kept == [base EXCEPT !.cycle = job.cycle, !.approval = NoRequest,
                           !.question = 0]
      charged == [Charged(kept, out.steps, store.calls - job.before, 0)
                    EXCEPT !.approval = store.offer,
                           !.question = store.question]
      settled == Continued(charged, job.repair, job.cycle, out)
  IN  /\ job.at = "settle" /\ job.kind \in {"validate", "answer"}
      /\ IF out.what = "raised"
         THEN /\ Return([kept EXCEPT !.status =
                   IF job.kind = "validate" THEN "review_pending" ELSE "failed"])
              /\ UNCHANGED episode
         ELSE /\ Return(settled)
              /\ episode' = IF job.repair.required /\ settled.approval # NoRequest
                            THEN [episode EXCEPT !.tried = Append(@, out.write)]
                            ELSE episode
      /\ UNCHANGED <<store, disk, validated, bounds>>

-----------------------------------------------------------------------------
(* Rejections (_handle_runtime_approval_reject, _validation_reject).       *)

Reject ==
  LET write == run.approval.kind = "write"
      n == IF write THEN run.pending ELSE run.cycle.attempt
      t == StopRepair(run.history, n, "approval_rejected",
                      LatestFailure(run.history))
      rejected == [run EXCEPT !.approval = NoRequest, !.status = "cancelled",
                              !.pending = IF write THEN 0 ELSE @]
  IN  /\ \/ Approvable("write")
         \/ Approvable("validate") /\ CycleFits
      /\ store' = [store EXCEPT !.offer = NoRequest]
      /\ Return(IF write /\ run.pending = 0 THEN rejected
                ELSE Applied(rejected, t))
      /\ UNCHANGED <<disk, episode, validated, bounds>>

-----------------------------------------------------------------------------
(* Cancel, pause and resume, the restart of the server, and other edits.   *)

Stop(stopped) ==
  /\ stops < MaxStops
  /\ run' = stopped /\ saved' = stopped
  /\ stops' = stops + 1
  /\ UNCHANGED <<store, disk, job, episode, validated, faults>>

Cancel == CanCancel(run) /\ Stop(CancelRequested(run))
Pause == CanPause(run) /\ Stop(PauseRequested(run))

(* Variant: what the log counts is not looked at.                          *)
ResumeUncounted ==
  LET r == run
  IN  /\ Idling /\ ResumeAllowed(run)
      /\ IF store.question # 0
         THEN Return([r EXCEPT !.question = store.question,
                               !.status = "awaiting_input"])
         ELSE /\ run' = Prepared(r) /\ saved' = Prepared(r)
              /\ job' = IF Prepared(r).status = "queued"
                        THEN [Idle EXCEPT !.at = "loop", !.kind = "resumed",
                                          !.before = store.calls]
                        ELSE Idle
      /\ episode' = NewEpisode
      /\ UNCHANGED <<store, disk, validated, bounds>>

(* An open question is restored, and neither flag nor checkpoint cleared.  *)
Resume ==
  LET r == [run EXCEPT !.usage = Reconciled(@, Counted)]
  IN  /\ Idling /\ ResumeAllowed(run)
      /\ IF store.question # 0
         THEN Return([r EXCEPT !.question = store.question,
                               !.status = "awaiting_input"])
         ELSE /\ run' = Prepared(r) /\ saved' = Prepared(r)
              /\ job' = IF Prepared(r).status = "queued"
                        THEN [Idle EXCEPT !.at = "start", !.kind = "resumed"]
                        ELSE Idle
      /\ UNCHANGED <<store, disk, episode, validated, bounds>>

(* A repair required by the handler it interrupts is in no saved result.   *)
Crash ==
  /\ faults < MaxFaults
  /\ faults' = faults + 1
  /\ run' = Restored(saved) /\ saved' = Restored(saved)
  /\ job' = Idle
  /\ episode' = IF job.repair.required /\ ~ saved.repair.required
                THEN NewEpisode ELSE episode
  /\ UNCHANGED <<store, disk, validated, stops>>

OutsideEdit ==
  /\ faults < MaxFaults
  /\ disk' = Outside
  /\ faults' = faults + 1
  /\ UNCHANGED <<run, saved, store, job, episode, validated, stops>>

Next ==
  \/ WorkerStarts \/ WorkerLoops \/ WorkerSettles
  \/ GrantWrite \/ WriteRefreshed \/ RecordWrite
  \/ RequestValidation \/ Requested
  \/ \E failure \in Failures \union {"none"} : GrantValidation(failure)
  \/ ValidationEnds \/ ValidatedLoops
  \/ Answer \/ AnsweredLoops \/ ContinuationSettles
  \/ Reject \/ Cancel \/ Pause \/ Resume \/ Crash \/ OutsideEdit

Spec == Init /\ [][Next]_vars

-----------------------------------------------------------------------------
(* Properties                                                              *)

Requests == [id : Nat, kind : {"none", "write", "validate"},
             write : Proposals \union {"none"}, index : 0..Len(Commands),
             base : Contents \union {"none"}]
Cycles == [write : Nat, next : 1..(Len(Commands) + 1), passed : Seq(BOOLEAN),
           attempt : 0..MaxRepairs]
Usages == [steps : Nat, calls : Nat, commands : Nat]

(* What each variable holds; in particular a repair attempt never passes   *)
(* the limit, nor the position of a cycle its commands.                    *)
TypeOK ==
  /\ run.status \in TaskRunStatuses /\ run.checkpoint \in Checkpoints
  /\ run.approval \in Requests /\ run.cycle \in Cycles
  /\ run.pending \in 0..MaxRepairs /\ run.usage \in Usages
  /\ DOMAIN run.history \subseteq 0..MaxRepairs
  /\ run.repair.attempt \in 0..MaxRepairs
  /\ store.offer \in Requests /\ store.criteria \subseteq CommandSet
  /\ disk \in Contents /\ job.cycle \in Cycles
  /\ validated \subseteq CommandSet

(* A run whose agent finishes after a validation or an answer completes    *)
(* only when each command that is still a validation criterion of the      *)
(* working state has passed since the agent's last write, whatever was     *)
(* cancelled or edited meanwhile and over one restart (evaluate_completion *)
(* over the results of the cycle).  Two restarts, in the handler of a      *)
(* write and in the worker that would rebuild the result, leave the cycle  *)
(* and the evidence of the write before: README.md, section 6.             *)
CompletesOnEvidence ==
  [][ job.at = "settle" /\ job.kind \in {"validate", "answer"} /\ faults <= 1
      /\ run'.status = "completed" /\ run.status # "completed"
      => store.criteria \subseteq validated ]_vars

(* Between two passes of the last command, or two resumes of the run, at   *)
(* most one validation fails for the write and one for each repair the     *)
(* limit allows (observe_agent_validation, repair_attempt).  The count     *)
(* starts again when a restart loses a repair: a handler interrupted after *)
(* a failed validation has saved no repair_required, and an answer to the  *)
(* question its agent had asked goes on without one.                       *)
FailuresWithinLimit == episode.failed <= MaxRepairs + 1

(* Within such an episode no write is offered twice as a repair, neither   *)
(* the same hunks nor the same whole content: the history remembers the    *)
(* fingerprint of every earlier attempt (blocked_agent_repair_fingerprints, *)
(* repair_proposal_fingerprints).  A fingerprint is taken of a write's     *)
(* arguments, so a content an earlier repair left may be offered again as  *)
(* another write: a patch that leads back to it: README.md, section 6.     *)
RepairsAreNew ==
  \A i, j \in DOMAIN episode.tried :
    i # j => episode.tried[i] # episode.tried[j]

(* When a user is asked to approve a validation command, all earlier       *)
(* commands have passed since the agent's last write: a cycle starts at    *)
(* the first command after every write, and stops at the first failure.    *)
(* An edit by somebody else between two commands is not noticed: the       *)
(* earlier command passed on another content than the later one will meet. *)
EarlierCommandsPassed ==
  run.status = "awaiting_approval" /\ run.approval.kind = "validate" /\ CycleFits
    => \A i \in 1..(run.approval.index - 1) : Commands[i] \in validated

(* What the event log counts stays within the budget, over pauses,         *)
(* cancellations, restarts and resumed workers, although a restart loses   *)
(* the usage of the handler it interrupts (_reconcile_runtime_execution_   *)
(* usage).                                                                 *)
BudgetHolds ==
  /\ store.steps <= Budget.steps
  /\ store.calls <= Budget.calls
  /\ store.commands <= Budget.commands

(* docs/architecture.md, Completion: a completed run has every configured  *)
(* command passed since its last write.                                    *)
CompletedIsValidated ==
  run.status = "completed" /\ store.writes > 0 => CommandSet \subseteq validated
=============================================================================
