------------------------------ MODULE AgentLoop ------------------------------
(***************************************************************************)
(* The agent of one run (agent_loop.py with the calls that continue it:    *)
(* agent_input.py, agent_write.py, agent_validation.py and the read-only   *)
(* half of runtime/loop.py).  A call creates an AgentRuntime over the run's *)
(* event log, executes actions one by one and records the working state    *)
(* after each.  Every step below is one access to the store or the         *)
(* worktree, and the process may die between any two of them.  The record  *)
(* of the run (web_server.py) says what the user is offered: it is written *)
(* when a call returns, so after a crash it may lag behind the log.        *)
(*                                                                         *)
(* One call runs at a time: calls that overlap, expired grants and the     *)
(* outcome of an ambiguous write are AgentRuntime's, and so are denied     *)
(* actions, but for a validation that the loop finds open.  What the model *)
(* (LLM) answers is a free choice among the decisions its schema allows; a *)
(* failed call or an update that the evidence does not support ends the    *)
(* loop.  The time budget may run out before any decision.                 *)
(***************************************************************************)
EXTENDS RuntimeRecovery, FiniteSets

CONSTANTS
  Contents, Original,     \* contents of a file; the one of a new worktree
  Edits,                  \* the <<path, from, to>> the model may propose
  Commands,               \* the configured validation commands, in order
  Kinds,                  \* the decision kinds the model uses
  Intents,                \* the kinds of state update the model uses
  BatchSizes,             \* sizes of its parallel reads
  Blocked,                \* fingerprints of repair proposals tried before
  Budget,                 \* max_tool_calls of one call of the loop
  MaxSteps,               \* max_steps of one call of the loop
  Answers,                \* what a user may answer
  MaxDecisions, MaxCalls, MaxCrashes, MaxOutsideEdits     \* bounds

LoopKinds == {"read_file", "parallel_read", "propose_patch",
              "inspect_proposed_diff", "apply_patch", "edit_file",
              "ask_user", "finish"}
LoopIntents == {"conclude", "progress", "reopen", "lower", "add", "validated"}

ASSUME AgentLoopAssumption ==
  /\ Original \in Contents /\ NoContent \notin Contents
  /\ Edits \subseteq Paths \X Contents \X Contents
  /\ \A e \in Edits : e[2] # e[3]
  /\ Kinds \subseteq LoopKinds /\ Intents \subseteq LoopIntents
  /\ BatchSizes \subseteq 2..4          \* normalize_parallel_read_members
  /\ Commands \in Seq(Range(Commands)) 
  /\ Budget \in Nat \ {0} /\ MaxSteps \in Nat \ {0}
  /\ MaxDecisions \in Nat /\ MaxCalls \in Nat /\ MaxCrashes \in Nat
  /\ MaxOutsideEdits \in Nat

(* "No action" is not a decision of the loop.                              *)
ASSUME NoActionAssumption ==
  NoAction \notin [id : {"explore"} \X Nat, kind : LoopKinds,
                   path : Paths \union {NoContent},
                   from : Contents \union {NoContent},
                   to : Contents \union {NoContent},
                   size : Nat, ref : {NoRef}]

(* "No result" is not what a tool reports.                                 *)
ASSUME NoObsAssumption ==
  NoObs \notin [status : {"completed", "failed", "conflict", "applied",
                          "verification_failed"},
                report : {"none", "removed", "proposed", "stale", "files",
                          "written"},
                edits : [Paths -> [base : Contents \union {NoContent},
                                   current : Contents \union {NoContent},
                                   status : {"none", "proposed", "inspected",
                                             "conflict"}]],
                changed : BOOLEAN]

VARIABLES
  log,           \* agent_runtime_events of the run
  reservations,  \* agent_runtime_actions: [action, obs] by idempotency key
  disk,          \* the managed worktree
  overlay,       \* virtual_patches of the runtime object of this call
  run,           \* the run record: the offered checkpoint or question, and
                 \* the validation cycle (its write, the next command)
  pc, job,       \* where the running call is, and its local variables
  calls, crashes, outsideEdits

stored == <<log, reservations, disk, run>>
bounds == <<calls, crashes, outsideEdits>>
vars == <<log, reservations, disk, overlay, run, pc, job, bounds>>

(* action_id and idempotency_key of an action are built from the same      *)
(* number, so one id stands for both.                                      *)
Action(id, kind, path, from, to, size, ref) ==
  [id |-> id, kind |-> kind, path |-> path, from |-> from, to |-> to,
   size |-> size, ref |-> ref]
Read(id, kind, size) == Action(id, kind, NoContent, NoContent, NoContent,
                               size, NoRef)
Validation(n, i) == Action(<<"validate", n, i>>, "validate", NoContent,
                           NoContent, NoContent, 1, Commands[i])

(* Local variables of a call: its kind, the loop's step and step limit,    *)
(* the tool calls of the log when it began, the action in execution with   *)
(* its update, the observation, the point that execute returns to, whether *)
(* recovery retries the action, the working state, the stop reason, and    *)
(* the validation cycle that the run record will get.                      *)
NoCycle == [write |-> 0, next |-> 0]
Job(call) ==
  [call |-> call, step |-> 0, limit |-> 0, initial |-> 0,
   action |-> NoAction, update |-> NoUpdate, obs |-> NoObs,
   then |-> "idle", retry |-> FALSE, state |-> NoState, reason |-> "none",
   cycle |-> NoCycle]
NoJob == Job("none")

Least(a, b) == IF a <= b THEN a ELSE b

Init ==
  /\ log = <<>>
  /\ reservations = {}
  /\ disk = [p \in Paths |-> Original]
  /\ overlay = NoEdits
  /\ run = [checkpoint |-> 0, question |-> NoAction, cycle |-> NoCycle]
  /\ pc = "idle"
  /\ job = NoJob
  /\ calls = 0 /\ crashes = 0 /\ outsideEdits = 0

-----------------------------------------------------------------------------
(* What the log leaves open, and what the run record then offers.          *)

(* runtime.pending_approval: 0, or the checkpoint of the latest request.   *)
Events(types, l) == {i \in DOMAIN l : l[i].type \in types}
PendingApproval(l) ==
  LET asked == Events({"approval_required"}, l)
      checkpoint == l[Newest(asked)].checkpoint
      settled == \E i \in Events({"approval_granted",
                                  "approval_rejected"}, l) :
                   /\ i > Newest(asked) /\ l[i].checkpoint = checkpoint
  IN  IF asked = {} \/ settled THEN 0 ELSE checkpoint

(* runtime.pending_input: the latest question, while it has no answer.     *)
PendingInput(l) ==
  LET asked == Events({"input_required"}, l)
      a == l[Newest(asked)].action
  IN  IF asked = {} \/ Has(l, a.id, {"input_received"}) THEN NoAction
      ELSE a

(* A call returns: the record gets its result.  A question comes first.    *)
Offer(l) ==
  [checkpoint |-> IF PendingInput(l) = NoAction THEN PendingApproval(l)
                  ELSE 0,
   question |-> PendingInput(l), cycle |-> job.cycle]
Reset == pc' = "idle" /\ job' = NoJob /\ overlay' = NoEdits
Return(l) == Reset /\ run' = Offer(l)
Fail == Reset /\ run' = [checkpoint |-> 0, question |-> NoAction,
                       cycle |-> job.cycle]
Offering == run.checkpoint # 0 \/ run.question # NoAction

-----------------------------------------------------------------------------
(* The approval of a side effect.                                          *)

Requests(types) == Events(types, log)
PendingApprovalAction == log[Newest(Requests({"approval_required"}))].action

(* The payload of a request is its action and the content it was previewed *)
(* on, which is the file of the log's request.                             *)
Baseline(a) == IF a.kind \in WriteKinds THEN disk[a.path] ELSE NoContent

Rejected(checkpoint) ==
  \E i \in Requests({"approval_rejected"}) : log[i].checkpoint = checkpoint
Granted(checkpoint) ==
  \E i \in Requests({"approval_granted"}) : log[i].checkpoint = checkpoint

LastRequest(a) == log[At(log, a.id, {"approval_required"})]

(* _valid_approval_grant, for a grant that has not expired.                *)
ValidGrant(a) ==
  /\ Has(log, a.id, {"approval_granted"})
  /\ log[At(log, a.id, {"approval_granted"})].checkpoint =
       LastRequest(a).checkpoint
  /\ LastRequest(a).baseline = Baseline(a)
  /\ ~Rejected(LastRequest(a).checkpoint)

(* _build_approval_request keeps the checkpoint of an open, equal request. *)
Checkpoint(a) ==
  IF /\ Has(log, a.id, {"approval_required"})
     /\ LastRequest(a).baseline = Baseline(a)
     /\ ~Rejected(LastRequest(a).checkpoint)
     /\ ~Granted(LastRequest(a).checkpoint)
  THEN LastRequest(a).checkpoint ELSE Len(log) + 1

-----------------------------------------------------------------------------
(* AgentRuntime.execute.  It starts at "execute" with job.action and ends  *)
(* at job.then with job.obs.                                               *)

Observe(obs) ==
  /\ pc' = job.then
  /\ job' = [job EXCEPT !.obs = obs, !.retry = FALSE]

Reserved(a) == {r \in reservations : r.action.id = a.id}
StoredObs(a) == (CHOOSE r \in Reserved(a) : TRUE).obs

Executing(point) == pc = point /\ job.action # NoAction

(* A read is authorized by the policy alone.                               *)
AuthorizeRead ==
  LET a == job.action
  IN  /\ Executing("execute") /\ a.kind \notin SideEffects
      /\ log' = Append(log, ActionEvent("action_authorized", a))
      /\ pc' = IF a.kind = "ask_user" THEN "ask" ELSE "reserve"
      /\ UNCHANGED <<reservations, disk, overlay, run, job, bounds>>

Ask ==
  /\ Executing("ask")
  /\ log' = Append(log, Result("input_required", job.action,
                               Plain("input_required")))
  /\ Observe(Plain("input_required"))
  /\ UNCHANGED <<reservations, disk, overlay, run, bounds>>

(* RuntimePolicy.evaluate: the policy of the loop allows reads and writes, *)
(* the one of a validation's own call its command.                         *)
Denied(a) == a.kind = "validate" /\ job.then = "resumed"

(* A side effect that was performed is replayed; a patch for another       *)
(* content is a conflict; without a valid grant the action waits.          *)
AuthorizeSideEffect ==
  LET a == job.action
      done == \E r \in Reserved(a) : r.obs # NoObs
  IN  /\ Executing("execute") /\ a.kind \in SideEffects
      /\ CASE Denied(a) ->
                /\ log' = Append(log, Result("action_denied", a,
                                             Plain("policy_denied")))
                /\ Observe(Plain("policy_denied"))
           [] ~Denied(a) /\ done ->
                /\ log' = Append(log, Result("action_replayed", a,
                                             StoredObs(a)))
                /\ Observe(StoredObs(a))
           [] /\ ~Denied(a) /\ ~done
              /\ a.kind = "apply_patch" /\ disk[a.path] # a.from ->
                /\ log' = Append(log, Result("action_conflict", a,
                                             Plain("conflict")))
                /\ Observe(Plain("conflict"))
           [] OTHER ->
                IF ValidGrant(a)
                THEN /\ log' = Append(log, ActionEvent("action_authorized", a))
                     /\ pc' = "reserve" /\ UNCHANGED job
                ELSE /\ log' = Append(log,
                          [Result("approval_required", a,
                                  Plain("approval_required"))
                             EXCEPT !.checkpoint = Checkpoint(a),
                                    !.baseline = Baseline(a)])
                     /\ Observe(Plain("approval_required"))
      /\ UNCHANGED <<reservations, disk, overlay, run, bounds>>

(* store.reserve: a reservation of an earlier process either holds the     *)
(* result or blocks the action.                                            *)
Reserve ==
  LET a == job.action
  IN  /\ Executing("reserve")
      /\ IF Reserved(a) = {}
         THEN /\ reservations' = reservations \union
                                   {[action |-> a, obs |-> NoObs]}
              /\ pc' = "start"
              /\ UNCHANGED <<log, job>>
         ELSE LET obs == IF StoredObs(a) # NoObs THEN StoredObs(a)
                         ELSE Plain("recovery_required")
                  type == IF StoredObs(a) # NoObs THEN "action_replayed"
                          ELSE "action_recovery_required"
              IN  /\ log' = Append(log, Result(type, a, obs))
                  /\ Observe(obs)
                  /\ UNCHANGED reservations
      /\ UNCHANGED <<disk, overlay, run, bounds>>

Start ==
  /\ Executing("start")
  /\ log' = Append(log, ActionEvent(IF job.retry THEN "action_recovery_started"
                                    ELSE "action_started", job.action))
  /\ pc' = "tool"
  /\ UNCHANGED <<reservations, disk, overlay, run, job, bounds>>

(* execute_runtime_tool: what each tool may report and change.             *)
ToolRead ==
  /\ job.action.kind \in {"read_file", "parallel_read", "inspect_diff"}
  /\ \E status \in {"completed", "failed"} :
       job' = [job EXCEPT !.obs = Plain(status)]
  /\ UNCHANGED <<disk, overlay>>
ToolFinish ==
  /\ job.action.kind = "finish"
  /\ job' = [job EXCEPT !.obs = Plain("completed")]
  /\ UNCHANGED <<disk, overlay>>
ToolPropose ==
  /\ job.action.kind = "propose_patch"
  /\ LET result == Propose(overlay, disk, job.action)
     IN  overlay' = result[1] /\ job' = [job EXCEPT !.obs = result[2]]
  /\ UNCHANGED disk
ToolInspect ==
  /\ job.action.kind = "inspect_proposed_diff"
  /\ LET result == Inspect(overlay, disk)
     IN  overlay' = result[1] /\ job' = [job EXCEPT !.obs = result[2]]
  /\ UNCHANGED disk
ToolWrite ==
  LET a == job.action
      fits == a.kind = "edit_file" \/ disk[a.path] = a.from
      status == IF a.kind = "edit_file" THEN "completed" ELSE "applied"
  IN  /\ a.kind \in WriteKinds
      /\ IF fits
         THEN /\ disk' = [disk EXCEPT ![a.path] = a.to]
              /\ job' = [job EXCEPT !.obs = Obs(status, "written", NoEdits,
                                                disk[a.path] # a.to)]
         ELSE /\ job' = [job EXCEPT !.obs = Plain("conflict")]
              /\ UNCHANGED disk
      /\ UNCHANGED overlay
ToolValidate ==
  /\ job.action.kind = "validate"
  /\ \E status \in {"completed", "verification_failed"} :
       job' = [job EXCEPT !.obs = Plain(status)]
  /\ UNCHANGED <<disk, overlay>>

Tool ==
  /\ Executing("tool")
  /\ \/ ToolRead \/ ToolFinish \/ ToolPropose \/ ToolInspect
     \/ ToolWrite \/ ToolValidate
  /\ pc' = "complete"
  /\ UNCHANGED <<log, reservations, run, bounds>>

(* Variant: the result is added beside the open reservation. *)
CompleteBeside ==
  /\ Executing("complete")
  /\ reservations' = reservations \union
                       {[action |-> job.action, obs |-> job.obs]}
  /\ pc' = "report"
  /\ UNCHANGED <<log, disk, overlay, run, job, bounds>>

Complete ==
  /\ Executing("complete")
  /\ reservations' = (reservations \ Reserved(job.action)) \union
                       {[action |-> job.action, obs |-> job.obs]}
  /\ pc' = "report"
  /\ UNCHANGED <<log, disk, overlay, run, job, bounds>>

ReportType ==
  CASE job.retry -> "action_recovered"
    [] ~job.retry /\ job.obs.status \in SuccessStatuses -> "action_completed"
    [] ~job.retry /\ job.obs.status = "conflict" -> "action_conflict"
    [] OTHER -> "action_failed"

Report ==
  /\ Executing("report")
  /\ log' = Append(log, Result(ReportType, job.action, job.obs))
  /\ Observe(job.obs)
  /\ UNCHANGED <<reservations, disk, overlay, run, bounds>>

Execute == \/ AuthorizeRead \/ Ask \/ AuthorizeSideEffect \/ Reserve
           \/ Start \/ Tool \/ Complete \/ Report

-----------------------------------------------------------------------------
(* run_agent_loop.                                                         *)

MayCall == pc = "idle" /\ calls < MaxCalls

(* A new run records its first state; a later call resumes the log.        *)
StartLoop ==
  /\ MayCall /\ log = <<>>
  /\ log' = <<Snapshot(CreateState)>>
  /\ pc' = "step"
  /\ job' = [Job("loop") EXCEPT !.step = 1, !.limit = Least(MaxSteps, Budget),
                                !.state = CreateState]
  /\ calls' = calls + 1
  /\ UNCHANGED <<reservations, disk, overlay, run, crashes, outsideEdits>>

(* A worker resumes a run that offers nothing; an open question is offered *)
(* again without one.                                                      *)
Resume(l, cycle) ==
  /\ overlay' = RestoredOverlay(l, disk)
  /\ pc' = "recover"
  /\ job' = [Job("resume") EXCEPT !.initial = ToolCalls(l), !.cycle = cycle]

ResumeLoop ==
  /\ MayCall /\ log # <<>> /\ ~Offering
  /\ NextStep(log) # "await_input"
  /\ Resume(log, run.cycle)
  /\ calls' = calls + 1
  /\ UNCHANGED <<log, reservations, disk, run, crashes, outsideEdits>>

RestoreQuestion ==
  /\ pc = "idle" /\ log # <<>> /\ ~Offering
  /\ NextStep(log) = "await_input" /\ PendingInput(log) # NoAction
  /\ run' = [run EXCEPT !.question = PendingInput(log)]
  /\ UNCHANGED <<log, reservations, disk, overlay, pc, job, bounds>>

(* The user cancels a run that waits; it may be resumed.                   *)
Cancel ==
  /\ pc = "idle" /\ Offering
  /\ run' = [run EXCEPT !.checkpoint = 0, !.question = NoAction]
  /\ UNCHANGED <<log, reservations, disk, overlay, pc, job, bounds>>

(* prepare_recovery: an interrupted action whose reservation holds the     *)
(* result is settled by it ...                                             *)
Settled == /\ PendingClass(log) \in {"ambiguous_side_effect",
                                     "interrupted_read_only"}
           /\ \E r \in Reserved(ActionOf(log, Pending(log))) : r.obs # NoObs

Reconcile ==
  /\ pc = "recover" /\ Settled
  /\ LET a == ActionOf(log, Pending(log))
     IN  log' = Append(log, Result("action_recovered", a, StoredObs(a)))
  /\ UNCHANGED <<reservations, disk, overlay, run, pc, job, bounds>>

(* ... and the rebuilt state is recorded if the last snapshot misses any   *)
(* event.                                                                  *)
PersistRebuilt ==
  /\ log' = IF Unseen(log) = {} THEN log
            ELSE Append(log, Snapshot(Rebuilt(log)))
  /\ job' = [job EXCEPT !.state = Rebuilt(log)]

Recover ==
  /\ pc = "recover" /\ ~Settled
  /\ PersistRebuilt
  /\ pc' = "resume"
  /\ UNCHANGED <<reservations, disk, overlay, run, bounds>>

(* resume_recoverable_action: an action decided but not started is         *)
(* executed, an interrupted read is retried.                               *)
ResumePending ==
  /\ pc = "resume"
  /\ LET next == NextStep(log)
         a == ActionOf(log, Pending(log))
     IN  CASE next = "execute_pending" ->
                /\ pc' = "execute"
                /\ job' = [job EXCEPT !.action = a, !.then = "resumed"]
           [] next = "retry_read_only" ->
                /\ pc' = "start"
                /\ job' = [job EXCEPT !.action = a, !.then = "resumed",
                                      !.retry = TRUE]
           [] OTHER -> pc' = "wait" /\ UNCHANGED job
  /\ UNCHANGED <<log, reservations, disk, overlay, run, bounds>>

Resumed ==
  /\ pc = "resumed"
  /\ IF job.obs.status \in StoppingStatuses
     THEN /\ log' = IF Unseen(log) = {} THEN log
                    ELSE Append(log, Snapshot(Rebuilt(log)))
          /\ Return(log')
     ELSE PersistRebuilt /\ pc' = "wait" /\ UNCHANGED <<overlay, run>>
  /\ UNCHANGED <<reservations, disk, bounds>>

(* Variant: only a pending approval or question makes the call wait. *)
EnterLoopUnlessAsked ==
  /\ pc = "wait"
  /\ IF \/ NextStep(log) \in {"await_approval", "await_input", "stopped"}
        \/ PendingApproval(log) # 0
     THEN Return(log)
     ELSE /\ pc' = "step"
          /\ job' = [job EXCEPT !.step = 1, !.action = NoAction,
                               !.limit = Least(MaxSteps, Budget)]
          /\ UNCHANGED <<overlay, run>>
  /\ UNCHANGED <<log, reservations, disk, bounds>>

(* _recovery_wait_state: the call returns if somebody else has to act      *)
(* first, and otherwise charges the recovered calls to its step limit.     *)
EnterLoop ==
  /\ pc = "wait"
  /\ IF \/ NextStep(log) \in {"await_approval", "await_input",
                              "confirm_side_effect", "stopped"}
        \/ PendingApproval(log) # 0
     THEN Return(log)
     ELSE LET spent == ToolCalls(log) - job.initial
              left  == IF Budget > spent THEN Budget - spent ELSE 0
          IN  /\ pc' = "step"
              /\ job' = [job EXCEPT !.step = 1, !.action = NoAction,
                           !.limit = Least(Least(MaxSteps, Budget), left)]
              /\ UNCHANGED <<overlay, run>>
  /\ UNCHANGED <<log, reservations, disk, bounds>>

-----------------------------------------------------------------------------
(* The decision of the model.                                              *)

(* Variant: a parallel read counts as one call. *)
RemainingActions ==
  LET used == Cardinality(Requests(StartTypes)) - job.initial
  IN  IF Budget > used THEN Budget - used ELSE 0

RemainingCalls ==
  LET used == ToolCalls(log) - job.initial
  IN  IF Budget > used THEN Budget - used ELSE 0

(* Variant: the number of the step in this call. *)
LoopIdOfCall == <<"explore", job.step>>

LoopId == <<"explore", job.state.iteration + 1>>

DecidedActions ==
  LET id == LoopId
      edits == {Action(id, k, e[1], e[2], e[3], 1, NoRef) :
                  k \in Kinds \intersect (WriteKinds \union {"propose_patch"}),
                  e \in Edits}
  IN  {Read(id, k, 1) : k \in Kinds \intersect
         {"read_file", "inspect_proposed_diff", "finish"}}
        \union {Read(id, "ask_user", 1) : k \in
                 {x \in Kinds : x = "ask_user" /\ job.step < job.limit}}
        \union {Read(id, "parallel_read", n) : n \in
                 {m \in BatchSizes : /\ "parallel_read" \in Kinds
                                     /\ m <= Least(4, RemainingCalls)}}
        \union edits

(* The updates the model may send: it cites any observation it was shown,  *)
(* concludes, adds a criterion, tries to make one optional, or claims a    *)
(* validation.                                                             *)
Offered ==
  LET cited == {o.id : o \in Range(job.state.recent)}
      done(x) == {PlanItem(<<"investigate">>, "completed", {x})}
      claim(id, kind, required, ids) ==
        {[id |-> id, kind |-> kind, required |-> required, evidence |-> ids]}
      update(plan, criteria) == [plan |-> plan, criteria |-> criteria]
      all == [
        conclude |-> {update(done(x), claim(<<"analysis">>, "analysis", TRUE,
                                            {x})) : x \in cited},
        progress |-> {update(done(x), {}) : x \in cited},
        reopen   |-> {update({PlanItem(<<"investigate">>, "pending", {})},
                             {})},
        lower    |-> {update({}, claim(<<"analysis">>, "analysis", FALSE,
                                       {}))},
        add      |-> {update({}, claim(<<"extra">>, "analysis", TRUE, {}))},
        validated |-> {update({}, claim(<<"validation", 1>>, "validation",
                                        TRUE, {x})) : x \in cited}]
  IN  {NoUpdate} \union UNION {all[i] : i \in Intents}

Decide ==
  /\ pc = "step" /\ job.step <= job.limit /\ RemainingCalls > 0
  /\ Cardinality(Requests({"decision_recorded"})) < MaxDecisions
  /\ \E a \in DecidedActions, u \in Offered :
       /\ UpdateFits(job.state, u)
       /\ log' = Append(log, [ActionEvent("decision_recorded", a)
                                EXCEPT !.update = u])
       /\ job' = [job EXCEPT !.action = a, !.update = u]
  /\ pc' = "gate"
  /\ UNCHANGED <<reservations, disk, overlay, run, bounds>>

(* The model fails, or its update cites what is not evidence.              *)
DecisionFails ==
  /\ pc = "step" /\ job.step <= job.limit /\ RemainingCalls > 0
  /\ log' = IF job.state.stop = "none"
            THEN Append(log, Snapshot(Stop(job.state, "failed"))) ELSE log
  /\ Fail
  /\ UNCHANGED <<reservations, disk, bounds>>

(* The limit of steps, calls or time.                                      *)
LimitReached ==
  /\ pc = "step"
  /\ pc' = "end"
  /\ job' = [job EXCEPT !.reason = "step_limit"]
  /\ UNCHANGED <<stored, overlay, log, bounds>>

(* Variant: only the bytes are compared. *)
WriteConflictOfBytes(a) ==
  LET edit == job.state.edits[a.path]
  IN  \/ edit = NoEdit \/ disk[a.path] # edit.base
      \/ a.kind = "apply_patch" /\ a.from # disk[a.path]
      \/ a.to # edit.current

(* _managed_write_conflict.                                                *)
WriteConflict(a) ==
  LET edit == job.state.edits[a.path]
  IN  \/ edit.status # "inspected"
      \/ disk[a.path] # edit.base
      \/ a.kind = "apply_patch" /\ a.from # disk[a.path]
      \/ a.to # edit.current

(* Variant: the gate looks at the state before the decision's update. *)
FinishBlockedBefore(a) ==
  a.kind = "finish" /\ ~CompletionReady(job.state)

FinishBlocked(a) ==
  a.kind = "finish" /\ ~CompletionReady(ApplyUpdate(job.state, job.update))

(* agent_write_proposal_fingerprint: a patch is its path and hunks, a full *)
(* edit its path and content.  RepeatedRepair(a): it was tried before.     *)
Fingerprint(a) == IF a.kind = "apply_patch" THEN <<a.path, a.from, a.to>>
                  ELSE <<a.path, a.to>>
RepeatedRepair(a) == a.kind \in WriteKinds /\ Fingerprint(a) \in Blocked

(* The controller's gates, before the runtime sees the action.             *)
Gate ==
  LET a == job.action
      blocked == FinishBlocked(a)
      refused == /\ a.kind \in WriteKinds
                 /\ WriteConflict(a) \/ RepeatedRepair(a)
      obs == Plain(IF blocked THEN "acceptance_incomplete" ELSE "conflict")
      type == IF blocked THEN "finish_blocked" ELSE "action_conflict"
  IN  /\ pc = "gate"
      /\ IF blocked \/ refused
         THEN /\ log' = Append(log, Result(type, a, obs))
              /\ pc' = "advance"
              /\ job' = [job EXCEPT !.obs = obs]
         ELSE /\ pc' = "execute"
              /\ job' = [job EXCEPT !.then = "advance"]
              /\ UNCHANGED log
      /\ UNCHANGED <<reservations, disk, overlay, run, bounds>>

AdvanceState ==
  LET a == job.action
      state == Advance(job.state, a, job.obs, job.update)
      repeated == RepeatedRepair(a)
      reason == CASE repeated -> "repeated_proposal"
                  [] ~repeated /\ job.obs.status \in StoppingStatuses ->
                       job.obs.status
                  [] ~repeated /\ a.kind = "finish" /\
                     job.obs.status = "completed" -> "finished"
                  [] OTHER -> "none"
  IN  /\ pc = "advance"
      /\ log' = Append(log, Snapshot(state))
      /\ pc' = IF reason = "none" THEN "step" ELSE "end"
      /\ job' = [job EXCEPT !.state = state, !.reason = reason,
                            !.step = @ + 1, !.action = NoAction,
                            !.update = NoUpdate, !.obs = NoObs]
      /\ UNCHANGED <<reservations, disk, overlay, run, bounds>>

EndLoop ==
  /\ pc = "end"
  /\ log' = IF job.state.stop = job.reason THEN log
            ELSE Append(log, Snapshot(Stop(job.state, job.reason)))
  /\ Return(log')
  /\ UNCHANGED <<reservations, disk, bounds>>

Loop == \/ Reconcile \/ Recover \/ ResumePending \/ Resumed \/ EnterLoop
        \/ Decide \/ DecisionFails \/ LimitReached \/ Gate \/ AdvanceState
        \/ EndLoop

-----------------------------------------------------------------------------
(* The user's calls: each needs what the run record offers.                *)

Call(name, point, a, then) ==
  /\ pc' = point
  /\ job' = [Job(name) EXCEPT !.action = a, !.then = then,
                              !.cycle = run.cycle]
  /\ calls' = calls + 1
  /\ UNCHANGED <<reservations, disk, overlay, run, crashes, outsideEdits>>

(* submit_input: a new answer is appended; the answer of a call that died  *)
(* may only be repeated.                                                   *)
Answer ==
  /\ MayCall /\ run.question # NoAction
  /\ LET q == run.question
         answered == Has(log, q.id, {"input_received"})
     IN  \E answer \in Answers :
           /\ answered => log[At(log, q.id, {"input_received"})].answer = answer
           /\ answered \/ q = PendingInput(log)
           /\ log' = IF answered THEN log
                     ELSE Append(log, [ActionEvent("input_received", q)
                                         EXCEPT !.answer = answer])
  /\ Call("answer", "answered", run.question, "idle")

(* _persist_input_state, and the loop goes on in the same call.            *)
Answered ==
  LET id == job.action.id
      knows(state) == \E r \in Range(state.inputs) : r.id = id
      answer == log[At(log, id, {"input_received"})].answer
  IN
  /\ pc = "answered"
  /\ log' = IF knows(LatestState(log)) THEN log
            ELSE Append(log, Snapshot(
                   IF knows(Rebuilt(log)) THEN Rebuilt(log)
                   ELSE RecordAnswer(Rebuilt(log), id, answer)))
  /\ Resume(log', job.cycle)
  /\ UNCHANGED <<reservations, disk, run, bounds>>

(* execute_pending_agent_write and execute_pending_agent_validation begin  *)
(* with the grant; the offered checkpoint must still be pending, and a     *)
(* command must be the next one of the cycle.                              *)
OfferedPending ==
  run.checkpoint # 0 /\ run.checkpoint = PendingApproval(log)

Approve ==
  LET a == PendingApprovalAction
  IN  /\ MayCall /\ OfferedPending
      /\ a.kind = "validate" =>
           /\ run.cycle.next # 0
           /\ a = Validation(run.cycle.write, run.cycle.next)
      /\ log' = Append(log, [ActionEvent("approval_granted", a)
                               EXCEPT !.checkpoint = run.checkpoint])
      /\ Call("approve", "execute", a,
              IF a.kind = "validate" THEN "validated" ELSE "written")

Reject ==
  /\ MayCall /\ OfferedPending
  /\ log' = Append(log, [ActionEvent("approval_rejected",
                                     PendingApprovalAction)
                           EXCEPT !.checkpoint = run.checkpoint])
  /\ Call("reject", "rejected", NoAction, "idle")

RejectedState ==
  /\ pc = "rejected"
  /\ log' = Append(log, Snapshot(Stop(LatestState(log), "approval_rejected")))
  /\ Fail
  /\ UNCHANGED <<reservations, disk, bounds>>

(* The outcome of the write: a fresh request if the file changed, an error *)
(* if it failed, or the criteria of the approved change.                   *)
Written ==
  LET a == job.action
      state == Advance(LatestState(log), a, job.obs, NoUpdate)
      after == PostWrite(state, a.id, job.obs.changed, Commands)
      diff == Read(Append(a.id, "diff"), "inspect_diff", 1)
  IN  /\ pc = "written"
      /\ CASE job.obs.status = "approval_required" ->
                /\ log' = Append(log, Snapshot(Stop(state,
                                                    "approval_required")))
                /\ Return(log')
           [] job.obs.status \in SuccessStatuses ->
                /\ log' = Append(log, Snapshot(after))
                /\ pc' = "execute"
                /\ job' = [job EXCEPT !.action = diff, !.then = "diffed",
                                      !.state = after]
                /\ UNCHANGED <<overlay, run>>
           [] OTHER -> Reset /\ UNCHANGED <<log, run>>
      /\ UNCHANGED <<reservations, disk, bounds>>

Diffed ==
  LET state == Advance(job.state, job.action, job.obs, NoUpdate)
  IN  /\ pc = "diffed"
      /\ log' = Append(log, Snapshot(state))
      /\ pc' = "close"
      /\ job' = [job EXCEPT !.state = state]
      /\ UNCHANGED <<reservations, disk, overlay, run, bounds>>

(* request_agent_validation executes the next command up to its approval.  *)
RequestNext(cycle) ==
  /\ pc' = "execute"
  /\ job' = [job EXCEPT !.action = Validation(cycle.write, cycle.next),
                        !.then = "requested", !.cycle = cycle]
  /\ UNCHANGED <<overlay, run>>

(* The write is complete and a validation cycle begins.                    *)
CloseWrite ==
  /\ pc = "close"
  /\ log' = Append(log, Snapshot(Stop(job.state, "write_complete")))
  /\ IF Commands = <<>> THEN Fail
     ELSE RequestNext([write |-> job.action.id[2], next |-> 1])
  /\ UNCHANGED <<reservations, disk, bounds>>

Requested ==
  /\ pc = "requested"
  /\ IF job.obs.status = "approval_required"
     THEN /\ log' = Append(log, Snapshot(Stop(
                       Advance(LatestState(log), job.action, job.obs,
                               NoUpdate), "approval_required")))
          /\ Return(log')
     ELSE Fail /\ UNCHANGED log
  /\ UNCHANGED <<reservations, disk, bounds>>

Validated ==
  LET state == Advance(LatestState(log), job.action, job.obs, NoUpdate)
      more  == job.obs.status = "completed" /\ job.cycle.next < Len(Commands)
  IN  /\ pc = "validated"
      /\ log' = Append(log, Snapshot(state))
      /\ IF more THEN RequestNext([job.cycle EXCEPT !.next = @ + 1])
         ELSE /\ pc' = "observed"
              /\ job' = [job EXCEPT !.cycle.next = 0]
              /\ UNCHANGED <<overlay, run>>
      /\ UNCHANGED <<reservations, disk, bounds>>

(* _continue_task_after_validation: the repair control stops the run, the  *)
(* user reviews it (no model, no budget), or the loop goes on.             *)
Observed ==
  /\ pc = "observed"
  /\ \/ /\ log' = Append(log, Snapshot(Stop(LatestState(log),
                                             "repair_stopped")))
        /\ Fail
     \/ Fail /\ UNCHANGED log
     \/ Resume(log, job.cycle) /\ UNCHANGED <<log, run>>
  /\ UNCHANGED <<reservations, disk, bounds>>

UserCall == Answer \/ Approve \/ Reject \/ RestoreQuestion \/ Cancel
Continue == \/ Answered \/ RejectedState \/ Written \/ Diffed
            \/ CloseWrite \/ Requested \/ Validated \/ Observed

-----------------------------------------------------------------------------
(* Faults and the specification.                                           *)

Crash ==
  /\ pc # "idle" /\ crashes < MaxCrashes
  /\ Reset
  /\ crashes' = crashes + 1
  /\ UNCHANGED <<log, reservations, disk, run, calls, outsideEdits>>

OutsideEdit ==
  /\ outsideEdits < MaxOutsideEdits
  /\ \E p \in Paths, c \in Contents :
       c # disk[p] /\ disk' = [disk EXCEPT ![p] = c]
  /\ outsideEdits' = outsideEdits + 1
  /\ UNCHANGED <<log, reservations, overlay, run, pc, job, calls, crashes>>

Progress == Execute \/ Loop \/ Continue
Next == StartLoop \/ ResumeLoop \/ UserCall \/ Progress \/ Crash \/ OutsideEdit

Spec == Init /\ [][Next]_vars

-----------------------------------------------------------------------------
(* Properties.                                                             *)

(* Every variable keeps its shape.                                         *)
TypeOK ==
  /\ {log[i].type : i \in DOMAIN log} \subseteq
       TerminalTypes \union WaitingTypes \union StartTypes \union
       {"working_state_updated", "decision_recorded", "action_authorized",
        "approval_granted", "approval_rejected", "input_received",
        "action_recovery_required"}
  /\ \A r, q \in reservations : r.action.id = q.action.id => r = q
  /\ disk \in [Paths -> Contents]
  /\ \A p \in Paths : overlay[p].status \in
       {"none", "proposed", "inspected", "conflict"}
  /\ run.checkpoint \in 0..Len(log) /\ run.cycle.next \in 0..Len(Commands)
  /\ job.step \in 0..(MaxSteps + 1) /\ job.limit \in 0..MaxSteps

(* Every action of the run has an id of its own: a later decision never    *)
(* takes the id (and with it the reservation) of another action, whatever  *)
(* crashes and recoveries fell between (action_id=f"explore-{step}").      *)
ActionIdsAreFresh ==
  LET recorded == {log[i].action : i \in DOMAIN log} \ {NoAction}
  IN  \A a, b \in recorded : a.id = b.id => a = b

(* What the plan and the criteria claim was observed: each id they cite is *)
(* an evidence-producing action that the log shows to have succeeded, and  *)
(* a validation criterion passes only by its own command.                  *)
Succeeded(l, id, kinds, ref) ==
  \E i \in DOMAIN l :
    /\ l[i].type \in TerminalTypes /\ l[i].action.id = id
    /\ l[i].obs.status \in SuccessStatuses
    /\ l[i].action.kind \in kinds
    /\ ref # NoRef => l[i].action.ref = ref

Backed(l, state) ==
  /\ \A t \in Range(state.plan) : t.status = "completed" =>
       /\ t.evidence # {}
       /\ \A id \in t.evidence : Succeeded(l, id, EvidenceKinds, NoRef)
  /\ \A c \in Range(state.criteria) : c.status = "passed" =>
       /\ c.evidence # {}
       /\ \A id \in c.evidence :
            IF c.kind = "validation" THEN Succeeded(l, id, {"validate"}, c.ref)
            ELSE Succeeded(l, id, EvidenceKinds, NoRef)

EvidenceWasObserved ==
  /\ Backed(log, LatestState(log))
  /\ job.state # NoState => Backed(log, job.state)

(* A crash loses nothing of a step: once the observation is in the log,    *)
(* recovery rebuilds the state that the loop is about to record            *)
(* (analyze_runtime_recovery against advance_agent_working_state).         *)
RecoveryRebuildsState ==
  pc = "advance" =>
    Rebuilt(log) = Advance(job.state, job.action, job.obs, job.update)

(* The model always decides with the user's latest answer before it,       *)
(* whichever process took the answer ...                                   *)
AnswersReachTheModel ==
  LET answered == Requests({"input_received"})
      last     == log[Newest(answered)]
  IN  (pc = "step" /\ answered # {}) =>
        \E r \in Range(job.state.inputs) :
          r.id = last.action.id /\ r.answer = last.answer

(* ... and with the outcome of the last action that ended or had to wait.  *)
LastOutcomeIsKnown ==
  LET observed == Requests(TerminalTypes \union WaitingTypes)
      last     == log[Newest(observed)]
  IN  (pc = "step" /\ observed # {}) =>
        \E o \in Range(job.state.recent) :
          o.id = last.action.id /\ o.status = last.obs.status

(* A loop that takes decisions keeps the tool calls of the call, recovered *)
(* ones and the members of parallel reads included, within max_tool_calls. *)
ToolCallsWithinBudget ==
  (job.call \in {"loop", "resume"} /\ job.step > 0 /\ job.limit > 0) =>
    ToolCalls(log) - job.initial <= Budget

(* When the loop ends as finished by its own decision, nothing blocks the  *)
(* state it leaves: plan, required criteria and every virtual edit.        *)
LoopFinishIsReady ==
  [][(pc = "advance" /\ job'.reason = "finished") =>
       CompletionReady(job'.state)]_vars

(* A patch the loop sends to the user is the diff that was inspected: from *)
(* the content the file has to the content the overlay shows.              *)
RequestsShowTheReviewedDiff ==
  [][(/\ pc = "execute" /\ job.then = "advance"
      /\ job.action.kind = "apply_patch"
      /\ job'.obs # NoObs /\ job'.obs.status = "approval_required") =>
       /\ Inspected(job.state.edits[job.action.path])
       /\ job.state.edits[job.action.path].base = job.action.from
       /\ job.state.edits[job.action.path].current = job.action.to
       /\ disk[job.action.path] = job.action.from]_vars

(* At most one action of a run is unresolved, and none while the loop asks *)
(* for a decision: recovery looks at the newest one alone                  *)
(* (analyze_runtime_recovery takes the last of the unresolved tracks).     *)
OneActionIsOpen ==
  /\ \A x, y \in Unresolved(log) : x = y
  /\ pc = "step" => Unresolved(log) = {}

(* The completed proposals for a file, and the content that they lead to   *)
(* before the n-th event.                                                  *)
Proposals(l, p) ==
  {i \in DOMAIN l : /\ l[i].type \in TerminalTypes
                    /\ l[i].action.kind = "propose_patch"
                    /\ l[i].action.path = p /\ l[i].obs.status = "completed"}
ProposedBefore(l, p, n) ==
  LET before == {i \in Proposals(l, p) : i < n}
  IN  IF before = {} THEN Original ELSE l[Newest(before)].action.to

(* Files change only by writes of what was proposed last, and every        *)
(* proposal was observed by the process that made it.  The three ways out  *)
(* of it are an edit by another hand, a write whose decision a crash kept  *)
(* from the review (its process died before the gate), and a proposal that *)
(* recovery settles or repeats after the overlay was rebuilt.              *)
Undisturbed ==
  /\ outsideEdits = 0
  /\ \A i \in DOMAIN log : log[i].type \in TerminalTypes =>
       LET a == log[i].action
       IN  /\ log[i].type = "action_recovered" => a.kind # "propose_patch"
           /\ (a.kind \in WriteKinds /\ log[i].obs.report = "written") =>
                a.to = ProposedBefore(log, a.path, i)

(* The overlay of a call, which is rebuilt from the log with each call,    *)
(* shows for the content of a file what the working state lists: the same  *)
(* edit, or none.                                                          *)
OverlayMatchesState ==
  (pc = "step" /\ Undisturbed) =>
    \A p \in Paths :
      LET edit == job.state.edits[p]
      IN  edit.status # "conflict" =>
            /\ edit # NoEdit <=> overlay[p].base = disk[p]
            /\ edit # NoEdit => /\ edit.base = disk[p]
                                /\ edit.current = overlay[p].current
=============================================================================
