---------------------------- MODULE WorkingState ----------------------------
(***************************************************************************)
(* The working state of an agent (runtime/state.py): the plan, the         *)
(* acceptance criteria with their evidence, the reviewed virtual edits,    *)
(* the answers of the user and the latest observations, as a value, and    *)
(* the functions that compute the next value.  AgentLoop keeps it in the   *)
(* event log and rebuilds it after a crash.                                *)
(*                                                                         *)
(* Abstractions.  Texts (objective, focus, findings, questions, summaries) *)
(* and selected paths are left out, and the phase, a function of the last  *)
(* observation, with them.  A criterion's evidence and its summary come    *)
(* and go together.  An update changes at most one plan item and one       *)
(* criterion (the decision schema allows twelve, with distinct ids).       *)
(***************************************************************************)
EXTENDS Integers, Sequences

CONSTANTS
  Paths,                            \* files the agent may edit
  NoContent,                        \* "no edit of this file"
  NoRef,                            \* a criterion or action with no command
  NoUpdate,                         \* a decision without a state update
  MaxRecent, MaxPlan, MaxCriteria, MaxInputs     \* the MAX_... of state.py

ASSUME WorkingStateAssumption ==
  /\ MaxRecent \in Nat \ {0} /\ MaxPlan \in Nat \ {0}
  /\ MaxCriteria \in Nat \ {0} /\ MaxInputs \in Nat \ {0}

EvidenceKinds == {"read_file", "inspect_diff", "parallel_read",
                  "apply_patch", "edit_file", "validate"}
WriteKinds == {"apply_patch", "edit_file"}
SuccessStatuses == {"completed", "applied", "no_change"}
StoppingStatuses == {"approval_required", "input_required",
                     "recovery_required", "policy_denied",
                     "verification_failed", "failed"}

NoEdit == [base |-> NoContent, current |-> NoContent, status |-> "none"]
NoEdits == [p \in Paths |-> NoEdit]
Inspected(edit) == edit.status = "inspected"

(* The items that are in a set, in their order.                            *)
Keep(s, kept) ==
  LET some[n \in 0..Len(s)] ==
        IF n = 0 THEN <<>>
        ELSE IF s[n] \in kept THEN Append(some[n - 1], s[n]) ELSE some[n - 1]
  IN  some[Len(s)]

LastN(s, n) == IF Len(s) <= n THEN s ELSE SubSeq(s, Len(s) - n + 1, Len(s))
Range(s) == {s[i] : i \in DOMAIN s}

(* The list with the item in the place of the one with its id, or added    *)
(* at its end; the oldest items beyond the limit are dropped.              *)
Put(s, item, limit) ==
  LastN(IF \E i \in DOMAIN s : s[i].id = item.id
        THEN [i \in DOMAIN s |-> IF s[i].id = item.id THEN item ELSE s[i]]
        ELSE Append(s, item), limit)

-----------------------------------------------------------------------------
(* Creation and the finish gate.                                           *)

PlanItem(id, status, evidence) ==
  [id |-> id, status |-> status, evidence |-> evidence]
Criterion(id, kind, required, status, evidence, ref) ==
  [id |-> id, kind |-> kind, required |-> required, status |-> status,
   evidence |-> evidence, ref |-> ref]

CreateState ==
  [status   |-> "running",
   stop     |-> "none",
   iteration |-> 0,
   plan     |-> << PlanItem(<<"investigate">>, "in_progress", {}) >>,
   criteria |-> << Criterion(<<"analysis">>, "analysis", TRUE, "pending",
                             {}, NoRef) >>,
   edits    |-> NoEdits,
   inputs   |-> <<>>,
   recent   |-> <<>>]

(* agent_completion_blockers: what still forbids the finish action.        *)
Blockers(state) ==
  {<<"plan", t.id>> : t \in {u \in Range(state.plan) :
                              u.status # "completed"}}
    \union
  {<<"acceptance", c.id>> : c \in {d \in Range(state.criteria) :
                                     d.required /\ d.status # "passed"}}
    \union {<<"plan", <<"missing">> >> : x \in {1} \ DOMAIN state.plan}
    \union {<<"acceptance", <<"missing">> >> : x \in {1} \ DOMAIN state.criteria}
    \union {<<"proposal", p>> : p \in {q \in Paths :
              state.edits[q].status \in {"proposed", "conflict"}}}

CompletionReady(state) == Blockers(state) = {}

-----------------------------------------------------------------------------
(* apply_agent_state_update.                                               *)

(* Variant: any recent observation counts, a failed one too. *)
AnyRecent(state) == {o.id : o \in Range(state.recent)}

(* Ids the model may cite: recent successes of evidence-producing actions. *)
Evidence(state) ==
  {o.id : o \in {r \in Range(state.recent) :
                   r.status \in SuccessStatuses /\ r.kind \in EvidenceKinds}}

LastObservation(state, id) ==
  LET at == {i \in DOMAIN state.recent : state.recent[i].id = id}
  IN  state.recent[CHOOSE i \in at : \A j \in at : j <= i]

HasCriterion(state, id) == \E c \in Range(state.criteria) : c.id = id
CriterionOf(state, id) == CHOOSE c \in Range(state.criteria) : c.id = id

(* Variant: any evidence supports a validation criterion. *)
ValidatesAnything(state, ids, ref) == ref # NoRef

(* _require_matching_validation_evidence.                                  *)
ValidatesRef(state, ids, ref) ==
  /\ ref # NoRef
  /\ \A id \in ids : LET o == LastObservation(state, id)
                     IN  /\ o.kind = "validate" /\ o.status = "completed"
                         /\ o.ref = ref

PlanUpdateFits(state, u) ==
  /\ u.evidence \subseteq Evidence(state)
  /\ u.status = "completed" <=> u.evidence # {}

CriterionUpdateFits(state, u) ==
  /\ u.evidence \subseteq Evidence(state)
  /\ (u.kind = "validation" /\ u.evidence # {}) =>
        /\ HasCriterion(state, u.id)
        /\ ValidatesRef(state, u.evidence, CriterionOf(state, u.id).ref)

(* No ValueError is raised.                                                *)
UpdateFits(state, update) ==
  update # NoUpdate =>
    /\ \A u \in update.plan : PlanUpdateFits(state, u)
    /\ \A u \in update.criteria : CriterionUpdateFits(state, u)

MergedCriterion(state, u) ==
  LET known == HasCriterion(state, u.id)
      old   == CriterionOf(state, u.id)
  IN  Criterion(u.id, u.kind,
                IF known THEN old.required \/ u.required ELSE u.required,
                IF u.evidence # {} THEN "passed"
                ELSE IF known THEN old.status ELSE "pending",
                IF u.evidence # {} THEN u.evidence
                ELSE IF known THEN old.evidence ELSE {},
                IF known THEN old.ref ELSE NoRef)

ApplyPlan(state, updates) ==
  IF updates = {} THEN state.plan
  ELSE LET u == CHOOSE x \in updates : TRUE
       IN  Put(state.plan, PlanItem(u.id, u.status, u.evidence), MaxPlan)

ApplyCriteria(state, updates) ==
  IF updates = {} THEN state.criteria
  ELSE LET u == CHOOSE x \in updates : TRUE
       IN  Put(state.criteria, MergedCriterion(state, u), MaxCriteria)

ApplyUpdate(state, update) ==
  IF update = NoUpdate THEN state
  ELSE [state EXCEPT !.plan = ApplyPlan(state, update.plan),
                     !.criteria = ApplyCriteria(state, update.criteria)]

-----------------------------------------------------------------------------
(* advance_agent_working_state: what one observation does to the state.    *)

(* _transition: the status and the stop reason.                            *)
Outcome(action, obs) ==
  CASE obs.status \in {"approval_required", "input_required",
                       "recovery_required"} -> <<"waiting", obs.status>>
    [] obs.status \in {"failed", "policy_denied", "verification_failed"} ->
         <<"failed", obs.status>>
    [] action.kind = "finish" /\ obs.status = "completed" ->
         <<"completed", "finished">>
    [] OTHER -> <<"running", "none">>

(* _advance_proposed_edits.  obs.edits is the overlay that the tool        *)
(* reports; obs.report tells what happened to the file of the action.      *)
AdvanceEdits(edits, action, obs) ==
  CASE action.kind = "propose_patch" /\ obs.report = "removed" ->
         [edits EXCEPT ![action.path] = NoEdit]
    [] action.kind = "propose_patch" /\ obs.report = "proposed" ->
         [edits EXCEPT ![action.path] = obs.edits[action.path]]
    [] action.kind = "propose_patch" /\ obs.report = "stale" ->
         [edits EXCEPT ![action.path] =
            IF @ = NoEdit THEN @ ELSE [@ EXCEPT !.status = "conflict"]]
    [] action.kind = "inspect_proposed_diff" /\ obs.report = "files" ->
         obs.edits
    [] action.kind \in WriteKinds /\ obs.report = "written" ->
         [edits EXCEPT ![action.path] = NoEdit]
    [] OTHER -> edits

(* _advance_validation_acceptance.                                         *)
AdvanceCriteria(criteria, action, obs) ==
  IF action.kind # "validate" THEN criteria
  ELSE [i \in DOMAIN criteria |->
          LET c == criteria[i]
          IN  IF c.kind = "validation" /\ c.ref = action.ref
              THEN [c EXCEPT !.status = IF obs.status = "completed"
                                        THEN "passed" ELSE "failed",
                             !.evidence = {action.id}]
              ELSE c]

Advance(state, action, obs, update) ==
  LET s == ApplyUpdate(state, update)
      after == Outcome(action, obs)
  IN  [s EXCEPT
         !.status    = after[1],
         !.stop      = after[2],
         !.iteration = state.iteration + 1,
         !.criteria  = AdvanceCriteria(s.criteria, action, obs),
         !.edits     = AdvanceEdits(s.edits, action, obs),
         !.recent    = LastN(Append(state.recent,
                         [id |-> action.id, kind |-> action.kind,
                          status |-> obs.status, ref |-> action.ref]),
                         MaxRecent)]

-----------------------------------------------------------------------------
(* Stops, answers and the criteria of an approved write.                   *)

(* stop_agent_working_state.                                               *)
Stop(state, reason) ==
  [state EXCEPT
     !.stop = reason,
     !.status = CASE reason = "finished" -> "completed"
                  [] reason = "failed" -> "failed"
                  [] reason \in {"approval_required", "input_required",
                                 "recovery_required"} -> "waiting"
                  [] OTHER -> "stopped"]

(* record_agent_user_input, which raises unless AnswerFits.                *)
AnswerFits(state, id, answer) ==
  \A r \in Range(state.inputs) : r.id = id => r.answer = answer

(* Variant: a full list keeps its oldest answers. *)
RecordAnswerIfRoom(state, id, answer) ==
  [state EXCEPT
     !.status = "running",
     !.stop   = "none",
     !.inputs = IF Len(@) = MaxInputs THEN @
                ELSE Append(@, [id |-> id, answer |-> answer])]

RecordAnswer(state, id, answer) ==
  [state EXCEPT
     !.status = "running",
     !.stop   = "none",
     !.inputs = LastN(Append(Keep(@, {r \in Range(@) : r.id # id}),
                             [id |-> id, answer |-> answer]), MaxInputs)]

(* prepare_post_write_acceptance: the criteria of the user's approval      *)
(* replace the generated and the validation ones.                          *)
Generated(c) ==
  \/ c.id \in {<<"task_change">>, <<"approval_scope">>,
               <<"manual_validation">>}
  \/ c.id[1] = "validation"
  \/ c.kind = "validation"

PostWrite(state, id, changed, commands) ==
  LET kept == Keep(state.criteria,
                   {c \in Range(state.criteria) : ~Generated(c)})
      scope == << Criterion(<<"task_change">>, "change", TRUE,
                            IF changed THEN "passed" ELSE "failed", {id},
                            NoRef),
                  Criterion(<<"approval_scope">>, "safety", TRUE, "passed",
                            {id}, NoRef) >>
      checks == [i \in DOMAIN commands |->
                   Criterion(<<"validation", i>>, "validation", TRUE,
                             "pending", {}, commands[i])]
      manual == IF commands # <<>> THEN <<>>
                ELSE << Criterion(<<"manual_validation">>, "manual", FALSE,
                                  "pending", {}, NoRef) >>
  IN  [state EXCEPT !.criteria =
         LastN(kept \o scope \o checks \o manual, MaxCriteria)]

(* agent_working_state_from_record: a stored status counts only with the   *)
(* evidence stored beside it.                                              *)
FromRecord(state) ==
  [state EXCEPT
     !.plan = LastN([i \in DOMAIN @ |->
                 IF @[i].status = "completed" /\ @[i].evidence = {}
                 THEN [@[i] EXCEPT !.status = "pending"] ELSE @[i]], MaxPlan),
     !.criteria = LastN([i \in DOMAIN @ |->
                 IF @[i].evidence = {}
                 THEN [@[i] EXCEPT !.status = "pending"] ELSE @[i]],
                 MaxCriteria),
     !.inputs = LastN(@, MaxInputs),
     !.recent = LastN(@, MaxRecent)]
=============================================================================
