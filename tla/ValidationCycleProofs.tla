------------------------ MODULE ValidationCycleProofs ------------------------
(***************************************************************************)
(* Theorems about an agent task run between its approvals, for every set   *)
(* of contents and failures, every list of commands, limit of repairs and  *)
(* budget, and any number of cancellations, pauses, restarts and outside   *)
(* edits: its types; a validation is offered only on top of the commands   *)
(* before it, the failures of an episode stay within the limit of repairs, *)
(* what the event log counts stays within the budget, and a repair repeats *)
(* no earlier proposal.                                                    *)
(***************************************************************************)
EXTENDS ValidationCycle, TLAPS

Fingerprints == Failures \union {"none"}
Proposed == Proposals \union {"none"}
AttemptStatuses ==
  {"proposal_ready", "validation_failed", "completed", "stopped"}
AttemptRecords ==
  [status : AttemptStatuses, trigger : Fingerprints, proposal : Proposed,
   result : Fingerprints]
Histories == UNION {[D -> AttemptRecords] : D \in SUBSET (0..MaxRepairs)}
StopReasons ==
  {"none", "approval_rejected", "execution_budget_exhausted",
   "no_apply_ready_proposal", "no_repository_change",
   "repair_budget_exhausted", "repeated_repair_proposal",
   "repeated_validation_failure"}
Transitions ==
  [history : Histories, attempt : 0..MaxRepairs, required : BOOLEAN,
   trigger : Fingerprints, stop : StopReasons]
Repairs ==
  [required : BOOLEAN, attempt : 0..MaxRepairs, trigger : Fingerprints]
Outcomes ==
  [what : {"none", "asked", "offered", "repeated", "finished", "stopped", "raised"},
   write : Proposed, steps : Nat]
(* A request to approve a write names a write that fits its content.       *)
Offerable(w, base) ==
  w \in Proposals /\ base \in Contents /\ Leaves(w, base) \in Contents
Approvals ==
  {q \in Requests : q.kind = "write" => Offerable(q.write, q.base)}
Runs ==
  [status : TaskRunStatuses, pause : BOOLEAN, cancel : BOOLEAN,
   checkpoint : Checkpoints, sandbox : {1}, proposal : {0, 1},
   approval : Approvals, question : Nat, cycle : Cycles,
   pending : 0..MaxRepairs, repair : Repairs, wrote : BOOLEAN,
   history : Histories, usage : Usages]
Stores ==
  [steps : Nat, calls : Nat, commands : Nat, started : Nat, offers : Nat,
   offer : Approvals, question : Nat, writes : Nat, bound : BOOLEAN,
   criteria : SUBSET CommandSet, passed : SUBSET CommandSet]
Jobs ==
  [at : {"idle", "start", "loop", "settle", "refreshed", "record", "request",
         "requested", "unrequested", "unconfigured", "exhausted"},
   kind : {"none", "fresh", "resumed", "write", "validate", "answer"},
   changed : BOOLEAN, cycle : Cycles, before : Nat, repair : Transitions,
   out : Outcomes]

TypeInv ==
  /\ run \in Runs /\ saved \in Runs
  /\ store \in Stores
  /\ disk \in Contents
  /\ job \in Jobs
  /\ episode \in [failed : Nat, tried : Seq(Proposed)]
  /\ validated \subseteq CommandSet
  /\ stops \in Nat /\ faults \in Nat

-----------------------------------------------------------------------------
(* Constants and the repair history.                                       *)

LEMMA LimitType == MaxRepairs \in Nat /\ MaxRepairs <= 5
  BY ValidationCycleAssumption

LEMMA LengthType == Len(Commands) \in Nat
  BY ValidationCycleAssumption

LEMMA NoHistoryType == NoHistory \in Histories
<1>1. NoHistory \in [{} -> AttemptRecords]
  BY DEF NoHistory
<1>. QED
  BY <1>1 DEF Histories

(* _upsert keeps a record per attempt up to the limit.                     *)
LEMMA UpsertType ==
  ASSUME NEW h \in Histories, NEW n \in 0..MaxRepairs, NEW e \in AttemptRecords
  PROVE  Upsert(h, n, e) \in Histories
<1>1. PICK D \in SUBSET (0..MaxRepairs) : h \in [D -> AttemptRecords]
  BY DEF Histories
<1>2. Upsert(h, n, e) \in [D \union {n} -> AttemptRecords]
  BY <1>1 DEF Upsert
<1>. QED
  BY <1>2 DEF Histories

LEMMA RecordForType ==
  ASSUME NEW h \in Histories, NEW n, NEW s \in AttemptStatuses
  PROVE  RecordFor(h, n, s) \in AttemptRecords
<1>1. PICK D \in SUBSET (0..MaxRepairs) : h \in [D -> AttemptRecords]
  BY DEF Histories
<1>2. Attempt(s) \in AttemptRecords
  BY DEF Attempt, AttemptRecords, Fingerprints, Proposed
<1>. QED
  BY <1>1, <1>2 DEF RecordFor

LEMMA MarkStoppedType ==
  ASSUME NEW h \in Histories, NEW n \in 0..MaxRepairs, NEW f \in Fingerprints
  PROVE  MarkStopped(h, n, f) \in Histories
<1> DEFINE e == RecordFor(h, n, "stopped")
<1>1. e \in AttemptRecords
  BY RecordForType DEF AttemptStatuses
<1> HIDE DEF e
<1>3. [e EXCEPT !.status = "stopped", !.trigger = IF @ # "none" THEN @ ELSE f]
        \in AttemptRecords
  <2> DEFINE g == IF e.trigger # "none" THEN e.trigger ELSE f
  <2>1. g \in Fingerprints
    BY <1>1 DEF AttemptRecords
  <2> HIDE DEF g
  <2>2. [e EXCEPT !.status = "stopped", !.trigger = g] \in AttemptRecords
    BY <1>1, <2>1 DEF AttemptRecords, AttemptStatuses
  <2>. QED
    BY <2>2 DEF g
<1>. QED
  BY <1>3, UpsertType DEF MarkStopped, e

LEMMA StopRepairType ==
  ASSUME NEW h \in Histories, NEW n \in 0..MaxRepairs, NEW f \in Fingerprints,
         NEW reason \in StopReasons
  PROVE  StopRepair(h, n, reason, f) \in Transitions
  BY MarkStoppedType DEF StopRepair, Transition, Transitions

LEMMA RecordOutcomeType ==
  ASSUME NEW h \in Histories, NEW n \in 0..MaxRepairs, NEW f \in Fingerprints
  PROVE  RecordOutcome(h, n, f) \in Histories
<1> DEFINE s == IF f = "none" THEN "completed"
                ELSE IF RepeatsTrigger(h, n, f) THEN "stopped"
                ELSE "validation_failed"
           e == RecordFor(h, n, s)
<1>1. s \in AttemptStatuses
  BY DEF AttemptStatuses
<1>2. e \in AttemptRecords
  BY <1>1, RecordForType
<1> HIDE DEF s, e
<1>3. [e EXCEPT !.status = s, !.result = f] \in AttemptRecords
  BY <1>1, <1>2 DEF AttemptRecords
<1>. QED
  BY <1>3, UpsertType DEF RecordOutcome, s, e

LEMMA ObserveValidationType ==
  ASSUME NEW h \in Histories, NEW n \in 0..MaxRepairs, NEW f \in Fingerprints
  PROVE  ObserveValidation(h, n, MaxRepairs, f) \in Transitions
<1> DEFINE u == RecordOutcome(h, n, f)
<1>1. u \in Histories
  BY RecordOutcomeType
<1>2. "none" \in Fingerprints
  BY DEF Fingerprints
<1>3. MarkStopped(u, n, "none") \in Histories
  BY <1>1, <1>2, MarkStoppedType
<1>. QED
  BY <1>1, <1>2, <1>3
     DEF ObserveValidation, Transition, Transitions, StopReasons

LEMMA ObserveProposalType ==
  ASSUME NEW h \in Histories, NEW n \in 0..MaxRepairs, NEW f \in Fingerprints,
         NEW p \in Proposed
  PROVE  ObserveProposal(h, n, MaxRepairs, f, p) \in Transitions
<1> DEFINE s == IF RepeatsProposal(h, n, p) THEN "stopped" ELSE "proposal_ready"
           e == [Attempt(s) EXCEPT !.trigger = f, !.proposal = p]
<1>1. s \in AttemptStatuses
  BY DEF AttemptStatuses
<1> HIDE DEF s
<1> DEFINE a == Attempt(s)
<1>2. a \in AttemptRecords
  BY <1>1 DEF Attempt, AttemptRecords, Fingerprints, Proposed
<1> HIDE DEF a
<1>3. [a EXCEPT !.trigger = f, !.proposal = p] \in AttemptRecords
  BY <1>2 DEF AttemptRecords
<1>6. e \in AttemptRecords
  BY <1>3 DEF a
<1> HIDE DEF e
<1>4. Upsert(h, n, e) \in Histories
  BY <1>6, UpsertType
<1>5. n <= MaxRepairs
  BY LimitType
<1>. QED
  BY <1>4, <1>5, LimitType
     DEF s, e, ObserveProposal, Transition, Transitions, StopReasons

LEMMA ObserveWriteType ==
  ASSUME NEW h \in Histories, NEW n \in 0..MaxRepairs, NEW changed
  PROVE  ObserveWrite(h, n, changed) \in Transitions
<1>1. "none" \in Fingerprints
  BY DEF Fingerprints
<1>. QED
  BY <1>1, MarkStoppedType DEF ObserveWrite, Transition, Transitions, StopReasons

(* The last failure of a history is that of its greatest failed attempt.   *)
LEMMA LatestFailureType ==
  ASSUME NEW h \in Histories
  PROVE  LatestFailure(h) \in Fingerprints
<1>1. PICK D \in SUBSET (0..MaxRepairs) : h \in [D -> AttemptRecords]
  BY DEF Histories
<1> DEFINE failed == {k \in DOMAIN h : h[k].result # "none"}
<1>2. failed \subseteq 0..5 /\ \A k \in failed : h[k].result \in Fingerprints
  <2>1. DOMAIN h = D /\ \A k \in D : h[k] \in AttemptRecords
    BY <1>1
  <2>2. \A e \in AttemptRecords : e.result \in Fingerprints
    BY DEF AttemptRecords
  <2>3. D \subseteq 0..5
    BY LimitType
  <2>. QED
    BY <2>1, <2>2, <2>3
<1>3. CASE failed = {}
  BY <1>3 DEF LatestFailure, Fingerprints
<1>4. CASE failed # {}
  <2> HIDE DEF failed
  <2>1. \E k \in failed : \A j \in failed : j <= k
    <3>1. \A j \in failed : j \in {0, 1, 2, 3, 4, 5}
      BY <1>2
    <3>. QED
      BY <1>4, <3>1
  <2>2. (CHOOSE k \in failed : \A j \in failed : j <= k) \in failed
    BY <2>1
  <2>. QED
    BY <1>2, <1>4, <2>2 DEF LatestFailure, failed
<1>. QED
  BY <1>3, <1>4
-----------------------------------------------------------------------------
(* The run record.                                                         *)

LEMMA LargerType ==
  ASSUME NEW a \in Int, NEW b \in Int
  PROVE  /\ Larger(a, b) \in Int
         /\ Larger(a, b) >= a /\ Larger(a, b) >= b
         /\ Larger(a, b) = a \/ Larger(a, b) = b
  BY DEF Larger

LEMMA UsedType ==
  ASSUME NEW u \in Usages, NEW a \in Int, NEW b \in Int, NEW c \in Int
  PROVE  /\ Used(u, a, b, c) \in Usages
         /\ Used(u, a, b, c).steps = u.steps + Larger(a, 0)
         /\ Used(u, a, b, c).calls = u.calls + Larger(b, 0)
         /\ Used(u, a, b, c).commands = u.commands + Larger(c, 0)
  BY DEF Used, Usages, Larger

LEMMA ReconciledType ==
  ASSUME NEW u \in Usages, NEW v \in Usages
  PROVE  /\ Reconciled(u, v) \in Usages
         /\ Reconciled(u, v).steps >= v.steps
         /\ Reconciled(u, v).calls >= v.calls
         /\ Reconciled(u, v).commands >= v.commands
         /\ Reconciled(u, v).steps >= u.steps
         /\ Reconciled(u, v).calls >= u.calls
         /\ Reconciled(u, v).commands >= u.commands
<1>1. DOMAIN u = {"steps", "calls", "commands"}
  BY DEF Usages
<1>2. Reconciled(u, v) = [f \in {"steps", "calls", "commands"} |->
                            Larger(u[f], v[f])]
  BY <1>1 DEF Reconciled
<1>3. /\ Reconciled(u, v).steps = Larger(u.steps, v.steps)
      /\ Reconciled(u, v).calls = Larger(u.calls, v.calls)
      /\ Reconciled(u, v).commands = Larger(u.commands, v.commands)
  BY <1>2
<1>4. Reconciled(u, v) = [steps |-> Larger(u.steps, v.steps),
                          calls |-> Larger(u.calls, v.calls),
                          commands |-> Larger(u.commands, v.commands)]
  BY <1>2
<1>. QED
  BY <1>3, <1>4 DEF Usages, Larger

LEMMA CountedType == ASSUME store \in Stores PROVE Counted \in Usages
  BY DEF Counted, Stores, Usages

LEMMA ChargedType ==
  ASSUME NEW r \in Runs, NEW a \in Int, NEW b \in Int, NEW c \in Int
  PROVE  Charged(r, a, b, c) \in Runs
<1>1. r.usage \in Usages
  BY DEF Runs
<1>2. Used(r.usage, a, b, c) \in Usages
  BY <1>1, UsedType
<1>. QED
  BY <1>2 DEF Charged, Runs

LEMMA AppliedType ==
  ASSUME NEW r \in Runs, NEW t \in Transitions
  PROVE  Applied(r, t) \in Runs
<1> DEFINE q == [required |-> t.required, attempt |-> t.attempt,
                 trigger |-> t.trigger]
           h == t.history
<1>1. q \in Repairs /\ h \in Histories
  BY DEF Repairs, Transitions
<1> HIDE DEF q, h
<1>2. [r EXCEPT !.history = h, !.repair = q] \in Runs
  BY <1>1 DEF Runs
<1>. QED
  BY <1>2 DEF Applied, q, h

LEMMA NoRequestType == NoRequest \in Approvals
  BY LengthType DEF NoRequest, Request, Requests, Approvals

LEMMA NoCycleType == NoCycle \in Cycles
  BY LengthType, LimitType DEF NoCycle, Cycle, Cycles

LEMMA StoppedRepairType ==
  ASSUME NEW r \in Runs, NEW t \in Transitions
  PROVE  StoppedRepair(r, t) \in Runs
<1> DEFINE q == Applied(r, t)
<1>1. q \in Runs
  BY AppliedType
<1> HIDE DEF q
<1> DEFINE s == "failed"
           n == 0
<1>2. s \in TaskRunStatuses /\ n \in 0..MaxRepairs
  BY LimitType DEF TaskRunStatuses, ResumableStatuses
<1> HIDE DEF s, n
<1>3. [q EXCEPT !.approval = NoRequest, !.pending = n, !.status = s] \in Runs
  BY <1>1, <1>2, NoRequestType DEF Runs
<1>. QED
  BY <1>3 DEF StoppedRepair, q, s, n

(* What TaskRunStatus makes of a run.                                      *)
LEMMA CheckpointForType ==
  ASSUME NEW r, NEW state
  PROVE  CheckpointFor(r, state) \in Checkpoints
  BY DEF CheckpointFor, Checkpoints, ApprovalCheckpoints, SandboxCheckpoints

LEMMA StoppedAtType ==
  ASSUME NEW r \in Runs, NEW state
  PROVE  StoppedAt(r, state) \in Runs
<1> DEFINE p == CheckpointFor(r, state)
<1>1. p \in Checkpoints
  BY CheckpointForType
<1> HIDE DEF p
<1>2. [r EXCEPT !.status = "cancelled"] \in Runs
  BY DEF Runs, TaskRunStatuses, ResumableStatuses
<1>3. [r EXCEPT !.status = "paused", !.pause = FALSE, !.checkpoint = p] \in Runs
  BY <1>1 DEF Runs, TaskRunStatuses, ResumableStatuses
<1>. QED
  <2> USE DEF p
  <2>1. CASE r.cancel
    BY <1>2, <2>1 DEF StoppedAt
  <2>2. CASE ~ r.cancel
    BY <1>3, <2>2 DEF StoppedAt
  <2>. QED
    BY <2>1, <2>2

LEMMA PreparedType ==
  ASSUME NEW r \in Runs
  PROVE  Prepared(r) \in Runs
<1> DEFINE s == CASE PlannedCheckpoint(r) = "approval" -> "awaiting_approval"
                  [] PlannedCheckpoint(r) = "repair_approval" -> "repair_pending"
                  [] OTHER -> "queued"
<1>1. s \in TaskRunStatuses
  BY DEF TaskRunStatuses, ActiveStatuses
<1> HIDE DEF s
<1>2. [r EXCEPT !.status = s, !.cancel = FALSE, !.pause = FALSE,
                !.checkpoint = "none"] \in Runs
  BY <1>1 DEF Runs, Checkpoints
<1>. QED
  BY <1>2 DEF Prepared, s

LEMMA CancelRequestedType ==
  ASSUME NEW r \in Runs
  PROVE  CancelRequested(r) \in Runs
<1> DEFINE stopped == r.status \in
             {"awaiting_input", "awaiting_approval", "repair_pending",
              "review_pending", "paused", "failed", "interrupted"}
           s == IF stopped THEN "cancelled" ELSE "cancelling"
           p == IF r.checkpoint # "none" THEN r.checkpoint
                ELSE CheckpointFor(r, r.status)
<1>1. s \in TaskRunStatuses
  BY DEF TaskRunStatuses, ActiveStatuses, ResumableStatuses
<1>2. p \in Checkpoints
  BY CheckpointForType DEF Runs
<1> HIDE DEF s, p
<1>3. [r EXCEPT !.status = s, !.cancel = TRUE, !.checkpoint = p] \in Runs
  BY <1>1, <1>2 DEF Runs
<1>. QED
  BY <1>3 DEF CancelRequested, s, p

LEMMA PauseRequestedType ==
  ASSUME NEW r \in Runs
  PROVE  PauseRequested(r) \in Runs
<1> DEFINE waiting == r.status \in {"awaiting_approval", "repair_pending"}
           s == IF waiting THEN "paused" ELSE "pausing"
           f == ~ waiting
           p == CheckpointFor(r, r.status)
<1>1. s \in TaskRunStatuses /\ f \in BOOLEAN /\ p \in Checkpoints
  BY CheckpointForType DEF TaskRunStatuses, ActiveStatuses, ResumableStatuses
<1> HIDE DEF s, f, p
<1>2. [r EXCEPT !.status = s, !.pause = f, !.checkpoint = p] \in Runs
  BY <1>1 DEF Runs
<1>. QED
  BY <1>2 DEF PauseRequested, s, f, p

LEMMA RestoredType ==
  ASSUME NEW r \in Runs
  PROVE  Restored(r) \in Runs
<1> DEFINE p == IF r.status = "cancelling" \/ r.checkpoint = "none"
                THEN CheckpointFor(r, r.status) ELSE r.checkpoint
<1>1. p \in Checkpoints
  BY CheckpointForType DEF Runs
<1> HIDE DEF p
<1>2. [r EXCEPT !.status = "interrupted", !.checkpoint = p] \in Runs
  BY <1>1 DEF Runs, TaskRunStatuses, ResumableStatuses
<1>. QED
  BY <1>2 DEF Restored, Interrupted, p
(* What the operators of the run record leave alone.                       *)
Stands(r, q) ==
  /\ q.approval = r.approval /\ q.cycle = r.cycle /\ q.pending = r.pending
  /\ q.repair = r.repair /\ q.question = r.question
Kept(r, q) ==
  Stands(r, q) /\ q.usage = r.usage /\ q.history = r.history

LEMMA StatusKeeps ==
  ASSUME NEW r \in Runs
  PROVE  /\ \A state : Kept(r, StoppedAt(r, state))
         /\ Kept(r, Prepared(r))
         /\ Kept(r, CancelRequested(r))
         /\ Kept(r, PauseRequested(r))
         /\ Kept(r, Restored(r))
<1>1. ASSUME NEW state PROVE Kept(r, StoppedAt(r, state))
  BY DEF StoppedAt, Kept, Stands, Runs
<1>2. Kept(r, Prepared(r))
  BY DEF Prepared, Kept, Stands, Runs
<1>3. Kept(r, CancelRequested(r))
  BY DEF CancelRequested, Kept, Stands, Runs
<1>4. Kept(r, PauseRequested(r))
  BY DEF PauseRequested, Kept, Stands, Runs
<1>5. Kept(r, Restored(r))
  BY DEF Restored, Interrupted, Kept, Stands, Runs
<1>. QED
  BY <1>1, <1>2, <1>3, <1>4, <1>5

LEMMA ChargedKeeps ==
  ASSUME NEW r \in Runs, NEW a, NEW b, NEW c, NEW q, q = Charged(r, a, b, c)
  PROVE  /\ q.approval = r.approval /\ q.cycle = r.cycle
         /\ q.pending = r.pending /\ q.repair = r.repair
         /\ q.question = r.question /\ q.status = r.status
         /\ q.history = r.history
         /\ q.usage = Used(r.usage, a, b, c)
<1> DEFINE u == Used(r.usage, a, b, c)
<1>1. q = [r EXCEPT !.usage = u]
  BY DEF Charged
<1> HIDE DEF u
<1>2. /\ q.approval = r.approval /\ q.cycle = r.cycle
      /\ q.pending = r.pending /\ q.repair = r.repair
      /\ q.question = r.question /\ q.status = r.status
      /\ q.history = r.history
      /\ q.usage = u
  BY <1>1 DEF Runs
<1>. QED
  BY <1>2 DEF u

LEMMA AppliedKeeps ==
  ASSUME NEW r \in Runs, NEW t \in Transitions, NEW q, q = Applied(r, t)
  PROVE  /\ q.approval = r.approval /\ q.cycle = r.cycle
         /\ q.pending = r.pending /\ q.usage = r.usage
         /\ q.question = r.question /\ q.status = r.status
         /\ q.repair = [required |-> t.required, attempt |-> t.attempt,
                        trigger |-> t.trigger]
         /\ q.history = t.history
  BY DEF Applied, Runs, Transitions

LEMMA StoppedRepairKeeps ==
  ASSUME NEW r \in Runs, NEW t \in Transitions, NEW q, q = StoppedRepair(r, t)
  PROVE  /\ q.approval = NoRequest /\ q.pending = 0 /\ q.status = "failed"
         /\ q.cycle = r.cycle /\ q.usage = r.usage
         /\ q.question = r.question
         /\ q.repair = [required |-> t.required, attempt |-> t.attempt,
                        trigger |-> t.trigger]
<1> DEFINE p == Applied(r, t)
<1>1. p \in Runs
  BY AppliedType
<1>2. /\ p.cycle = r.cycle /\ p.usage = r.usage /\ p.question = r.question
      /\ p.repair = [required |-> t.required, attempt |-> t.attempt,
                     trigger |-> t.trigger]
  BY AppliedKeeps
<1> HIDE DEF p
<1>3. q = [p EXCEPT !.approval = NoRequest, !.pending = 0, !.status = "failed"]
  BY DEF StoppedRepair, p
<1>4. /\ q.approval = NoRequest /\ q.pending = 0 /\ q.status = "failed"
      /\ q.cycle = p.cycle /\ q.usage = p.usage /\ q.question = p.question
      /\ q.repair = p.repair
  BY <1>1, <1>3 DEF Runs
<1>. QED
  BY <1>2, <1>4
-----------------------------------------------------------------------------
(* What one call of the agent loop leaves in the log.                      *)

LEMMA RequestType ==
  ASSUME NEW s \in Stores, NEW kind \in {"write", "validate"},
         NEW w \in Proposed, NEW i \in 0..Len(Commands),
         NEW base \in Contents \union {"none"}, NEW q,
         q = Offered(s, kind, w, i, base),
         kind = "write" => Offerable(w, base)
  PROVE  /\ q \in Stores
         /\ q.steps = s.steps /\ q.calls = s.calls /\ q.commands = s.commands
         /\ q.started = s.started /\ q.offers = s.offers + 1
         /\ q.question = s.question /\ q.writes = s.writes /\ q.bound = s.bound
         /\ q.criteria = s.criteria /\ q.passed = s.passed
         /\ q.offer.id = s.offers + 1 /\ q.offer.kind = kind
         /\ q.offer.write = w /\ q.offer.index = i /\ q.offer.base = base
<1> DEFINE r == Request(s.offers + 1, kind, w, i, base)
<1>1. /\ r \in Approvals /\ r.id = s.offers + 1 /\ r.kind = kind /\ r.write = w
      /\ r.index = i /\ r.base = base
  BY DEF Request, Requests, Approvals, Stores, Proposed
<1> DEFINE k == s.offers + 1
<1>5. k \in Nat
  BY DEF Stores
<1> HIDE DEF r, k
<1>2. q = [s EXCEPT !.offers = k, !.offer = r]
  BY DEF Offered, r, k
<1>3. q \in Stores
  BY <1>1, <1>2, <1>5 DEF Stores
<1>4. /\ q.steps = s.steps /\ q.calls = s.calls /\ q.commands = s.commands
      /\ q.started = s.started /\ q.offers = k
      /\ q.question = s.question /\ q.writes = s.writes /\ q.bound = s.bound
      /\ q.criteria = s.criteria /\ q.passed = s.passed
      /\ q.offer = r
  BY <1>2 DEF Stores
<1>. QED
  BY <1>1, <1>3, <1>4 DEF k

LEMMA StartedType ==
  ASSUME NEW s \in Stores, NEW n \in Nat, NEW q, q = Started(s, n)
  PROVE  /\ q \in Stores
         /\ q.calls = s.calls + n
         /\ q.started = s.started + (IF n = 0 THEN 0 ELSE 1)
         /\ q.steps = s.steps /\ q.commands = s.commands
         /\ q.offers = s.offers /\ q.offer = s.offer
         /\ q.question = s.question /\ q.writes = s.writes /\ q.bound = s.bound
         /\ q.criteria = s.criteria /\ q.passed = s.passed
<1>1. CASE n = 0
  BY <1>1 DEF Started, Stores
<1>2. CASE n # 0
  <2> DEFINE c == s.calls + n
             d == s.started + 1
  <2>1. c \in Nat /\ d \in Nat
    BY DEF Stores
  <2> HIDE DEF c, d
  <2>2. q = [s EXCEPT !.calls = c, !.started = d]
    BY <1>2 DEF Started, c, d
  <2>3. q \in Stores
    BY <2>1, <2>2 DEF Stores
  <2>4. /\ q.calls = c /\ q.started = d
        /\ q.steps = s.steps /\ q.commands = s.commands
        /\ q.offers = s.offers /\ q.offer = s.offer
        /\ q.question = s.question /\ q.writes = s.writes /\ q.bound = s.bound
        /\ q.criteria = s.criteria /\ q.passed = s.passed
    BY <2>2 DEF Stores
  <2>. QED
    BY <1>2, <2>3, <2>4 DEF c, d
<1>. QED
  BY <1>1, <1>2

(* A tool that costs one call.                                             *)
LEMMA StartedOnceType ==
  ASSUME NEW s \in Stores, NEW q, q = Started(s, 1)
  PROVE  /\ q \in Stores
         /\ q.calls = s.calls + 1 /\ q.started = s.started + 1
         /\ q.steps = s.steps /\ q.commands = s.commands
         /\ q.offers = s.offers /\ q.offer = s.offer
         /\ q.question = s.question /\ q.writes = s.writes /\ q.bound = s.bound
         /\ q.criteria = s.criteria /\ q.passed = s.passed
<1> DEFINE c == s.calls + 1
           d == s.started + 1
<1>1. c \in Nat /\ d \in Nat
  BY DEF Stores
<1> HIDE DEF c, d
<1>2. q = [s EXCEPT !.calls = c, !.started = d]
  BY DEF Started, c, d
<1>3. q \in Stores
  BY <1>1, <1>2 DEF Stores
<1>4. /\ q.calls = c /\ q.started = d
      /\ q.steps = s.steps /\ q.commands = s.commands
      /\ q.offers = s.offers /\ q.offer = s.offer
      /\ q.question = s.question /\ q.writes = s.writes /\ q.bound = s.bound
      /\ q.criteria = s.criteria /\ q.passed = s.passed
  BY <1>2 DEF Stores
<1>. QED
  BY <1>3, <1>4 DEF c, d

LEMMA StepsType == \A n \in Nat : Steps(n) \in 1..2 /\ Steps(n) \in Nat
  BY DEF Steps

LEMMA DecidedType ==
  ASSUME store \in Stores, NEW n \in Nat, NEW q, q = Decided(n)
  PROVE  /\ q \in Stores
         /\ q.calls = store.calls + n
         /\ q.started = store.started + (IF n = 0 THEN 0 ELSE 1)
         /\ q.steps = store.steps + Steps(n) /\ q.commands = store.commands
         /\ q.offers = store.offers /\ q.offer = store.offer
         /\ q.question = store.question /\ q.writes = store.writes
         /\ q.bound = store.bound
         /\ q.criteria = store.criteria /\ q.passed = store.passed
<1> DEFINE p == Started(store, n)
           k == Steps(n)
<1>1. k \in Nat
  BY StepsType
<1> HIDE DEF k
<1>2. q = [p EXCEPT !.steps = @ + k]
  BY DEF Decided, k
<1>3. /\ p \in Stores
      /\ p.calls = store.calls + n
      /\ p.started = store.started + (IF n = 0 THEN 0 ELSE 1)
      /\ p.steps = store.steps /\ p.commands = store.commands
      /\ p.offers = store.offers /\ p.offer = store.offer
      /\ p.question = store.question /\ p.writes = store.writes
      /\ p.bound = store.bound
      /\ p.criteria = store.criteria /\ p.passed = store.passed
  BY StartedType
<1> HIDE DEF p
<1>4. /\ q \in Stores /\ q.steps = p.steps + k
      /\ q.calls = p.calls /\ q.commands = p.commands /\ q.started = p.started
      /\ q.offers = p.offers /\ q.offer = p.offer
      /\ q.question = p.question /\ q.writes = p.writes /\ q.bound = p.bound
      /\ q.criteria = p.criteria /\ q.passed = p.passed
  BY <1>1, <1>2, <1>3 DEF Stores
<1>. QED
  BY <1>3, <1>4 DEF k

(* Where a call of the loop may leave the log, within what was left.       *)
LoopEnded(rest, s, out) ==
  /\ s \in Stores /\ out \in Outcomes
  /\ s.steps = store.steps + out.steps /\ out.steps <= rest.steps
  /\ s.calls >= store.calls /\ s.calls - store.calls <= rest.calls
  /\ s.started >= store.started
  /\ s.calls - s.started >= store.calls - store.started
  /\ s.commands = store.commands /\ s.writes = store.writes
  /\ s.bound = store.bound /\ s.passed = store.passed
  /\ s.criteria \in {store.criteria, {}}
  /\ \/ /\ out.what = "offered"
        /\ s.offers = store.offers + 1 /\ s.offer.id = s.offers
        /\ s.offer.kind = "write" /\ s.offer.write = out.write
        /\ s.question = store.question
     \/ /\ out.what \in {"asked", "repeated", "finished", "stopped", "raised"}
        /\ s.offers = store.offers /\ s.offer = store.offer
        /\ out.what # "asked" => s.question = store.question
        /\ out.what = "finished" => Ready(s)

LEMMA AsksEnd ==
  ASSUME store \in Stores, NEW rest, rest.steps \in Nat, rest.calls \in Nat,
         NEW l \in Asks(rest)
  PROVE  LoopEnded(rest, l[1], l[2])
<1>1. PICK n \in Affordable(rest) :
        /\ Steps(n) < rest.steps
        /\ l = <<[Decided(n) EXCEPT !.question = store.steps + Steps(n)],
                 Outcome("asked", "none", Steps(n))>>
  BY DEF Asks
<1>2. n \in Nat /\ n < rest.calls
  BY <1>1, ValidationCycleAssumption DEF Affordable
<1> DEFINE d == Decided(n)
           k == Steps(n)
           q == store.steps + k
<1>3. k \in Nat /\ q \in Nat
  BY <1>2, StepsType DEF Stores
<1>4. /\ d \in Stores
      /\ d.calls = store.calls + n
      /\ d.started = store.started + (IF n = 0 THEN 0 ELSE 1)
      /\ d.steps = store.steps + k /\ d.commands = store.commands
      /\ d.offers = store.offers /\ d.offer = store.offer
      /\ d.writes = store.writes /\ d.bound = store.bound
      /\ d.criteria = store.criteria /\ d.passed = store.passed
  BY <1>2, DecidedType
<1> HIDE DEF d, q
<1>5. l[1] = [d EXCEPT !.question = q] /\ l[2] = Outcome("asked", "none", k)
  BY <1>1 DEF d, q
<1>6. /\ l[1] \in Stores
      /\ l[1].steps = d.steps /\ l[1].calls = d.calls
      /\ l[1].started = d.started /\ l[1].commands = d.commands
      /\ l[1].offers = d.offers /\ l[1].offer = d.offer
      /\ l[1].writes = d.writes /\ l[1].bound = d.bound
      /\ l[1].criteria = d.criteria /\ l[1].passed = d.passed
  BY <1>3, <1>4, <1>5 DEF Stores
<1>7. l[2] \in Outcomes /\ l[2].what = "asked" /\ l[2].steps = k
  BY <1>3, <1>5 DEF Outcome, Outcomes, Proposed
<1>8. /\ store.steps \in Nat /\ store.calls \in Nat /\ store.started \in Nat
  BY DEF Stores
<1> HIDE DEF k
<1>9. k <= rest.steps
  BY <1>1, <1>3 DEF k
<1>. QED
  BY <1>2, <1>3, <1>4, <1>6, <1>7, <1>8, <1>9 DEF LoopEnded

(* What a write that fits leaves is a content.                             *)
LEMMA LeavesType ==
  ASSUME NEW w \in Proposals, NEW c \in Contents, Leaves(w, c) # "none"
  PROVE  Leaves(w, c) \in Contents
<1>1. CASE w \in Patches
  BY <1>1, ValidationCycleAssumption DEF Leaves
<1>2. CASE w \notin Patches
  BY <1>2 DEF Leaves, Proposals, Contents
<1>. QED
  BY <1>1, <1>2

(* An edit_file fits every content.                                        *)
LEMMA EditFits ==
  ASSUME NEW w \in Proposals, w \notin Patches, NEW c \in Contents
  PROVE  Offerable(w, c)
BY DEF Offerable, Leaves, Proposals, Contents

LEMMA OffersEnd ==
  ASSUME store \in Stores, disk \in Contents, NEW blocked,
         NEW rest, rest.steps \in Nat, rest.calls \in Nat,
         NEW l \in Offers(rest, blocked)
  PROVE  LoopEnded(rest, l[1], l[2])
<1>1. PICK n \in Affordable(rest), w \in Fitting(Proposals \ blocked) :
        l = <<Offered(Decided(n), "write", w, 0, disk),
              Outcome("offered", w, Steps(n))>>
  BY DEF Offers
<1>2. n \in Nat /\ n < rest.calls /\ Steps(n) <= rest.steps
  BY ValidationCycleAssumption DEF Affordable
<1> DEFINE d == Decided(n)
           k == Steps(n)
<1>3. k \in Nat
  BY <1>2, StepsType
<1>4. /\ d \in Stores
      /\ d.calls = store.calls + n
      /\ d.started = store.started + (IF n = 0 THEN 0 ELSE 1)
      /\ d.steps = store.steps + k /\ d.commands = store.commands
      /\ d.offers = store.offers /\ d.question = store.question
      /\ d.writes = store.writes /\ d.bound = store.bound
      /\ d.criteria = store.criteria /\ d.passed = store.passed
  BY <1>2, DecidedType
<1> HIDE DEF d
<1>5. l[1] = Offered(d, "write", w, 0, disk) /\ l[2] = Outcome("offered", w, k)
  BY <1>1 DEF d
<1>10. /\ w \in Proposed /\ Offerable(w, disk) /\ 0 \in 0..Len(Commands)
       /\ disk \in Contents \union {"none"}
       /\ "write" \in {"write", "validate"}
  BY LengthType, LeavesType DEF Proposed, Fitting, Offerable
<1>6. /\ l[1] \in Stores
      /\ l[1].steps = d.steps /\ l[1].calls = d.calls
      /\ l[1].started = d.started /\ l[1].commands = d.commands
      /\ l[1].offers = d.offers + 1 /\ l[1].question = d.question
      /\ l[1].offer.id = d.offers + 1 /\ l[1].offer.kind = "write"
      /\ l[1].offer.write = w
      /\ l[1].writes = d.writes /\ l[1].bound = d.bound
      /\ l[1].criteria = d.criteria /\ l[1].passed = d.passed
  BY <1>4, <1>5, <1>10, RequestType
<1>7. /\ l[2] \in Outcomes /\ l[2].what = "offered" /\ l[2].steps = k
      /\ l[2].write = w
  BY <1>3, <1>5, <1>10 DEF Outcome, Outcomes
<1>8. /\ store.steps \in Nat /\ store.calls \in Nat /\ store.started \in Nat
  BY DEF Stores
<1> HIDE DEF k
<1>9. k <= rest.steps
  BY <1>2 DEF k
<1>. QED
  BY <1>2, <1>3, <1>4, <1>6, <1>7, <1>8, <1>9 DEF LoopEnded

LEMMA RepeatsEnd ==
  ASSUME store \in Stores, NEW blocked,
         NEW rest, rest.steps \in Nat, rest.calls \in Nat,
         NEW l \in Repeats(rest, blocked)
  PROVE  LoopEnded(rest, l[1], l[2])
<1>1. PICK n \in Affordable(rest), w \in Fitting(Proposals \intersect blocked) :
        l = <<Decided(n), Outcome("repeated", w, Steps(n))>>
  BY DEF Repeats
<1>2. n \in Nat /\ n < rest.calls /\ Steps(n) <= rest.steps
  BY ValidationCycleAssumption DEF Affordable
<1> DEFINE k == Steps(n)
<1>3. k \in Nat
  BY <1>2, StepsType
<1>4. /\ l[1] \in Stores
      /\ l[1].calls = store.calls + n
      /\ l[1].started = store.started + (IF n = 0 THEN 0 ELSE 1)
      /\ l[1].steps = store.steps + k /\ l[1].commands = store.commands
      /\ l[1].offers = store.offers /\ l[1].offer = store.offer
      /\ l[1].question = store.question
      /\ l[1].writes = store.writes /\ l[1].bound = store.bound
      /\ l[1].criteria = store.criteria /\ l[1].passed = store.passed
  BY <1>1, <1>2, DecidedType
<1>7. l[2] \in Outcomes /\ l[2].what = "repeated" /\ l[2].steps = k
  BY <1>1, <1>3 DEF Outcome, Outcomes, Proposed, Fitting
<1>8. /\ store.steps \in Nat /\ store.calls \in Nat /\ store.started \in Nat
  BY DEF Stores
<1>9. k <= rest.steps
  BY <1>2
<1> HIDE DEF k
<1>. QED
  BY <1>2, <1>3, <1>4, <1>7, <1>8, <1>9 DEF LoopEnded

LEMMA FinishesEnd ==
  ASSUME store \in Stores, NEW rest, rest.steps \in Nat, rest.calls \in Nat,
         NEW l \in Finishes(rest)
  PROVE  LoopEnded(rest, l[1], l[2])
<1>1. PICK n \in Affordable(rest), c \in {store.criteria, {}} :
        /\ Ready(Finished(n, c))
        /\ l = <<Finished(n, c), Outcome("finished", "none", Steps(n))>>
  BY DEF Finishes
<1>2. n \in Nat /\ n < rest.calls /\ Steps(n) <= rest.steps
  BY ValidationCycleAssumption DEF Affordable
<1> DEFINE d == Decided(n)
           k == Steps(n)
           f == Started(d, 1)
<1>3. k \in Nat
  BY <1>2, StepsType
<1>4. /\ d \in Stores
      /\ d.calls = store.calls + n
      /\ d.started = store.started + (IF n = 0 THEN 0 ELSE 1)
      /\ d.steps = store.steps + k /\ d.commands = store.commands
      /\ d.offers = store.offers /\ d.offer = store.offer
      /\ d.question = store.question
      /\ d.writes = store.writes /\ d.bound = store.bound
      /\ d.passed = store.passed
  BY <1>2, DecidedType
<1>5. /\ f \in Stores
      /\ f.calls = d.calls + 1 /\ f.started = d.started + 1
      /\ f.steps = d.steps /\ f.commands = d.commands
      /\ f.offers = d.offers /\ f.offer = d.offer
      /\ f.question = d.question /\ f.writes = d.writes /\ f.bound = d.bound
      /\ f.passed = d.passed
  BY <1>4, StartedOnceType
<1>6. l[1] = [f EXCEPT !.criteria = c] /\ l[2] = Outcome("finished", "none", k)
  BY <1>1 DEF Finished
<1> HIDE DEF d, f
<1>10. c \in SUBSET CommandSet
  BY DEF Stores
<1>11. /\ l[1] \in Stores /\ l[1].criteria = c
       /\ l[1].calls = f.calls /\ l[1].started = f.started
       /\ l[1].steps = f.steps /\ l[1].commands = f.commands
       /\ l[1].offers = f.offers /\ l[1].offer = f.offer
       /\ l[1].question = f.question /\ l[1].writes = f.writes
       /\ l[1].bound = f.bound /\ l[1].passed = f.passed
  BY <1>5, <1>6, <1>10 DEF Stores
<1>7. l[2] \in Outcomes /\ l[2].what = "finished" /\ l[2].steps = k
  BY <1>3, <1>6 DEF Outcome, Outcomes, Proposed
<1>8. /\ store.steps \in Nat /\ store.calls \in Nat /\ store.started \in Nat
  BY DEF Stores
<1>9. k <= rest.steps /\ Ready(l[1])
  BY <1>1, <1>2
<1> HIDE DEF k
<1>. QED
  BY <1>2, <1>3, <1>4, <1>5, <1>11, <1>7, <1>8, <1>9 DEF LoopEnded

LEMMA UndecidedEnd ==
  ASSUME store \in Stores, NEW rest, rest.steps \in Nat, rest.calls \in Nat,
         NEW l \in Undecided(rest)
  PROVE  LoopEnded(rest, l[1], l[2])
<1>1. PICK n \in ReadCosts, what \in {"stopped", "raised"} :
        /\ n <= rest.calls /\ Steps(n) - 1 <= rest.steps
        /\ l = <<[Started(store, n) EXCEPT !.steps = @ + Steps(n) - 1],
                 Outcome(what, "none", Steps(n) - 1)>>
  BY DEF Undecided
<1>2. n \in Nat
  BY ValidationCycleAssumption
<1> DEFINE d == Started(store, n)
           k == Steps(n) - 1
           q == store.steps + k
<1>3. k \in Nat /\ q \in Nat
  BY <1>2, StepsType DEF Stores
<1>4. /\ d \in Stores
      /\ d.calls = store.calls + n
      /\ d.started = store.started + (IF n = 0 THEN 0 ELSE 1)
      /\ d.steps = store.steps /\ d.commands = store.commands
      /\ d.offers = store.offers /\ d.offer = store.offer
      /\ d.question = store.question
      /\ d.writes = store.writes /\ d.bound = store.bound
      /\ d.criteria = store.criteria /\ d.passed = store.passed
  BY <1>2, StartedType
<1>5. store.steps + Steps(n) - 1 = q
  BY <1>2, StepsType DEF Stores
<1> HIDE DEF d, q
<1>6. l[1] = [d EXCEPT !.steps = q] /\ l[2] = Outcome(what, "none", k)
  BY <1>1, <1>4, <1>5 DEF d
<1>11. /\ l[1] \in Stores /\ l[1].criteria = d.criteria
       /\ l[1].calls = d.calls /\ l[1].started = d.started
       /\ l[1].steps = q /\ l[1].commands = d.commands
       /\ l[1].offers = d.offers /\ l[1].offer = d.offer
       /\ l[1].question = d.question /\ l[1].writes = d.writes
       /\ l[1].bound = d.bound /\ l[1].passed = d.passed
  BY <1>3, <1>4, <1>6 DEF Stores
<1>7. /\ l[2] \in Outcomes /\ l[2].what \in {"stopped", "raised"}
      /\ l[2].steps = k
  BY <1>3, <1>6 DEF Outcome, Outcomes, Proposed
<1>8. /\ store.steps \in Nat /\ store.calls \in Nat /\ store.started \in Nat
  BY DEF Stores
<1>9. k <= rest.steps /\ n <= rest.calls /\ q = store.steps + k
  BY <1>1 DEF q
<1> HIDE DEF k
<1>. QED
  BY <1>2, <1>3, <1>4, <1>11, <1>7, <1>8, <1>9 DEF LoopEnded

LEMMA LoopsEnd ==
  ASSUME store \in Stores, disk \in Contents, NEW blocked,
         NEW rest, rest.steps \in Nat, rest.calls \in Nat,
         NEW l \in Loops(rest, blocked)
  PROVE  LoopEnded(rest, l[1], l[2])
<1>1. \/ l \in Asks(rest) \/ l \in Offers(rest, blocked)
      \/ l \in Repeats(rest, blocked) \/ l \in Finishes(rest)
      \/ l \in Undecided(rest)
  BY DEF Loops
<1>. QED
  BY <1>1, AsksEnd, OffersEnd, RepeatsEnd, FinishesEnd, UndecidedEnd

-----------------------------------------------------------------------------
(* What each action leaves, in terms of the fields the invariants read.    *)

LEMMA NoRepairType ==
  /\ Transition(NoHistory, 0, FALSE, "none", "none") \in Transitions
  /\ NoRepair \in Repairs
<1>1. 0 \in 0..MaxRepairs
  BY LimitType
<1>. QED
  BY <1>1, NoHistoryType
     DEF Transition, Transitions, NoRepair, Repairs, Fingerprints, StopReasons

LEMMA NoOutcomeType == NoOutcome \in Outcomes
  BY DEF NoOutcome, Outcome, Outcomes, Proposed

LEMMA IdleType ==
  /\ Idle \in Jobs
  /\ Idle.at = "idle" /\ Idle.kind = "none" /\ Idle.cycle = NoCycle
  /\ Idle.before = 0 /\ Idle.out = NoOutcome
  /\ Idle.repair = Transition(NoHistory, 0, FALSE, "none", "none")
<1> DEFINE t == Transition(NoHistory, 0, FALSE, "none", "none")
<1>1. t \in Transitions /\ NoCycle \in Cycles /\ NoOutcome \in Outcomes
  BY NoRepairType, NoCycleType, NoOutcomeType
<1> HIDE DEF t
<1>2. Idle = [at |-> "idle", kind |-> "none", changed |-> FALSE,
              cycle |-> NoCycle, before |-> 0, repair |-> t, out |-> NoOutcome]
  BY DEF Idle, t
<1>3. /\ Idle \in Jobs
      /\ Idle.at = "idle" /\ Idle.kind = "none" /\ Idle.cycle = NoCycle
      /\ Idle.before = 0 /\ Idle.out = NoOutcome /\ Idle.repair = t
  BY <1>1, <1>2 DEF Jobs
<1>. QED
  BY <1>3 DEF t

LEMMA RestType ==
  ASSUME run \in Runs
  PROVE  /\ Rest.steps \in Nat /\ Rest.calls \in Nat /\ Rest.commands \in Nat
         /\ Budget.steps \in Nat /\ Budget.calls \in Nat
         /\ Budget.commands \in Nat
         /\ Rest.steps = Larger(Budget.steps - run.usage.steps, 0)
         /\ Rest.calls = Larger(Budget.calls - run.usage.calls, 0)
         /\ Rest.commands = Larger(Budget.commands - run.usage.commands, 0)
<1>1. run.usage \in Usages
  BY DEF Runs
<1>2. run.usage.steps \in Nat /\ run.usage.calls \in Nat
      /\ run.usage.commands \in Nat
  BY <1>1 DEF Usages
<1>3. /\ DOMAIN Budget = {"steps", "calls", "commands"}
      /\ Budget.steps \in Nat /\ Budget.calls \in Nat
      /\ Budget.commands \in Nat
  BY ValidationCycleAssumption
<1>4. /\ Rest.steps = Larger(Budget.steps - run.usage.steps, 0)
      /\ Rest.calls = Larger(Budget.calls - run.usage.calls, 0)
      /\ Rest.commands = Larger(Budget.commands - run.usage.commands, 0)
  BY <1>3 DEF Rest, Remaining
<1>. QED
  BY <1>2, <1>3, <1>4 DEF Larger

LEMMA InitType == Init => TypeInv
<1> SUFFICES ASSUME Init PROVE TypeInv
  OBVIOUS
<1>1. run \in Runs
  <2>1. /\ "exploring" \in TaskRunStatuses /\ "none" \in Checkpoints
        /\ 0 \in 0..MaxRepairs /\ NoUsage \in Usages
    BY LimitType DEF TaskRunStatuses, ActiveStatuses, Checkpoints, NoUsage,
                     Usages
  <2>. QED
    BY <2>1, NoRequestType, NoCycleType, NoRepairType, NoHistoryType
       DEF Init, Runs
<1>2. store \in Stores
  BY NoRequestType DEF Init, Stores
<1>3. job \in Jobs
  BY IdleType DEF Init, Jobs
<1>4. episode \in [failed : Nat, tried : Seq(Proposed)]
  BY DEF Init, NewEpisode
<1>. QED
  BY <1>1, <1>2, <1>3, <1>4 DEF Init, TypeInv, Contents

LEMMA WorkerStartsStep ==
  ASSUME TypeInv, WorkerStarts
  PROVE  /\ TypeInv'
         /\ job.at = "start" /\ UNCHANGED <<store, disk, validated, bounds>>
         /\ Stands(run, run')
         /\ Kept(run, saved') \/ saved' = run'
         /\ \/ run'.usage = run.usage
            \/ run'.usage = Reconciled(run.usage, Counted)
         /\ \/ job' = Idle /\ saved' = run'
            \/ /\ job'.at = "loop" /\ job'.before = store.calls
               /\ job'.kind = job.kind
               /\ run'.usage = Reconciled(run.usage, Counted)
               /\ CanDecide(run'.usage)
         /\ episode' = NewEpisode
<1> DEFINE u == Reconciled(run.usage, Counted)
<1>1. run \in Runs /\ store \in Stores /\ job \in Jobs
  BY DEF TypeInv
<1>2. u \in Usages
  BY <1>1, CountedType, ReconciledType DEF Runs
<1>3. episode' \in [failed : Nat, tried : Seq(Proposed)]
  BY DEF WorkerStarts, NewEpisode
<1>4. /\ job.at = "start" /\ UNCHANGED <<store, disk, validated, bounds>>
      /\ episode' = NewEpisode
  BY DEF WorkerStarts
<1>5. "failed" \in TaskRunStatuses /\ "exploring" \in TaskRunStatuses
  BY DEF TaskRunStatuses, ResumableStatuses, ActiveStatuses
<1>6. CASE MustStop(run)
  <2> DEFINE q == StoppedAt(run, "exploring")
  <2>1. run' = q /\ saved' = q /\ job' = Idle
    BY <1>6 DEF WorkerStarts, Return
  <2>2. q \in Runs /\ Kept(run, q)
    BY <1>1, StoppedAtType, StatusKeeps
  <2> HIDE DEF q
  <2>3. Stands(run, q) /\ q.usage = run.usage
    BY <2>2 DEF Kept, Stands, Runs
  <2>. QED
    BY <1>3, <1>4, <2>1, <2>2, <2>3, IdleType DEF TypeInv, bounds
<1>7. CASE ~ MustStop(run) /\ ~ CanDecide(u)
  <2> DEFINE q == [run EXCEPT !.usage = u, !.status = "failed"]
  <2>1. run' = q /\ saved' = q /\ job' = Idle
    BY <1>7 DEF WorkerStarts, Return
  <2> HIDE DEF u
  <2>2. q \in Runs /\ q.usage = u /\ Stands(run, q)
    BY <1>1, <1>2, <1>5 DEF Runs, Stands, Kept
  <2> HIDE DEF q
  <2>. QED
    BY <1>3, <1>4, <2>1, <2>2, IdleType DEF TypeInv, bounds, u
<1>8. CASE ~ MustStop(run) /\ CanDecide(u)
  <2> DEFINE q == [run EXCEPT !.usage = u, !.status = "exploring"]
             r == [run EXCEPT !.status = "exploring"]
             k == [job EXCEPT !.at = "loop", !.before = store.calls]
  <2>1. run' = q /\ saved' = r /\ job' = k
    BY <1>8 DEF WorkerStarts
  <2> HIDE DEF u
  <2>2. q \in Runs /\ q.usage = u /\ Stands(run, q)
    BY <1>1, <1>2, <1>5 DEF Runs, Stands, Kept
  <2>3. r \in Runs /\ Kept(run, r)
    BY <1>1, <1>5 DEF Runs, Stands, Kept
  <2>4. /\ k \in Jobs /\ k.at = "loop" /\ k.before = store.calls
        /\ k.kind = job.kind
    BY <1>1 DEF Jobs, Stores
  <2> HIDE DEF q, r, k
  <2>. QED
    BY <1>3, <1>4, <1>8, <2>1, <2>2, <2>3, <2>4 DEF TypeInv, bounds, u
<1>. QED
  BY <1>6, <1>7, <1>8

LEMMA AgentLoopStep ==
  ASSUME TypeInv, NEW blocked, AgentLoop(Rest, blocked)
  PROVE  /\ TypeInv'
         /\ job.at = "loop" /\ job'.at = "settle"
         /\ job'.kind = job.kind /\ job'.cycle = job.cycle
         /\ job'.before = job.before /\ job'.repair = job.repair
         /\ UNCHANGED <<run, saved, disk, episode, validated, bounds>>
         /\ \/ Waiting /\ store' = store /\ job'.out = Waits
            \/ ~ Waiting /\ LoopEnded(Rest, store', job'.out)
<1>1. /\ run \in Runs /\ store \in Stores /\ job \in Jobs /\ disk \in Contents
      /\ Rest.steps \in Nat /\ Rest.calls \in Nat
  BY RestType DEF TypeInv
<1>2. /\ job.at = "loop"
      /\ UNCHANGED <<run, saved, disk, episode, validated, bounds>>
  BY DEF AgentLoop
<1>3. \E out : /\ job' = [job EXCEPT !.at = "settle", !.out = out]
               /\ store' \in Stores /\ out \in Outcomes
               /\ \/ Waiting /\ store' = store /\ out = Waits
                  \/ ~ Waiting /\ LoopEnded(Rest, store', out)
  <2>1. CASE Waiting
    <3>1. Waits \in Outcomes
      BY DEF Waits, Outcome, Outcomes, Proposed
    <3>2. store' = store /\ job' = [job EXCEPT !.at = "settle", !.out = Waits]
      BY <2>1 DEF AgentLoop
    <3>. QED
      BY <1>1, <2>1, <3>1, <3>2
  <2>2. CASE ~ Waiting
    <3>1. PICK l \in Loops(Rest, blocked) :
            /\ store' = l[1]
            /\ job' = [job EXCEPT !.at = "settle", !.out = l[2]]
      BY <2>2 DEF AgentLoop
    <3>2. LoopEnded(Rest, l[1], l[2])
      BY <1>1, LoopsEnd
    <3>3. l[1] \in Stores /\ l[2] \in Outcomes
      BY <3>2 DEF LoopEnded
    <3>. QED
      BY <2>2, <3>1, <3>2, <3>3
  <2>. QED
    BY <2>1, <2>2
<1>4. PICK out : /\ job' = [job EXCEPT !.at = "settle", !.out = out]
                 /\ store' \in Stores /\ out \in Outcomes
                 /\ \/ Waiting /\ store' = store /\ out = Waits
                    \/ ~ Waiting /\ LoopEnded(Rest, store', out)
  BY <1>3
<1>5. /\ job' \in Jobs /\ job'.at = "settle" /\ job'.out = out
      /\ job'.kind = job.kind /\ job'.cycle = job.cycle
      /\ job'.before = job.before /\ job'.repair = job.repair
  BY <1>1, <1>4 DEF Jobs
<1>. QED
  BY <1>2, <1>4, <1>5 DEF TypeInv, bounds

LEMMA WorkerSettlesStep ==
  ASSUME TypeInv, WorkerSettles
  PROVE  /\ TypeInv'
         /\ job.at = "settle" /\ job.kind \in {"fresh", "resumed"}
         /\ UNCHANGED <<store, disk, episode, validated, bounds>>
         /\ saved' = run' /\ job' = Idle
         /\ \/ Kept(run, run') /\ job.out.what = "raised"
            \/ /\ run'.approval = store.offer /\ run'.question = store.question
               /\ run'.cycle = NoCycle /\ run'.pending = 0
               /\ run'.repair = NoRepair
               /\ run'.usage =
                    IF job.out.what = "raised" THEN run.usage
                    ELSE Used(run.usage, job.out.steps,
                              store.calls - job.before, 0)
<1>1. run \in Runs /\ store \in Stores /\ job \in Jobs
  BY DEF TypeInv
<1>2. /\ job.at = "settle" /\ job.kind \in {"fresh", "resumed"}
      /\ UNCHANGED <<store, disk, episode, validated, bounds>>
      /\ saved' = run' /\ job' = Idle
  BY DEF WorkerSettles, Return
<1>3. CASE job.out.what = "raised" /\ run' = [run EXCEPT !.status = "failed"]
  <2>1. run' \in Runs /\ Kept(run, run')
    BY <1>1, <1>3 DEF Runs, Kept, Stands, TaskRunStatuses, ResumableStatuses
  <2>. QED
    BY <1>2, <1>3, <2>1, IdleType DEF TypeInv, bounds
<1>4. ASSUME NEW made \in BOOLEAN, run' = WorkerReport(made)
      PROVE  /\ run' \in Runs
             /\ run'.approval = store.offer /\ run'.question = store.question
             /\ run'.cycle = NoCycle /\ run'.pending = 0
             /\ run'.repair = NoRepair
             /\ run'.usage =
                  IF job.out.what = "raised" THEN run.usage
                  ELSE Used(run.usage, job.out.steps,
                            store.calls - job.before, 0)
  <2> DEFINE a == job.out.steps
             b == store.calls - job.before
             charged == IF job.out.what = "raised" THEN run
                        ELSE Charged(run, a, b, 0)
             u == IF job.out.what = "raised" THEN run.usage
                  ELSE Used(run.usage, a, b, 0)
             proposed == made /\ ~ Exhausted(Budget, charged.usage)
             p == IF proposed THEN 1 ELSE 0
             zero == 0
             no == FALSE
             r == [charged EXCEPT !.approval = store.offer,
                     !.question = store.question, !.cycle = NoCycle,
                     !.pending = zero, !.repair = NoRepair, !.wrote = no,
                     !.proposal = p]
             write == store.offer.kind = "write"
             state == IF store.question # 0 THEN "awaiting_input"
                      ELSE IF proposed \/ write THEN "awaiting_approval"
                      ELSE "completed"
  <2>1. a \in Int /\ b \in Int
    <3>1. job.out \in Outcomes /\ store.calls \in Nat /\ job.before \in Nat
      BY <1>1 DEF Jobs, Stores
    <3>. QED
      BY <3>1 DEF Outcomes
  <2>2. charged \in Runs /\ charged.usage = u
    <3>1. CASE job.out.what = "raised"
      BY <1>1, <3>1
    <3>2. CASE job.out.what # "raised"
      <4>1. charged = Charged(run, a, b, 0)
        BY <3>2
      <4> HIDE DEF a, b, charged
      <4>2. charged \in Runs
        BY <1>1, <2>1, <4>1, ChargedType
      <4>3. charged.usage = Used(run.usage, a, b, 0)
        BY <1>1, <4>1, ChargedKeeps
      <4>. QED
        BY <3>2, <4>2, <4>3
    <3>. QED
      BY <3>1, <3>2
  <2>3. p \in {0, 1} /\ zero \in 0..MaxRepairs /\ no \in BOOLEAN
    BY LimitType
  <2>4. store.offer \in Approvals /\ store.question \in Nat
    BY <1>1 DEF Stores
  <2>5. run' = IF r.cancel \/ (r.pause /\ state # "completed")
               THEN StoppedAt(r, state)
               ELSE IF Exhausted(Budget, charged.usage)
               THEN [r EXCEPT !.status = "failed"]
               ELSE [r EXCEPT !.status = state,
                       !.pause = IF state = "completed" THEN FALSE ELSE @]
    BY <1>4 DEF WorkerReport
  <2> HIDE DEF charged, p, zero, no, a, b
  <2>6. /\ r \in Runs
        /\ r.approval = store.offer /\ r.question = store.question
        /\ r.cycle = NoCycle /\ r.pending = zero /\ r.repair = NoRepair
        /\ r.usage = charged.usage
    BY <2>2, <2>3, <2>4, NoCycleType, NoRepairType DEF Runs
  <2>7. state \in TaskRunStatuses /\ "failed" \in TaskRunStatuses
    BY DEF TaskRunStatuses, ResumableStatuses
  <2> HIDE DEF r, state
  <2>8. run' \in Runs /\ Kept(r, run')
    <3>1. CASE run' = StoppedAt(r, state)
      BY <2>6, <3>1, StoppedAtType, StatusKeeps
    <3>2. CASE run' = [r EXCEPT !.status = "failed"]
      BY <2>6, <2>7, <3>2 DEF Runs, Kept, Stands
    <3>3. CASE run' = [r EXCEPT !.status = state,
                         !.pause = IF state = "completed" THEN FALSE ELSE @]
      <4> DEFINE f == IF state = "completed" THEN FALSE ELSE r.pause
      <4>1. f \in BOOLEAN
        BY <2>6 DEF Runs
      <4> HIDE DEF f
      <4>2. run' = [r EXCEPT !.status = state, !.pause = f]
        BY <3>3 DEF f
      <4>. QED
        BY <2>6, <2>7, <4>1, <4>2 DEF Runs, Kept, Stands
    <3>. QED
      BY <2>5, <3>1, <3>2, <3>3
  <2>. QED
    BY <2>2, <2>6, <2>8 DEF Kept, Stands, u, a, b, zero
<1>. QED
  <2>1. \/ job.out.what = "raised" /\ run' = [run EXCEPT !.status = "failed"]
        \/ \E made \in BOOLEAN : run' = WorkerReport(made)
    BY DEF WorkerSettles, Return
  <2>. QED
    BY <1>2, <1>3, <1>4, <2>1, IdleType DEF TypeInv, bounds

(* A log with its approval answered and one tool call made.                *)
LEMMA AnsweredType ==
  ASSUME NEW s \in Stores, NEW q,
         q = Started([s EXCEPT !.offer = NoRequest], 1)
  PROVE  /\ q \in Stores
         /\ q.calls = s.calls + 1 /\ q.started = s.started + 1
         /\ q.steps = s.steps /\ q.commands = s.commands
         /\ q.offers = s.offers /\ q.offer = NoRequest
         /\ q.question = s.question /\ q.writes = s.writes
         /\ q.bound = s.bound
         /\ q.criteria = s.criteria /\ q.passed = s.passed
<1> DEFINE p == [s EXCEPT !.offer = NoRequest]
<1>1. /\ p \in Stores /\ p.offer = NoRequest
      /\ p.calls = s.calls /\ p.started = s.started
      /\ p.steps = s.steps /\ p.commands = s.commands
      /\ p.offers = s.offers
      /\ p.question = s.question /\ p.writes = s.writes /\ p.bound = s.bound
      /\ p.criteria = s.criteria /\ p.passed = s.passed
  BY NoRequestType DEF Stores
<1>2. q = Started(p, 1)
  OBVIOUS
<1> HIDE DEF p
<1>. QED
  BY <1>1, <1>2, StartedOnceType

LEMMA GrantWriteStep ==
  ASSUME TypeInv, GrantWrite
  PROVE  /\ TypeInv'
         /\ job.at = "idle" /\ run.status = "awaiting_approval"
         /\ run.approval.kind = "write" /\ run.approval = store.offer
         /\ Rest.calls >= 2
         /\ UNCHANGED <<run, saved, episode, bounds>>
         /\ store'.steps = store.steps /\ store'.commands = store.commands
         /\ store'.question = store.question
         /\ \/ /\ store'.offers = store.offers + 1
               /\ store'.offer.id = store'.offers /\ store'.offer.kind = "write"
               /\ store'.calls = store.calls /\ store'.started = store.started
               /\ job'.at = "refreshed" /\ job'.kind = "write"
               /\ job'.repair = Idle.repair /\ validated' = validated
            \/ /\ store'.offers = store.offers /\ store'.offer = NoRequest
               /\ store'.calls = store.calls + 1
               /\ store'.started = store.started + 1
               /\ \/ /\ job'.at = "record" /\ job'.kind = "write"
                     /\ job'.repair = Idle.repair /\ validated' = {}
                  \/ job' = job /\ validated' = validated
            \/ /\ store'.offers = store.offers /\ store'.offer = NoRequest
               /\ store'.calls = store.calls /\ store'.started = store.started
               /\ job' = job /\ validated' = validated
<1> DEFINE request == run.approval
           granted == [store EXCEPT !.offer = NoRequest]
           done == Started(granted, 1)
           left == Leaves(request.write, disk)
<1>1. run \in Runs /\ store \in Stores /\ job \in Jobs /\ disk \in Contents
      /\ validated \subseteq CommandSet
  BY DEF TypeInv
<1>2. /\ job.at = "idle" /\ run.status = "awaiting_approval"
      /\ run.approval.kind = "write" /\ run.approval = store.offer
      /\ Rest.calls >= 2
      /\ UNCHANGED <<run, saved, episode, bounds>>
  BY DEF GrantWrite, Approvable, Idling
<1>3. request.write \in Proposed /\ Offerable(request.write, request.base)
  BY <1>1, <1>2 DEF Runs, Approvals, Offerable, Proposed
<1>4. /\ done \in Stores
      /\ done.calls = store.calls + 1 /\ done.started = store.started + 1
      /\ done.steps = store.steps /\ done.commands = store.commands
      /\ done.offers = store.offers /\ done.offer = NoRequest
      /\ done.question = store.question /\ done.writes = store.writes
  BY <1>1, AnsweredType
<1>5. CASE /\ request.write \notin Patches
           /\ store' = Offered(store, "write", request.write, 0, disk)
           /\ job' = [Idle EXCEPT !.at = "refreshed", !.kind = "write"]
           /\ UNCHANGED <<disk, validated>>
  <2>1. /\ 0 \in 0..Len(Commands) /\ disk \in Contents \union {"none"}
        /\ "write" \in {"write", "validate"}
        /\ Offerable(request.write, disk)
    BY <1>1, <1>3, <1>5, LengthType, EditFits DEF Offerable
  <2>2. /\ store' \in Stores
        /\ store'.steps = store.steps /\ store'.commands = store.commands
        /\ store'.calls = store.calls /\ store'.started = store.started
        /\ store'.offers = store.offers + 1
        /\ store'.offer.id = store.offers + 1 /\ store'.offer.kind = "write"
        /\ store'.question = store.question
    BY <1>1, <1>3, <1>5, <2>1, RequestType
  <2>3. /\ job' \in Jobs /\ job'.at = "refreshed" /\ job'.kind = "write"
        /\ job'.repair = Idle.repair
    BY <1>5, IdleType DEF Jobs
  <2>. QED
    BY <1>1, <1>2, <1>5, <2>2, <2>3 DEF TypeInv, bounds
<1>6. CASE /\ disk = request.base
           /\ store' = [done EXCEPT !.writes = @ + 1]
           /\ disk' = left
           /\ validated' = {}
           /\ job' = [Idle EXCEPT !.at = "record", !.kind = "write",
                                  !.changed = disk # left]
  <2> DEFINE n == done.writes + 1
             c == disk # left
  <2>1. n \in Nat /\ c \in BOOLEAN /\ disk' \in Contents
    BY <1>3, <1>4, <1>6 DEF Stores, Offerable
  <2> HIDE DEF done, n, c
  <2>2. /\ store' \in Stores
        /\ store'.steps = done.steps /\ store'.commands = done.commands
        /\ store'.calls = done.calls /\ store'.started = done.started
        /\ store'.offers = done.offers /\ store'.offer = done.offer
        /\ store'.question = done.question
    BY <1>4, <1>6, <2>1 DEF Stores, n
  <2>3. /\ job' \in Jobs /\ job'.at = "record" /\ job'.kind = "write"
        /\ job'.repair = Idle.repair
    BY <1>6, <2>1, IdleType DEF Jobs, c
  <2>. QED
    BY <1>1, <1>2, <1>4, <1>6, <2>1, <2>2, <2>3 DEF TypeInv, bounds
<1>7. CASE store' = done /\ UNCHANGED <<disk, job, validated>>
  <2> HIDE DEF done
  <2>. QED
    BY <1>1, <1>2, <1>4, <1>7 DEF TypeInv, bounds
<1>8. CASE store' = granted /\ UNCHANGED <<disk, job, validated>>
  <2>1. /\ granted \in Stores
        /\ granted.calls = store.calls /\ granted.started = store.started
        /\ granted.steps = store.steps /\ granted.commands = store.commands
        /\ granted.offers = store.offers /\ granted.offer = NoRequest
        /\ granted.question = store.question
    BY <1>1, NoRequestType DEF Stores
  <2> HIDE DEF granted
  <2>. QED
    BY <1>1, <1>2, <1>8, <2>1 DEF TypeInv, bounds
<1>. QED
  BY <1>5, <1>6, <1>7, <1>8 DEF GrantWrite

LEMMA WriteRefreshedStep ==
  ASSUME TypeInv, WriteRefreshed
  PROVE  /\ TypeInv'
         /\ job.at = "refreshed" /\ job' = Idle /\ saved' = run'
         /\ UNCHANGED <<store, disk, episode, validated, bounds>>
         /\ run'.approval = store.offer /\ run'.cycle = run.cycle
         /\ run'.pending = run.pending /\ run'.repair = run.repair
         /\ run'.usage = Used(run.usage, 0, 1, 0)
         /\ run'.history = run.history
<1> DEFINE q == Charged(run, 0, 1, 0)
           s == "awaiting_approval"
<1>1. run \in Runs /\ store.offer \in Approvals
  BY DEF TypeInv, Stores
<1>2. /\ q \in Runs /\ Stands(run, q)
      /\ q.usage = Used(run.usage, 0, 1, 0) /\ q.history = run.history
  BY <1>1, ChargedType, ChargedKeeps DEF Stands
<1>3. s \in TaskRunStatuses
  BY DEF TaskRunStatuses
<1>4. run' = [q EXCEPT !.approval = store.offer, !.status = s]
  BY DEF WriteRefreshed, Return
<1> HIDE DEF q, s
<1>5. /\ run' \in Runs
      /\ run'.approval = store.offer /\ run'.cycle = run.cycle
      /\ run'.pending = run.pending /\ run'.repair = run.repair
      /\ run'.usage = q.usage /\ run'.history = q.history
  BY <1>1, <1>2, <1>3, <1>4 DEF Runs, Stands
<1>6. /\ job.at = "refreshed" /\ job' = Idle /\ saved' = run'
      /\ UNCHANGED <<store, disk, episode, validated, bounds>>
  BY DEF WriteRefreshed, Return
<1>. QED
  BY <1>2, <1>5, <1>6, IdleType DEF TypeInv, bounds

LEMMA RecordWriteStep ==
  ASSUME TypeInv, RecordWrite
  PROVE  /\ TypeInv'
         /\ job.at = "record"
         /\ UNCHANGED <<disk, episode, validated, bounds>>
         /\ store'.calls = store.calls + 1
         /\ store'.started = store.started + 1
         /\ store'.steps = store.steps /\ store'.commands = store.commands
         /\ store'.offers = store.offers /\ store'.offer = store.offer
         /\ store'.question = store.question
         /\ run'.usage = Used(run.usage, 0, 2, 0)
         /\ run'.cycle = run.cycle /\ run'.question = run.question
         /\ run'.repair = run.repair \/ run'.repair.required = FALSE
         /\ \/ /\ run'.approval = NoRequest /\ run'.pending = 0
               /\ saved' = run' /\ job' = Idle
            \/ /\ run'.approval = run.approval /\ run'.pending = run.pending
               /\ run'.history = run.history
               /\ saved' = saved /\ job'.at = "request"
               /\ job'.kind = job.kind /\ job'.repair = job.repair
<1> DEFINE t == ObserveWrite(run.history, run.pending, job.changed)
           u == Used(run.usage, 0, 2, 0)
           p == Charged(run, 0, 2, 0)
           q == [p EXCEPT !.wrote = TRUE]
           s == Started(store, 1)
<1>1. /\ run \in Runs /\ store \in Stores /\ job \in Jobs
      /\ run.history \in Histories /\ run.pending \in 0..MaxRepairs
  BY DEF TypeInv, Runs
<1>2. /\ t \in Transitions /\ t.required = FALSE
      /\ t.stop = "none" => t.history = run.history
  <2>1. t \in Transitions
    BY <1>1, ObserveWriteType
  <2>2. t.required = FALSE /\ (t.stop = "none" => t.history = run.history)
    BY DEF ObserveWrite, Transition
  <2>. QED
    BY <2>1, <2>2
<1>3. /\ p \in Runs /\ Stands(run, p) /\ p.usage = u
      /\ p.history = run.history
  BY <1>1, ChargedType, ChargedKeeps DEF Stands
<1>4. /\ job.at = "record"
      /\ UNCHANGED <<disk, episode, validated, bounds>>
      /\ store' = [s EXCEPT !.bound = TRUE, !.criteria = CommandSet,
                            !.passed = {}]
      /\ \/ /\ run' = StoppedRepair(q, t) /\ saved' = run' /\ job' = Idle
         \/ /\ run' \in {Applied(q, t), q} /\ saved' = saved
            /\ t.stop = "none"
            /\ job' = [job EXCEPT !.at = "request"]
  BY DEF RecordWrite, Return, GoOn
<1> HIDE DEF t, p, u
<1>5. /\ q \in Runs /\ Stands(run, q) /\ q.usage = u
      /\ q.history = run.history
  BY <1>3 DEF Runs, Stands
<1>6. /\ s \in Stores
      /\ s.calls = store.calls + 1 /\ s.started = store.started + 1
      /\ s.steps = store.steps /\ s.commands = store.commands
      /\ s.offers = store.offers /\ s.offer = store.offer
      /\ s.question = store.question
  BY <1>1, StartedOnceType
<1> HIDE DEF q, s
<1>7. /\ store' \in Stores
      /\ store'.calls = s.calls /\ store'.started = s.started
      /\ store'.steps = s.steps /\ store'.commands = s.commands
      /\ store'.offers = s.offers /\ store'.offer = s.offer
      /\ store'.question = s.question
  BY <1>4, <1>6 DEF Stores
<1>8. CASE run' = StoppedRepair(q, t) /\ saved' = run' /\ job' = Idle
  <2>1. run' \in Runs
    BY <1>2, <1>5, <1>8, StoppedRepairType
  <2>2. /\ run'.approval = NoRequest /\ run'.pending = 0
        /\ run'.cycle = q.cycle /\ run'.usage = q.usage
        /\ run'.question = q.question
        /\ run'.repair = [required |-> t.required, attempt |-> t.attempt,
                          trigger |-> t.trigger]
    BY <1>2, <1>5, <1>8, StoppedRepairKeeps
  <2>. QED
    BY <1>2, <1>4, <1>5, <1>6, <1>7, <1>8, <2>1, <2>2, IdleType
       DEF TypeInv, bounds, Stands, u
<1>9. CASE /\ run' \in {Applied(q, t), q} /\ saved' = saved
           /\ t.stop = "none"
           /\ job' = [job EXCEPT !.at = "request"]
  <2>1. /\ run' \in Runs
        /\ run'.approval = q.approval /\ run'.pending = q.pending
        /\ run'.cycle = q.cycle /\ run'.usage = q.usage
        /\ run'.question = q.question /\ run'.history = run.history
        /\ run'.repair = q.repair \/ run'.repair.required = FALSE
    <3>1. CASE run' = q
      BY <1>5, <3>1
    <3>2. CASE run' = Applied(q, t)
      <4>1. run' \in Runs
        BY <1>2, <1>5, <3>2, AppliedType
      <4>2. /\ run'.approval = q.approval /\ run'.pending = q.pending
            /\ run'.cycle = q.cycle /\ run'.usage = q.usage
            /\ run'.question = q.question /\ run'.history = t.history
            /\ run'.repair = [required |-> t.required, attempt |-> t.attempt,
                              trigger |-> t.trigger]
        BY <1>2, <1>5, <3>2, AppliedKeeps
      <4>. QED
        BY <1>2, <1>9, <4>1, <4>2
    <3>. QED
      BY <1>9, <3>1, <3>2
  <2>2. /\ job' \in Jobs /\ job'.at = "request"
        /\ job'.kind = job.kind /\ job'.repair = job.repair
    BY <1>1, <1>9 DEF Jobs
  <2>. QED
    BY <1>4, <1>5, <1>6, <1>7, <1>9, <2>1, <2>2 DEF TypeInv, bounds, Stands, u
<1>. QED
  BY <1>4, <1>8, <1>9

LEMMA RequestValidationStep ==
  ASSUME TypeInv, RequestValidation
  PROVE  /\ TypeInv'
         /\ job.at = "request"
         /\ UNCHANGED <<run, saved, disk, episode, validated, bounds>>
         /\ store'.steps = store.steps /\ store'.commands = store.commands
         /\ store'.calls = store.calls /\ store'.started = store.started
         /\ store'.question = store.question
         /\ job'.kind = job.kind /\ job'.repair = job.repair
         /\ job'.cycle = Building
         /\ \/ /\ job'.at = "requested"
               /\ store'.offers = store.offers + 1
               /\ store'.offer.id = store'.offers
               /\ store'.offer.kind = "validate"
               /\ store'.offer.index = Building.next
            \/ job'.at = "unrequested" /\ store' = store
<1> DEFINE b == Building
<1>1. /\ run \in Runs /\ store \in Stores /\ job \in Jobs
      /\ run.pending \in 0..MaxRepairs
  BY DEF TypeInv, Runs
<1>2. b \in Cycles
  <2>1. NewCycle(run.pending) \in Cycles
    BY <1>1, LengthType DEF NewCycle, Cycle, Cycles, Stores
  <2>. QED
    BY <1>1, <2>1 DEF Building, Jobs
<1>3. /\ job.at = "request"
      /\ UNCHANGED <<run, saved, disk, episode, validated, bounds>>
      /\ \/ /\ b.next <= Len(Commands)
            /\ store' = Offered(store, "validate", "none", b.next, "none")
            /\ job' = [job EXCEPT !.at = "requested", !.cycle = b]
         \/ store' = store /\ job' = [job EXCEPT !.at = "unrequested", !.cycle = b]
  BY DEF RequestValidation
<1> DEFINE i == b.next
<1>9. job'.cycle = b => job'.cycle = Building
  OBVIOUS
<1>10. i = Building.next
  OBVIOUS
<1> HIDE DEF b
<1>4. CASE /\ i <= Len(Commands)
           /\ store' = Offered(store, "validate", "none", i, "none")
           /\ job' = [job EXCEPT !.at = "requested", !.cycle = b]
  <2>1. i \in 0..Len(Commands)
    BY <1>2, <1>4, LengthType DEF Cycles
  <2> HIDE DEF i
  <2>5. "none" \in Proposed /\ "validate" \in {"write", "validate"}
    BY DEF Proposed
  <2>2. /\ store' \in Stores
        /\ store'.steps = store.steps /\ store'.commands = store.commands
        /\ store'.calls = store.calls /\ store'.started = store.started
        /\ store'.question = store.question
        /\ store'.offers = store.offers + 1
        /\ store'.offer.id = store.offers + 1
        /\ store'.offer.kind = "validate" /\ store'.offer.index = i
    BY <1>1, <1>4, <2>1, <2>5, RequestType
  <2>3. /\ job' \in Jobs /\ job'.at = "requested" /\ job'.kind = job.kind
        /\ job'.repair = job.repair /\ job'.cycle = b
    BY <1>1, <1>2, <1>4 DEF Jobs
  <2>. QED
    BY <1>3, <1>9, <1>10, <2>2, <2>3 DEF TypeInv, bounds
<1>5. CASE store' = store /\ job' = [job EXCEPT !.at = "unrequested", !.cycle = b]
  <2>3. /\ job' \in Jobs /\ job'.at = "unrequested" /\ job'.kind = job.kind
        /\ job'.repair = job.repair /\ job'.cycle = b
    BY <1>1, <1>2, <1>5 DEF Jobs
  <2>. QED
    BY <1>1, <1>3, <1>9, <1>5, <2>3 DEF TypeInv, bounds
<1>. QED
  BY <1>3, <1>4, <1>5

LEMMA RequestedStep ==
  ASSUME TypeInv, Requested
  PROVE  /\ TypeInv'
         /\ job.at \in {"requested", "unrequested"}
         /\ job' = Idle /\ saved' = run'
         /\ UNCHANGED <<store, disk, episode, validated, bounds>>
         /\ run'.approval = IF job.at = "requested" THEN store.offer
                            ELSE NoRequest
         /\ run'.cycle = job.cycle /\ run'.usage = run.usage
         /\ run'.pending = IF job.kind = "write" THEN 0 ELSE run.pending
         /\ run'.repair = run.repair /\ run'.question = run.question
         /\ run'.history = run.history
<1> DEFINE a == IF job.at = "requested" THEN store.offer ELSE NoRequest
           c == job.cycle
           p == IF job.kind = "write" THEN 0 ELSE run.pending
           s == IF job.at = "requested" THEN "awaiting_approval"
                ELSE "review_pending"
<1>1. run \in Runs /\ store \in Stores /\ job \in Jobs
  BY DEF TypeInv
<1>2. a \in Approvals
  BY <1>1, NoRequestType DEF Stores
<1>3. c \in Cycles /\ p \in 0..MaxRepairs /\ s \in TaskRunStatuses
  BY <1>1, LimitType DEF Jobs, Runs, TaskRunStatuses
<1>4. /\ job.at \in {"requested", "unrequested"}
      /\ run' = [run EXCEPT !.approval = a, !.cycle = c, !.pending = p,
                            !.status = s]
      /\ saved' = run' /\ job' = Idle
      /\ UNCHANGED <<store, disk, episode, validated, bounds>>
  BY DEF Requested, Return
<1> HIDE DEF a, c, p, s
<1>5. /\ run' \in Runs
      /\ run'.approval = a /\ run'.cycle = c /\ run'.pending = p
      /\ run'.usage = run.usage
      /\ run'.repair = run.repair /\ run'.question = run.question
      /\ run'.history = run.history
  BY <1>1, <1>2, <1>3, <1>4 DEF Runs
<1>. QED
  BY <1>4, <1>5, IdleType DEF TypeInv, bounds, a, c, p

(* The cycle after the result of its next command.                         *)
Advanced(c) ==
  /\ c \in Cycles /\ c.next = run.cycle.next + 1
  /\ c.attempt = run.cycle.attempt

LEMMA GrantValidationStep ==
  ASSUME TypeInv, NEW failure \in Failures \union {"none"},
         GrantValidation(failure)
  PROVE  LET i == run.cycle.next
             passed == failure = "none"
             t == ObserveValidation(run.history, run.cycle.attempt, MaxRepairs,
                                    failure)
         IN  /\ TypeInv'
             /\ job.at = "idle" /\ run.approval.kind = "validate"
             /\ run.approval = store.offer /\ run.approval.index = i
             /\ i \in 1..Len(Commands)
             /\ Rest.calls >= 1 /\ Rest.commands >= 1
             /\ UNCHANGED <<disk, bounds>>
             /\ store'.calls = store.calls + 1
             /\ store'.started = store.started + 1
             /\ store'.commands = store.commands + 1
             /\ store'.steps = store.steps
             /\ store'.offers = store.offers /\ store'.offer = NoRequest
             /\ store'.question = store.question
             /\ validated' = IF passed THEN validated \union {Commands[i]}
                             ELSE validated \ {Commands[i]}
             /\ episode' = IF ~ passed
                           THEN [episode EXCEPT !.failed = @ + 1]
                           ELSE IF i = Len(Commands) THEN NewEpisode
                           ELSE episode
             /\ run'.usage = Used(run.usage, 0, 1, 1)
             /\ t \in Transitions
             /\ \/ /\ passed /\ i < Len(Commands)
                   /\ Stands(run, run') /\ saved' = saved
                   /\ run'.history = run.history
                   /\ job'.at = "request" /\ job'.kind = "validate"
                   /\ Advanced(job'.cycle) /\ job'.repair = Idle.repair
                \/ /\ ~ passed \/ i = Len(Commands)
                   /\ t.stop # "none" /\ saved' = run' /\ job' = Idle
                   /\ run'.approval = NoRequest /\ run'.pending = 0
                   /\ run'.question = run.question /\ Advanced(run'.cycle)
                   /\ run'.repair.required = t.required
                   /\ run'.repair.attempt = t.attempt
                \/ /\ ~ passed \/ i = Len(Commands)
                   /\ t.stop = "none"
                   /\ Stands(run, run') /\ saved' = saved
                   /\ run'.history = t.history
                   /\ job'.at \in {"loop", "unconfigured", "exhausted"}
                   /\ job'.kind = "validate"
                   /\ Advanced(job'.cycle) /\ job'.repair = t
                   /\ job'.before = store.started + 1
<1> DEFINE i == run.cycle.next
           passed == failure = "none"
           command == Commands[i]
           cycle == Cycle(run.cycle.write, i + 1,
                          Append(run.cycle.passed, passed), run.cycle.attempt)
           charged == Charged(run, 0, 1, 1)
           t == ObserveValidation(run.history, cycle.attempt, MaxRepairs,
                                  failure)
           done == Started([store EXCEPT !.offer = NoRequest], 1)
           u == Used(run.usage, 0, 1, 1)
<1>1. /\ run \in Runs /\ store \in Stores /\ job \in Jobs
      /\ run.history \in Histories /\ run.cycle \in Cycles
      /\ validated \subseteq CommandSet
      /\ episode \in [failed : Nat, tried : Seq(Proposed)]
  BY DEF TypeInv, Runs
<1>2. /\ job.at = "idle" /\ run.approval.kind = "validate"
      /\ run.approval = store.offer /\ run.approval.index = i
      /\ i <= Len(Commands)
      /\ Rest.calls >= 1 /\ Rest.commands >= 1
      /\ UNCHANGED <<disk, bounds>>
  BY DEF GrantValidation, Approvable, Idling, CycleFits
<1>3. /\ i \in 1..Len(Commands) /\ i \in DOMAIN Commands
      /\ command \in CommandSet
      /\ run.cycle.attempt \in 0..MaxRepairs
  BY <1>1, <1>2, LengthType, ValidationCycleAssumption DEF Cycles, CommandSet
<1>4. cycle \in Cycles /\ Advanced(cycle)
  <2>1. Append(run.cycle.passed, passed) \in Seq(BOOLEAN)
    <3> DEFINE b == passed
    <3>1. b \in BOOLEAN /\ run.cycle.passed \in Seq(BOOLEAN)
      BY <1>1 DEF Cycles
    <3> HIDE DEF b
    <3>2. Append(run.cycle.passed, b) \in Seq(BOOLEAN)
      BY <3>1
    <3>. QED
      BY <3>2 DEF b
  <2>2. i + 1 \in 1..(Len(Commands) + 1)
    BY <1>3, LengthType
  <2>3. run.cycle.write \in Nat
    BY <1>1 DEF Cycles
  <2> DEFINE n == i + 1
             p == Append(run.cycle.passed, passed)
             a == run.cycle.attempt
             w == run.cycle.write
  <2>4. n \in 1..(Len(Commands) + 1) /\ p \in Seq(BOOLEAN)
        /\ a \in 0..MaxRepairs /\ w \in Nat
    BY <1>3, <2>1, <2>2, <2>3
  <2> HIDE DEF n, p, a, w
  <2>5. /\ Cycle(w, n, p, a) \in Cycles /\ Cycle(w, n, p, a).next = n
        /\ Cycle(w, n, p, a).attempt = a
    BY <2>4 DEF Cycle, Cycles
  <2>6. cycle = Cycle(w, n, p, a) /\ n = run.cycle.next + 1
        /\ a = run.cycle.attempt
    BY DEF n, p, a, w
  <2> HIDE DEF cycle
  <2>. QED
    BY <2>5, <2>6 DEF Advanced
<1>5. /\ t \in Transitions
      /\ t = ObserveValidation(run.history, run.cycle.attempt, MaxRepairs,
                               failure)
  <2> HIDE DEF cycle
  <2>. QED
    BY <1>1, <1>3, <1>4, ObserveValidationType DEF Fingerprints, Advanced
<1>6. /\ charged \in Runs /\ Stands(run, charged) /\ charged.usage = u
      /\ charged.history = run.history
  BY <1>1, ChargedType, ChargedKeeps DEF Stands
<1>7. /\ done \in Stores
      /\ done.calls = store.calls + 1 /\ done.started = store.started + 1
      /\ done.steps = store.steps /\ done.commands = store.commands
      /\ done.offers = store.offers /\ done.offer = NoRequest
      /\ done.question = store.question
  BY <1>1, AnsweredType
<1>8. /\ store' \in Stores
      /\ store'.calls = done.calls /\ store'.started = done.started
      /\ store'.steps = done.steps /\ store'.commands = done.commands + 1
      /\ store'.offers = done.offers /\ store'.offer = done.offer
      /\ store'.question = done.question
  <2> DEFINE k == done.commands + 1
             v == IF passed THEN done.passed \union {command}
                  ELSE done.passed \ {command}
  <2>1. store' = [done EXCEPT !.commands = k, !.passed = v]
    BY <1>2 DEF GrantValidation
  <2> HIDE DEF done
  <2>2. k \in Nat /\ v \in SUBSET CommandSet
    BY <1>3, <1>7 DEF Stores
  <2> HIDE DEF v, k
  <2>3. /\ store' \in Stores
        /\ store'.calls = done.calls /\ store'.started = done.started
        /\ store'.steps = done.steps /\ store'.commands = k
        /\ store'.offers = done.offers /\ store'.offer = done.offer
        /\ store'.question = done.question
    BY <1>7, <2>1, <2>2 DEF Stores
  <2>. QED
    BY <2>3 DEF k
<1>9. /\ validated' = IF passed THEN validated \union {command}
                      ELSE validated \ {command}
      /\ episode' = IF ~ passed THEN [episode EXCEPT !.failed = @ + 1]
                    ELSE IF i = Len(Commands) THEN NewEpisode ELSE episode
  BY <1>2 DEF GrantValidation
<1>10. /\ validated' \subseteq CommandSet
       /\ episode' \in [failed : Nat, tried : Seq(Proposed)]
  BY <1>1, <1>3, <1>9 DEF NewEpisode
<1> DEFINE observed == [Applied(charged, t) EXCEPT !.cycle = cycle,
                                                   !.approval = NoRequest]
<1>11. \/ /\ passed /\ i < Len(Commands) /\ run' = charged
          /\ job' = [Idle EXCEPT !.at = "request", !.kind = "validate",
                                 !.cycle = cycle]
          /\ saved' = saved
       \/ /\ ~ passed \/ i >= Len(Commands)
          /\ t.stop # "none"
          /\ run' = StoppedRepair(observed, t) /\ saved' = run' /\ job' = Idle
       \/ /\ ~ passed \/ i >= Len(Commands)
          /\ t.stop = "none"
          /\ run' = [charged EXCEPT !.history = t.history]
          /\ \E point \in {"loop", "unconfigured", "exhausted"} :
               job' = [Idle EXCEPT !.at = point, !.kind = "validate",
                                   !.cycle = cycle, !.repair = t,
                                   !.before = store.started + 1]
          /\ saved' = saved
  <2>1. IF passed /\ i < Len(Commands)
        THEN /\ run' = charged
             /\ job' = [Idle EXCEPT !.at = "request", !.kind = "validate",
                                    !.cycle = cycle]
             /\ UNCHANGED saved
        ELSE IF t.stop # "none" THEN Return(StoppedRepair(observed, t))
        ELSE \E point \in {"loop", "unconfigured"} :
             /\ run' = [charged EXCEPT !.history = t.history]
             /\ job' = [Idle EXCEPT !.at = IF CanDecide(charged.usage)
                                           THEN point ELSE "exhausted",
                                    !.kind = "validate", !.cycle = cycle,
                                    !.repair = t, !.before = store.started + 1]
             /\ UNCHANGED saved
    BY <1>2 DEF GrantValidation
  <2> HIDE DEF t, u, charged, done, cycle, command, observed
  <2>2. CASE passed /\ i < Len(Commands)
    BY <2>1, <2>2
  <2>3. CASE (~ passed \/ i >= Len(Commands)) /\ t.stop # "none"
    BY <1>3, <2>1, <2>3, LengthType DEF Return
  <2>4. CASE (~ passed \/ i >= Len(Commands)) /\ t.stop = "none"
    <3> DEFINE at(point) == IF CanDecide(charged.usage) THEN point
                            ELSE "exhausted"
    <3>1. PICK point \in {"loop", "unconfigured"} :
            /\ run' = [charged EXCEPT !.history = t.history]
            /\ job' = [Idle EXCEPT !.at = at(point),
                         !.kind = "validate", !.cycle = cycle,
                         !.repair = t, !.before = store.started + 1]
            /\ UNCHANGED saved
      BY <1>3, <2>1, <2>4, LengthType
    <3>2. at(point) \in {"loop", "unconfigured", "exhausted"}
      OBVIOUS
    <3> HIDE DEF at
    <3>. QED
      BY <2>4, <3>1, <3>2
  <2>. QED
    BY <1>3, <2>2, <2>3, <2>4, LengthType
<1> HIDE DEF t, u, charged, done, cycle, command
<1>12. CASE /\ passed /\ i < Len(Commands) /\ run' = charged
            /\ job' = [Idle EXCEPT !.at = "request", !.kind = "validate",
                                   !.cycle = cycle]
            /\ saved' = saved
  <2>1. /\ job' \in Jobs /\ job'.at = "request" /\ job'.kind = "validate"
        /\ job'.cycle = cycle /\ job'.repair = Idle.repair
    BY <1>4, <1>12, IdleType DEF Jobs
  <2>2. TypeInv'
    BY <1>2, <1>6, <1>8, <1>10, <1>12, <2>1 DEF TypeInv, bounds
  <2>. QED
    BY <1>2, <1>3, <1>4, <1>5, <1>6, <1>7, <1>8, <1>9, <1>12, <2>1, <2>2
       DEF u, command
<1>13. CASE /\ ~ passed \/ i >= Len(Commands)
            /\ t.stop # "none"
            /\ run' = StoppedRepair(observed, t) /\ saved' = run' /\ job' = Idle
  <2> DEFINE p == Applied(charged, t)
  <2>8. p = Applied(charged, t)
    OBVIOUS
  <2> HIDE DEF p
  <2>1. p \in Runs /\ p.question = run.question /\ p.usage = u
    <3>1. p \in Runs
      BY <1>5, <1>6, <2>8, AppliedType
    <3>2. charged \in Runs /\ t \in Transitions
      BY <1>5, <1>6
    <3>3. /\ p.approval = charged.approval /\ p.cycle = charged.cycle
          /\ p.pending = charged.pending /\ p.usage = charged.usage
          /\ p.question = charged.question /\ p.status = charged.status
          /\ p.repair = [required |-> t.required, attempt |-> t.attempt,
                         trigger |-> t.trigger]
          /\ p.history = t.history
      BY <2>8, <3>2, AppliedKeeps
    <3>. QED
      BY <1>6, <3>1, <3>3 DEF Stands
  <2>2. /\ observed \in Runs /\ observed.cycle = cycle
        /\ observed.question = run.question /\ observed.usage = u
    BY <1>4, <2>1, NoRequestType DEF Runs, p
  <2> HIDE DEF observed
  <2>3. run' \in Runs
    BY <1>5, <1>13, <2>2, StoppedRepairType
  <2>4. /\ run'.approval = NoRequest /\ run'.pending = 0
        /\ run'.cycle = observed.cycle /\ run'.usage = observed.usage
        /\ run'.question = observed.question
        /\ run'.repair = [required |-> t.required, attempt |-> t.attempt,
                          trigger |-> t.trigger]
    BY <1>5, <1>13, <2>2, StoppedRepairKeeps
  <2>5. TypeInv'
    BY <1>2, <1>8, <1>10, <1>13, <2>3, IdleType DEF TypeInv, bounds
  <2>6. i >= Len(Commands) => i = Len(Commands)
    BY <1>3, LengthType
  <2>7. run'.repair.required = t.required /\ run'.repair.attempt = t.attempt
    BY <2>4
  <2>. QED
    BY <1>2, <1>3, <1>4, <1>5, <1>7, <1>8, <1>9, <1>13, <2>2, <2>4, <2>5,
       <2>6, <2>7 DEF u, command
<1>14. CASE /\ ~ passed \/ i >= Len(Commands)
            /\ t.stop = "none"
            /\ run' = [charged EXCEPT !.history = t.history]
            /\ \E point \in {"loop", "unconfigured", "exhausted"} :
                 job' = [Idle EXCEPT !.at = point, !.kind = "validate",
                                     !.cycle = cycle, !.repair = t,
                                     !.before = store.started + 1]
            /\ saved' = saved
  <2> DEFINE h == t.history
             n == store.started + 1
  <2>1. h \in Histories /\ n \in Nat
    BY <1>1, <1>5 DEF Transitions, Stores
  <2> HIDE DEF h
  <2>2. /\ run' \in Runs /\ Stands(run, run') /\ run'.usage = u
        /\ run'.history = t.history
    BY <1>6, <1>14, <2>1 DEF Runs, Stands, h
  <2>3. PICK point \in {"loop", "unconfigured", "exhausted"} :
          job' = [Idle EXCEPT !.at = point, !.kind = "validate",
                              !.cycle = cycle, !.repair = t, !.before = n]
    BY <1>14
  <2> HIDE DEF n
  <2>4. /\ job' \in Jobs /\ job'.at = point /\ job'.kind = "validate"
        /\ job'.cycle = cycle /\ job'.repair = t /\ job'.before = n
    BY <1>4, <1>5, <2>1, <2>3, IdleType DEF Jobs
  <2>5. TypeInv'
    BY <1>2, <1>8, <1>10, <1>14, <2>2, <2>4 DEF TypeInv, bounds
  <2>6. i >= Len(Commands) => i = Len(Commands)
    BY <1>3, LengthType
  <2>. QED
    BY <1>2, <1>3, <1>4, <1>5, <1>7, <1>8, <1>9, <1>14, <2>2, <2>4, <2>5,
       <2>6 DEF u, command, n
<1>. QED
  BY <1>11, <1>12, <1>13, <1>14

LEMMA NextAttemptType ==
  ASSUME NEW t \in Transitions
  PROVE  /\ NextAttempt(t, MaxRepairs) \in 0..MaxRepairs
         /\ NextAttempt(t, MaxRepairs) \in {0, t.attempt + 1}
  BY LimitType DEF NextAttempt, Transitions

LEMMA ActiveRepairType ==
  ASSUME NEW r \in Runs
  PROVE  /\ ActiveRepair(r) \in Transitions
         /\ ActiveRepair(r).required = r.repair.required
         /\ r.repair.required => ActiveRepair(r).attempt = r.repair.attempt
<1>1. /\ r.history \in Histories /\ r.repair.attempt \in 0..MaxRepairs
      /\ r.repair.trigger \in Fingerprints /\ r.repair.required \in BOOLEAN
      /\ 0 \in 0..MaxRepairs
  BY LimitType DEF Runs, Repairs
<1>2. CASE r.repair.required
  BY <1>1, <1>2 DEF ActiveRepair, Transition, Transitions, StopReasons
<1>3. CASE ~ r.repair.required
  BY <1>1, <1>3
     DEF ActiveRepair, Transition, Transitions, StopReasons, Fingerprints
<1>. QED
  BY <1>2, <1>3

LEMMA ValidationEndsStep ==
  ASSUME TypeInv, ValidationEnds
  PROVE  /\ TypeInv'
         /\ job.at \in {"unconfigured", "exhausted"}
         /\ UNCHANGED <<store, disk, episode, validated, bounds>>
         /\ saved' = run' /\ job' = Idle
         /\ run'.approval = NoRequest /\ run'.cycle = job.cycle
         /\ run'.usage = run.usage /\ run'.question = run.question
<1> DEFINE t == job.repair
           a == Applied(run, t)
           c == job.cycle
           n == NextAttempt(t, MaxRepairs)
           stop == StopRepair(t.history, n, "execution_budget_exhausted",
                              t.trigger)
           q == [a EXCEPT !.cycle = c, !.approval = NoRequest]
           s == "review_pending"
<1>1. /\ run \in Runs /\ job \in Jobs /\ t \in Transitions /\ c \in Cycles
      /\ t.history \in Histories /\ t.trigger \in Fingerprints
  BY DEF TypeInv, Jobs, Transitions
<1>2. stop \in Transitions
  BY <1>1, NextAttemptType, StopRepairType DEF StopReasons
<1>3. a \in Runs /\ a.usage = run.usage /\ a.question = run.question
  <2>1. a \in Runs
    BY <1>1, AppliedType
  <2>2. a.usage = run.usage /\ a.question = run.question
    BY <1>1 DEF Applied, Runs
  <2>. QED
    BY <2>1, <2>2
<1>4. s \in TaskRunStatuses
  BY DEF TaskRunStatuses
<1>5. /\ job.at \in {"unconfigured", "exhausted"}
      /\ UNCHANGED <<store, disk, episode, validated, bounds>>
      /\ run' = StoppedRepair(q, stop) \/ run' = [q EXCEPT !.status = s]
      /\ saved' = run' /\ job' = Idle
  BY DEF ValidationEnds, Return
<1> HIDE DEF a, c, stop, s, t
<1>6. /\ q \in Runs /\ q.approval = NoRequest /\ q.cycle = c
      /\ q.usage = a.usage /\ q.question = a.question
  BY <1>1, <1>3, NoRequestType DEF Runs
<1> HIDE DEF q
<1>7. /\ run' \in Runs
      /\ run'.approval = NoRequest /\ run'.cycle = c
      /\ run'.usage = q.usage /\ run'.question = q.question
  <2>1. CASE run' = StoppedRepair(q, stop)
    <3>1. run' \in Runs
      BY <1>2, <1>6, <2>1, StoppedRepairType
    <3>2. /\ run'.approval = NoRequest /\ run'.pending = 0
          /\ run'.status = "failed"
          /\ run'.cycle = q.cycle /\ run'.usage = q.usage
          /\ run'.question = q.question
          /\ run'.repair = [required |-> stop.required,
                            attempt |-> stop.attempt,
                            trigger |-> stop.trigger]
      BY <1>2, <1>6, <2>1, StoppedRepairKeeps
    <3>. QED
      BY <1>6, <3>1, <3>2
  <2>2. CASE run' = [q EXCEPT !.status = s]
    BY <1>4, <1>6, <2>2 DEF Runs
  <2>. QED
    BY <1>5, <2>1, <2>2
<1>. QED
  BY <1>3, <1>5, <1>6, <1>7, IdleType DEF TypeInv, bounds, c

LEMMA AnswerStep ==
  ASSUME TypeInv, Answer
  PROVE  /\ TypeInv'
         /\ job.at = "idle" /\ run.question # 0
         /\ run.question = store.question
         /\ UNCHANGED <<saved, disk, episode, validated, bounds>>
         /\ store'.steps = store.steps /\ store'.calls = store.calls
         /\ store'.commands = store.commands
         /\ store'.started = store.started
         /\ store'.offers = store.offers /\ store'.offer = store.offer
         /\ store'.question = 0
         /\ Stands(run, run') /\ run'.history = run.history
         /\ run'.usage = Reconciled(run.usage, Counted)
         /\ CanDecide(run'.usage)
         /\ job'.at = "loop" /\ job'.kind = "answer" /\ job'.cycle = run.cycle
         /\ job'.before = store.calls /\ job'.repair = ActiveRepair(run)
<1> DEFINE u == Reconciled(run.usage, Counted)
           t == ActiveRepair(run)
           c == run.cycle
           b == store.calls
           zero == 0
<1>1. /\ run \in Runs /\ store \in Stores /\ job \in Jobs
      /\ c \in Cycles /\ b \in Nat /\ zero \in Nat
  BY DEF TypeInv, Runs, Stores
<1>2. u \in Usages
  BY <1>1, CountedType, ReconciledType DEF Runs
<1>3. t \in Transitions
  BY <1>1, ActiveRepairType
<1>4. /\ job.at = "idle" /\ run.question # 0 /\ run.question = store.question
      /\ UNCHANGED <<saved, disk, episode, validated, bounds>>
      /\ store' = [store EXCEPT !.question = zero]
      /\ run' = [run EXCEPT !.usage = u]
      /\ job' = [Idle EXCEPT !.at = "loop", !.kind = "answer", !.cycle = c,
                             !.repair = t, !.before = b]
      /\ CanDecide(u)
  BY DEF Answer, Idling
<1> HIDE DEF u, t, c, b, zero
<1>5. /\ store' \in Stores
      /\ store'.steps = store.steps /\ store'.calls = store.calls
      /\ store'.commands = store.commands
      /\ store'.started = store.started
      /\ store'.offers = store.offers /\ store'.offer = store.offer
      /\ store'.question = zero
  BY <1>1, <1>4 DEF Stores
<1>6. /\ run' \in Runs /\ Stands(run, run') /\ run'.usage = u
      /\ run'.history = run.history
  BY <1>1, <1>2, <1>4 DEF Runs, Stands
<1>7. /\ job' \in Jobs /\ job'.at = "loop" /\ job'.kind = "answer"
      /\ job'.cycle = c /\ job'.before = b /\ job'.repair = t
  BY <1>1, <1>3, <1>4, IdleType DEF Jobs
<1>. QED
  BY <1>4, <1>5, <1>6, <1>7 DEF TypeInv, bounds, u, t, c, b, zero

LEMMA RejectStep ==
  ASSUME TypeInv, Reject
  PROVE  /\ TypeInv'
         /\ job.at = "idle" /\ run.approval.kind \in {"write", "validate"}
         /\ run.approval = store.offer
         /\ UNCHANGED <<disk, episode, validated, bounds>>
         /\ store'.steps = store.steps /\ store'.calls = store.calls
         /\ store'.commands = store.commands
         /\ store'.started = store.started
         /\ store'.offers = store.offers /\ store'.offer = NoRequest
         /\ store'.question = store.question
         /\ saved' = run' /\ job' = Idle
         /\ run'.approval = NoRequest /\ run'.cycle = run.cycle
         /\ run'.usage = run.usage /\ run'.question = run.question
<1> DEFINE write == run.approval.kind = "write"
           n == IF write THEN run.pending ELSE run.cycle.attempt
           t == StopRepair(run.history, n, "approval_rejected",
                           LatestFailure(run.history))
           p == IF write THEN 0 ELSE run.pending
           s == "cancelled"
           q == [run EXCEPT !.approval = NoRequest, !.status = s,
                            !.pending = p]
<1>1. /\ run \in Runs /\ store \in Stores /\ job \in Jobs
      /\ run.history \in Histories /\ run.pending \in 0..MaxRepairs
      /\ run.cycle.attempt \in 0..MaxRepairs
  BY DEF TypeInv, Runs, Cycles
<1>2. t \in Transitions
  BY <1>1, LatestFailureType, StopRepairType DEF StopReasons
<1>3. /\ job.at = "idle" /\ run.approval.kind \in {"write", "validate"}
      /\ run.approval = store.offer
      /\ UNCHANGED <<disk, episode, validated, bounds>>
      /\ store' = [store EXCEPT !.offer = NoRequest]
      /\ run' = q \/ run' = Applied(q, t)
      /\ saved' = run' /\ job' = Idle
  BY DEF Reject, Return, Approvable, Idling
<1>4. p \in 0..MaxRepairs /\ s \in TaskRunStatuses
  BY <1>1, LimitType DEF TaskRunStatuses, ResumableStatuses
<1> HIDE DEF t, p, s
<1>5. /\ q \in Runs /\ q.approval = NoRequest /\ q.cycle = run.cycle
      /\ q.usage = run.usage /\ q.question = run.question
  BY <1>1, <1>4, NoRequestType DEF Runs
<1> HIDE DEF q
<1>6. /\ run' \in Runs
      /\ run'.approval = q.approval /\ run'.cycle = q.cycle
      /\ run'.usage = q.usage /\ run'.question = q.question
  <2>1. CASE run' = q
    BY <1>5, <2>1
  <2>2. CASE run' = Applied(q, t)
    <3>1. run' \in Runs
      BY <1>2, <1>5, <2>2, AppliedType
    <3>2. /\ run'.approval = q.approval /\ run'.cycle = q.cycle
          /\ run'.usage = q.usage /\ run'.question = q.question
      BY <1>5, <2>2 DEF Applied, Runs
    <3>. QED
      BY <3>1, <3>2
  <2>. QED
    BY <1>3, <2>1, <2>2
<1>7. /\ store' \in Stores
      /\ store'.steps = store.steps /\ store'.calls = store.calls
      /\ store'.commands = store.commands
      /\ store'.started = store.started
      /\ store'.offers = store.offers /\ store'.offer = NoRequest
      /\ store'.question = store.question
  BY <1>1, <1>3, NoRequestType DEF Stores
<1>. QED
  BY <1>3, <1>5, <1>6, <1>7, IdleType DEF TypeInv, bounds

LEMMA StopStep ==
  ASSUME TypeInv, Cancel \/ Pause
  PROVE  /\ TypeInv'
         /\ UNCHANGED <<store, disk, job, episode, validated, faults>>
         /\ Kept(run, run') /\ saved' = run'
<1>1. run \in Runs /\ stops \in Nat
  BY DEF TypeInv
<1>2. /\ UNCHANGED <<store, disk, job, episode, validated, faults>>
      /\ run' = CancelRequested(run) \/ run' = PauseRequested(run)
      /\ saved' = run' /\ stops' = stops + 1
  BY DEF Cancel, Pause, Stop
<1>3. run' \in Runs /\ Kept(run, run')
  BY <1>1, <1>2, CancelRequestedType, PauseRequestedType, StatusKeeps
<1>. QED
  BY <1>1, <1>2, <1>3 DEF TypeInv

LEMMA ResumeStep ==
  ASSUME TypeInv, Resume
  PROVE  /\ TypeInv'
         /\ job.at = "idle"
         /\ UNCHANGED <<store, disk, episode, validated, bounds>>
         /\ run'.usage = Reconciled(run.usage, Counted)
         /\ run'.approval = run.approval /\ run'.cycle = run.cycle
         /\ run'.pending = run.pending /\ run'.repair = run.repair
         /\ run'.history = run.history
         /\ saved' = run'
         /\ \/ job' = Idle
            \/ /\ store.question = 0
               /\ job'.at = "start" /\ job'.kind = "resumed"
               /\ job'.repair = Idle.repair
<1> DEFINE u == Reconciled(run.usage, Counted)
           q == [run EXCEPT !.usage = u]
           w == store.question
           s == "awaiting_input"
           k == [Idle EXCEPT !.at = "start", !.kind = "resumed"]
<1>1. /\ run \in Runs /\ store \in Stores /\ job \in Jobs /\ w \in Nat
  BY DEF TypeInv, Stores
<1>2. u \in Usages /\ s \in TaskRunStatuses
  BY <1>1, CountedType, ReconciledType DEF Runs, TaskRunStatuses
<1>3. /\ job.at = "idle"
      /\ UNCHANGED <<store, disk, episode, validated, bounds>>
      /\ \/ /\ run' = [q EXCEPT !.question = w, !.status = s]
            /\ saved' = run' /\ job' = Idle
         \/ /\ run' = Prepared(q) /\ saved' = run' /\ store.question = 0
            /\ job' = k \/ job' = Idle
  BY DEF Resume, Return, Idling
<1>4. /\ k \in Jobs /\ k.at = "start" /\ k.kind = "resumed"
      /\ k.repair = Idle.repair
  BY IdleType DEF Jobs
<1> HIDE DEF u, w, s, k
<1>5. /\ q \in Runs /\ Stands(run, q) /\ q.usage = u
      /\ q.history = run.history
  BY <1>1, <1>2 DEF Runs, Stands
<1> HIDE DEF q
<1>6. /\ run' \in Runs /\ run'.usage = u
      /\ run'.approval = q.approval /\ run'.cycle = q.cycle
      /\ run'.pending = q.pending /\ run'.repair = q.repair
      /\ run'.history = q.history
  <2>1. CASE run' = [q EXCEPT !.question = w, !.status = s]
    BY <1>1, <1>2, <1>5, <2>1 DEF Runs
  <2>2. CASE run' = Prepared(q)
    BY <1>5, <2>2, PreparedType, StatusKeeps DEF Kept, Stands
  <2>. QED
    BY <1>3, <2>1, <2>2
<1>. QED
  BY <1>3, <1>4, <1>5, <1>6, IdleType DEF TypeInv, bounds, Stands, u

LEMMA CrashStep ==
  ASSUME TypeInv, Crash
  PROVE  /\ TypeInv'
         /\ UNCHANGED <<store, disk, validated>>
         /\ Kept(saved, run') /\ saved' = run' /\ job' = Idle
         /\ episode' = IF job.repair.required /\ ~ saved.repair.required
                       THEN NewEpisode ELSE episode
<1>1. saved \in Runs /\ faults \in Nat
  BY DEF TypeInv
<1>2. /\ UNCHANGED <<store, disk, validated, stops>> /\ faults' = faults + 1
      /\ run' = Restored(saved) /\ saved' = run' /\ job' = Idle
      /\ episode' = IF job.repair.required /\ ~ saved.repair.required
                    THEN NewEpisode ELSE episode
  BY DEF Crash
<1>3. run' \in Runs /\ Kept(saved, run')
  BY <1>1, <1>2, RestoredType, StatusKeeps
<1>4. episode' \in [failed : Nat, tried : Seq(Proposed)]
  BY <1>2 DEF TypeInv, NewEpisode
<1>. QED
  BY <1>1, <1>2, <1>3, <1>4, IdleType DEF TypeInv

LEMMA OutsideEditStep ==
  ASSUME TypeInv, OutsideEdit
  PROVE  /\ TypeInv'
         /\ UNCHANGED <<run, saved, store, job, episode, validated>>
  BY DEF OutsideEdit, TypeInv, Contents

(* History g records in h that attempt n proposes w.                        *)
Proposes(h, n, w, g) == \E e : e.proposal = w /\ g = Upsert(h, n, e)

LEMMA ProposalOfType ==
  ASSUME NEW t \in Transitions, NEW out \in Outcomes, NEW q,
         q = ProposalOf(t, out)
  PROVE  /\ q \in Transitions /\ q.required = FALSE
         /\ q.stop = "none" =>
              /\ q.attempt = t.attempt + 1
              /\ Proposes(t.history, t.attempt + 1, out.write, q.history)
<1> DEFINE n == NextAttempt(t, MaxRepairs)
           p == out.write
           l == Larger(n, t.attempt)
           stop == StopRepair(t.history, l, "no_apply_ready_proposal",
                              t.trigger)
           o == ObserveProposal(t.history, n, MaxRepairs, t.trigger, p)
<1>1. /\ t.history \in Histories /\ t.trigger \in Fingerprints
      /\ t.attempt \in 0..MaxRepairs /\ p \in Proposed
  BY DEF Transitions, Outcomes
<1>2. n \in 0..MaxRepairs /\ n \in {0, t.attempt + 1}
  BY NextAttemptType
<1>3. q = IF n = 0 \/ p = "none" THEN stop ELSE o
  BY DEF ProposalOf
<1> HIDE DEF n, p
<1>3a. l \in 0..MaxRepairs
  BY <1>1, <1>2, LimitType DEF Larger
<1> HIDE DEF l
<1>4. stop \in Transitions /\ stop.required = FALSE /\ stop.stop # "none"
  <2>1. stop \in Transitions
    BY <1>1, <1>3a, StopRepairType DEF StopReasons
  <2>2. stop.required = FALSE /\ stop.stop = "no_apply_ready_proposal"
    BY DEF StopRepair, Transition
  <2>. QED
    BY <2>1, <2>2
<1>5. /\ o \in Transitions /\ o.required = FALSE /\ o.attempt = n
      /\ o.stop = "none" => Proposes(t.history, n, p, o.history)
  <2>1. o \in Transitions
    BY <1>1, <1>2, ObserveProposalType
  <2>2. o.required = FALSE /\ o.attempt = n
    BY DEF ObserveProposal, StopRepair, Transition
  <2>3. o.stop = "none" => Proposes(t.history, n, p, o.history)
    <3> DEFINE repeated == RepeatsProposal(t.history, n, p)
               e == [Attempt(IF repeated THEN "stopped" ELSE "proposal_ready")
                       EXCEPT !.trigger = t.trigger, !.proposal = p]
    <3>1. e.proposal = p
      BY DEF Attempt
    <3>2. o = IF n > MaxRepairs
              THEN StopRepair(t.history, n, "repair_budget_exhausted", t.trigger)
              ELSE Transition(Upsert(t.history, n, e), n, FALSE, t.trigger,
                      IF repeated THEN "repeated_repair_proposal" ELSE "none")
      BY DEF ObserveProposal
    <3> HIDE DEF e, o
    <3>3. ~ (n > MaxRepairs)
      BY <1>2, LimitType
    <3>4. o.history = Upsert(t.history, n, e)
      BY <3>2, <3>3 DEF Transition
    <3>. QED
      BY <3>1, <3>4 DEF Proposes
  <2>. QED
    BY <2>1, <2>2, <2>3
<1> HIDE DEF stop, o
<1>. QED
  BY <1>2, <1>3, <1>4, <1>5 DEF n, p

LEMMA SettledType ==
  ASSUME NEW r \in Runs, NEW cycle, NEW out, NEW q, q = Settled(r, cycle, out)
  PROVE  q \in Runs /\ Kept(r, q)
<1> DEFINE s == IF r.question # 0 THEN "awaiting_input"
                ELSE IF r.approval # NoRequest THEN "awaiting_approval"
                ELSE IF /\ out.what = "finished"
                        /\ Completion(r, cycle) = "passed" THEN "completed"
                ELSE "review_pending"
<1>1. s \in TaskRunStatuses
  BY DEF TaskRunStatuses
<1>2. q = [r EXCEPT !.status = s]
  BY DEF Settled
<1> HIDE DEF s
<1>. QED
  BY <1>1, <1>2 DEF Runs, Kept, Stands

(* What a continuation left waiting, or its end, is a repair's proposal.   *)
Proposing(request, out) == request.kind = "write" \/ out.what = "repeated"

(* A continuation stops the repair, proposes its next attempt, or, when no *)
(* repair is required or a question is open, goes on as it was.            *)
LEMMA ContinuedType ==
  ASSUME NEW r \in Runs, NEW t \in Transitions, NEW cycle, NEW out \in Outcomes,
         NEW q, q = Continued(r, t, cycle, out)
  PROVE  /\ q \in Runs /\ q.cycle = r.cycle /\ q.usage = r.usage
         /\ q.question = r.question
         /\ \/ /\ q.approval = NoRequest
               /\ Proposing(r.approval, out) \/ r.question = 0
            \/ /\ t.required /\ q.approval = r.approval
               /\ Proposing(r.approval, out)
               /\ q.pending = t.attempt + 1 /\ ~ q.repair.required
               /\ Proposes(t.history, t.attempt + 1, out.write, q.history)
            \/ /\ \/ ~ t.required
                  \/ /\ r.question # 0
                     /\ ~ Proposing(r.approval, out)
               /\ q.approval = r.approval /\ q.pending = r.pending
               /\ q.repair = r.repair /\ q.history = r.history
<1> DEFINE proposing == t.required /\ Proposing(r.approval, out)
           proposal == ProposalOf(t, out)
           n == Larger(NextAttempt(t, MaxRepairs), t.attempt)
           reason == IF ~ CanDecide(r.usage) THEN "execution_budget_exhausted"
                     ELSE "no_apply_ready_proposal"
           ended == StopRepair(t.history, n, reason, t.trigger)
           a == [Applied(r, proposal) EXCEPT !.pending = proposal.attempt]
<1>1. /\ t.history \in Histories /\ t.trigger \in Fingerprints
      /\ t.attempt \in 0..MaxRepairs
  BY DEF Transitions
<1>2. /\ proposal \in Transitions /\ proposal.required = FALSE
      /\ proposal.stop = "none" =>
           /\ proposal.attempt = t.attempt + 1
           /\ Proposes(t.history, t.attempt + 1, out.write, proposal.history)
  BY ProposalOfType
<1>3. ended \in Transitions
  <2>1. n \in 0..MaxRepairs
    BY <1>1, NextAttemptType, LimitType DEF Larger
  <2> HIDE DEF n
  <2>. QED
    BY <1>1, <2>1, StopRepairType DEF StopReasons
<1>4. q = IF proposing /\ proposal.stop # "none" THEN StoppedRepair(r, proposal)
          ELSE IF proposing THEN Settled(a, cycle, out)
          ELSE IF t.required /\ r.question = 0 THEN StoppedRepair(r, ended)
          ELSE Settled(r, cycle, out)
  BY DEF Continued, Proposing
<1> HIDE DEF proposal, ended, a
<1>5. CASE /\ q \in {StoppedRepair(r, proposal), StoppedRepair(r, ended)}
           /\ proposing \/ r.question = 0
  <2>1. PICK w \in Transitions : q = StoppedRepair(r, w)
    BY <1>2, <1>3, <1>5
  <2>2. q \in Runs
    BY <2>1, StoppedRepairType
  <2>3. q.approval = NoRequest /\ q.cycle = r.cycle
        /\ q.usage = r.usage /\ q.question = r.question
    <3>1. /\ q.approval = NoRequest /\ q.pending = 0 /\ q.status = "failed"
          /\ q.cycle = r.cycle /\ q.usage = r.usage
          /\ q.question = r.question
          /\ q.repair = [required |-> w.required, attempt |-> w.attempt,
                         trigger |-> w.trigger]
      BY <2>1, StoppedRepairKeeps
    <3>. QED
      BY <3>1
  <2>. QED
    BY <1>5, <2>2, <2>3
<1>6. CASE proposing /\ proposal.stop = "none" /\ q = Settled(a, cycle, out)
  <2> DEFINE p == Applied(r, proposal)
             m == proposal.attempt
  <2>1. p \in Runs /\ m \in 0..MaxRepairs
    BY <1>2, AppliedType DEF Transitions
  <2>2. /\ p.approval = r.approval /\ p.cycle = r.cycle
        /\ p.usage = r.usage /\ p.question = r.question
        /\ p.repair.required = FALSE /\ p.history = proposal.history
    BY <1>2 DEF Applied, Runs
  <2> HIDE DEF p, m
  <2>3. a = [p EXCEPT !.pending = m]
    BY DEF a, p, m
  <2>4. /\ a \in Runs /\ a.approval = r.approval /\ a.cycle = r.cycle
        /\ a.usage = r.usage /\ a.question = r.question
        /\ a.repair.required = FALSE /\ a.pending = m
        /\ a.history = proposal.history
    BY <2>1, <2>2, <2>3 DEF Runs
  <2>5. q \in Runs /\ Kept(a, q)
    BY <1>6, <2>4, SettledType
  <2>. QED
    BY <1>2, <1>6, <2>4, <2>5 DEF Kept, Stands, m
<1>7. CASE /\ ~ t.required \/ r.question # 0
           /\ ~ proposing
           /\ q = Settled(r, cycle, out)
  <2>1. q \in Runs /\ Kept(r, q)
    BY <1>7, SettledType
  <2>. QED
    BY <1>7, <2>1 DEF Kept, Stands
<1>8. CASE proposing /\ proposal.stop # "none"
  <2>1. q = StoppedRepair(r, proposal)
    BY <1>4, <1>8
  <2>. QED
    BY <1>5, <1>8, <2>1
<1>9. CASE proposing /\ proposal.stop = "none"
  <2>1. q = Settled(a, cycle, out)
    BY <1>4, <1>9
  <2>. QED
    BY <1>6, <1>9, <2>1
<1>10. CASE ~ proposing /\ t.required /\ r.question = 0
  <2>1. q = StoppedRepair(r, ended)
    BY <1>4, <1>10
  <2>. QED
    BY <1>5, <1>10, <2>1
<1>11. CASE ~ proposing /\ ~ (t.required /\ r.question = 0)
  <2>1. q = Settled(r, cycle, out)
    BY <1>4, <1>11
  <2>. QED
    BY <1>7, <1>11, <2>1
<1>. QED
  BY <1>8, <1>9, <1>10, <1>11

LEMMA ContinuationSettlesStep ==
  ASSUME TypeInv, ContinuationSettles
  PROVE  /\ TypeInv'
         /\ job.at = "settle" /\ job.kind \in {"validate", "answer"}
         /\ UNCHANGED <<store, disk, validated, bounds>>
         /\ episode'.failed = episode.failed
         /\ episode'.tried =
              IF /\ job.out.what # "raised" /\ job.repair.required
                 /\ run'.approval # NoRequest
              THEN Append(episode.tried, job.out.write) ELSE episode.tried
         /\ saved' = run' /\ job' = Idle
         /\ run'.cycle = job.cycle
         /\ \/ /\ job.out.what = "raised"
               /\ run'.approval = NoRequest /\ run'.usage = run.usage
            \/ /\ job.out.what # "raised"
               /\ run'.usage = Used(run.usage, job.out.steps,
                                    store.calls - job.before, 0)
               /\ run'.question = store.question
               /\ \/ /\ run'.approval = NoRequest
                     /\ \/ Proposing(store.offer, job.out)
                        \/ store.question = 0
                  \/ /\ job.repair.required /\ run'.approval = store.offer
                     /\ Proposing(store.offer, job.out)
                     /\ run'.pending = job.repair.attempt + 1
                     /\ ~ run'.repair.required
                     /\ Proposes(job.repair.history, job.repair.attempt + 1,
                                 job.out.write, run'.history)
                  \/ /\ \/ ~ job.repair.required
                        \/ /\ store.question # 0
                           /\ ~ Proposing(store.offer, job.out)
                     /\ run'.approval = store.offer
                     /\ \/ /\ job.kind = "validate"
                           /\ run'.repair.required = job.repair.required
                           /\ run'.repair.attempt = job.repair.attempt
                           /\ run'.history = job.repair.history
                        \/ /\ job.kind = "answer" /\ run'.repair = run.repair
                           /\ run'.history = run.history
<1> DEFINE out == job.out
           t == job.repair
           c == job.cycle
           base == IF job.kind = "validate" THEN Applied(run, t) ELSE run
           zero == 0
           a == out.steps
           b == store.calls - job.before
           u == Used(run.usage, a, b, 0)
           kept == [base EXCEPT !.cycle = c, !.approval = NoRequest,
                                !.question = zero]
           p == Charged(kept, a, b, 0)
           o == store.offer
           w == store.question
           charged == [p EXCEPT !.approval = o, !.question = w]
           settled == Continued(charged, t, c, out)
           s == IF job.kind = "validate" THEN "review_pending" ELSE "failed"
           fallen == [kept EXCEPT !.status = s]
<1>1. /\ run \in Runs /\ store \in Stores /\ job \in Jobs
      /\ out \in Outcomes /\ t \in Transitions /\ c \in Cycles
      /\ o \in Approvals /\ w \in Nat /\ zero \in Nat
      /\ a \in Int /\ b \in Int /\ out.write \in Proposed
  <2>1. /\ run \in Runs /\ store \in Stores /\ job \in Jobs
        /\ out \in Outcomes /\ t \in Transitions /\ c \in Cycles
        /\ o \in Approvals /\ w \in Nat
        /\ store.calls \in Nat /\ job.before \in Nat
    BY DEF TypeInv, Jobs, Stores
  <2>. QED
    BY <2>1 DEF Outcomes
<1>2. /\ job.at = "settle" /\ job.kind \in {"validate", "answer"}
      /\ UNCHANGED <<store, disk, validated, bounds>>
      /\ saved' = run' /\ job' = Idle
      /\ \/ /\ out.what = "raised" /\ run' = fallen
            /\ episode' = episode
         \/ /\ out.what # "raised" /\ run' = settled
            /\ episode' = IF t.required /\ run'.approval # NoRequest
                          THEN [episode EXCEPT !.tried = Append(@, out.write)]
                          ELSE episode
  BY DEF ContinuationSettles, Return
<1>3. s \in TaskRunStatuses
  BY DEF TaskRunStatuses, ResumableStatuses
<1>4. episode' \in [failed : Nat, tried : Seq(Proposed)]
      /\ episode'.failed = episode.failed
      /\ episode'.tried =
           IF out.what # "raised" /\ t.required /\ run'.approval # NoRequest
           THEN Append(episode.tried, out.write) ELSE episode.tried
  <2>1. episode \in [failed : Nat, tried : Seq(Proposed)]
    BY DEF TypeInv
  <2> DEFINE e == Append(episode.tried, out.write)
  <2>2. e \in Seq(Proposed)
    <3>1. episode.tried \in Seq(Proposed)
      BY <2>1
    <3>. QED
      BY <1>1, <3>1
  <2> DEFINE offers == /\ out.what # "raised" /\ t.required
                       /\ run'.approval # NoRequest
  <2>3. episode' = IF offers THEN [episode EXCEPT !.tried = e] ELSE episode
    BY <1>2
  <2>4. offers \in BOOLEAN
    OBVIOUS
  <2> HIDE DEF e, offers
  <2>5. /\ episode' \in [failed : Nat, tried : Seq(Proposed)]
        /\ episode'.failed = episode.failed
        /\ episode'.tried = IF offers THEN e ELSE episode.tried
    BY <2>1, <2>2, <2>3, <2>4
  <2>. QED
    BY <2>5 DEF e, offers
<1>5. /\ base \in Runs /\ base.usage = run.usage
      /\ base.pending = run.pending
      /\ \/ /\ job.kind = "validate"
            /\ base.repair.required = t.required
            /\ base.repair.attempt = t.attempt /\ base.history = t.history
         \/ /\ job.kind = "answer" /\ base.repair = run.repair
            /\ base.history = run.history
  <2>1. CASE job.kind = "validate"
    <3>1. Applied(run, t) \in Runs
      BY <1>1, AppliedType
    <3>2. /\ Applied(run, t).usage = run.usage
          /\ Applied(run, t).pending = run.pending
          /\ Applied(run, t).repair.required = t.required
          /\ Applied(run, t).repair.attempt = t.attempt
          /\ Applied(run, t).history = t.history
      BY <1>1 DEF Applied, Runs
    <3>. QED
      BY <2>1, <3>1, <3>2
  <2>2. CASE job.kind = "answer"
    BY <1>1, <2>2
  <2>. QED
    BY <1>2, <2>1, <2>2
<1> HIDE DEF base, zero
<1>6. /\ kept \in Runs /\ kept.usage = base.usage /\ kept.cycle = c
      /\ kept.approval = NoRequest
      /\ kept.repair = base.repair /\ kept.pending = base.pending
      /\ kept.history = base.history
  BY <1>1, <1>5, NoRequestType DEF Runs
<1> HIDE DEF kept, a, b, u
<1>7. /\ p \in Runs /\ Stands(kept, p) /\ p.usage = u
      /\ p.history = kept.history
  BY <1>1, <1>5, <1>6, ChargedType, ChargedKeeps DEF Stands, u
<1> HIDE DEF p
<1>8. /\ charged \in Runs /\ charged.usage = u /\ charged.cycle = c
      /\ charged.approval = o /\ charged.question = w
      /\ charged.repair = base.repair /\ charged.pending = base.pending
      /\ charged.history = base.history
  BY <1>1, <1>6, <1>7 DEF Runs, Stands
<1> HIDE DEF charged, s
<1>9. CASE /\ out.what = "raised" /\ run' = fallen
  <2>1. /\ run' \in Runs /\ run'.approval = NoRequest
        /\ run'.usage = run.usage /\ run'.cycle = c
    BY <1>3, <1>5, <1>6, <1>9 DEF Runs
  <2> HIDE DEF fallen
  <2>. QED
    BY <1>1, <1>2, <1>4, <1>9, <2>1, IdleType DEF TypeInv, bounds
<1>10. CASE out.what # "raised" /\ run' = settled
  <2> DEFINE q == run'
  <2>1. /\ q \in Runs /\ q.cycle = charged.cycle /\ q.usage = charged.usage
        /\ q.question = charged.question
        /\ \/ /\ q.approval = NoRequest
              /\ Proposing(o, out) \/ charged.question = 0
           \/ /\ t.required /\ q.approval = charged.approval
              /\ Proposing(o, out)
              /\ q.pending = t.attempt + 1 /\ ~ q.repair.required
              /\ Proposes(t.history, t.attempt + 1, out.write, q.history)
           \/ /\ \/ ~ t.required
                 \/ /\ charged.question # 0
                    /\ ~ Proposing(o, out)
              /\ q.approval = charged.approval
              /\ q.pending = charged.pending
              /\ q.repair = charged.repair /\ q.history = charged.history
    BY <1>1, <1>8, <1>10, ContinuedType
  <2> HIDE DEF settled, fallen
  <2>2. TypeInv'
    BY <1>1, <1>2, <1>4, <2>1, IdleType DEF TypeInv, bounds
  <2>3. run'.cycle = c /\ run'.usage = u /\ run'.question = w
    BY <1>8, <2>1
  <2>4. \/ /\ run'.approval = NoRequest
           /\ Proposing(o, out) \/ w = 0
        \/ /\ t.required /\ run'.approval = o
           /\ Proposing(o, out)
           /\ run'.pending = t.attempt + 1 /\ ~ run'.repair.required
           /\ Proposes(t.history, t.attempt + 1, out.write, run'.history)
        \/ /\ \/ ~ t.required
              \/ w # 0 /\ ~ Proposing(o, out)
           /\ run'.approval = o
           /\ \/ /\ job.kind = "validate"
                 /\ run'.repair.required = t.required
                 /\ run'.repair.attempt = t.attempt
                 /\ run'.history = t.history
              \/ /\ job.kind = "answer" /\ run'.repair = run.repair
                 /\ run'.history = run.history
    BY <1>5, <1>8, <2>1
  <2>5. out.what # "raised"
    BY <1>10
  <2>. QED
    BY <1>2, <1>4, <2>2, <2>3, <2>4, <2>5 DEF u, a, b
<1> HIDE DEF settled, fallen
<1>. QED
  BY <1>2, <1>9, <1>10

-----------------------------------------------------------------------------
LEMMA TypeInvHolds == Spec => []TypeInv
<1>1. Init => TypeInv
  BY InitType
<1>2. TypeInv /\ [Next]_vars => TypeInv'
  <2> SUFFICES ASSUME TypeInv, [Next]_vars PROVE TypeInv'
    OBVIOUS
  <2>1. CASE WorkerStarts
    BY <2>1, WorkerStartsStep
  <2>2. CASE WorkerLoops
    <3>1. AgentLoop(Rest, {})
      BY <2>2 DEF WorkerLoops
    <3>. QED
      BY <3>1, AgentLoopStep
  <2>3. CASE WorkerSettles
    BY <2>3, WorkerSettlesStep
  <2>4. CASE GrantWrite
    BY <2>4, GrantWriteStep
  <2>5. CASE WriteRefreshed
    BY <2>5, WriteRefreshedStep
  <2>6. CASE RecordWrite
    BY <2>6, RecordWriteStep
  <2>7. CASE RequestValidation
    BY <2>7, RequestValidationStep
  <2>8. CASE Requested
    BY <2>8, RequestedStep
  <2>9. ASSUME NEW failure \in Failures \union {"none"},
               GrantValidation(failure)
        PROVE  TypeInv'
    BY <2>9, GrantValidationStep
  <2>10. CASE ValidationEnds
    BY <2>10, ValidationEndsStep
  <2>11. CASE ValidatedLoops
    <3>1. AgentLoop(Rest, RepairBlocks(job.repair))
      BY <2>11 DEF ValidatedLoops
    <3>. QED
      BY <3>1, AgentLoopStep
  <2>12. CASE Answer
    BY <2>12, AnswerStep
  <2>13. CASE AnsweredLoops
    <3>1. AgentLoop(Rest, RepairBlocks(job.repair))
      BY <2>13 DEF AnsweredLoops
    <3>. QED
      BY <3>1, AgentLoopStep
  <2>14. CASE ContinuationSettles
    BY <2>14, ContinuationSettlesStep
  <2>15. CASE Reject
    BY <2>15, RejectStep
  <2>16. CASE Cancel \/ Pause
    BY <2>16, StopStep
  <2>17. CASE Resume
    BY <2>17, ResumeStep
  <2>18. CASE Crash
    BY <2>18, CrashStep
  <2>19. CASE OutsideEdit
    BY <2>19, OutsideEditStep
  <2>20. CASE UNCHANGED vars
    BY <2>20 DEF TypeInv, vars, bounds
  <2>. QED
    BY <2>1, <2>2, <2>3, <2>4, <2>5, <2>6, <2>7, <2>8, <2>9, <2>10, <2>11,
       <2>12, <2>13, <2>14, <2>15, <2>16, <2>17, <2>18, <2>19, <2>20 DEF Next
<1>. QED
  BY <1>1, <1>2, PTL DEF Spec

(* TypeOK: what each variable of a run between its approvals holds; a      *)
(* repair attempt never passes the limit, the position of a cycle never    *)
(* its commands, and the repair history keeps a record per attempt up to   *)
(* the limit.                                                              *)
THEOREM TypesHold == Spec => []TypeOK
<1>1. TypeInv => TypeOK
  <2> SUFFICES ASSUME TypeInv PROVE TypeOK
    OBVIOUS
  <2>1. run \in Runs /\ store \in Stores /\ job \in Jobs /\ disk \in Contents
        /\ validated \subseteq CommandSet
    BY DEF TypeInv
  <2>2. /\ run.status \in TaskRunStatuses /\ run.checkpoint \in Checkpoints
        /\ run.approval \in Approvals /\ run.cycle \in Cycles
        /\ run.pending \in 0..MaxRepairs /\ run.usage \in Usages
        /\ run.history \in Histories /\ run.repair \in Repairs
    BY <2>1 DEF Runs
  <2>3. DOMAIN run.history \subseteq 0..MaxRepairs
    BY <2>2 DEF Histories
  <2>4. run.repair.attempt \in 0..MaxRepairs
    BY <2>2 DEF Repairs
  <2>5. store.offer \in Approvals /\ store.criteria \subseteq CommandSet
    BY <2>1 DEF Stores
  <2>6. job.cycle \in Cycles
    BY <2>1 DEF Jobs
  <2>. QED
    BY <2>1, <2>2, <2>3, <2>4, <2>5, <2>6 DEF TypeOK, Approvals
<1>. QED
  BY <1>1, TypeInvHolds, PTL

-----------------------------------------------------------------------------
(* The theorems between the approvals.  Their inductive invariant has five *)
(* layers: what ties the run record, its saved row, the event log and the  *)
(* handler together (Tied), and on top of it one layer for each theorem.   *)

(* The run record, its saved row, the event log and the handler.           *)

Looping == job.at \in {"loop", "settle"}
(* The points of a handler or a worker at which no question is open.       *)
Unasked == {"start", "refreshed", "record", "request", "requested",
            "unrequested", "unconfigured", "exhausted"}

(* The numbers of requests only grow.                                      *)
Numbered ==
  /\ run.approval.id <= store.offers /\ saved.approval.id <= store.offers
  /\ store.offer.id <= store.offers

(* A handler that has returned has saved the run.                          *)
IdleIsSaved == job.at = "idle" => saved = run

(* A question and a request for approval are not open together.            *)
OneIsOpen ==
  /\ store.question # 0 => store.offer = NoRequest
  /\ job.at \in Unasked => store.question = 0

(* Which handler reaches which point.                                      *)
KindsFit ==
  /\ Looping => job.kind \in {"fresh", "resumed", "validate", "answer"}
  /\ job.at = "start" => job.kind = "resumed"
  /\ job.at \in {"refreshed", "record"} => job.kind = "write"
  /\ job.at \in {"request", "requested", "unrequested"} =>
       job.kind \in {"write", "validate"}
  /\ job.at \in {"unconfigured", "exhausted"} => job.kind = "validate"

(* What a handler finds open.                                              *)
OpenFits ==
  /\ job.at = "refreshed" => store.offer.kind = "write"
  /\ job.at \in {"record", "request", "unrequested", "unconfigured",
                 "exhausted"} => store.offer = NoRequest
  /\ job.at = "requested" =>
       store.offer.kind = "validate" /\ store.offer.index = job.cycle.next
  /\ Looping /\ job.kind \in {"validate", "answer"} =>
       store.offer.kind # "validate"

(* How the loop ended says what is open.                                   *)
EndFits ==
  job.at = "settle" =>
    /\ store.question # 0 => job.out.what = "asked"
    /\ store.offer # NoRequest => job.out.what = "offered"

Tied ==
  /\ Numbered /\ IdleIsSaved /\ OneIsOpen /\ KindsFit /\ OpenFits /\ EndFits

LEMMA NoRequestFields == NoRequest.id = 0 /\ NoRequest.kind = "none"
  BY DEF NoRequest, Request

LEMMA NumberType ==
  ASSUME TypeInv
  PROVE  /\ run.approval.id \in Nat /\ saved.approval.id \in Nat
         /\ store.offer.id \in Nat /\ store.offers \in Nat
<1>1. run \in Runs /\ saved \in Runs /\ store \in Stores
  BY DEF TypeInv
<1>2. /\ run.approval \in Requests /\ saved.approval \in Requests
      /\ store.offer \in Requests /\ store.offers \in Nat
  BY <1>1 DEF Runs, Stores, Approvals
<1>. QED
  BY <1>2 DEF Requests

LEMMA TiedInit == Init => Tied
<1> SUFFICES ASSUME Init PROVE Tied
  OBVIOUS
<1>1. /\ run.approval = NoRequest /\ saved = run /\ store.offers = 0
      /\ store.offer = NoRequest /\ store.question = 0
  BY DEF Init
<1>2. job.at = "loop" /\ job.kind = "fresh"
  BY IdleType DEF Init, Jobs
<1>. QED
  BY <1>1, <1>2, NoRequestFields
     DEF Tied, Numbered, IdleIsSaved, OneIsOpen, KindsFit, OpenFits, EndFits,
         Looping, Unasked

LEMMA TiedLoop ==
  ASSUME TypeInv, Tied, NEW blocked, AgentLoop(Rest, blocked)
  PROVE  Tied'
<1>1. /\ TypeInv'
      /\ job.at = "loop" /\ job'.at = "settle"
      /\ job'.kind = job.kind /\ job'.cycle = job.cycle
      /\ job'.before = job.before /\ job'.repair = job.repair
      /\ UNCHANGED <<run, saved, disk, episode, validated, bounds>>
      /\ \/ Waiting /\ store' = store /\ job'.out = Waits
         \/ ~ Waiting /\ LoopEnded(Rest, store', job'.out)
  BY AgentLoopStep
<1>2. CASE Waiting /\ store' = store /\ job'.out = Waits
  <2>1. job'.out.what = IF store.question # 0 THEN "asked" ELSE "offered"
    BY <1>2 DEF Waits, Outcome
  <2>. QED
    BY <1>1, <1>2, <2>1
       DEF Tied, Numbered, IdleIsSaved, OneIsOpen, KindsFit, OpenFits, EndFits,
           Looping, Unasked, Waiting
<1>3. CASE ~ Waiting /\ LoopEnded(Rest, store', job'.out)
  <2>1. store.question = 0 /\ store.offer = NoRequest
    BY <1>3 DEF Waiting
  <2>2. \/ /\ job'.out.what = "offered"
           /\ store'.offers = store.offers + 1
           /\ store'.offer.id = store'.offers
           /\ store'.offer.kind = "write" /\ store'.question = 0
        \/ /\ store'.offers = store.offers /\ store'.offer = NoRequest
           /\ store'.question # 0 => job'.out.what = "asked"
    BY <1>3, <2>1 DEF LoopEnded
  <2>. QED
    BY <1>1, <2>1, <2>2, NumberType, NoRequestFields
       DEF Tied, Numbered, IdleIsSaved, OneIsOpen, KindsFit, OpenFits, EndFits,
           Looping, Unasked
<1>. QED
  BY <1>1, <1>2, <1>3

LEMMA TiedNext == TypeInv /\ Tied /\ [Next]_vars => Tied'
<1> SUFFICES ASSUME TypeInv, Tied, [Next]_vars PROVE Tied'
  OBVIOUS
<1> USE IdleType, NoRequestFields, NumberType
        DEF Tied, Numbered, IdleIsSaved, OneIsOpen, KindsFit, OpenFits,
            EndFits, Looping, Unasked, Stands, Kept
<1>1. CASE WorkerStarts
  <2>1. /\ store' = store /\ job.at = "start"
        /\ run'.approval = run.approval
        /\ saved'.approval = run.approval
        /\ \/ job' = Idle /\ saved' = run'
           \/ job'.at = "loop" /\ job'.kind = job.kind
    BY <1>1, WorkerStartsStep
  <2>. QED
    BY <2>1
<1>2. CASE WorkerLoops
  BY <1>2, TiedLoop DEF WorkerLoops
<1>3. CASE WorkerSettles
  BY <1>3, WorkerSettlesStep
<1>4. CASE GrantWrite
  <2>1. /\ job.at = "idle" /\ run' = run /\ saved' = saved
        /\ store.question = 0
    BY <1>4, GrantWriteStep
  <2>2. store'.question = store.question
    BY <1>4, GrantWriteStep
  <2>3. \/ /\ store'.offers = store.offers + 1
           /\ store'.offer.id = store'.offers /\ store'.offer.kind = "write"
           /\ job'.at = "refreshed" /\ job'.kind = "write"
        \/ /\ store'.offers = store.offers /\ store'.offer = NoRequest
           /\ \/ job'.at = "record" /\ job'.kind = "write"
              \/ job' = job
    BY <1>4, GrantWriteStep
  <2>. QED
    BY <2>1, <2>2, <2>3
<1>5. CASE WriteRefreshed
  BY <1>5, WriteRefreshedStep
<1>6. CASE RecordWrite
  BY <1>6, RecordWriteStep
<1>7. CASE RequestValidation
  BY <1>7, RequestValidationStep
<1>8. CASE Requested
  BY <1>8, RequestedStep
<1>9. ASSUME NEW failure \in Failures \union {"none"},
             GrantValidation(failure)
      PROVE  Tied'
  <2>1. /\ job.at = "idle" /\ saved = run /\ store.question = 0
        /\ store'.question = store.question
        /\ store'.offers = store.offers /\ store'.offer = NoRequest
    BY <1>9, GrantValidationStep
  <2>2. \/ /\ run'.approval = run.approval /\ saved' = saved
           /\ job'.kind = "validate"
           /\ job'.at \in {"request", "loop", "unconfigured", "exhausted"}
        \/ run'.approval = NoRequest /\ saved' = run' /\ job' = Idle
    BY <1>9, GrantValidationStep
  <2>. QED
    BY <2>1, <2>2
<1>10. CASE ValidationEnds
  BY <1>10, ValidationEndsStep
<1>11. CASE ValidatedLoops
  BY <1>11, TiedLoop DEF ValidatedLoops
<1>12. CASE Answer
  BY <1>12, AnswerStep
<1>13. CASE AnsweredLoops
  BY <1>13, TiedLoop DEF AnsweredLoops
<1>14. CASE ContinuationSettles
  BY <1>14, ContinuationSettlesStep DEF Proposing
<1>15. CASE Reject
  BY <1>15, RejectStep
<1>16. CASE Cancel \/ Pause
  BY <1>16, StopStep
<1>17. CASE Resume
  BY <1>17, ResumeStep
<1>18. CASE Crash
  BY <1>18, CrashStep
<1>19. CASE OutsideEdit
  BY <1>19, OutsideEditStep
<1>20. CASE UNCHANGED vars
  BY <1>20 DEF vars
<1>. QED
  BY <1>1, <1>2, <1>3, <1>4, <1>5, <1>6, <1>7, <1>8, <1>9, <1>10, <1>11,
     <1>12, <1>13, <1>14, <1>15, <1>16, <1>17, <1>18, <1>19, <1>20 DEF Next

-----------------------------------------------------------------------------
(* Validations are offered in order.                                       *)

(* The commands before position n are among v.                             *)
PassedBefore(n, v) == \A i \in 1..(n - 1) : Commands[i] \in v

OffersInOrder(r, v) ==
  r.approval.kind = "validate" /\ r.approval.index = r.cycle.next
    => PassedBefore(r.cycle.next, v)

InOrder ==
  /\ OffersInOrder(run, validated) /\ OffersInOrder(saved, validated)
  /\ job.at = "request" /\ job.kind = "validate" =>
       PassedBefore(job.cycle.next, validated)
  /\ job.at = "requested" => PassedBefore(job.cycle.next, validated)

LEMMA PassedFirst == \A v : PassedBefore(1, v)
  BY DEF PassedBefore

(* The result of the next command leaves those before it passed; when it   *)
(* passes, the position after it is reached in order as well.              *)
LEMMA PassedNext ==
  ASSUME NEW i \in 1..Len(Commands), NEW v, PassedBefore(i, v)
  PROVE  /\ PassedBefore(i + 1, v \union {Commands[i]})
         /\ PassedBefore(i, v \union {Commands[i]})
         /\ PassedBefore(i, v \ {Commands[i]})
<1>1. DOMAIN Commands = 1..Len(Commands) /\ Len(Commands) \in Nat
  BY ValidationCycleAssumption
<1>2. \A j \in 1..(i - 1) : Commands[j] # Commands[i]
  BY <1>1, ValidationCycleAssumption
<1>3. PassedBefore(i + 1, v \union {Commands[i]})
  <2> SUFFICES ASSUME NEW j \in 1..i
               PROVE  Commands[j] \in v \union {Commands[i]}
    BY <1>1 DEF PassedBefore
  <2>1. j \in 1..(i - 1) \/ j = i
    BY <1>1
  <2>. QED
    BY <2>1 DEF PassedBefore
<1>. QED
  BY <1>2, <1>3 DEF PassedBefore

LEMMA InOrderInit == Init => InOrder
<1> SUFFICES ASSUME Init PROVE InOrder
  OBVIOUS
<1>1. run.approval = NoRequest /\ saved = run
  BY DEF Init
<1>2. job.at = "loop"
  BY IdleType DEF Init, Jobs
<1>. QED
  BY <1>1, <1>2, NoRequestFields DEF InOrder, OffersInOrder

LEMMA InOrderLoop ==
  ASSUME TypeInv, InOrder, NEW blocked, AgentLoop(Rest, blocked)
  PROVE  InOrder'
<1>1. /\ job'.at = "settle"
      /\ UNCHANGED <<run, saved, validated>>
  BY AgentLoopStep
<1>. QED
  BY <1>1 DEF InOrder, OffersInOrder

LEMMA InOrderNext == TypeInv /\ Tied /\ InOrder /\ [Next]_vars => InOrder'
<1> SUFFICES ASSUME TypeInv, Tied, InOrder, [Next]_vars PROVE InOrder'
  OBVIOUS
<1> USE IdleType, NoRequestFields DEF InOrder, OffersInOrder, Stands, Kept
<1>1. CASE WorkerStarts
  BY <1>1, WorkerStartsStep
<1>2. CASE WorkerLoops
  BY <1>2, InOrderLoop DEF WorkerLoops
<1>3. CASE WorkerSettles
  <2>1. /\ validated' = validated /\ saved' = run' /\ job' = Idle
        /\ Kept(run, run') \/ run'.cycle = NoCycle
    BY <1>3, WorkerSettlesStep
  <2>2. NoCycle.next = 1
    BY DEF NoCycle, Cycle
  <2>. QED
    BY <2>1, <2>2, PassedFirst
<1>4. CASE GrantWrite
  <2>1. /\ run' = run /\ saved' = saved /\ saved = run
        /\ run.approval.kind = "write"
        /\ job'.at \in {"refreshed", "record", "idle"}
    BY <1>4, GrantWriteStep DEF Tied, IdleIsSaved
  <2>. QED
    BY <2>1
<1>5. CASE WriteRefreshed
  BY <1>5, WriteRefreshedStep DEF Tied, OpenFits
<1>6. CASE RecordWrite
  BY <1>6, RecordWriteStep DEF Tied, KindsFit
<1>7. CASE RequestValidation
  <2>1. /\ UNCHANGED <<run, saved, validated>>
        /\ job.at = "request" /\ job'.cycle = Building
        /\ job'.at \in {"requested", "unrequested"}
    BY <1>7, RequestValidationStep
  <2>2. CASE job.kind = "write"
    <3>1. job'.cycle.next = 1
      BY <2>1, <2>2 DEF Building, NewCycle, Cycle
    <3>. QED
      BY <2>1, <3>1, PassedFirst
  <2>3. CASE job.kind = "validate"
    BY <2>1, <2>3 DEF Building
  <2>. QED
    BY <2>1, <2>2, <2>3 DEF Tied, KindsFit
<1>8. CASE Requested
  BY <1>8, RequestedStep DEF Tied, OpenFits
<1>9. ASSUME NEW failure \in Failures \union {"none"},
             GrantValidation(failure)
      PROVE  InOrder'
  <2> DEFINE i == run.cycle.next
  <2>1. /\ i \in 1..Len(Commands) /\ saved = run
        /\ run.approval.kind = "validate" /\ run.approval.index = i
        /\ validated' = IF failure = "none" THEN validated \union {Commands[i]}
                        ELSE validated \ {Commands[i]}
    BY <1>9, GrantValidationStep DEF Tied, IdleIsSaved
  <2>2. /\ PassedBefore(i, validated')
        /\ failure = "none" => PassedBefore(i + 1, validated')
    BY <2>1, PassedNext
  <2>3. \/ /\ failure = "none"
           /\ Stands(run, run') /\ saved' = saved
           /\ job'.at = "request" /\ job'.cycle.next = i + 1
        \/ saved' = run' /\ job' = Idle /\ run'.approval = NoRequest
        \/ /\ Stands(run, run') /\ saved' = saved
           /\ job'.at \in {"loop", "unconfigured", "exhausted"}
    BY <1>9, GrantValidationStep DEF Advanced
  <2>. QED
    BY <2>1, <2>2, <2>3
<1>10. CASE ValidationEnds
  BY <1>10, ValidationEndsStep
<1>11. CASE ValidatedLoops
  BY <1>11, InOrderLoop DEF ValidatedLoops
<1>12. CASE Answer
  BY <1>12, AnswerStep
<1>13. CASE AnsweredLoops
  BY <1>13, InOrderLoop DEF AnsweredLoops
<1>14. CASE ContinuationSettles
  <2>1. /\ store.offer.kind # "validate"
        /\ run'.approval \in {NoRequest, store.offer}
        /\ saved' = run' /\ job' = Idle /\ validated' = validated
    BY <1>14, ContinuationSettlesStep DEF Tied, OpenFits, Looping
  <2>. QED
    BY <2>1
<1>15. CASE Reject
  BY <1>15, RejectStep
<1>16. CASE Cancel \/ Pause
  BY <1>16, StopStep
<1>17. CASE Resume
  BY <1>17, ResumeStep
<1>18. CASE Crash
  BY <1>18, CrashStep
<1>19. CASE OutsideEdit
  BY <1>19, OutsideEditStep
<1>20. CASE UNCHANGED vars
  BY <1>20 DEF vars
<1>. QED
  BY <1>1, <1>2, <1>3, <1>4, <1>5, <1>6, <1>7, <1>8, <1>9, <1>10, <1>11,
     <1>12, <1>13, <1>14, <1>15, <1>16, <1>17, <1>18, <1>19, <1>20 DEF Next

-----------------------------------------------------------------------------
(* The failures of an episode.                                             *)

(* One failure more than the attempt of the repair that is required.       *)
Repairing(r) ==
  \/ episode.failed = 0
  \/ r.required /\ episode.failed <= r.attempt + 1

(* The open request of a run is for an attempt the failures have not       *)
(* passed, and no repair is required beside it.                            *)
RequestCounts(r) ==
  /\ r.approval = store.offer /\ r.approval.kind = "write" =>
       episode.failed <= r.pending /\ ~ r.repair.required
  /\ r.approval = store.offer /\ r.approval.kind = "validate" =>
       episode.failed <= r.cycle.attempt /\ ~ r.repair.required

(* The handlers between the grant of a write and the next request.         *)
WriteCounts ==
  /\ job.at \in {"refreshed", "record", "request", "requested"} =>
       ~ run.repair.required
  /\ job.at \in {"refreshed", "record"} => episode.failed <= run.pending
  /\ job.at = "request" /\ job.kind = "write" => episode.failed <= run.pending
  /\ job.at = "request" /\ job.kind = "validate" =>
       episode.failed <= job.cycle.attempt
  /\ job.at = "requested" => episode.failed <= job.cycle.attempt

(* A worker starts an episode; a continuation repairs what its handler     *)
(* required, which is saved only when an answer goes on with it.           *)
LoopCounts ==
  /\ Looping /\ job.kind \in {"fresh", "resumed"} => episode.failed = 0
  /\ (Looping \/ job.at \in {"unconfigured", "exhausted"})
     /\ job.kind \in {"validate", "answer"} => Repairing(job.repair)
  /\ Looping /\ job.kind = "validate" =>
       ~ run.repair.required /\ ~ saved.repair.required
  /\ Looping /\ job.kind = "answer" =>
       /\ saved.repair = run.repair
       /\ job.repair.required = run.repair.required
       /\ run.repair.required => job.repair.attempt = run.repair.attempt

Counting ==
  /\ RequestCounts(run) /\ RequestCounts(saved)
  /\ job.at = "idle" /\ store.question # 0 => Repairing(run.repair)
  /\ WriteCounts /\ LoopCounts
  /\ FailuresWithinLimit

(* What observe_agent_validation requires when it does not stop the repair. *)
LEMMA ObserveValidationResult ==
  ASSUME NEW h, NEW n, NEW limit, NEW failure, NEW t,
         t = ObserveValidation(h, n, limit, failure), t.stop = "none"
  PROVE  t.required = (failure # "none") /\ t.attempt = n
  BY DEF ObserveValidation, RepeatsTrigger, Transition

LEMMA RunNumbers ==
  ASSUME NEW r \in Runs
  PROVE  /\ r.pending \in Nat /\ r.cycle.attempt \in Nat
         /\ r.repair.attempt \in Nat /\ r.repair.required \in BOOLEAN
<1>1. /\ r.pending \in 0..MaxRepairs /\ r.repair \in Repairs
      /\ r.cycle \in Cycles
  BY DEF Runs
<1>2. r.repair.attempt \in 0..MaxRepairs /\ r.repair.required \in BOOLEAN
  BY <1>1 DEF Repairs
<1>3. r.cycle.attempt \in 0..MaxRepairs
  BY <1>1 DEF Cycles
<1>. QED
  BY <1>1, <1>2, <1>3, LimitType

LEMMA CountsType ==
  ASSUME TypeInv
  PROVE  /\ episode.failed \in Nat /\ MaxRepairs \in Nat
         /\ run.pending \in Nat /\ run.repair.attempt \in Nat
         /\ run.repair.required \in BOOLEAN
         /\ run.cycle.attempt \in 0..MaxRepairs
         /\ job.repair.attempt \in Nat /\ job.repair.required \in BOOLEAN
         /\ job.at \in {"idle", "loop", "settle"} \union Unasked
         /\ job.cycle.attempt \in Nat
<1>1. /\ run.pending \in 0..MaxRepairs /\ run.repair \in Repairs
      /\ run.cycle \in Cycles /\ job.repair \in Transitions
      /\ job.cycle \in Cycles
      /\ job.at \in {"idle", "loop", "settle"} \union Unasked
  BY DEF TypeInv, Runs, Jobs, Unasked
<1>2. episode.failed \in Nat
  BY DEF TypeInv
<1>3. run.repair.attempt \in 0..MaxRepairs /\ run.repair.required \in BOOLEAN
  BY <1>1 DEF Repairs
<1>4. job.repair.attempt \in 0..MaxRepairs /\ job.repair.required \in BOOLEAN
  BY <1>1 DEF Transitions
<1>5. run.cycle.attempt \in 0..MaxRepairs /\ job.cycle.attempt \in 0..MaxRepairs
  BY <1>1 DEF Cycles
<1>. QED
  BY <1>1, <1>2, <1>3, <1>4, <1>5, LimitType

LEMMA CountingInit == Init => Counting
<1> SUFFICES ASSUME Init PROVE Counting
  OBVIOUS
<1>1. /\ run.approval = NoRequest /\ saved = run /\ store.offer = NoRequest
      /\ store.question = 0 /\ episode.failed = 0
  BY DEF Init, NewEpisode
<1>2. job.at = "loop" /\ job.kind = "fresh"
  BY IdleType DEF Init, Jobs
<1>. QED
  BY <1>1, <1>2, NoRequestFields, LimitType
     DEF Counting, RequestCounts, WriteCounts, LoopCounts, Looping,
         FailuresWithinLimit, Repairing

LEMMA CountingLoop ==
  ASSUME TypeInv, Tied, Counting, NEW blocked, AgentLoop(Rest, blocked)
  PROVE  Counting'
<1>1. /\ job.at = "loop" /\ job'.at = "settle"
      /\ job'.kind = job.kind /\ job'.cycle = job.cycle
      /\ job'.repair = job.repair
      /\ UNCHANGED <<run, saved, episode>>
      /\ \/ store' = store
         \/ LoopEnded(Rest, store', job'.out)
  BY AgentLoopStep
<1>2. \/ store'.offer = store.offer
      \/ store'.offer.id = store.offers + 1
  BY <1>1 DEF LoopEnded
<1>3. RequestCounts(run)' /\ RequestCounts(saved)'
  BY <1>1, <1>2, NumberType DEF Counting, RequestCounts, Tied, Numbered
<1>. QED
  BY <1>1, <1>3
     DEF Counting, WriteCounts, LoopCounts, Looping, FailuresWithinLimit,
         Repairing

LEMMA CountingNext == TypeInv /\ Tied /\ Counting /\ [Next]_vars => Counting'
<1> SUFFICES ASSUME TypeInv, Tied, Counting, [Next]_vars PROVE Counting'
  OBVIOUS
<1> USE IdleType, NoRequestFields, CountsType
        DEF Counting, RequestCounts, WriteCounts, LoopCounts, Looping,
            FailuresWithinLimit, Repairing, Stands, Kept
<1>1. CASE WorkerStarts
  <2>1. /\ job.at = "start" /\ UNCHANGED <<store, validated, bounds>>
        /\ Stands(run, run')
        /\ Kept(run, saved') \/ saved' = run'
        /\ \/ job' = Idle
           \/ job'.at = "loop" /\ job'.kind = job.kind
        /\ episode' = NewEpisode
    BY <1>1, WorkerStartsStep
  <2>0. episode'.failed = 0
    BY <2>1 DEF NewEpisode
  <2>2. run' \in Runs /\ saved' \in Runs
    BY <1>1, WorkerStartsStep DEF TypeInv
  <2>3. /\ run'.pending \in Nat /\ run'.cycle.attempt \in Nat
        /\ saved'.pending \in Nat /\ saved'.cycle.attempt \in Nat
    BY <2>2, RunNumbers
  <2>4. job.kind = "resumed"
    BY <2>1 DEF Tied, KindsFit
  <2>5. RequestCounts(run)'
    BY <2>0, <2>1, <2>3
  <2>6. RequestCounts(saved)'
    BY <2>0, <2>1, <2>3
  <2>. QED
    BY <2>0, <2>1, <2>4, <2>5, <2>6
<1>2. CASE WorkerLoops
  BY <1>2, CountingLoop DEF WorkerLoops
<1>3. CASE WorkerSettles
  <2>1. /\ episode.failed = 0 /\ UNCHANGED <<store, episode>>
        /\ saved' = run' /\ job' = Idle
        /\ Kept(run, run') \/ run'.repair = NoRepair
    BY <1>3, WorkerSettlesStep
  <2>2. NoRepair.required = FALSE
    BY DEF NoRepair
  <2>3. run' \in Runs
    BY <1>3, WorkerSettlesStep DEF TypeInv
  <2>4. run'.pending \in Nat /\ run'.cycle.attempt \in Nat
    BY <2>3, RunNumbers
  <2>5. RequestCounts(run)' /\ RequestCounts(saved)'
    BY <2>1, <2>2, <2>4
  <2>. QED
    BY <2>1, <2>5
<1>4. CASE GrantWrite
  <2>1. /\ job.at = "idle" /\ run' = run /\ saved' = saved /\ saved = run
        /\ run.approval.kind = "write" /\ run.approval = store.offer
        /\ episode' = episode /\ store.question = 0
        /\ store'.question = store.question
    BY <1>4, GrantWriteStep DEF Tied, IdleIsSaved, OneIsOpen
  <2>2. \/ /\ store'.offer.id = store.offers + 1
           /\ job'.at = "refreshed" /\ job'.kind = "write"
        \/ /\ store'.offer = NoRequest
           /\ \/ job'.at = "record" /\ job'.kind = "write"
              \/ job' = job
    BY <1>4, GrantWriteStep
  <2>3. store'.offer # run.approval
    BY <2>1, <2>2, NumberType DEF Tied, Numbered
  <2>. QED
    BY <2>1, <2>2, <2>3
<1>5. CASE WriteRefreshed
  BY <1>5, WriteRefreshedStep DEF Tied, OpenFits, OneIsOpen, Unasked
<1>6. CASE RecordWrite
  BY <1>6, RecordWriteStep DEF Tied, KindsFit, OpenFits, OneIsOpen, Unasked
<1>7. CASE RequestValidation
  <2>1. /\ UNCHANGED <<run, saved, episode>>
        /\ store'.question = store.question
        /\ job.at = "request" /\ job'.cycle = Building
        /\ job'.kind = job.kind
        /\ \/ store'.offer.id = store.offers + 1 /\ job'.at = "requested"
           \/ store' = store /\ job'.at = "unrequested"
    BY <1>7, RequestValidationStep
  <2>2. episode.failed <= job'.cycle.attempt
    <3>1. CASE job.kind = "write"
      BY <2>1, <3>1 DEF Building, NewCycle, Cycle
    <3>2. CASE job.kind = "validate"
      BY <2>1, <3>2 DEF Building
    <3>. QED
      BY <2>1, <3>1, <3>2 DEF Tied, KindsFit
  <2>3. RequestCounts(run)' /\ RequestCounts(saved)'
    BY <2>1, NumberType DEF Tied, Numbered
  <2>. QED
    BY <2>1, <2>2, <2>3 DEF Tied, KindsFit
<1>8. CASE Requested
  BY <1>8, RequestedStep DEF Tied, OpenFits, OneIsOpen, Unasked
<1>9. ASSUME NEW failure \in Failures \union {"none"},
             GrantValidation(failure)
      PROVE  Counting'
  <2> DEFINE t == ObserveValidation(run.history, run.cycle.attempt, MaxRepairs,
                                    failure)
  <2>1. /\ saved = run /\ store.question = 0
        /\ run.approval.kind = "validate" /\ run.approval = store.offer
        /\ store'.question = store.question /\ store'.offer = NoRequest
        /\ episode' = IF failure # "none" THEN [episode EXCEPT !.failed = @ + 1]
                      ELSE IF run.cycle.next = Len(Commands) THEN NewEpisode
                      ELSE episode
    BY <1>9, GrantValidationStep DEF Tied, IdleIsSaved, OneIsOpen
  <2>2. /\ episode.failed <= run.cycle.attempt
        /\ ~ run.repair.required /\ ~ saved.repair.required
    BY <2>1
  <2>3. episode'.failed =
          IF failure # "none" THEN episode.failed + 1
          ELSE IF run.cycle.next = Len(Commands) THEN 0 ELSE episode.failed
    BY <2>1 DEF NewEpisode, TypeInv
  <2>4. episode'.failed <= MaxRepairs + 1
    BY <2>2, <2>3
  <2>5. CASE /\ failure = "none" /\ run.cycle.next < Len(Commands)
             /\ Stands(run, run') /\ saved' = saved
             /\ job'.at = "request" /\ job'.kind = "validate"
             /\ Advanced(job'.cycle)
    <3>1. episode'.failed = episode.failed
      BY <2>3, <2>5, LengthType
    <3>2. job'.cycle.attempt = run.cycle.attempt
      BY <2>5 DEF Advanced
    <3>. QED
      BY <2>1, <2>2, <2>4, <2>5, <3>1, <3>2
  <2>6. CASE saved' = run' /\ job' = Idle /\ run'.approval = NoRequest
    BY <2>1, <2>4, <2>6
  <2>7. CASE /\ failure # "none" \/ run.cycle.next = Len(Commands)
             /\ t.stop = "none"
             /\ Stands(run, run') /\ saved' = saved
             /\ job'.at \in {"loop", "unconfigured", "exhausted"}
             /\ job'.kind = "validate" /\ job'.repair = t
    <3>1. t.required = (failure # "none") /\ t.attempt = run.cycle.attempt
      BY <2>7, ObserveValidationResult
    <3> HIDE DEF t
    <3>2. \/ episode'.failed = 0
          \/ /\ job'.repair.required
             /\ episode'.failed <= job'.repair.attempt + 1
      <4>1. CASE failure = "none"
        BY <2>3, <2>7, <4>1
      <4>2. CASE failure # "none"
        <5>1. episode'.failed = episode.failed + 1
          BY <2>3, <4>2
        <5>2. job'.repair.required /\ job'.repair.attempt = run.cycle.attempt
          BY <2>7, <3>1, <4>2
        <5>. QED
          BY <2>2, <5>1, <5>2
      <4>. QED
        BY <4>1, <4>2
    <3>. QED
      BY <2>1, <2>2, <2>4, <2>7, <3>2
  <2>. QED
    BY <1>9, <2>5, <2>6, <2>7, GrantValidationStep
<1>10. CASE ValidationEnds
  BY <1>10, ValidationEndsStep DEF Tied, OneIsOpen, Unasked
<1>11. CASE ValidatedLoops
  BY <1>11, CountingLoop DEF ValidatedLoops
<1>12. CASE Answer
  <2>1. /\ job.at = "idle" /\ store.question # 0 /\ saved = run
        /\ UNCHANGED <<saved, episode>>
        /\ store'.offer = store.offer /\ store'.question = 0
        /\ Stands(run, run')
        /\ job'.at = "loop" /\ job'.kind = "answer"
        /\ job'.repair = ActiveRepair(run)
    BY <1>12, AnswerStep DEF Tied, IdleIsSaved
  <2>2. /\ job'.repair.required = run.repair.required
        /\ run.repair.required => job'.repair.attempt = run.repair.attempt
    BY <2>1, ActiveRepairType DEF TypeInv
  <2>. QED
    BY <2>1, <2>2
<1>13. CASE AnsweredLoops
  BY <1>13, CountingLoop DEF AnsweredLoops
<1>14. CASE ContinuationSettles
  <2>1. /\ job.at = "settle" /\ job.kind \in {"validate", "answer"}
        /\ store' = store /\ episode'.failed = episode.failed
        /\ saved' = run' /\ job' = Idle
        /\ store.question # 0 => job.out.what = "asked"
        /\ store.question # 0 => store.offer = NoRequest
        /\ store.offer.kind # "validate"
    BY <1>14, ContinuationSettlesStep
       DEF Tied, OneIsOpen, EndFits, OpenFits
  <2>2. \/ run'.approval = NoRequest /\ store.question = 0
        \/ /\ job.repair.required /\ run'.approval = store.offer
           /\ store.question = 0
           /\ run'.pending = job.repair.attempt + 1
           /\ ~ run'.repair.required
        \/ /\ \/ ~ job.repair.required
              \/ store.question # 0
           /\ run'.approval = store.offer
           /\ \/ /\ job.kind = "validate"
                 /\ run'.repair.required = job.repair.required
                 /\ run'.repair.attempt = job.repair.attempt
              \/ job.kind = "answer" /\ run'.repair = run.repair
    BY <1>14, <2>1, ContinuationSettlesStep, NoRequestFields DEF Proposing
  <2>3. run'.pending \in Nat
    BY <1>14, ContinuationSettlesStep DEF TypeInv, Runs
  <2>. QED
    BY <2>1, <2>2, <2>3
<1>15. CASE Reject
  BY <1>15, RejectStep DEF Tied, OneIsOpen
<1>16. CASE Cancel \/ Pause
  BY <1>16, StopStep
<1>17. CASE Resume
  BY <1>17, ResumeStep
<1>18. CASE Crash
  <2>1. /\ store' = store /\ Kept(saved, run') /\ saved' = run' /\ job' = Idle
        /\ episode' = IF job.repair.required /\ ~ saved.repair.required
                      THEN NewEpisode ELSE episode
    BY <1>18, CrashStep
  <2>2. \/ /\ episode' = episode
           /\ job.repair.required => saved.repair.required
        \/ episode'.failed = 0
    BY <2>1 DEF NewEpisode
  <2>3. saved \in Runs
    BY DEF TypeInv
  <2>4. saved.pending \in Nat /\ saved.cycle.attempt \in Nat
    BY <2>3, RunNumbers
  <2>5. RequestCounts(run)' /\ RequestCounts(saved)'
    BY <2>1, <2>2, <2>4
  <2>6. store.question # 0 => \/ episode'.failed = 0
                              \/ /\ saved.repair.required
                                 /\ episode'.failed <= saved.repair.attempt + 1
    <3> SUFFICES ASSUME store.question # 0
                 PROVE  \/ episode'.failed = 0
                        \/ /\ saved.repair.required
                           /\ episode'.failed <= saved.repair.attempt + 1
      OBVIOUS
    <3>1. CASE job.at = "idle"
      BY <2>2, <3>1 DEF Tied, IdleIsSaved
    <3>2. CASE Looping
      <4>1. CASE job.kind \in {"fresh", "resumed"}
        BY <2>2, <3>2, <4>1
      <4>2. CASE job.kind = "validate"
        BY <2>2, <3>2, <4>2
      <4>3. CASE job.kind = "answer"
        BY <2>2, <3>2, <4>3
      <4>. QED
        BY <3>2, <4>1, <4>2, <4>3 DEF Tied, KindsFit
    <3>3. job.at \notin Unasked
      BY DEF Tied, OneIsOpen
    <3>. QED
      BY <3>1, <3>2, <3>3
  <2>. QED
    BY <2>1, <2>2, <2>5, <2>6
<1>19. CASE OutsideEdit
  BY <1>19, OutsideEditStep
<1>20. CASE UNCHANGED vars
  BY <1>20 DEF vars
<1>. QED
  BY <1>1, <1>2, <1>3, <1>4, <1>5, <1>6, <1>7, <1>8, <1>9, <1>10, <1>11,
     <1>12, <1>13, <1>14, <1>15, <1>16, <1>17, <1>18, <1>19, <1>20 DEF Next

-----------------------------------------------------------------------------
(* The usage of the run and what the event log counts.                     *)

Covers(usage, s) ==
  /\ usage.steps >= s.steps
  /\ usage.calls >= s.calls
  /\ usage.commands >= s.commands

(* A run that waits for the request that is open accounts for all that was *)
(* done, so a grant may rely on what its usage leaves of the budget.       *)
OfferIsCovered(r) ==
  r.approval = store.offer /\ store.offer # NoRequest => Covers(r.usage, store)

(* A handler accounts for what it does; after a granted write the tools it *)
(* still has to run fit as well.                                           *)
HandlerCovers ==
  /\ job.at \in {"loop", "refreshed", "request", "requested"} =>
       Covers(run.usage, store)
  /\ job.at = "record" =>
       /\ run.usage.steps >= store.steps
       /\ run.usage.calls + 1 >= store.calls
       /\ run.usage.commands >= store.commands
       /\ store.calls < Budget.calls

(* What a call of the loop did is in the difference it is charged with.    *)
LoopCovers ==
  /\ job.at = "loop" => job.before <= store.calls
  /\ job.at = "settle" =>
       /\ run.usage.steps + job.out.steps >= store.steps
       /\ run.usage.calls + Larger(store.calls - job.before, 0) >= store.calls
       /\ run.usage.commands >= store.commands

(* An action costs at least one call, so a count of actions is never above *)
(* the count of calls.                                                     *)
ActionsAreCalls == store.started <= store.calls

Spending ==
  /\ OfferIsCovered(run) /\ OfferIsCovered(saved)
  /\ HandlerCovers /\ LoopCovers /\ ActionsAreCalls
  /\ BudgetHolds

LEMMA CoverType ==
  ASSUME TypeInv
  PROVE  /\ run.usage \in Usages /\ saved.usage \in Usages
         /\ run.usage.steps \in Nat /\ run.usage.calls \in Nat
         /\ run.usage.commands \in Nat
         /\ saved.usage.steps \in Nat /\ saved.usage.calls \in Nat
         /\ saved.usage.commands \in Nat
         /\ store.steps \in Nat /\ store.calls \in Nat
         /\ store.commands \in Nat /\ store.started \in Nat
         /\ job.before \in Nat /\ job.out.steps \in Nat
<1>1. run \in Runs /\ saved \in Runs /\ store \in Stores /\ job \in Jobs
  BY DEF TypeInv
<1>2. run.usage \in Usages /\ saved.usage \in Usages
  BY <1>1 DEF Runs
<1>3. job.before \in Nat /\ job.out \in Outcomes
  BY <1>1 DEF Jobs
<1>. QED
  BY <1>1, <1>2, <1>3 DEF Usages, Stores, Outcomes

LEMMA ReconciledCovers ==
  ASSUME TypeInv
  PROVE  Covers(Reconciled(run.usage, Counted), store)
<1>1. store \in Stores /\ run.usage \in Usages
  BY CoverType DEF TypeInv
<1>2. Counted \in Usages
  BY <1>1, CountedType
<1>. QED
  BY <1>1, <1>2, ReconciledType DEF Covers, Counted

(* What a handler charges: a refreshed approval, a write and the inspection *)
(* of its diff, a validation.                                              *)
LEMMA UsedMore ==
  ASSUME TypeInv
  PROVE  /\ Used(run.usage, 0, 1, 0) =
              [steps |-> run.usage.steps, calls |-> run.usage.calls + 1,
               commands |-> run.usage.commands]
         /\ Used(run.usage, 0, 2, 0) =
              [steps |-> run.usage.steps, calls |-> run.usage.calls + 2,
               commands |-> run.usage.commands]
         /\ Used(run.usage, 0, 1, 1) =
              [steps |-> run.usage.steps, calls |-> run.usage.calls + 1,
               commands |-> run.usage.commands + 1]
  BY CoverType DEF Used, Larger

LEMMA SpendingInit == Init => Spending
<1> SUFFICES ASSUME Init PROVE Spending
  OBVIOUS
<1>1. /\ store.steps = 0 /\ store.calls = 0 /\ store.commands = 0
      /\ store.started = 0 /\ store.offer = NoRequest
      /\ run.usage = NoUsage
  BY DEF Init
<1>2. job.at = "loop" /\ job.before = 0
  BY IdleType DEF Init, Jobs
<1>3. /\ Budget.steps \in Nat /\ Budget.calls \in Nat
      /\ Budget.commands \in Nat
  BY ValidationCycleAssumption
<1>. QED
  BY <1>1, <1>2, <1>3
     DEF Spending, OfferIsCovered, HandlerCovers, LoopCovers, ActionsAreCalls,
         BudgetHolds, Covers, NoUsage

LEMMA SpendingLoop ==
  ASSUME TypeInv, Tied, Spending, NEW blocked, AgentLoop(Rest, blocked)
  PROVE  Spending'
<1>1. /\ job.at = "loop" /\ job'.at = "settle" /\ job'.before = job.before
      /\ UNCHANGED <<run, saved>>
      /\ \/ Waiting /\ store' = store /\ job'.out = Waits
         \/ ~ Waiting /\ LoopEnded(Rest, store', job'.out)
      /\ TypeInv'
  BY AgentLoopStep
<1>2. /\ store'.calls \in Nat /\ store'.steps \in Nat /\ store'.started \in Nat
      /\ job'.out.steps \in Nat
  <2>1. store' \in Stores /\ job' \in Jobs
    BY <1>1 DEF TypeInv
  <2>2. job'.out \in Outcomes
    BY <2>1 DEF Jobs
  <2>. QED
    BY <2>1, <2>2 DEF Stores, Outcomes
<1>3. Covers(run.usage, store) /\ job.before <= store.calls
  BY <1>1 DEF Spending, HandlerCovers, LoopCovers
<1>4. CASE Waiting /\ store' = store /\ job'.out = Waits
  <2>1. Spending
    OBVIOUS
  <2>. QED
    BY <1>1, <1>2, <1>3, <1>4, CoverType
       DEF Spending, OfferIsCovered, HandlerCovers, LoopCovers,
           ActionsAreCalls, BudgetHolds, Covers, Larger
<1>5. CASE ~ Waiting /\ LoopEnded(Rest, store', job'.out)
  <2>1. /\ store'.steps = store.steps + job'.out.steps
        /\ job'.out.steps <= Rest.steps
        /\ store'.calls >= store.calls
        /\ store'.calls - store.calls <= Rest.calls
        /\ store'.calls - store'.started >= store.calls - store.started
        /\ store'.commands = store.commands
        /\ \/ store'.offer.id = store.offers + 1
           \/ store'.offer = store.offer
    BY <1>5 DEF LoopEnded
  <2>2. store.offer = NoRequest
    BY <1>5 DEF Waiting
  <2>3. OfferIsCovered(run)' /\ OfferIsCovered(saved)'
    BY <1>1, <2>1, <2>2, NumberType DEF OfferIsCovered, Tied, Numbered
  <2>4. /\ Budget.steps \in Nat /\ Budget.calls \in Nat
        /\ Rest.steps = Larger(Budget.steps - run.usage.steps, 0)
        /\ Rest.calls = Larger(Budget.calls - run.usage.calls, 0)
    BY RestType DEF TypeInv
  <2>5. BudgetHolds'
    BY <1>2, <1>3, <2>1, <2>4, CoverType
       DEF Spending, BudgetHolds, Covers, Larger
  <2>6. LoopCovers'
    BY <1>1, <1>2, <1>3, <2>1, CoverType DEF LoopCovers, Covers, Larger
  <2>7. ActionsAreCalls'
    BY <1>2, <2>1, CoverType DEF Spending, ActionsAreCalls
  <2>. QED
    BY <1>1, <2>3, <2>5, <2>6, <2>7 DEF Spending, HandlerCovers
<1>. QED
  BY <1>1, <1>4, <1>5

(* What a call of the loop is charged with covers what it did.             *)
LEMMA SettledCovers ==
  ASSUME TypeInv, Spending, job.at = "settle"
  PROVE  Covers(Used(run.usage, job.out.steps, store.calls - job.before, 0),
                store)
<1>1. store.calls - job.before \in Int /\ Larger(job.out.steps, 0) = job.out.steps
  BY CoverType DEF Larger
<1>2. Larger(0, 0) = 0
  BY DEF Larger
<1>. QED
  BY <1>1, <1>2, CoverType, UsedType
     DEF Spending, LoopCovers, Covers

LEMMA SpendingNext == TypeInv /\ Tied /\ Spending /\ [Next]_vars => Spending'
<1> SUFFICES ASSUME TypeInv, Tied, Spending, [Next]_vars PROVE Spending'
  OBVIOUS
<1>a. /\ Budget.steps \in Nat /\ Budget.calls \in Nat
      /\ Budget.commands \in Nat
      /\ Rest.calls = Larger(Budget.calls - run.usage.calls, 0)
      /\ Rest.commands = Larger(Budget.commands - run.usage.commands, 0)
  BY RestType DEF TypeInv
<1> USE IdleType, CoverType, NumberType
        DEF Spending, OfferIsCovered, HandlerCovers, LoopCovers,
            ActionsAreCalls, BudgetHolds, Covers, Stands, Kept
<1>1. CASE WorkerStarts
  <2>1. /\ job.at = "start" /\ UNCHANGED store
        /\ run'.approval = run.approval /\ saved'.approval = run.approval
        /\ \/ run'.usage = run.usage
           \/ run'.usage = Reconciled(run.usage, Counted)
        /\ saved'.usage \in {run.usage, run'.usage}
        /\ \/ job' = Idle
           \/ /\ job'.at = "loop" /\ job'.before = store.calls
              /\ run'.usage = Reconciled(run.usage, Counted)
    BY <1>1, WorkerStartsStep
  <2>. QED
    BY <2>1, ReconciledCovers
<1>2. CASE WorkerLoops
  BY <1>2, SpendingLoop DEF WorkerLoops
<1>3. CASE WorkerSettles
  <2>1. /\ job.at = "settle" /\ store' = store /\ saved' = run' /\ job' = Idle
        /\ \/ Kept(run, run')
           \/ job.out.what = "raised" /\ run'.approval = store.offer
           \/ /\ run'.usage = Used(run.usage, job.out.steps,
                                   store.calls - job.before, 0)
    BY <1>3, WorkerSettlesStep
  <2>2. job.out.what = "raised" => store.offer = NoRequest
    BY <2>1 DEF Tied, EndFits
  <2>. QED
    BY <2>1, <2>2, SettledCovers
<1>4. CASE GrantWrite
  <2>1. /\ job.at = "idle" /\ run' = run /\ saved' = saved /\ saved = run
        /\ run.approval = store.offer /\ store.offer # NoRequest
        /\ Rest.calls >= 2
        /\ store'.steps = store.steps /\ store'.commands = store.commands
    BY <1>4, GrantWriteStep, NoRequestFields DEF Tied, IdleIsSaved
  <2>2. \/ /\ store'.offer.id = store.offers + 1
           /\ store'.calls = store.calls /\ store'.started = store.started
           /\ job'.at = "refreshed"
        \/ /\ store'.offer = NoRequest
           /\ store'.calls = store.calls + 1
           /\ store'.started = store.started + 1
           /\ job'.at = "record" \/ job' = job
        \/ /\ store'.offer = NoRequest
           /\ store'.calls = store.calls /\ store'.started = store.started
           /\ job' = job
    BY <1>4, GrantWriteStep
  <2>3. run.usage.calls + 2 <= Budget.calls /\ Covers(run.usage, store)
    BY <2>1, <1>a DEF Larger
  <2>4. run.approval.id <= store.offers
    BY DEF Tied, Numbered
  <2>5. store'.offer # run.approval
    <3>1. \/ store'.offer = NoRequest
          \/ store'.offer.id = store.offers + 1
      BY <2>2
    <3>. QED
      BY <2>1, <2>4, <3>1, NumberType
  <2>6. OfferIsCovered(run)' /\ OfferIsCovered(saved)'
    BY <2>1, <2>5
  <2>7. \/ store'.calls = store.calls /\ store'.started = store.started
        \/ /\ store'.calls = store.calls + 1
           /\ store'.started = store.started + 1
    BY <2>2
  <2>8. BudgetHolds' /\ ActionsAreCalls'
    BY <2>1, <2>3, <2>7, <1>a
  <2>9. HandlerCovers' /\ LoopCovers'
    BY <2>1, <2>2, <2>3, <1>a
  <2>. QED
    BY <2>6, <2>8, <2>9
<1>5. CASE WriteRefreshed
  <2>1. /\ job.at = "refreshed" /\ store' = store /\ saved' = run'
        /\ job' = Idle /\ run'.usage = Used(run.usage, 0, 1, 0)
    BY <1>5, WriteRefreshedStep
  <2>2. /\ run'.usage.steps = run.usage.steps
        /\ run'.usage.calls = run.usage.calls + 1
        /\ run'.usage.commands = run.usage.commands
    BY <2>1, UsedMore
  <2>. QED
    BY <2>1, <2>2
<1>6. CASE RecordWrite
  <2>1. /\ job.at = "record"
        /\ store'.calls = store.calls + 1
        /\ store'.started = store.started + 1
        /\ store'.steps = store.steps /\ store'.commands = store.commands
        /\ store'.offer = store.offer
        /\ run'.usage = Used(run.usage, 0, 2, 0)
        /\ \/ job' = Idle
           \/ job'.at = "request"
    BY <1>6, RecordWriteStep
  <2>2. store'.offer = NoRequest
    BY <2>1 DEF Tied, OpenFits
  <2>3. /\ run'.usage.steps = run.usage.steps
        /\ run'.usage.calls = run.usage.calls + 2
        /\ run'.usage.commands = run.usage.commands
    BY <2>1, UsedMore
  <2>. QED
    BY <1>a, <2>1, <2>2, <2>3
<1>7. CASE RequestValidation
  <2>1. /\ UNCHANGED <<run, saved>> /\ job.at = "request"
        /\ store'.steps = store.steps /\ store'.commands = store.commands
        /\ store'.calls = store.calls /\ store'.started = store.started
        /\ \/ /\ job'.at = "requested"
              /\ store'.offer.id = store.offers + 1
           \/ job'.at = "unrequested" /\ store' = store
    BY <1>7, RequestValidationStep
  <2>. QED
    BY <2>1 DEF Tied, Numbered
<1>8. CASE Requested
  <2>1. /\ job.at \in {"requested", "unrequested"}
        /\ job' = Idle /\ saved' = run' /\ store' = store
        /\ run'.usage = run.usage
    BY <1>8, RequestedStep
  <2>2. job.at = "unrequested" => store.offer = NoRequest
    BY DEF Tied, OpenFits
  <2>. QED
    BY <2>1, <2>2
<1>9. ASSUME NEW failure \in Failures \union {"none"},
             GrantValidation(failure)
      PROVE  Spending'
  <2>1. /\ job.at = "idle" /\ run.approval.kind = "validate"
        /\ run.approval = store.offer
        /\ Rest.calls >= 1 /\ Rest.commands >= 1
        /\ store'.calls = store.calls + 1
        /\ store'.started = store.started + 1
        /\ store'.commands = store.commands + 1
        /\ store'.steps = store.steps /\ store'.offer = NoRequest
        /\ run'.usage = Used(run.usage, 0, 1, 1)
        /\ \/ job' = Idle
           \/ job'.at \in {"request", "unconfigured", "exhausted"}
           \/ job'.at = "loop" /\ job'.before = store.started + 1
    BY <1>9, GrantValidationStep
  <2>2. Covers(run.usage, store)
    BY <2>1, NoRequestFields
  <2>3. /\ run.usage.calls + 1 <= Budget.calls
        /\ run.usage.commands + 1 <= Budget.commands
    BY <1>a, <2>1 DEF Larger
  <2>4. /\ run'.usage.steps = run.usage.steps
        /\ run'.usage.calls = run.usage.calls + 1
        /\ run'.usage.commands = run.usage.commands + 1
    BY <2>1, UsedMore
  <2>5. Covers(run.usage, store)'
    BY <2>1, <2>2, <2>4
  <2>6. HandlerCovers' /\ LoopCovers'
    BY <2>1, <2>5
  <2>7. BudgetHolds' /\ ActionsAreCalls'
    BY <2>1, <2>2, <2>3, <1>a
  <2>8. OfferIsCovered(run)' /\ OfferIsCovered(saved)'
    BY <2>1
  <2>. QED
    BY <2>6, <2>7, <2>8
<1>10. CASE ValidationEnds
  <2>1. /\ job.at \in {"unconfigured", "exhausted"} /\ store' = store
        /\ saved' = run' /\ job' = Idle /\ run'.approval = NoRequest
    BY <1>10, ValidationEndsStep
  <2>. QED
    BY <2>1
<1>11. CASE ValidatedLoops
  BY <1>11, SpendingLoop DEF ValidatedLoops
<1>12. CASE Answer
  <2>1. /\ UNCHANGED saved
        /\ store'.steps = store.steps /\ store'.calls = store.calls
        /\ store'.commands = store.commands
        /\ store'.started = store.started
        /\ store'.offer = store.offer
        /\ run'.usage = Reconciled(run.usage, Counted)
        /\ job'.at = "loop" /\ job'.before = store.calls
    BY <1>12, AnswerStep
  <2>. QED
    BY <2>1, ReconciledCovers
<1>13. CASE AnsweredLoops
  BY <1>13, SpendingLoop DEF AnsweredLoops
<1>14. CASE ContinuationSettles
  <2>1. /\ job.at = "settle" /\ store' = store /\ saved' = run' /\ job' = Idle
        /\ \/ run'.approval = NoRequest
           \/ run'.usage = Used(run.usage, job.out.steps,
                                store.calls - job.before, 0)
    BY <1>14, ContinuationSettlesStep
  <2>. QED
    BY <2>1, SettledCovers
<1>15. CASE Reject
  <2>1. /\ store'.steps = store.steps /\ store'.calls = store.calls
        /\ store'.commands = store.commands
        /\ store'.started = store.started /\ store'.offer = NoRequest
        /\ saved' = run' /\ job' = Idle
    BY <1>15, RejectStep
  <2>. QED
    BY <2>1
<1>16. CASE Cancel \/ Pause
  BY <1>16, StopStep
<1>17. CASE Resume
  <2>1. /\ store' = store /\ run'.usage = Reconciled(run.usage, Counted)
        /\ saved' = run'
        /\ \/ job' = Idle
           \/ job'.at = "start"
    BY <1>17, ResumeStep
  <2>. QED
    BY <2>1, ReconciledCovers
<1>18. CASE Crash
  <2>1. /\ store' = store /\ Kept(saved, run') /\ saved' = run' /\ job' = Idle
    BY <1>18, CrashStep
  <2>. QED
    BY <2>1
<1>19. CASE OutsideEdit
  BY <1>19, OutsideEditStep
<1>20. CASE UNCHANGED vars
  BY <1>20 DEF vars
<1>. QED
  BY <1>1, <1>2, <1>3, <1>4, <1>5, <1>6, <1>7, <1>8, <1>9, <1>10, <1>11,
     <1>12, <1>13, <1>14, <1>15, <1>16, <1>17, <1>18, <1>19, <1>20 DEF Next

-----------------------------------------------------------------------------
(* Theorems.                                                               *)

LEMMA TiedHolds == Spec => []Tied
  BY TiedInit, TiedNext, TypeInvHolds, PTL DEF Spec

(* A user asked to approve a validation command has the commands before it *)
(* passed since the agent's last write: a cycle starts at the first command *)
(* after every write, and what a failure leaves is not asked for            *)
(* (_task_validation_cycle, _continue_task_after_validation).  An edit of   *)
(* the sandbox by somebody else is not noticed by either of them.           *)
THEOREM CommandsAreInOrder == Spec => []EarlierCommandsPassed
<1>1. InOrder => EarlierCommandsPassed
  BY DEF InOrder, OffersInOrder, PassedBefore, EarlierCommandsPassed, CycleFits
<1>2. Spec => []InOrder
  BY InOrderInit, InOrderNext, TypeInvHolds, TiedHolds, PTL DEF Spec
<1>. QED
  BY <1>1, <1>2, PTL

(* Between two passes of the last command, or two resumes of the run, at   *)
(* most one validation fails for the write and one for each repair that    *)
(* max_repair_attempts allows, through refreshed approvals, answered       *)
(* questions, stops and restarts (agent_repair.py).                        *)
THEOREM RepairsAreBounded == Spec => []FailuresWithinLimit
<1>1. Counting => FailuresWithinLimit
  BY DEF Counting
<1>2. Spec => []Counting
  BY CountingInit, CountingNext, TypeInvHolds, TiedHolds, PTL DEF Spec
<1>. QED
  BY <1>1, <1>2, PTL

(* What the event log counts of steps, tool calls and validation commands  *)
(* stays within the budget, over pauses, cancellations, restarts and       *)
(* resumed workers, whatever the read of an agent costs                    *)
(* (_reconcile_runtime_execution_usage, _remaining_agent_continuation_     *)
(* budget).                                                                *)
THEOREM CountsStayWithinBudget == Spec => []BudgetHolds
<1>1. Spending => BudgetHolds
  BY DEF Spending
<1>2. Spec => []Spending
  BY SpendingInit, SpendingNext, TypeInvHolds, TiedHolds, PTL DEF Spec
<1>. QED
  BY <1>1, <1>2, PTL

-----------------------------------------------------------------------------
(***************************************************************************)
(* Within an episode no write is offered twice as a repair.  On top of     *)
(* the layers above, the inductive invariant says where the history of the *)
(* run remembers what was offered: up to which attempt, in which of the    *)
(* three copies a handler works with.                                      *)
(***************************************************************************)

(* Every write of tried is in the record of an attempt up to n.            *)
RememberedIn(tried, history, n) ==
  \A i \in DOMAIN tried :
    \E k \in DOMAIN history : k <= n /\ history[k].proposal = tried[i]

Remembered(history, n) == RememberedIn(episode.tried, history, n)

RequestRecalls(r) ==
  /\ r.approval = store.offer /\ r.approval.kind = "write" =>
       Remembered(r.history, r.pending)
  /\ r.approval = store.offer /\ r.approval.kind = "validate" =>
       Remembered(r.history, r.cycle.attempt)

(* The handlers between the grant of a write and the next request.         *)
WriteRecalls ==
  /\ job.at \in {"refreshed", "record"} => Remembered(run.history, run.pending)
  /\ job.at = "request" /\ job.kind = "write" =>
       Remembered(run.history, run.pending)
  /\ job.at = "request" /\ job.kind = "validate" =>
       Remembered(run.history, job.cycle.attempt)
  /\ job.at = "requested" => Remembered(run.history, job.cycle.attempt)

(* Without a required repair nothing was offered in this episode.          *)
Recalled(required, history, attempt) ==
  \/ episode.tried = <<>>
  \/ required /\ Remembered(history, attempt)

LoopRecalls ==
  /\ Looping /\ job.kind \in {"fresh", "resumed"} => episode.tried = <<>>
  /\ (Looping \/ job.at \in {"unconfigured", "exhausted"})
     /\ job.kind \in {"validate", "answer"} =>
       Recalled(job.repair.required, job.repair.history, job.repair.attempt)
  /\ Looping /\ job.kind = "answer" =>
       saved.history = run.history /\ job.repair.history = run.history

(* A continuation starts with nothing open, and its loop offers no write   *)
(* that the repair history blocks.                                         *)
OffersAreNew ==
  job.kind \in {"validate", "answer"} =>
    /\ job.at = "loop" => ~ Waiting
    /\ job.at = "settle" /\ job.repair.required /\ job.out.what = "offered" =>
         job.out.write \in Proposals \ Blocked(job.repair.history)

Recalling ==
  /\ RequestRecalls(run) /\ RequestRecalls(saved)
  /\ job.at = "idle" /\ store.question # 0 =>
       Recalled(run.repair.required, run.history, run.repair.attempt)
  /\ WriteRecalls /\ LoopRecalls /\ OffersAreNew
  /\ RepairsAreNew

-----------------------------------------------------------------------------
(* The repair history.                                                     *)

(* A loop offers none of the writes it is told to block.                   *)
LEMMA OfferedIsFree ==
  ASSUME NEW rest, NEW blocked, NEW l \in Loops(rest, blocked),
         l[2].what = "offered"
  PROVE  l[2].write \in Proposals \ blocked
<1>1. CASE l \in Asks(rest)
  BY <1>1 DEF Asks, Outcome
<1>2. CASE l \in Offers(rest, blocked)
  <2>1. PICK n \in Affordable(rest), w \in Fitting(Proposals \ blocked) :
          l = <<Offered(Decided(n), "write", w, 0, disk),
                Outcome("offered", w, Steps(n))>>
    BY <1>2 DEF Offers
  <2>2. l[2].write = w /\ w \in Proposals \ blocked
    BY <2>1 DEF Outcome, Fitting
  <2>. QED
    BY <2>2
<1>3. CASE l \in Repeats(rest, blocked)
  BY <1>3 DEF Repeats, Outcome
<1>4. CASE l \in Finishes(rest)
  BY <1>4 DEF Finishes, Outcome
<1>5. CASE l \in Undecided(rest)
  <2>1. PICK n \in ReadCosts, what \in {"stopped", "raised"} :
          l[2] = Outcome(what, "none", Steps(n) - 1)
    BY <1>5 DEF Undecided
  <2>. QED
    BY <2>1 DEF Outcome
<1>. QED
  BY <1>1, <1>2, <1>3, <1>4, <1>5 DEF Loops

(* Recording the result of a validation changes no proposal.               *)
LEMMA OutcomeKeepsProposals ==
  ASSUME NEW h \in Histories, NEW n, NEW f, NEW g, g = RecordOutcome(h, n, f)
  PROVE  /\ DOMAIN h \subseteq DOMAIN g
         /\ \A k \in DOMAIN h : g[k].proposal = h[k].proposal
<1> DEFINE s == IF f = "none" THEN "completed"
                ELSE IF RepeatsTrigger(h, n, f) THEN "stopped"
                ELSE "validation_failed"
           d == [RecordFor(h, n, s) EXCEPT !.status = s, !.result = f]
<1>1. g = [k \in DOMAIN h \union {n} |-> IF k = n THEN d ELSE h[k]]
  BY DEF RecordOutcome, Upsert
<1>2. ASSUME n \in DOMAIN h
      PROVE  d.proposal = h[n].proposal
  <2>1. h[n] \in AttemptRecords
    BY <1>2 DEF Histories
  <2>2. RecordFor(h, n, s) = h[n]
    BY <1>2 DEF RecordFor
  <2>. QED
    BY <2>1, <2>2 DEF AttemptRecords
<1> HIDE DEF d
<1>. QED
  BY <1>1, <1>2

LEMMA ObservedKeepsProposals ==
  ASSUME NEW h \in Histories, NEW n, NEW limit, NEW f, NEW t,
         t = ObserveValidation(h, n, limit, f), t.stop = "none"
  PROVE  /\ DOMAIN h \subseteq DOMAIN t.history
         /\ \A k \in DOMAIN h : t.history[k].proposal = h[k].proposal
<1> DEFINE g == RecordOutcome(h, n, f)
<1>1. t.history = g
  BY DEF ObserveValidation, Transition
<1>2. /\ DOMAIN h \subseteq DOMAIN g
      /\ \A k \in DOMAIN h : g[k].proposal = h[k].proposal
  <2>1. g = RecordOutcome(h, n, f)
    OBVIOUS
  <2> HIDE DEF g
  <2>. QED
    BY <2>1, OutcomeKeepsProposals
<1>. QED
  BY <1>1, <1>2

(* A later attempt is remembered too.                                      *)
LEMMA RememberedLater ==
  ASSUME NEW h, NEW g, NEW m \in Nat, NEW n \in Nat, m <= n,
         DOMAIN h \subseteq Nat, Remembered(h, m),
         DOMAIN h \subseteq DOMAIN g,
         \A k \in DOMAIN h : g[k].proposal = h[k].proposal
  PROVE  Remembered(g, n)
  BY DEF Remembered, RememberedIn

(* What attempt n proposes is remembered up to n with what came before.    *)
LEMMA ProposalIsRemembered ==
  ASSUME NEW h, NEW g, NEW n \in Nat, NEW m, NEW w,
         NEW tried \in Seq(Proposed),
         DOMAIN h \subseteq Nat, m = n + 1, Proposes(h, m, w, g),
         RememberedIn(tried, h, n)
  PROVE  RememberedIn(Append(tried, w), g, m)
<1>1. PICK e : e.proposal = w /\ g = Upsert(h, m, e)
  BY DEF Proposes
<1>2. g = [k \in DOMAIN h \union {m} |-> IF k = m THEN e ELSE h[k]]
  BY <1>1 DEF Upsert
<1> SUFFICES ASSUME NEW i \in DOMAIN Append(tried, w)
             PROVE  \E k \in DOMAIN g :
                      k <= m /\ g[k].proposal = Append(tried, w)[i]
  BY DEF RememberedIn
<1>3. /\ DOMAIN Append(tried, w) = 1..(Len(tried) + 1)
      /\ DOMAIN tried = 1..Len(tried) /\ Len(tried) \in Nat
      /\ i <= Len(tried) => Append(tried, w)[i] = tried[i]
      /\ Append(tried, w)[Len(tried) + 1] = w
  OBVIOUS
<1>4. CASE i <= Len(tried)
  <2>1. PICK k \in DOMAIN h : k <= n /\ h[k].proposal = tried[i]
    BY <1>3, <1>4 DEF RememberedIn
  <2>2. k \in DOMAIN g /\ k <= m /\ g[k] = h[k]
    BY <1>2, <2>1
  <2>. QED
    BY <1>3, <1>4, <2>1, <2>2
<1>5. CASE i = Len(tried) + 1
  <2>1. m \in DOMAIN g /\ g[m] = e
    BY <1>2
  <2>. QED
    BY <1>1, <1>3, <1>5, <2>1
<1>. QED
  BY <1>3, <1>4, <1>5

-----------------------------------------------------------------------------
(* The steps.                                                              *)

LEMMA RecallType ==
  ASSUME TypeInv
  PROVE  /\ run.history \in Histories /\ saved.history \in Histories
         /\ job.repair \in Transitions /\ job.repair.history \in Histories
         /\ DOMAIN run.history \subseteq Nat
         /\ DOMAIN job.repair.history \subseteq Nat
         /\ job.repair.attempt \in Nat
         /\ episode.tried \in Seq(Proposed)
<1>1. /\ run \in Runs /\ saved \in Runs /\ job \in Jobs
      /\ episode \in [failed : Nat, tried : Seq(Proposed)]
  BY DEF TypeInv
<1>2. run.history \in Histories /\ saved.history \in Histories
  BY <1>1 DEF Runs
<1>3. job.repair \in Transitions
  BY <1>1 DEF Jobs
<1>4. job.repair.history \in Histories /\ job.repair.attempt \in 0..MaxRepairs
  BY <1>3 DEF Transitions
<1>5. ASSUME NEW h \in Histories PROVE DOMAIN h \subseteq Nat
  <2>1. PICK D \in SUBSET (0..MaxRepairs) : h \in [D -> AttemptRecords]
    BY DEF Histories
  <2>. QED
    BY <2>1, LimitType
<1>. QED
  BY <1>1, <1>2, <1>3, <1>4, <1>5, LimitType

LEMMA NothingToRemember ==
  ASSUME episode.tried = <<>>
  PROVE  \A h, n : Remembered(h, n)
  BY DEF Remembered, RememberedIn

LEMMA RecallingInit == Init => Recalling
<1> SUFFICES ASSUME Init PROVE Recalling
  OBVIOUS
<1>1. /\ run.approval = NoRequest /\ saved = run /\ store.question = 0
      /\ episode.tried = <<>>
  BY DEF Init, NewEpisode
<1>2. job.at = "loop" /\ job.kind = "fresh"
  BY IdleType DEF Init, Jobs
<1>. QED
  BY <1>1, <1>2, NoRequestFields
     DEF Recalling, RequestRecalls, WriteRecalls, LoopRecalls, OffersAreNew,
         RepairsAreNew, Looping

LEMMA RecallingLoop ==
  ASSUME TypeInv, Tied, Recalling, NEW blocked, AgentLoop(Rest, blocked),
         job.kind \in {"validate", "answer"} =>
           blocked = RepairBlocks(job.repair)
  PROVE  Recalling'
<1>1. /\ job.at = "loop" /\ job'.at = "settle"
      /\ job'.kind = job.kind /\ job'.cycle = job.cycle
      /\ job'.repair = job.repair
      /\ UNCHANGED <<run, saved, episode>>
      /\ \/ Waiting /\ store' = store /\ job'.out = Waits
         \/ ~ Waiting /\ LoopEnded(Rest, store', job'.out)
  BY AgentLoopStep
<1>2. \/ store'.offer = store.offer
      \/ store'.offer.id = store.offers + 1
  BY <1>1 DEF LoopEnded
<1>3. RequestRecalls(run)' /\ RequestRecalls(saved)'
  BY <1>1, <1>2, NumberType
     DEF Recalling, RequestRecalls, Remembered, RememberedIn, Tied, Numbered
<1>4. OffersAreNew'
  <2> SUFFICES ASSUME job.kind \in {"validate", "answer"},
                      job.repair.required, job'.out.what = "offered"
               PROVE  job'.out.write \in Proposals \ Blocked(job.repair.history)
    BY <1>1 DEF OffersAreNew
  <2>1. blocked = Blocked(job.repair.history)
    BY DEF RepairBlocks
  <2>2. ~ Waiting
    BY <1>1 DEF Recalling, OffersAreNew
  <2>3. PICK l \in Loops(Rest, blocked) :
          job' = [job EXCEPT !.at = "settle", !.out = l[2]]
    BY <2>2 DEF AgentLoop
  <2>4. job'.out = l[2]
    BY <2>3 DEF TypeInv, Jobs
  <2>. QED
    BY <2>1, <2>4, OfferedIsFree
<1>5. WriteRecalls' /\ LoopRecalls'
  BY <1>1 DEF Recalling, WriteRecalls, LoopRecalls, Looping, Recalled,
              Remembered
<1>6. RepairsAreNew'
  BY <1>1 DEF Recalling, RepairsAreNew
<1>. QED
  BY <1>1, <1>3, <1>4, <1>5, <1>6 DEF Recalling

(* A continuation that offers a repair records it; one that waits with no  *)
(* new offer leaves the history as its loop found it.                      *)
LEMMA RecallingSettled ==
  ASSUME TypeInv, Tied, Counting, Recalling, ContinuationSettles
  PROVE  Recalling'
<1> DEFINE t == job.repair
           offers == /\ job.out.what # "raised" /\ t.required
                     /\ run'.approval # NoRequest
<1>1. /\ job.at = "settle" /\ job.kind \in {"validate", "answer"}
      /\ store' = store /\ saved' = run' /\ job' = Idle
      /\ episode'.tried = IF offers THEN Append(episode.tried, job.out.write)
                          ELSE episode.tried
      /\ store.question # 0 => job.out.what = "asked"
      /\ store.question # 0 => store.offer = NoRequest
      /\ store.offer # NoRequest => job.out.what = "offered"
      /\ store.offer.kind # "validate"
  BY ContinuationSettlesStep
     DEF Tied, OneIsOpen, EndFits, OpenFits, Looping
<1>1a. Proposing(store.offer, job.out) => store.question = 0
  BY <1>1, NoRequestFields DEF Proposing
<1>2. \/ run'.approval = NoRequest /\ store.question = 0
      \/ /\ t.required /\ run'.approval = store.offer
         /\ store.question = 0
         /\ run'.pending = t.attempt + 1
         /\ Proposes(t.history, t.attempt + 1, job.out.write, run'.history)
      \/ /\ ~ t.required \/ store.question # 0
         /\ run'.approval = store.offer
         /\ \/ /\ job.kind = "validate"
               /\ run'.repair.required = t.required
               /\ run'.repair.attempt = t.attempt
               /\ run'.history = t.history
            \/ /\ job.kind = "answer" /\ run'.repair = run.repair
               /\ run'.history = run.history
  BY <1>1, <1>1a, ContinuationSettlesStep
<1>3. Recalled(t.required, t.history, t.attempt)
  BY <1>1 DEF Recalling, LoopRecalls, Looping
<1>4. RepairsAreNew'
  <2>1. CASE ~ offers
    BY <1>1, <2>1 DEF Recalling, RepairsAreNew
  <2>2. CASE offers
    <3>1. job.out.what = "offered"
      BY <1>1, <1>2, <2>2
    <3>2. job.out.write \in Proposals \ Blocked(t.history)
      BY <1>1, <2>2, <3>1 DEF Recalling, OffersAreNew
    <3>3. \A i \in DOMAIN episode.tried :
            episode.tried[i] # job.out.write
      <4> SUFFICES ASSUME NEW i \in DOMAIN episode.tried,
                          episode.tried[i] = job.out.write
                   PROVE  FALSE
        OBVIOUS
      <4>1. PICK k \in DOMAIN t.history :
              t.history[k].proposal = job.out.write
        BY <1>3, RecallType DEF Recalled, Remembered, RememberedIn
      <4>2. job.out.write # "none"
        BY <3>2, ValidationCycleAssumption DEF Contents, Proposals
      <4>. QED
        BY <3>2, <4>1, <4>2 DEF Blocked
    <3>4. /\ episode.tried \in Seq(Proposed)
          /\ episode'.tried = Append(episode.tried, job.out.write)
      BY <1>1, <2>2, RecallType
    <3>5. \A i, j \in DOMAIN episode.tried :
            i # j => episode.tried[i] # episode.tried[j]
      BY DEF Recalling, RepairsAreNew
    <3>. QED
      BY <3>3, <3>4, <3>5 DEF RepairsAreNew
  <2>. QED
    BY <2>1, <2>2
<1>5. CASE run'.approval = NoRequest /\ store.question = 0
  BY <1>1, <1>4, <1>5, IdleType, NoRequestFields
     DEF Recalling, RequestRecalls, WriteRecalls, LoopRecalls, OffersAreNew,
         Looping
<1>6. CASE /\ t.required /\ run'.approval = store.offer
           /\ store.question = 0 /\ run'.approval # NoRequest
           /\ run'.pending = t.attempt + 1
           /\ Proposes(t.history, t.attempt + 1, job.out.write, run'.history)
  <2>1. job.out.what # "raised"
    BY <1>1, <1>6
  <2>2. episode'.tried = Append(episode.tried, job.out.write)
    BY <1>1, <1>6, <2>1
  <2>3. RememberedIn(episode.tried, t.history, t.attempt)
    BY <1>3 DEF Recalled, Remembered, RememberedIn
  <2> DEFINE h == t.history
             g == run'.history
             n == t.attempt
             m == t.attempt + 1
             w == job.out.write
             tried == episode.tried
  <2>4. /\ n \in Nat /\ DOMAIN h \subseteq Nat /\ tried \in Seq(Proposed)
        /\ m = n + 1 /\ Proposes(h, m, w, g)
        /\ RememberedIn(tried, h, n)
    BY <1>6, <2>3, RecallType
  <2>5. RememberedIn(episode'.tried, g, m)
    <3>1. episode'.tried = Append(tried, w)
      BY <2>2
    <3> HIDE DEF h, g, n, m, w, tried
    <3>2. RememberedIn(Append(tried, w), g, m)
      BY <2>4, ProposalIsRemembered
    <3>. QED
      BY <3>1, <3>2
  <2>6. Remembered(run.history, run.pending)'
    BY <1>6, <2>5 DEF Remembered, RememberedIn
  <2>7. RequestRecalls(run)' /\ RequestRecalls(saved)'
    BY <1>1, <1>6, <2>6 DEF RequestRecalls
  <2>. QED
    BY <1>1, <1>4, <1>6, <2>7, IdleType
       DEF Recalling, WriteRecalls, LoopRecalls, OffersAreNew, Looping
<1>7. CASE /\ ~ t.required \/ store.question # 0
           /\ run'.approval = store.offer
           /\ \/ /\ job.kind = "validate"
                 /\ run'.repair.required = t.required
                 /\ run'.repair.attempt = t.attempt
                 /\ run'.history = t.history
              \/ /\ job.kind = "answer" /\ run'.repair = run.repair
                 /\ run'.history = run.history
  <2>1. episode'.tried = episode.tried
    BY <1>1, <1>7
  <2>2. /\ job.kind = "answer" => t.history = run.history
        /\ job.kind = "answer" => t.required = run.repair.required
        /\ job.kind = "answer" /\ t.required => t.attempt = run.repair.attempt
    BY <1>1 DEF Recalling, LoopRecalls, Looping, Counting, LoopCounts
  <2>3. Recalled(run.repair.required, run.history, run.repair.attempt)'
    BY <1>3, <1>7, <2>1, <2>2 DEF Recalled, Remembered, RememberedIn
  <2>4. CASE store.question # 0
    <3>1. store.offer = NoRequest
      BY <1>1, <2>4
    <3>. QED
      BY <1>1, <1>4, <1>7, <2>3, <3>1, IdleType, NoRequestFields
         DEF Recalling, RequestRecalls, WriteRecalls, LoopRecalls,
             OffersAreNew, Looping
  <2>5. CASE store.question = 0
    <3>1. episode'.tried = <<>>
      BY <1>3, <1>7, <2>1, <2>5 DEF Recalled
    <3>2. \A h, n : Remembered(h, n)'
      BY <3>1 DEF Remembered, RememberedIn
    <3>. QED
      BY <1>1, <1>4, <2>3, <3>2, IdleType
         DEF Recalling, RequestRecalls, WriteRecalls, LoopRecalls,
             OffersAreNew, Looping
  <2>. QED
    BY <2>4, <2>5
<1>. QED
  BY <1>2, <1>5, <1>6, <1>7

LEMMA RecallingNext ==
  TypeInv /\ Tied /\ Counting /\ Recalling /\ [Next]_vars => Recalling'
<1> SUFFICES ASSUME TypeInv, Tied, Counting, Recalling, [Next]_vars
             PROVE  Recalling'
  OBVIOUS
<1> USE IdleType, NoRequestFields, RecallType
        DEF Recalling, RequestRecalls, WriteRecalls, LoopRecalls, OffersAreNew,
            Recalled, Looping, Stands, Kept
<1>a. (episode' = episode /\ job' = Idle /\ store'.question = 0
       /\ store'.offer = NoRequest) => Recalling'
  BY DEF RepairsAreNew
<1>1. CASE WorkerStarts
  <2>1. /\ job.at = "start"
        /\ \/ job' = Idle
           \/ job'.at = "loop" /\ job'.kind = job.kind
        /\ episode' = NewEpisode
    BY <1>1, WorkerStartsStep
  <2>2. episode'.tried = <<>>
    BY <2>1 DEF NewEpisode
  <2>3. \A h, n : Remembered(h, n)'
    BY <2>2 DEF Remembered, RememberedIn
  <2>4. job.kind = "resumed"
    BY <2>1 DEF Tied, KindsFit
  <2>. QED
    BY <2>1, <2>2, <2>3, <2>4 DEF RepairsAreNew
<1>2. CASE WorkerLoops
  BY <1>2, RecallingLoop DEF WorkerLoops
<1>3. CASE WorkerSettles
  <2>1. /\ job.at = "settle" /\ job.kind \in {"fresh", "resumed"}
        /\ episode' = episode /\ job' = Idle
    BY <1>3, WorkerSettlesStep
  <2>2. episode'.tried = <<>>
    BY <2>1
  <2>3. \A h, n : Remembered(h, n)'
    BY <2>2 DEF Remembered, RememberedIn
  <2>. QED
    BY <2>1, <2>2, <2>3 DEF RepairsAreNew
<1>4. CASE GrantWrite
  <2>1. /\ job.at = "idle" /\ run' = run /\ saved' = saved /\ saved = run
        /\ run.approval.kind = "write" /\ run.approval = store.offer
        /\ episode' = episode /\ store.question = 0
        /\ store'.question = store.question
    BY <1>4, GrantWriteStep DEF Tied, IdleIsSaved, OneIsOpen
  <2>2. \/ /\ store'.offer.id = store.offers + 1
           /\ job'.at = "refreshed" /\ job'.kind = "write"
        \/ /\ store'.offer = NoRequest
           /\ \/ job'.at = "record" /\ job'.kind = "write"
              \/ job' = job
    BY <1>4, GrantWriteStep
  <2>3. store'.offer # run.approval
    BY <2>1, <2>2, NumberType DEF Tied, Numbered
  <2>4. Remembered(run.history, run.pending)'
    BY <2>1 DEF Remembered, RememberedIn
  <2>. QED
    BY <2>1, <2>2, <2>3, <2>4 DEF RepairsAreNew
<1>5. CASE WriteRefreshed
  <2>1. /\ job.at = "refreshed" /\ job' = Idle /\ saved' = run'
        /\ UNCHANGED <<store, episode>>
        /\ run'.pending = run.pending /\ run'.history = run.history
        /\ run'.approval = store.offer
    BY <1>5, WriteRefreshedStep
  <2>2. store.offer.kind = "write" /\ store.question = 0
    BY <2>1 DEF Tied, OpenFits, OneIsOpen, Unasked
  <2>3. Remembered(run.history, run.pending)'
    BY <2>1 DEF Remembered, RememberedIn
  <2>. QED
    BY <2>1, <2>2, <2>3 DEF RepairsAreNew
<1>6. CASE RecordWrite
  <2>1. /\ job.at = "record" /\ episode' = episode
        /\ store'.offer = store.offer /\ store'.question = store.question
        /\ \/ job' = Idle
           \/ /\ run'.pending = run.pending /\ run'.history = run.history
              /\ job'.at = "request" /\ job'.kind = job.kind
    BY <1>6, RecordWriteStep
  <2>2. /\ store.offer = NoRequest /\ store.question = 0
        /\ job.kind = "write"
    BY <2>1 DEF Tied, OpenFits, OneIsOpen, KindsFit, Unasked
  <2>3. \/ job' = Idle
        \/ Remembered(run.history, run.pending)'
    BY <2>1 DEF Remembered, RememberedIn
  <2>. QED
    BY <2>1, <2>2, <2>3 DEF RepairsAreNew
<1>7. CASE RequestValidation
  <2>1. /\ UNCHANGED <<run, saved, episode>>
        /\ job.at = "request" /\ job'.cycle = Building
        /\ job'.kind = job.kind
        /\ \/ store'.offer.id = store.offers + 1 /\ job'.at = "requested"
           \/ store' = store /\ job'.at = "unrequested"
    BY <1>7, RequestValidationStep
  <2>2. Remembered(run.history, job'.cycle.attempt)
    <3>1. CASE job.kind = "write"
      BY <2>1, <3>1 DEF Building, NewCycle, Cycle
    <3>2. CASE job.kind = "validate"
      BY <2>1, <3>2 DEF Building
    <3>. QED
      BY <2>1, <3>1, <3>2 DEF Tied, KindsFit
  <2>3. Remembered(run.history, job.cycle.attempt)'
    BY <2>1, <2>2 DEF Remembered, RememberedIn
  <2>4. RequestRecalls(run)' /\ RequestRecalls(saved)'
    BY <2>1, NumberType DEF Tied, Numbered, Remembered, RememberedIn
  <2>. QED
    BY <2>1, <2>3, <2>4 DEF Tied, KindsFit, RepairsAreNew
<1>8. CASE Requested
  <2>1. /\ job.at \in {"requested", "unrequested"}
        /\ job' = Idle /\ saved' = run' /\ UNCHANGED <<store, episode>>
        /\ run'.approval = IF job.at = "requested" THEN store.offer
                           ELSE NoRequest
        /\ run'.cycle = job.cycle /\ run'.history = run.history
    BY <1>8, RequestedStep
  <2>2. /\ job.at = "requested" => store.offer.kind = "validate"
        /\ store.question = 0
    BY <2>1 DEF Tied, OpenFits, OneIsOpen, Unasked
  <2>3. job.at = "requested" => Remembered(run.history, run.cycle.attempt)'
    BY <2>1 DEF Remembered, RememberedIn
  <2>. QED
    BY <2>1, <2>2, <2>3 DEF RepairsAreNew
<1>9. ASSUME NEW failure \in Failures \union {"none"},
             GrantValidation(failure)
      PROVE  Recalling'
  <2> DEFINE t == ObserveValidation(run.history, run.cycle.attempt, MaxRepairs,
                                    failure)
  <2>1. /\ saved = run /\ store.question = 0
        /\ run.approval.kind = "validate" /\ run.approval = store.offer
        /\ store'.question = store.question /\ store'.offer = NoRequest
        /\ episode' = IF failure # "none" THEN [episode EXCEPT !.failed = @ + 1]
                      ELSE IF run.cycle.next = Len(Commands) THEN NewEpisode
                      ELSE episode
    BY <1>9, GrantValidationStep DEF Tied, IdleIsSaved, OneIsOpen
  <2>2. Remembered(run.history, run.cycle.attempt)
    BY <2>1
  <2>3. episode'.tried =
          IF failure = "none" /\ run.cycle.next = Len(Commands) THEN <<>>
          ELSE episode.tried
    BY <2>1 DEF NewEpisode, TypeInv
  <2>4. RepairsAreNew'
    BY <2>3 DEF RepairsAreNew
  <2>5. CASE /\ failure = "none" /\ run.cycle.next < Len(Commands)
             /\ Stands(run, run') /\ saved' = saved
             /\ run'.history = run.history
             /\ job'.at = "request" /\ job'.kind = "validate"
             /\ Advanced(job'.cycle)
    <3>1. episode'.tried = episode.tried
      BY <2>3, <2>5, LengthType
    <3>2. job'.cycle.attempt = run.cycle.attempt
      BY <2>5 DEF Advanced
    <3>3. Remembered(run.history, job.cycle.attempt)'
      BY <2>2, <2>5, <3>1, <3>2 DEF Remembered, RememberedIn
    <3>. QED
      BY <2>1, <2>4, <2>5, <3>3
  <2>6. CASE saved' = run' /\ job' = Idle /\ run'.approval = NoRequest
    BY <2>1, <2>4, <2>6
  <2>7. CASE /\ failure # "none" \/ run.cycle.next = Len(Commands)
             /\ t.stop = "none"
             /\ Stands(run, run') /\ saved' = saved
             /\ job'.at \in {"loop", "unconfigured", "exhausted"}
             /\ job'.kind = "validate" /\ job'.repair = t
    <3>1. /\ t.required = (failure # "none") /\ t.attempt = run.cycle.attempt
          /\ DOMAIN run.history \subseteq DOMAIN t.history
          /\ \A k \in DOMAIN run.history :
               t.history[k].proposal = run.history[k].proposal
      BY <2>7, ObserveValidationResult, ObservedKeepsProposals
    <3> HIDE DEF t
    <3>2. CASE failure = "none"
      <4>1. episode'.tried = <<>>
        BY <2>3, <2>7, <3>2
      <4>. QED
        BY <2>1, <2>4, <2>7, <4>1 DEF Waiting
    <3>3. CASE failure # "none"
      <4>1. episode'.tried = episode.tried
        BY <2>3, <3>3
      <4>2. Remembered(job'.repair.history, job'.repair.attempt)
        BY <2>2, <2>7, <3>1 DEF Remembered, RememberedIn
      <4>3. Remembered(job.repair.history, job.repair.attempt)'
        BY <4>1, <4>2 DEF Remembered, RememberedIn
      <4>4. job'.repair.required
        BY <2>7, <3>1, <3>3
      <4>. QED
        BY <2>1, <2>4, <2>7, <4>3, <4>4 DEF Waiting
    <3>. QED
      BY <3>2, <3>3
  <2>. QED
    BY <1>9, <2>5, <2>6, <2>7, GrantValidationStep
<1>10. CASE ValidationEnds
  <2>1. /\ job.at \in {"unconfigured", "exhausted"}
        /\ UNCHANGED <<store, episode>> /\ saved' = run' /\ job' = Idle
        /\ run'.approval = NoRequest
    BY <1>10, ValidationEndsStep
  <2>2. store.question = 0
    BY <2>1 DEF Tied, OneIsOpen, Unasked
  <2>. QED
    BY <2>1, <2>2 DEF RepairsAreNew
<1>11. CASE ValidatedLoops
  BY <1>11, RecallingLoop DEF ValidatedLoops
<1>12. CASE Answer
  <2>1. /\ job.at = "idle" /\ store.question # 0 /\ saved = run
        /\ store.offer = NoRequest
        /\ UNCHANGED <<saved, episode>>
        /\ store'.offer = store.offer /\ store'.question = 0
        /\ Stands(run, run') /\ run'.history = run.history
        /\ job'.at = "loop" /\ job'.kind = "answer"
        /\ job'.repair = ActiveRepair(run)
    BY <1>12, AnswerStep DEF Tied, IdleIsSaved, OneIsOpen
  <2>2. /\ job'.repair.required = run.repair.required
        /\ job'.repair.history = run.history
        /\ run.repair.required => job'.repair.attempt = run.repair.attempt
    <3>1. run \in Runs
      BY DEF TypeInv
    <3>2. ActiveRepair(run).history = run.history
      BY DEF ActiveRepair, Transition
    <3>. QED
      BY <2>1, <3>1, <3>2, ActiveRepairType
  <2>3. \/ episode'.tried = <<>>
        \/ /\ job'.repair.required
           /\ Remembered(job.repair.history, job.repair.attempt)'
    BY <2>1, <2>2 DEF Remembered, RememberedIn
  <2>. QED
    BY <2>1, <2>2, <2>3 DEF Waiting, RepairsAreNew
<1>13. CASE AnsweredLoops
  BY <1>13, RecallingLoop DEF AnsweredLoops
<1>14. CASE ContinuationSettles
  BY <1>14, RecallingSettled
<1>15. CASE Reject
  <2>1. /\ store'.offer = NoRequest /\ store'.question = store.question
        /\ episode' = episode /\ job' = Idle /\ saved' = run'
        /\ run.approval.kind \in {"write", "validate"}
        /\ run.approval = store.offer
    BY <1>15, RejectStep
  <2>2. store.question = 0
    BY <2>1 DEF Tied, OneIsOpen
  <2>. QED
    BY <2>1, <2>2 DEF RepairsAreNew
<1>16. CASE Cancel \/ Pause
  <2>1. UNCHANGED <<store, job, episode>> /\ Kept(run, run') /\ saved' = run'
    BY <1>16, StopStep
  <2>. QED
    BY <2>1 DEF RepairsAreNew, Remembered, RememberedIn, Waiting
<1>17. CASE Resume
  <2>1. /\ job.at = "idle" /\ UNCHANGED <<store, episode>>
        /\ run'.approval = run.approval /\ run'.cycle = run.cycle
        /\ run'.pending = run.pending /\ run'.repair = run.repair
        /\ run'.history = run.history /\ saved' = run'
        /\ \/ job' = Idle
           \/ /\ store.question = 0
              /\ job'.at = "start" /\ job'.kind = "resumed"
    BY <1>17, ResumeStep
  <2>. QED
    BY <2>1 DEF RepairsAreNew, Remembered, RememberedIn
<1>18. CASE Crash
  <2>1. /\ store' = store /\ Kept(saved, run') /\ saved' = run' /\ job' = Idle
        /\ episode' = IF job.repair.required /\ ~ saved.repair.required
                      THEN NewEpisode ELSE episode
    BY <1>18, CrashStep
  <2>2. CASE job.repair.required /\ ~ saved.repair.required
    <3>1. episode'.tried = <<>>
      BY <2>1, <2>2 DEF NewEpisode
    <3>2. \A h, n : Remembered(h, n)'
      BY <3>1 DEF Remembered, RememberedIn
    <3>. QED
      BY <2>1, <3>1, <3>2 DEF RepairsAreNew
  <2>3. CASE ~ (job.repair.required /\ ~ saved.repair.required)
    <3>1. episode' = episode
      BY <2>1, <2>3
    <3>2. RequestRecalls(saved)
      OBVIOUS
    <3>5. /\ run'.approval = saved.approval /\ run'.history = saved.history
          /\ run'.pending = saved.pending /\ run'.cycle = saved.cycle
          /\ run'.repair = saved.repair
      BY <2>1
    <3>6. RequestRecalls(run)'
      BY <2>1, <3>1, <3>2, <3>5 DEF Remembered, RememberedIn
    <3>7. RequestRecalls(saved)'
      BY <2>1, <3>6
    <3>3. store.question # 0 =>
            Recalled(saved.repair.required, saved.history, saved.repair.attempt)
      <4> SUFFICES ASSUME store.question # 0
                   PROVE  Recalled(saved.repair.required, saved.history,
                                   saved.repair.attempt)
        OBVIOUS
      <4>1. CASE job.at = "idle"
        BY <4>1 DEF Tied, IdleIsSaved
      <4>2. CASE Looping
        <5>1. CASE job.kind \in {"fresh", "resumed"}
          BY <4>2, <5>1
        <5>2. CASE job.kind = "validate"
          BY <2>3, <4>2, <5>2 DEF Counting, LoopCounts
        <5>3. CASE job.kind = "answer"
          BY <4>2, <5>3 DEF Counting, LoopCounts
        <5>. QED
          BY <4>2, <5>1, <5>2, <5>3 DEF Tied, KindsFit
      <4>3. job.at \notin Unasked
        BY DEF Tied, OneIsOpen
      <4>4. job.at \in {"idle", "loop", "settle"} \union Unasked
        BY CountsType
      <4>. QED
        BY <4>1, <4>2, <4>3, <4>4
    <3>4. store'.question # 0 => Recalled(run.repair.required, run.history,
                                          run.repair.attempt)'
      BY <2>1, <3>1, <3>3 DEF Remembered, RememberedIn
    <3>. QED
      BY <2>1, <3>1, <3>4, <3>6, <3>7 DEF RepairsAreNew
  <2>. QED
    BY <2>2, <2>3
<1>19. CASE OutsideEdit
  <2>1. UNCHANGED <<run, saved, store, job, episode>>
    BY <1>19, OutsideEditStep
  <2>. QED
    BY <2>1 DEF RepairsAreNew, Remembered, RememberedIn, Waiting
<1>20. CASE UNCHANGED vars
  BY <1>20 DEF vars, RepairsAreNew, Remembered, RememberedIn, Waiting
<1>. QED
  BY <1>1, <1>2, <1>3, <1>4, <1>5, <1>6, <1>7, <1>8, <1>9, <1>10, <1>11,
     <1>12, <1>13, <1>14, <1>15, <1>16, <1>17, <1>18, <1>19, <1>20 DEF Next

-----------------------------------------------------------------------------
LEMMA CountingHolds == Spec => []Counting
  BY CountingInit, CountingNext, TypeInvHolds, TiedHolds, PTL DEF Spec

(* Between two passes of the last command, or two resumes of the run, no   *)
(* write is offered twice as a repair, neither the same hunks nor the same *)
(* whole content, whatever the file holds: through refreshed approvals,    *)
(* answered questions, stops, restarts and edits by others the fingerprint *)
(* of every attempt stays in the repair history, and attempts only grow    *)
(* (blocked_agent_repair_fingerprints, observe_agent_repair_proposal).  It *)
(* says nothing of what two writes leave: different hunks, or hunks and a  *)
(* whole content, may leave the same content.                              *)
THEOREM RepairsAreNeverRepeated == Spec => []RepairsAreNew
<1>1. Recalling => RepairsAreNew
  BY DEF Recalling
<1>2. Spec => []Recalling
  BY RecallingInit, RecallingNext, TypeInvHolds, TiedHolds, CountingHolds, PTL
     DEF Spec
<1>. QED
  BY <1>1, <1>2, PTL
=============================================================================
